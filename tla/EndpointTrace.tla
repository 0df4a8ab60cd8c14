---------------------------- MODULE EndpointTrace -----------------------------
(* trace_mac: where is the endpoint with this MAC address, or this address  *)
(* or host name?  The request reads the forwarding tables, the ARP tables,  *)
(* the devices, the interfaces and the IPAM by statements of their own, the *)
(* later ones depending on what the earlier ones have found, while          *)
(* discovery replaces the tables of one device after the other.             *)
(*                                                                          *)
(* A row is [table, dev, name, mac, port, vlan]; name is an address, or the *)
(* host name of a device.                                                   *)
EXTENDS Naturals, FiniteSets

CONSTANTS
  EndpointRows, \* rows the tables may hold
  TraceMacs, TraceAddresses, TraceHosts, \* what is asked for
  FdbLimit,     \* 8000 rows of a forwarding or ARP table are read
  IpamFdbLimit, \* 5000 when the MAC address comes from the IPAM
  IfaceLimit,   \* 20000 interfaces
  MaxReplaced,  \* bound: commits of discovery during a request
  Nothing       \* None

ASSUME TraceAssumption ==
  /\ IsFiniteSet(EndpointRows) /\ FdbLimit \in Nat /\ IpamFdbLimit \in Nat /\ IfaceLimit \in Nat
  /\ MaxReplaced \in Nat
  /\ Nothing \notin EndpointRows /\ Nothing \notin TraceMacs \cup TraceAddresses \cup TraceHosts
  /\ TraceMacs \cap (TraceAddresses \cup TraceHosts) = {}

(* The columns of the tables. *)
ASSUME ColumnsAssumption == \A r \in EndpointRows :
  /\ r.table \in {"fdb", "arp", "device", "interface", "ipam"}
  /\ r.mac \notin TraceAddresses \cup TraceHosts
  /\ r.table \in {"fdb", "arp"} => r.dev # Nothing
  /\ r.table = "arp" => r.vlan = Nothing
  /\ r.table = "ipam" => r.name \notin TraceMacs \cup (TraceHosts \ TraceAddresses)

VARIABLES
  rows,     \* the tables
  trace,    \* the request: [q, at, sources, mac, connected, port, vlan, endpoint]
  staying,  \* history: rows that were there from its start on
  replaced

traceVars == <<rows, trace, staying, replaced>>

Fresh == [q |-> Nothing, at |-> "none", sources |-> {}, mac |-> Nothing,
          connected |-> Nothing, port |-> Nothing, vlan |-> Nothing, endpoint |-> Nothing]

TraceInit ==
  /\ rows \in SUBSET EndpointRows
  /\ trace = Fresh /\ staying = {} /\ replaced = 0

In(table) == {r \in rows : r.table = table}
SmallerOf(m, n) == IF m < n THEN m ELSE n

(* The first hit among the rows of an unordered SELECT with a limit: any    *)
(* hit, or none when the limit leaves all of them out.                      *)
FirstHit(all, hits, limit) ==
  (IF limit = 0 THEN {} ELSE hits)
  \cup (IF Cardinality(all \ hits) >= SmallerOf(limit, Cardinality(all)) THEN {Nothing} ELSE {})

Asks ==
  /\ trace = Fresh
  /\ \E q \in TraceMacs \cup TraceAddresses \cup TraceHosts :
       trace' = [Fresh EXCEPT !.q = q, !.at = IF q \in TraceMacs THEN "fdb" ELSE "names",
                   !.mac = IF q \in TraceMacs THEN q ELSE Nothing]
  /\ staying' = rows
  /\ UNCHANGED <<rows, replaced>>

TraceReads(step) == trace.at = step /\ UNCHANGED <<rows, staying, replaced>>
OfMac(table) == {r \in In(table) : r.mac = trace.mac /\ r.mac # Nothing}
Connects(t, r) == [t EXCEPT !.connected = r.dev, !.port = r.port, !.vlan = r.vlan]

ReadFdb ==
  /\ TraceReads("fdb")
  /\ \E r \in FirstHit(In("fdb"), OfMac("fdb"), FdbLimit) :
       trace' = IF r = Nothing THEN [trace EXCEPT !.at = "arp"]
                ELSE [Connects(trace, r) EXCEPT !.at = "arp", !.sources = {"fdb"}]

\* Mutant: the device of the ARP row replaces the one of the forwarding table.
ArpFoundAlways(t, r) ==
  [t EXCEPT !.connected = r.dev, !.port = IF t.connected = Nothing THEN r.port ELSE @]

ArpFound(t, r) ==
  IF t.connected = Nothing THEN [t EXCEPT !.connected = r.dev, !.port = r.port] ELSE t

ReadArp ==
  /\ TraceReads("arp")
  /\ \E r \in FirstHit(In("arp"), OfMac("arp"), FdbLimit) :
       trace' = IF r = Nothing THEN [trace EXCEPT !.at = "devices"]
                ELSE [ArpFound(trace, r) EXCEPT !.at = "devices", !.sources = @ \cup {"arp"}]

Missing(t, step) == IF t.sources = {} THEN [t EXCEPT !.at = step] ELSE [t EXCEPT !.at = "found"]

ReadDeviceMacs ==
  /\ TraceReads("devices")
  /\ trace' \in IF OfMac("device") = {} THEN {[trace EXCEPT !.at = "interfaces"]}
                ELSE {[trace EXCEPT !.at = "found", !.endpoint = r.dev,
                         !.sources = @ \cup {"device"}] : r \in OfMac("device")}

ReadInterfaces ==
  /\ TraceReads("interfaces")
  /\ \E r \in FirstHit(In("interface"), OfMac("interface"), IfaceLimit) :
       trace' = IF r = Nothing THEN Missing(trace, "names")
                ELSE [trace EXCEPT !.at = "found", !.endpoint = r.dev, !.sources = @ \cup {"interface"}]

(* Without a source the query is taken for an address or a host name. *)
ReadNames ==
  LET named == {r \in In("device") : r.name = trace.q}
  IN  /\ TraceReads("names")
      /\ trace' \in IF named = {} THEN {[trace EXCEPT !.at = "ipam"]}
                    ELSE {[trace EXCEPT !.at = "found", !.endpoint = r.dev, !.mac = r.mac,
                             !.sources = {"device"}] : r \in named}

(* The column holds addresses: the statement fails when it is compared with *)
(* anything else.                                                           *)
ReadIpam ==
  LET named == {r \in In("ipam") : r.name = trace.q}
  IN  /\ TraceReads("ipam")
      /\ trace' \in IF trace.q \notin TraceAddresses THEN {[trace EXCEPT !.at = "failed"]}
                    ELSE IF named = {} THEN {[trace EXCEPT !.at = "not found"]}
                    ELSE {[trace EXCEPT !.at = IF r.mac = Nothing THEN "found" ELSE "ipam fdb",
                             !.endpoint = r.dev, !.mac = r.mac, !.sources = {"ipam"}] : r \in named}

ReadIpamFdb ==
  /\ TraceReads("ipam fdb")
  /\ \E r \in FirstHit(In("fdb"), OfMac("fdb"), IpamFdbLimit) :
       trace' = IF r = Nothing THEN [trace EXCEPT !.at = "found"]
                ELSE [Connects(trace, r) EXCEPT !.at = "found", !.sources = @ \cup {"fdb"}]

(* A turn of discovery replaces what the tables say of a device; rows of    *)
(* the IPAM are nobody's.                                                   *)
TablesReplaced ==
  /\ replaced < MaxReplaced /\ replaced' = replaced + 1
  /\ \E d \in {r.dev : r \in EndpointRows}, new \in SUBSET EndpointRows :
       /\ \A r \in new : r.dev = d /\ r.table # "ipam"
       /\ rows' = {r \in rows : r.dev # d \/ r.table = "ipam"} \cup new
  /\ staying' = staying \cap rows'
  /\ UNCHANGED trace

TraceNext == Asks \/ ReadFdb \/ ReadArp \/ ReadDeviceMacs \/ ReadInterfaces \/ ReadNames
             \/ ReadIpam \/ ReadIpamFdb \/ TablesReplaced
TraceSpec == TraceInit /\ [][TraceNext]_traceVars

-----------------------------------------------------------------------------
(* The switch, port and VLAN of an answer come from one row about the MAC   *)
(* address of the answer, whichever tables changed in between; and a        *)
(* request finds nothing, or fails, only when no table held what it asks    *)
(* for all along, unless a table is longer than what is read of it.         *)
Mentions(r, q) == \/ r.table # "ipam" /\ r.mac = q
                  \/ r.table \in {"device", "ipam"} /\ r.name = q
RowsOf(t) == {r \in EndpointRows : r.table = t}
Readable == /\ \A t \in {"fdb", "arp"} : Cardinality(RowsOf(t)) <= FdbLimit
            /\ Cardinality(RowsOf("interface")) <= IfaceLimit
TraceIsGrounded ==
  /\ trace.at = "found" /\ trace.connected # Nothing =>
       \E r \in EndpointRows : /\ r.dev = trace.connected /\ r.mac = trace.mac
                               /\ r.port = trace.port /\ r.vlan = trace.vlan
  /\ trace.at \in {"not found", "failed"} /\ Readable => \A r \in staying : ~Mentions(r, trace.q)
=============================================================================
