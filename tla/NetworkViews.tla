----------------------------- MODULE NetworkViews -----------------------------
(* The requests that draw the network: the graph with its layout, the       *)
(* layout alone, the list of links and the cable map.  Each reads devices,  *)
(* interfaces and links by statements of its own, while discovery commits.  *)
(* A device is a number, in the order of hostnames; devices are never       *)
(* deleted, and a link goes with its interfaces.                            *)
EXTENDS Naturals, Sequences, FiniteSets

CONSTANTS
  ViewDevices, Ports,
  PortOf,     \* the device of each interface
  Cables,     \* pairs of interfaces that discovery may link
  Views,      \* kinds of requests
  MaxCommits  \* bound: commits of discovery and role detection

ASSUME ViewAssumption ==
  /\ ViewDevices \subseteq Nat /\ PortOf \in [Ports -> ViewDevices]
  /\ Cables \subseteq Ports \X Ports /\ MaxCommits \in Nat
  /\ Views \subseteq {"graph", "layout", "links", "cable-map"}

RankOf == [firewall |-> 0, router |-> 1, core |-> 2, distribution |-> 3, access |-> 4,
           wireless |-> 5, server |-> 6, storage |-> 6, unknown |-> 5]
RankedRoles == DOMAIN RankOf

VARIABLES
  known,    \* rows of devices: the network_role of each
  ports,    \* rows of interfaces
  cables,   \* rows of links
  view,     \* the request: [kind, todo, seen], what it has read so far
  commits

viewVars == <<known, ports, cables, view, commits>>

ViewInit ==
  /\ known = [d \in {} |-> "unknown"] /\ ports = {} /\ cables = {} /\ commits = 0
  /\ view = [kind |-> "none", todo |-> <<>>, seen |-> <<>>]

Devices == DOMAIN known
Commits == commits < MaxCommits /\ commits' = commits + 1 /\ UNCHANGED view

(* A turn of discovery links two interfaces, one perhaps of a new device.   *)
LinkFound ==
  /\ Commits
  /\ \E c \in Cables \ cables, r \in {"unknown", "access", "server", "storage"} :
       /\ cables' = cables \cup {c}
       /\ ports' = ports \cup {c[1], c[2]}
       /\ known' = [d \in Devices \cup {PortOf[c[1]], PortOf[c[2]]} |->
                      IF d \in Devices THEN known[d] ELSE r]

(* A turn names the interfaces of a device differently. *)
PortsReplaced ==
  /\ Commits
  /\ \E d \in Devices : ports' = {p \in ports : PortOf[p] # d}
  /\ cables' = {c \in cables : c[1] \in ports' /\ c[2] \in ports'}
  /\ UNCHANGED known

RoleChanged ==
  /\ Commits
  /\ \E d \in Devices, r \in {"wireless", "core"} : known' = [known EXCEPT ![d] = r]
  /\ UNCHANGED <<ports, cables>>

\* Mutant: the cable map reads the devices first, as the graph does.
ReadsDevicesFirst(kind) == IF kind = "links" THEN <<"cables", "ports">>
                           ELSE <<"devices", "cables", "ports">>

(* The statements of each request, in their order. *)
Reads(kind) == CASE kind = "links"     -> <<"cables", "ports">>
                 [] kind = "cable-map" -> <<"cables", "ports", "devices">>
                 [] OTHER              -> <<"devices", "cables", "ports">>

Ask(kind) ==
  /\ view.todo = <<>>
  /\ view' = [kind |-> kind, todo |-> Reads(kind), seen |-> <<>>]
  /\ UNCHANGED <<known, ports, cables, commits>>

Table(name) == CASE name = "devices" -> known [] name = "cables" -> cables [] OTHER -> ports

ReadTable ==
  /\ view.todo # <<>>
  /\ LET name == Head(view.todo)
     IN  view' = [view EXCEPT !.todo = Tail(@),
                    !.seen = [n \in DOMAIN @ \cup {name} |-> IF n = name THEN Table(n) ELSE @[n]]]
  /\ UNCHANGED <<known, ports, cables, commits>>

ViewNext == \/ LinkFound \/ PortsReplaced \/ RoleChanged \/ ReadTable
            \/ \E kind \in Views : Ask(kind)
ViewSpec == ViewInit /\ [][ViewNext]_viewVars

-----------------------------------------------------------------------------
(* The answer, from what was read.  A link is left out when an interface of *)
(* it is not among the interfaces.                                          *)
Answered(kind) == view.kind = kind /\ view.todo = <<>>
Edges == {c \in view.seen.cables : c[1] \in view.seen.ports /\ c[2] \in view.seen.ports}
Drawn == DOMAIN view.seen.devices

Rank(d) == RankOf[view.seen.devices[d]]

\* Mutant: devices are packed into columns by role.
RowByRole(d) == {e \in Drawn : view.seen.devices[e] = view.seen.devices[d]}

(* The devices that share a rank stand side by side, by hostname. *)
Row(d) == {e \in Drawn : Rank(e) = Rank(d)}

Layout == [d \in Drawn |->
  LET degree == Cardinality({c \in Edges : PortOf[c[1]] = d})
              + Cardinality({c \in Edges : PortOf[c[2]] = d})
  IN  [rank |-> Rank(d), column |-> Cardinality({e \in Row(d) : e < d}),
       columns |-> Cardinality(Row(d)), degree |-> degree,
       cluster |-> IF degree <= 1 /\ Rank(d) >= 5 THEN "collapse" ELSE "expand"]]

(* The cable map names the device at each end of a path, though its tables  *)
(* are read at different times: no path ends nowhere.                       *)
CableEndsNamed ==
  Answered("cable-map") =>
    \A c \in Edges : PortOf[c[1]] \in Drawn /\ PortOf[c[2]] \in Drawn

(* The layout puts each device on a place of its own, fills each rank from  *)
(* the left, knows how wide it is, and never collapses a device that joins  *)
(* others.                                                                  *)
LayoutPlacesEach ==
  Answered("graph") \/ Answered("layout") =>
    \A d \in Drawn :
      /\ Layout[d].column < Layout[d].columns
      /\ \A e \in Drawn \ {d} : Layout[e].rank = Layout[d].rank =>
           Layout[e].column # Layout[d].column /\ Layout[e].columns = Layout[d].columns
      /\ Layout[d].cluster = "collapse" =>
           \A c1, c2 \in Edges : d \in {PortOf[c1[1]], PortOf[c1[2]]}
                              /\ d \in {PortOf[c2[1]], PortOf[c2[2]]} => c1 = c2
=============================================================================
