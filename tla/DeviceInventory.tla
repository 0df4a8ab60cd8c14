--------------------------- MODULE DeviceInventory ---------------------------
(* The inventory tables and the discovery runs that write them.            *)
(*                                                                         *)
(* A session is the run of one discovery job over its targets, and a turn   *)
(* is one target: everything from the upsert of the device to the commit    *)
(* of the progress callback is one transaction.  Its statements read what   *)
(* is committed and what it wrote itself (READ COMMITTED); an UPDATE of a   *)
(* device takes the row's lock until the transaction ends.  Devices are     *)
(* looked up and then inserted, nothing makes an identity unique; names of  *)
(* interfaces within a device, and pairs of linked interfaces, are unique   *)
(* by constraint.  No operation deletes a device.                           *)
EXTENDS Naturals, Sequences, FiniteSets

CONSTANTS
  Sessions,    \* discovery runs
  Addresses,   \* management addresses
  Serials,     \* serial numbers
  Ports,       \* interface names that devices report
  Macs,        \* management MAC addresses
  None,        \* a NULL column, no lock, no row
  Unknown,     \* the interface name "unknown" that discovery makes up
  Targets,     \* the expanded targets of each session, in order
  Reports,     \* what a target may answer
  MaxFails     \* bound: turns that end in an error of their own

Names == Ports \cup {Unknown}

NeighborFact == [port : Ports, ip : Addresses, remote : Ports \cup {None}]

(* What one collection returns: whether it raised, the strings that tell a  *)
(* real answer from none, the facts, and what the local ARP table, OUI and  *)
(* reverse DNS say of an address that gave none.                            *)
Report == [raised : BOOLEAN, descr : BOOLEAN, serial : Serials \cup {None},
           host : {"name", "bare"}, vendor : {"vendor", "unknown"}, mac : Macs \cup {None},
           ifaces : SUBSET Ports, lldp : Seq(NeighborFact),
           fdb : Seq([port : Ports, mac : Macs]), arp : Seq([port : Ports, ip : Addresses]),
           dns : {"name", "bare"}, oui : {"vendor", "unknown"}]

(* No interface, no description or model, and no host name but the address. *)
IsGenericSignal(r) == r.ifaces = {} /\ ~r.descr /\ r.host = "bare"
Failed(r) == r.raised \/ IsGenericSignal(r)

ASSUME InventoryAssumption ==
  /\ None \notin Sessions \cup Addresses \cup Serials \cup Names \cup Macs \cup {"vendor", "unknown"}
  /\ Unknown \notin Ports
  /\ Targets \in [Sessions -> Seq(Addresses)]
  /\ \A a \in Addresses : Reports[a] \subseteq Report
  /\ MaxFails \in Nat

(* A device row is [ip, serial, host, vendor, mac, attrs].  host, vendor and *)
(* the other identity strings are abstracted to what _prefer_str tells      *)
(* apart: "bare" is an address or a made-up host name; attrs to the keys of *)
(* the JSON object: the facts of a collection, or the mark of an Unknown    *)
(* Device.                                                                  *)
VARIABLES
  dev,     \* committed devices: id -> row
  ifs,     \* committed interfaces: [id, dev, name]
  links,   \* committed links: [ends, method], the ends being two ids of interfaces
  adj,     \* committed FDB, ARP and LLDP rows: device id -> what the last turn stored
  owner,   \* which session holds the lock of a device row
  pc, turn, report, loaded, cur, todo, index,   \* each session's control and locals
  tx,      \* each session's uncommitted writes
  fails

vars == <<dev, ifs, links, adj, owner, pc, turn, report, loaded, cur, todo, index, tx, fails>>
tables == <<dev, ifs, links, adj>>

NoWrites == [dev |-> <<>>, ifs |-> {}, gone |-> {}, links |-> {}, adj |-> <<>>]

-----------------------------------------------------------------------------
(* What a session sees: the committed rows under its own writes. *)

Merged(over, under) == [d \in DOMAIN over \cup DOMAIN under |->
                          IF d \in DOMAIN over THEN over[d] ELSE under[d]]
Devices(s) == Merged(tx[s].dev, dev)
Ifaces(s) == {i \in ifs : i.id \notin tx[s].gone} \cup tx[s].ifs
(* A link goes with either of its interfaces (ON DELETE CASCADE); one that  *)
(* was upserted replaces the row it found.                                  *)
Links(s) == {l \in links : l.ends \cap tx[s].gone = {}
                           /\ \A m \in tx[s].links : m.ends # l.ends} \cup tx[s].links

Target(s) == Targets[s][turn[s]]
(* Keeps the richer of two identity strings. *)
PreferStr(new, old, empty) == IF new \in empty THEN (IF old = None THEN new ELSE old) ELSE new
(* A column that is only replaced by a value that is set. *)
OrElse(new, old) == IF new = None THEN old ELSE new

(* The Device that a turn upserts for its target: what was collected, or an *)
(* Unknown Device classified from outside.                                  *)
Entity(s) ==
  LET r == report[s]
  IN  IF Failed(r)
      THEN [ip |-> Target(s), serial |-> None, host |-> r.dns, vendor |-> r.oui,
            mac |-> r.mac, attrs |-> {"auto"}]
      ELSE [ip |-> Target(s), serial |-> r.serial, host |-> r.host, vendor |-> r.vendor,
            mac |-> r.mac, attrs |-> {"facts"}]
(* The stub for a neighbour of which only name and address are known. *)
Stub(n) == [ip |-> n.ip, serial |-> None, host |-> "bare", vendor |-> "unknown",
            mac |-> None, attrs |-> {}]
Want(s) == IF todo[s] = <<>> THEN Entity(s) ELSE Stub(Head(todo[s]))

(* The rows that upsert_by_identity finds: by serial and vendor, and when   *)
(* there is none by address.                                                *)
Found(s) ==
  LET w == Want(s)
      rows == Devices(s)
      bySerial == {d \in DOMAIN rows : w.serial # None /\ rows[d].serial = w.serial
                                       /\ rows[d].vendor = w.vendor}
  IN  IF bySerial # {} THEN bySerial ELSE {d \in DOMAIN rows : rows[d].ip = w.ip}

\* Mutant: every column is assigned, as before the stubs were merged.
UpsertedPlain(w, old) == w

(* The row the session means to have after the upsert of w over old. *)
Upserted(w, old) ==
  [ip |-> OrElse(w.ip, old.ip), serial |-> OrElse(w.serial, old.serial),
   host |-> PreferStr(w.host, old.host, {}),
   vendor |-> PreferStr(w.vendor, old.vendor, {"unknown"}),
   mac |-> OrElse(w.mac, old.mac),
   attrs |-> (IF w.attrs # {} /\ "auto" \notin w.attrs THEN old.attrs \ {"auto"} ELSE old.attrs)
             \cup w.attrs]
\* Mutant: last_seen_at is not written.
IsUpdateIfChanged(want, was) == want # was

(* last_seen_at is assigned last: an upsert always has something to UPDATE. *)
IsUpdate(want, was) == TRUE

(* UPDATE names only the columns that differ from the row as it was loaded. *)
Written(want, was, now) == [c \in DOMAIN now |-> IF want[c] # was[c] THEN want[c] ELSE now[c]]

\* Mutant: delete all, insert all, as before 1.3.4.
ReplaceAnew(s, d, names, k, w) ==
  LET gone == {i \in Ifaces(s) : i.dev = d}
      lost == {i.id : i \in gone}
  IN  [w EXCEPT !.ifs = (@ \ gone) \cup {[id |-> <<s, turn[s], k, n>>, dev |-> d, name |-> n] : n \in names},
                !.gone = @ \cup lost, !.links = {l \in @ : l.ends \cap lost = {}}]

(* replace_for_device: interfaces by name keep their id, new ones get one,  *)
(* the others are deleted.                                                  *)
Replace(s, d, names, k, w) ==
  LET here == {i \in Ifaces(s) : i.dev = d}
      gone == {i \in here : i.name \notin names}
      fresh == {[id |-> <<s, turn[s], k, n>>, dev |-> d, name |-> n] :
                  n \in names \ {i.name : i \in here}}
      lost == {i.id : i \in gone}
  IN  [w EXCEPT !.ifs = (@ \ gone) \cup fresh, !.gone = @ \cup lost,
                !.links = {l \in @ : l.ends \cap lost = {}}]

(* The neighbours that links are made from: the strongest evidence there    *)
(* is.  FDB and ARP only speak of devices this run has had a turn of; an    *)
(* entry for another has no address, and the loop passes over it.           *)
Neighbors(s) ==
  LET r == report[s]
      known(m) == {a \in DOMAIN index[s] : index[s][a].mac = m}
      \* the last device of the run with a MAC hides the others
      latest(m) == CHOOSE a \in known(m) : \A b \in known(m) : index[s][b].at <= index[s][a].at
      fdbFacts == [i \in DOMAIN r.fdb |-> [port |-> r.fdb[i].port, remote |-> None,
                     ip |-> IF known(r.fdb[i].mac) = {} THEN None
                            ELSE index[s][latest(r.fdb[i].mac)].ip]]
      arpFacts == [i \in DOMAIN r.arp |-> [port |-> r.arp[i].port, remote |-> None,
                     ip |-> IF r.arp[i].ip \in DOMAIN index[s] THEN r.arp[i].ip ELSE None]]
  IN  IF r.lldp # <<>> THEN r.lldp ELSE IF r.fdb # <<>> THEN fdbFacts ELSE arpFacts
Method(s) == IF report[s].lldp # <<>> THEN "lldp" ELSE IF report[s].fdb # <<>> THEN "fdb" ELSE "arp"

-----------------------------------------------------------------------------
Init ==
  /\ dev = <<>> /\ ifs = {} /\ links = {} /\ adj = <<>> /\ owner = <<>> /\ fails = 0
  /\ pc = [s \in Sessions |-> "next"]
  /\ turn = [s \in Sessions |-> 1]
  /\ report = [s \in Sessions |-> None]
  /\ loaded = [s \in Sessions |-> None]
  /\ cur = [s \in Sessions |-> None]
  /\ todo = [s \in Sessions |-> <<>>]
  /\ index = [s \in Sessions |-> <<>>]
  /\ tx = [s \in Sessions |-> NoWrites]

Goto(s, label) == pc' = [pc EXCEPT ![s] = label]
Free(s, d) == d \in DOMAIN owner => owner[d] = s
\* Mutant: a turn ends without the end of its transaction.
UnlockedNever(s) == owner

Unlocked(s) == [d \in {e \in DOMAIN owner : owner[e] # s} |-> owner[d]]

(* The end of a turn, committed or rolled back. *)
EndTurn(s) ==
  /\ owner' = Unlocked(s)
  /\ tx' = [tx EXCEPT ![s] = NoWrites]
  /\ turn' = [turn EXCEPT ![s] = @ + 1]
  /\ report' = [report EXCEPT ![s] = None]
  /\ loaded' = [loaded EXCEPT ![s] = None]
  /\ cur' = [cur EXCEPT ![s] = None]
  /\ todo' = [todo EXCEPT ![s] = <<>>]
  /\ Goto(s, "next")

(* The target does not answer the probe. *)
Skip(s) ==
  /\ pc[s] = "next" /\ turn[s] <= Len(Targets[s])
  /\ turn' = [turn EXCEPT ![s] = @ + 1]
  /\ UNCHANGED <<tables, owner, pc, report, loaded, cur, todo, index, tx, fails>>

Collect(s) ==
  /\ pc[s] = "next" /\ turn[s] <= Len(Targets[s])
  /\ \E r \in Reports[Target(s)] : report' = [report EXCEPT ![s] = r]
  /\ Goto(s, "select")
  /\ UNCHANGED <<tables, owner, turn, loaded, cur, todo, index, tx, fails>>

(* A neighbour behind a port of the device, with an address. *)
Linkable(s, n) == n.port \in report[s].ifaces /\ n.ip # None

(* _materialize_links passes over any other. *)
SkipNeighbor(s) ==
  /\ pc[s] = "select" /\ todo[s] # <<>> /\ ~Linkable(s, Head(todo[s]))
  /\ todo' = [todo EXCEPT ![s] = Tail(@)]
  /\ Goto(s, IF Tail(todo[s]) = <<>> THEN "save" ELSE "select")
  /\ UNCHANGED <<tables, owner, turn, report, loaded, cur, index, tx, fails>>

Selecting(s) == pc[s] = "select" /\ (todo[s] # <<>> => Linkable(s, Head(todo[s])))

(* upsert_by_identity up to its last query. *)
Select(s) ==
  /\ Selecting(s)
  /\ Cardinality(Found(s)) <= 1
  /\ loaded' = [loaded EXCEPT ![s] =
                  IF Found(s) = {} THEN None
                  ELSE LET d == CHOOSE d \in Found(s) : TRUE IN [id |-> d, row |-> Devices(s)[d]]]
  /\ Goto(s, "upsert")
  /\ UNCHANGED <<tables, owner, turn, report, cur, todo, index, tx, fails>>

(* Its flush: INSERT, or UPDATE once the row is not locked by another; and  *)
(* for the target itself what follows with it.                              *)
Upsert(s) ==
  LET w == Want(s)
      id == IF loaded[s] = None THEN <<s, turn[s], Len(todo[s])>> ELSE loaded[s].id
      want == IF loaded[s] = None THEN w ELSE Upserted(w, loaded[s].row)
      own == todo[s] = <<>>
      locks == loaded[s] = None \/ IsUpdate(want, loaded[s].row)
  IN  /\ pc[s] = "upsert" /\ (locks => Free(s, id))
      /\ owner' = IF locks THEN Merged([d \in {id} |-> s], owner) ELSE owner
      /\ tx' = [tx EXCEPT ![s].dev = Merged([d \in {id} |->
                  IF loaded[s] = None THEN w ELSE Written(want, loaded[s].row, Devices(s)[id])], @)]
      /\ loaded' = [loaded EXCEPT ![s] = [id |-> id, row |-> want]]
      /\ cur' = IF own THEN [cur EXCEPT ![s] = id] ELSE cur
      /\ index' = IF ~own THEN index
                  ELSE [index EXCEPT ![s] =
                          Merged([a \in {Target(s)} |-> [mac |-> want.mac, ip |-> want.ip, at |-> turn[s]]], @)]
      /\ Goto(s, IF ~own THEN "connect" ELSE IF Failed(report[s]) THEN "save" ELSE "store")
      /\ UNCHANGED <<tables, turn, report, todo, fails>>

(* Interfaces, unless none were reported, and the adjacency tables, which   *)
(* are replaced even by nothing.                                            *)
Store(s) ==
  LET w == IF report[s].ifaces = {} THEN tx[s] ELSE Replace(s, cur[s], report[s].ifaces, 0, tx[s])
      rows == Merged([d \in {cur[s]} |-> [lldp |-> report[s].lldp, fdb |-> report[s].fdb,
                                          arp |-> report[s].arp]], tx[s].adj)
  IN  /\ pc[s] = "store"
      /\ tx' = [tx EXCEPT ![s] = [w EXCEPT !.adj = rows]]
      /\ todo' = [todo EXCEPT ![s] = Neighbors(s)]
      /\ Goto(s, IF Neighbors(s) = <<>> THEN "save" ELSE "select")
      /\ UNCHANGED <<tables, owner, turn, report, loaded, cur, index, fails>>

(* One neighbour of _materialize_links once its device is upserted: its     *)
(* interface, made up if need be, and the link.                             *)
Connect(s) ==
  LET n == Head(todo[s])
      d == loaded[s].id
      remotes == {i \in Ifaces(s) : i.dev = d}
      name == IF n.remote = None THEN Unknown ELSE n.remote
      w == IF n.remote # None /\ \E i \in remotes : i.name = name THEN tx[s]
           ELSE Replace(s, d, {i.name : i \in remotes} \cup {name}, Len(todo[s]), tx[s])
      end(e, p) == (CHOOSE i \in {j \in ifs : j.id \notin w.gone} \cup w.ifs :
                      i.dev = e /\ i.name = p).id
      ends == {end(cur[s], n.port), end(d, name)}
  IN  /\ pc[s] = "connect"
      /\ tx' = [tx EXCEPT ![s] = [w EXCEPT !.links =
                  {l \in @ : l.ends # ends} \cup {[ends |-> ends, method |-> Method(s)]}]]
      /\ todo' = [todo EXCEPT ![s] = Tail(@)]
      /\ Goto(s, IF Tail(todo[s]) = <<>> THEN "save" ELSE "select")
      /\ UNCHANGED <<tables, owner, turn, report, loaded, cur, index, fails>>

(* The progress callback commits the turn. *)
Commit(s) ==
  /\ pc[s] = "save"
  /\ dev' = Devices(s) /\ ifs' = Ifaces(s) /\ links' = Links(s) /\ adj' = Merged(tx[s].adj, adj)
  /\ EndTurn(s)
  /\ UNCHANGED <<index, fails>>

RolledBack(s) == EndTurn(s) /\ UNCHANGED <<tables, index>>

(* scalar_one_or_none raises when two devices share the identity. *)
Ambiguous(s) ==
  /\ Selecting(s) /\ Cardinality(Found(s)) > 1
  /\ RolledBack(s) /\ UNCHANGED fails

Waits(s, t) == pc[s] = "upsert" /\ loaded[s] # None /\ ~Free(s, loaded[s].id)
               /\ owner[loaded[s].id] = t
(* PostgreSQL aborts a transaction that closes a cycle of waits. *)
Deadlocked(s) ==
  \E cycle \in SUBSET Sessions :
    /\ s \in cycle
    /\ \A t \in cycle : \E u \in cycle : Waits(t, u)
    /\ \A u \in cycle : \E t \in cycle : Waits(t, u)
Deadlock(s) == Deadlocked(s) /\ RolledBack(s) /\ UNCHANGED fails

(* Any other error of a target's turn, or the death of the process. *)
Fail(s) ==
  /\ pc[s] # "next" /\ fails < MaxFails
  /\ RolledBack(s) /\ fails' = fails + 1

Progress(s) == \/ Skip(s) \/ Collect(s) \/ SkipNeighbor(s) \/ Select(s) \/ Upsert(s) \/ Store(s)
               \/ Connect(s) \/ Commit(s) \/ Ambiguous(s) \/ Deadlock(s)
Next == \E s \in Sessions : Progress(s) \/ Fail(s)

Spec == Init /\ [][Next]_vars
FairSpec == Spec /\ \A s \in Sessions : WF_vars(Progress(s))

-----------------------------------------------------------------------------
(* The unique constraints are never in the way, although every table is     *)
(* read before it is inserted into: whatever two runs have written so far,  *)
(* committed or not, names each interface of a device once and links each   *)
(* pair of interfaces once.  It rests on the UPDATE of a device, which      *)
(* last_seen_at makes unconditional, coming first in every turn and for     *)
(* every neighbour.                                                         *)
NoUniqueViolation ==
  /\ \A s, t \in Sessions : \A i \in Ifaces(s), j \in Ifaces(t) :
       i.dev = j.dev /\ i.name = j.name => i.id = j.id \/ i.id \in tx[t].gone \/ j.id \in tx[s].gone
  /\ \A s, t \in Sessions : s # t => \A l \in tx[s].links, m \in tx[t].links : l.ends # m.ends

(* A committed link joins two interfaces that exist, whichever of them      *)
(* another run was deleting.                                                *)
LinkEndsExist == \A l \in links : l.ends \subseteq {i.id : i \in ifs}

(* An upsert never takes back what is known of a device: stubs of           *)
(* neighbours and Unknown Devices leave vendor, serial and MAC, even when   *)
(* they were computed from a row that a richer turn has rewritten since.    *)
IdentityKept ==
  [][\A d \in DOMAIN dev :
       /\ dev[d].vendor = "vendor" => dev'[d].vendor = "vendor"
       /\ dev[d].serial # None => dev'[d].serial # None
       /\ dev[d].mac # None => dev'[d].mac # None]_vars

(* An interface keeps its id from commit to commit, whoever commits, unless *)
(* the turn is of its own device and the answer does not list it: then the  *)
(* interface goes, and one of its name may come again in the same turn, as  *)
(* "unknown" does of a device that sees itself in its FDB.                  *)
StableIds ==
  [][\A i \in ifs, j \in ifs' :
       i.dev = j.dev /\ i.name = j.name =>
         \/ i.id = j.id
         \/ \E s \in Sessions : Commit(s) /\ cur[s] = i.dev /\ i.name \notin report[s].ifaces]_vars

(* Every run comes to the end of its targets: turns that lock the same      *)
(* devices in different orders do not wait for each other for ever.         *)
RunsEnd == \A s \in Sessions : <>(turn[s] > Len(Targets[s]) /\ pc[s] = "next")
=============================================================================
