----------------------------- MODULE SnapshotDiff -----------------------------
(* _create_snapshot at the end of a discovery run, while other sessions     *)
(* commit, and the comparison of two stored snapshots by SnapshotComparer,  *)
(* which matches their items by keys made of their fields.                  *)
(*                                                                          *)
(* Every device has one address, one interface and, once discovery has      *)
(* learned it, a serial number.                                             *)
EXTENDS Naturals, Sequences, FiniteSets

CONSTANTS
  SnapDevices, Hostnames, LinkIds, NoSerial,
  MaxSnapshots,  \* bound: snapshots stored
  MaxChanges     \* bound: commits of other sessions

ASSUME SnapAssumption == MaxSnapshots \in Nat /\ MaxChanges \in Nat

VARIABLES
  inventory,  \* rows of devices and their interfaces
  wires,      \* rows of links: the speed of each
  taking,     \* the payload that is being put together
  stored,     \* the snapshots
  diff,       \* the last comparison: [left, right, added, removed, changed]
  changes

snapVars == <<inventory, wires, taking, stored, diff, changes>>

NotTaking == [step |-> "none", devices |-> {}, links |-> {}, interfaces |-> {}, todo |-> {}]
NoDiff == [left |-> NotTaking, right |-> NotTaking, added |-> {}, removed |-> {}, changed |-> {}]

SnapInit ==
  /\ inventory \in [SnapDevices -> [serial : {NoSerial}, hostname : Hostnames, oper : {"up"}]]
  /\ wires = [l \in {} |-> "1G"]
  /\ taking = NotTaking /\ stored = <<>> /\ diff = NoDiff /\ changes = 0

(* Commits of other sessions: a serial number learned, a device renamed, an *)
(* interface up or down, a link found, lost or at another speed.            *)
Changes == changes < MaxChanges /\ changes' = changes + 1 /\ UNCHANGED <<taking, stored, diff>>

DeviceChanges ==
  /\ Changes
  /\ \E d \in SnapDevices :
       \/ inventory' = [inventory EXCEPT ![d].serial = d]
       \/ \E h \in Hostnames : inventory' = [inventory EXCEPT ![d].hostname = h]
       \/ inventory' = [inventory EXCEPT ![d].oper = IF @ = "up" THEN "down" ELSE "up"]
  /\ UNCHANGED wires

LinkChanges ==
  /\ Changes
  /\ \E l \in LinkIds :
       \/ \E v \in {"1G", "10G"} :
            wires' = [k \in DOMAIN wires \cup {l} |-> IF k = l THEN v ELSE wires[k]]
       \/ wires' = [k \in DOMAIN wires \ {l} |-> wires[k]]
  /\ UNCHANGED inventory

(* Devices, then links, then the interfaces of one device after the other,  *)
(* under the hostname that was read with the device.                        *)
TakeDevices ==
  /\ taking.step = "none" /\ Len(stored) < MaxSnapshots
  /\ taking' = [NotTaking EXCEPT !.step = "links", !.todo = SnapDevices,
       !.devices = {[ip |-> d, serial |-> inventory[d].serial, hostname |-> inventory[d].hostname]
                      : d \in SnapDevices}]
  /\ UNCHANGED <<inventory, wires, stored, diff, changes>>

TakeLinks ==
  /\ taking.step = "links"
  /\ taking' = [taking EXCEPT !.step = "interfaces",
                  !.links = {[id |-> l, speed |-> wires[l]] : l \in DOMAIN wires}]
  /\ UNCHANGED <<inventory, wires, stored, diff, changes>>

TakeInterfaces ==
  /\ taking.step = "interfaces"
  /\ \E d \in taking.todo, item \in taking.devices :
       /\ item.ip = d
       /\ taking' = [taking EXCEPT !.todo = @ \ {d}, !.interfaces =
                       @ \cup {[device |-> item.hostname, oper |-> inventory[d].oper]}]
  /\ UNCHANGED <<inventory, wires, stored, diff, changes>>

StoreSnapshot ==
  /\ taking.step = "interfaces" /\ taking.todo = {}
  /\ stored' = Append(stored, taking) /\ taking' = NotTaking
  /\ UNCHANGED <<inventory, wires, diff, changes>>

(* The sections of a payload, as items with their keys. *)
Key(section, item) ==
  CASE section = "devices"    -> IF item.serial # NoSerial THEN <<"serial", item.serial>> ELSE <<"ip", item.ip>>
    [] section = "links"      -> <<"link", item.id>>
    [] section = "interfaces" -> <<"interface", item.device>>
Items(p) == {<<"devices", x>> : x \in p.devices} \cup {<<"links", x>> : x \in p.links}
       \cup {<<"interfaces", x>> : x \in p.interfaces}
KeyOf(i) == <<i[1], Key(i[1], i[2])>>

(* Of items with one key a map keeps the last. *)
Maps(p) == {m \in SUBSET Items(p) : /\ \A i, j \in m : KeyOf(i) = KeyOf(j) => i = j
                                    /\ \A i \in Items(p) : \E j \in m : KeyOf(i) = KeyOf(j)}

\* Mutant: an item that is in both is never compared.
ChangesOfNone(l, r) == {}

(* Pairs of items with one key and other content. *)
ChangesOf(l, r) == {c \in l \X r : KeyOf(c[1]) = KeyOf(c[2]) /\ c[1] # c[2]}
Without(l, r) == {i \in l : \A j \in r : KeyOf(i) # KeyOf(j)}

(* POST /snapshots/diff. *)
Compare ==
  /\ \E a, b \in DOMAIN stored : \E l \in Maps(stored[a]), r \in Maps(stored[b]) :
       diff' = [left |-> stored[a], right |-> stored[b], added |-> Without(r, l),
                removed |-> Without(l, r), changed |-> ChangesOf(l, r)]
  /\ UNCHANGED <<inventory, wires, taking, stored, changes>>

SnapNext == DeviceChanges \/ LinkChanges \/ TakeDevices \/ TakeLinks \/ TakeInterfaces
            \/ StoreSnapshot \/ Compare
SnapSpec == SnapInit /\ [][SnapNext]_snapVars

-----------------------------------------------------------------------------
(* A difference is complete: whenever no two items of a snapshot share a    *)
(* key, the left one with the difference applied is the right one.          *)
Keyed(p) == \A i, j \in Items(p) : KeyOf(i) = KeyOf(j) => i = j
DiffRebuilds ==
  Keyed(diff.left) /\ Keyed(diff.right) =>
    Items(diff.right) = (Items(diff.left) \ (diff.removed \cup {c[1] : c \in diff.changed}))
                        \cup diff.added \cup {c[2] : c \in diff.changed}
=============================================================================
