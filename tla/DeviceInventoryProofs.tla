------------------------ MODULE DeviceInventoryProofs ------------------------
(* What the inventory tables keep for any number of discovery runs,         *)
(* targets, devices and failures.                                           *)
EXTENDS DeviceInventory, WaitCircles, SequenceTheorems

Labels == {"next", "select", "upsert", "store", "connect", "save"}

IsSeq(q) == \E S : q \in Seq(S)
IsWrites(w) == w = [dev |-> w.dev, ifs |-> w.ifs, gone |-> w.gone, links |-> w.links, adj |-> w.adj]

(* The session holds the lock of the row, as it does of what it inserted.   *)
Owned(s, d) == d \in DOMAIN owner /\ owner[d] = s

(* The interfaces a session with the writes w sees. *)
Seen(w) == {i \in ifs : i.id \notin w.gone} \cup w.ifs

Distinct(is) == \A i, j \in is : i.id = j.id \/ (i.dev = j.dev /\ i.name = j.name) => i = j

(* An id that the turn of the session has made, and not for one of the n    *)
(* neighbours that are still to come.                                       *)
Made(s, n, e) == e[1] = s /\ e[2] = turn[s] /\ e[3] \in Nat /\ e[3] \notin 1..n

(* A session writes and deletes interfaces of the devices it has locked,    *)
(* and links only these.                                                    *)
WritesOK(s, n, w) ==
  /\ IsWrites(w)
  /\ \A i \in w.ifs : Owned(s, i.dev) /\ Made(s, n, i.id) /\ i.id \notin w.gone
  /\ \A e \in w.gone : (\E i \in ifs : i.id = e) \/ Made(s, n, e)
  /\ \A i \in ifs : i.id \in w.gone => Owned(s, i.dev)
  /\ Distinct(Seen(w))
  /\ \A l \in w.links : /\ l.ends # {}
                        /\ \A e \in l.ends : \E i \in Seen(w) : i.id = e /\ Owned(s, i.dev)

(* Where a session is tells what it holds. *)
ControlOK(s) ==
  /\ pc[s] \in Labels
  /\ turn[s] \in Nat \ {0}
  /\ IsSeq(todo[s])
  /\ pc[s] # "next" => report[s] \in Report
  /\ pc[s] \in {"next", "store", "save"} => todo[s] = <<>>
  /\ pc[s] = "store" => Owned(s, cur[s])
  /\ pc[s] = "connect" => todo[s] # <<>> /\ Owned(s, loaded[s].id)
  /\ pc[s] \in {"upsert", "connect"} /\ todo[s] # <<>> => Linkable(s, Head(todo[s]))
  /\ todo[s] # <<>> => /\ Owned(s, cur[s])
                       /\ \A n \in report[s].ifaces :
                            \E i \in Ifaces(s) : i.dev = cur[s] /\ i.name = n
  /\ pc[s] # "save" /\ todo[s] = <<>> =>
       tx[s].ifs = {} /\ tx[s].gone = {} /\ tx[s].links = {}

Shape ==
  /\ DOMAIN pc = Sessions /\ pc = [s \in Sessions |-> pc[s]]
  /\ DOMAIN turn = Sessions /\ turn = [s \in Sessions |-> turn[s]]
  /\ DOMAIN report = Sessions /\ report = [s \in Sessions |-> report[s]]
  /\ DOMAIN loaded = Sessions /\ loaded = [s \in Sessions |-> loaded[s]]
  /\ DOMAIN cur = Sessions /\ cur = [s \in Sessions |-> cur[s]]
  /\ DOMAIN todo = Sessions /\ todo = [s \in Sessions |-> todo[s]]
  /\ DOMAIN tx = Sessions /\ tx = [s \in Sessions |-> tx[s]]

(* Committed ids are of turns that are over. *)
CommittedOK ==
  /\ Distinct(ifs)
  /\ \A i \in ifs, s \in Sessions : i.id[1] = s => i.id[2] \in Nat /\ i.id[2] < turn[s]

InventoryInv ==
  /\ Shape /\ CommittedOK /\ LinkEndsExist
  /\ \A s \in Sessions : ControlOK(s) /\ WritesOK(s, Len(todo[s]), tx[s])

-----------------------------------------------------------------------------
LEMMA SeenIsIfaces == \A s : Ifaces(s) = Seen(tx[s])
  BY DEF Ifaces, Seen

(* The session has the lock of d and the number k is free for new ids, when *)
(* m neighbours were to come and n are still to come.                       *)
CanReplace(s, d, k, m, n) ==
  /\ m \in Nat /\ n \in Nat /\ n <= m /\ k \in Nat /\ k \notin 1..n
  /\ turn[s] \in Nat /\ Owned(s, d) /\ WritesOK(s, m, tx[s])
  /\ \A i \in tx[s].ifs : i.id[3] # k
  /\ \A e \in tx[s].gone : Made(s, m, e) => e[3] # k

(* What it sees afterwards: every name has its interface, and only          *)
(* interfaces of the device that are not among the names are gone.          *)
Replaced(s, d, names, n, w) ==
  /\ WritesOK(s, n, w)
  /\ \A x \in names : \E i \in Seen(w) : i.dev = d /\ i.name = x
  /\ \A i \in Ifaces(s) : i.dev # d \/ i.name \in names => i \in Seen(w)

(* replace_for_device on a locked device leaves the writes in order.        *)
LEMMA ReplaceKeeps ==
  ASSUME CommittedOK, NEW s \in Sessions, NEW d, NEW names, NEW k, NEW m, NEW n,
         CanReplace(s, d, k, m, n), NEW w, w = Replace(s, d, names, k, tx[s])
  PROVE  Replaced(s, d, names, n, w)
<1> DEFINE old == tx[s]
           here == {i \in Ifaces(s) : i.dev = d}
           gone == {i \in here : i.name \notin names}
           fresh == {[id |-> <<s, turn[s], k, x>>, dev |-> d, name |-> x] :
                       x \in names \ {i.name : i \in here}}
           lost == {i.id : i \in gone}
<1> /\ m \in Nat /\ n \in Nat /\ n <= m /\ k \in Nat /\ k \notin 1..n
    /\ turn[s] \in Nat /\ Owned(s, d) /\ WritesOK(s, m, tx[s])
    /\ \A i \in tx[s].ifs : i.id[3] # k
    /\ \A e \in tx[s].gone : Made(s, m, e) => e[3] # k
  BY DEF CanReplace
<1>1. w = [old EXCEPT !.ifs = (@ \ gone) \cup fresh, !.gone = @ \cup lost,
                      !.links = {l \in @ : l.ends \cap lost = {}}]
  BY DEF Replace
<1>2. IsWrites(old) BY DEF WritesOK
<1>3. /\ w.ifs = (old.ifs \ gone) \cup fresh /\ w.gone = old.gone \cup lost
      /\ w.links = {l \in old.links : l.ends \cap lost = {}}
      /\ IsWrites(w)
  BY <1>1, <1>2 DEF IsWrites
<1>4. Ifaces(s) = Seen(old) BY SeenIsIfaces
<1>5. \A i \in fresh : /\ i.dev = d /\ i.name \in names /\ i.name \notin {j.name : j \in here}
                       /\ i.id = <<s, turn[s], k, i.name>>
  OBVIOUS
<1>6. \A i \in fresh : i.id[1] = s /\ i.id[2] = turn[s] /\ i.id[3] = k
  BY <1>5
<1>7. \A i, j \in fresh : i.id = j.id \/ i.name = j.name => i = j
  OBVIOUS
<1> HIDE DEF fresh, here, gone, lost, old
<1>8. \A i \in Seen(old) : i.id \in lost <=> i \in gone
  BY <1>4 DEF WritesOK, Distinct, lost, gone, here, old
<1>9. Seen(w) = (Seen(old) \ gone) \cup fresh
  BY <1>3, <1>8 DEF Seen
<1>10. \A i \in Seen(old) : i \notin fresh /\ \A j \in fresh : i.id # j.id
  <2>1. \A i \in ifs, j \in fresh : i.id # j.id
    BY <1>6 DEF CommittedOK
  <2>2. \A i \in old.ifs, j \in fresh : i.id # j.id
    BY <1>6 DEF old
  <2> QED BY <2>1, <2>2 DEF Seen
<1>11. \A i \in here : Owned(s, i.dev)
  BY DEF here
<1>12. \A i \in w.ifs : Owned(s, i.dev) /\ Made(s, n, i.id) /\ i.id \notin w.gone
  <2>1. ASSUME NEW i \in fresh PROVE Owned(s, i.dev) /\ Made(s, n, i.id)
    BY <1>5, <1>6, <2>1 DEF Made
  <2>2. ASSUME NEW i \in fresh PROVE i.id \notin w.gone
    <3>1. i.id \notin lost BY <1>10, <1>4, <2>2 DEF lost, gone, here
    <3>2. SUFFICES ASSUME i.id \in old.gone PROVE FALSE
      BY <1>3, <3>1
    <3>3. CASE \E j \in ifs : j.id = i.id
      BY <1>6, <2>2, <3>3 DEF CommittedOK
    <3>4. CASE Made(s, m, i.id)
      BY <1>6, <2>2, <3>2, <3>4 DEF old
    <3> QED BY <3>2, <3>3, <3>4 DEF WritesOK, old
  <2>3. ASSUME NEW i \in old.ifs, i \notin gone
        PROVE  Owned(s, i.dev) /\ Made(s, n, i.id) /\ i.id \notin w.gone
    BY <1>3, <1>8, <2>3 DEF WritesOK, old, Made, Seen
  <2> QED BY <1>3, <2>1, <2>2, <2>3
<1>13. \A e \in w.gone : (\E i \in ifs : i.id = e) \/ Made(s, n, e)
  <2>1. ASSUME NEW e \in old.gone PROVE (\E i \in ifs : i.id = e) \/ Made(s, n, e)
    BY <2>1 DEF WritesOK, old, Made
  <2>2. ASSUME NEW e \in lost PROVE (\E i \in ifs : i.id = e) \/ Made(s, n, e)
    <3>1. PICK i \in Seen(old) : i.id = e
      BY <1>4, <2>2 DEF lost, gone, here
    <3> QED BY <3>1 DEF Seen, WritesOK, old, Made
  <2> QED BY <1>3, <2>1, <2>2
<1>14. \A i \in ifs : i.id \in w.gone => Owned(s, i.dev)
  <2> SUFFICES ASSUME NEW i \in ifs, i.id \in w.gone, i.id \notin old.gone PROVE Owned(s, i.dev)
    BY DEF WritesOK, old
  <2>1. i \in gone BY <1>3, <1>8 DEF Seen
  <2> QED BY <2>1, <1>11 DEF gone
<1>15. Distinct(Seen(w))
  <2>1. ASSUME NEW i \in Seen(old), NEW j \in fresh, i.dev = j.dev, i.name = j.name PROVE FALSE
    <3>1. i \in here BY <1>4, <1>5, <2>1 DEF here
    <3> QED BY <1>5, <2>1, <3>1
  <2>2. \A i, j \in fresh : i.id = j.id \/ i.name = j.name => i = j
    BY <1>7
  <2>3. Distinct(Seen(old)) BY DEF WritesOK, old
  <2> QED BY <1>9, <1>10, <2>1, <2>2, <2>3 DEF Distinct
<1>16. \A l \in w.links : /\ l.ends # {}
                          /\ \A e \in l.ends : \E i \in Seen(w) : i.id = e /\ Owned(s, i.dev)
  <2> SUFFICES ASSUME NEW l \in w.links, NEW e \in l.ends
               PROVE  \E i \in Seen(w) : i.id = e /\ Owned(s, i.dev)
    BY <1>3 DEF WritesOK, old
  <2>1. l \in old.links /\ e \notin lost BY <1>3
  <2>2. PICK i \in Seen(old) : i.id = e /\ Owned(s, i.dev)
    BY <2>1 DEF WritesOK, old
  <2> QED BY <1>8, <1>9, <2>1, <2>2
<1>17. \A x \in names : \E i \in Seen(w) : i.dev = d /\ i.name = x
  <2> SUFFICES ASSUME NEW x \in names PROVE \E i \in Seen(w) : i.dev = d /\ i.name = x
    OBVIOUS
  <2>1. CASE x \in {j.name : j \in here}
    <3>1. PICK j \in here : j.name = x BY <2>1
    <3>2. j \in Seen(w) BY <1>4, <1>9, <3>1 DEF gone, here
    <3> QED BY <3>1, <3>2 DEF here
  <2>2. CASE x \notin {j.name : j \in here}
    <3>1. [id |-> <<s, turn[s], k, x>>, dev |-> d, name |-> x] \in fresh
      BY <2>2 DEF fresh
    <3> QED BY <1>9, <3>1
  <2> QED BY <2>1, <2>2
<1>18. \A i \in Ifaces(s) : i.dev # d \/ i.name \in names => i \in Seen(w)
  BY <1>4, <1>9 DEF gone, here
<1>19. WritesOK(s, n, w)
  BY <1>3, <1>12, <1>13, <1>14, <1>15, <1>16 DEF WritesOK
<1> QED BY <1>17, <1>18, <1>19 DEF Replaced

(* A step of the session leaves the variables of the others. *)
Others(s) == \A t \in Sessions \ {s} :
  /\ pc'[t] = pc[t] /\ turn'[t] = turn[t] /\ report'[t] = report[t] /\ loaded'[t] = loaded[t]
  /\ cur'[t] = cur[t] /\ todo'[t] = todo[t] /\ tx'[t] = tx[t]

(* While the committed interfaces stay, a session that does not step keeps  *)
(* what holds of it as long as it keeps its locks.                          *)
LEMMA LocalStep ==
  ASSUME InventoryInv, NEW s \in Sessions, UNCHANGED <<ifs, links>>, Others(s), Shape',
         turn'[s] \in Nat, turn[s] <= turn'[s],
         \A t \in Sessions \ {s} : \A d : Owned(t, d) => Owned(t, d)',
         ControlOK(s)', WritesOK(s, Len(todo[s]), tx[s])'
  PROVE  InventoryInv'
<1>1. ASSUME NEW t \in Sessions \ {s} PROVE ControlOK(t)' /\ WritesOK(t, Len(todo[t]), tx[t])'
  <2>1. ControlOK(t) /\ WritesOK(t, Len(todo[t]), tx[t]) BY DEF InventoryInv
  <2>2. /\ pc'[t] = pc[t] /\ turn'[t] = turn[t] /\ report'[t] = report[t]
        /\ loaded'[t] = loaded[t] /\ cur'[t] = cur[t] /\ todo'[t] = todo[t] /\ tx'[t] = tx[t]
    BY DEF Others
  <2>3. \A d : Owned(t, d) => Owned(t, d)' OBVIOUS
  <2>4. Ifaces(t)' = Ifaces(t) /\ Seen(tx[t])' = Seen(tx[t]) BY <2>2 DEF Ifaces, Seen
  <2>5. ControlOK(t)'
    BY <2>1, <2>2, <2>3, <2>4 DEF ControlOK, Linkable
  <2>6. WritesOK(t, Len(todo[t]), tx[t])'
    BY <2>1, <2>2, <2>3, <2>4 DEF WritesOK, Made
  <2> QED BY <2>5, <2>6
<1>2. CommittedOK'
  <2>1. \A t \in Sessions : turn'[t] \in Nat /\ turn[t] \in Nat /\ turn[t] <= turn'[t]
    BY DEF Others, InventoryInv, ControlOK
  <2> QED BY <2>1 DEF InventoryInv, CommittedOK, Distinct
<1>3. LinkEndsExist' BY DEF InventoryInv, LinkEndsExist
<1> QED BY <1>1, <1>2, <1>3 DEF InventoryInv

(* A turn that is over, committed or not. *)
LEMMA EndTurnEffect ==
  ASSUME InventoryInv, NEW s \in Sessions, EndTurn(s)
  PROVE  /\ Shape' /\ Others(s) /\ tx'[s] = NoWrites /\ turn'[s] = turn[s] + 1
         /\ pc'[s] = "next" /\ todo'[s] = <<>>
         /\ \A t \in Sessions \ {s} : \A d : Owned(t, d) => Owned(t, d)'
         /\ ControlOK(s)'
<1>1. /\ Others(s) /\ tx'[s] = NoWrites /\ turn'[s] = turn[s] + 1
      /\ pc'[s] = "next" /\ todo'[s] = <<>>
  BY DEF InventoryInv, Shape, EndTurn, Goto, Others
<1>2. Shape' BY DEF InventoryInv, Shape, EndTurn, Goto
<1>3. \A t \in Sessions \ {s} : \A d : Owned(t, d) => Owned(t, d)'
  BY DEF EndTurn, Unlocked, Owned
<1>4. ControlOK(s)'
  <2>1. IsSeq(<<>>) BY DEF IsSeq
  <2> QED BY <1>1, <2>1 DEF InventoryInv, ControlOK, Labels, NoWrites
<1> QED BY <1>1, <1>2, <1>3, <1>4

LEMMA RollbackKeeps ==
  ASSUME InventoryInv, NEW s \in Sessions, RolledBack(s)
  PROVE  InventoryInv'
<1>1. /\ Shape' /\ Others(s) /\ tx'[s] = NoWrites /\ turn'[s] = turn[s] + 1 /\ todo'[s] = <<>>
      /\ \A t \in Sessions \ {s} : \A d : Owned(t, d) => Owned(t, d)'
      /\ ControlOK(s)'
  BY EndTurnEffect DEF RolledBack
<1>2. UNCHANGED <<ifs, links>> BY DEF RolledBack, tables
<1>3. WritesOK(s, Len(todo[s]), tx[s])'
  <2>1. Distinct(ifs)' BY <1>2 DEF InventoryInv, CommittedOK, Distinct
  <2>2. (WritesOK(s, 0, NoWrites))' BY <2>1 DEF WritesOK, NoWrites, IsWrites, Distinct, Seen
  <2> QED BY <1>1, <2>2
<1>4. turn'[s] \in Nat /\ turn[s] <= turn'[s] BY <1>1 DEF InventoryInv, ControlOK
<1> QED BY <1>1, <1>2, <1>3, <1>4, LocalStep

(* What a session has locked is as committed for the others: they see and   *)
(* delete other interfaces, under ids of their own.                         *)
LEMMA Apart ==
  ASSUME InventoryInv, NEW s \in Sessions, NEW t \in Sessions, s # t
  PROVE  /\ \A i : Owned(s, i.dev) => (i \in ifs <=> i \in Seen(tx[t]))
         /\ \A i \in tx[s].ifs : i.id \notin tx[t].gone /\ \A j \in tx[t].ifs : i.id # j.id
<1>1. /\ WritesOK(s, Len(todo[s]), tx[s]) /\ WritesOK(t, Len(todo[t]), tx[t]) /\ CommittedOK
  BY DEF InventoryInv
<1>2. \A d : ~(Owned(s, d) /\ Owned(t, d)) BY DEF Owned
<1>3. \A i : Owned(s, i.dev) => (i \in ifs <=> i \in Seen(tx[t]))
  BY <1>1, <1>2 DEF WritesOK, Seen
<1>4. ASSUME NEW i \in tx[s].ifs PROVE i.id \notin tx[t].gone
  <2>1. ASSUME i.id \in tx[t].gone, NEW j \in ifs, j.id = i.id PROVE FALSE
    <3>1. j \in Seen(tx[s]) /\ i \in Seen(tx[s]) BY <1>1, <1>4, <2>1 DEF WritesOK, Seen
    <3>2. i = j BY <1>1, <2>1, <3>1 DEF WritesOK, Distinct
    <3> QED BY <1>1, <1>2, <1>4, <2>1, <3>2 DEF WritesOK
  <2> QED BY <1>1, <1>4, <2>1 DEF WritesOK, Made
<1>5. \A i \in tx[s].ifs, j \in tx[t].ifs : i.id # j.id
  BY <1>1 DEF WritesOK, Made
<1> QED BY <1>3, <1>4, <1>5

(* The commit of a turn: no other session had a hand in what it writes.     *)
LEMMA CommitKeeps ==
  ASSUME InventoryInv, NEW s \in Sessions, Commit(s)
  PROVE  InventoryInv'
<1>1. /\ Shape' /\ Others(s) /\ tx'[s] = NoWrites /\ turn'[s] = turn[s] + 1 /\ todo'[s] = <<>>
      /\ \A t \in Sessions \ {s} : \A d : Owned(t, d) => Owned(t, d)'
      /\ ControlOK(s)'
  BY EndTurnEffect DEF Commit
<1>2. ifs' = Seen(tx[s]) /\ links' = Links(s) BY SeenIsIfaces DEF Commit
<1>3. WritesOK(s, Len(todo[s]), tx[s]) BY DEF InventoryInv
<1>4. CommittedOK'
  <2>1. Distinct(ifs)' BY <1>2, <1>3 DEF WritesOK, Distinct
  <2>2. ASSUME NEW i \in ifs', NEW t \in Sessions, i.id[1] = t
        PROVE  i.id[2] \in Nat /\ i.id[2] < turn'[t]
    <3>1. \A r \in Sessions : turn[r] \in Nat /\ turn'[r] \in Nat /\ turn[r] <= turn'[r]
      BY <1>1 DEF InventoryInv, ControlOK, Others
    <3>2. CASE i \in ifs BY <2>2, <3>1, <3>2 DEF InventoryInv, CommittedOK
    <3>3. CASE i \in tx[s].ifs BY <1>1, <1>3, <2>2, <3>1, <3>3 DEF WritesOK, Made
    <3> QED BY <1>2, <3>2, <3>3 DEF Seen
  <2> QED BY <2>1, <2>2 DEF CommittedOK
<1>5. LinkEndsExist'
  <2> SUFFICES ASSUME NEW l \in links', NEW e \in l.ends PROVE \E i \in ifs' : i.id = e
    BY DEF LinkEndsExist
  <2>1. CASE l \in tx[s].links BY <1>2, <1>3, <2>1 DEF WritesOK
  <2>2. CASE l \in links /\ l.ends \cap tx[s].gone = {}
    <3>1. PICK i \in ifs : i.id = e BY <2>2 DEF InventoryInv, LinkEndsExist
    <3> QED BY <1>2, <2>2, <3>1 DEF Seen
  <2> QED BY <1>2, <2>1, <2>2 DEF Links
<1>6. WritesOK(s, Len(todo[s]), tx[s])'
  <2>1. Distinct(ifs)' BY <1>4 DEF CommittedOK
  <2>2. (WritesOK(s, 0, NoWrites))' BY <2>1 DEF WritesOK, NoWrites, IsWrites, Distinct, Seen
  <2> QED BY <1>1, <2>2
<1>7. ASSUME NEW t \in Sessions, t # s PROVE ControlOK(t)' /\ WritesOK(t, Len(todo[t]), tx[t])'
  <2>1. /\ pc'[t] = pc[t] /\ turn'[t] = turn[t] /\ report'[t] = report[t]
        /\ loaded'[t] = loaded[t] /\ cur'[t] = cur[t] /\ todo'[t] = todo[t] /\ tx'[t] = tx[t]
    BY <1>1, <1>7 DEF Others
  <2>2. \A d : Owned(t, d) => Owned(t, d)' BY <1>1, <1>7
  <2>3. /\ ControlOK(t) /\ WritesOK(t, Len(todo[t]), tx[t]) BY DEF InventoryInv
  <2>4. Seen(tx[t])' = {i \in Seen(tx[s]) : i.id \notin tx[t].gone} \cup tx[t].ifs
    BY <1>2, <2>1 DEF Seen
  <2>5. /\ \A i : Owned(t, i.dev) => (i \in ifs <=> i \in Seen(tx[s]))
        /\ \A i \in tx[t].ifs : i.id \notin tx[s].gone /\ \A j \in tx[s].ifs : i.id # j.id
        /\ \A i \in tx[s].ifs : i.id \notin tx[t].gone
    BY <1>7, Apart
  <2>6. \A i \in Seen(tx[t]) : Owned(t, i.dev) => i \in Seen(tx[t])'
    BY <2>4, <2>5 DEF Seen
  <2>7. Distinct(Seen(tx[t]))'
    <3>1. \A i, j \in Seen(tx[s]) : i.id = j.id \/ (i.dev = j.dev /\ i.name = j.name) => i = j
      BY <1>3 DEF WritesOK, Distinct
    <3>2. \A i, j \in tx[t].ifs : i.id = j.id \/ (i.dev = j.dev /\ i.name = j.name) => i = j
      BY <2>3 DEF WritesOK, Distinct, Seen
    <3>3. ASSUME NEW i \in tx[t].ifs, NEW j \in Seen(tx[s]), j.id \notin tx[t].gone,
                 i.id = j.id \/ (i.dev = j.dev /\ i.name = j.name)
          PROVE  i = j
      <4>1. Owned(t, i.dev) BY <2>3 DEF WritesOK
      <4>2. j \in ifs
        <5>1. CASE i.id = j.id BY <2>5, <3>3, <5>1 DEF Seen
        <5>2. CASE i.dev = j.dev BY <2>5, <3>3, <4>1, <5>2
        <5> QED BY <3>3, <5>1, <5>2
      <4>3. i \in Seen(tx[t]) /\ j \in Seen(tx[t]) BY <3>3, <4>2 DEF Seen
      <4> QED BY <2>3, <3>3, <4>3 DEF WritesOK, Distinct
    <3>4. \A i \in Seen(tx[s]), j \in tx[t].ifs :
            i.id \notin tx[t].gone /\ (i.id = j.id \/ (i.dev = j.dev /\ i.name = j.name)) => i = j
      BY <3>3
    <3> QED BY <2>4, <3>1, <3>2, <3>3, <3>4 DEF Distinct
  <2>8. ControlOK(t)'
    <3>1. /\ Ifaces(t) = Seen(tx[t]) /\ Ifaces(t)' = Seen(tx[t])' BY SeenIsIfaces, <2>1 DEF Ifaces, Seen
    <3>2. todo[t] # <<>> => \A n \in report[t].ifaces :
             \E i \in Ifaces(t)' : i.dev = cur[t] /\ i.name = n
      BY <2>3, <2>6, <3>1 DEF ControlOK
    <3> QED BY <2>1, <2>2, <2>3, <3>2 DEF ControlOK, Linkable
  <2>9. WritesOK(t, Len(todo[t]), tx[t])'
    <3>1. \A i \in ifs' : i.id \in tx[t].gone => Owned(t, i.dev)'
      BY <1>2, <2>2, <2>3, <2>5 DEF WritesOK, Seen
    <3>2. \A e \in tx[t].gone : (\E i \in ifs' : i.id = e) \/ Made(t, Len(todo[t]), e)
      <4> SUFFICES ASSUME NEW e \in tx[t].gone, NEW i \in ifs, i.id = e PROVE i \in ifs'
        BY <2>3 DEF WritesOK
      <4> QED BY <1>2, <2>3, <2>5 DEF WritesOK
    <3>3. \A l \in tx[t].links : /\ l.ends # {}
            /\ \A e \in l.ends : \E i \in Seen(tx[t])' : i.id = e /\ Owned(t, i.dev)'
      BY <2>2, <2>3, <2>6 DEF WritesOK
    <3>4. \A e, n : Made(t, n, e)' <=> Made(t, n, e) BY <2>1 DEF Made
    <3> QED BY <2>1, <2>2, <2>3, <2>7, <3>1, <3>2, <3>3, <3>4 DEF WritesOK
  <2> QED BY <2>8, <2>9
<1> QED BY <1>1, <1>4, <1>5, <1>6, <1>7 DEF InventoryInv

LEMMA InitHolds == Init => InventoryInv
<1> SUFFICES ASSUME Init PROVE InventoryInv
  OBVIOUS
<1>1. Shape /\ CommittedOK /\ LinkEndsExist BY DEF Init, Shape, CommittedOK, Distinct, LinkEndsExist
<1>2. ASSUME NEW s \in Sessions PROVE ControlOK(s) /\ WritesOK(s, Len(todo[s]), tx[s])
  <2>1. /\ pc[s] = "next" /\ turn[s] = 1 /\ todo[s] = <<>> /\ tx[s] = NoWrites /\ ifs = {}
    BY DEF Init
  <2>2. IsSeq(<<>>) BY DEF IsSeq
  <2>3. WritesOK(s, 0, NoWrites) BY <2>1 DEF WritesOK, NoWrites, IsWrites, Distinct, Seen
  <2> QED BY <2>1, <2>2, <2>3 DEF ControlOK, Labels, NoWrites
<1> QED BY <1>1, <1>2 DEF InventoryInv

(* Writes stay in order when neighbours are passed over and devices written. *)
LEMMA WritesStay ==
  ASSUME NEW s, WritesOK(s, Len(todo[s]), tx[s]), Len(todo[s]) \in Nat, Len(todo'[s]) \in Nat,
         Len(todo'[s]) <= Len(todo[s]), UNCHANGED ifs, turn'[s] = turn[s], IsWrites(tx'[s]),
         tx'[s].ifs = tx[s].ifs, tx'[s].gone = tx[s].gone, tx'[s].links = tx[s].links,
         \A d : Owned(s, d) => Owned(s, d)'
  PROVE  WritesOK(s, Len(todo[s]), tx[s])'
<1>1. \A e : Made(s, Len(todo[s]), e) => Made(s, Len(todo[s]), e)' BY DEF Made
<1>2. Seen(tx[s])' = Seen(tx[s]) BY DEF Seen
<1> QED BY <1>1, <1>2 DEF WritesOK, Distinct

(* The steps that write no interface or link and change no lock. *)
LEMMA ReadStep ==
  ASSUME InventoryInv, NEW s \in Sessions, UNCHANGED <<ifs, links, owner, turn, tx>>,
         Others(s), Shape', ControlOK(s)', todo'[s] = todo[s]
  PROVE  InventoryInv'
<1>1. WritesOK(s, Len(todo[s]), tx[s])'
  <2>1. /\ WritesOK(s, Len(todo[s]), tx[s]) /\ Len(todo[s]) \in Nat
    BY LenProperties DEF InventoryInv, ControlOK, IsSeq
  <2>2. \A d : Owned(s, d) => Owned(s, d)' BY DEF Owned
  <2> QED BY <2>1, <2>2, WritesStay DEF WritesOK
<1>2. turn'[s] \in Nat /\ turn[s] <= turn'[s] BY DEF InventoryInv, ControlOK
<1>3. \A t \in Sessions \ {s} : \A d : Owned(t, d) => Owned(t, d)' BY DEF Owned
<1> QED BY <1>1, <1>2, <1>3, LocalStep

LEMMA SkipKeeps == ASSUME InventoryInv, NEW s \in Sessions, Skip(s) PROVE InventoryInv'
<1>1. /\ pc[s] = "next" /\ turn' = [turn EXCEPT ![s] = @ + 1]
      /\ UNCHANGED <<dev, ifs, links, owner, pc, report, loaded, cur, todo, tx>>
  BY DEF Skip, tables
<1>2. Others(s) /\ Shape' /\ turn'[s] = turn[s] + 1 BY <1>1 DEF InventoryInv, Shape, Others
<1>3. ControlOK(s) /\ WritesOK(s, Len(todo[s]), tx[s]) BY DEF InventoryInv
<1>4. tx[s].ifs = {} /\ tx[s].gone = {} /\ tx[s].links = {} BY <1>1, <1>3 DEF ControlOK
<1>5. ControlOK(s)' BY <1>1, <1>2, <1>3 DEF ControlOK, Labels
<1>6. WritesOK(s, Len(todo[s]), tx[s])'
  BY <1>1, <1>3, <1>4 DEF InventoryInv, WritesOK, Seen
<1>7. \A t \in Sessions \ {s} : \A d : Owned(t, d) => Owned(t, d)' BY <1>1 DEF Owned
<1> QED BY <1>1, <1>2, <1>3, <1>5, <1>6, <1>7, LocalStep DEF ControlOK

LEMMA CollectKeeps == ASSUME InventoryInv, NEW s \in Sessions, Collect(s) PROVE InventoryInv'
<1>1. PICK r \in Reports[Target(s)] :
        /\ pc[s] = "next" /\ turn[s] <= Len(Targets[s])
        /\ report' = [report EXCEPT ![s] = r] /\ pc' = [pc EXCEPT ![s] = "select"]
        /\ UNCHANGED <<dev, ifs, links, owner, turn, loaded, cur, todo, tx>>
  BY DEF Collect, Goto, tables
<1>2. /\ Others(s) /\ Shape' /\ pc'[s] = "select" /\ report'[s] = r
  BY <1>1 DEF InventoryInv, Shape, Others
<1>3. ControlOK(s) BY DEF InventoryInv
<1>4. r \in Report
  <2>1. turn[s] \in 1..Len(Targets[s]) /\ Targets[s] \in Seq(Addresses)
    BY <1>1, <1>3, InventoryAssumption DEF ControlOK
  <2>2. Target(s) \in Addresses BY <2>1, ElementOfSeq DEF Target
  <2> QED BY <2>2, InventoryAssumption
<1>5. ControlOK(s)' BY <1>1, <1>2, <1>3, <1>4 DEF ControlOK, Labels
<1> QED BY <1>1, <1>2, <1>5, ReadStep

LEMMA SkipNeighborKeeps ==
  ASSUME InventoryInv, NEW s \in Sessions, SkipNeighbor(s) PROVE InventoryInv'
<1>1. /\ pc[s] = "select" /\ todo[s] # <<>>
      /\ todo' = [todo EXCEPT ![s] = Tail(@)]
      /\ pc' = [pc EXCEPT ![s] = IF Tail(todo[s]) = <<>> THEN "save" ELSE "select"]
      /\ UNCHANGED <<ifs, links, owner, turn, report, loaded, cur, tx>>
  BY DEF SkipNeighbor, Goto, tables
<1>2. /\ Others(s) /\ Shape' /\ todo'[s] = Tail(todo[s])
      /\ pc'[s] = IF Tail(todo[s]) = <<>> THEN "save" ELSE "select"
  BY <1>1 DEF InventoryInv, Shape, Others
<1>3. ControlOK(s) /\ WritesOK(s, Len(todo[s]), tx[s]) BY DEF InventoryInv
<1>4. IsSeq(Tail(todo[s])) /\ Len(Tail(todo[s])) = Len(todo[s]) - 1 /\ Len(todo[s]) \in Nat \ {0}
  BY <1>1, <1>3, HeadTailProperties, EmptySeq, LenProperties DEF ControlOK, IsSeq
<1>5. \A d : Owned(s, d)' <=> Owned(s, d) BY <1>1 DEF Owned
<1>6. Ifaces(s)' = Ifaces(s) /\ Seen(tx[s])' = Seen(tx[s]) BY <1>1 DEF Ifaces, Seen
<1>7. ControlOK(s)'
  <2>1. Owned(s, cur[s])' /\ \A n \in report'[s].ifaces :
           \E i \in Ifaces(s)' : i.dev = cur'[s] /\ i.name = n
    BY <1>1, <1>3, <1>5, <1>6 DEF ControlOK
  <2>2. IsSeq(todo'[s]) /\ turn'[s] = turn[s] /\ report'[s] = report[s]
    BY <1>1, <1>2, <1>4
  <2>3. turn[s] \in Nat \ {0} /\ report[s] \in Report BY <1>1, <1>3 DEF ControlOK
  <2>4. CASE Tail(todo[s]) = <<>>
    <3>1. pc'[s] = "save" /\ todo'[s] = <<>> BY <1>2, <2>4
    <3> QED BY <2>2, <2>3, <3>1 DEF ControlOK, Labels
  <2>5. CASE Tail(todo[s]) # <<>>
    <3>1. pc'[s] = "select" /\ todo'[s] # <<>> BY <1>2, <2>5
    <3> QED BY <2>1, <2>2, <2>3, <3>1 DEF ControlOK, Labels
  <2> QED BY <2>4, <2>5
<1>8. WritesOK(s, Len(todo[s]), tx[s])'
  <2>1. tx'[s] = tx[s] /\ IsWrites(tx[s]) BY <1>1, <1>3 DEF WritesOK
  <2>2. Len(todo'[s]) \in Nat /\ Len(todo'[s]) <= Len(todo[s]) BY <1>2, <1>4
  <2> QED BY <1>1, <1>3, <1>4, <1>5, <2>1, <2>2, WritesStay
<1>9. \A t \in Sessions \ {s} : \A d : Owned(t, d) => Owned(t, d)' BY <1>1 DEF Owned
<1>10. turn'[s] \in Nat /\ turn[s] <= turn'[s]
  <2>1. turn[s] \in Nat BY <1>3 DEF ControlOK
  <2> QED BY <1>1, <2>1
<1>11. UNCHANGED <<ifs, links>> BY <1>1
<1> QED BY <1>2, <1>7, <1>8, <1>9, <1>10, <1>11, LocalStep

LEMMA SelectKeeps == ASSUME InventoryInv, NEW s \in Sessions, Select(s) PROVE InventoryInv'
<1>1. PICK l : /\ Selecting(s)
               /\ loaded' = [loaded EXCEPT ![s] = l] /\ pc' = [pc EXCEPT ![s] = "upsert"]
               /\ UNCHANGED <<ifs, links, owner, turn, report, cur, todo, tx>>
  BY DEF Select, Goto, tables
<1>2. /\ Others(s) /\ Shape' /\ pc'[s] = "upsert" BY <1>1 DEF InventoryInv, Shape, Others
<1>3. ControlOK(s) BY DEF InventoryInv
<1>4. Ifaces(s)' = Ifaces(s) /\ \A d : Owned(s, d)' <=> Owned(s, d)
  BY <1>1 DEF Ifaces, Owned
<1>5. ControlOK(s)' BY <1>1, <1>2, <1>3, <1>4 DEF ControlOK, Labels, Selecting, Linkable
<1> QED BY <1>1, <1>2, <1>5, ReadStep

LEMMA UpsertKeeps == ASSUME InventoryInv, NEW s \in Sessions, Upsert(s) PROVE InventoryInv'
<1>1. PICK id, row, rows :
        /\ pc[s] = "upsert" /\ Free(s, id)
        /\ owner' = Merged([d \in {id} |-> s], owner)
        /\ tx' = [tx EXCEPT ![s].dev = rows]
        /\ loaded' = [loaded EXCEPT ![s] = [id |-> id, row |-> row]]
        /\ cur' = IF todo[s] = <<>> THEN [cur EXCEPT ![s] = id] ELSE cur
        /\ pc' = [pc EXCEPT ![s] = IF todo[s] # <<>> THEN "connect"
                                   ELSE IF Failed(report[s]) THEN "save" ELSE "store"]
        /\ UNCHANGED <<ifs, links, turn, report, todo>>
  BY DEF Upsert, Goto, IsUpdate, tables
<1>2. ControlOK(s) /\ WritesOK(s, Len(todo[s]), tx[s]) BY DEF InventoryInv
<1>3. /\ IsWrites(tx'[s]) /\ tx'[s].ifs = tx[s].ifs /\ tx'[s].gone = tx[s].gone
      /\ tx'[s].links = tx[s].links
  BY <1>1, <1>2 DEF InventoryInv, Shape, WritesOK, IsWrites
<1>4. Others(s) /\ Shape' BY <1>1 DEF InventoryInv, Shape, Others
<1>5. /\ \A t, d : Owned(t, d) => Owned(t, d)'
      /\ Owned(s, id)'
  BY <1>1 DEF Owned, Merged, Free
<1>6. Ifaces(s)' = Ifaces(s) BY <1>1, <1>3 DEF Ifaces
<1>7. ControlOK(s)'
  <2>1. /\ turn'[s] = turn[s] /\ todo'[s] = todo[s] /\ report'[s] = report[s]
        /\ pc'[s] = IF todo[s] # <<>> THEN "connect"
                    ELSE IF Failed(report[s]) THEN "save" ELSE "store"
        /\ loaded'[s].id = id /\ cur'[s] = IF todo[s] = <<>> THEN id ELSE cur[s]
    BY <1>1 DEF InventoryInv, Shape
  <2>2. CASE todo[s] = <<>>
    <3>1. pc'[s] \in {"save", "store"} BY <2>1, <2>2
    <3> QED BY <1>1, <1>2, <1>3, <1>5, <2>1, <2>2, <3>1 DEF ControlOK, Labels
  <2>3. CASE todo[s] # <<>>
    <3>1. Owned(s, cur[s])' /\ \A n \in report'[s].ifaces :
             \E i \in Ifaces(s)' : i.dev = cur'[s] /\ i.name = n
      BY <1>2, <1>5, <1>6, <2>1, <2>3 DEF ControlOK
    <3>2. Linkable(s, Head(todo[s]))' BY <1>1, <1>2, <2>1, <2>3 DEF ControlOK, Linkable
    <3> QED BY <1>1, <1>2, <1>5, <2>1, <2>3, <3>1, <3>2 DEF ControlOK, Labels
  <2> QED BY <2>2, <2>3
<1>8. WritesOK(s, Len(todo[s]), tx[s])'
  <2>1. Len(todo[s]) \in Nat BY <1>2, LenProperties DEF ControlOK, IsSeq
  <2> QED BY <1>1, <1>2, <1>3, <1>5, <2>1, WritesStay
<1> QED BY <1>1, <1>2, <1>4, <1>5, <1>7, <1>8, LocalStep DEF ControlOK

LEMMA MappedIsSeq ==
  ASSUME NEW S, NEW q \in Seq(S), NEW f, DOMAIN f = DOMAIN q, f = [i \in DOMAIN q |-> f[i]]
  PROVE  IsSeq(f)
<1>1. DOMAIN q = 1..Len(q) /\ Len(q) \in Nat BY LenProperties
<1>2. f \in Seq({f[i] : i \in DOMAIN q}) BY <1>1, IsASeq
<1> QED BY <1>2 DEF IsSeq

LEMMA NeighborsIsSeq == ASSUME NEW s, report[s] \in Report PROVE IsSeq(Neighbors(s))
<1> DEFINE r == report[s]
<1>1. /\ r.lldp \in Seq(NeighborFact)
      /\ r.fdb \in Seq([port : Ports, mac : Macs]) /\ r.arp \in Seq([port : Ports, ip : Addresses])
  BY DEF Report
<1>2. IsSeq(r.lldp) BY <1>1 DEF IsSeq
<1>3. \/ Neighbors(s) = r.lldp
      \/ DOMAIN Neighbors(s) = DOMAIN r.fdb
         /\ Neighbors(s) = [i \in DOMAIN r.fdb |-> Neighbors(s)[i]]
      \/ DOMAIN Neighbors(s) = DOMAIN r.arp
         /\ Neighbors(s) = [i \in DOMAIN r.arp |-> Neighbors(s)[i]]
  BY DEF Neighbors
<1> QED BY <1>1, <1>2, <1>3, MappedIsSeq

LEMMA StoreKeeps == ASSUME InventoryInv, NEW s \in Sessions, Store(s) PROVE InventoryInv'
<1> DEFINE old == tx[s]
           nw == IF report[s].ifaces = {} THEN old ELSE Replace(s, cur[s], report[s].ifaces, 0, old)
           ns == Neighbors(s)
<1>1. PICK rows :
        /\ pc[s] = "store"
        /\ tx' = [tx EXCEPT ![s] = [nw EXCEPT !.adj = rows]]
        /\ todo' = [todo EXCEPT ![s] = ns]
        /\ pc' = [pc EXCEPT ![s] = IF ns = <<>> THEN "save" ELSE "select"]
        /\ UNCHANGED <<ifs, links, owner, turn, report, loaded, cur>>
  BY DEF Store, Goto, tables
<1>2. ControlOK(s) /\ WritesOK(s, Len(todo[s]), old) /\ CommittedOK BY DEF InventoryInv
<1>3. /\ Owned(s, cur[s]) /\ report[s] \in Report /\ turn[s] \in Nat \ {0}
      /\ old.ifs = {} /\ old.gone = {} /\ old.links = {}
  BY <1>1, <1>2 DEF ControlOK
<1>4. IsSeq(ns) /\ Len(ns) \in Nat
  <2>1. IsSeq(ns) BY <1>3, NeighborsIsSeq
  <2> HIDE DEF ns
  <2> QED BY <2>1, LenProperties DEF IsSeq
<1>5. WritesOK(s, Len(ns), old) BY <1>2, <1>3 DEF WritesOK
<1>6. /\ WritesOK(s, Len(ns), nw)
      /\ \A n \in report[s].ifaces : \E i \in Seen(nw) : i.dev = cur[s] /\ i.name = n
  <2>1. CASE report[s].ifaces = {} BY <1>5, <2>1
  <2>2. CASE report[s].ifaces # {}
    <3> HIDE DEF ns
    <3>1. nw = Replace(s, cur[s], report[s].ifaces, 0, tx[s]) BY <2>2
    <3> HIDE DEF nw
    <3>2. CanReplace(s, cur[s], 0, Len(ns), Len(ns))
      BY <1>3, <1>4, <1>5 DEF CanReplace
    <3>3. PICK l : l = Len(ns) OBVIOUS
    <3>4. CanReplace(s, cur[s], 0, l, l) BY <3>2, <3>3
    <3>5. Replaced(s, cur[s], report[s].ifaces, l, nw) BY <1>2, <3>1, <3>4, ReplaceKeeps
    <3> QED BY <3>3, <3>5 DEF Replaced
  <2> QED BY <2>1, <2>2
<1> HIDE DEF nw, ns
<1>7. /\ Others(s) /\ Shape' /\ todo'[s] = ns /\ turn'[s] = turn[s]
      /\ pc'[s] = IF ns = <<>> THEN "save" ELSE "select"
      /\ tx'[s] = [nw EXCEPT !.adj = rows]
  BY <1>1 DEF InventoryInv, Shape, Others
<1>8. /\ IsWrites(tx'[s]) /\ tx'[s].ifs = nw.ifs /\ tx'[s].gone = nw.gone /\ tx'[s].links = nw.links
  BY <1>6, <1>7 DEF WritesOK, IsWrites
<1>9. \A t, d : Owned(t, d)' <=> Owned(t, d) BY <1>1 DEF Owned
<1>10. Seen(tx[s])' = Seen(nw) /\ Ifaces(s)' = Seen(nw) BY <1>1, <1>8 DEF Seen, Ifaces
<1>11. ControlOK(s)'
  <2>1. /\ Owned(s, cur[s])'
        /\ \A n \in report'[s].ifaces : \E i \in Ifaces(s)' : i.dev = cur'[s] /\ i.name = n
    BY <1>1, <1>3, <1>6, <1>9, <1>10
  <2>2. report'[s] \in Report /\ turn'[s] \in Nat \ {0} /\ IsSeq(todo'[s])
    BY <1>1, <1>3, <1>4, <1>7
  <2>3. CASE ns = <<>>
    <3>1. pc'[s] = "save" /\ todo'[s] = <<>> BY <1>7, <2>3
    <3> QED BY <2>2, <3>1 DEF ControlOK, Labels
  <2>4. CASE ns # <<>>
    <3>1. pc'[s] = "select" /\ todo'[s] # <<>> BY <1>7, <2>4
    <3> QED BY <2>1, <2>2, <3>1 DEF ControlOK, Labels
  <2> QED BY <2>3, <2>4
<1>12. WritesOK(s, Len(todo[s]), tx[s])'
  <2>1. \A e : Made(s, Len(ns), e) => Made(s, Len(todo[s]), e)' BY <1>7 DEF Made
  <2> QED BY <1>1, <1>6, <1>8, <1>9, <1>10, <2>1 DEF WritesOK
<1> QED BY <1>1, <1>3, <1>7, <1>9, <1>11, <1>12, LocalStep
LEMMA ConnectKeeps == ASSUME InventoryInv, NEW s \in Sessions, Connect(s) PROVE InventoryInv'
<1> DEFINE p == Head(todo[s]).port
           far == Head(todo[s]).remote
           remotes == {i \in Ifaces(s) : i.dev = loaded[s].id}
           name == IF far = None THEN Unknown ELSE far
           new == IF far # None /\ \E i \in remotes : i.name = name THEN tx[s]
                  ELSE Replace(s, loaded[s].id, {i.name : i \in remotes} \cup {name},
                               Len(todo[s]), tx[s])
           end(e, x) == (CHOOSE i \in Seen(new) : i.dev = e /\ i.name = x).id
           ends == {end(cur[s], p), end(loaded[s].id, name)}
<1>1. /\ pc[s] = "connect"
      /\ tx' = [tx EXCEPT ![s] = [new EXCEPT !.links =
                  {l \in @ : l.ends # ends} \cup {[ends |-> ends, method |-> Method(s)]}]]
      /\ todo' = [todo EXCEPT ![s] = Tail(@)]
      /\ pc' = [pc EXCEPT ![s] = IF Tail(todo[s]) = <<>> THEN "save" ELSE "select"]
      /\ UNCHANGED <<ifs, links, owner, turn, report, loaded, cur>>
  BY DEF Connect, Goto, tables, Seen
<1>2. ControlOK(s) /\ WritesOK(s, Len(todo[s]), tx[s]) /\ CommittedOK BY DEF InventoryInv
<1>3. /\ Owned(s, cur[s]) /\ Owned(s, loaded[s].id) /\ report[s] \in Report
      /\ turn[s] \in Nat \ {0} /\ todo[s] # <<>> /\ p \in report[s].ifaces
      /\ \A n \in report[s].ifaces : \E i \in Ifaces(s) : i.dev = cur[s] /\ i.name = n
  BY <1>1, <1>2 DEF ControlOK, Linkable
<1>4. IsSeq(Tail(todo[s])) /\ Len(Tail(todo[s])) = Len(todo[s]) - 1 /\ Len(todo[s]) \in Nat \ {0}
  BY <1>2, <1>3, HeadTailProperties, EmptySeq, LenProperties DEF ControlOK, IsSeq
<1> HIDE DEF p, far, name
<1>5. /\ WritesOK(s, Len(todo[s]) - 1, new)
      /\ \A i \in Ifaces(s) : i \in Seen(new)
      /\ \E i \in Seen(new) : i.dev = loaded[s].id /\ i.name = name
  <2>1. CASE far # None /\ \E i \in remotes : i.name = name
    <3>1. new = tx[s] BY <2>1
    <3>2. WritesOK(s, Len(todo[s]) - 1, tx[s])
      <4>1. \A e : Made(s, Len(todo[s]), e) => Made(s, Len(todo[s]) - 1, e) BY <1>4 DEF Made
      <4> QED BY <1>2, <4>1 DEF WritesOK
    <3> HIDE DEF new
    <3> QED BY <2>1, <3>1, <3>2, SeenIsIfaces
  <2>2. CASE ~(far # None /\ \E i \in remotes : i.name = name)
    <3>1. PICK v, d, m, n, names :
            /\ v = new /\ d = loaded[s].id /\ m = Len(todo[s]) /\ n = m - 1
            /\ names = {i.name : i \in remotes} \cup {name}
      OBVIOUS
    <3>2. v = Replace(s, d, names, m, tx[s]) BY <2>2, <3>1
    <3> HIDE DEF new
    <3>3. CanReplace(s, d, m, m, n)
      BY <1>2, <1>3, <1>4, <3>1 DEF CanReplace, WritesOK, Made
    <3>4. Replaced(s, d, names, n, v) BY <1>2, <3>2, <3>3, ReplaceKeeps
    <3>5. \A i \in Ifaces(s) : i.dev # d \/ i.name \in names BY <3>1
    <3> QED BY <3>1, <3>4, <3>5 DEF Replaced
  <2> QED BY <2>1, <2>2
<1> HIDE DEF new, remotes
<1>6. \A e \in ends : \E i \in Seen(new) : i.id = e /\ Owned(s, i.dev)
  <2>1. \E i \in Seen(new) : i.dev = cur[s] /\ i.name = p BY <1>3, <1>5
  <2>2. PICK i \in Seen(new) : i.id = end(cur[s], p) /\ i.dev = cur[s] BY <2>1
  <2>3. PICK j \in Seen(new) : j.id = end(loaded[s].id, name) /\ j.dev = loaded[s].id BY <1>5
  <2> QED BY <1>3, <2>2, <2>3
<1>7. ends # {} OBVIOUS
<1> HIDE DEF ends
<1>8. /\ Others(s) /\ Shape' /\ todo'[s] = Tail(todo[s]) /\ turn'[s] = turn[s]
      /\ pc'[s] = IF Tail(todo[s]) = <<>> THEN "save" ELSE "select"
      /\ tx'[s] = [new EXCEPT !.links =
            {l \in @ : l.ends # ends} \cup {[ends |-> ends, method |-> Method(s)]}]
  BY <1>1 DEF InventoryInv, Shape, Others
<1>9. /\ IsWrites(tx'[s]) /\ tx'[s].ifs = new.ifs /\ tx'[s].gone = new.gone
      /\ \A l \in tx'[s].links : l \in new.links \/ l.ends = ends
  <2>1. new = [dev |-> new.dev, ifs |-> new.ifs, gone |-> new.gone, links |-> new.links,
               adj |-> new.adj]
    BY <1>5 DEF WritesOK, IsWrites
  <2>2. PICK ls : /\ tx'[s] = [new EXCEPT !.links = ls]
                  /\ \A l \in ls : l \in new.links \/ l.ends = ends
    <3> DEFINE ls == {l \in new.links : l.ends # ends} \cup {[ends |-> ends, method |-> Method(s)]}
    <3>1. tx'[s] = [new EXCEPT !.links = ls] BY <1>8
    <3>2. \A l \in ls : l \in new.links \/ l.ends = ends OBVIOUS
    <3> HIDE DEF ls
    <3> QED BY <3>1, <3>2
  <2> QED BY <2>1, <2>2 DEF IsWrites
<1>10. \A t, d : Owned(t, d)' <=> Owned(t, d) BY <1>1 DEF Owned
<1>11. Seen(tx[s])' = Seen(new) /\ Ifaces(s)' = Seen(new) BY <1>1, <1>9 DEF Seen, Ifaces
<1>12. ControlOK(s)'
  <2>1. /\ Owned(s, cur[s])'
        /\ \A n \in report'[s].ifaces : \E i \in Ifaces(s)' : i.dev = cur'[s] /\ i.name = n
    BY <1>1, <1>3, <1>5, <1>10, <1>11
  <2>2. report'[s] \in Report /\ turn'[s] \in Nat \ {0} /\ IsSeq(todo'[s])
    BY <1>1, <1>3, <1>4, <1>8
  <2>3. CASE Tail(todo[s]) = <<>>
    <3>1. pc'[s] = "save" /\ todo'[s] = <<>> BY <1>8, <2>3
    <3> QED BY <2>2, <3>1 DEF ControlOK, Labels
  <2>4. CASE Tail(todo[s]) # <<>>
    <3>1. pc'[s] = "select" /\ todo'[s] # <<>> BY <1>8, <2>4
    <3> QED BY <2>1, <2>2, <3>1 DEF ControlOK, Labels
  <2> QED BY <2>3, <2>4
<1>13. WritesOK(s, Len(todo[s]), tx[s])'
  <2>1. \A e : Made(s, Len(todo[s]) - 1, e) <=> Made(s, Len(todo[s]), e)'
    BY <1>4, <1>8 DEF Made
  <2>2. \A l \in tx'[s].links :
          l.ends # {} /\ \A e \in l.ends : \E i \in Seen(new) : i.id = e /\ Owned(s, i.dev)
    BY <1>5, <1>6, <1>7, <1>9 DEF WritesOK
  <2>3. tx'[s].ifs = new.ifs /\ tx'[s].gone = new.gone /\ Seen(tx[s])' = Seen(new) /\ ifs' = ifs
    BY <1>1, <1>9, <1>11
  <2>4. /\ \A i \in tx'[s].ifs : Owned(s, i.dev)' /\ Made(s, Len(todo[s]), i.id)' /\ i.id \notin tx'[s].gone
        /\ \A e \in tx'[s].gone : (\E i \in ifs' : i.id = e) \/ Made(s, Len(todo[s]), e)'
        /\ \A i \in ifs' : i.id \in tx'[s].gone => Owned(s, i.dev)'
    BY <1>5, <1>10, <2>1, <2>3 DEF WritesOK
  <2>5. Distinct(Seen(tx[s]))'
    BY <1>5, <2>3 DEF WritesOK, Distinct
  <2>6. \A l \in tx'[s].links : /\ l.ends # {}
          /\ \A e \in l.ends : \E i \in Seen(tx[s])' : i.id = e /\ Owned(s, i.dev)'
    BY <1>10, <2>2, <2>3
  <2> QED BY <1>9, <2>4, <2>5, <2>6 DEF WritesOK
<1>14. UNCHANGED <<ifs, links>> /\ turn'[s] \in Nat /\ turn[s] <= turn'[s] BY <1>1, <1>3
<1>15. \A t \in Sessions \ {s} : \A d : Owned(t, d) => Owned(t, d)' BY <1>10
<1> QED BY <1>8, <1>12, <1>13, <1>14, <1>15, LocalStep

LEMMA StepKeeps == InventoryInv /\ [Next]_vars => InventoryInv'
<1> SUFFICES ASSUME InventoryInv, [Next]_vars PROVE InventoryInv'
  OBVIOUS
<1>1. ASSUME NEW s \in Sessions, Progress(s) PROVE InventoryInv'
  <2>1. CASE Ambiguous(s) BY <2>1, RollbackKeeps DEF Ambiguous
  <2>2. CASE Deadlock(s) BY <2>2, RollbackKeeps DEF Deadlock
  <2> QED BY <1>1, <2>1, <2>2, SkipKeeps, CollectKeeps, SkipNeighborKeeps, SelectKeeps,
             UpsertKeeps, StoreKeeps, ConnectKeeps, CommitKeeps DEF Progress
<1>2. ASSUME NEW s \in Sessions, Fail(s) PROVE InventoryInv'
  BY <1>2, RollbackKeeps DEF Fail
<1>3. CASE UNCHANGED vars
  <2>1. UNCHANGED <<ifs, links, owner, pc, turn, report, loaded, cur, todo, tx>> BY <1>3 DEF vars
  <2>2. \A s : /\ Ifaces(s)' = Ifaces(s) /\ Seen(tx[s])' = Seen(tx[s])
               /\ \A d : Owned(s, d)' <=> Owned(s, d)
               /\ \A n, e : Made(s, n, e)' <=> Made(s, n, e)
    BY <2>1 DEF Ifaces, Seen, Owned, Made
  <2>3. Shape' /\ CommittedOK' /\ LinkEndsExist'
    BY <2>1 DEF InventoryInv, Shape, CommittedOK, Distinct, LinkEndsExist
  <2>4. ASSUME NEW s \in Sessions PROVE ControlOK(s)' /\ WritesOK(s, Len(todo[s]), tx[s])'
    <3>1. ControlOK(s) /\ WritesOK(s, Len(todo[s]), tx[s]) BY DEF InventoryInv
    <3>2. ControlOK(s)' BY <2>1, <2>2, <3>1 DEF ControlOK, Linkable
    <3>3. WritesOK(s, Len(todo[s]), tx[s])' BY <2>1, <2>2, <3>1 DEF WritesOK
    <3> QED BY <3>2, <3>3
  <2> QED BY <2>3, <2>4 DEF InventoryInv
<1> QED BY <1>1, <1>2, <1>3 DEF Next

(* A link is written by a session that has locked the devices of its ends,  *)
(* so whatever another run deletes at the same time, both of its interfaces *)
(* are there when it is committed, and stay (LinkEndsExist).                *)
THEOREM LinksHaveEnds == Spec => []LinkEndsExist
<1>1. InventoryInv => LinkEndsExist BY DEF InventoryInv
<1> QED BY <1>1, InitHolds, StepKeeps, PTL DEF Spec

(* replace_for_device and the upsert of a link read and then insert, and no *)
(* unique constraint can fail, for any number of runs: they only write      *)
(* interfaces of devices that they have locked (NoUniqueViolation).         *)
THEOREM NeverUniqueViolation == Spec => []NoUniqueViolation
<1>1. ASSUME InventoryInv PROVE NoUniqueViolation
  <2>1. \A s \in Sessions : WritesOK(s, Len(todo[s]), tx[s]) BY <1>1 DEF InventoryInv
  <2>2. ASSUME NEW s \in Sessions, NEW t \in Sessions,
               NEW i \in Ifaces(s), NEW j \in Ifaces(t), i.dev = j.dev, i.name = j.name,
               i.id \notin tx[t].gone, j.id \notin tx[s].gone
        PROVE  i.id = j.id
    <3>1. i \in Seen(tx[s]) /\ j \in Seen(tx[t]) BY SeenIsIfaces
    <3>2. CASE s = t BY <2>1, <2>2, <3>1, <3>2 DEF WritesOK, Distinct
    <3>3. CASE s # t
      <4>1. CASE i \in tx[s].ifs
        <5>1. Owned(s, j.dev) BY <2>1, <2>2, <4>1 DEF WritesOK
        <5>2. j \in ifs BY <1>1, <3>1, <3>3, <5>1, Apart
        <5>3. j \in Seen(tx[s]) BY <2>2, <5>2 DEF Seen
        <5> QED BY <2>1, <2>2, <3>1, <5>3 DEF WritesOK, Distinct
      <4>2. CASE i \in ifs
        <5>1. i \in Seen(tx[t]) BY <2>2, <4>2 DEF Seen
        <5> QED BY <2>1, <2>2, <3>1, <5>1 DEF WritesOK, Distinct
      <4> QED BY <3>1, <4>1, <4>2 DEF Seen
    <3> QED BY <3>2, <3>3
  <2>3. ASSUME NEW s \in Sessions, NEW t \in Sessions, s # t,
               NEW l \in tx[s].links, NEW m \in tx[t].links, l.ends = m.ends
        PROVE  FALSE
    <3>1. PICK e : e \in l.ends BY <2>1 DEF WritesOK
    <3>2. PICK i \in Seen(tx[s]) : i.id = e /\ Owned(s, i.dev) BY <2>1, <3>1 DEF WritesOK
    <3>3. PICK j \in Seen(tx[t]) : j.id = e /\ Owned(t, j.dev) BY <2>1, <2>3, <3>1 DEF WritesOK
    <3>4. \A d : ~(Owned(s, d) /\ Owned(t, d)) BY <2>3 DEF Owned
    <3>5. i.dev # j.dev BY <3>2, <3>3, <3>4
    <3>6. CASE i \in ifs /\ j \in ifs
      BY <1>1, <3>2, <3>3, <3>5, <3>6 DEF InventoryInv, CommittedOK, Distinct
    <3>7. \A r, q \in Sessions : r # q => \A x \in tx[r].ifs, y \in Seen(tx[q]) : x.id # y.id
      <4> SUFFICES ASSUME NEW r \in Sessions, NEW q \in Sessions, r # q,
                          NEW x \in tx[r].ifs, NEW y \in Seen(tx[q]), x.id = y.id
                   PROVE  FALSE
        OBVIOUS
      <4>1. y \notin tx[q].ifs BY <1>1, Apart
      <4>2. y \in ifs /\ x.id[1] = r /\ x.id[2] = turn[r]
        BY <2>1, <4>1 DEF Seen, WritesOK, Made
      <4>3. turn[r] \in Nat BY <1>1 DEF InventoryInv, ControlOK
      <4> QED BY <1>1, <4>2, <4>3 DEF InventoryInv, CommittedOK
    <3>8. i \notin tx[s].ifs /\ j \notin tx[t].ifs BY <2>3, <3>2, <3>3, <3>7
    <3> QED BY <3>2, <3>3, <3>6, <3>7, <3>8 DEF Seen
  <2> QED BY <2>2, <2>3 DEF NoUniqueViolation
<1> QED BY <1>1, InitHolds, StepKeeps, PTL DEF Spec
-----------------------------------------------------------------------------
(* What is known of a device is not taken back: a row is written by the     *)
(* session that has it locked, and no turn writes less than it found.       *)
IsRow(r) == DOMAIN r = {"ip", "serial", "host", "vendor", "mac", "attrs"}
            /\ r.vendor \in {"vendor", "unknown"}

AtLeast(r, old) == /\ old.vendor = "vendor" => r.vendor = "vendor"
                   /\ old.serial # None => r.serial # None
                   /\ old.mac # None => r.mac # None

(* The devices a session has written are locked, and either as rich as the  *)
(* committed row or new in this turn.                                       *)
TurnOK(s) ==
  /\ \A d \in DOMAIN tx[s].dev :
       /\ Owned(s, d) /\ IsRow(tx[s].dev[d])
       /\ IF d \in DOMAIN dev THEN AtLeast(tx[s].dev[d], dev[d])
          ELSE d[1] = s /\ d[2] = turn[s]
  /\ pc[s] = "next" => DOMAIN tx[s].dev = {}
  /\ pc[s] = "upsert" /\ loaded[s] # None =>
       loaded[s].id \in DOMAIN Devices(s) /\ IsRow(loaded[s].row)

DevicesOK ==
  /\ \A d \in DOMAIN dev :
       IsRow(dev[d]) /\ \A s \in Sessions : d[1] = s => d[2] \in Nat /\ d[2] < turn[s]
  /\ \A s \in Sessions : TurnOK(s)

(* The UPDATE of one row, whatever was committed to it after it was loaded. *)
LEMMA WrittenKeeps ==
  ASSUME NEW w, NEW was, NEW now, IsRow(w), IsRow(was), IsRow(now)
  PROVE  IsRow(Written(Upserted(w, was), was, now))
         /\ AtLeast(Written(Upserted(w, was), was, now), now)
<1> DEFINE want == Upserted(w, was)
           r == Written(want, was, now)
<1>1. /\ want.vendor = PreferStr(w.vendor, was.vendor, {"unknown"})
      /\ want.serial = OrElse(w.serial, was.serial) /\ want.mac = OrElse(w.mac, was.mac)
  BY DEF Upserted
<1> HIDE DEF want
<1>2. /\ DOMAIN r = DOMAIN now
      /\ r.vendor = IF want.vendor # was.vendor THEN want.vendor ELSE now.vendor
      /\ r.serial = IF want.serial # was.serial THEN want.serial ELSE now.serial
      /\ r.mac = IF want.mac # was.mac THEN want.mac ELSE now.mac
  BY DEF Written, IsRow
<1> HIDE DEF r
<1>3. None # "vendor" BY InventoryAssumption
<1>4. /\ want.vendor \in {"vendor", "unknown"}
      /\ want.vendor # was.vendor => want.vendor = "vendor"
  BY <1>1, <1>3 DEF PreferStr, IsRow
<1>5. /\ want.serial # was.serial => want.serial # None
      /\ want.mac # was.mac => want.mac # None
  BY <1>1 DEF OrElse
<1>6. IsRow(r) BY <1>2, <1>4 DEF IsRow
<1>7. AtLeast(r, now) BY <1>2, <1>4, <1>5 DEF AtLeast
<1> QED BY <1>6, <1>7 DEF r, want

LEMMA WantIsRow ==
  ASSUME NEW s, report[s] \in Report PROVE IsRow(Want(s))
<1>1. report[s].vendor \in {"vendor", "unknown"} /\ report[s].oui \in {"vendor", "unknown"}
  BY DEF Report
<1>2. IsRow(Entity(s)) BY <1>1 DEF Entity, IsRow
<1>3. IsRow(Stub(Head(todo[s]))) BY DEF Stub, IsRow
<1> QED BY <1>2, <1>3 DEF Want

(* A step that commits nothing changes only what the session sees. *)
LEMMA RowStep ==
  ASSUME InventoryInv, DevicesOK, NEW s \in Sessions, UNCHANGED dev, Others(s),
         turn'[s] \in Nat, turn[s] <= turn'[s],
         \A t \in Sessions \ {s} : \A d : Owned(t, d) => Owned(t, d)',
         TurnOK(s)'
  PROVE  DevicesOK'
<1>1. ASSUME NEW t \in Sessions \ {s} PROVE TurnOK(t)'
  BY DEF DevicesOK, TurnOK, Others, Devices, Merged
<1>2. ASSUME NEW d \in DOMAIN dev, NEW t \in Sessions, d[1] = t PROVE d[2] \in Nat /\ d[2] < turn'[t]
  BY <1>2 DEF DevicesOK, Others, InventoryInv, ControlOK
<1> QED BY <1>1, <1>2 DEF DevicesOK

(* The steps that write no device. *)
LEMMA QuietStep ==
  ASSUME InventoryInv, DevicesOK, NEW s \in Sessions, UNCHANGED <<dev, owner, turn>>, Others(s),
         tx'[s].dev = tx[s].dev, pc'[s] \notin {"next", "upsert"}
  PROVE  DevicesOK'
<1>1. TurnOK(s)' BY DEF DevicesOK, TurnOK, Owned
<1>2. turn[s] \in Nat BY DEF InventoryInv, ControlOK
<1>3. \A t \in Sessions \ {s} : \A d : Owned(t, d) => Owned(t, d)' BY DEF Owned
<1> QED BY <1>1, <1>2, <1>3, RowStep

LEMMA RollbackKeepsRows ==
  ASSUME InventoryInv, DevicesOK, NEW s \in Sessions, RolledBack(s)
  PROVE  DevicesOK'
<1>1. /\ Others(s) /\ tx'[s] = NoWrites /\ turn'[s] = turn[s] + 1 /\ pc'[s] = "next"
      /\ \A t \in Sessions \ {s} : \A d : Owned(t, d) => Owned(t, d)'
  BY EndTurnEffect DEF RolledBack
<1>2. UNCHANGED dev BY DEF RolledBack, tables
<1>3. TurnOK(s)' BY <1>1 DEF TurnOK, NoWrites
<1>4. turn[s] \in Nat BY DEF InventoryInv, ControlOK
<1> QED BY <1>1, <1>2, <1>3, <1>4, RowStep

LEMMA SelectKeepsRows ==
  ASSUME InventoryInv, DevicesOK, NEW s \in Sessions, Select(s) PROVE DevicesOK'
<1>1. PICK l : /\ l = None \/ (l.id \in Found(s) /\ l.row = Devices(s)[l.id])
               /\ loaded' = [loaded EXCEPT ![s] = l] /\ pc' = [pc EXCEPT ![s] = "upsert"]
               /\ UNCHANGED <<dev, owner, turn, report, cur, todo, tx>>
  BY DEF Select, Goto, tables
<1>2. Others(s) /\ pc'[s] = "upsert" /\ loaded'[s] = l BY <1>1 DEF InventoryInv, Shape, Others
<1>3. Found(s) \subseteq DOMAIN Devices(s) BY DEF Found
<1>4. \A d \in DOMAIN Devices(s) : IsRow(Devices(s)[d])
  BY DEF Devices, Merged, DevicesOK, TurnOK
<1>5. Devices(s)' = Devices(s) BY <1>1 DEF Devices
<1>6. TurnOK(s)' BY <1>1, <1>2, <1>3, <1>4, <1>5 DEF DevicesOK, TurnOK, Owned
<1>7. turn[s] \in Nat BY DEF InventoryInv, ControlOK
<1>8. \A t \in Sessions \ {s} : \A d : Owned(t, d) => Owned(t, d)' BY <1>1 DEF Owned
<1> QED BY <1>1, <1>2, <1>6, <1>7, <1>8, RowStep

LEMMA UpsertKeepsRows ==
  ASSUME InventoryInv, DevicesOK, NEW s \in Sessions, Upsert(s) PROVE DevicesOK'
<1> DEFINE was == loaded[s].row
           id == IF loaded[s] = None THEN <<s, turn[s], Len(todo[s])>> ELSE loaded[s].id
           row == IF loaded[s] = None THEN Want(s)
                  ELSE Written(Upserted(Want(s), was), was, Devices(s)[id])
<1>1. /\ pc[s] = "upsert" /\ Free(s, id)
      /\ owner' = Merged([d \in {id} |-> s], owner)
      /\ tx' = [tx EXCEPT ![s].dev = Merged([d \in {id} |-> row], @)]
      /\ pc' = [pc EXCEPT ![s] = IF todo[s] # <<>> THEN "connect"
                                 ELSE IF Failed(report[s]) THEN "save" ELSE "store"]
      /\ UNCHANGED <<dev, turn, report, todo>>
      /\ \E new : loaded' = [loaded EXCEPT ![s] = new]
      /\ cur' = cur \/ cur' = [cur EXCEPT ![s] = id]
  BY DEF Upsert, Goto, IsUpdate, tables
<1>2. ControlOK(s) /\ WritesOK(s, Len(todo[s]), tx[s]) /\ TurnOK(s) BY DEF InventoryInv, DevicesOK
<1>3. IsRow(Want(s)) BY <1>1, <1>2, WantIsRow DEF ControlOK
<1>4. turn[s] \in Nat BY <1>2 DEF ControlOK
<1>5. IsRow(row) /\ IF id \in DOMAIN dev THEN AtLeast(row, dev[id])
                    ELSE id \in DOMAIN tx[s].dev \/ (id[1] = s /\ id[2] = turn[s])
  <2>1. CASE loaded[s] = None
    <3>1. id[1] = s /\ id[2] = turn[s] /\ row = Want(s) BY <2>1
    <3>2. id \notin DOMAIN dev BY <1>4, <3>1 DEF DevicesOK
    <3> QED BY <1>3, <3>1, <3>2
  <2>2. CASE loaded[s] # None
    <3> DEFINE now == Devices(s)[id]
    <3>1. id \in DOMAIN Devices(s) /\ IsRow(was) BY <1>1, <1>2, <2>2 DEF TurnOK
    <3>2. IsRow(now) /\ (id \in DOMAIN dev => AtLeast(now, dev[id]))
          /\ (id \notin DOMAIN dev => id \in DOMAIN tx[s].dev)
      <4>1. CASE id \in DOMAIN tx[s].dev
        <5>1. now = tx[s].dev[id] BY <3>1, <4>1 DEF Devices, Merged
        <5> QED BY <1>2, <4>1, <5>1 DEF TurnOK
      <4>2. CASE id \notin DOMAIN tx[s].dev
        <5>1. id \in DOMAIN dev /\ now = dev[id] BY <3>1, <4>2 DEF Devices, Merged
        <5> QED BY <5>1 DEF DevicesOK, AtLeast
      <4> QED BY <4>1, <4>2
    <3>3. row = Written(Upserted(Want(s), was), was, now) BY <2>2
    <3> HIDE DEF now, was, row, id
    <3>4. IsRow(row) /\ AtLeast(row, now) BY <1>3, <3>1, <3>2, <3>3, WrittenKeeps
    <3>5. id \in DOMAIN dev => AtLeast(row, dev[id]) BY <3>2, <3>4 DEF AtLeast
    <3> QED BY <3>2, <3>4, <3>5
  <2> QED BY <2>1, <2>2
<1> HIDE DEF row, id
<1>6. Others(s) BY <1>1 DEF InventoryInv, Shape, Others
<1>7. /\ pc'[s] \notin {"next", "upsert"}
      /\ tx'[s].dev = Merged([d \in {id} |-> row], tx[s].dev)
  BY <1>1, <1>2 DEF InventoryInv, Shape, WritesOK, IsWrites
<1>8. (\A t, d : Owned(t, d) => Owned(t, d)') /\ \A d : d = id => Owned(s, d)'
  <2>1. PICK i : i = id OBVIOUS
  <2>2. Free(s, i) /\ owner' = Merged([d \in {i} |-> s], owner) BY <1>1, <2>1
  <2>3. (\A t, d : Owned(t, d) => Owned(t, d)') /\ Owned(s, i)' BY <2>2 DEF Owned, Merged, Free
  <2> QED BY <2>1, <2>3
<1>9. TurnOK(s)'
  <2> SUFFICES ASSUME NEW d \in DOMAIN tx'[s].dev
               PROVE  /\ Owned(s, d)' /\ IsRow(tx'[s].dev[d])
                      /\ IF d \in DOMAIN dev THEN AtLeast(tx'[s].dev[d], dev[d])
                         ELSE d[1] = s /\ d[2] = turn[s]
    BY <1>1, <1>7 DEF TurnOK
  <2>1. CASE d = id
    <3>1. tx'[s].dev[d] = row BY <1>7, <2>1 DEF Merged
    <3>2. Owned(s, d)' /\ IsRow(tx'[s].dev[d]) BY <1>5, <1>8, <2>1, <3>1
    <3>3. CASE d \in DOMAIN dev BY <1>5, <2>1, <3>1, <3>2, <3>3
    <3>4. CASE d \notin DOMAIN dev
      <4>1. d \in DOMAIN tx[s].dev \/ (d[1] = s /\ d[2] = turn[s]) BY <1>5, <2>1, <3>4
      <4> QED BY <1>2, <3>2, <3>4, <4>1 DEF TurnOK
    <3> QED BY <3>3, <3>4
  <2>2. CASE d # id
    <3>1. d \in DOMAIN tx[s].dev /\ tx'[s].dev[d] = tx[s].dev[d] BY <1>7, <2>2 DEF Merged
    <3> QED BY <1>2, <1>8, <3>1 DEF TurnOK
  <2> QED BY <2>1, <2>2
<1> QED BY <1>1, <1>4, <1>6, <1>8, <1>9, RowStep

LEMMA CommitKeepsRows ==
  ASSUME InventoryInv, DevicesOK, NEW s \in Sessions, Commit(s) PROVE DevicesOK'
<1>1. /\ Others(s) /\ tx'[s] = NoWrites /\ turn'[s] = turn[s] + 1 /\ pc'[s] = "next"
      /\ \A t \in Sessions \ {s} : \A d : Owned(t, d) => Owned(t, d)'
  BY EndTurnEffect DEF Commit
<1>2. dev' = Merged(tx[s].dev, dev) BY DEF Commit, Devices
<1>3. \A t \in Sessions : turn[t] \in Nat /\ turn'[t] \in Nat /\ turn[t] <= turn'[t]
  BY <1>1 DEF InventoryInv, ControlOK, Others
<1>4. TurnOK(s) BY DEF DevicesOK
<1>5. ASSUME NEW d \in DOMAIN dev', NEW t \in Sessions
      PROVE  IsRow(dev'[d]) /\ (d[1] = t => d[2] \in Nat /\ d[2] < turn'[t])
  <2>1. CASE d \in DOMAIN dev /\ d \notin DOMAIN tx[s].dev
    <3>1. dev'[d] = dev[d] BY <1>2, <2>1 DEF Merged
    <3> QED BY <1>3, <2>1, <3>1 DEF DevicesOK
  <2>2. CASE d \in DOMAIN tx[s].dev
    <3>1. dev'[d] = tx[s].dev[d] BY <1>2, <2>2 DEF Merged
    <3>2. CASE d \in DOMAIN dev BY <1>3, <1>4, <2>2, <3>1, <3>2 DEF DevicesOK, TurnOK
    <3>3. CASE d \notin DOMAIN dev BY <1>1, <1>3, <1>4, <2>2, <3>1, <3>3 DEF TurnOK
    <3> QED BY <3>2, <3>3
  <2> QED BY <1>2, <2>1, <2>2 DEF Merged
<1>6. TurnOK(s)' BY <1>1 DEF TurnOK, NoWrites
<1>7. ASSUME NEW t \in Sessions \ {s} PROVE TurnOK(t)'
  <2>1. TurnOK(t) BY DEF DevicesOK
  <2>2. /\ pc'[t] = pc[t] /\ turn'[t] = turn[t] /\ loaded'[t] = loaded[t] /\ tx'[t] = tx[t]
    BY <1>1 DEF Others
  <2>3. \A d \in DOMAIN tx[t].dev : d \notin DOMAIN tx[s].dev BY <1>4, <2>1 DEF TurnOK, Owned
  <2>4. \A d \in DOMAIN tx[t].dev : /\ d \in DOMAIN dev' <=> d \in DOMAIN dev
                                    /\ d \in DOMAIN dev => dev'[d] = dev[d]
    BY <1>2, <2>3 DEF Merged
  <2>5. loaded[t].id \in DOMAIN Devices(t) => loaded[t].id \in DOMAIN Devices(t)'
    BY <1>2, <2>2 DEF Devices, Merged
  <2> QED BY <1>1, <2>1, <2>2, <2>4, <2>5 DEF TurnOK
<1> QED BY <1>5, <1>6, <1>7 DEF DevicesOK

LEMMA ReplaceShape ==
  ASSUME NEW s, NEW d, NEW names, NEW k, NEW w, IsWrites(w)
  PROVE  Replace(s, d, names, k, w).dev = w.dev /\ IsWrites(Replace(s, d, names, k, w))
<1>1. PICK a, b, c : Replace(s, d, names, k, w) = [w EXCEPT !.ifs = a, !.gone = b, !.links = c]
  BY DEF Replace
<1> QED BY <1>1 DEF IsWrites

LEMMA StepKeepsRows == InventoryInv /\ DevicesOK /\ [Next]_vars => DevicesOK'
<1> SUFFICES ASSUME InventoryInv, DevicesOK, [Next]_vars PROVE DevicesOK'
  OBVIOUS
<1>1. ASSUME NEW s \in Sessions, Progress(s) PROVE DevicesOK'
  <2>1. CASE Skip(s)
    <3>1. /\ pc[s] = "next" /\ turn' = [turn EXCEPT ![s] = @ + 1]
          /\ UNCHANGED <<dev, owner, pc, report, loaded, cur, todo, tx>>
      BY <2>1 DEF Skip, tables
    <3>2. Others(s) /\ turn'[s] = turn[s] + 1 BY <3>1 DEF InventoryInv, Shape, Others
    <3>3. TurnOK(s)' BY <3>1 DEF DevicesOK, TurnOK
    <3>4. turn[s] \in Nat BY DEF InventoryInv, ControlOK
    <3>5. \A t \in Sessions \ {s} : \A d : Owned(t, d) => Owned(t, d)' BY <3>1 DEF Owned
    <3> QED BY <3>1, <3>2, <3>3, <3>4, <3>5, RowStep
  <2>2. CASE Collect(s)
    <3>1. UNCHANGED <<dev, owner, turn>> /\ Others(s) /\ tx'[s].dev = tx[s].dev /\ pc'[s] = "select"
      BY <2>2 DEF Collect, Goto, tables, InventoryInv, Shape, Others
    <3> QED BY <3>1, QuietStep
  <2>3. CASE SkipNeighbor(s)
    <3>1. /\ UNCHANGED <<dev, owner, turn>> /\ Others(s) /\ tx'[s].dev = tx[s].dev
          /\ pc'[s] \in {"select", "save"}
      BY <2>3 DEF SkipNeighbor, Goto, tables, InventoryInv, Shape, Others
    <3> QED BY <3>1, QuietStep
  <2>4. CASE Store(s)
    <3>1. PICK w, rows : /\ tx' = [tx EXCEPT ![s] = [w EXCEPT !.adj = rows]]
                         /\ w.dev = tx[s].dev /\ IsWrites(w)
      <4> DEFINE w == IF report[s].ifaces = {} THEN tx[s]
                      ELSE Replace(s, cur[s], report[s].ifaces, 0, tx[s])
      <4>1. w.dev = tx[s].dev /\ IsWrites(w)
        BY ReplaceShape DEF InventoryInv, WritesOK
      <4> HIDE DEF w
      <4>2. \E rows : tx' = [tx EXCEPT ![s] = [w EXCEPT !.adj = rows]]
        BY <2>4 DEF Store, w
      <4> QED BY <4>1, <4>2
    <3>2. tx'[s] = [w EXCEPT !.adj = rows] BY <3>1 DEF InventoryInv, Shape
    <3>3. tx'[s].dev = tx[s].dev BY <3>1, <3>2 DEF IsWrites
    <3>4. UNCHANGED <<dev, owner, turn>> /\ Others(s) /\ pc'[s] \in {"select", "save"}
      BY <2>4 DEF Store, Goto, tables, InventoryInv, Shape, Others
    <3> QED BY <3>3, <3>4, QuietStep
  <2>5. CASE Connect(s)
    <3>1. PICK w, ls : /\ tx' = [tx EXCEPT ![s] = [w EXCEPT !.links = ls]]
                       /\ w.dev = tx[s].dev /\ IsWrites(w)
      <4> DEFINE n == Head(todo[s])
                 remotes == {i \in Ifaces(s) : i.dev = loaded[s].id}
                 name == IF n.remote = None THEN Unknown ELSE n.remote
                 w == IF n.remote # None /\ \E i \in remotes : i.name = name THEN tx[s]
                      ELSE Replace(s, loaded[s].id, {i.name : i \in remotes} \cup {name},
                                   Len(todo[s]), tx[s])
      <4>1. w.dev = tx[s].dev /\ IsWrites(w)
        BY ReplaceShape DEF InventoryInv, WritesOK
      <4> HIDE DEF w
      <4>2. \E ls : tx' = [tx EXCEPT ![s] = [w EXCEPT !.links = ls]]
        BY <2>5 DEF Connect, w
      <4> QED BY <4>1, <4>2
    <3>2. tx'[s] = [w EXCEPT !.links = ls] BY <3>1 DEF InventoryInv, Shape
    <3>3. tx'[s].dev = tx[s].dev BY <3>1, <3>2 DEF IsWrites
    <3>4. UNCHANGED <<dev, owner, turn>> /\ Others(s) /\ pc'[s] \in {"select", "save"}
      BY <2>5 DEF Connect, Goto, tables, InventoryInv, Shape, Others
    <3> QED BY <3>3, <3>4, QuietStep
  <2>6. CASE Ambiguous(s) BY <2>6, RollbackKeepsRows DEF Ambiguous
  <2>7. CASE Deadlock(s) BY <2>7, RollbackKeepsRows DEF Deadlock
  <2> QED BY <1>1, <2>1, <2>2, <2>3, <2>4, <2>5, <2>6, <2>7, SelectKeepsRows, UpsertKeepsRows,
             CommitKeepsRows DEF Progress
<1>2. ASSUME NEW s \in Sessions, Fail(s) PROVE DevicesOK'
  BY <1>2, RollbackKeepsRows DEF Fail
<1>3. CASE UNCHANGED vars BY <1>3 DEF vars, DevicesOK, TurnOK, Owned, Devices
<1> QED BY <1>1, <1>2, <1>3 DEF Next

(* Whatever turns of other runs come between a read and a write, the commit *)
(* of a turn leaves vendor, serial and MAC of a device known (IdentityKept). *)
THEOREM IdentityIsKept == Spec => IdentityKept
<1> DEFINE Keeps == \A d \in DOMAIN dev :
                       /\ dev[d].vendor = "vendor" => dev'[d].vendor = "vendor"
                       /\ dev[d].serial # None => dev'[d].serial # None
                       /\ dev[d].mac # None => dev'[d].mac # None
<1>1. Init => DevicesOK BY DEF Init, DevicesOK, TurnOK, NoWrites
<1>2. InventoryInv /\ DevicesOK /\ [Next]_vars => [Keeps]_vars
  <2> SUFFICES ASSUME DevicesOK, Next, NEW d \in DOMAIN dev
               PROVE  /\ dev[d].vendor = "vendor" => dev'[d].vendor = "vendor"
                      /\ dev[d].serial # None => dev'[d].serial # None
                      /\ dev[d].mac # None => dev'[d].mac # None
    OBVIOUS
  <2>1. CASE UNCHANGED dev BY <2>1
  <2>2. ASSUME NEW s \in Sessions, Commit(s) PROVE AtLeast(dev'[d], dev[d])
    <3>1. dev' = Merged(tx[s].dev, dev) BY <2>2 DEF Commit, Devices
    <3> QED BY <3>1 DEF Merged, DevicesOK, TurnOK, AtLeast
  <2>3. UNCHANGED dev \/ \E s \in Sessions : Commit(s)
    <3>1. PICK s \in Sessions : Progress(s) \/ Fail(s) BY DEF Next
    <3>2. ASSUME Skip(s) \/ Collect(s) \/ SkipNeighbor(s) \/ Select(s) PROVE UNCHANGED dev
      BY <3>2 DEF Skip, Collect, SkipNeighbor, Select, tables
    <3>3. ASSUME Upsert(s) PROVE UNCHANGED dev BY <3>3 DEF Upsert, tables
    <3>4. ASSUME Store(s) \/ Connect(s) PROVE UNCHANGED dev BY <3>4 DEF Store, Connect, tables
    <3>5. ASSUME Ambiguous(s) \/ Deadlock(s) \/ Fail(s) PROVE UNCHANGED dev
      BY <3>5 DEF Ambiguous, Deadlock, Fail, RolledBack, tables
    <3> QED BY <3>1, <3>2, <3>3, <3>4, <3>5 DEF Progress
  <2> QED BY <2>1, <2>2, <2>3 DEF AtLeast
<1> QED BY <1>1, <1>2, InitHolds, StepKeeps, StepKeepsRows, PTL DEF Spec, IdentityKept

-----------------------------------------------------------------------------
(* What a turn has deleted so far are interfaces of its device that the     *)
(* answer does not list.                                                    *)
Unlisted(s) ==
  \A i \in ifs : i.id \in tx[s].gone => i.dev = cur[s] /\ i.name \notin report[s].ifaces

LEMMA ReplaceGone ==
  ASSUME NEW s, NEW d, NEW names, NEW k, NEW w, IsWrites(w)
  PROVE  Replace(s, d, names, k, w).gone =
           w.gone \cup {i.id : i \in {j \in Ifaces(s) : j.dev = d /\ j.name \notin names}}
<1> DEFINE lost == {i.id : i \in {j \in Ifaces(s) : j.dev = d /\ j.name \notin names}}
<1>1. PICK a, b : Replace(s, d, names, k, w) = [w EXCEPT !.ifs = a, !.gone = @ \cup lost, !.links = b]
  <2>1. {i \in {j \in Ifaces(s) : j.dev = d} : i.name \notin names}
          = {j \in Ifaces(s) : j.dev = d /\ j.name \notin names}
    OBVIOUS
  <2> QED BY <2>1 DEF Replace
<1> HIDE DEF lost
<1>2. Replace(s, d, names, k, w).gone = w.gone \cup lost
  BY <1>1 DEF IsWrites
<1> QED BY <1>2 DEF lost

(* Only the replacement of the device's own interfaces deletes any.         *)
LEMMA StoreLosesUnlisted ==
  ASSUME InventoryInv, NEW s \in Sessions, Store(s)
  PROVE  Unlisted(s)'
<1>1. pc[s] = "store" /\ UNCHANGED <<ifs, cur, report>> BY DEF Store, tables
<1>2. ControlOK(s) /\ WritesOK(s, Len(todo[s]), tx[s]) BY DEF InventoryInv
<1>3. tx[s].gone = {} /\ IsWrites(tx[s]) BY <1>1, <1>2 DEF ControlOK, WritesOK
<1>4. PICK w : /\ w = IF report[s].ifaces = {} THEN tx[s]
                      ELSE Replace(s, cur[s], report[s].ifaces, 0, tx[s])
               /\ \E rows : tx' = [tx EXCEPT ![s] = [w EXCEPT !.adj = rows]]
  BY DEF Store
<1>5. IsWrites(w) BY <1>3, <1>4, ReplaceShape
<1>6. tx'[s].gone = w.gone
  <2>1. PICK rows : tx' = [tx EXCEPT ![s] = [w EXCEPT !.adj = rows]] BY <1>4
  <2>2. tx'[s] = [w EXCEPT !.adj = rows] BY <2>1 DEF InventoryInv, Shape
  <2> QED BY <1>5, <2>2 DEF IsWrites
<1>7. ASSUME NEW i \in ifs, i.id \in w.gone PROVE i.dev = cur[s] /\ i.name \notin report[s].ifaces
  <2>1. w = Replace(s, cur[s], report[s].ifaces, 0, tx[s]) BY <1>3, <1>4, <1>7
  <2>2. w.gone = tx[s].gone \cup
          {j.id : j \in {k \in Ifaces(s) : k.dev = cur[s] /\ k.name \notin report[s].ifaces}}
    BY <1>3, <2>1, ReplaceGone
  <2>3. PICK j \in Ifaces(s) : j.id = i.id /\ j.dev = cur[s] /\ j.name \notin report[s].ifaces
    BY <1>3, <1>7, <2>2
  <2>4. i \in Seen(tx[s]) /\ j \in Seen(tx[s]) BY <1>3, <2>3, SeenIsIfaces DEF Seen
  <2>5. i = j BY <1>2, <2>3, <2>4 DEF WritesOK, Distinct
  <2> QED BY <2>3, <2>5
<1> QED BY <1>1, <1>6, <1>7 DEF Unlisted

(* A neighbour's interfaces are replaced by themselves and one more.        *)
LEMMA ConnectLosesNone ==
  ASSUME InventoryInv, NEW s \in Sessions, Connect(s)
  PROVE  tx'[s].gone = tx[s].gone
<1> DEFINE n == Head(todo[s])
           remotes == {i \in Ifaces(s) : i.dev = loaded[s].id}
           name == IF n.remote = None THEN Unknown ELSE n.remote
           names == {i.name : i \in remotes} \cup {name}
<1>1. IsWrites(tx[s]) BY DEF InventoryInv, WritesOK
<1>2. PICK w : /\ w = IF n.remote # None /\ \E i \in remotes : i.name = name THEN tx[s]
                      ELSE Replace(s, loaded[s].id, names, Len(todo[s]), tx[s])
               /\ \E ls : tx' = [tx EXCEPT ![s] = [w EXCEPT !.links = ls]]
  BY DEF Connect
<1>3. {j \in Ifaces(s) : j.dev = loaded[s].id /\ j.name \notin names} = {} OBVIOUS
<1> HIDE DEF n, remotes, name, names
<1>4. Replace(s, loaded[s].id, names, Len(todo[s]), tx[s]).gone = tx[s].gone
  <2>1. PICK d, m, b : d = loaded[s].id /\ m = Len(todo[s]) /\ b = tx[s] OBVIOUS
  <2>2. Replace(s, d, names, m, b).gone =
          b.gone \cup {i.id : i \in {j \in Ifaces(s) : j.dev = d /\ j.name \notin names}}
    BY <1>1, <2>1, ReplaceGone
  <2> QED BY <1>3, <2>1, <2>2
<1>5. IsWrites(w) /\ w.gone = tx[s].gone BY <1>1, <1>2, <1>4, ReplaceShape
<1> QED BY <1>2, <1>5 DEF InventoryInv, Shape, IsWrites

(* A session that has deleted nothing, or nothing more.                     *)
LEMMA UnlistedStays ==
  ASSUME NEW s, Unlisted(s), UNCHANGED ifs,
         tx'[s].gone = {} \/ (tx'[s].gone = tx[s].gone /\ cur'[s] = cur[s] /\ report'[s] = report[s])
  PROVE  Unlisted(s)'
  BY DEF Unlisted

LEMMA OwnStepKeepsUnlisted ==
  ASSUME InventoryInv, NEW s \in Sessions, Unlisted(s), Progress(s), ~Commit(s)
  PROVE  Unlisted(s)' /\ Others(s) /\ UNCHANGED ifs
<1> USE DEF tables
<1>1. ControlOK(s) BY DEF InventoryInv
<1>2. CASE Ambiguous(s) \/ Deadlock(s)
  <2>1. RolledBack(s) BY <1>2 DEF Ambiguous, Deadlock
  <2>2. Others(s) /\ tx'[s] = NoWrites BY <2>1, EndTurnEffect DEF RolledBack
  <2>3. UNCHANGED ifs BY <2>1 DEF RolledBack
  <2> QED BY <2>2, <2>3, UnlistedStays DEF NoWrites
<1>3. CASE Skip(s)
  <2>1. UNCHANGED <<ifs, cur, report, tx>> /\ Others(s) BY <1>3 DEF Skip, InventoryInv, Shape, Others
  <2> QED BY <2>1, UnlistedStays
<1>4. CASE Collect(s)
  <2>1. UNCHANGED <<ifs, tx>> /\ Others(s) BY <1>4 DEF Collect, Goto, InventoryInv, Shape, Others
  <2>2. pc[s] = "next" BY <1>4 DEF Collect
  <2>3. tx[s].gone = {} BY <1>1, <2>2 DEF ControlOK
  <2> QED BY <2>1, <2>3, UnlistedStays
<1>5. CASE SkipNeighbor(s)
  <2>1. UNCHANGED <<ifs, cur, report, tx>> /\ Others(s)
    BY <1>5 DEF SkipNeighbor, Goto, InventoryInv, Shape, Others
  <2> QED BY <2>1, UnlistedStays
<1>6. CASE Select(s)
  <2>1. UNCHANGED <<ifs, cur, report, tx>> /\ Others(s)
    BY <1>6 DEF Select, Goto, InventoryInv, Shape, Others
  <2> QED BY <2>1, UnlistedStays
<1>7. CASE Upsert(s)
  <2>1. PICK id, rows, row, at :
          /\ pc[s] = "upsert" /\ tx' = [tx EXCEPT ![s].dev = rows]
          /\ cur' = IF todo[s] = <<>> THEN [cur EXCEPT ![s] = id] ELSE cur
          /\ loaded' = [loaded EXCEPT ![s] = row] /\ pc' = [pc EXCEPT ![s] = at]
          /\ UNCHANGED <<ifs, turn, report, todo>>
    BY <1>7 DEF Upsert, Goto
  <2>2. Others(s) BY <2>1 DEF InventoryInv, Shape, Others
  <2>3. tx'[s].gone = tx[s].gone BY <2>1 DEF InventoryInv, Shape, WritesOK, IsWrites
  <2>4. CASE todo[s] = <<>>
    <3>1. tx[s].gone = {} BY <1>1, <2>1, <2>4 DEF ControlOK
    <3> QED BY <2>1, <2>2, <2>3, <3>1, UnlistedStays
  <2>5. CASE todo[s] # <<>> BY <2>1, <2>2, <2>3, <2>5, UnlistedStays
  <2> QED BY <2>4, <2>5
<1>8. CASE Store(s)
  <2>1. UNCHANGED ifs /\ Others(s) BY <1>8 DEF Store, Goto, InventoryInv, Shape, Others
  <2> QED BY <1>8, <2>1, StoreLosesUnlisted
<1>9. CASE Connect(s)
  <2>1. UNCHANGED <<ifs, cur, report>> /\ Others(s)
    BY <1>9 DEF Connect, Goto, InventoryInv, Shape, Others
  <2> QED BY <1>9, <2>1, ConnectLosesNone, UnlistedStays
<1> QED BY <1>2, <1>3, <1>4, <1>5, <1>6, <1>7, <1>8, <1>9 DEF Progress

(* The commit of one session brings interfaces that no other has deleted.   *)
LEMMA CommitKeepsUnlisted ==
  ASSUME InventoryInv, NEW s \in Sessions, Commit(s), NEW t \in Sessions, Unlisted(t)
  PROVE  Unlisted(t)'
<1>1. Others(s) /\ tx'[s] = NoWrites BY EndTurnEffect DEF Commit
<1>2. CASE t = s BY <1>1, <1>2 DEF Unlisted, NoWrites
<1>3. CASE t # s
  <2>1. tx'[t] = tx[t] /\ cur'[t] = cur[t] /\ report'[t] = report[t] BY <1>1, <1>3 DEF Others
  <2>2. ifs' = Seen(tx[s]) BY SeenIsIfaces DEF Commit
  <2>3. \A i \in tx[s].ifs : i.id \notin tx[t].gone BY <1>3, Apart
  <2> QED BY <2>1, <2>2, <2>3 DEF Unlisted, Seen
<1> QED BY <1>2, <1>3

LEMMA StepKeepsUnlisted ==
  InventoryInv /\ (\A t \in Sessions : Unlisted(t)) /\ [Next]_vars => \A t \in Sessions : Unlisted(t)'
<1> SUFFICES ASSUME InventoryInv, \A t \in Sessions : Unlisted(t), [Next]_vars, NEW t \in Sessions
             PROVE  Unlisted(t)'
  OBVIOUS
<1>1. CASE UNCHANGED vars BY <1>1 DEF vars, Unlisted
<1>2. ASSUME NEW s \in Sessions, Commit(s) PROVE Unlisted(t)'
  BY <1>2, CommitKeepsUnlisted
<1>3. ASSUME NEW s \in Sessions, Unlisted(s)', Others(s), UNCHANGED ifs PROVE Unlisted(t)'
  <2>1. CASE t = s BY <1>3, <2>1
  <2>2. CASE t # s
    <3>1. tx'[t] = tx[t] /\ cur'[t] = cur[t] /\ report'[t] = report[t] BY <1>3, <2>2 DEF Others
    <3> QED BY <1>3, <3>1, UnlistedStays
  <2> QED BY <2>1, <2>2
<1>4. ASSUME NEW s \in Sessions, Fail(s) PROVE Unlisted(s)' /\ Others(s) /\ UNCHANGED ifs
  <2>1. Others(s) /\ tx'[s] = NoWrites BY <1>4, EndTurnEffect DEF Fail, RolledBack
  <2>2. UNCHANGED ifs BY <1>4 DEF Fail, RolledBack, tables
  <2> QED BY <2>1, <2>2 DEF Unlisted, NoWrites
<1>5. ASSUME NEW s \in Sessions, Progress(s), ~Commit(s)
      PROVE  Unlisted(s)' /\ Others(s) /\ UNCHANGED ifs
  BY <1>5, OwnStepKeepsUnlisted
<1>6. CASE Next
  <2>1. PICK s \in Sessions : Progress(s) \/ Fail(s) BY <1>6 DEF Next
  <2>2. CASE Commit(s) BY <1>2, <2>2
  <2>3. CASE ~Commit(s)
    <3>1. Unlisted(s)' /\ Others(s) /\ UNCHANGED ifs BY <1>4, <1>5, <2>1, <2>3
    <3> QED BY <1>3, <3>1
  <2> QED BY <2>2, <2>3
<1> QED BY <1>1, <1>6

(* What hangs on an interface (links, metrics, alerts) keeps hanging on it: *)
(* for any number of runs, whatever they delete and insert at once, a       *)
(* committed interface has the id it had before, unless the turn of its own *)
(* device did not find it any more (StableIds).                             *)
THEOREM IdsAreStable == Spec => StableIds
<1> DEFINE Inv == InventoryInv /\ \A t \in Sessions : Unlisted(t)
           Keeps == \A i \in ifs, j \in ifs' :
                      i.dev = j.dev /\ i.name = j.name =>
                        \/ i.id = j.id
                        \/ \E s \in Sessions : Commit(s) /\ cur[s] = i.dev /\ i.name \notin report[s].ifaces
<1>1. Init => Inv BY InitHolds DEF Init, Unlisted
<1>2. Inv /\ [Next]_vars => Inv' BY StepKeeps, StepKeepsUnlisted
<1>3. Inv /\ [Next]_vars => [Keeps]_vars
  <2> SUFFICES ASSUME Inv, Next, NEW i \in ifs, NEW j \in ifs', i.dev = j.dev, i.name = j.name
               PROVE  \/ i.id = j.id
                      \/ \E s \in Sessions : Commit(s) /\ cur[s] = i.dev /\ i.name \notin report[s].ifaces
    OBVIOUS
  <2>1. PICK s \in Sessions : Progress(s) \/ Fail(s) BY DEF Next
  <2>2. CASE UNCHANGED ifs BY <2>2 DEF InventoryInv, CommittedOK, Distinct
  <2>3. CASE Commit(s)
    <3>1. j \in Seen(tx[s]) BY <2>3, SeenIsIfaces DEF Commit
    <3>2. CASE i.id \in tx[s].gone BY <2>3, <3>2 DEF Unlisted
    <3>3. CASE i.id \notin tx[s].gone
      <4>1. i \in Seen(tx[s]) BY <3>3 DEF Seen
      <4>2. Distinct(Seen(tx[s])) BY DEF InventoryInv, WritesOK
      <4> QED BY <3>1, <4>1, <4>2 DEF Distinct
    <3> QED BY <3>2, <3>3
  <2>4. Commit(s) \/ UNCHANGED ifs
    <3>1. CASE Fail(s) BY <3>1 DEF Fail, RolledBack, tables
    <3>2. CASE Progress(s) BY <3>2, OwnStepKeepsUnlisted
    <3> QED BY <2>1, <3>1, <3>2
  <2> QED BY <2>2, <2>3, <2>4
<1> QED BY <1>1, <1>2, <1>3, PTL DEF Spec, StableIds
-----------------------------------------------------------------------------
(* How far a session has to go: the targets that are left, the part of the  *)
(* turn (the device itself, its neighbours, the commit), the neighbours     *)
(* that are left, and the place of the next statement.                      *)
TurnsLeft(s) == Len(Targets[s]) + 1 - turn[s]
Part(s) == IF todo[s] # <<>> THEN 1 ELSE IF pc[s] = "save" THEN 0 ELSE 2
PlaceOf == [next |-> 4, select |-> 3, upsert |-> 2, store |-> 1, connect |-> 1, save |-> 0]
Place(s) == PlaceOf[pc[s]]

OnTheScale(s) == /\ TurnsLeft(s) \in Nat /\ Part(s) \in Nat /\ Len(todo[s]) \in Nat /\ Place(s) \in Nat
                 /\ pc[s] # "next" => TurnsLeft(s) # 0

(* Down the scale, the earlier numbers weighing more than the later ones. *)
Advanced(s) ==
  \/ TurnsLeft(s)' < TurnsLeft(s)
  \/ /\ TurnsLeft(s)' = TurnsLeft(s)
     /\ \/ Part(s)' < Part(s)
        \/ /\ Part(s)' = Part(s)
           /\ \/ Len(todo'[s]) < Len(todo[s])
              \/ Len(todo'[s]) = Len(todo[s]) /\ Place(s)' < Place(s)

(* No lock outlives the turn that took it. *)
HeldByTurns == \A d \in DOMAIN owner : owner[d] \in Sessions /\ pc[owner[d]] # "next"

Stands(s) == pc'[s] = pc[s] /\ turn'[s] = turn[s] /\ todo'[s] = todo[s]

Within(s) == /\ turn[s] <= Len(Targets[s]) + 1
             /\ pc[s] # "next" => turn[s] <= Len(Targets[s])

LEMMA Places ==
  /\ PlaceOf["next"] = 4 /\ PlaceOf["select"] = 3 /\ PlaceOf["upsert"] = 2
  /\ PlaceOf["store"] = 1 /\ PlaceOf["connect"] = 1 /\ PlaceOf["save"] = 0
BY DEF PlaceOf

LEMMA ScaleCounts ==
  ASSUME InventoryInv, NEW s \in Sessions
  PROVE  /\ Len(Targets[s]) \in Nat /\ turn[s] \in Nat /\ Len(todo[s]) \in Nat
         /\ TurnsLeft(s) \in Int /\ Part(s) \in 0..2 /\ Place(s) \in 0..4
<1>1. ControlOK(s) BY DEF InventoryInv
<1>2. Len(Targets[s]) \in Nat BY InventoryAssumption, LenProperties
<1>3. Len(todo[s]) \in Nat BY <1>1, LenProperties DEF ControlOK, IsSeq
<1>4. turn[s] \in Nat /\ TurnsLeft(s) \in Int BY <1>1, <1>2 DEF ControlOK, TurnsLeft
<1>5. Place(s) \in 0..4 BY <1>1, Places DEF ControlOK, Labels, Place
<1> QED BY <1>2, <1>3, <1>4, <1>5 DEF Part

(* A turn that is over. *)
LEMMA TurnEnds ==
  ASSUME InventoryInv, NEW s \in Sessions, Within(s), turn[s] <= Len(Targets[s]),
         turn'[s] = turn[s] + 1, pc'[s] = "next"
  PROVE  Advanced(s) /\ Within(s)'
<1>1. Len(Targets[s]) \in Nat /\ turn[s] \in Nat BY ScaleCounts
<1> QED BY <1>1 DEF Advanced, TurnsLeft, Within

(* A step within a turn. *)
LEMMA TurnGoesOn ==
  ASSUME InventoryInv, NEW s \in Sessions, Within(s), turn[s] <= Len(Targets[s]), turn'[s] = turn[s],
         \/ /\ todo'[s] = todo[s] /\ Part(s)' = Part(s) /\ Place(s)' < Place(s)
         \/ Part(s)' < Part(s)
         \/ /\ Len(todo'[s]) < Len(todo[s]) /\ Part(s)' = Part(s)
  PROVE  Advanced(s) /\ Within(s)'
<1>1. TurnsLeft(s)' = TurnsLeft(s) BY DEF TurnsLeft
<1>2. Within(s)'
  <2>1. Len(Targets[s]) \in Nat /\ turn[s] \in Nat BY ScaleCounts
  <2> QED BY <2>1 DEF Within
<1> QED BY <1>1, <1>2 DEF Advanced

(* One neighbour less, or none left. *)
LEMMA NeighborDone ==
  ASSUME InventoryInv, NEW s \in Sessions, Within(s), turn[s] <= Len(Targets[s]), turn'[s] = turn[s],
         todo[s] # <<>>, todo'[s] = Tail(todo[s]),
         pc'[s] = IF Tail(todo[s]) = <<>> THEN "save" ELSE "select"
  PROVE  Advanced(s) /\ Within(s)'
<1>1. Part(s) = 1 BY DEF Part
<1>2. CASE Tail(todo[s]) = <<>>
  <2>1. Part(s)' = 0 BY <1>2 DEF Part
  <2> QED BY <1>1, <2>1, TurnGoesOn
<1>3. CASE Tail(todo[s]) # <<>>
  <2>1. Part(s)' = 1 BY <1>3 DEF Part
  <2>2. PICK S : todo[s] \in Seq(S) BY DEF InventoryInv, ControlOK, IsSeq
  <2>3. Len(Tail(todo[s])) = Len(todo[s]) - 1 /\ Len(todo[s]) \in Nat
    BY <2>2, HeadTailProperties, LenProperties
  <2>4. Len(todo'[s]) < Len(todo[s]) BY <2>3
  <2> QED BY <1>1, <2>1, <2>4, TurnGoesOn
<1> QED BY <1>2, <1>3

LEMMA SessionAdvances ==
  ASSUME InventoryInv, NEW s \in Sessions, Within(s), Progress(s) \/ Fail(s)
  PROVE  Advanced(s) /\ Within(s)'
<1>1. /\ ControlOK(s) /\ pc[s] \in Labels /\ (pc[s] # "next" => turn[s] <= Len(Targets[s]))
      /\ pc[s] \in {"next", "store", "save"} => todo[s] = <<>>
  BY DEF InventoryInv, ControlOK, Within
<1>2. CASE Skip(s)
  <2>1. /\ pc[s] = "next" /\ turn[s] <= Len(Targets[s]) /\ turn'[s] = turn[s] + 1 /\ pc'[s] = "next"
    BY <1>2 DEF Skip, InventoryInv, Shape
  <2> QED BY <2>1, TurnEnds
<1>3. CASE Collect(s)
  <2>1. /\ pc[s] = "next" /\ turn[s] <= Len(Targets[s]) /\ turn'[s] = turn[s]
        /\ pc'[s] = "select" /\ todo'[s] = todo[s]
    BY <1>3 DEF Collect, Goto, InventoryInv, Shape
  <2>2. Part(s)' = Part(s) BY <1>1, <2>1 DEF Part
  <2>3. Place(s)' < Place(s) BY <2>1, Places DEF Place
  <2> QED BY <2>1, <2>2, <2>3, TurnGoesOn
<1>4. CASE SkipNeighbor(s)
  <2>1. /\ pc[s] = "select" /\ todo[s] # <<>> /\ todo'[s] = Tail(todo[s]) /\ turn'[s] = turn[s]
        /\ pc'[s] = IF Tail(todo[s]) = <<>> THEN "save" ELSE "select"
    BY <1>4 DEF SkipNeighbor, Goto, InventoryInv, Shape
  <2> QED BY <1>1, <2>1, NeighborDone
<1>5. CASE Select(s)
  <2>1. pc[s] = "select" /\ pc'[s] = "upsert" /\ turn'[s] = turn[s] /\ todo'[s] = todo[s]
    BY <1>5 DEF Select, Selecting, Goto, InventoryInv, Shape
  <2>2. Part(s)' = Part(s) BY <2>1 DEF Part
  <2>3. Place(s)' < Place(s) BY <2>1, Places DEF Place
  <2> QED BY <1>1, <2>1, <2>2, <2>3, TurnGoesOn
<1>6. CASE Upsert(s)
  <2>1. /\ pc[s] = "upsert" /\ turn'[s] = turn[s] /\ todo'[s] = todo[s]
        /\ \/ todo[s] # <<>> /\ pc'[s] = "connect"
           \/ todo[s] = <<>> /\ pc'[s] = "save"
           \/ todo[s] = <<>> /\ pc'[s] = "store"
    BY <1>6 DEF Upsert, Goto, InventoryInv, Shape
  <2>2. CASE pc'[s] = "save"
    <3>1. Part(s) = 2 /\ Part(s)' = 0 BY <2>1, <2>2 DEF Part
    <3> QED BY <1>1, <2>1, <3>1, TurnGoesOn
  <2>3. CASE pc'[s] # "save"
    <3>1. Part(s)' = Part(s) BY <2>1, <2>3 DEF Part
    <3>2. Place(s)' < Place(s) BY <2>1, <2>3, Places DEF Place
    <3> QED BY <1>1, <2>1, <3>1, <3>2, TurnGoesOn
  <2> QED BY <2>2, <2>3
<1>7. CASE Store(s)
  <2>1. /\ pc[s] = "store" /\ turn'[s] = turn[s] /\ todo'[s] = Neighbors(s)
        /\ pc'[s] = IF Neighbors(s) = <<>> THEN "save" ELSE "select"
    BY <1>7 DEF Store, Goto, InventoryInv, Shape
  <2>2. Part(s) = 2 /\ Part(s)' \in {0, 1} BY <1>1, <2>1 DEF Part
  <2>3. Part(s)' < Part(s) BY <2>2
  <2> QED BY <1>1, <2>1, <2>3, TurnGoesOn
<1>8. CASE Connect(s)
  <2>1. /\ pc[s] = "connect" /\ todo'[s] = Tail(todo[s]) /\ turn'[s] = turn[s]
        /\ pc'[s] = IF Tail(todo[s]) = <<>> THEN "save" ELSE "select"
    BY <1>8 DEF Connect, Goto, InventoryInv, Shape
  <2>2. todo[s] # <<>> BY <1>1, <2>1 DEF ControlOK
  <2> QED BY <1>1, <2>1, <2>2, NeighborDone
<1>9. CASE Commit(s) \/ Ambiguous(s) \/ Deadlock(s) \/ Fail(s)
  <2>1. EndTurn(s) /\ pc[s] # "next"
    BY <1>9 DEF Commit, Ambiguous, Selecting, Deadlock, Deadlocked, Waits, Fail, RolledBack
  <2>2. turn'[s] = turn[s] + 1 /\ pc'[s] = "next" BY <2>1, EndTurnEffect
  <2> QED BY <1>1, <2>1, <2>2, TurnEnds
<1> QED BY <1>2, <1>3, <1>4, <1>5, <1>6, <1>7, <1>8, <1>9 DEF Progress

(* Every step is of one session. *)
LEMMA StepIsOwn ==
  ASSUME InventoryInv, NEW s \in Sessions, Progress(s) \/ Fail(s)
  PROVE  Others(s)
<1>1. CASE Skip(s) \/ Collect(s) \/ SkipNeighbor(s) \/ Select(s)
  BY <1>1 DEF Skip, Collect, SkipNeighbor, Select, Goto, InventoryInv, Shape, Others
<1>2. CASE Upsert(s)
  BY <1>2 DEF Upsert, Goto, InventoryInv, Shape, Others
<1>3. CASE Store(s) \/ Connect(s)
  BY <1>3 DEF Store, Connect, Goto, InventoryInv, Shape, Others
<1>4. CASE Commit(s) \/ Ambiguous(s) \/ Deadlock(s) \/ Fail(s)
  BY <1>4, EndTurnEffect DEF Commit, Ambiguous, Deadlock, Fail, RolledBack
<1> QED BY <1>1, <1>2, <1>3, <1>4 DEF Progress

LEMMA StepAdvances ==
  ASSUME InventoryInv, \A s \in Sessions : Within(s), [Next]_vars, NEW t \in Sessions
  PROVE  /\ Within(t)' /\ (Advanced(t) \/ Stands(t))
         /\ Progress(t) \/ Fail(t) => Advanced(t)
<1>1. Progress(t) \/ Fail(t) => Advanced(t) /\ Within(t)' BY SessionAdvances
<1>2. Stands(t) => Within(t)' BY DEF Stands, Within
<1>3. CASE UNCHANGED vars BY <1>1, <1>2, <1>3 DEF vars, Stands
<1>4. ASSUME NEW s \in Sessions, Progress(s) \/ Fail(s), s # t PROVE Stands(t)
  BY <1>4, StepIsOwn DEF Others, Stands
<1> QED BY <1>1, <1>2, <1>3, <1>4 DEF Next

(* A discovery run is a descent: every step takes its session down the      *)
(* scale, from the first target to the end of the last, and no step of      *)
(* another session takes it back up.  What the end of every run (RunsEnd)   *)
(* asks of the scheduler is only that a run that can go on does.            *)
RunsAdvance ==
  /\ [](\A s \in Sessions : OnTheScale(s))
  /\ [][\A s \in Sessions : /\ Progress(s) \/ Fail(s) => Advanced(s)
                            /\ Advanced(s) \/ Stands(s)]_vars

\* However often turns fail, are rolled back as victims of a deadlock or find
\* neighbours to link, a run does not go back to a target or a neighbour it is
\* through with, and each turn is over after finitely many statements.
THEOREM RunsAreFinite == Spec => RunsAdvance
<1> DEFINE Inv == InventoryInv /\ \A s \in Sessions : Within(s)
           Scale == \A s \in Sessions : OnTheScale(s)
           Down == \A s \in Sessions : /\ Progress(s) \/ Fail(s) => Advanced(s)
                                       /\ Advanced(s) \/ Stands(s)
<1>1. Init => Inv
  <2> SUFFICES ASSUME Init, InventoryInv, NEW s \in Sessions PROVE Within(s)
    BY InitHolds
  <2> QED BY ScaleCounts DEF Init, Within
<1>2. Inv /\ [Next]_vars => Inv' BY StepKeeps, StepAdvances
<1>3. Inv => Scale
  <2> SUFFICES ASSUME Inv, NEW s \in Sessions PROVE OnTheScale(s)
    OBVIOUS
  <2>1. TurnsLeft(s) \in Nat /\ (pc[s] # "next" => TurnsLeft(s) # 0)
    BY ScaleCounts DEF Within, TurnsLeft
  <2> QED BY <2>1, ScaleCounts DEF OnTheScale
<1>4. Inv /\ [Next]_vars => Down BY StepAdvances
<1> HIDE DEF Inv, Scale, Down
<1>5. Spec => []Scale /\ [][Down]_vars BY <1>1, <1>2, <1>3, <1>4, PTL DEF Spec
<1> QED BY <1>5 DEF Scale, Down, RunsAdvance

(* A statement that waits for the lock of a row waits for a session in the  *)
(* middle of a turn.                                                        *)
WaitsAreForTurns == \A s, t \in Sessions : Waits(s, t) => t # s /\ pc[t] # "next"

LEMMA InitHeld == Init => HeldByTurns BY DEF Init, HeldByTurns

LEMMA StepKeepsHeld == InventoryInv /\ HeldByTurns /\ [Next]_vars => HeldByTurns'
<1> SUFFICES ASSUME InventoryInv, HeldByTurns, [Next]_vars PROVE HeldByTurns'
  OBVIOUS
<1>1. CASE UNCHANGED vars BY <1>1 DEF vars, HeldByTurns
<1>2. ASSUME NEW s \in Sessions, EndTurn(s) PROVE HeldByTurns'
  <2>1. \A t \in Sessions \ {s} : pc'[t] = pc[t] BY <1>2, EndTurnEffect DEF Others
  <2>2. DOMAIN owner' = {e \in DOMAIN owner : owner[e] # s} /\ \A d \in DOMAIN owner' : owner'[d] = owner[d]
    BY <1>2 DEF EndTurn, Unlocked
  <2> QED BY <2>1, <2>2 DEF HeldByTurns
<1>3. ASSUME NEW s \in Sessions, Upsert(s) PROVE HeldByTurns'
  <2>1. PICK id : owner' = Merged([d \in {id} |-> s], owner)
    BY <1>3 DEF Upsert, IsUpdate
  <2>2. \A d \in DOMAIN owner' : owner'[d] = s \/ (d \in DOMAIN owner /\ owner'[d] = owner[d])
    BY <2>1 DEF Merged
  <2>3. pc'[s] # "next" /\ \A t \in Sessions \ {s} : pc'[t] = pc[t]
    BY <1>3 DEF Upsert, Goto, InventoryInv, Shape
  <2> QED BY <2>2, <2>3 DEF HeldByTurns
<1>4. ASSUME NEW s \in Sessions, Progress(s), ~Upsert(s), ~EndTurn(s) PROVE HeldByTurns'
  <2>1. owner' = owner /\ \A t \in Sessions : pc[t] # "next" => pc'[t] # "next"
    BY <1>4 DEF Progress, Skip, Collect, SkipNeighbor, Select, Store, Connect, Commit, Ambiguous,
                Deadlock, RolledBack, Goto, InventoryInv, Shape
  <2> QED BY <2>1 DEF HeldByTurns
<1> QED BY <1>1, <1>2, <1>3, <1>4 DEF Next, Fail, RolledBack

LEMMA WaitsForTurns == HeldByTurns => WaitsAreForTurns
BY DEF HeldByTurns, WaitsAreForTurns, Waits, Free

\* However turns end (committed, rolled back, killed), no lock outlives the
\* turn that took it: whoever waits, waits for a turn that goes on.
THEOREM LocksEndWithTurns == Spec => [](HeldByTurns /\ WaitsAreForTurns)
BY InitHeld, InitHolds, StepKeepsHeld, StepKeeps, WaitsForTurns, PTL DEF Spec

(* While a run is in a turn, one goes on, or PostgreSQL finds one to cancel. *)
Halted(s) == \E t \in Sessions : Waits(s, t)
SomeRunMoves ==
  (\E s \in Sessions : pc[s] # "next") =>
    \E s \in Sessions : pc[s] # "next" /\ (~Halted(s) \/ Deadlocked(s))

LEMMA HaltedMeansDeadlocked ==
  ASSUME IsFiniteSet(Sessions), HeldByTurns, WaitsAreForTurns
  PROVE  SomeRunMoves
<1> DEFINE on == {s \in Sessions : pc[s] # "next"}
<1> SUFFICES ASSUME on # {}, \A s \in on : Halted(s) PROVE \E s \in on : Deadlocked(s)
  BY DEF SomeRunMoves
<1> DEFINE next == [s \in on |-> CHOOSE t \in on : Waits(s, t)]
<1>1. \A s \in on : next[s] \in on /\ Waits(s, next[s])
  BY DEF Halted, WaitsAreForTurns
<1>2. IsFiniteSet(on) /\ next \in [on -> on]
  BY <1>1, FS_Subset
<1>3. on \in SUBSET Sessions
  OBVIOUS
<1> HIDE DEF on, next
<1>4. PICK C \in SUBSET on : Circle(C, next)
  BY <1>2, CircleExists
<1>5. /\ C \in SUBSET Sessions /\ \A t \in C : \E u \in C : Waits(t, u)
      /\ \A u \in C : \E t \in C : Waits(t, u)
  BY <1>1, <1>3, <1>4 DEF Circle
<1>6. PICK s \in C : TRUE
  BY <1>4 DEF Circle
<1>7. Deadlocked(s)
  BY <1>5, <1>6 DEF Deadlocked
<1> QED BY <1>6, <1>7

(* Finitely many runs never come to a standstill in their turns: whichever  *)
(* devices they have locked, and stubs of each other's devices they upsert, *)
(* one that is in a turn does not wait, or some wait in a circle and        *)
(* PostgreSQL cancels one of these.                                         *)
THEOREM RunsNeverStall ==
  ASSUME IsFiniteSet(Sessions)
  PROVE  Spec => []SomeRunMoves
<1>1. HeldByTurns => SomeRunMoves BY WaitsForTurns, HaltedMeansDeadlocked
<1> QED BY <1>1, InitHeld, InitHolds, StepKeepsHeld, StepKeeps, PTL DEF Spec
=============================================================================
