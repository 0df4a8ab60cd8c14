-------------------------- MODULE CredentialRotation --------------------------
(* Which SNMP credentials a device is tried with, and in which order: by    *)
(* discovery (the seed's profiles, then every SNMP profile) and by the      *)
(* metrics sweep (the device's profiles, then every SNMP profile).  The     *)
(* first one that answers is the one the device is bound to.                *)
(*                                                                          *)
(* A credential is a record: v(ersion), c(ommunity), u(ser) and k(ey).      *)
EXTENDS Naturals, Sequences

CONSTANTS
  RotCount,    \* profiles, numbered in the order of their names
  RotKinds,    \* what a profile can be: [snmp, readable, cred]
  RotLists,    \* lists of profile ids: a seed's column, a device's links
  RotDevices   \* the one credential a device answers to

RotIds == 1..RotCount

ASSUME RotationAssumption == RotCount \in Nat /\ RotLists \subseteq Seq(RotIds)

VARIABLES
  rotTable,  \* rows of credential_profiles
  rot        \* the attempt on one device

rotVars == <<rotTable, rot>>

RotInit ==
  /\ rotTable \in [RotIds -> RotKinds]
  /\ rot \in [by : {"discovery", "sweep"}, linked : RotLists, accepts : RotDevices,
              step : {"start"}, ids : {<<>>}, todo : {<<>>}, won : {0}, lost : {FALSE}]

Public == [v |-> 2, c |-> "public", u |-> "", k |-> ""]
Lower(c) == IF c = "LAB" THEN "lab" ELSE c

-----------------------------------------------------------------------------
(* A list with gaps is a function whose domain is a set of places: dropping *)
(* an element leaves the others where they are.                             *)
First(l) == CHOOSE i \in DOMAIN l : \A j \in DOMAIN l : i <= j
Past(l) == CHOOSE n \in {0} \cup DOMAIN l : \A i \in DOMAIN l : i <= n
Popped(l) == [i \in DOMAIN l \ {First(l)} |-> l[i]]
Joined(l, m) ==
  [i \in DOMAIN l \cup {Past(l) + j : j \in DOMAIN m} |-> IF i \in DOMAIN l THEN l[i] ELSE m[i - Past(l)]]

(* The elements of l whose key no earlier element has. *)
Firsts(l, key) ==
  [i \in {i \in DOMAIN l : \A j \in DOMAIN l : j < i => key[j] # key[i]} |-> l[i]]

(* list_snmp_profile_ids, of the rows there are now. *)
GlobalIds == [p \in {p \in DOMAIN rotTable : rotTable[p].snmp} |-> p]

\* Mutant: the profiles of the seed come last.
AllIdsGlobalFirst(linked) ==
  LET all == Joined(GlobalIds, linked) IN Firsts(all, all)

(* discovery_profile_ids: the seed's profiles first. *)
AllIds(linked) ==
  LET all == Joined(linked, GlobalIds) IN Firsts(all, all)

(* load_profile_candidates: one per SNMP profile that exists, public last   *)
(* unless some profile has that community.                                  *)
IsSnmp(p) == p \in DOMAIN rotTable /\ rotTable[p].snmp
Own(ids) ==
  LET distinct == Firsts(ids, ids)
  IN  [i \in {i \in DOMAIN distinct : IsSnmp(distinct[i])} |->
         [id |-> distinct[i], cred |-> rotTable[distinct[i]].cred]]
Candidates(ids) ==
  IF \E i \in DOMAIN Own(ids) : Lower(Own(ids)[i].cred.c) = "public" THEN Own(ids)
  ELSE Joined(Own(ids), <<[id |-> 0, cred |-> Public]>>)

(* _merge_snmp_candidates: the key leaves out the keys of SNMPv3 and the    *)
(* case of the community.                                                   *)
MergedCandidates(primary, extra) ==
  LET all == Joined(primary, extra)
  IN  Firsts(all, [i \in DOMAIN all |-> <<all[i].cred.v, Lower(all[i].cred.c), all[i].cred.u>>])

Unreadable(ids) == \E i \in DOMAIN ids : ids[i] \in DOMAIN rotTable /\ ~rotTable[ids[i]].readable

(* The ids are selected. *)
ReadIds ==
  /\ rot.step = "start"
  /\ rot' = [rot EXCEPT !.step = "ids",
               !.ids = IF rot.by = "discovery" THEN AllIds(rot.linked) ELSE GlobalIds]
  /\ UNCHANGED rotTable

(* The rows are selected by a later statement and decrypted: one that       *)
(* cannot be read fails the attempt.                                        *)
LoadRows ==
  LET device == IF rot.by = "sweep" /\ rot.linked # <<>> THEN rot.linked ELSE <<>>
      mine == IF device = <<>> THEN <<>> ELSE Candidates(device)
  IN  /\ rot.step = "ids"
      /\ rot' = IF Unreadable(rot.ids) \/ Unreadable(device) THEN [rot EXCEPT !.step = "failed"]
                ELSE [rot EXCEPT !.step = "probe",
                        !.todo = IF rot.by = "discovery" THEN Candidates(rot.ids)
                                 ELSE MergedCandidates(mine, Candidates(rot.ids))]
      /\ UNCHANGED rotTable

(* _fingerprint and _probe_snmp_candidates: one GET for each candidate; the *)
(* answer may be lost.                                                      *)
Tries == rot.todo[First(rot.todo)]

Answered ==
  /\ rot.step = "probe" /\ DOMAIN rot.todo # {} /\ Tries.cred = rot.accepts
  /\ rot' = [rot EXCEPT !.step = "won", !.won = Tries.id]
  /\ UNCHANGED rotTable

Silent ==
  /\ rot.step = "probe" /\ DOMAIN rot.todo # {}
  /\ rot' = [rot EXCEPT !.todo = Popped(@), !.lost = @ \/ Tries.cred = rot.accepts]
  /\ UNCHANGED rotTable

NothingAnswers ==
  /\ rot.step = "probe" /\ DOMAIN rot.todo = {}
  /\ rot' = [rot EXCEPT !.step = "none"]
  /\ UNCHANGED rotTable

(* A profile is deleted between two statements of the attempt. *)
RotDelete ==
  /\ rot.step \in {"start", "ids"}
  /\ \E p \in DOMAIN rotTable : rotTable' = [q \in DOMAIN rotTable \ {p} |-> rotTable[q]]
  /\ UNCHANGED rot

RotNext == ReadIds \/ LoadRows \/ Answered \/ Silent \/ NothingAnswers \/ RotDelete
RotSpec == RotInit /\ [][RotNext]_rotVars

-----------------------------------------------------------------------------
(* When no answer is lost, a discovery finds a profile that works if there  *)
(* is one, takes one of the seed's before any other, and the first of them. *)
Works(p) == IsSnmp(p) /\ rotTable[p].cred = rot.accepts
SeedProfileFirst ==
  rot.by = "discovery" /\ ~rot.lost =>
    /\ rot.step = "none" => \A i \in DOMAIN rot.ids : ~Works(rot.ids[i])
    /\ rot.step = "won" => \A i \in DOMAIN rot.linked : Works(rot.linked[i]) =>
         \E j \in 1..i : rot.linked[j] = rot.won

(* A wrong profile linked to a device does not keep the sweep from trying   *)
(* the right one of the Credentials page: a sweep of a device with links    *)
(* that gets no answer has tried every SNMP profile.                        *)
CorrectProfileIsTried ==
  rot.by = "sweep" /\ rot.linked # <<>> /\ rot.step = "none" /\ ~rot.lost =>
    \A i \in DOMAIN rot.ids : ~Works(rot.ids[i])
=============================================================================
