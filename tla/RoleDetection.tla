---------------------------- MODULE RoleDetection ----------------------------
(* The role columns of a device: automatic detection, which scores what the *)
(* inventory tables say of it, against manual overrides and edits of the    *)
(* metadata columns.                                                        *)
(*                                                                          *)
(* Each request is a session that loads a device, goes on to other          *)
(* statements and commits; detect-all loads every device before it works on *)
(* the first.  A commit writes the columns that differ from the row as it   *)
(* was loaded.                                                              *)
EXTENDS Naturals, FiniteSets, Sequences

CONSTANTS
  RoleDevices,    \* devices
  Detectors,      \* requests that detect roles
  Editors,        \* requests that override a role or edit metadata
  ManualRoles,    \* roles an operator may choose
  Notes,          \* values of the metadata columns
  NoRow,          \* nothing is loaded
  Situations      \* what the inventory tables may say of a device

(* Order matters: of equal scores the first wins. *)
RoleOrder == <<"core", "distribution", "access", "firewall", "router", "server",
               "storage", "wireless", "unknown">>
Roles == {RoleOrder[i] : i \in DOMAIN RoleOrder}

(* The words found in platform, vendor, model and host name, the role and   *)
(* class that the collector set, and what is counted in the tables.         *)
Signals == [explicit : Roles \cup {"none"},
            hints : SUBSET {"printer", "firewall", "hypervisor", "storage", "wireless",
                            "router", "switch", "wan", "host"},
            neighbors : Nat, links : Nat, vlans : Nat, trunks : Nat, trunkLinks : Nat,
            uplinks : Nat, fast : Nat, accessUp : Nat, fdb : Nat, ifaces : Nat]

ASSUME RoleAssumption ==
  /\ ManualRoles \subseteq Roles
  /\ Situations \subseteq Signals
  /\ NoRow \notin [role : Roles]

VARIABLES
  row,       \* committed columns of each device
  situation, \* what the tables say of each device now
  noted,     \* history: the last metadata committed for each device
  detector,  \* the rows each detector holds of the devices still to do
  editor     \* the row each editor holds and what it will write

roleVars == <<row, situation, noted, detector, editor>>

-----------------------------------------------------------------------------
(* RoleDetector: each rule adds points to a role. *)

Points(rule, n) == IF rule THEN n ELSE 0

Score(role, s) ==
  LET crowded == s.neighbors >= 12 \/ s.links >= 12
      wide == s.vlans >= 20 \/ s.trunks >= 8
      hint(h, n) == Points(h \in s.hints, n)
  IN  Points(s.explicit = role, 80) +
      CASE role = "core" ->
             Points(crowded, 35) + Points(wide, 40)
             + Points(s.trunkLinks >= 6 \/ s.uplinks >= 6, 30) + Points(s.fast >= 4, 20)
        [] role = "distribution" ->
             Points(~crowded /\ s.neighbors >= 5, 25)
             + Points(~wide /\ (s.vlans >= 8 \/ s.trunks >= 3), 28) + Points(s.fast >= 4, 10)
        [] role = "access" ->
             hint("switch", 20) + Points(~crowded /\ s.neighbors <= 2 /\ s.accessUp >= 8, 20)
             + Points(s.accessUp >= 16 /\ s.trunks <= 2, 45)
             + (IF s.fdb >= 100 THEN 25 ELSE Points(s.fdb >= 30, 12))
        [] role = "firewall" -> hint("firewall", 70) + hint("wan", 25)
        [] role = "router" -> hint("router", 35) + hint("wan", 15)
        [] role = "server" -> hint("hypervisor", 65) + Points(s.ifaces = 0 /\ "host" \in s.hints, 30)
        [] role = "storage" -> hint("storage", 60)
        [] role = "wireless" -> hint("wireless", 55)
        [] OTHER -> hint("printer", 40)

Best(s) == CHOOSE i \in DOMAIN RoleOrder :
             \A j \in DOMAIN RoleOrder :
               \/ Score(RoleOrder[j], s) < Score(RoleOrder[i], s)
               \/ Score(RoleOrder[j], s) = Score(RoleOrder[i], s) /\ i <= j
Second(s) == LET others == {Score(RoleOrder[j], s) : j \in DOMAIN RoleOrder \ {Best(s)}}
             IN  CHOOSE n \in others : \A m \in others : m <= n

(* Confidences are in twentieths of a per cent; an override is certain. *)
Certain == 2000

(* Of a detected role: 45 + 0.4 raw + 0.25 margin, between 40 and 98.       *)
Confidence(raw, margin) ==
  LET c == 900 + 8 * raw + 5 * margin
  IN  IF c > 1960 THEN 1960 ELSE IF c < 800 THEN 800 ELSE c

Detect(s) ==
  LET role == RoleOrder[Best(s)]
      raw == Score(role, s)
  IN  IF raw < 15 THEN [role |-> "unknown", conf |-> 700]
      ELSE [role |-> role, conf |-> Confidence(raw, raw - Second(s))]

-----------------------------------------------------------------------------
NewRow == [role |-> "unknown", conf |-> 0, source |-> "auto", note |-> "none"]

RoleInit ==
  /\ row = [d \in RoleDevices |-> NewRow]
  /\ situation \in [RoleDevices -> Situations]
  /\ noted = [d \in RoleDevices |-> "none"]
  /\ detector = [s \in Detectors |-> NoRow]
  /\ editor = [e \in Editors |-> NoRow]

\* Mutant: the row is saved whole, as with merge() of a detached copy.
FlushedWhole(now, was, want) == want

(* The row after a commit of the columns of want that differ from was. *)
Flushed(now, was, want) == [c \in DOMAIN now |-> IF want[c] # was[c] THEN want[c] ELSE now[c]]

\* Mutant: the test of role_source is dropped.
DetectableAlways(d) == TRUE

Detectable(d) == row[d].source # "manual"

(* A detector loads one device, or all of them; it passes over those that   *)
(* are marked manual.                                                       *)
LoadDevices(s) ==
  /\ detector[s] = NoRow
  /\ \E ds \in {{d} : d \in RoleDevices} \cup {RoleDevices} :
       detector' = [detector EXCEPT ![s] = [d \in {e \in ds : Detectable(e)} |-> row[d]]]
  /\ UNCHANGED <<row, situation, noted, editor>>

(* One device: count, score, and commit the result. *)
DetectAndPersist(s) ==
  /\ detector[s] # NoRow
  /\ \E d \in DOMAIN detector[s] :
       LET was == detector[s][d]
           result == Detect(situation[d])
       IN  /\ row' = [row EXCEPT ![d] = Flushed(@, was,
                        [was EXCEPT !.role = result.role, !.conf = result.conf, !.source = "auto"])]
           /\ detector' = [detector EXCEPT ![s] = [e \in DOMAIN @ \ {d} |-> @[e]]]
  /\ UNCHANGED <<situation, noted, editor>>

DetectionEnds(s) ==
  /\ detector[s] # NoRow /\ DOMAIN detector[s] = {}
  /\ detector' = [detector EXCEPT ![s] = NoRow]
  /\ UNCHANGED <<row, situation, noted, editor>>

(* PATCH of a role or of the metadata: the device is loaded, the copy       *)
(* changed, and committed.                                                  *)
LoadForEdit(e) ==
  /\ editor[e] = NoRow
  /\ \E d \in RoleDevices :
       \/ \E r \in ManualRoles : editor' = [editor EXCEPT ![e] =
            [dev |-> d, was |-> row[d],
             want |-> [row[d] EXCEPT !.role = r, !.conf = Certain, !.source = "manual"]]]
       \/ \E n \in Notes : editor' = [editor EXCEPT ![e] =
            [dev |-> d, was |-> row[d], want |-> [row[d] EXCEPT !.note = n]]]
  /\ UNCHANGED <<row, situation, noted, detector>>

CommitEdit(e) ==
  LET ed == editor[e]
  IN  /\ ed # NoRow
      /\ row' = [row EXCEPT ![ed.dev] = Flushed(@, ed.was, ed.want)]
      /\ noted' = [noted EXCEPT ![ed.dev] = IF ed.want.note # ed.was.note THEN ed.want.note ELSE @]
      /\ editor' = [editor EXCEPT ![e] = NoRow]
      /\ UNCHANGED <<situation, detector>>

(* Discovery rewrites the tables that detection counts in. *)
Rediscovered(d) ==
  /\ \E s \in Situations : s # situation[d] /\ situation' = [situation EXCEPT ![d] = s]
  /\ UNCHANGED <<row, noted, detector, editor>>

RoleNext == \/ \E s \in Detectors : LoadDevices(s) \/ DetectAndPersist(s) \/ DetectionEnds(s)
            \/ \E e \in Editors : LoadForEdit(e) \/ CommitEdit(e)
            \/ \E d \in RoleDevices : Rediscovered(d)

RoleSpec == RoleInit /\ [][RoleNext]_roleVars

-----------------------------------------------------------------------------
(* A device marked manual is never marked auto again, although a detector   *)
(* that loaded it before the override assigns "auto" to its copy: the copy  *)
(* said so already, and the column is not written.                          *)
ManualSticks == [][\A d \in RoleDevices :
                     row[d].source = "manual" => row'[d].source = "manual"]_roleVars

(* "editable via API without wiping discovery identity", and the reverse:   *)
(* neither detection nor an override takes back metadata that was saved     *)
(* while it held its copy of the row.                                       *)
MetadataKept == \A d \in RoleDevices : row[d].note = noted[d]
=============================================================================
