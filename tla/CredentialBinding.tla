-------------------------- MODULE CredentialBinding ---------------------------
(* Which credential profiles a device and a discovery seed have, and the    *)
(* sessions that change it: discovery and the metrics sweep, which bind the *)
(* profile that answered; PUT and DELETE of a device's credentials; the     *)
(* bulk assignment; and the routes for profiles and seeds.                  *)
(*                                                                          *)
(* (device, profile) is unique in device_credentials, and deleting a        *)
(* profile deletes its rows.  A seed names its profiles in a column of its  *)
(* own that nothing checks.  Devices are never deleted.                     *)
EXTENDS Naturals, Sequences, FiniteSets

CONSTANTS
  CredDevices, Profiles, Seeds,
  Binders,      \* sessions that bind the profile of a collection
  Writers,      \* requests: PUT of a device's credentials
  Assigners,    \* requests: bulk assignment
  IdLists,      \* credential_profile_ids of a request body
  NewProfiles,  \* profiles that do not exist at first
  MaxCalls,     \* bound: requests and bindings of a behaviour
  NoBind        \* a session that is not running

ASSUME BindingAssumption ==
  /\ Binders \cap Writers = {} /\ Binders \cap Assigners = {} /\ Writers \cap Assigners = {}
  /\ IdLists \subseteq Seq(Profiles) /\ <<>> \notin IdLists /\ NewProfiles \subseteq Profiles
  /\ IsFiniteSet(CredDevices)

BindSessions == Binders \cup Writers \cup Assigners
Listed(ids) == {ids[i] : i \in DOMAIN ids}

VARIABLES
  profiles,  \* rows of credential_profiles
  links,     \* committed rows of device_credentials: <<device, profile>>
  seeds,     \* credential_profile_ids of each row of discovery_seeds
  bind,      \* the transaction of each session
  came,      \* history: links others have committed since it began
  gone,      \* history: links others have removed since it began
  unused,    \* ids not yet given to a profile
  calls      \* requests and bindings begun

credVars == <<profiles, links, seeds, bind, came, gone, unused, calls>>

CredInit ==
  /\ profiles = Profiles \ NewProfiles /\ unused = NewProfiles /\ links = {} /\ calls = 0
  /\ seeds = [x \in Seeds |-> {}]
  /\ bind = [s \in BindSessions |-> NoBind]
  /\ came = [s \in BindSessions |-> {}] /\ gone = [s \in BindSessions |-> {}]

Running(s) == bind[s] # NoBind
(* What a session sees: its own writes over the committed rows. *)
Sees(s) == (links \ bind[s].del) \cup bind[s].ins

Called == calls < MaxCalls /\ calls' = calls + 1

Begins(s, step, todo, ids) ==
  /\ Called
  /\ bind[s] = NoBind
  /\ bind' = [bind EXCEPT ![s] = [step |-> step, todo |-> todo, ids |-> ids, want |-> {},
                                  devs |-> Listed(todo),
                                  ins |-> {}, del |-> {}, lists |-> <<>>]]
  /\ came' = [came EXCEPT ![s] = {}] /\ gone' = [gone EXCEPT ![s] = {}]
  /\ UNCHANGED <<profiles, links, seeds, unused>>

(* The bodies a client can send: ids that profiles have or had. *)
Exist(ids) == Listed(ids) \cap unused = {}

(* on_device: the profile that answered is bound, or, when none is known to  *)
(* have, those of the seed and all SNMP profiles, each once.                *)
StartBind(s) == \E d \in CredDevices :
                  \/ \E p \in profiles : Begins(s, "read", <<d>>, <<p>>)
                  \/ \E ids \in IdLists : /\ Exist(ids) /\ Len(ids) = Cardinality(Listed(ids))
                                          /\ Begins(s, "read", <<d>>, ids)
StartSet(s) == \E d \in CredDevices, ids \in IdLists : Exist(ids) /\ Begins(s, "delete", <<d>>, ids)
StartAssign(s) == \E ids \in IdLists, todo \in {t \in [1..Cardinality(CredDevices) -> CredDevices] :
                                                  Listed(t) = CredDevices} :
                    Exist(ids) /\ Begins(s, "read", todo, ids)

Step(s, new) == /\ bind' = [bind EXCEPT ![s] = new]
                /\ UNCHANGED <<profiles, links, seeds, came, gone, unused, calls>>
EndsWithout(s) == Step(s, NoBind)

(* PUT: every link of the device is deleted and the deletes are flushed;    *)
(* rows another session is deleting are waited for.                         *)
DeleteLinks(s) ==
  /\ Running(s) /\ bind[s].step = "delete"
  /\ LET mine == {k \in links : k[1] = bind[s].todo[1]}
     IN  /\ \A t \in BindSessions \ {s} : Running(t) => bind[t].del \cap mine = {}
         /\ Step(s, [bind[s] EXCEPT !.del = mine, !.step = "read"])

\* Mutant: only the committed links count as existing.
MissingCommitted(s, d) ==
  {i \in DOMAIN bind[s].ids : bind[s].ids[i] \in profiles /\ <<d, bind[s].ids[i]>> \notin links}

(* The existing links of the device are read, and each place of the list    *)
(* whose id is missing and names a profile makes a new row; an id given     *)
(* twice makes two.                                                         *)
Missing(s, d) ==
  {i \in DOMAIN bind[s].ids : bind[s].ids[i] \in profiles /\ <<d, bind[s].ids[i]>> \notin Sees(s)}

ReadLinks(s) ==
  /\ Running(s) /\ bind[s].step = "read" /\ bind[s].todo # <<>>
  /\ Step(s, [bind[s] EXCEPT !.want = Missing(s, bind[s].todo[1]), !.step = "flush"])

(* The flush inserts the rows.  A row that another session has inserted or  *)
(* deleted and not committed is waited for; one that is committed, that is  *)
(* there twice, or whose profile has gone violates a constraint.            *)
FlushLinks(s) ==
  /\ Running(s) /\ bind[s].step = "flush"
  /\ LET wanted == {bind[s].ids[i] : i \in bind[s].want}
         rows == {<<bind[s].todo[1], p>> : p \in wanted}
         violated == \/ rows \cap Sees(s) # {}
                     \/ \E i, j \in bind[s].want : i # j /\ bind[s].ids[i] = bind[s].ids[j]
                     \/ ~(wanted \subseteq profiles)
     IN  /\ \A t \in BindSessions \ {s} :
              Running(t) => (bind[t].ins \cup bind[t].del) \cap rows = {}
         /\ IF violated THEN EndsWithout(s)
            ELSE Step(s, [bind[s] EXCEPT !.ins = @ \cup rows, !.todo = Tail(@), !.step = "read"])

(* The bulk assignment goes on to every seed. *)
ReadSeeds(s) ==
  /\ s \in Assigners /\ Running(s) /\ bind[s].step = "read" /\ bind[s].todo = <<>>
  /\ Step(s, [bind[s] EXCEPT !.lists = seeds, !.step = "commit"])

(* A lost connection, a deadlock or an exception of the caller. *)
BindFails(s) == Running(s) /\ EndsWithout(s)

Others(s, added, removed) ==
  /\ came' = [t \in BindSessions |-> IF t # s /\ Running(t) THEN came[t] \cup added ELSE came[t]]
  /\ gone' = [t \in BindSessions |-> IF t # s /\ Running(t) THEN gone[t] \cup removed ELSE gone[t]]

\* Mutant: the seeds are left as they are.
CommitBindOnly(s) ==
  /\ Running(s)
  /\ IF s \in Assigners THEN bind[s].step = "commit" ELSE bind[s].step = "read" /\ bind[s].todo = <<>>
  /\ links' = (links \ bind[s].del) \cup bind[s].ins
  /\ Others(s, bind[s].ins, bind[s].del)
  /\ bind' = [bind EXCEPT ![s] = NoBind]
  /\ UNCHANGED <<profiles, seeds, unused, calls>>

(* The commit.  A seed whose list was read and differs from the union is    *)
(* written whole; when that seed has been deleted the flush fails.          *)
CommitBind(s) ==
  LET b == bind[s]
      wanted == Listed(b.ids)
      dirty == {x \in DOMAIN b.lists : ~(wanted \subseteq b.lists[x])}
  IN  /\ Running(s)
      /\ IF s \in Assigners THEN b.step = "commit" ELSE b.step = "read" /\ b.todo = <<>>
      /\ IF dirty \subseteq DOMAIN seeds
         THEN /\ links' = (links \ b.del) \cup b.ins
              /\ seeds' = [x \in DOMAIN seeds |-> IF x \in dirty THEN b.lists[x] \cup wanted ELSE seeds[x]]
              /\ Others(s, b.ins, b.del)
              /\ bind' = [bind EXCEPT ![s] = NoBind]
              /\ UNCHANGED <<profiles, unused, calls>>
         ELSE EndsWithout(s)

(* Routes of one statement. *)
Detach ==
  /\ Called
  /\ \E k \in links :
       /\ \A t \in BindSessions : Running(t) => k \notin bind[t].del
       /\ links' = links \ {k}
       /\ gone' = [t \in BindSessions |-> IF Running(t) THEN gone[t] \cup {k} ELSE gone[t]]
  /\ UNCHANGED <<profiles, seeds, bind, came, unused>>

CreateProfile ==
  /\ Called
  /\ \E p \in unused : profiles' = profiles \cup {p} /\ unused' = unused \ {p}
  /\ UNCHANGED <<links, seeds, bind, came, gone>>

(* A new link that is not committed locks its profile; the links go with it. *)
DeleteProfile ==
  /\ Called
  /\ \E p \in profiles :
       LET mine == {k \in links : k[2] = p}
       IN  /\ \A t \in BindSessions : Running(t) => \A k \in bind[t].ins \cup (bind[t].del \cap mine) : k[2] # p
           /\ profiles' = profiles \ {p}
           /\ links' = links \ mine
           /\ gone' = [t \in BindSessions |-> IF Running(t) THEN gone[t] \cup mine ELSE gone[t]]
  /\ UNCHANGED <<seeds, bind, came, unused>>

UpdateSeed ==
  /\ Called
  /\ \E x \in DOMAIN seeds, ids \in {<<>>} \cup IdLists :
       Exist(ids) /\ seeds' = [seeds EXCEPT ![x] = Listed(ids)]
  /\ UNCHANGED <<profiles, links, bind, came, gone, unused>>

DeleteSeed ==
  /\ Called
  /\ \E x \in DOMAIN seeds : seeds' = [y \in DOMAIN seeds \ {x} |-> seeds[y]]
  /\ UNCHANGED <<profiles, links, bind, came, gone, unused>>

CreateSeed ==
  /\ Called
  /\ \E x \in Seeds \ DOMAIN seeds, ids \in {<<>>} \cup IdLists :
       Exist(ids) /\ seeds' = [y \in DOMAIN seeds \cup {x} |-> IF y = x THEN Listed(ids) ELSE seeds[y]]
  /\ UNCHANGED <<profiles, links, bind, came, gone, unused>>

CredNext ==
  \/ \E s \in Binders : StartBind(s)
  \/ \E s \in Writers : StartSet(s) \/ DeleteLinks(s)
  \/ \E s \in Assigners : StartAssign(s) \/ ReadSeeds(s)
  \/ \E s \in BindSessions : ReadLinks(s) \/ FlushLinks(s) \/ CommitBind(s) \/ BindFails(s)
  \/ Detach \/ CreateProfile \/ DeleteProfile \/ UpdateSeed \/ DeleteSeed \/ CreateSeed

CredSpec == CredInit /\ [][CredNext]_credVars

-----------------------------------------------------------------------------
(* After a PUT the device has the profiles of the body that exist, and no   *)
(* other, up to what sessions that overlapped with it committed.            *)
SetReplaces == [][\A s \in Writers : CommitBind(s) =>
  \A d \in bind[s].devs, p \in profiles :
    /\ <<d, p>> \in links' => p \in Listed(bind[s].ids) \/ <<d, p>> \in came[s]
    /\ p \in Listed(bind[s].ids) => <<d, p>> \in links' \cup gone[s]]_credVars

(* A bulk assignment reaches every device and every seed or nothing,        *)
(* whatever fails on the way: once it writes, each device has each profile  *)
(* that exists, unless a session that overlapped took it away, and no seed  *)
(* that is as it was read is without them.                                  *)
AssignReaches == [][\A s \in Assigners :
  CommitBind(s) /\ DOMAIN bind[s].lists \subseteq DOMAIN seeds =>
    /\ \A d \in CredDevices, p \in Listed(bind[s].ids) \cap profiles :
         <<d, p>> \in links' \cup gone[s]
    /\ \A x \in DOMAIN bind[s].lists :
         seeds[x] = bind[s].lists[x] => Listed(bind[s].ids) \subseteq seeds'[x]]_credVars
=============================================================================
