----------------------------- MODULE AccessProofs ------------------------------
(* What is proved of logins, tokens and credential profiles, for any number *)
(* of users, clients, requests, tokens, devices, profiles and sessions, and *)
(* of the scripts that install and update the system.                       *)
EXTENDS TokenRotation, LoginRateLimit, CredentialBinding, CredentialRotation, Deployment,
        WellFoundedInduction, TLAPS, FiniteSetTheorems, SequenceTheorems

-----------------------------------------------------------------------------
(* Refresh tokens: one is spent once, except by requests that overlap, and  *)
(* what an access token is taken to allow is out of date for no longer than *)
(* the token lives.                                                         *)

Columns == {"user", "exp", "revoked", "parent", "seen"}
IsToken(t) == DOMAIN t = Columns /\ t = [c \in Columns |-> t[c]]

IsNumbered == \E n \in Nat : Known = 1..n

(* A refresh token with a descendant is revoked; what a token's request saw *)
(* was there before it.                                                     *)
TokensInv == \A t \in Known :
  /\ IsToken(tokens[t])
  /\ tokens[t].seen \subseteq Known
  /\ tokens[t].parent # NoToken =>
       tokens[t].parent \in Known /\ tokens[tokens[t].parent].revoked

(* A request on its way to new tokens saw no descendant of its parent. *)
Carries(q) ==
  /\ q.seen \subseteq Known
  /\ q.parent # NoToken =>
       q.parent \in Known /\ \A t \in Known : tokens[t].parent = q.parent => t \notin q.seen
RequestsInv ==
  /\ DOMAIN req = AuthRequests /\ req = [r \in AuthRequests |-> req[r]]
  /\ \A r \in AuthRequests :
       /\ req[r].at = "select" \/ req[r].at = "user" \/ req[r].at = "made" => Carries(req[r])
       /\ req[r].at = "logout" => req[r].parent \in Known

AuthInv == IsNumbered /\ TokensInv /\ RequestsInv /\ OverlapsOnly

-----------------------------------------------------------------------------
(* The number of a new token is not that of another. *)
LEMMA NewIsNew ==
  ASSUME IsNumbered
  PROVE  LET new == Cardinality(Known) + 1
         IN  new \notin Known /\ \E n \in Nat : Known \cup {new} = 1..n
<1>1. PICK n \in Nat : Known = 1..n BY DEF IsNumbered
<1>2. Cardinality(Known) = n
  <2>1. Cardinality(1..n) = IF 1 > n THEN 0 ELSE n - 1 + 1 BY FS_Interval
  <2> QED BY <1>1, <2>1
<1> QED BY <1>1, <1>2

(* Revoking a token leaves its other columns. *)
Revoked(t, b) == [t EXCEPT !.revoked = b]
LEMMA RevokedColumns ==
  ASSUME NEW t, IsToken(t), NEW b
  PROVE  /\ IsToken(Revoked(t, b)) /\ (b => Revoked(t, b).revoked)
         /\ Revoked(t, b).parent = t.parent /\ Revoked(t, b).seen = t.seen
<1>1. Revoked(t, b).revoked = b BY DEF Revoked, IsToken, Columns
<1>2. /\ IsToken(Revoked(t, b))
      /\ Revoked(t, b).parent = t.parent /\ Revoked(t, b).seen = t.seen
  BY DEF Revoked, IsToken, Columns
<1> QED BY <1>1, <1>2, Zenon

LEMMA AuthInitHolds == AuthInit => AuthInv
<1> SUFFICES ASSUME AuthInit PROVE AuthInv
  OBVIOUS
<1>1. Known = {} BY DEF AuthInit, Known
<1>2. IsNumbered
  <2>1. 1..0 = {} OBVIOUS
  <2> QED BY <1>1, <2>1 DEF IsNumbered
<1>3. TokensInv /\ OverlapsOnly BY <1>1 DEF TokensInv, OverlapsOnly
<1>4. RequestsInv BY DEF AuthInit, RequestsInv, Idle
<1> QED BY <1>2, <1>3, <1>4 DEF AuthInv

(* The steps of a request that do not write tokens. *)
LEMMA RequestStep ==
  ASSUME AuthInv, UNCHANGED tokens, NEW r \in AuthRequests, NEW q, req' = [req EXCEPT ![r] = q],
         q.at = "select" \/ q.at = "user" \/ q.at = "made" => Carries(q),
         q.at = "logout" => q.parent \in Known
  PROVE  AuthInv'
<1>1. Known' = Known BY DEF Known
<1>2. TokensInv' /\ IsNumbered' /\ OverlapsOnly'
  BY <1>1 DEF AuthInv, TokensInv, IsNumbered, OverlapsOnly
<1>3. RequestsInv'
  <2>1. DOMAIN req' = AuthRequests /\ req' = [s \in AuthRequests |-> req'[s]]
    BY DEF AuthInv, RequestsInv
  <2>2. req'[r] = q /\ \A s \in AuthRequests \ {r} : req'[s] = req[s]
    BY DEF AuthInv, RequestsInv
  <2> QED BY <1>1, <2>1, <2>2 DEF AuthInv, RequestsInv, Carries
<1> QED BY <1>2, <1>3 DEF AuthInv

(* The commit: no token of the same parent was seen by the request, and     *)
(* none has seen the new one.                                               *)
LEMMA CommitKeeps ==
  ASSUME AuthInv, NEW r \in AuthRequests, Commit(r)
  PROVE  AuthInv'
<1> DEFINE q == req[r]
           new == Cardinality(Known) + 1
<1>1. /\ tokens' = [t \in Known \cup {new} |->
             IF t = new THEN [user |-> q.user, exp |-> q.exp, revoked |-> FALSE,
                              parent |-> q.parent, seen |-> q.seen]
             ELSE Revoked(tokens[t], tokens[t].revoked \/ t = q.parent)]
      /\ req' = [req EXCEPT ![r] = Idle] /\ q.at = "made"
  BY DEF Commit, Revoked
<1>2. new \notin Known /\ \E n \in Nat : Known \cup {new} = 1..n
  BY NewIsNew DEF AuthInv
<1>3. Carries(q) BY <1>1 DEF AuthInv, RequestsInv
<1> HIDE DEF new, q
<1>4. Known' = Known \cup {new} BY <1>1 DEF Known
<1>5. /\ IsToken(tokens'[new]) /\ tokens'[new].parent = q.parent /\ tokens'[new].seen = q.seen
  BY <1>1, <1>2 DEF IsToken, Columns
<1>6. ASSUME NEW t \in Known
      PROVE  /\ IsToken(tokens'[t]) /\ tokens'[t].parent = tokens[t].parent
             /\ tokens'[t].seen = tokens[t].seen
             /\ ((tokens[t].revoked \/ t = q.parent) => tokens'[t].revoked)
  <2> DEFINE b == tokens[t].revoked \/ t = q.parent
  <2>1. t # new /\ IsToken(tokens[t]) BY <1>2 DEF AuthInv, TokensInv
  <2>2. tokens'[t] = Revoked(tokens[t], b) BY <1>1, <2>1
  <2>3. /\ IsToken(Revoked(tokens[t], b)) /\ (b => Revoked(tokens[t], b).revoked)
        /\ Revoked(tokens[t], b).parent = tokens[t].parent
        /\ Revoked(tokens[t], b).seen = tokens[t].seen
    <3> HIDE DEF b
    <3> QED BY <2>1, RevokedColumns
  <2>4. b => tokens'[t].revoked
    <3> HIDE DEF b
    <3> QED BY <2>2, <2>3
  <2>5. /\ IsToken(tokens'[t]) /\ tokens'[t].parent = tokens[t].parent
        /\ tokens'[t].seen = tokens[t].seen
    <3> HIDE DEF b
    <3> QED BY <2>2, <2>3
  <2> QED BY <2>4, <2>5, Zenon DEF b
<1>7. TokensInv'
  BY <1>3, <1>4, <1>5, <1>6 DEF AuthInv, TokensInv, Carries
<1>8. OverlapsOnly'
  BY <1>2, <1>3, <1>4, <1>5, <1>6 DEF AuthInv, TokensInv, OverlapsOnly, Carries
<1>9. RequestsInv'
  <2>1. DOMAIN req' = AuthRequests /\ req' = [s \in AuthRequests |-> req'[s]]
    BY <1>1 DEF AuthInv, RequestsInv
  <2>2. req'[r].at = "idle" /\ \A s \in AuthRequests \ {r} : req'[s] = req[s]
    BY <1>1 DEF AuthInv, RequestsInv, Idle
  <2> QED BY <1>2, <1>4, <1>5, <1>6, <2>1, <2>2 DEF AuthInv, RequestsInv, Carries
<1> QED BY <1>2, <1>4, <1>7, <1>8, <1>9 DEF AuthInv, IsNumbered

LEMMA LogoutKeeps ==
  ASSUME AuthInv, NEW r \in AuthRequests, LogoutCommit(r)
  PROVE  AuthInv'
<1> DEFINE p == req[r].parent
<1>1. tokens' = [tokens EXCEPT ![p] = Revoked(@, TRUE)] /\ req' = [req EXCEPT ![r] = Idle]
  BY DEF LogoutCommit, Revoked
<1> HIDE DEF p
<1>2. Known' = Known BY <1>1 DEF Known
<1>3. ASSUME NEW t \in Known
      PROVE  /\ IsToken(tokens'[t]) /\ tokens'[t].parent = tokens[t].parent
             /\ tokens'[t].seen = tokens[t].seen
             /\ (tokens[t].revoked => tokens'[t].revoked)
  <2>1. IsToken(tokens[t]) BY DEF AuthInv, TokensInv
  <2>2. t = p => tokens'[t] = Revoked(tokens[t], TRUE) BY <1>1 DEF Known
  <2>3. t # p => tokens'[t] = tokens[t] BY <1>1 DEF Known
  <2>4. /\ IsToken(Revoked(tokens[t], TRUE)) /\ Revoked(tokens[t], TRUE).revoked
        /\ Revoked(tokens[t], TRUE).parent = tokens[t].parent
        /\ Revoked(tokens[t], TRUE).seen = tokens[t].seen
    BY <2>1, RevokedColumns
  <2> QED BY <2>1, <2>2, <2>3, <2>4
<1>4. TokensInv' /\ OverlapsOnly' /\ IsNumbered'
  <2>1. TokensInv'
    BY <1>2, <1>3 DEF AuthInv, TokensInv
  <2>2. OverlapsOnly'
    BY <1>2, <1>3 DEF AuthInv, OverlapsOnly
  <2>3. IsNumbered'
    BY <1>2 DEF AuthInv, IsNumbered
  <2> QED BY <2>1, <2>2, <2>3
<1>5. RequestsInv'
  <2>1. DOMAIN req' = AuthRequests /\ req' = [s \in AuthRequests |-> req'[s]]
    BY <1>1 DEF AuthInv, RequestsInv
  <2>2. req'[r].at = "idle" /\ \A s \in AuthRequests \ {r} : req'[s] = req[s]
    BY <1>1 DEF AuthInv, RequestsInv, Idle
  <2> QED BY <1>2, <1>3, <2>1, <2>2 DEF AuthInv, RequestsInv, Carries
<1> QED BY <1>4, <1>5 DEF AuthInv

LEMMA AuthStep == AuthInv /\ [AuthNext]_authVars => AuthInv'
<1> SUFFICES ASSUME AuthInv, [AuthNext]_authVars PROVE AuthInv'
  OBVIOUS
<1>1. ASSUME NEW r \in AuthRequests, LoginUser(r) PROVE AuthInv'
  <2>1. PICK u \in AuthUsers : /\ req' = [req EXCEPT ![r] =
                                  [at |-> "user", user |-> u, parent |-> NoToken, seen |-> Known]]
                               /\ UNCHANGED tokens
    BY <1>1 DEF LoginUser
  <2> QED BY <2>1, RequestStep DEF Carries
<1>2. ASSUME NEW r \in AuthRequests, RefreshSelect(r) PROVE AuthInv'
  <2>1. PICK t \in Known : /\ ~tokens[t].revoked
                           /\ req' = [req EXCEPT ![r] = [at |-> "select", user |-> tokens[t].user,
                                                         parent |-> t, seen |-> Known]]
                           /\ UNCHANGED tokens
    BY <1>2 DEF RefreshSelect, Usable
  <2>2. \A s \in Known : tokens[s].parent = t /\ t # NoToken => FALSE
    BY <2>1 DEF AuthInv, TokensInv
  <2> QED BY <2>1, <2>2, RequestStep DEF Carries
<1>3. ASSUME NEW r \in AuthRequests, RefreshUser(r) PROVE AuthInv'
  <2>1. Carries(req[r]) /\ UNCHANGED tokens
    BY <1>3 DEF RefreshUser, Refuse, AuthInv, RequestsInv
  <2>2. \/ req' = [req EXCEPT ![r] = [at |-> "user", user |-> req[r].user,
                                      parent |-> req[r].parent, seen |-> req[r].seen]]
        \/ req' = [req EXCEPT ![r] = Idle]
    BY <1>3 DEF RefreshUser, Refuse
  <2> QED BY <2>1, <2>2, RequestStep DEF Carries, Idle
<1>4. ASSUME NEW r \in AuthRequests, MakeTokens(r) PROVE AuthInv'
  <2>1. Carries(req[r]) /\ UNCHANGED tokens
    BY <1>4 DEF MakeTokens, AuthInv, RequestsInv
  <2>2. PICK a, e : req' = [req EXCEPT ![r] = [at |-> "made", user |-> req[r].user,
          parent |-> req[r].parent, seen |-> req[r].seen, access |-> a, exp |-> e]]
    BY <1>4 DEF MakeTokens
  <2> QED BY <2>1, <2>2, RequestStep DEF Carries
<1>5. ASSUME NEW r \in AuthRequests, Commit(r) PROVE AuthInv'
  BY <1>5, CommitKeeps
<1>6. ASSUME NEW r \in AuthRequests, LogoutSelect(r) PROVE AuthInv'
  <2>1. PICK t \in Known : /\ req' = [req EXCEPT ![r] = [at |-> "logout", parent |-> t]]
                           /\ UNCHANGED tokens
    BY <1>6 DEF LogoutSelect
  <2> QED BY <2>1, RequestStep
<1>7. ASSUME NEW r \in AuthRequests, LogoutCommit(r) PROVE AuthInv'
  BY <1>7, LogoutKeeps
<1>8. ASSUME UNCHANGED <<tokens, req>> PROVE AuthInv'
  BY <1>8 DEF AuthInv, IsNumbered, TokensInv, RequestsInv, Carries, OverlapsOnly, Known
<1>9. ASSUME NEW u \in AuthUsers, SetActive(u) \/ SetGrant(u) PROVE AuthInv'
  BY <1>8, <1>9 DEF SetActive, SetGrant
<1>10. CASE AuthTick BY <1>8, <1>10 DEF AuthTick
<1>11. CASE UNCHANGED authVars BY <1>8, <1>11 DEF authVars
<1> QED BY <1>1, <1>2, <1>3, <1>4, <1>5, <1>6, <1>7, <1>9, <1>10, <1>11 DEF AuthNext

-----------------------------------------------------------------------------
(* Two tokens descend from one refresh token only when the requests that    *)
(* made them overlapped.                                                    *)
THEOREM TokensAreSpentOnce == AuthSpec => []OverlapsOnly
<1>1. AuthInv => OverlapsOnly BY DEF AuthInv
<1> QED BY <1>1, AuthInitHolds, AuthStep, PTL DEF AuthSpec
-----------------------------------------------------------------------------
(* What an access token says was true when it was made: it is one that      *)
(* MintAccess can have made, and if the roles changed since, it was made no *)
(* later than the change.                                                   *)
Minted(a) ==
  /\ a.user \in AuthUsers /\ a.exp \in Nat /\ a.perms = PermissionsOf(a.roles)
  /\ a.exp <= now + AccessTtl
  /\ a.roles # grants[a.user] => a.exp <= regrant[a.user] + AccessTtl

(* The clock, and whose the tokens are. *)
Owned ==
  /\ now \in Nat /\ grants \in [AuthUsers -> SUBSET RoleNames] /\ regrant \in [AuthUsers -> Nat]
  /\ \A t \in Known : tokens[t].user \in AuthUsers
  /\ \A r \in AuthRequests :
       req[r].at = "select" \/ req[r].at = "user" \/ req[r].at = "made"
         => req[r].user \in AuthUsers

MintedInv ==
  /\ Owned
  /\ \A a \in access : Minted(a)
  /\ \A r \in AuthRequests : req[r].at = "made" => Minted(req[r].access)

(* A step of a request that makes nothing. *)
LEMMA RequestMinted ==
  ASSUME AuthInv, MintedInv, Same, UNCHANGED <<tokens, access>>, NEW r \in AuthRequests, NEW q,
         req' = [req EXCEPT ![r] = q],
         q.at = "select" \/ q.at = "user" \/ q.at = "made" => q.user \in AuthUsers,
         q.at = "made" => Minted(q.access)
  PROVE  MintedInv'
<1>1. req'[r] = q /\ \A s \in AuthRequests \ {r} : req'[s] = req[s]
  BY DEF AuthInv, RequestsInv
<1>2. \A a : Minted(a)' <=> Minted(a)
  BY DEF Same, Minted
<1>3. Owned'
  BY <1>1 DEF MintedInv, Owned, Same, Known
<1>4. QED
  BY <1>1, <1>2, <1>3 DEF MintedInv

(* The commit hands out what the request made. *)
LEMMA CommitMinted ==
  ASSUME AuthInv, MintedInv, NEW r \in AuthRequests, Commit(r)
  PROVE  MintedInv'
<1> DEFINE q == req[r]
           new == Cardinality(Known) + 1
<1>1. /\ tokens' = [t \in Known \cup {new} |->
             IF t = new THEN [user |-> q.user, exp |-> q.exp, revoked |-> FALSE,
                              parent |-> q.parent, seen |-> q.seen]
             ELSE [tokens[t] EXCEPT !.revoked = @ \/ t = q.parent]]
      /\ access' = access \cup {q.access} /\ req' = [req EXCEPT ![r] = Idle]
      /\ q.at = "made" /\ Same
  BY DEF Commit
<1>2. q.user \in AuthUsers /\ Minted(q.access)
  BY <1>1 DEF MintedInv, Owned
<1> HIDE DEF new, q
<1>3. \A a : Minted(a)' <=> Minted(a)
  BY <1>1 DEF Same, Minted
<1>4. \A t \in Known' : tokens'[t].user \in AuthUsers
  <2>1. Known' = Known \cup {new}
    BY <1>1 DEF Known
  <2>2. tokens'[new].user = q.user
    BY <1>1
  <2>3. ASSUME NEW t \in Known \ {new} PROVE tokens'[t].user = tokens[t].user
    <3>1. tokens'[t] = [tokens[t] EXCEPT !.revoked = tokens[t].revoked \/ t = q.parent]
      BY <1>1, <2>3
    <3>2. QED
      BY <3>1 DEF AuthInv, TokensInv, IsToken, Columns
  <2>4. QED
    BY <1>2, <2>1, <2>2, <2>3 DEF MintedInv, Owned
<1>5. /\ req'[r].at = "idle" /\ \A s \in AuthRequests \ {r} : req'[s] = req[s]
  BY <1>1 DEF AuthInv, RequestsInv, Idle
<1>6. Owned'
  BY <1>1, <1>4, <1>5 DEF MintedInv, Owned, Same
<1>7. QED
  BY <1>1, <1>2, <1>3, <1>5, <1>6 DEF MintedInv

LEMMA MintedStep == AuthInv /\ MintedInv /\ [AuthNext]_authVars => MintedInv'
<1> SUFFICES ASSUME AuthInv, MintedInv, [AuthNext]_authVars PROVE MintedInv'
  OBVIOUS
<1>1. ASSUME NEW r \in AuthRequests, LoginUser(r) PROVE MintedInv'
  <2>1. PICK u \in AuthUsers : req' = [req EXCEPT ![r] =
                                 [at |-> "user", user |-> u, parent |-> NoToken, seen |-> Known]]
    BY <1>1 DEF LoginUser
  <2>2. QED
    BY <1>1, <2>1, RequestMinted DEF LoginUser
<1>2. ASSUME NEW r \in AuthRequests, RefreshSelect(r) PROVE MintedInv'
  <2>1. PICK t \in Known : req' = [req EXCEPT ![r] = [at |-> "select", user |-> tokens[t].user,
                                                      parent |-> t, seen |-> Known]]
    BY <1>2 DEF RefreshSelect
  <2>2. tokens[t].user \in AuthUsers
    BY DEF MintedInv, Owned
  <2>3. QED
    BY <1>2, <2>1, <2>2, RequestMinted DEF RefreshSelect
<1>3. ASSUME NEW r \in AuthRequests, RefreshUser(r) PROVE MintedInv'
  <2>1. req[r].user \in AuthUsers /\ UNCHANGED <<tokens, access>> /\ Same
    BY <1>3 DEF RefreshUser, Refuse, MintedInv, Owned
  <2>2. \/ req' = [req EXCEPT ![r] = [at |-> "user", user |-> req[r].user,
                                      parent |-> req[r].parent, seen |-> req[r].seen]]
        \/ req' = [req EXCEPT ![r] = Idle]
    BY <1>3 DEF RefreshUser, Refuse
  <2>3. QED
    BY <2>1, <2>2, RequestMinted DEF Idle
<1>4. ASSUME NEW r \in AuthRequests, MakeTokens(r) PROVE MintedInv'
  <2>1. /\ req' = [req EXCEPT ![r] = [at |-> "made", user |-> req[r].user,
                     parent |-> req[r].parent, seen |-> req[r].seen,
                     access |-> MintAccess(req[r].user), exp |-> now + RefreshTtl]]
        /\ UNCHANGED <<tokens, access>> /\ Same
    BY <1>4 DEF MakeTokens
  <2>2. req[r].user \in AuthUsers
    BY <1>4 DEF MakeTokens, MintedInv, Owned
  <2>3. Minted(MintAccess(req[r].user))
    BY <2>2, AuthAssumption DEF Minted, MintAccess, MintedInv, Owned
  <2>4. QED
    BY <2>1, <2>2, <2>3, RequestMinted
<1>5. ASSUME NEW r \in AuthRequests, Commit(r) PROVE MintedInv'
  BY <1>5, CommitMinted
<1>6. ASSUME NEW r \in AuthRequests, LogoutSelect(r) PROVE MintedInv'
  <2>1. PICK t \in Known : req' = [req EXCEPT ![r] = [at |-> "logout", parent |-> t]]
    BY <1>6 DEF LogoutSelect
  <2>2. QED
    BY <1>6, <2>1, RequestMinted DEF LogoutSelect
<1>7. ASSUME NEW r \in AuthRequests, LogoutCommit(r) PROVE MintedInv'
  <2>1. /\ tokens' = [tokens EXCEPT ![req[r].parent].revoked = TRUE]
        /\ req' = [req EXCEPT ![r] = Idle] /\ UNCHANGED access /\ Same
    BY <1>7 DEF LogoutCommit
  <2>2. \A t \in Known' : t \in Known /\ tokens'[t].user = tokens[t].user
    BY <2>1 DEF AuthInv, TokensInv, IsToken, Columns, Known
  <2>3. req'[r].at = "idle" /\ \A s \in AuthRequests \ {r} : req'[s] = req[s]
    BY <2>1 DEF AuthInv, RequestsInv, Idle
  <2>4. \A a : Minted(a)' <=> Minted(a)
    BY <2>1 DEF Same, Minted
  <2>5. Owned'
    BY <2>1, <2>2, <2>3 DEF MintedInv, Owned, Same
  <2>6. QED
    BY <2>1, <2>3, <2>4, <2>5 DEF MintedInv
<1>8. ASSUME NEW u \in AuthUsers, SetActive(u) PROVE MintedInv'
  BY <1>8 DEF SetActive, MintedInv, Owned, Minted, Known
<1>9. ASSUME NEW u \in AuthUsers, SetGrant(u) PROVE MintedInv'
  <2>1. /\ UNCHANGED <<now, tokens, access, req>>
        /\ grants' = [grants EXCEPT ![u] = {"viewer"}] /\ regrant' = [regrant EXCEPT ![u] = now]
    BY <1>9 DEF SetGrant
  <2>2. Owned'
    BY <2>1 DEF MintedInv, Owned, Known, RoleNames, RolePermissions
  <2>3. \A a : Minted(a) => Minted(a)'
    BY <2>1, AuthAssumption DEF MintedInv, Owned, Minted
  <2>4. QED
    BY <2>1, <2>2, <2>3 DEF MintedInv
<1>10. CASE AuthTick
  <2>1. /\ UNCHANGED <<grants, regrant, tokens, req>> /\ now' = now + 1 /\ access' \subseteq access
    BY <1>10 DEF AuthTick
  <2>2. Owned'
    BY <2>1 DEF MintedInv, Owned, Known
  <2>3. \A a : Minted(a) => Minted(a)'
    BY <2>1, AuthAssumption DEF MintedInv, Owned, Minted
  <2>4. QED
    BY <2>1, <2>2, <2>3 DEF MintedInv
<1>11. CASE UNCHANGED authVars
  BY <1>11 DEF authVars, MintedInv, Owned, Minted, Known
<1>12. QED
  BY <1>1, <1>2, <1>3, <1>4, <1>5, <1>6, <1>7, <1>8, <1>9, <1>10, <1>11 DEF AuthNext

(* However refreshes, logouts and role changes overlap, a permission that a *)
(* role change took away opens a route only within AccessTtl of the change. *)
THEOREM StalenessIsBounded == AuthSpec => []StalenessBounded
<1>1. AuthInit => MintedInv
  BY DEF AuthInit, MintedInv, Owned, Idle, Known, RoleNames, RolePermissions
<1>2. MintedInv => StalenessBounded
  <2> SUFFICES ASSUME MintedInv, NEW a \in access, NEW code \in Permissions,
                      MayCall(a), Allowed(a, code)
               PROVE  code \in PermissionsOf(grants[a.user]) \/ now - regrant[a.user] < AccessTtl
    BY DEF StalenessBounded
  <2>1. Minted(a) /\ now < a.exp /\ now \in Nat /\ regrant[a.user] \in Nat
    BY DEF MintedInv, Owned, Minted, MayCall
  <2>2. CASE a.roles = grants[a.user]
    <3>1. "admin" \in a.roles => code \in PermissionsOf(a.roles)
      BY DEF PermissionsOf, RolePermissions
    <3>2. QED
      BY <2>1, <2>2, <3>1 DEF Allowed, Minted
  <2>3. CASE a.roles # grants[a.user]
    BY <2>1, <2>3, AuthAssumption DEF Minted
  <2>4. QED
    BY <2>2, <2>3
<1>3. QED
  BY <1>1, <1>2, AuthInitHolds, AuthStep, MintedStep, PTL DEF AuthSpec

-----------------------------------------------------------------------------
(* The login limiter: the deque is the end of the history it has forgotten, *)
(* and so implements the sliding window.                                    *)

LimitTypeOK ==
  /\ clock \in Nat
  /\ hits \in [Clients -> Seq(Nat)]
  /\ passed \in [Clients -> Seq(Nat)]
  /\ answer \in [Clients -> {"none", "passed", "429"}]

(* What was let through is in order of time, the deque b is the tail of     *)
(* that log p, and what it no longer holds has left the window.             *)
Sorted(p) == /\ \A i, j \in 1..Len(p) : i <= j => p[i] <= p[j]
             /\ \A i \in 1..Len(p) : p[i] <= clock
IsTail(b, p) == /\ Len(b) <= Len(p)
              /\ \A i \in 1..Len(b) : b[i] = p[Len(p) - Len(b) + i]
Gone(b, p) == \A i \in 1..(Len(p) - Len(b)) : clock - p[i] > Window
Spaced(p) == \A i \in 1..Len(p) : i + Limit \in 1..Len(p) => p[i + Limit] - p[i] > Window

LimitInv ==
  /\ LimitTypeOK
  /\ \A c \in Clients : /\ Sorted(passed[c]) /\ IsTail(hits[c], passed[c])
                        /\ Gone(hits[c], passed[c]) /\ Spaced(passed[c])

(* A set of naturals that has a member has a least one. *)
LEMMA LeastNatural ==
  ASSUME NEW S \in SUBSET Nat, S # {}
  PROVE  \E m \in S : \A k \in S : m <= k
<1> DEFINE R == {ss \in Nat \X Nat : ss[1] < ss[2]}
<1>1. R = OpToRel(<, Nat)
  BY DEF OpToRel
<1>2. IsWellFoundedOn(R, Nat)
  BY <1>1, NatLessThanWellFounded
<1>3. PICK m \in S : \A k \in S : <<k, m>> \notin R
  <2> HIDE DEF R
  <2> QED BY <1>2, WFMin
<1>4. \A k \in S : ~(k < m)
  BY <1>3
<1> QED
  BY <1>4

(* The loop ends with a deque whose first hit, if any, is in the window,    *)
(* and that lacks only hits that are not.                                   *)
LEMMA KeptIsTail ==
  ASSUME NEW b \in Seq(Nat), NEW t \in Nat
  PROVE  \E n \in 0..Len(b) :
           /\ Kept(b, t) = SubSeq(b, n + 1, Len(b))
           /\ Kept(b, t) \in Seq(Nat)
           /\ Len(Kept(b, t)) = Len(b) - n
           /\ \A i \in 1..(Len(b) - n) : Kept(b, t)[i] = b[n + i]
           /\ \A i \in 1..n : t - b[i] > Window
           /\ n < Len(b) => t - b[n + 1] <= Window
<1> DEFINE S == {i \in 1..(Len(b) + 1) : i = Len(b) + 1 \/ t - b[i] <= Window}
<1>1. S \in SUBSET Nat /\ Len(b) + 1 \in S
  OBVIOUS
<1>2. PICK m \in S : \A k \in S : m <= k
  <2> HIDE DEF S
  <2> QED BY <1>1, LeastNatural
<1> DEFINE n == m - 1
<1>3. n \in 0..Len(b) /\ m = n + 1
  BY <1>1, <1>2
<1>4. \A i \in 1..n : t - b[i] > Window
  <2> TAKE i \in 1..n
  <2>1. i \in 1..(Len(b) + 1) /\ i \notin S /\ b[i] \in Nat
    BY <1>2, <1>3
  <2> QED
    BY <2>1, LimiterAssumption
<1>5. n < Len(b) => t - b[n + 1] <= Window
  BY <1>2, <1>3
<1>6. n \in Expired(b, t)
  BY <1>3, <1>4 DEF Expired
<1>7. \A j \in Expired(b, t) : j <= n
  <2> SUFFICES ASSUME NEW j \in Expired(b, t), j > n PROVE FALSE
    BY <1>3 DEF Expired
  <2>1. j \in 0..Len(b) /\ n + 1 \in 1..j
    BY <1>3 DEF Expired
  <2>2. t - b[n + 1] > Window
    BY <2>1 DEF Expired
  <2>3. b[n + 1] \in Nat /\ t - b[n + 1] <= Window
    BY <2>1, <1>3, <1>5
  <2> QED
    BY <2>2, <2>3, LimiterAssumption
<1>8. n = CHOOSE i \in Expired(b, t) : \A j \in Expired(b, t) : j <= i
  <2>1. \A i \in Expired(b, t) : (\A j \in Expired(b, t) : j <= i) => i = n
    <3> SUFFICES ASSUME NEW i \in Expired(b, t), n <= i PROVE i = n
      BY <1>6
    <3>1. i <= n /\ i \in Int
      BY <1>7 DEF Expired
    <3> QED BY <3>1, <1>3
  <2> QED
    BY <1>6, <1>7, <2>1
<1>9. Kept(b, t) = SubSeq(b, n + 1, Len(b))
  BY <1>8 DEF Kept
<1>10. /\ Kept(b, t) \in Seq(Nat)
       /\ Len(Kept(b, t)) = Len(b) - n
       /\ \A i \in 1..(Len(b) - n) : Kept(b, t)[i] = b[n + i]
  <2> DEFINE first == n + 1
             last == Len(b)
             tail == SubSeq(b, first, last)
  <2>1. ASSUME NEW i \in first..last PROVE b[i] \in Nat
    <3>1. i \in 1..Len(b)
      BY <1>3
    <3> QED BY <3>1, ElementOfSeq
  <2>2. first \in Int /\ last \in Int
    BY <1>3
  <2>3. /\ tail \in Seq(Nat) /\ Len(tail) = IF first <= last THEN last - first + 1 ELSE 0
        /\ \A i \in 1..(last - first + 1) : tail[i] = b[first + i - 1]
    <3> HIDE DEF first, last
    <3> QED BY <2>1, <2>2, SubSeqProperties
  <2> HIDE DEF tail
  <2>4. /\ last - first + 1 = last - n /\ (~(first <= last) => last - n = 0)
        /\ \A i \in 1..(last - n) : first + i - 1 = n + i
    BY <1>3
  <2>5. Len(tail) = last - n /\ \A i \in 1..(last - n) : tail[i] = b[n + i]
    BY <2>3, <2>4
  <2> QED
    BY <1>9, <2>3, <2>5 DEF tail
<1> QED
  BY <1>3, <1>4, <1>5, <1>9, <1>10

(* What an attempt of client c makes of its deque. *)
LEMMA AttemptKeepsTail ==
  ASSUME NEW c \in Clients, LimitInv
  PROVE  LET k == Kept(hits[c], clock)
             p == passed[c]
         IN  /\ k \in Seq(Nat) /\ IsTail(k, p) /\ Gone(k, p)
             /\ \A i \in (Len(p) - Len(k) + 1)..Len(p) : clock - p[i] <= Window
<1> DEFINE b == hits[c]
           p == passed[c]
           k == Kept(b, clock)
<1>1. /\ clock \in Nat /\ b \in Seq(Nat) /\ p \in Seq(Nat)
      /\ Sorted(p) /\ IsTail(b, p) /\ Gone(b, p)
  BY DEF LimitInv, LimitTypeOK
<1>2. PICK n \in 0..Len(b) :
        /\ k \in Seq(Nat) /\ Len(k) = Len(b) - n
        /\ \A i \in 1..(Len(b) - n) : k[i] = b[n + i]
        /\ \A i \in 1..n : clock - b[i] > Window
        /\ n < Len(b) => clock - b[n + 1] <= Window
  <2> HIDE DEF b
  <2> QED BY <1>1, KeptIsTail
<1> HIDE DEF k, b, p
<1>9. /\ Len(p) \in Nat /\ Len(b) \in Nat /\ Len(k) \in Nat
      /\ Len(b) <= Len(p) /\ Len(k) = Len(b) - n /\ n \in Nat
  BY <1>1, <1>2 DEF IsTail
<1>3. IsTail(k, p)
  <2>1. ASSUME NEW i \in 1..Len(k) PROVE k[i] = p[Len(p) - Len(k) + i]
    <3>1. i \in 1..(Len(b) - n) /\ n + i \in 1..Len(b)
      BY <1>9
    <3>2. k[i] = b[n + i]
      BY <3>1, <1>2
    <3>3. b[n + i] = p[Len(p) - Len(b) + (n + i)]
      BY <3>1, <1>1 DEF IsTail
    <3>4. Len(p) - Len(b) + (n + i) = Len(p) - Len(k) + i
      BY <1>9
    <3> QED BY <3>2, <3>3, <3>4
  <2>2. Len(k) <= Len(p)
    BY <1>9
  <2> QED BY <2>1, <2>2 DEF IsTail
<1>4. Gone(k, p)
  <2> SUFFICES ASSUME NEW i \in 1..(Len(p) - Len(k)) PROVE clock - p[i] > Window
    BY DEF Gone
  <2>1. CASE i <= Len(p) - Len(b)
    BY <2>1, <1>1, <1>2 DEF Gone, IsTail
  <2>2. CASE i > Len(p) - Len(b)
    <3> DEFINE j == i - (Len(p) - Len(b))
    <3>1. j \in 1..n /\ j \in 1..Len(b) /\ Len(p) - Len(b) + j = i
      BY <2>2, <1>9
    <3>2. p[i] = b[j]
      BY <3>1, <1>1 DEF IsTail
    <3> QED BY <3>1, <3>2, <1>2
  <2> QED BY <2>1, <2>2, <1>9
<1>5. ASSUME NEW i \in (Len(p) - Len(k) + 1)..Len(p)
      PROVE  clock - p[i] <= Window
  <2> DEFINE f == Len(p) - Len(k) + 1
  <2>1. /\ n < Len(b) /\ Len(k) \in Nat /\ Len(k) <= Len(p) /\ f \in 1..Len(p) /\ i \in 1..Len(p)
        /\ f <= i /\ f = Len(p) - Len(b) + (n + 1) /\ n + 1 \in 1..Len(b)
    BY <1>9
  <2>2. p[f] = b[n + 1]
    <3>1. b[n + 1] = p[Len(p) - Len(b) + (n + 1)]
      BY <2>1, <1>1 DEF IsTail
    <3> QED BY <3>1, <2>1
  <2> HIDE DEF f
  <2>3. p[f] <= p[i] /\ p[f] \in Nat /\ p[i] \in Nat
    <3>1. f \in 1..Len(p) /\ i \in 1..Len(p) /\ f <= i
      BY <2>1
    <3>2. p[f] <= p[i]
      BY <3>1, <1>1 DEF Sorted
    <3>3. p[f] \in Nat /\ p[i] \in Nat
      BY <3>1, <1>1, ElementOfSeq
    <3> QED BY <3>2, <3>3
  <2>4. clock - p[f] <= Window
    BY <2>1, <2>2, <1>2
  <2>5. Window \in Nat /\ clock \in Nat
    BY <1>1, LimiterAssumption
  <2>6. \A x, y, z, w \in Nat : x <= y /\ z - x <= w => z - y <= w
    OBVIOUS
  <2> QED BY <2>3, <2>4, <2>5, <2>6
<1> QED
  BY <1>1, <1>2, <1>3, <1>4, <1>5 DEF k, b, p

(* One more attempt let through, with fewer than Limit in the deque. *)
LEMMA AppendKeepsOrder ==
  ASSUME NEW k \in Seq(Nat), NEW p \in Seq(Nat), clock \in Nat,
         Sorted(p), IsTail(k, p), Gone(k, p), Spaced(p), Len(k) < Limit
  PROVE  LET q == Append(p, clock)
         IN  /\ Sorted(q) /\ IsTail(Append(k, clock), q)
             /\ Gone(Append(k, clock), q) /\ Spaced(q)
<1> DEFINE q == Append(p, clock)
           l == Append(k, clock)
<1>1. /\ q \in Seq(Nat) /\ l \in Seq(Nat) /\ Len(q) = Len(p) + 1 /\ Len(l) = Len(k) + 1
      /\ q[Len(q)] = clock /\ l[Len(l)] = clock /\ Len(k) \in Nat /\ Len(p) \in Nat
      /\ \A i \in 1..Len(p) : q[i] = p[i]
      /\ \A i \in 1..Len(k) : l[i] = k[i]
  OBVIOUS
<1> HIDE DEF q, l
<1>2. Sorted(q)
  <2>1. ASSUME NEW i \in 1..Len(q) PROVE q[i] <= clock
    <3>1. CASE i = Len(q)
      BY <3>1, <1>1
    <3>2. CASE i # Len(q)
      <4>1. i \in 1..Len(p)
        BY <3>2, <1>1
      <4> QED BY <4>1, <1>1 DEF Sorted
    <3> QED BY <3>1, <3>2
  <2>2. ASSUME NEW i \in 1..Len(q), NEW j \in 1..Len(q), i <= j PROVE q[i] <= q[j]
    <3>1. CASE j = Len(q)
      BY <2>1, <3>1, <1>1
    <3>2. CASE j # Len(q)
      <4>1. i \in 1..Len(p) /\ j \in 1..Len(p)
        <5>1. /\ Len(q) = Len(p) + 1 /\ Len(p) \in Nat /\ i \in 1..Len(q) /\ j \in 1..Len(q)
              /\ i <= j /\ j # Len(q)
          BY <3>2, <2>2, <1>1
        <5> QED BY <5>1
      <4> QED BY <4>1, <2>2, <1>1 DEF Sorted
    <3> QED BY <3>1, <3>2
  <2> QED BY <2>1, <2>2 DEF Sorted
<1>3. IsTail(l, q)
  <2>1. Len(l) <= Len(q) /\ Len(q) - Len(l) = Len(p) - Len(k)
    BY <1>1 DEF IsTail
  <2>2. ASSUME NEW i \in 1..Len(l) PROVE l[i] = q[Len(q) - Len(l) + i]
    <3>1. CASE i = Len(l)
      BY <3>1, <1>1
    <3>2. CASE i # Len(l)
      <4>1. i \in 1..Len(k) /\ Len(p) - Len(k) + i \in 1..Len(p)
        <5>1. Len(k) <= Len(p) /\ Len(p) \in Nat /\ Len(k) \in Nat /\ Len(l) = Len(k) + 1
          BY <1>1 DEF IsTail
        <5> QED BY <3>2, <5>1
      <4> QED BY <4>1, <2>1, <1>1 DEF IsTail
    <3> QED BY <3>1, <3>2
  <2> QED BY <2>1, <2>2 DEF IsTail
<1>4. Gone(l, q)
  <2> SUFFICES ASSUME NEW i \in 1..(Len(q) - Len(l)) PROVE clock - q[i] > Window
    BY DEF Gone
  <2>1. i \in 1..(Len(p) - Len(k)) /\ i \in 1..Len(p)
    <3>1. /\ Len(q) = Len(p) + 1 /\ Len(l) = Len(k) + 1 /\ Len(p) \in Nat /\ Len(k) \in Nat
          /\ i \in 1..(Len(q) - Len(l))
      BY <1>1
    <3> QED BY <3>1
  <2> QED BY <2>1, <1>1 DEF Gone
<1>5. Spaced(q)
  <2> SUFFICES ASSUME NEW i \in 1..Len(q), i + Limit \in 1..Len(q)
               PROVE  q[i + Limit] - q[i] > Window
    BY DEF Spaced
  <2> Limit \in Nat \ {0}
    BY LimiterAssumption
  <2>1. CASE i + Limit <= Len(p)
    <3>1. i \in 1..Len(p) /\ i + Limit \in 1..Len(p)
      BY <2>1, <1>1
    <3> QED BY <3>1, <1>1 DEF Spaced
  <2>2. CASE i + Limit = Len(p) + 1
    <3>1. Len(p) \in Nat /\ Len(k) \in Nat /\ Len(k) < Limit /\ i \in Nat /\ 1 <= i
      BY <1>1
    <3>2. i \in 1..(Len(p) - Len(k)) /\ i \in 1..Len(p)
      BY <3>1, <2>2
    <3>3. clock - p[i] > Window
      BY <3>2, <1>1 DEF Gone
    <3>4. q[i] = p[i] /\ q[i + Limit] = clock
      BY <3>2, <2>2, <1>1
    <3> QED BY <3>3, <3>4
  <2>3. i + Limit <= Len(p) \/ i + Limit = Len(p) + 1
    <3>1. i + Limit \in 1..(Len(p) + 1) /\ Len(p) \in Nat
      BY <1>1
    <3>2. \A m \in Nat : \A j \in 1..(m + 1) : j <= m \/ j = m + 1
      OBVIOUS
    <3> QED BY <3>1, <3>2
  <2> QED BY <2>1, <2>2, <2>3
<1> QED BY <1>2, <1>3, <1>4, <1>5 DEF q, l

LEMMA LimitInitInv == LimitInit => LimitInv
BY DEF LimitInit, LimitInv, LimitTypeOK, Sorted, IsTail, Gone, Spaced

LEMMA LimitNextInv == LimitInv /\ [LimitNext]_limitVars => LimitInv'
<1> SUFFICES ASSUME LimitInv, [LimitNext]_limitVars PROVE LimitInv'
  OBVIOUS
<1>1. ASSUME NEW c \in Clients, Accept(c) PROVE LimitInv'
  <2> DEFINE k == Kept(hits[c], clock)
  <2>1. /\ k \in Seq(Nat) /\ IsTail(k, passed[c]) /\ Gone(k, passed[c])
    BY AttemptKeepsTail
  <2>2. /\ Len(k) < Limit /\ clock' = clock
        /\ hits' = [hits EXCEPT ![c] = Append(k, clock)]
        /\ passed' = [passed EXCEPT ![c] = Append(@, clock)]
        /\ answer' = [answer EXCEPT ![c] = "passed"]
    BY <1>1, <2>1, LimiterAssumption DEF Accept, Full
  <2> HIDE DEF k
  <2>3. LimitTypeOK'
    BY <2>1, <2>2 DEF LimitInv, LimitTypeOK
  <2>4. ASSUME NEW d \in Clients
        PROVE  /\ Sorted(passed[d])' /\ IsTail(hits[d], passed[d])'
               /\ Gone(hits[d], passed[d])' /\ Spaced(passed[d])'
    <3>1. CASE d = c
      <4> DEFINE q == Append(passed[c], clock)
      <4>1. passed'[d] = q /\ hits'[d] = Append(k, clock)
        BY <3>1, <2>2 DEF LimitInv, LimitTypeOK
      <4>2. Sorted(q) /\ IsTail(Append(k, clock), q) /\ Gone(Append(k, clock), q) /\ Spaced(q)
        BY <2>1, <2>2, AppendKeepsOrder DEF LimitInv, LimitTypeOK
      <4> QED BY <4>1, <4>2, <2>2 DEF Sorted, IsTail, Gone, Spaced
    <3>2. CASE d # c
      BY <3>2, <2>2 DEF LimitInv, LimitTypeOK, Sorted, IsTail, Gone, Spaced
    <3> QED BY <3>1, <3>2
  <2> QED BY <2>3, <2>4 DEF LimitInv
<1>2. ASSUME NEW c \in Clients, Reject(c) PROVE LimitInv'
  <2> DEFINE k == Kept(hits[c], clock)
  <2>1. /\ k \in Seq(Nat) /\ IsTail(k, passed[c]) /\ Gone(k, passed[c])
    BY AttemptKeepsTail
  <2>2. /\ clock' = clock /\ hits' = [hits EXCEPT ![c] = k] /\ passed' = passed
        /\ answer' = [answer EXCEPT ![c] = "429"]
    BY <1>2 DEF Reject
  <2> HIDE DEF k
  <2>3. LimitTypeOK'
    BY <2>1, <2>2 DEF LimitInv, LimitTypeOK
  <2>4. ASSUME NEW d \in Clients
        PROVE  /\ Sorted(passed[d])' /\ IsTail(hits[d], passed[d])'
               /\ Gone(hits[d], passed[d])' /\ Spaced(passed[d])'
    <3>1. hits'[d] = (IF d = c THEN k ELSE hits[d]) /\ passed'[d] = passed[d] /\ clock' = clock
      BY <2>2 DEF LimitInv, LimitTypeOK
    <3>2. Sorted(passed[d])' /\ Spaced(passed[d])'
      BY <3>1 DEF LimitInv, Sorted, Spaced
    <3>3. CASE d = c
      <4>1. hits'[d] = k
        BY <3>1, <3>3
      <4> QED BY <4>1, <2>1, <3>1, <3>2, <3>3 DEF IsTail, Gone
    <3>4. CASE d # c
      <4>1. hits'[d] = hits[d]
        BY <3>1, <3>4
      <4> QED BY <4>1, <3>1, <3>2 DEF LimitInv, IsTail, Gone
    <3> QED BY <3>3, <3>4
  <2> QED BY <2>3, <2>4 DEF LimitInv
<1>3. ASSUME LimitTick PROVE LimitInv'
  <2>1. /\ clock' \in Nat /\ clock' > clock /\ hits' = hits /\ passed' = passed /\ answer' = answer
    BY <1>3, LimiterAssumption DEF LimitTick, LimitInv, LimitTypeOK
  <2>2. ASSUME NEW d \in Clients PROVE Sorted(passed[d])' /\ Gone(hits[d], passed[d])'
    <3>1. passed[d] \in Seq(Nat) /\ hits[d] \in Seq(Nat) /\ clock \in Nat
      BY DEF LimitInv, LimitTypeOK
    <3>2. Sorted(passed[d])'
      <4>1. /\ \A i, j \in 1..Len(passed[d]) : i <= j => passed[d][i] <= passed[d][j]
            /\ \A i \in 1..Len(passed[d]) : passed[d][i] <= clock
        BY DEF LimitInv, Sorted
      <4>2. ASSUME NEW i \in 1..Len(passed[d]) PROVE passed[d][i] <= clock'
        <5>1. passed[d][i] \in Nat /\ passed[d][i] <= clock
          BY <3>1, <4>1, ElementOfSeq
        <5> QED BY <2>1, <3>1, <5>1
      <4> QED BY <2>1, <4>1, <4>2 DEF Sorted
    <3>3. ASSUME NEW i \in 1..(Len(passed[d]) - Len(hits[d])) PROVE clock' - passed[d][i] > Window
      <4>1. i \in 1..Len(passed[d]) /\ passed[d][i] \in Nat
        <5>1. Len(passed[d]) \in Nat /\ Len(hits[d]) \in Nat
          BY <3>1, LenProperties
        <5>2. i \in 1..Len(passed[d])
          BY <5>1
        <5> QED BY <3>1, <5>2, ElementOfSeq
      <4>2. clock - passed[d][i] > Window
        BY DEF LimitInv, Gone
      <4> QED BY <2>1, <3>1, <4>1, <4>2, LimiterAssumption
    <3>4. Gone(hits[d], passed[d])'
      BY <2>1, <3>3 DEF Gone
    <3> QED BY <3>2, <3>4
  <2> QED BY <2>1, <2>2 DEF LimitInv, LimitTypeOK, IsTail, Spaced
<1>4. CASE UNCHANGED limitVars
  BY <1>4 DEF limitVars, LimitInv, LimitTypeOK, Sorted, IsTail, Gone, Spaced
<1> QED
  BY <1>1, <1>2, <1>3, <1>4 DEF LimitNext

(* The limiter spaces the logins of each client (middleware 36-46): of any  *)
(* Limit + 1 in a row the first and the last are more than Window apart.    *)
THEOREM LoginsAreSpaced == LimitSpec => []SpacedLogins
<1>1. LimitInv => SpacedLogins
  <2> SUFFICES ASSUME LimitInv, NEW c \in Clients, NEW i \in DOMAIN passed[c],
                      i + Limit \in DOMAIN passed[c]
               PROVE  passed[c][i + Limit] - passed[c][i] > Window
    BY DEF SpacedLogins
  <2>1. passed[c] \in Seq(Nat) /\ Spaced(passed[c])
    BY DEF LimitInv, LimitTypeOK
  <2>2. DOMAIN passed[c] = 1..Len(passed[c])
    BY <2>1
  <2> QED BY <2>1, <2>2 DEF Spaced
<1> QED
  BY <1>1, LimitInitInv, LimitNextInv, PTL DEF LimitSpec

(* The deque is full exactly when the Limit-th last attempt is in the window. *)
LEMMA FullIsMany ==
  ASSUME NEW c \in Clients, LimitInv
  PROVE  Full(Kept(hits[c], clock)) <=> ~Sliding!Few(c)
<1> DEFINE k == Kept(hits[c], clock)
           p == passed[c]
           f == Len(p) - Len(k) + 1
           g == Len(p) - Limit + 1
<1>1. /\ k \in Seq(Nat) /\ IsTail(k, p) /\ Gone(k, p)
      /\ \A i \in f..Len(p) : clock - p[i] <= Window
  BY AttemptKeepsTail
<1>2. p \in Seq(Nat) /\ clock \in Nat
  BY DEF LimitInv, LimitTypeOK
<1>3. Sliding!Few(c) <=> Len(p) < Limit \/ clock - p[g] > Window
  BY DEF Sliding!Few
<1> HIDE DEF k, p
<1>4. Len(p) \in Nat /\ Len(k) \in Nat /\ Len(k) <= Len(p) /\ Limit \in Nat \ {0} /\ Window \in Nat
  BY <1>1, <1>2, LimiterAssumption DEF IsTail
<1>5. CASE Len(k) >= Limit
  <2>1. g \in f..Len(p) /\ g \in 1..Len(p)
    BY <1>4, <1>5
  <2>2. clock - p[g] <= Window /\ p[g] \in Nat
    BY <2>1, <1>1, <1>2
  <2> QED BY <2>2, <1>2, <1>3, <1>4, <1>5 DEF Full, k
<1>6. CASE Len(k) < Limit
  <2>1. CASE Len(p) < Limit
    BY <2>1, <1>3, <1>4, <1>6 DEF Full, k
  <2>2. CASE Len(p) >= Limit
    <3>1. g \in 1..(Len(p) - Len(k))
      BY <2>2, <1>4, <1>6
    <3>2. clock - p[g] > Window
      BY <3>1, <1>1 DEF Gone
    <3> QED BY <3>2, <1>3, <1>4, <1>6 DEF Full, k
  <2> QED BY <2>1, <2>2, <1>4
<1> QED BY <1>4, <1>5, <1>6

(* The middleware implements SlidingWindow: dropping what has left the      *)
(* window loses nothing that a full record would have told.                 *)
THEOREM LimiterImplementsWindow == LimitSpec => ImplementsSlidingWindow
<1>1. LimitInit => Sliding!Init
  BY DEF LimitInit, Sliding!Init
<1>2. LimitInv /\ [LimitNext]_limitVars => [Sliding!Next]_(Sliding!limiterVars)
  <2> SUFFICES ASSUME LimitInv, [LimitNext]_limitVars
               PROVE  [Sliding!Next]_(Sliding!limiterVars)
    OBVIOUS
  <2>1. ASSUME NEW c \in Clients, Accept(c) PROVE Sliding!Admit(c)
    <3>1. Sliding!Few(c)
      BY <2>1, FullIsMany DEF Accept
    <3> QED BY <2>1, <3>1 DEF Accept, Sliding!Admit
  <2>2. ASSUME NEW c \in Clients, Reject(c) PROVE Sliding!Refuse(c)
    BY <2>2, FullIsMany DEF Reject, Sliding!Refuse
  <2>3. ASSUME LimitTick PROVE Sliding!Pass
    BY <2>3, LimiterAssumption DEF LimitTick, LimitInv, LimitTypeOK, Sliding!Pass
  <2>4. CASE UNCHANGED limitVars
    BY <2>4 DEF limitVars, Sliding!limiterVars
  <2> QED
    BY <2>1, <2>2, <2>3, <2>4 DEF LimitNext, Sliding!Next
<1> QED
  BY <1>1, <1>2, LimitInitInv, LimitNextInv, PTL DEF LimitSpec, ImplementsSlidingWindow, Sliding!Spec

-----------------------------------------------------------------------------
(* Profiles of devices and seeds: what a session has placed stays, up to    *)
(* what the others report as taken away.                                    *)

Fields == {"step", "todo", "ids", "want", "devs", "ins", "del", "lists"}

(* Device d has each profile of the list, up to what others have taken away. *)
Placed(s, d) == \A p \in Listed(bind[s].ids) \cap profiles :
  <<d, p>> \in bind[s].ins \cup (links \ bind[s].del) \cup gone[s]

(* A transaction: what it has done for the devices behind it, and, between  *)
(* the read and the flush, for the one it works on.                         *)
TxInv(s) ==
  /\ DOMAIN bind[s] = Fields /\ bind[s].step \in {"delete", "read", "flush", "commit"}
  /\ bind[s].ids \in Seq(Profiles) /\ bind[s].todo \in Seq(bind[s].devs)
  /\ Listed(bind[s].ids) \cap unused = {}
  /\ \A k \in bind[s].ins : k[2] \in Listed(bind[s].ids)
  /\ bind[s].step # "delete" => \A d \in bind[s].devs \ Listed(bind[s].todo) : Placed(s, d)
  /\ bind[s].step = "flush" =>
       /\ bind[s].todo # <<>> /\ bind[s].want \subseteq DOMAIN bind[s].ids
       /\ \A i \in DOMAIN bind[s].ids \ bind[s].want : bind[s].ids[i] \in profiles =>
            <<bind[s].todo[1], bind[s].ids[i]>> \in bind[s].ins \cup (links \ bind[s].del) \cup gone[s]
  /\ bind[s].step = "commit" => bind[s].todo = <<>>
  /\ s \notin Assigners => bind[s].lists = <<>>
  /\ s \in Assigners => bind[s].devs = CredDevices

(* A PUT deletes the links of its one device first. *)
SetInv(s) ==
  /\ \E d : bind[s].devs = {d} /\ bind[s].todo \in {<<d>>, <<>>}
  /\ bind[s].step = "delete" =>
       bind[s].todo # <<>> /\ bind[s].ins = {} /\ bind[s].del = {}
  /\ bind[s].step # "delete" =>
       \A k \in links : k[1] \in bind[s].devs => k \in bind[s].del \cup came[s]

CredInv ==
  /\ profiles \cup unused \subseteq Profiles /\ profiles \cap unused = {}
  /\ DOMAIN bind = BindSessions
  /\ \A s \in BindSessions : Running(s) => TxInv(s) /\ (s \in Writers => SetInv(s))

(* What others may do while a session runs. *)
Drifts(s) ==
  /\ bind'[s] = bind[s] /\ DOMAIN bind' = BindSessions
  /\ profiles' \subseteq profiles \cup unused /\ unused' \subseteq unused
  /\ links \subseteq links' \cup gone'[s] /\ links' \subseteq links \cup came'[s]
  /\ gone[s] \subseteq gone'[s] /\ came[s] \subseteq came'[s]

LEMMA DriftKeeps ==
  ASSUME CredInv, NEW s \in BindSessions, Drifts(s), Running(s)'
  PROVE  TxInv(s)' /\ (s \in Writers => SetInv(s)')
<1>1. Running(s) /\ TxInv(s) /\ (s \in Writers => SetInv(s))
  BY DEF CredInv, Running, Drifts
<1>2. Listed(bind[s].ids) \cap profiles' \subseteq profiles
  BY <1>1 DEF TxInv, Drifts
<1>3. \A d : Placed(s, d) => Placed(s, d)'
  BY <1>1, <1>2 DEF Placed, Drifts
<1>4. TxInv(s)'
  <2>1. bind[s].step = "flush" =>
         \A i \in DOMAIN bind[s].ids \ bind[s].want : bind[s].ids[i] \in profiles' =>
            <<bind[s].todo[1], bind[s].ids[i]>> \in bind[s].ins \cup (links' \ bind[s].del) \cup gone'[s]
    <3>1. \A i \in DOMAIN bind[s].ids : bind[s].ids[i] \in Listed(bind[s].ids)
      BY DEF Listed
    <3>2. QED
      BY <1>1, <1>2, <3>1 DEF TxInv, Drifts
  <2>2. QED
    BY <1>1, <1>3, <2>1 DEF TxInv, Drifts
<1>5. s \in Writers => SetInv(s)'
  BY <1>1 DEF SetInv, Drifts
<1>6. QED
  BY <1>4, <1>5

(* An action of one session leaves the others with a drift. *)
LEMMA StepKeeps ==
  ASSUME CredInv, NEW s \in BindSessions, NEW new, Step(s, new),
         new # NoBind => TxInv(s)' /\ (s \in Writers => SetInv(s)')
  PROVE  CredInv'
<1>1. bind'[s] = new /\ DOMAIN bind' = BindSessions
  BY DEF Step, CredInv
<1>2. \A t \in BindSessions \ {s} : Drifts(t)
  BY <1>1 DEF Step, CredInv, Drifts
<1>3. QED
  BY <1>1, <1>2, DriftKeeps DEF CredInv, Running, Step

LEMMA BeginsKeeps ==
  ASSUME CredInv, NEW s \in BindSessions, NEW step \in {"delete", "read"},
         NEW todo \in Seq(CredDevices), NEW ids \in Seq(Profiles), Exist(ids), Begins(s, step, todo, ids),
         s \in Assigners => Listed(todo) = CredDevices,
         s \in Writers => step = "delete" /\ \E d : todo = <<d>>
  PROVE  CredInv'
<1> DEFINE tx == [step |-> step, todo |-> todo, ids |-> ids, want |-> {}, devs |-> Listed(todo),
                  ins |-> {}, del |-> {}, lists |-> <<>>]
<1>1. DOMAIN bind' = BindSessions /\ bind'[s] = tx /\ bind[s] = NoBind
  BY DEF Begins, CredInv
<1>2. \A t \in BindSessions \ {s} : Drifts(t)
  BY <1>1 DEF Begins, CredInv, Drifts
<1>3. todo \in Seq(Listed(todo))
  BY DEF Listed
<1>4. TxInv(s)'
  BY <1>1, <1>3 DEF TxInv, Fields, Exist, Begins, Placed
<1>5. s \in Writers => SetInv(s)'
  <2> SUFFICES ASSUME s \in Writers PROVE SetInv(s)'
    OBVIOUS
  <2>1. PICK d : todo = <<d>>
    OBVIOUS
  <2>2. Listed(todo) = {d} /\ todo # <<>>
    BY <2>1 DEF Listed
  <2>3. QED
    BY <1>1, <2>1, <2>2 DEF SetInv
<1>6. QED
  BY <1>1, <1>2, <1>4, <1>5, DriftKeeps DEF CredInv, Running, Begins

LEMMA StartsKeep ==
  ASSUME CredInv, NEW s \in BindSessions,
         \/ s \in Binders /\ StartBind(s)
         \/ s \in Writers /\ StartSet(s)
         \/ s \in Assigners /\ StartAssign(s)
  PROVE  CredInv'
<1>1. CASE s \in Binders /\ StartBind(s)
  <2>1. PICK d \in CredDevices, ids \in Seq(Profiles) : Exist(ids) /\ Begins(s, "read", <<d>>, ids)
    <3>1. PICK d \in CredDevices :
            \/ \E p \in profiles : Begins(s, "read", <<d>>, <<p>>)
            \/ \E ids \in IdLists : Exist(ids) /\ Begins(s, "read", <<d>>, ids)
      BY <1>1 DEF StartBind
    <3>2. CASE \E p \in profiles : Begins(s, "read", <<d>>, <<p>>)
      <4>1. PICK p \in profiles : Begins(s, "read", <<d>>, <<p>>)
        BY <3>2
      <4>2. <<p>> \in Seq(Profiles) /\ Listed(<<p>>) = {p} /\ p \notin unused
        BY DEF CredInv, Listed
      <4>3. QED
        BY <4>1, <4>2 DEF Exist
    <3>3. CASE \E ids \in IdLists : Exist(ids) /\ Begins(s, "read", <<d>>, ids)
      BY <3>3, BindingAssumption
    <3>4. QED
      BY <3>1, <3>2, <3>3
  <2>2. <<d>> \in Seq(CredDevices) /\ s \notin Assigners /\ s \notin Writers
    BY <1>1, BindingAssumption
  <2>3. QED
    BY <2>1, <2>2, BeginsKeeps
<1>2. CASE s \in Writers /\ StartSet(s)
  <2>1. PICK d \in CredDevices, ids \in IdLists : Exist(ids) /\ Begins(s, "delete", <<d>>, ids)
    BY <1>2 DEF StartSet
  <2>2. <<d>> \in Seq(CredDevices) /\ ids \in Seq(Profiles) /\ s \notin Assigners
    BY <1>2, BindingAssumption
  <2>3. QED
    BY <2>1, <2>2, BeginsKeeps
<1>3. CASE s \in Assigners /\ StartAssign(s)
  <2>1. PICK ids \in IdLists, todo \in [1..Cardinality(CredDevices) -> CredDevices] :
          Listed(todo) = CredDevices /\ Exist(ids) /\ Begins(s, "read", todo, ids)
    BY <1>3 DEF StartAssign
  <2>2. todo \in Seq(CredDevices)
    BY BindingAssumption, FS_CardinalityType
  <2>3. QED
    BY <1>3, <2>1, <2>2, BeginsKeeps, BindingAssumption
<1>4. QED
  BY <1>1, <1>2, <1>3

LEMMA DeleteLinksKeeps ==
  ASSUME CredInv, NEW s \in Writers, DeleteLinks(s)
  PROVE  CredInv'
<1>1. s \in BindSessions /\ TxInv(s) /\ SetInv(s) /\ bind[s].step = "delete"
  BY DEF DeleteLinks, CredInv, BindSessions
<1>2. PICK d : bind[s].devs = {d} /\ bind[s].todo = <<d>>
  BY <1>1 DEF SetInv
<1> DEFINE mine == {k \in links : k[1] = d}
<1> DEFINE new == [bind[s] EXCEPT !.del = mine, !.step = "read"]
<1>3. Step(s, new)
  BY <1>2 DEF DeleteLinks
<1>4. bind'[s] = new /\ links' = links /\ unused' = unused /\ profiles' = profiles
  BY <1>1, <1>3 DEF Step, CredInv
<1>5. Listed(<<d>>) = {d}
  BY DEF Listed
<1>6. TxInv(s)'
  BY <1>1, <1>2, <1>4, <1>5 DEF TxInv, Fields
<1>7. SetInv(s)'
  <2>1. bind'[s].del = mine /\ bind'[s].devs = {d} /\ bind'[s].todo = <<d>> /\ bind'[s].step = "read"
    BY <1>1, <1>2, <1>4 DEF TxInv, Fields
  <2>2. QED
    BY <1>4, <2>1 DEF SetInv
<1>8. QED
  BY <1>1, <1>3, <1>6, <1>7, StepKeeps

LEMMA ReadLinksKeeps ==
  ASSUME CredInv, NEW s \in BindSessions, ReadLinks(s)
  PROVE  CredInv'
<1> DEFINE want == Missing(s, bind[s].todo[1])
<1> DEFINE new == [bind[s] EXCEPT !.want = want, !.step = "flush"]
<1>1. TxInv(s) /\ (s \in Writers => SetInv(s)) /\ bind[s].step = "read" /\ bind[s].todo # <<>> /\ Step(s, new)
  BY DEF ReadLinks, CredInv
<1>2. bind'[s] = new /\ links' = links /\ unused' = unused /\ profiles' = profiles /\ gone' = gone /\ came' = came
  BY <1>1 DEF Step, CredInv
<1>3. want = {i \in DOMAIN bind[s].ids : bind[s].ids[i] \in profiles /\
                <<bind[s].todo[1], bind[s].ids[i]>> \notin (links \ bind[s].del) \cup bind[s].ins}
  BY DEF Missing, Sees
<1> HIDE DEF want
<1>4. /\ bind'[s].todo = bind[s].todo /\ bind'[s].ids = bind[s].ids /\ bind'[s].devs = bind[s].devs
      /\ bind'[s].ins = bind[s].ins /\ bind'[s].del = bind[s].del /\ bind'[s].lists = bind[s].lists
      /\ bind'[s].step = "flush" /\ bind'[s].want = want /\ DOMAIN bind'[s] = Fields
  BY <1>1, <1>2 DEF TxInv, Fields
<1>5. \A d : Placed(s, d) => Placed(s, d)'
  BY <1>2, <1>4 DEF Placed
<1>6. TxInv(s)'
  BY <1>1, <1>2, <1>3, <1>4, <1>5 DEF TxInv
<1>7. s \in Writers => SetInv(s)'
  BY <1>1, <1>2, <1>4 DEF SetInv
<1>8. QED
  BY <1>1, <1>6, <1>7, StepKeeps

LEMMA TailIsSeq ==
  ASSUME NEW S, NEW q \in Seq(S), q # <<>>
  PROVE  Tail(q) \in Seq(S)
OBVIOUS

LEMMA FlushLinksKeeps ==
  ASSUME CredInv, NEW s \in BindSessions, FlushLinks(s)
  PROVE  CredInv'
<1> DEFINE wanted == {bind[s].ids[i] : i \in bind[s].want}
           rows == {<<bind[s].todo[1], p>> : p \in wanted}
           new == [bind[s] EXCEPT !.ins = @ \cup rows, !.todo = Tail(@), !.step = "read"]
<1>1. TxInv(s) /\ (s \in Writers => SetInv(s)) /\ bind[s].step = "flush"
  BY DEF FlushLinks, CredInv
<1>2. EndsWithout(s) \/ Step(s, new)
  BY DEF FlushLinks
<1>3. ASSUME Step(s, new) PROVE CredInv'
  <2>1. /\ bind'[s] = new /\ links' = links /\ unused' = unused /\ profiles' = profiles /\ gone' = gone
        /\ came' = came
    BY <1>1, <1>3 DEF Step, CredInv
  <2>2. /\ bind'[s].todo = Tail(bind[s].todo) /\ bind'[s].ids = bind[s].ids /\ bind'[s].devs = bind[s].devs
        /\ bind'[s].ins = bind[s].ins \cup rows /\ bind'[s].del = bind[s].del
        /\ bind'[s].lists = bind[s].lists /\ bind'[s].step = "read" /\ DOMAIN bind'[s] = Fields
    BY <1>1, <2>1 DEF TxInv, Fields
  <2>3. \A i \in bind[s].want : <<bind[s].todo[1], bind[s].ids[i]>> \in rows
    OBVIOUS
  <2>4. \A k \in rows : k[2] \in Listed(bind[s].ids)
    BY <1>1 DEF TxInv, Listed
  <2> HIDE DEF rows
  <2>5. \A d : Placed(s, d) => Placed(s, d)'
    BY <2>1, <2>2 DEF Placed
  <2> PICK first : first = bind[s].todo[1]
    OBVIOUS
  <2>6. Placed(s, first)'
    <3> SUFFICES ASSUME NEW p \in Listed(bind[s].ids) \cap profiles
                 PROVE  <<first, p>> \in bind'[s].ins \cup (links \ bind[s].del) \cup gone[s]
      BY <2>1, <2>2 DEF Placed
    <3>1. PICK i \in DOMAIN bind[s].ids : p = bind[s].ids[i]
      BY DEF Listed
    <3>2. QED
      BY <1>1, <2>2, <2>3, <3>1 DEF TxInv
  <2>7. bind[s].todo \in Seq(bind[s].devs) /\ bind[s].todo # <<>>
    BY <1>1 DEF TxInv
  <2>8. /\ Tail(bind[s].todo) \in Seq(bind[s].devs)
        /\ Listed(bind[s].todo) \subseteq Listed(Tail(bind[s].todo)) \cup {first}
    <3>1. ASSUME NEW i \in DOMAIN bind[s].todo, i # 1
          PROVE  i - 1 \in DOMAIN Tail(bind[s].todo) /\ Tail(bind[s].todo)[i - 1] = bind[s].todo[i]
      BY <2>7, <3>1
    <3>2. \A i \in DOMAIN bind[s].todo :
             bind[s].todo[i] \in Listed(Tail(bind[s].todo)) \/ bind[s].todo[i] = first
      BY <3>1 DEF Listed
    <3>3. Tail(bind[s].todo) \in Seq(bind[s].devs)
      BY <2>7, TailIsSeq
    <3>4. QED
      BY <3>2, <3>3 DEF Listed
  <2>9. \A d \in bind[s].devs \ Listed(Tail(bind[s].todo)) : Placed(s, d)'
    BY <1>1, <2>5, <2>6, <2>8 DEF TxInv
  <2>10. TxInv(s)'
    BY <1>1, <2>1, <2>2, <2>4, <2>8, <2>9 DEF TxInv
  <2>11. s \in Writers => SetInv(s)'
    <3> SUFFICES ASSUME s \in Writers PROVE SetInv(s)'
      OBVIOUS
    <3>1. PICK d : bind[s].devs = {d} /\ bind[s].todo \in {<<d>>, <<>>}
      BY <1>1 DEF SetInv
    <3>2. Tail(bind[s].todo) = <<>>
      <4>1. bind[s].todo = <<d>>
        BY <2>7, <3>1
      <4>2. Tail(<<d>>) = <<>>
        OBVIOUS
      <4>3. QED
        BY <4>1, <4>2
    <3>3. QED
      BY <1>1, <2>1, <2>2, <3>1, <3>2 DEF SetInv
  <2>12. QED
    BY <1>3, <2>10, <2>11, StepKeeps
<1>4. ASSUME EndsWithout(s) PROVE CredInv'
  BY <1>4, StepKeeps DEF EndsWithout
<1>5. QED
  BY <1>2, <1>3, <1>4

LEMMA ReadSeedsKeeps ==
  ASSUME CredInv, NEW s \in BindSessions, ReadSeeds(s)
  PROVE  CredInv'
<1> DEFINE new == [bind[s] EXCEPT !.lists = seeds, !.step = "commit"]
<1>1. /\ TxInv(s) /\ (s \in Writers => SetInv(s)) /\ bind[s].step = "read" /\ bind[s].todo = <<>>
      /\ Step(s, new) /\ s \in Assigners /\ s \notin Writers
  BY BindingAssumption DEF ReadSeeds, CredInv
<1>2. bind'[s] = new /\ links' = links /\ unused' = unused /\ profiles' = profiles /\ gone' = gone
  BY <1>1 DEF Step, CredInv
<1>3. /\ bind'[s].todo = bind[s].todo /\ bind'[s].ids = bind[s].ids /\ bind'[s].devs = bind[s].devs
      /\ bind'[s].ins = bind[s].ins /\ bind'[s].del = bind[s].del
      /\ bind'[s].step = "commit" /\ DOMAIN bind'[s] = Fields
  BY <1>1, <1>2 DEF TxInv, Fields
<1>4. \A d : Placed(s, d) => Placed(s, d)'
  BY <1>2, <1>3 DEF Placed
<1>5. TxInv(s)'
  BY <1>1, <1>2, <1>3, <1>4 DEF TxInv
<1>6. QED
  BY <1>1, <1>5, StepKeeps

LEMMA CommitBindKeeps ==
  ASSUME CredInv, NEW s \in BindSessions, CommitBind(s)
  PROVE  CredInv'
<1> DEFINE dirty == {x \in DOMAIN bind[s].lists : ~(Listed(bind[s].ids) \subseteq bind[s].lists[x])}
<1>1. CASE dirty \subseteq DOMAIN seeds
  <2>1. /\ links' = (links \ bind[s].del) \cup bind[s].ins
        /\ Others(s, bind[s].ins, bind[s].del)
        /\ bind' = [bind EXCEPT ![s] = NoBind]
        /\ UNCHANGED <<profiles, unused>>
    BY <1>1 DEF CommitBind
  <2>2. ASSUME NEW t \in BindSessions, Running(t)' PROVE Drifts(t)
    <3>1. t # s /\ bind'[t] = bind[t] /\ Running(t)
      BY <2>1, <2>2 DEF CredInv, Running
    <3>2. came'[t] = came[t] \cup bind[s].ins /\ gone'[t] = gone[t] \cup bind[s].del
      BY <2>1, <3>1 DEF Others
    <3>3. QED
      BY <2>1, <3>1, <3>2 DEF Drifts, CredInv
  <2>3. QED
    BY <2>1, <2>2, DriftKeeps DEF CredInv
<1>2. CASE ~(dirty \subseteq DOMAIN seeds)
  <2>1. EndsWithout(s)
    BY <1>2 DEF CommitBind
  <2>2. QED
    BY <2>1, StepKeeps DEF EndsWithout
<1>3. QED
  BY <1>1, <1>2

(* The routes of one statement. *)
LEMMA RoutesKeep ==
  ASSUME CredInv, Detach \/ CreateProfile \/ DeleteProfile \/ UpdateSeed \/ DeleteSeed \/ CreateSeed
  PROVE  CredInv'
<1>1. bind' = bind /\ came' = came
  BY DEF Detach, CreateProfile, DeleteProfile, UpdateSeed, DeleteSeed, CreateSeed
<1>2. profiles' \subseteq profiles \cup unused /\ unused' \subseteq unused /\ profiles' \cap unused' = {}
  BY DEF Detach, CreateProfile, DeleteProfile, UpdateSeed, DeleteSeed, CreateSeed, CredInv
<1>3. links' \subseteq links
  BY DEF Detach, CreateProfile, DeleteProfile, UpdateSeed, DeleteSeed, CreateSeed
<1>4. ASSUME NEW t \in BindSessions, Running(t)'
      PROVE  links \subseteq links' \cup gone'[t] /\ gone[t] \subseteq gone'[t]
  <2>1. Running(t)
    BY <1>1, <1>4 DEF Running
  <2>2. CASE Detach
    BY <2>1, <2>2 DEF Detach
  <2>3. CASE DeleteProfile
    BY <2>1, <2>3 DEF DeleteProfile
  <2>4. CASE CreateProfile \/ UpdateSeed \/ DeleteSeed \/ CreateSeed
    BY <2>4 DEF CreateProfile, UpdateSeed, DeleteSeed, CreateSeed
  <2>5. QED
    BY <2>2, <2>3, <2>4
<1>5. \A t \in BindSessions : Running(t)' => Drifts(t)
  BY <1>1, <1>2, <1>3, <1>4 DEF Drifts, CredInv
<1>6. QED
  BY <1>1, <1>2, <1>5, DriftKeeps DEF CredInv

LEMMA CredStep ==
  ASSUME CredInv, [CredNext]_credVars
  PROVE  CredInv'
<1>1. ASSUME NEW s \in BindSessions,
             ReadLinks(s) \/ FlushLinks(s) \/ CommitBind(s) \/ BindFails(s)
      PROVE  CredInv'
  <2>1. CASE BindFails(s)
    BY <2>1, StepKeeps DEF BindFails, EndsWithout
  <2>2. QED
    BY <1>1, <2>1, ReadLinksKeeps, FlushLinksKeeps, CommitBindKeeps
<1>2. CASE UNCHANGED credVars
  <2>1. UNCHANGED <<profiles, links, bind, came, gone, unused>>
    BY <1>2 DEF credVars
  <2>2. ASSUME NEW s \in BindSessions, Running(s)'
        PROVE  TxInv(s)' /\ (s \in Writers => SetInv(s)')
    <3>1. Running(s) /\ TxInv(s) /\ (s \in Writers => SetInv(s))
      BY <2>1, <2>2 DEF CredInv, Running
    <3>2. TxInv(s)'
      BY <2>1, <3>1 DEF TxInv, Placed
    <3>3. s \in Writers => SetInv(s)'
      BY <2>1, <3>1 DEF SetInv
    <3>4. QED
      BY <3>2, <3>3
  <2>3. QED
    BY <2>1, <2>2 DEF CredInv
<1>3. Binders \subseteq BindSessions /\ Writers \subseteq BindSessions /\ Assigners \subseteq BindSessions
  BY DEF BindSessions
<1>4. CASE CredNext
  BY <1>1, <1>3, <1>4, StartsKeep, DeleteLinksKeeps, ReadSeedsKeeps, RoutesKeep DEF CredNext
<1>5. QED
  BY <1>2, <1>4

LEMMA CredInitHolds == CredInit => CredInv
BY BindingAssumption DEF CredInit, CredInv, Running

(* A PUT replaces: for any number of devices, profiles, sessions and ids    *)
(* given twice, the device then has the profiles of the body, up to what    *)
(* sessions that overlapped committed (set_device_credentials).             *)
THEOREM PutsReplace == CredSpec => SetReplaces
<1> DEFINE Puts == \A s \in Writers : CommitBind(s) =>
      \A d \in bind[s].devs, p \in profiles :
        /\ <<d, p>> \in links' => p \in Listed(bind[s].ids) \/ <<d, p>> \in came[s]
        /\ p \in Listed(bind[s].ids) => <<d, p>> \in links' \cup gone[s]
<1>1. CredInv => Puts
  <2> SUFFICES ASSUME CredInv, NEW s \in Writers, CommitBind(s),
                      NEW d \in bind[s].devs, NEW p \in profiles
               PROVE  /\ <<d, p>> \in links' => p \in Listed(bind[s].ids) \/ <<d, p>> \in came[s]
                      /\ p \in Listed(bind[s].ids) => <<d, p>> \in links' \cup gone[s]
    OBVIOUS
  <2>1. s \in BindSessions /\ s \notin Assigners /\ TxInv(s) /\ SetInv(s)
    BY BindingAssumption DEF CommitBind, CredInv, BindSessions
  <2>2. bind[s].step = "read" /\ bind[s].todo = <<>> /\ bind[s].lists = <<>>
    BY <2>1 DEF CommitBind, TxInv
  <2>3. links' = (links \ bind[s].del) \cup bind[s].ins
    BY <2>2 DEF CommitBind
  <2>4. Placed(s, d)
    BY <2>1, <2>2 DEF TxInv, Listed
  <2>5. p \in Listed(bind[s].ids) => <<d, p>> \in links' \cup gone[s]
    BY <2>3, <2>4 DEF Placed
  <2>6. ASSUME <<d, p>> \in bind[s].ins PROVE p \in Listed(bind[s].ids)
    BY <2>1, <2>6 DEF TxInv
  <2>7. ASSUME <<d, p>> \in links \ bind[s].del PROVE <<d, p>> \in came[s]
    BY <2>1, <2>2, <2>7 DEF SetInv
  <2>8. QED
    BY <2>3, <2>5, <2>6, <2>7
<1>2. QED
  BY <1>1, CredInitHolds, CredStep, PTL DEF CredSpec, SetReplaces

(* A bulk assignment that writes reaches every device and every seed, for   *)
(* any number of them and whatever overlaps with it                         *)
(* (bulk_assign_credentials).                                               *)
THEOREM AssignmentsReach == CredSpec => AssignReaches
<1> DEFINE Reaches == \A s \in Assigners :
      CommitBind(s) /\ DOMAIN bind[s].lists \subseteq DOMAIN seeds =>
        /\ \A d \in CredDevices, p \in Listed(bind[s].ids) \cap profiles :
             <<d, p>> \in links' \cup gone[s]
        /\ \A x \in DOMAIN bind[s].lists :
             seeds[x] = bind[s].lists[x] => Listed(bind[s].ids) \subseteq seeds'[x]
<1>1. CredInv => Reaches
  <2> SUFFICES ASSUME CredInv, NEW s \in Assigners, CommitBind(s),
                      DOMAIN bind[s].lists \subseteq DOMAIN seeds
               PROVE  /\ \A d \in CredDevices, p \in Listed(bind[s].ids) \cap profiles :
                           <<d, p>> \in links' \cup gone[s]
                      /\ \A x \in DOMAIN bind[s].lists :
                           seeds[x] = bind[s].lists[x] => Listed(bind[s].ids) \subseteq seeds'[x]
    OBVIOUS
  <2> DEFINE dirty == {x \in DOMAIN bind[s].lists : ~(Listed(bind[s].ids) \subseteq bind[s].lists[x])}
  <2>1. TxInv(s) /\ bind[s].step = "commit"
    BY DEF CommitBind, CredInv, BindSessions
  <2>2. dirty \subseteq DOMAIN seeds
    OBVIOUS
  <2>3. /\ links' = (links \ bind[s].del) \cup bind[s].ins
        /\ seeds' = [x \in DOMAIN seeds |-> IF x \in dirty THEN bind[s].lists[x] \cup Listed(bind[s].ids)
                                            ELSE seeds[x]]
    BY <2>2 DEF CommitBind
  <2>4. \A d \in CredDevices : Placed(s, d)
    BY <2>1 DEF TxInv, Listed
  <2>5. \A d \in CredDevices, p \in Listed(bind[s].ids) \cap profiles : <<d, p>> \in links' \cup gone[s]
    BY <2>3, <2>4 DEF Placed
  <2>6. ASSUME NEW x \in DOMAIN bind[s].lists, seeds[x] = bind[s].lists[x]
        PROVE  Listed(bind[s].ids) \subseteq seeds'[x]
    BY <2>3, <2>6
  <2>7. QED
    BY <2>5, <2>6
<1>2. QED
  BY <1>1, CredInitHolds, CredStep, PTL DEF CredSpec, AssignReaches

-----------------------------------------------------------------------------
(* Lists with gaps, and the order in which profiles are tried.              *)

Bounded(l) == \E n \in Nat : DOMAIN l \subseteq 1..n

LEMMA FirstIsLeast ==
  ASSUME NEW l, Bounded(l), DOMAIN l # {}
  PROVE  First(l) \in DOMAIN l /\ \A j \in DOMAIN l : First(l) <= j
<1>1. DOMAIN l \in SUBSET Nat
  BY DEF Bounded
<1>2. \E m \in DOMAIN l : \A k \in DOMAIN l : m <= k
  BY <1>1, LeastNatural
<1>3. QED
  BY <1>2 DEF First

LEMMA PastIsLast ==
  ASSUME NEW l, Bounded(l)
  PROVE  Past(l) \in Nat /\ \A i \in DOMAIN l : i <= Past(l)
<1> DEFINE S == {n \in Nat : \A i \in DOMAIN l : i <= n}
<1>1. PICK n \in Nat : DOMAIN l \subseteq 1..n
  BY DEF Bounded
<1>2. n \in S
  BY <1>1
<1>3. PICK m \in S : \A k \in S : m <= k
  BY <1>2, LeastNatural
<1>4. m \in {0} \cup DOMAIN l
  <2> SUFFICES ASSUME m # 0, m \notin DOMAIN l PROVE FALSE
    OBVIOUS
  <2>1. m - 1 \in Nat /\ \A i \in DOMAIN l : i <= m - 1
    BY <1>1, <1>3
  <2>2. QED
    BY <1>3, <2>1
<1>5. \E p \in {0} \cup DOMAIN l : \A i \in DOMAIN l : i <= p
  BY <1>3, <1>4
<1>6. Past(l) \in {0} \cup DOMAIN l /\ \A i \in DOMAIN l : i <= Past(l)
  BY <1>5 DEF Past
<1>7. QED
  BY <1>1, <1>6

(* Each element is kept at the first place it has. *)
LEMMA FirstsKeep ==
  ASSUME NEW l, Bounded(l)
  PROVE  /\ DOMAIN Firsts(l, l) \subseteq DOMAIN l
         /\ \A i \in DOMAIN Firsts(l, l) : Firsts(l, l)[i] = l[i]
         /\ \A i \in DOMAIN l : \E j \in DOMAIN Firsts(l, l) : j <= i /\ l[j] = l[i]
<1>1. DOMAIN Firsts(l, l) = {i \in DOMAIN l : \A j \in DOMAIN l : j < i => l[j] # l[i]}
  BY DEF Firsts
<1>2. \A i \in DOMAIN Firsts(l, l) : Firsts(l, l)[i] = l[i]
  BY DEF Firsts
<1>3. ASSUME NEW i \in DOMAIN l
      PROVE  \E j \in DOMAIN Firsts(l, l) : j <= i /\ l[j] = l[i]
  <2> DEFINE S == {j \in DOMAIN l : l[j] = l[i]}
  <2>1. S \in SUBSET Nat /\ i \in S
    BY DEF Bounded
  <2>2. PICK m \in S : \A k \in S : m <= k
    BY <2>1, LeastNatural
  <2>3. \A j \in DOMAIN l : j < m => l[j] # l[m]
    BY <2>1, <2>2 DEF Bounded
  <2>4. QED
    BY <1>1, <2>1, <2>2, <2>3
<1>4. QED
  BY <1>1, <1>2, <1>3

LEMMA JoinedFollows ==
  ASSUME NEW l, Bounded(l), NEW m, Bounded(m)
  PROVE  /\ Bounded(Joined(l, m)) /\ DOMAIN l \subseteq DOMAIN Joined(l, m)
         /\ \A i \in DOMAIN l : Joined(l, m)[i] = l[i]
         /\ \A i \in DOMAIN Joined(l, m) \ DOMAIN l :
              \E j \in DOMAIN m : i = Past(l) + j /\ Joined(l, m)[i] = m[j]
<1>1. PICK n \in Nat : DOMAIN l \subseteq 1..n
  BY DEF Bounded
<1>2. PICK k \in Nat : DOMAIN m \subseteq 1..k
  BY DEF Bounded
<1>3. Past(l) \in Nat /\ \A i \in DOMAIN l : i <= Past(l)
  BY PastIsLast
<1>4. PICK p \in Nat : p = Past(l)
  BY <1>3
<1>5. DOMAIN Joined(l, m) = DOMAIN l \cup {p + j : j \in DOMAIN m}
  BY <1>4 DEF Joined
<1>6. ASSUME NEW i \in DOMAIN Joined(l, m) PROVE i \in 1..(n + p + k)
  BY <1>1, <1>2, <1>5
<1>7. Bounded(Joined(l, m))
  <2>1. n + p + k \in Nat
    OBVIOUS
  <2>2. QED
    BY <1>6, <2>1 DEF Bounded
<1>8. \A i \in DOMAIN Joined(l, m) : Joined(l, m)[i] = IF i \in DOMAIN l THEN l[i] ELSE m[i - p]
  BY <1>4 DEF Joined
<1>9. ASSUME NEW i \in DOMAIN Joined(l, m) \ DOMAIN l
      PROVE  \E j \in DOMAIN m : i = p + j /\ Joined(l, m)[i] = m[j]
  <2>1. PICK j \in DOMAIN m : i = p + j
    BY <1>5
  <2>2. i - p = j
    BY <1>2, <2>1
  <2>3. QED
    BY <1>8, <2>1, <2>2
<1>10. QED
  BY <1>4, <1>5, <1>7, <1>8, <1>9

(* The attempt on one device. *)
RotFields == {"by", "linked", "accepts", "step", "ids", "todo", "won", "lost"}
RotTypes ==
  /\ DOMAIN rot = RotFields /\ rot.linked \in Seq(RotIds) /\ rot.lost \in BOOLEAN
  /\ rot.by \in {"discovery", "sweep"}
  /\ DOMAIN rotTable \subseteq RotIds

(* The list of a discovery begins with the profiles of the seed. *)
IdsInv ==
  /\ Bounded(rot.ids) /\ \A i \in DOMAIN rot.ids : rot.ids[i] \in RotIds
  /\ \A i \in DOMAIN rot.linked : \E j \in DOMAIN rot.ids : j <= i /\ rot.ids[j] = rot.linked[i]
  /\ \A j \in DOMAIN rot.ids : j <= Len(rot.linked) => rot.ids[j] = rot.linked[j]

(* A profile that works is still to be tried, at its place in the list or   *)
(* before it, unless an answer was lost; only the last candidate may be one *)
(* without a profile.                                                       *)
Lists(k) == k \in DOMAIN rot.ids /\ rot.todo[k].id = rot.ids[k]
TodoInv ==
  /\ Bounded(rot.todo)
  /\ \A i \in DOMAIN rot.ids : Works(rot.ids[i]) /\ ~rot.lost =>
       \E k \in DOMAIN rot.todo : k <= i /\ Lists(k) /\ rot.todo[k].cred = rot.accepts
  /\ \A k \in DOMAIN rot.todo : Lists(k) \/ \A j \in DOMAIN rot.todo : j <= k

RotInv ==
  /\ RotTypes
  /\ rot.by = "discovery" =>
       /\ rot.step # "start" => IdsInv
       /\ rot.step = "probe" => TodoInv
  /\ SeedProfileFirst

LEMMA AllIdsFollow ==
  ASSUME RotTypes
  PROVE  LET ids == AllIds(rot.linked)
         IN  /\ Bounded(ids) /\ \A i \in DOMAIN ids : ids[i] \in RotIds
             /\ \A i \in DOMAIN rot.linked : \E j \in DOMAIN ids : j <= i /\ ids[j] = rot.linked[i]
             /\ \A j \in DOMAIN ids : j <= Len(rot.linked) => ids[j] = rot.linked[j]
<1> DEFINE all == Joined(rot.linked, GlobalIds)
<1>1. RotCount \in Nat /\ RotIds = 1..RotCount
  BY RotationAssumption DEF RotIds
<1>2. DOMAIN rot.linked = 1..Len(rot.linked) /\ Len(rot.linked) \in Nat
      /\ \A i \in DOMAIN rot.linked : rot.linked[i] \in RotIds
  BY DEF RotTypes
<1>3. Bounded(rot.linked)
  BY <1>2 DEF Bounded
<1>4. DOMAIN GlobalIds \subseteq RotIds /\ \A p \in DOMAIN GlobalIds : GlobalIds[p] = p
  BY DEF GlobalIds, RotTypes
<1>5. Bounded(GlobalIds)
  BY <1>1, <1>4 DEF Bounded
<1>6. /\ Bounded(all) /\ DOMAIN rot.linked \subseteq DOMAIN all
      /\ \A i \in DOMAIN rot.linked : all[i] = rot.linked[i]
      /\ \A i \in DOMAIN all \ DOMAIN rot.linked : \E j \in DOMAIN GlobalIds : all[i] = GlobalIds[j]
  BY <1>3, <1>5, JoinedFollows
<1> HIDE DEF all
<1>7. \A i \in DOMAIN all : all[i] \in RotIds
  BY <1>2, <1>4, <1>6
<1>8. AllIds(rot.linked) = Firsts(all, all)
  BY DEF AllIds, all
<1>9. PICK ids : ids = AllIds(rot.linked)
  OBVIOUS
<1>10. /\ DOMAIN ids \subseteq DOMAIN all /\ \A i \in DOMAIN ids : ids[i] = all[i]
       /\ \A i \in DOMAIN all : \E j \in DOMAIN ids : j <= i /\ all[j] = all[i]
  BY <1>6, <1>8, <1>9, FirstsKeep
<1>11. Bounded(ids)
  BY <1>6, <1>10 DEF Bounded
<1>12. \A i \in DOMAIN rot.linked : \E j \in DOMAIN ids : j <= i /\ ids[j] = rot.linked[i]
  BY <1>6, <1>10
<1>13. \A j \in DOMAIN ids : j <= Len(rot.linked) => ids[j] = rot.linked[j]
  BY <1>2, <1>6, <1>10, <1>11 DEF Bounded
<1>14. QED
  BY <1>7, <1>9, <1>10, <1>11, <1>12, <1>13

LEMMA CandidatesFollow ==
  ASSUME NEW ids, Bounded(ids)
  PROVE  LET todo == Candidates(ids)
         IN  /\ Bounded(todo)
             /\ \A i \in DOMAIN ids : IsSnmp(ids[i]) =>
                  \E k \in DOMAIN todo : /\ k <= i /\ k \in DOMAIN ids /\ ids[k] = ids[i]
                                         /\ todo[k] = [id |-> ids[k], cred |-> rotTable[ids[k]].cred]
             /\ \A k \in DOMAIN todo : \/ k \in DOMAIN ids /\ todo[k].id = ids[k]
                                       \/ \A j \in DOMAIN todo : j <= k
<1> DEFINE distinct == Firsts(ids, ids)
<1>1. /\ DOMAIN distinct \subseteq DOMAIN ids /\ \A i \in DOMAIN distinct : distinct[i] = ids[i]
      /\ \A i \in DOMAIN ids : \E j \in DOMAIN distinct : j <= i /\ ids[j] = ids[i]
  BY FirstsKeep
<1>2. /\ DOMAIN Own(ids) = {i \in DOMAIN distinct : IsSnmp(distinct[i])}
      /\ \A i \in DOMAIN Own(ids) :
           Own(ids)[i] = [id |-> distinct[i], cred |-> rotTable[distinct[i]].cred]
  BY DEF Own
<1> HIDE DEF distinct
<1>3. PICK own : own = Own(ids)
  OBVIOUS
<1>4. /\ DOMAIN own \subseteq DOMAIN ids
      /\ \A k \in DOMAIN own : own[k] = [id |-> ids[k], cred |-> rotTable[ids[k]].cred]
      /\ \A i \in DOMAIN ids : IsSnmp(ids[i]) => \E k \in DOMAIN own : k <= i /\ ids[k] = ids[i]
  BY <1>1, <1>2, <1>3
<1>5. Bounded(own)
  BY <1>4 DEF Bounded
<1>6. CASE Candidates(ids) = own
  BY <1>4, <1>5, <1>6
<1>7. CASE Candidates(ids) = Joined(own, <<[id |-> 0, cred |-> Public]>>)
  <2>1. PICK public : public = <<[id |-> 0, cred |-> Public]>>
    OBVIOUS
  <2>2. DOMAIN public = 1..1
    BY <2>1
  <2>3. Bounded(public)
    BY <2>2 DEF Bounded
  <2>4. PICK todo : todo = Joined(own, public)
    OBVIOUS
  <2>5. /\ Bounded(todo) /\ DOMAIN own \subseteq DOMAIN todo /\ \A i \in DOMAIN own : todo[i] = own[i]
        /\ \A i \in DOMAIN todo \ DOMAIN own : i = Past(own) + 1
    BY <1>5, <2>2, <2>3, <2>4, JoinedFollows
  <2>6. Past(own) \in Nat /\ \A i \in DOMAIN own : i <= Past(own)
    BY <1>5, PastIsLast
  <2>7. \A k \in DOMAIN todo \ DOMAIN own : \A j \in DOMAIN todo : j <= k
    BY <1>5, <2>5, <2>6 DEF Bounded
  <2>8. \A k \in DOMAIN own : todo[k].id = ids[k]
    BY <1>4, <2>5
  <2>9. QED
    BY <1>4, <1>7, <2>1, <2>4, <2>5, <2>7, <2>8
<1>8. QED
  BY <1>3, <1>6, <1>7 DEF Candidates

LEMMA ReadIdsKeeps ==
  ASSUME RotInv, ReadIds
  PROVE  RotInv'
<1>1. PICK ids : ids = IF rot.by = "discovery" THEN AllIds(rot.linked) ELSE GlobalIds
  OBVIOUS
<1>2. rot.step = "start" /\ rotTable' = rotTable /\ rot' = [rot EXCEPT !.step = "ids", !.ids = ids]
  BY <1>1 DEF ReadIds
<1>3. /\ rot'.step = "ids" /\ rot'.ids = ids /\ rot'.by = rot.by /\ rot'.linked = rot.linked
      /\ rot'.lost = rot.lost /\ DOMAIN rot' = RotFields
  BY <1>2 DEF RotInv, RotTypes, RotFields
<1>4. RotTypes'
  BY <1>2, <1>3 DEF RotInv, RotTypes
<1>5. ASSUME rot.by = "discovery" PROVE IdsInv'
  <2>1. ids = AllIds(rot.linked)
    BY <1>1, <1>5
  <2>2. QED
    BY <1>3, <2>1, AllIdsFollow DEF RotInv, IdsInv
<1>6. SeedProfileFirst'
  BY <1>3 DEF SeedProfileFirst
<1>7. QED
  BY <1>3, <1>4, <1>5, <1>6 DEF RotInv

LEMMA LoadRowsKeeps ==
  ASSUME RotInv, LoadRows
  PROVE  RotInv'
<1>1. rot.step = "ids" /\ rotTable' = rotTable
  BY DEF LoadRows
<1>2. PICK todo : \E step \in {"failed", "probe"} :
        /\ rot' = [rot EXCEPT !.step = step, !.todo = todo]
        /\ rot.by = "discovery" /\ step = "probe" => todo = Candidates(rot.ids)
  <2>1. \/ rot' = [rot EXCEPT !.step = "failed"]
        \/ \E todo : /\ rot' = [rot EXCEPT !.step = "probe", !.todo = todo]
                     /\ rot.by = "discovery" => todo = Candidates(rot.ids)
    BY DEF LoadRows
  <2>2. CASE rot' = [rot EXCEPT !.step = "failed"]
    <3>1. rot' = [rot EXCEPT !.step = "failed", !.todo = rot.todo]
      BY <2>2 DEF RotInv, RotTypes, RotFields
    <3>2. QED
      BY <3>1
  <2>3. QED
    BY <2>1, <2>2
<1> PICK step \in {"failed", "probe"} :
       /\ rot' = [rot EXCEPT !.step = step, !.todo = todo]
       /\ rot.by = "discovery" /\ step = "probe" => todo = Candidates(rot.ids)
  BY <1>2
<1>3. /\ rot'.step = step /\ rot'.todo = todo /\ rot'.ids = rot.ids /\ rot'.by = rot.by
      /\ rot'.linked = rot.linked /\ rot'.lost = rot.lost /\ rot'.accepts = rot.accepts
      /\ DOMAIN rot' = RotFields
  BY DEF RotInv, RotTypes, RotFields
<1>4. RotTypes'
  BY <1>1, <1>3 DEF RotInv, RotTypes
<1>5. ASSUME rot.by = "discovery" PROVE IdsInv /\ IdsInv'
  BY <1>1, <1>3, <1>5 DEF RotInv, IdsInv
<1>6. ASSUME rot.by = "discovery", step = "probe" PROVE TodoInv'
  <2>1. todo = Candidates(rot.ids) /\ Bounded(rot.ids)
    BY <1>2, <1>5, <1>6 DEF IdsInv
  <2>2. /\ Bounded(todo)
        /\ \A i \in DOMAIN rot.ids : IsSnmp(rot.ids[i]) =>
             \E k \in DOMAIN todo : /\ k <= i /\ k \in DOMAIN rot.ids /\ rot.ids[k] = rot.ids[i]
                                    /\ todo[k] = [id |-> rot.ids[k], cred |-> rotTable[rot.ids[k]].cred]
        /\ \A k \in DOMAIN todo : \/ k \in DOMAIN rot.ids /\ todo[k].id = rot.ids[k]
                                  \/ \A j \in DOMAIN todo : j <= k
    BY <2>1, CandidatesFollow
  <2>3. ASSUME NEW i \in DOMAIN rot.ids, Works(rot.ids[i])
        PROVE  \E k \in DOMAIN todo : /\ k <= i /\ k \in DOMAIN rot.ids /\ todo[k].id = rot.ids[k]
                                      /\ todo[k].cred = rot.accepts
    <3>1. IsSnmp(rot.ids[i]) /\ rotTable[rot.ids[i]].cred = rot.accepts
      BY <2>3 DEF Works
    <3>2. PICK k \in DOMAIN todo :
            /\ k <= i /\ k \in DOMAIN rot.ids /\ rot.ids[k] = rot.ids[i]
            /\ todo[k] = [id |-> rot.ids[k], cred |-> rotTable[rot.ids[k]].cred]
      BY <2>2, <3>1
    <3>3. todo[k].id = rot.ids[k] /\ todo[k].cred = rot.accepts
      BY <3>1, <3>2
    <3>4. QED
      BY <3>2, <3>3
  <2>4. \A i \in DOMAIN rot.ids : Works(rot.ids[i])' <=> Works(rot.ids[i])
    BY <1>1, <1>3 DEF Works, IsSnmp
  <2>5. QED
    BY <1>3, <2>2, <2>3, <2>4 DEF TodoInv, Lists
<1>7. SeedProfileFirst'
  BY <1>3 DEF SeedProfileFirst
<1>8. QED
  BY <1>2, <1>3, <1>4, <1>5, <1>6, <1>7 DEF RotInv

LEMMA AnsweredKeeps ==
  ASSUME RotInv, Answered
  PROVE  RotInv'
<1> DEFINE k == First(rot.todo)
<1>1. /\ rot.step = "probe" /\ DOMAIN rot.todo # {} /\ rot.todo[k].cred = rot.accepts
      /\ rot' = [rot EXCEPT !.step = "won", !.won = rot.todo[k].id] /\ rotTable' = rotTable
  BY DEF Answered, Tries
<1>2. PICK won : won = rot.todo[k].id
  OBVIOUS
<1>3. /\ rot'.step = "won" /\ rot'.won = won /\ rot'.ids = rot.ids /\ rot'.by = rot.by
      /\ rot'.linked = rot.linked /\ rot'.lost = rot.lost /\ rot'.accepts = rot.accepts
      /\ DOMAIN rot' = RotFields
  BY <1>1, <1>2 DEF RotInv, RotTypes, RotFields
<1>4. RotTypes'
  BY <1>1, <1>3 DEF RotInv, RotTypes
<1>5. ASSUME rot.by = "discovery" PROVE IdsInv /\ TodoInv /\ IdsInv'
  BY <1>1, <1>3, <1>5 DEF RotInv, IdsInv
<1>6. ASSUME rot.by = "discovery", ~rot.lost, NEW i \in DOMAIN rot.linked, Works(rot.linked[i])
      PROVE  \E j \in 1..i : rot.linked[j] = won
  <2>1. PICK j \in DOMAIN rot.ids : j <= i /\ rot.ids[j] = rot.linked[i]
    BY <1>5, <1>6 DEF IdsInv
  <2>2. PICK m \in DOMAIN rot.todo : m <= j /\ Lists(m) /\ rot.todo[m].cred = rot.accepts
    BY <1>5, <1>6, <2>1 DEF TodoInv
  <2>3. k \in DOMAIN rot.todo /\ \A n \in DOMAIN rot.todo : k <= n
    BY <1>1, <1>5, <1>6, FirstIsLeast DEF TodoInv
  <2> HIDE DEF k
  <2>4. i \in 1..Len(rot.linked) /\ Len(rot.linked) \in Nat
    BY DEF RotInv, RotTypes
  <2>5. k \in Nat \ {0} /\ m \in Nat /\ j \in Nat
    BY <1>5, <1>6, <2>1, <2>2, <2>3 DEF TodoInv, IdsInv, Bounded
  <2>6. k <= i
    BY <2>1, <2>2, <2>3, <2>4, <2>5
  <2>7. Lists(k)
    <3>1. CASE \A n \in DOMAIN rot.todo : n <= k
      <4>1. m = k
        BY <2>2, <2>3, <2>5, <3>1
      <4>2. QED
        BY <2>2, <4>1
    <3>2. QED
      BY <1>5, <1>6, <2>3, <3>1 DEF TodoInv
  <2>8. rot.ids[k] = rot.linked[k] /\ won = rot.ids[k]
    BY <1>2, <1>5, <1>6, <2>4, <2>5, <2>6, <2>7 DEF IdsInv, Lists
  <2>9. QED
    BY <2>4, <2>5, <2>6, <2>8
<1>7. SeedProfileFirst'
  <2>1. \A p : Works(p)' <=> Works(p)
    BY <1>1, <1>3 DEF Works, IsSnmp
  <2>2. QED
    BY <1>3, <1>6, <2>1 DEF SeedProfileFirst
<1>8. QED
  BY <1>3, <1>4, <1>5, <1>7 DEF RotInv

LEMMA SilentKeeps ==
  ASSUME RotInv, Silent
  PROVE  RotInv'
<1>1. PICK k : k = First(rot.todo)
  OBVIOUS
<1>2. PICK todo, missed : todo = Popped(rot.todo) /\ missed = (rot.lost \/ rot.todo[k].cred = rot.accepts)
  OBVIOUS
<1>3. /\ rot.step = "probe" /\ rot' = [rot EXCEPT !.todo = todo, !.lost = missed] /\ rotTable' = rotTable
  BY <1>1, <1>2 DEF Silent, Tries
<1>4. /\ rot'.step = "probe" /\ rot'.todo = todo /\ rot'.ids = rot.ids /\ rot'.by = rot.by
      /\ rot'.linked = rot.linked /\ rot'.lost = missed /\ rot'.accepts = rot.accepts
      /\ DOMAIN rot' = RotFields
  BY <1>3 DEF RotInv, RotTypes, RotFields
<1>5. RotTypes'
  BY <1>2, <1>3, <1>4 DEF RotInv, RotTypes
<1>6. ASSUME rot.by = "discovery" PROVE IdsInv /\ TodoInv /\ IdsInv'
  BY <1>3, <1>4, <1>6 DEF RotInv, IdsInv
<1>7. DOMAIN todo = DOMAIN rot.todo \ {k} /\ \A i \in DOMAIN todo : todo[i] = rot.todo[i]
  BY <1>1, <1>2 DEF Popped
<1>8. ASSUME rot.by = "discovery" PROVE TodoInv'
  <2>1. TodoInv
    BY <1>6, <1>8
  <2>2. Bounded(todo)
    BY <1>7, <2>1 DEF TodoInv, Bounded
  <2>3. \A i \in DOMAIN todo : Lists(i)' <=> Lists(i)
    BY <1>4, <1>7 DEF Lists
  <2>4. ASSUME NEW i \in DOMAIN rot.ids, Works(rot.ids[i]), ~missed
        PROVE  \E n \in DOMAIN todo : n <= i /\ Lists(n)' /\ todo[n].cred = rot.accepts
    <3>1. ~rot.lost /\ rot.todo[k].cred # rot.accepts
      BY <1>2, <2>4
    <3>2. PICK n \in DOMAIN rot.todo : n <= i /\ Lists(n) /\ rot.todo[n].cred = rot.accepts
      BY <2>1, <2>4, <3>1 DEF TodoInv
    <3>3. QED
      BY <1>7, <2>3, <3>1, <3>2
  <2>5. \A i \in DOMAIN rot.ids : Works(rot.ids[i])' <=> Works(rot.ids[i])
    BY <1>3, <1>4 DEF Works, IsSnmp
  <2>6. \A n \in DOMAIN todo : Lists(n)' \/ \A j \in DOMAIN todo : j <= n
    BY <1>7, <2>1, <2>3 DEF TodoInv
  <2>7. QED
    BY <1>4, <2>2, <2>4, <2>5, <2>6 DEF TodoInv
<1>9. SeedProfileFirst'
  BY <1>4 DEF SeedProfileFirst
<1>10. QED
  BY <1>4, <1>5, <1>6, <1>8, <1>9 DEF RotInv

LEMMA NothingAnswersKeeps ==
  ASSUME RotInv, NothingAnswers
  PROVE  RotInv'
<1>1. /\ rot.step = "probe" /\ DOMAIN rot.todo = {} /\ rot' = [rot EXCEPT !.step = "none"]
      /\ rotTable' = rotTable
  BY DEF NothingAnswers
<1>2. /\ rot'.step = "none" /\ rot'.ids = rot.ids /\ rot'.by = rot.by
      /\ rot'.linked = rot.linked /\ rot'.lost = rot.lost /\ rot'.accepts = rot.accepts
      /\ DOMAIN rot' = RotFields
  BY <1>1 DEF RotInv, RotTypes, RotFields
<1>3. RotTypes'
  BY <1>1, <1>2 DEF RotInv, RotTypes
<1>4. ASSUME rot.by = "discovery" PROVE IdsInv' /\ TodoInv
  BY <1>1, <1>2, <1>4 DEF RotInv, IdsInv
<1>5. SeedProfileFirst'
  <2>1. \A p : Works(p)' <=> Works(p)
    BY <1>1, <1>2 DEF Works, IsSnmp
  <2>2. rot.by = "discovery" /\ ~rot.lost => \A i \in DOMAIN rot.ids : ~Works(rot.ids[i])
    BY <1>1, <1>4 DEF TodoInv
  <2>3. QED
    BY <1>2, <2>1, <2>2 DEF SeedProfileFirst
<1>6. QED
  BY <1>2, <1>3, <1>4, <1>5 DEF RotInv

LEMMA RotDeleteKeeps ==
  ASSUME RotInv, RotDelete
  PROVE  RotInv'
<1>1. rot' = rot /\ rot.step \in {"start", "ids"} /\ DOMAIN rotTable' \subseteq DOMAIN rotTable
  BY DEF RotDelete
<1>2. RotTypes'
  BY <1>1 DEF RotInv, RotTypes
<1>3. QED
  BY <1>1, <1>2 DEF RotInv, IdsInv, SeedProfileFirst

(* Discovery tries the profiles of the seed first and in their order, and   *)
(* none that works is left out, for any profiles, lists and deletions       *)
(* (discovery_profile_ids, load_profile_candidates, _fingerprint).          *)
THEOREM SeedProfilesFirst == RotSpec => []SeedProfileFirst
<1>1. RotInit => RotInv
  <2> SUFFICES ASSUME RotInit PROVE RotInv
    OBVIOUS
  <2>1. /\ DOMAIN rot = RotFields /\ rot.by \in {"discovery", "sweep"} /\ rot.linked \in RotLists
        /\ rot.step = "start" /\ rot.lost = FALSE /\ DOMAIN rotTable = RotIds
    BY DEF RotInit, RotFields
  <2>2. QED
    BY <2>1, RotationAssumption DEF RotInv, RotTypes, SeedProfileFirst
<1>2. RotInv /\ [RotNext]_rotVars => RotInv'
  <2>1. RotInv /\ UNCHANGED rotVars => RotInv'
    BY DEF rotVars, RotInv, RotTypes, IdsInv, TodoInv, Lists, Works, IsSnmp, SeedProfileFirst
  <2>2. QED
    BY <2>1, ReadIdsKeeps, LoadRowsKeeps, AnsweredKeeps, SilentKeeps, NothingAnswersKeeps, RotDeleteKeeps
    DEF RotNext
<1>3. RotInv => SeedProfileFirst
  BY DEF RotInv
<1>4. QED
  BY <1>1, <1>2, <1>3, PTL DEF RotSpec

-----------------------------------------------------------------------------
(* Installation: what the scripts and the containers keep, for any number   *)
(* of releases, generated secrets and deaths.                               *)

EnvFile == [keys : Nat, tag : Nat]
Stages == {"absent", "starting", "patched", "serving"}
Container == [at : Stages, version : Nat, keys : Nat, own : Nat]
Steps == {"idle", "done", "prepare", "adopt", "clone", "restore", "env", "fill",
          "databases", "tag", "build", "workers", "wait"}
Script == [by : {"none", "install", "update"}, at : Steps]

DeployTypeOK ==
  /\ upstream \in Nat /\ head \in Nat /\ schema \in Nat /\ fresh \in Nat
  /\ env \in EnvFile \cup {NoEnv} /\ aside \in EnvFile \cup {NoEnv}
  /\ script \in Script
  /\ api \in Container /\ worker \in Container
  /\ torn \in BOOLEAN /\ lost \in BOOLEAN

(* .env is where the step of the script says. *)
WhereEnvIs ==
  /\ aside # NoEnv => On("clone") \/ On("restore")
  /\ On("clone") \/ On("restore") => env = NoEnv
  /\ On("fill") \/ On("databases") \/ On("tag") \/ On("build") \/ On("workers") \/ On("wait") =>
       env # NoEnv
ApiUp == api.at = "patched" \/ api.at = "serving"

(* The secrets k are those of everything that exists; and nothing exists    *)
(* that would need secrets.                                                 *)
Opens(k) ==
  /\ k # 0 /\ (db = NoDb \/ db = k) /\ secrets \subseteq {k}
  /\ api.at # "absent" => api.keys = k
  /\ ApiUp => api.own = k
  /\ worker.at = "serving" => worker.own = k
Bare == db = NoDb /\ secrets = {} /\ api.at = "absent" /\ worker.at # "serving"

KeysInv ==
  ~torn /\ ~lost =>
    /\ On("fill") => Bare
    /\ ~On("fill") /\ env # NoEnv => Opens(env.keys)
    /\ env = NoEnv /\ aside # NoEnv => Opens(aside.keys)
    /\ env = NoEnv /\ aside = NoEnv => Bare

(* What each step of a rebuild may rely on. *)
ReleaseInv ==
  /\ On("build") \/ On("workers") \/ On("wait") => env.tag = head
  /\ On("workers") \/ On("wait") \/ On("done") => api.version = head
  /\ On("wait") \/ On("done") => worker.version = head
  /\ ApiUp => schema >= api.version
  /\ api.at = "serving" => DefaultsOf(api.version) \subseteq defaults \cup deleted
  /\ On("done") => schema >= head

-----------------------------------------------------------------------------
LEMMA EnvFacts ==
  ASSUME NEW e \in EnvFile, NEW n \in Nat
  PROVE  /\ e # NoEnv /\ e.keys \in Nat /\ e.tag \in Nat
         /\ [e EXCEPT !.keys = n] \in EnvFile /\ [e EXCEPT !.keys = n].keys = n
         /\ [e EXCEPT !.tag = n] \in EnvFile /\ [e EXCEPT !.tag = n].tag = n
         /\ [e EXCEPT !.tag = n].keys = e.keys
BY DeployAssumption DEF EnvFile

LEMMA ContainerFacts ==
  ASSUME NEW c \in Container, NEW a \in Stages, NEW n \in Nat, NEW k \in Nat
  PROVE  /\ c.at \in Stages /\ c.version \in Nat /\ c.keys \in Nat /\ c.own \in Nat
         /\ [at |-> a, version |-> n, keys |-> k, own |-> 0] \in Container
         /\ LET d == [c EXCEPT !.at = a, !.own = n]
            IN  d \in Container /\ d.at = a /\ d.own = n /\ d.version = c.version /\ d.keys = c.keys
         /\ LET d == [c EXCEPT !.at = a]
            IN  d \in Container /\ d.at = a /\ d.own = c.own /\ d.version = c.version /\ d.keys = c.keys
BY DEF Container

LEMMA ScriptFacts ==
  ASSUME NEW s \in Script, NEW a \in Steps
  PROVE  /\ s.at \in Steps /\ [s EXCEPT !.at = a] \in Script /\ [s EXCEPT !.at = a].at = a
         /\ [by |-> "install", at |-> a] \in Script /\ [by |-> "update", at |-> a] \in Script
BY DEF Script

LEMMA InitHolds == DeployInit => DeployTypeOK /\ WhereEnvIs /\ KeysInv /\ ReleaseInv
<1> SUFFICES ASSUME DeployInit PROVE DeployTypeOK /\ WhereEnvIs /\ KeysInv /\ ReleaseInv
  OBVIOUS
<1> USE DEF DeployInit, On
<1>1. api = NoContainer /\ worker = NoContainer /\ NoContainer \in Container /\ NoContainer.at = "absent"
  BY DEF NoContainer, Container, Stages
<1>2. script \in Script /\ script.at = "idle" BY DEF Script, Steps
<1>3. \/ env = NoEnv /\ db = NoDb /\ secrets = {}
      \/ env \in EnvFile /\ env # NoEnv /\ env.keys = 1 /\ db = 1 /\ secrets = {1}
  <2>1. [keys |-> 1, tag |-> 1] \in EnvFile /\ [keys |-> 1, tag |-> 1].keys = 1 BY DEF EnvFile
  <2>2. [keys |-> 1, tag |-> 1] # NoEnv BY <2>1, EnvFacts
  <2> QED BY <2>1, <2>2
<1>4. DeployTypeOK
  <2>1. env \in EnvFile \cup {NoEnv} BY <1>3
  <2>2. fresh \in Nat OBVIOUS
  <2> QED BY <1>1, <1>2, <2>1, <2>2 DEF DeployTypeOK
<1>5. WhereEnvIs BY <1>2 DEF WhereEnvIs
<1>6. KeysInv BY <1>1, <1>2, <1>3 DEF KeysInv, Opens, Bare, ApiUp
<1>7. ReleaseInv BY <1>1, <1>2 DEF ReleaseInv, ApiUp
<1> QED BY <1>4, <1>5, <1>6, <1>7

LEMMA TypeKept == DeployTypeOK /\ WhereEnvIs /\ [DeployNext]_deployVars => DeployTypeOK' /\ WhereEnvIs'
<1> SUFFICES ASSUME DeployTypeOK, WhereEnvIs, [DeployNext]_deployVars
             PROVE  DeployTypeOK' /\ WhereEnvIs'
  OBVIOUS
<1>a. \A a \in Steps : [script EXCEPT !.at = a] \in Script /\ [script EXCEPT !.at = a].at = a
  BY ScriptFacts DEF DeployTypeOK
<1>b. \A e \in EnvFile, n \in Nat :
        /\ e # NoEnv /\ [e EXCEPT !.keys = n] \in EnvFile /\ [e EXCEPT !.tag = n] \in EnvFile
  BY EnvFacts
<1>c. \A c \in Container, a \in Stages, n \in Nat :
        [c EXCEPT !.at = a] \in Container /\ [c EXCEPT !.at = a, !.own = n] \in Container
  BY ContainerFacts
<1> USE DEF DeployTypeOK, WhereEnvIs, Steps, Stages, On, To, Rest, Runs, disk, data, containers, faults
<1>1. CASE Release BY <1>1 DEF Release
<1>2. CASE Begin("install") \/ Begin("update")
  <2>1. CASE Begin("install") BY <2>1, ScriptFacts DEF Begin
  <2>2. CASE Begin("update") BY <2>2, ScriptFacts DEF Begin
  <2> QED BY <1>2, <2>1, <2>2
<1>3. CASE SyncCheckout \/ CopyLocal \/ Adopt
  <2>1. CASE SyncCheckout BY <2>1, <1>a DEF SyncCheckout
  <2>2. CASE CopyLocal BY <2>2, <1>a DEF CopyLocal
  <2>3. CASE Adopt BY <2>3, <1>a DEF Adopt
  <2> QED BY <1>3, <2>1, <2>2, <2>3
<1>4. CASE Clone \/ ContinueWithFiles
  <2>1. CASE Clone BY <2>1, <1>a DEF Clone
  <2>2. CASE ContinueWithFiles BY <2>2, <1>a DEF ContinueWithFiles
  <2> QED BY <1>4, <2>1, <2>2
<1>5. CASE PutAside \/ CloneAgain \/ PutBack
  <2>1. CASE PutAside BY <2>1, <1>a DEF PutAside
  <2>2. CASE CloneAgain BY <2>2, <1>a DEF CloneAgain
  <2>3. CASE PutBack BY <2>3, <1>a DEF PutBack
  <2> QED BY <1>5, <2>1, <2>2, <2>3
<1>6. CASE CreateEnv
  <2>1. [keys |-> 0, tag |-> 0] \in EnvFile BY DEF EnvFile
  <2> QED BY <1>6, <2>1, <1>a, <1>b DEF CreateEnv, NeedsEnv
<1>7. CASE FillEnv
  <2>1. fresh + 1 \in Nat /\ env \in EnvFile BY <1>7 DEF FillEnv
  <2>2. env' \in EnvFile /\ env' # NoEnv BY <1>7, <2>1, <1>b DEF FillEnv
  <2> QED BY <1>7, <2>1, <2>2, <1>a DEF FillEnv
<1>8. CASE KeepEnv BY <1>8, <1>a DEF KeepEnv, NeedsEnv
<1>9. CASE StartDataPlane BY <1>9, <1>a DEF StartDataPlane
<1>10. CASE WriteTag BY <1>10, <1>a, <1>b DEF WriteTag
<1>11. CASE RecreateApi
  <2>1. env.tag \in Nat /\ env.keys \in Nat BY <1>11, EnvFacts DEF RecreateApi
  <2>2. Made \in Container BY <2>1 DEF Made, Container, Stages
  <2> QED BY <1>11, <2>2, <1>a DEF RecreateApi
<1>12. CASE RecreateWorker
  <2>1. env.tag \in Nat /\ env.keys \in Nat BY <1>12, EnvFacts DEF RecreateWorker
  <2>2. Made \in Container BY <2>1 DEF Made, Container, Stages
  <2>3. [Made EXCEPT !.at = "serving", !.own = env.keys] \in Container BY <2>1, <2>2, <1>c
  <2> QED BY <1>12, <2>3, <1>a DEF RecreateWorker
<1>13. CASE Complete BY <1>13, <1>a DEF Complete
<1>14. CASE Stops BY <1>14, <1>a DEF Stops
<1>15. CASE PatchSchema
  <2>1. api.keys \in Nat /\ api.version \in Nat BY ContainerFacts
  <2>2. OwnKey \in Nat BY <2>1 DEF OwnKey
  <2> QED BY <1>15, <2>1, <2>2, <1>c DEF PatchSchema
<1>16. CASE SeedDefaults BY <1>16, <1>c DEF SeedDefaults
<1>17. CASE ApiDies BY <1>17, <1>c DEF ApiDies
<1>18. CASE SaveProfile \/ DeleteDefault
  <2>1. CASE SaveProfile BY <2>1, <1>a DEF SaveProfile
  <2>2. CASE DeleteDefault BY <2>2, <1>a DEF DeleteDefault
  <2> QED BY <1>18, <2>1, <2>2
<1>19. CASE UNCHANGED deployVars BY <1>19 DEF deployVars
<1> QED BY <1>1, <1>2, <1>3, <1>4, <1>5, <1>6, <1>7, <1>8, <1>9, <1>10, <1>11, <1>12, <1>13,
           <1>14, <1>15, <1>16, <1>17, <1>18, <1>19 DEF DeployNext

LEMMA KeysKept == DeployTypeOK /\ WhereEnvIs /\ KeysInv /\ [DeployNext]_deployVars => KeysInv'
<1> SUFFICES ASSUME DeployTypeOK, WhereEnvIs, KeysInv, [DeployNext]_deployVars, ~torn', ~lost'
             PROVE  KeysInv'
  BY DEF KeysInv
<1>a. \A a \in Steps : [script EXCEPT !.at = a].at = a BY ScriptFacts DEF DeployTypeOK
<1>b. \A e \in EnvFile, n \in Nat :
        /\ e # NoEnv /\ [e EXCEPT !.keys = n].keys = n
        /\ [e EXCEPT !.tag = n].tag = n /\ [e EXCEPT !.tag = n].keys = e.keys
  BY EnvFacts
<1>c. \A c \in Container, a \in Stages, n \in Nat :
        LET d == [c EXCEPT !.at = a, !.own = n]
        IN  d.at = a /\ d.own = n /\ d.version = c.version /\ d.keys = c.keys
  BY DEF Container
<1>d. \A c \in Container, a \in Stages :
        LET d == [c EXCEPT !.at = a]
        IN  d.at = a /\ d.own = c.own /\ d.version = c.version /\ d.keys = c.keys
  BY DEF Container
<1> USE DEF WhereEnvIs, KeysInv, Opens, Bare, ApiUp, Steps, Stages, On, To, Rest, Runs,
        disk, data, containers, faults, DeployTypeOK
<1>1. CASE Release BY <1>1 DEF Release
<1>2. CASE Begin("install") \/ Begin("update")
  <2>1. CASE Begin("install") BY <2>1, <1>a DEF Begin
  <2>2. CASE Begin("update") BY <2>2, <1>a DEF Begin
  <2> QED BY <1>2, <2>1, <2>2
<1>3. CASE SyncCheckout \/ CopyLocal \/ Adopt
  <2>1. CASE SyncCheckout BY <2>1, <1>a DEF SyncCheckout
  <2>2. CASE CopyLocal BY <2>2, <1>a DEF CopyLocal
  <2>3. CASE Adopt BY <2>3, <1>a DEF Adopt
  <2> QED BY <1>3, <2>1, <2>2, <2>3
<1>4. CASE Clone \/ ContinueWithFiles
  <2>1. CASE Clone BY <2>1, <1>a DEF Clone
  <2>2. CASE ContinueWithFiles BY <2>2, <1>a DEF ContinueWithFiles
  <2> QED BY <1>4, <2>1, <2>2
<1>5. CASE PutAside \/ CloneAgain \/ PutBack
  <2>1. CASE PutAside BY <2>1, <1>a DEF PutAside
  <2>2. CASE CloneAgain BY <2>2, <1>a DEF CloneAgain
  <2>3. CASE PutBack BY <2>3, <1>a DEF PutBack
  <2> QED BY <1>5, <2>1, <2>2, <2>3
<1>6. CASE CreateEnv BY <1>6, <1>a, <1>b DEF CreateEnv, NeedsEnv
<1>7. CASE FillEnv
  <2>1. env.keys' = fresh + 1 /\ fresh + 1 # 0 BY <1>7, <1>b DEF FillEnv
  <2> QED BY <1>7, <2>1, <1>a DEF FillEnv
<1>8. CASE KeepEnv BY <1>8, <1>a DEF KeepEnv, NeedsEnv
<1>9. CASE StartDataPlane BY <1>9, <1>a DEF StartDataPlane
<1>10. CASE WriteTag
  <2>1. env.keys' = env.keys BY <1>10, <1>b DEF WriteTag
  <2>2. env' # NoEnv BY <1>10, EnvFacts DEF WriteTag
  <2> QED BY <1>10, <2>1, <2>2, <1>a DEF WriteTag
<1>11. CASE RecreateApi BY <1>11, <1>a DEF RecreateApi, Made
<1>12. CASE RecreateWorker BY <1>12, <1>a, <1>c DEF RecreateWorker, Made
<1>13. CASE Complete BY <1>13, <1>a DEF Complete
<1>14. CASE Stops BY <1>14, <1>a DEF Stops
<1>15. CASE PatchSchema BY <1>15, <1>c DEF PatchSchema, OwnKey
<1>16. CASE SeedDefaults BY <1>16, <1>c, <1>d DEF SeedDefaults
<1>17. CASE ApiDies BY <1>17, <1>c DEF ApiDies
<1>18. CASE SaveProfile \/ DeleteDefault
  <2>1. CASE SaveProfile BY <2>1 DEF SaveProfile
  <2>2. CASE DeleteDefault BY <2>2 DEF DeleteDefault
  <2> QED BY <1>18, <2>1, <2>2
<1>19. CASE UNCHANGED deployVars BY <1>19 DEF deployVars
<1> QED BY <1>1, <1>2, <1>3, <1>4, <1>5, <1>6, <1>7, <1>8, <1>9, <1>10, <1>11, <1>12, <1>13,
           <1>14, <1>15, <1>16, <1>17, <1>18, <1>19 DEF DeployNext

LEMMA ReleaseKept ==
  DeployTypeOK /\ WhereEnvIs /\ ReleaseInv /\ [DeployNext]_deployVars => ReleaseInv'
<1> SUFFICES ASSUME DeployTypeOK, WhereEnvIs, ReleaseInv, [DeployNext]_deployVars
             PROVE  ReleaseInv'
  OBVIOUS
<1>a. \A a \in Steps : [script EXCEPT !.at = a].at = a BY ScriptFacts DEF DeployTypeOK
<1>b. \A e \in EnvFile, n \in Nat :
        /\ e # NoEnv /\ [e EXCEPT !.keys = n].keys = n
        /\ [e EXCEPT !.tag = n].tag = n /\ [e EXCEPT !.tag = n].keys = e.keys
  BY EnvFacts
<1>c. \A c \in Container, a \in Stages, n \in Nat :
        LET d == [c EXCEPT !.at = a, !.own = n]
        IN  d.at = a /\ d.own = n /\ d.version = c.version /\ d.keys = c.keys
  BY DEF Container
<1>d. \A c \in Container, a \in Stages :
        LET d == [c EXCEPT !.at = a]
        IN  d.at = a /\ d.own = c.own /\ d.version = c.version /\ d.keys = c.keys
  BY DEF Container
<1> USE DEF DeployTypeOK, ReleaseInv, ApiUp, Steps, Stages, On, To, Rest, Runs,
        disk, data, containers, faults
<1>1. CASE Release BY <1>1 DEF Release
<1>2. CASE Begin("install") \/ Begin("update")
  <2>1. CASE Begin("install") BY <2>1, <1>a DEF Begin
  <2>2. CASE Begin("update") BY <2>2, <1>a DEF Begin
  <2> QED BY <1>2, <2>1, <2>2
<1>3. CASE SyncCheckout \/ CopyLocal \/ Adopt
  <2>1. CASE SyncCheckout BY <2>1, <1>a DEF SyncCheckout
  <2>2. CASE CopyLocal BY <2>2, <1>a DEF CopyLocal
  <2>3. CASE Adopt BY <2>3, <1>a DEF Adopt
  <2> QED BY <1>3, <2>1, <2>2, <2>3
<1>4. CASE Clone \/ ContinueWithFiles
  <2>1. CASE Clone BY <2>1, <1>a DEF Clone
  <2>2. CASE ContinueWithFiles BY <2>2, <1>a DEF ContinueWithFiles
  <2> QED BY <1>4, <2>1, <2>2
<1>5. CASE PutAside \/ CloneAgain \/ PutBack
  <2>1. CASE PutAside BY <2>1, <1>a DEF PutAside
  <2>2. CASE CloneAgain BY <2>2, <1>a DEF CloneAgain
  <2>3. CASE PutBack BY <2>3, <1>a DEF PutBack
  <2> QED BY <1>5, <2>1, <2>2, <2>3
<1>6. CASE CreateEnv BY <1>6, <1>a, <1>b DEF CreateEnv
<1>7. CASE FillEnv BY <1>7, <1>a, <1>b DEF FillEnv
<1>8. CASE KeepEnv BY <1>8, <1>a DEF KeepEnv
<1>9. CASE StartDataPlane BY <1>9, <1>a DEF StartDataPlane
<1>10. CASE WriteTag BY <1>10, <1>a, <1>b DEF WriteTag, WhereEnvIs
<1>11. CASE RecreateApi BY <1>11, <1>a DEF RecreateApi, Made
<1>12. CASE RecreateWorker BY <1>12, <1>a, <1>c DEF RecreateWorker, Made
<1>13. CASE Complete BY <1>13, <1>a DEF Complete
<1>14. CASE Stops BY <1>14, <1>a DEF Stops
<1>15. CASE PatchSchema
  <2>1. api.keys \in Nat /\ api.version \in Nat BY DEF Container
  <2>2. api'.version = api.version /\ api'.at = "patched"
    BY <1>15, <2>1, <1>c DEF PatchSchema, OwnKey
  <2>3. schema' \in Nat /\ schema' >= schema /\ schema' >= api.version BY <1>15, <2>1 DEF PatchSchema
  <2> QED BY <1>15, <2>1, <2>2, <2>3 DEF PatchSchema
<1>16. CASE SeedDefaults BY <1>16, <1>c, <1>d DEF SeedDefaults
<1>17. CASE ApiDies BY <1>17, <1>c DEF ApiDies
<1>18. CASE SaveProfile \/ DeleteDefault
  <2>1. CASE SaveProfile BY <2>1 DEF SaveProfile
  <2>2. CASE DeleteDefault BY <2>2 DEF DeleteDefault
  <2> QED BY <1>18, <2>1, <2>2
<1>19. CASE UNCHANGED deployVars BY <1>19 DEF deployVars
<1> QED BY <1>1, <1>2, <1>3, <1>4, <1>5, <1>6, <1>7, <1>8, <1>9, <1>10, <1>11, <1>12, <1>13,
           <1>14, <1>15, <1>16, <1>17, <1>18, <1>19 DEF DeployNext

-----------------------------------------------------------------------------
(* However often scripts are killed and run again and the API restarts,     *)
(* what they have is opened by one .env, unless a script died while .env    *)
(* was aside or empty.                                                      *)
THEOREM SecretsStayReadable == DeploySpec => []SecretsReadable
<1>1. DeployTypeOK /\ KeysInv => SecretsReadable
  BY DEF DeployTypeOK, KeysInv, SecretsReadable, Opens, Bare, ApiUp, On
<1> QED BY <1>1, InitHolds, TypeKept, KeysKept, PTL DEF DeploySpec

(* A script that says it is complete has left the release it fetched        *)
(* running, on its schema and with its defaults.                            *)
THEOREM CompleteMeansCurrent == DeploySpec => []CompleteIsCurrent
<1>1. ReleaseInv => CompleteIsCurrent
  BY DEF ReleaseInv, CompleteIsCurrent, On, DefaultsOf
<1> QED BY <1>1, InitHolds, TypeKept, ReleaseKept, PTL DEF DeploySpec
=============================================================================
