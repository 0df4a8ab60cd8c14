---------------------------- MODULE TokenRotation ----------------------------
(* Login, refresh, logout and the check of an access token.                 *)
(*                                                                          *)
(* A request is a session at READ COMMITTED: it reads the refresh token,    *)
(* the user and the roles in statements of their own, makes the two tokens  *)
(* and writes everything at its commit.  Nothing locks the token row while  *)
(* it is checked.  Access tokens are not stored: they carry roles and       *)
(* permissions and are good until they expire.                              *)
EXTENDS Naturals, FiniteSets

CONSTANTS
  AuthUsers,      \* users, made by bootstrap or by hand
  AuthRequests,   \* concurrent requests
  AccessTtl,      \* access_token_ttl_seconds
  RefreshTtl,     \* refresh_token_ttl_seconds
  MaxTokens,      \* bound: refresh tokens
  MaxLogins,      \* bound: of them, made by a login
  MaxAuthTime,    \* bound: the clock
  NoToken         \* the parent of a token made by a login

ASSUME AuthAssumption ==
  /\ AccessTtl \in Nat /\ RefreshTtl \in Nat /\ AccessTtl < RefreshTtl
  /\ MaxTokens \in Nat /\ MaxLogins \in Nat /\ MaxAuthTime \in Nat /\ NoToken \notin 1..MaxTokens

(* rbac.py: the permissions of the three roles. *)
Permissions == {"inventory:read", "topology:read", "discovery:read", "discovery:write",
  "snapshots:read", "ipam:read", "ipam:write", "monitoring:read", "observability:read",
  "observability:write", "export:write", "credentials:read", "credentials:write",
  "users:write", "audit:read", "system:read"}
RolePermissions ==
  [viewer   |-> {"inventory:read", "topology:read", "discovery:read", "snapshots:read",
                 "ipam:read", "monitoring:read", "observability:read", "system:read"},
   operator |-> Permissions \ {"users:write", "audit:read"},
   admin    |-> Permissions]
RoleNames == DOMAIN RolePermissions
PermissionsOf(roles) == UNION {RolePermissions[r] : r \in roles}

VARIABLES
  now,      \* the clock
  active,   \* is_active of each user
  grants,   \* the roles of each user, in user_roles
  regrant,  \* history: when the roles of each user were last changed
  tokens,   \* rows of refresh_tokens, by jti
  access,   \* history: the access tokens in the hands of clients
  req       \* where each request is

authVars == <<now, active, grants, regrant, tokens, access, req>>

Idle == [at |-> "idle"]
Known == DOMAIN tokens

AuthInit ==
  /\ now = 0
  /\ active = [u \in AuthUsers |-> TRUE]
  /\ grants = [u \in AuthUsers |-> {"admin"}]
  /\ regrant = [u \in AuthUsers |-> 0]
  /\ tokens = [t \in {} |-> NoToken]
  /\ access = {}
  /\ req = [r \in AuthRequests |-> Idle]

Same == UNCHANGED <<now, active, grants, regrant>>
Refuse(r) == req' = [req EXCEPT ![r] = Idle] /\ UNCHANGED <<tokens, access>> /\ Same

\* Mutant: the access token gets the lifetime of the refresh token.
MintLong(u) == [user |-> u, roles |-> grants[u], perms |-> PermissionsOf(grants[u]),
                exp |-> now + RefreshTtl]

(* create_access_token: roles and permissions as they are now. *)
MintAccess(u) == [user |-> u, roles |-> grants[u], perms |-> PermissionsOf(grants[u]),
                  exp |-> now + AccessTtl]

(* login: the user is read and must be active. *)
LoginUser(r) ==
  /\ req[r] = Idle /\ Cardinality({t \in Known : tokens[t].parent = NoToken}) < MaxLogins
  /\ \E u \in AuthUsers :
       /\ active[u]
       /\ req' = [req EXCEPT ![r] = [at |-> "user", user |-> u, parent |-> NoToken, seen |-> Known]]
  /\ UNCHANGED <<tokens, access>> /\ Same

\* Mutant: a revoked token passes.
UsableOnce(t) == now < tokens[t].exp

(* refresh: the token has not expired (a JWT is good before its exp, the row *)
(* until then), and the row exists and is not revoked.                      *)
Usable(t) == ~tokens[t].revoked /\ now < tokens[t].exp

RefreshSelect(r) ==
  /\ req[r] = Idle
  /\ \E t \in Known :
       /\ Usable(t)
       /\ req' = [req EXCEPT ![r] = [at |-> "select", user |-> tokens[t].user,
                                     parent |-> t, seen |-> Known]]
  /\ UNCHANGED <<tokens, access>> /\ Same

(* The user of the token; an inactive one ends the request, and the         *)
(* revocation of the token, not yet committed, is rolled back.              *)
RefreshUser(r) ==
  /\ req[r].at = "select"
  /\ IF active[req[r].user]
     THEN /\ req' = [req EXCEPT ![r] = [at |-> "user", user |-> @.user, parent |-> @.parent,
                                          seen |-> @.seen]]
          /\ UNCHANGED <<tokens, access>> /\ Same
     ELSE Refuse(r)

(* Roles are read and both tokens made. *)
MakeTokens(r) ==
  /\ req[r].at = "user"
  /\ LET q == req[r] IN
     req' = [req EXCEPT ![r] = [at |-> "made", user |-> q.user, parent |-> q.parent,
                                seen |-> q.seen, access |-> MintAccess(q.user),
                                exp |-> now + RefreshTtl]]
  /\ UNCHANGED <<tokens, access>> /\ Same

(* The commit inserts the new row and, for a refresh, revokes the old one;  *)
(* an UPDATE of revoked_at overwrites one that another request committed.   *)
Commit(r) ==
  /\ req[r].at = "made" /\ Cardinality(Known) < MaxTokens
  /\ LET q == req[r]
         new == Cardinality(Known) + 1
         row == [user |-> q.user, exp |-> q.exp, revoked |-> FALSE,
                 parent |-> q.parent, seen |-> q.seen]
     IN  /\ tokens' = [t \in Known \cup {new} |->
                         IF t = new THEN row
                         ELSE [tokens[t] EXCEPT !.revoked = @ \/ t = q.parent]]
         /\ access' = access \cup {q.access}
  /\ req' = [req EXCEPT ![r] = Idle]
  /\ Same

(* get_current_user: the signature and expiry of the token, and the user    *)
(* row of the moment.  Roles and permissions are the token's.               *)
MayCall(a) == now < a.exp /\ active[a.user]
Allowed(a, code) == code \in a.perms \/ "admin" \in a.roles

(* logout: any user who may call revokes the token of the body. *)
LogoutSelect(r) ==
  /\ req[r] = Idle
  /\ \E a \in access, t \in Known :
       /\ MayCall(a)
       /\ req' = [req EXCEPT ![r] = [at |-> "logout", parent |-> t]]
  /\ UNCHANGED <<tokens, access>> /\ Same

LogoutCommit(r) ==
  /\ req[r].at = "logout"
  /\ tokens' = [tokens EXCEPT ![req[r].parent].revoked = TRUE]
  /\ req' = [req EXCEPT ![r] = Idle]
  /\ UNCHANGED access /\ Same

(* An administrator changes the rows of users and user_roles; bound: a user *)
(* loses the admin role, and does not get it back.                          *)
SetActive(u) ==
  /\ active' = [active EXCEPT ![u] = ~@]
  /\ UNCHANGED <<now, grants, regrant, tokens, access, req>>
SetGrant(u) ==
  /\ grants[u] = {"admin"}
  /\ grants' = [grants EXCEPT ![u] = {"viewer"}]
  /\ regrant' = [regrant EXCEPT ![u] = now]
  /\ UNCHANGED <<now, active, tokens, access, req>>

(* Expired access tokens are forgotten: MayCall refuses them. *)
AuthTick ==
  /\ now < MaxAuthTime
  /\ now' = now + 1
  /\ access' = {a \in access : now' < a.exp}
  /\ UNCHANGED <<active, grants, regrant, tokens, req>>

AuthNext ==
  \/ \E r \in AuthRequests :
       \/ LoginUser(r) \/ RefreshSelect(r) \/ RefreshUser(r) \/ MakeTokens(r)
       \/ Commit(r) \/ LogoutSelect(r) \/ LogoutCommit(r)
  \/ \E u \in AuthUsers : SetActive(u) \/ SetGrant(u)
  \/ AuthTick

AuthSpec == AuthInit /\ [][AuthNext]_authVars

-----------------------------------------------------------------------------
(* Two tokens descend from one refresh token only when the requests that    *)
(* made them overlapped: neither was there when the other's request read    *)
(* the token.  (auth.py:117 checks, 148 commits the revocation.)            *)
OverlapsOnly == \A s, t \in Known :
  s # t /\ tokens[s].parent = tokens[t].parent /\ tokens[s].parent # NoToken
    => s \notin tokens[t].seen /\ t \notin tokens[s].seen

(* A permission that a role change took away still opens a route only       *)
(* within AccessTtl of the change, however refreshes overlap with it.       *)
StalenessBounded == \A a \in access, code \in Permissions :
  MayCall(a) /\ Allowed(a, code) =>
    code \in PermissionsOf(grants[a.user]) \/ now - regrant[a.user] < AccessTtl

=============================================================================
