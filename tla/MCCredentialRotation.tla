------------------------- MODULE MCCredentialRotation -------------------------
EXTENDS CredentialRotation

Community(c) == [v |-> 2, c |-> c, u |-> "", k |-> ""]
User(k) == [v |-> 3, c |-> "", u |-> "nms", k |-> k]

(* Two communities that differ in case, and two users that differ in keys. *)
RotCreds == {Community("public"), Community("lab"), Community("LAB"), User("k1"), User("k2")}

RotKindSet == {[snmp |-> TRUE, readable |-> TRUE, cred |-> x] : x \in RotCreds}
         \cup {[snmp |-> TRUE, readable |-> FALSE, cred |-> Community("lab")],
               [snmp |-> FALSE, readable |-> TRUE, cred |-> User("k1")]}
RotListSet == {<<>>, <<1>>, <<2>>, <<1, 2>>, <<2, 1>>, <<2, 2>>}
=============================================================================
