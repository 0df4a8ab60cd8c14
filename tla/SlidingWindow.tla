---------------------------- MODULE SlidingWindow ----------------------------
(* What a login limiter promises, without its data structure: an attempt is *)
(* let through exactly when fewer than Limit attempts of that client were   *)
(* let through in the Window before it, that is, when the Limit-th last of  *)
(* them, if there is one, is longer ago.                                    *)
EXTENDS Integers, Sequences

CONSTANTS Clients, Limit, Window

VARIABLES
  time,   \* the clock
  log,    \* per client, when each attempt that was let through was made
  reply   \* per client, the last answer

limiterVars == <<time, log, reply>>

Few(c) == \/ Len(log[c]) < Limit
          \/ time - log[c][Len(log[c]) - Limit + 1] > Window

Init == /\ time = 0
        /\ log = [c \in Clients |-> <<>>]
        /\ reply = [c \in Clients |-> "none"]

Admit(c) ==
  /\ Few(c)
  /\ log' = [log EXCEPT ![c] = Append(@, time)]
  /\ reply' = [reply EXCEPT ![c] = "passed"]
  /\ UNCHANGED time

Refuse(c) ==
  /\ ~Few(c)
  /\ reply' = [reply EXCEPT ![c] = "429"]
  /\ UNCHANGED <<time, log>>

Pass == time' > time /\ time' \in Nat /\ UNCHANGED <<log, reply>>

Next == (\E c \in Clients : Admit(c) \/ Refuse(c)) \/ Pass
Spec == Init /\ [][Next]_limiterVars
=============================================================================
