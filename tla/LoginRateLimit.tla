--------------------------- MODULE LoginRateLimit ----------------------------
(* LoginRateLimitMiddleware: one deque of times per client address.  An     *)
(* attempt drops the times that left the window, is refused when the deque  *)
(* is full and is added to it otherwise.  The method runs without an await  *)
(* between these steps, so a call is one step.  The clock does not go back  *)
(* (the code uses time.time()).                                             *)
EXTENDS Integers, Sequences

CONSTANTS
  Clients,  \* addresses
  Limit,    \* limit_per_minute
  Window,   \* 60 seconds
  MaxTime   \* bound: the clock, for TLC

ASSUME LimiterAssumption == Limit \in Nat \ {0} /\ Window \in Nat /\ MaxTime \in Nat

VARIABLES
  clock,    \* time.time()
  hits,     \* _hits
  passed,   \* history: when each attempt that was let through was made
  answer    \* the last answer to each client

limitVars == <<clock, hits, passed, answer>>

LimitInit ==
  /\ clock = 0
  /\ hits = [c \in Clients |-> <<>>]
  /\ passed = [c \in Clients |-> <<>>]
  /\ answer = [c \in Clients |-> "none"]

\* Mutant: a hit that is exactly Window old is dropped as well.
ExpiredEarly(b, t) == {i \in 0..Len(b) : \A j \in 1..i : t - b[j] >= Window}

(* The lengths of the prefixes of a deque that have left the window. *)
Expired(b, t) == {i \in 0..Len(b) : \A j \in 1..i : t - b[j] > Window}

(* The loop pops the longest of them. *)
Kept(b, t) == LET n == CHOOSE i \in Expired(b, t) : \A j \in Expired(b, t) : j <= i
              IN  SubSeq(b, n + 1, Len(b))

Full(b) == Len(b) >= Limit

Accept(c) ==
  LET kept == Kept(hits[c], clock)
  IN  /\ ~Full(kept)
      /\ hits' = [hits EXCEPT ![c] = Append(kept, clock)]
      /\ passed' = [passed EXCEPT ![c] = Append(@, clock)]
      /\ answer' = [answer EXCEPT ![c] = "passed"]
      /\ UNCHANGED clock

Reject(c) ==
  LET kept == Kept(hits[c], clock)
  IN  /\ Full(kept)
      /\ hits' = [hits EXCEPT ![c] = kept]
      /\ answer' = [answer EXCEPT ![c] = "429"]
      /\ UNCHANGED <<clock, passed>>

LimitTick ==
  /\ clock < MaxTime
  /\ clock' \in (clock + 1)..MaxTime
  /\ UNCHANGED <<hits, passed, answer>>

LimitNext == (\E c \in Clients : Accept(c) \/ Reject(c)) \/ LimitTick

LimitSpec == LimitInit /\ [][LimitNext]_limitVars

-----------------------------------------------------------------------------
(* Of any Limit + 1 attempts of a client that were let through in a row,    *)
(* the first and the last are more than Window apart: the limit holds in    *)
(* every window, not only in those that start at a full minute.  It is a    *)
(* theorem; the runs check SlidingWindow, which lets nothing else through.  *)
SpacedLogins == \A c \in Clients :
  \A i \in DOMAIN passed[c] :
    i + Limit \in DOMAIN passed[c] => passed[c][i + Limit] - passed[c][i] > Window

(* The deque that forgets is as good as a full record of the attempts: the  *)
(* middleware implements SlidingWindow.                                     *)
Sliding == INSTANCE SlidingWindow WITH time <- clock, log <- passed, reply <- answer
ImplementsSlidingWindow == Sliding!Spec
=============================================================================
