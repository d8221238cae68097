---------------------------- MODULE IdealWindow ----------------------------
(***************************************************************************)
(* What a sliding-window limiter promises, with no data structure: a call  *)
(* is granted exactly when fewer than MaxEvents grants were made to its    *)
(* key in the last Per ticks, and every reported number follows from that  *)
(* log of grants.  SlidingWindowLimiter is shown to implement it.          *)
(***************************************************************************)
EXTENDS Naturals, Sequences, FiniteSets

CONSTANTS
  Keys,         \* the strings limited, e.g. "ws-msg:alice"
  MaxEvents,    \* grants allowed per window
  Per,          \* length of the window, in ticks of the clock
  Unit,         \* ticks in the unit "reset" is reported in
  MaxTime       \* bound of the model: the clock stops here

VARIABLES
  now,          \* the monotonic clock
  granted,      \* granted[k]: the times of all the grants ever made to k
  answer        \* the last value returned

vars == <<now, granted, answer>>

\* The grants of k that a call made at this instant counts.
Recent(k) == {i \in DOMAIN granted[k] : granted[k][i] + Per > now}

Used(k) == Cardinality(Recent(k))

Full(k) == Used(k) >= MaxEvents

Oldest(k) == CHOOSE i \in Recent(k) : \A j \in Recent(k) : i <= j

\* The ticks after which the oldest counted grant of a full key is no longer
\* counted.
Wait(k) == IF Full(k) THEN (granted[k][Oldest(k)] + Per) - now ELSE 0

\* What may be reported for it: the wait, off by half a unit at most.
Reported(k) ==
  LET wait == Wait(k) IN
  {r \in 0 .. Per + Unit : 2 * r <= 2 * wait + Unit /\ 2 * wait <= 2 * r + Unit}

Reply(k, op, remaining, reset) ==
  [key |-> k, op |-> op, remaining |-> remaining, reset |-> reset]

NoReply == [op |-> "none"]

Init ==
  /\ now = 0
  /\ granted = [k \in Keys |-> <<>>]
  /\ answer = NoReply

Tick ==
  /\ now < MaxTime
  /\ now' = now + 1
  /\ UNCHANGED <<granted, answer>>

Grant(k) ==
  /\ ~Full(k)
  /\ granted' = [granted EXCEPT ![k] = Append(@, now)]
  /\ answer' = Reply(k, "granted", 0, 0)
  /\ UNCHANGED now

Refuse(k) ==
  /\ Full(k)
  /\ answer' = Reply(k, "refused", 0, 0)
  /\ UNCHANGED <<now, granted>>

Report(k) ==
  /\ \/ \E r \in Reported(k) : answer' = Reply(k, "status", MaxEvents - Used(k), r)
     \/ answer' = Reply(k, "quota_left", MaxEvents - Used(k), 0)
     \/ answer' = Reply(k, "retry_after", 0, Wait(k))
  /\ UNCHANGED <<now, granted>>

Next == Tick \/ \E k \in Keys : Grant(k) \/ Refuse(k) \/ Report(k)

Spec == Init /\ [][Next]_vars
=============================================================================
