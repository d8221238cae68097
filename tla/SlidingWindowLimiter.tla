------------------------ MODULE SlidingWindowLimiter ------------------------
(***************************************************************************)
(* app/core/ws_ratelimit.py: the in-process limiter behind the WebSocket   *)
(* endpoint.  Every method runs on the event loop without awaiting, so     *)
(* each is one step.  Floating-point seconds are ticks of a clock, finer   *)
(* than the hundredths to which status() rounds "reset".                   *)
(***************************************************************************)
EXTENDS Naturals, Sequences

CONSTANTS
  Keys,         \* the strings limited, e.g. "ws-msg:alice"
  MaxEvents,    \* max_events of the constructor
  Per,          \* per_seconds of the constructor, in ticks
  Unit,         \* ticks in a hundredth of a second
  MaxTime       \* bound of the model: the clock stops here

\* The configured limits are positive (core/config.py); with max_events = 0,
\* retry_after would index an empty deque.
ASSUME LimitAssumption ==
  /\ MaxEvents \in Nat \ {0}
  /\ Per \in Nat
  /\ Unit \in Nat \ {0}
  /\ MaxTime \in Nat

VARIABLES
  now,          \* time.monotonic()
  events,       \* self._events: for each key, the deque of counted grants
  answer,       \* the value the last call returned
  granted,      \* history: all the grants ever made to each key
  told          \* history: what each key was last told about its quota

vars == <<now, events, answer, granted, told>>

Reply(k, op, remaining, reset) ==
  [key |-> k, op |-> op, remaining |-> remaining, reset |-> reset]

NoReply == [op |-> "none"]

\* A key told nothing may expect nothing.
NothingTold == [slots |-> 0, opensAt |-> 0]

-----------------------------------------------------------------------------

\* A plausible bug of _cleanup's loop: it pops at most one event (an "if" for
\* the "while").
CleanupOnce(window, t) ==
  IF Len(window) > 0 /\ window[1] + Per <= t THEN Tail(window) ELSE window

\* Where "while window and window[0] <= cutoff: popleft()" stops.
FirstLive(window, t) ==
  CHOOSE i \in 1 .. Len(window) + 1 :
    /\ \A j \in 1 .. i - 1 : window[j] + Per <= t
    /\ i <= Len(window) => window[i] + Per > t

\* _cleanup: the deque of a key once its expired events are popped.
Cleanup(window, t) == SubSeq(window, FirstLive(window, t), Len(window))

\* A full window refuses; the mutated guard is off by one.
FullOffByOne(window) == Len(window) > MaxEvents

Full(window) == Len(window) >= MaxEvents

\* Ticks until the oldest event of a cleaned, full deque expires.
Wait(window, t) == IF Full(window) THEN (window[1] + Per) - t ELSE 0

\* The mutated rounding cuts the digits off.
CutOff(wait) == wait - (wait % Unit)

\* round(wait, 2): the nearest hundredth, and of two equally near the even one.
Rounded(wait) ==
  LET over == wait % Unit
      odd  == wait % (2 * Unit) >= Unit
  IN
  IF 2 * over > Unit \/ (2 * over = Unit /\ odd) THEN (wait - over) + Unit
                                                ELSE wait - over

-----------------------------------------------------------------------------

Init ==
  /\ now = 0
  /\ events = [k \in Keys |-> <<>>]
  /\ answer = NoReply
  /\ granted = [k \in Keys |-> <<>>]
  /\ told = [k \in Keys |-> NothingTold]

\* The clock is the environment's.
Tick ==
  /\ now < MaxTime
  /\ now' = now + 1
  /\ UNCHANGED <<events, answer, granted, told>>

\* allow() returning True: the event is recorded and uses up what was told.
Grant(k) ==
  LET window == Cleanup(events[k], now) IN
  /\ ~Full(window)
  /\ events' = [events EXCEPT ![k] = Append(window, now)]
  /\ answer' = Reply(k, "granted", 0, 0)
  /\ granted' = [granted EXCEPT ![k] = Append(@, now)]
  /\ told' = [told EXCEPT ![k] =
       [slots |-> IF @.slots > 0 THEN @.slots - 1 ELSE 0, opensAt |-> 0]]
  /\ UNCHANGED now

\* allow() returning False.
Refuse(k) ==
  LET window == Cleanup(events[k], now) IN
  /\ Full(window)
  /\ events' = [events EXCEPT ![k] = window]
  /\ answer' = Reply(k, "refused", 0, 0)
  /\ UNCHANGED <<now, granted, told>>

Allow(k) == Grant(k) \/ Refuse(k)

\* status(): what the endpoint sends to the client, as remaining and
\* retry_after, when a message was sent or refused.
Status(k) ==
  LET window == Cleanup(events[k], now)
      left   == MaxEvents - Len(window)
      reset  == Rounded(Wait(window, now))
  IN
  /\ events' = [events EXCEPT ![k] = window]
  /\ answer' = Reply(k, "status", left, reset)
  /\ told' = [told EXCEPT ![k] =
       [slots |-> left, opensAt |-> IF left = 0 THEN now + reset ELSE 0]]
  /\ UNCHANGED <<now, granted>>

QuotaLeft(k) ==
  LET window == Cleanup(events[k], now)
      left   == MaxEvents - Len(window)
  IN
  /\ events' = [events EXCEPT ![k] = window]
  /\ answer' = Reply(k, "quota_left", left, 0)
  /\ UNCHANGED <<now, granted, told>>

RetryAfter(k) ==
  LET window == Cleanup(events[k], now) IN
  /\ events' = [events EXCEPT ![k] = window]
  /\ answer' = Reply(k, "retry_after", 0, Wait(window, now))
  /\ UNCHANGED <<now, granted, told>>

Next ==
  \/ Tick
  \/ \E k \in Keys : Allow(k)
  \/ \E k \in Keys : Status(k)
  \/ \E k \in Keys : QuotaLeft(k)
  \/ \E k \in Keys : RetryAfter(k)

Spec == Init /\ [][Next]_vars

-----------------------------------------------------------------------------

Replies ==
  [key : Keys, op : {"granted", "refused", "status", "quota_left", "retry_after"},
   remaining : 0 .. MaxEvents, reset : 0 .. Per + Unit]

\* Type correctness: in particular a deque never holds more than max_events.
TypeOK ==
  /\ now \in 0 .. MaxTime
  /\ events \in [Keys -> Seq(Nat)]
  /\ \A k \in Keys : Len(events[k]) <= MaxEvents
  /\ answer \in Replies \cup {NoReply}
  /\ granted \in [Keys -> Seq(Nat)]
  /\ told \in [Keys -> [slots : 0 .. MaxEvents, opensAt : 0 .. MaxTime + Per + Unit]]

\* The point of the limiter: any MaxEvents + 1 consecutive grants of a key
\* span at least Per ticks, whatever calls were made in between.
WindowBound ==
  \A k \in Keys :
    \A i \in 1 .. Len(granted[k]) :
      i + MaxEvents <= Len(granted[k]) =>
        granted[k][i] + Per <= granted[k][i + MaxEvents]

\* What a client may expect from a quota_left or rate_limited frame: a slot it
\* was told of, or one that was to open half a hundredth ago, or earlier.
Expects(k) ==
  \/ told[k].slots > 0
  \/ told[k].opensAt > 0 /\ 2 * told[k].opensAt + Unit <= 2 * now

\* The numbers of status() are honest but for their rounding: a client that
\* has "remaining" messages left, or waits for "reset" and half a hundredth
\* of a second more, is not refused.  Waiting for "reset" alone is not enough.
HonestStatus ==
  [][\A k \in Keys : Refuse(k) => ~Expects(k)]_vars

\* The deque loses nothing that still counts: the limiter answers every call
\* as the full log of grants would.
Ideal == INSTANCE IdealWindow WITH
           Keys <- Keys, MaxEvents <- MaxEvents, Per <- Per, Unit <- Unit,
           MaxTime <- MaxTime, now <- now, granted <- granted, answer <- answer
ImplementsIdeal == Ideal!Spec
=============================================================================
