--------------------- MODULE SlidingWindowLimiterProofs ---------------------
(***************************************************************************)
(* Proofs about SlidingWindowLimiter, for every set of keys, limit and     *)
(* window length.  The inductive invariant says what the deque is: the     *)
(* last grants of the log, with everything before them expired.            *)
(***************************************************************************)
EXTENDS SlidingWindowLimiter, WellFoundedInduction, SequenceTheorems,
        FiniteSetTheorems, TLAPS

\* How many grants of k the deque has dropped.
Dropped(k) == Len(granted[k]) - Len(events[k])

\* The deque is the end of the log, and what it dropped has expired.
DequeIsSuffix(k) ==
  /\ Len(events[k]) <= Len(granted[k])
  /\ \A i \in 1 .. Len(events[k]) : events[k][i] = granted[k][Dropped(k) + i]
  /\ \A i \in 1 .. Dropped(k) : granted[k][i] + Per <= now

\* Grants are logged in the order of the clock.
LogSorted(k) ==
  /\ \A i \in 1 .. Len(granted[k]) : granted[k][i] <= now
  /\ \A i, j \in 1 .. Len(granted[k]) : i <= j => granted[k][i] <= granted[k][j]

\* What a key was told about its slots is still covered by expired grants.
ToldIsCovered(k) ==
  /\ told[k].slots > 0 =>
       \A i \in 1 .. Len(granted[k]) :
         i + MaxEvents <= Len(granted[k]) + told[k].slots =>
           granted[k][i] + Per <= now
  /\ told[k].opensAt > 0 =>
       \A i \in 1 .. Len(granted[k]) :
         i + MaxEvents <= Len(granted[k]) + 1 =>
           2 * (granted[k][i] + Per) <= 2 * told[k].opensAt + Unit

\* The inductive invariant.
IInv ==
  /\ TypeOK
  /\ \A k \in Keys : DequeIsSuffix(k) /\ LogSorted(k) /\ ToldIsCovered(k)
  /\ WindowBound

-----------------------------------------------------------------------------

\* A non-empty set of naturals has a least element.
LEMMA LeastElement ==
  ASSUME NEW S \in SUBSET Nat, S # {}
  PROVE  \E m \in S : \A n \in S : m <= n
<1> DEFINE R == OpToRel(<, Nat)
<1>1. IsWellFoundedOn(R, Nat)
  BY NatLessThanWellFounded
<1>2. \A x, y \in Nat : <<x, y>> \in R <=> x < y
  BY DEF OpToRel
<1> HIDE DEF R
<1>3. PICK m \in S : \A n \in S : <<n, m>> \notin R
  BY <1>1, WFMin
<1>4. ASSUME NEW n \in S PROVE m <= n
  <2>1. n \in Nat /\ m \in Nat
    OBVIOUS
  <2>2. ~(n < m)
    BY <1>2, <1>3, <2>1
  <2>3. QED
    BY <2>1, <2>2
<1>5. QED
  BY <1>4

\* The popleft loop stops, and where it does everything before is expired
\* and the first event left, if any, is not (_cleanup).
LEMMA FirstLiveStops ==
  ASSUME NEW window \in Seq(Nat), NEW t \in Nat
  PROVE  /\ FirstLive(window, t) \in 1 .. Len(window) + 1
         /\ \A j \in 1 .. FirstLive(window, t) - 1 : window[j] + Per <= t
         /\ FirstLive(window, t) <= Len(window) =>
              window[FirstLive(window, t)] + Per > t
<1> DEFINE Stops(i) ==
             /\ \A j \in 1 .. i - 1 : window[j] + Per <= t
             /\ i <= Len(window) => window[i] + Per > t
           Live == {i \in 1 .. Len(window) + 1 :
                      i <= Len(window) => window[i] + Per > t}
<1>1. Len(window) \in Nat /\ \A i \in 1 .. Len(window) : window[i] \in Nat
  BY LenProperties, ElementOfSeq
<1>2. Live \subseteq Nat /\ Len(window) + 1 \in Live
  BY <1>1
<1>3. PICK i \in Live : \A j \in Live : i <= j
  BY <1>2, LeastElement
<1>4. i \in 1 .. Len(window) + 1 /\ Stops(i)
  <2>1. ASSUME NEW j \in 1 .. i - 1 PROVE window[j] + Per <= t
    <3>1. j \in 1 .. Len(window) /\ j \notin Live
      BY <1>1, <1>2, <1>3
    <3>2. window[j] \in Nat /\ ~(window[j] + Per > t)
      BY <3>1, <1>1
    <3>3. QED
      BY <3>2, LimitAssumption
  <2>2. QED
    BY <1>3, <2>1
<1>5. \E n \in 1 .. Len(window) + 1 : Stops(n)
  BY <1>4
<1>6. FirstLive(window, t) \in 1 .. Len(window) + 1 /\ Stops(FirstLive(window, t))
  BY <1>5 DEF FirstLive
<1>7. QED
  BY <1>6

\* The cleaned deque is a suffix of the deque.
LEMMA CleanupIsSuffix ==
  ASSUME NEW window \in Seq(Nat), NEW t \in Nat
  PROVE  LET first == FirstLive(window, t)
             clean == Cleanup(window, t)
         IN  /\ clean \in Seq(Nat)
             /\ Len(clean) = Len(window) - first + 1
             /\ \A i \in 1 .. Len(clean) : clean[i] = window[first + i - 1]
<1>1. Len(window) \in Nat /\ \A i \in 1 .. Len(window) : window[i] \in Nat
  BY LenProperties, ElementOfSeq
<1>2. FirstLive(window, t) \in 1 .. Len(window) + 1
  BY FirstLiveStops
<1> DEFINE first == FirstLive(window, t)
           clean == SubSeq(window, first, Len(window))
<1> HIDE DEF first
<1>3. first \in Int /\ first >= 1 /\ first <= Len(window) + 1
  BY <1>1, <1>2 DEF first
<1>4. \A i \in first .. Len(window) : window[i] \in Nat
  BY <1>1, <1>3
<1>5. /\ clean \in Seq(Nat)
      /\ Len(clean) = IF first <= Len(window) THEN Len(window) - first + 1 ELSE 0
      /\ \A i \in 1 .. Len(window) - first + 1 : clean[i] = window[first + i - 1]
  BY <1>1, <1>3, <1>4, SubSeqProperties
<1>6. Len(clean) = Len(window) - first + 1
  BY <1>1, <1>3, <1>5
<1>7. QED
  BY <1>5, <1>6 DEF Cleanup, first

-----------------------------------------------------------------------------

\* In every state of the invariant, cleaning the deque of k leaves exactly
\* the grants of the log that have not expired.
LEMMA CleanWindow ==
  ASSUME IInv, NEW k \in Keys
  PROVE  LET window == Cleanup(events[k], now)
             n == Len(granted[k])
             d == n - Len(window)
         IN  /\ window \in Seq(Nat)
             /\ Len(window) \in 0 .. MaxEvents
             /\ n \in Nat /\ Len(window) <= n
             /\ \A i \in 1 .. Len(window) : window[i] = granted[k][d + i]
             /\ \A i \in 1 .. d : granted[k][i] + Per <= now
             /\ \A i \in d + 1 .. n : granted[k][i] + Per > now
<1> DEFINE old == events[k]
           log == granted[k]
           n == Len(log)
           m == Len(old)
           first == FirstLive(old, now)
           window == Cleanup(old, now)
           d == n - Len(window)
<1>1. /\ now \in Nat /\ old \in Seq(Nat) /\ log \in Seq(Nat)
      /\ m \in Nat /\ n \in Nat /\ m <= MaxEvents
      /\ MaxEvents \in Nat /\ Per \in Nat
  BY LenProperties, LimitAssumption DEF IInv, TypeOK
<1>2. \A i \in 1 .. n : log[i] \in Nat
  BY <1>1, ElementOfSeq
<1>3. /\ m <= n
      /\ \A i \in 1 .. m : old[i] = log[(n - m) + i]
      /\ \A i \in 1 .. n - m : log[i] + Per <= now
  BY DEF IInv, DequeIsSuffix, Dropped
<1>4. \A i, j \in 1 .. n : i <= j => log[i] <= log[j]
  BY DEF IInv, LogSorted
<1>5. /\ first \in 1 .. m + 1
      /\ \A j \in 1 .. first - 1 : old[j] + Per <= now
      /\ first <= m => old[first] + Per > now
  BY <1>1, FirstLiveStops
<1>6. /\ window \in Seq(Nat)
      /\ Len(window) = m - first + 1
      /\ \A i \in 1 .. Len(window) : window[i] = old[first + i - 1]
  BY <1>1, CleanupIsSuffix
<1> HIDE DEF old, log, n, m, first, window
<1>7. d = (n - m) + (first - 1)
  BY <1>1, <1>5, <1>6
<1>8. ASSUME NEW i \in 1 .. Len(window) PROVE window[i] = log[d + i]
  <2>1. first + i - 1 \in 1 .. m
    BY <1>1, <1>5, <1>6
  <2>2. window[i] = log[(n - m) + (first + i - 1)]
    BY <1>3, <1>6, <2>1
  <2>3. (n - m) + (first + i - 1) = d + i
    BY <1>1, <1>5, <1>6, <1>7
  <2>4. QED
    BY <2>2, <2>3
<1>9. ASSUME NEW i \in 1 .. d PROVE log[i] + Per <= now
  <2>1. CASE i <= n - m
    BY <1>1, <1>3, <1>7, <2>1
  <2>2. CASE i > n - m
    <3>1. i - (n - m) \in 1 .. first - 1 /\ i - (n - m) \in 1 .. m
      BY <1>1, <1>5, <1>7, <2>2
    <3>2. old[i - (n - m)] = log[(n - m) + (i - (n - m))]
      BY <1>3, <3>1
    <3>3. (n - m) + (i - (n - m)) = i
      BY <1>1
    <3>4. QED
      BY <1>5, <3>1, <3>2, <3>3
  <2>3. QED
    BY <1>1, <1>7, <1>5, <2>1, <2>2
<1>10. ASSUME NEW i \in d + 1 .. n PROVE log[i] + Per > now
  <2>1. first <= m /\ d + 1 \in 1 .. n /\ i \in 1 .. n /\ d + 1 <= i
    BY <1>1, <1>3, <1>5, <1>7
  <2>2. log[d + 1] + Per > now
    <3>1. (n - m) + first = d + 1
      BY <1>1, <1>5, <1>7
    <3>2. old[first] = log[d + 1]
      BY <1>3, <1>5, <2>1, <3>1
    <3>3. QED
      BY <1>5, <2>1, <3>2
  <2>3. log[d + 1] <= log[i] /\ log[d + 1] \in Nat /\ log[i] \in Nat
    BY <1>2, <1>4, <2>1
  <2> DEFINE earliest == log[d + 1]
             latest == log[i]
  <2> HIDE DEF earliest, latest
  <2>4. latest + Per > now
    BY <1>1, <2>2, <2>3 DEF earliest, latest
  <2>5. QED
    BY <2>4 DEF latest
<1>11. /\ window \in Seq(Nat)
       /\ Len(window) \in 0 .. MaxEvents
       /\ n \in Nat /\ Len(window) <= n
  BY <1>1, <1>3, <1>5, <1>6
<1>12. QED
  BY <1>8, <1>9, <1>10, <1>11 DEF old, log, n, window

-----------------------------------------------------------------------------

\* What a step that only cleans the deque of k preserves: every method but a
\* granting allow() does no more to the deque.
LEMMA CleaningKeepsDeque ==
  ASSUME IInv, NEW k \in Keys,
         events' = [events EXCEPT ![k] = Cleanup(events[k], now)],
         UNCHANGED <<now, granted>>
  PROVE  /\ (events \in [Keys -> Seq(Nat)])'
         /\ (\A q \in Keys : Len(events[q]) <= MaxEvents)'
         /\ (\A q \in Keys : DequeIsSuffix(q) /\ LogSorted(q))'
         /\ WindowBound'
<1>1. /\ events \in [Keys -> Seq(Nat)]
      /\ \A q \in Keys : Len(events[q]) <= MaxEvents
      /\ \A q \in Keys : DequeIsSuffix(q) /\ LogSorted(q)
      /\ WindowBound
  BY DEF IInv, TypeOK
<1>2. WindowBound' /\ \A q \in Keys : LogSorted(q)'
  BY <1>1 DEF WindowBound, LogSorted
<1> DEFINE window == Cleanup(events[k], now)
           n == Len(granted[k])
<1>3. /\ window \in Seq(Nat)
      /\ Len(window) \in 0 .. MaxEvents
      /\ Len(window) <= n
      /\ \A i \in 1 .. Len(window) : window[i] = granted[k][(n - Len(window)) + i]
      /\ \A i \in 1 .. n - Len(window) : granted[k][i] + Per <= now
  BY CleanWindow
<1> HIDE DEF window
<1>4. events' \in [Keys -> Seq(Nat)]
  BY <1>1, <1>3 DEF window
<1>5. events'[k] = window /\ \A q \in Keys : q # k => events'[q] = events[q]
  BY <1>1 DEF window
<1>6. \A q \in Keys : Len(events'[q]) <= MaxEvents
  BY <1>1, <1>3, <1>5, LimitAssumption
<1>7. DequeIsSuffix(k)'
  BY <1>3, <1>5 DEF DequeIsSuffix, Dropped
<1>8. ASSUME NEW q \in Keys, q # k PROVE DequeIsSuffix(q)'
  BY <1>1, <1>5, <1>8 DEF DequeIsSuffix, Dropped
<1>9. QED
  BY <1>2, <1>4, <1>6, <1>7, <1>8

\* A granting allow() keeps the deque a suffix of the log, the log sorted and
\* the grants spread: this is where the window bound is earned.
LEMMA GrantKeepsDeque ==
  ASSUME IInv, NEW k \in Keys, Grant(k)
  PROVE  /\ (events \in [Keys -> Seq(Nat)])'
         /\ (granted \in [Keys -> Seq(Nat)])'
         /\ (\A q \in Keys : Len(events[q]) <= MaxEvents)'
         /\ (\A q \in Keys : DequeIsSuffix(q) /\ LogSorted(q))'
         /\ WindowBound'
         /\ Len(granted'[k]) = Len(granted[k]) + 1
         /\ \A i \in 1 .. Len(granted[k]) : granted'[k][i] = granted[k][i]
<1> DEFINE window == Cleanup(events[k], now)
           log == granted[k]
           n == Len(log)
           d == n - Len(window)
<1>1. /\ events \in [Keys -> Seq(Nat)] /\ granted \in [Keys -> Seq(Nat)]
      /\ \A q \in Keys : Len(events[q]) <= MaxEvents
      /\ \A q \in Keys : DequeIsSuffix(q) /\ LogSorted(q)
      /\ WindowBound /\ now \in Nat /\ MaxEvents \in Nat /\ Per \in Nat
  BY LimitAssumption DEF IInv, TypeOK
<1>2. /\ window \in Seq(Nat)
      /\ Len(window) \in 0 .. MaxEvents
      /\ n \in Nat /\ Len(window) <= n
      /\ \A i \in 1 .. Len(window) : window[i] = log[d + i]
      /\ \A i \in 1 .. d : log[i] + Per <= now
  BY CleanWindow
<1>3. /\ Len(window) < MaxEvents
      /\ events' = [events EXCEPT ![k] = Append(window, now)]
      /\ granted' = [granted EXCEPT ![k] = Append(log, now)]
      /\ now' = now
  BY <1>1, <1>2 DEF Grant, Full
<1>4. log \in Seq(Nat) /\ \A i \in 1 .. n : log[i] \in Nat
  BY <1>1, ElementOfSeq
<1> HIDE DEF window, log, n
<1>5. /\ events'[k] = Append(window, now) /\ granted'[k] = Append(log, now)
      /\ \A q \in Keys : q # k => events'[q] = events[q] /\ granted'[q] = granted[q]
      /\ events' \in [Keys -> Seq(Nat)] /\ granted' \in [Keys -> Seq(Nat)]
  BY <1>1, <1>2, <1>3, <1>4, AppendProperties
<1>6. /\ Len(events'[k]) = Len(window) + 1
      /\ \A i \in 1 .. Len(window) : events'[k][i] = window[i]
      /\ events'[k][Len(window) + 1] = now
  BY <1>1, <1>2, <1>5, AppendProperties
<1>7. /\ Len(granted'[k]) = n + 1
      /\ \A i \in 1 .. n : granted'[k][i] = log[i]
      /\ granted'[k][n + 1] = now
  BY <1>1, <1>4, <1>5, AppendProperties DEF n
<1>8. \A q \in Keys : Len(events'[q]) <= MaxEvents
  BY <1>1, <1>2, <1>3, <1>5, <1>6
<1>9. \A q \in Keys : DequeIsSuffix(q)'
  <2>1. ASSUME NEW q \in Keys, q # k PROVE DequeIsSuffix(q)'
    BY <1>1, <1>3, <1>5, <2>1 DEF DequeIsSuffix, Dropped
  <2>2. Len(granted'[k]) - Len(events'[k]) = d
    BY <1>1, <1>2, <1>6, <1>7
  <2>3. ASSUME NEW i \in 1 .. Len(events'[k])
        PROVE events'[k][i] = granted'[k][d + i]
    <3>1. CASE i \in 1 .. Len(window)
      <4>1. d + i \in 1 .. n
        BY <1>1, <1>2, <3>1
      <4>2. QED
        BY <1>2, <1>6, <1>7, <3>1, <4>1
    <3>2. CASE i = Len(window) + 1
      <4>1. d + i = n + 1
        BY <1>1, <1>2, <3>2
      <4>2. QED
        BY <1>6, <1>7, <3>2, <4>1
    <3>3. QED
      BY <1>1, <1>2, <1>6, <3>1, <3>2
  <2>4. ASSUME NEW i \in 1 .. d PROVE granted'[k][i] + Per <= now
    <3>1. i \in 1 .. n
      BY <1>1, <1>2
    <3>2. granted'[k][i] = log[i] /\ log[i] + Per <= now
      BY <1>2, <1>7, <3>1
    <3>3. QED
      BY <3>2
  <2>5. Len(events'[k]) <= Len(granted'[k])
    BY <1>1, <1>2, <1>6, <1>7
  <2>6. DequeIsSuffix(k)'
    BY <1>3, <2>2, <2>3, <2>4, <2>5 DEF DequeIsSuffix, Dropped
  <2>7. QED
    BY <2>1, <2>6
<1>10. \A q \in Keys : LogSorted(q)'
  <2>1. ASSUME NEW q \in Keys, q # k PROVE LogSorted(q)'
    BY <1>1, <1>3, <1>5, <2>1 DEF LogSorted
  <2>2. /\ \A i \in 1 .. n : log[i] <= now
        /\ \A i, j \in 1 .. n : i <= j => log[i] <= log[j]
    BY <1>1 DEF LogSorted, log, n
  <2>3. ASSUME NEW i \in 1 .. n + 1 PROVE granted'[k][i] <= now
    <3>1. CASE i \in 1 .. n
      <4>1. granted'[k][i] = log[i] /\ log[i] <= now
        BY <1>7, <2>2, <3>1
      <4>2. QED
        BY <4>1
    <3>2. CASE i = n + 1
      BY <1>1, <1>7, <3>2
    <3>3. QED
      BY <1>2, <3>1, <3>2
  <2>4. ASSUME NEW i \in 1 .. n + 1, NEW j \in 1 .. n + 1, i <= j
        PROVE granted'[k][i] <= granted'[k][j]
    <3>1. CASE j = n + 1
      BY <1>7, <2>3, <3>1
    <3>2. CASE j \in 1 .. n
      BY <1>2, <1>7, <2>2, <2>4, <3>2
    <3>3. QED
      BY <1>2, <3>1, <3>2
  <2>5. LogSorted(k)'
    BY <1>3, <1>7, <2>3, <2>4 DEF LogSorted
  <2>6. QED
    BY <2>1, <2>5
<1>11. WindowBound'
  <2>1. ASSUME NEW q \in Keys, NEW i \in 1 .. Len(granted'[q]),
               i + MaxEvents <= Len(granted'[q])
        PROVE granted'[q][i] + Per <= granted'[q][i + MaxEvents]
    <3>1. CASE q # k
      BY <1>1, <1>5, <2>1, <3>1 DEF WindowBound
    <3>2. CASE q = k /\ i + MaxEvents <= n
      <4>1. log[i] + Per <= log[i + MaxEvents]
        BY <1>1, <1>2, <1>7, <2>1, <3>2 DEF WindowBound, log, n
      <4>2. i \in 1 .. n /\ i + MaxEvents \in 1 .. n
        BY <1>1, <1>2, <1>7, <2>1, <3>2
      <4>3. QED
        BY <1>7, <3>2, <4>1, <4>2
    <3>3. CASE q = k /\ i + MaxEvents = n + 1
      <4>1. i \in 1 .. d /\ i \in 1 .. n
        BY <1>1, <1>2, <1>3, <1>7, <2>1, <3>3, LimitAssumption
      <4>2. QED
        BY <1>2, <1>7, <3>3, <4>1
    <3>4. QED
      BY <1>1, <1>2, <1>7, <2>1, <3>1, <3>2, <3>3
  <2>2. QED
    BY <2>1 DEF WindowBound
<1>12. QED
  BY <1>5, <1>7, <1>8, <1>9, <1>10, <1>11 DEF n, log

-----------------------------------------------------------------------------

\* The initial state satisfies the invariant.
LEMMA InitIInv == Init => IInv
<1> SUFFICES ASSUME Init PROVE IInv
  OBVIOUS
<1> USE LimitAssumption DEF Init
<1>1. TypeOK
  BY DEF TypeOK, NothingTold
<1>2. ASSUME NEW k \in Keys PROVE DequeIsSuffix(k) /\ LogSorted(k) /\ ToldIsCovered(k)
  BY DEF DequeIsSuffix, Dropped, LogSorted, ToldIsCovered, NothingTold
<1>3. WindowBound
  BY DEF WindowBound
<1>4. QED
  BY <1>1, <1>2, <1>3 DEF IInv

\* The clock moves on: what has expired stays expired.
LEMMA TickIInv == IInv /\ Tick => IInv'
<1> SUFFICES ASSUME IInv, Tick PROVE IInv'
  OBVIOUS
<1> USE LimitAssumption DEF Tick
<1>1. now \in Nat /\ now' = now + 1 /\ granted \in [Keys -> Seq(Nat)]
  BY DEF IInv, TypeOK
<1>2. \A k \in Keys : \A i \in 1 .. Len(granted[k]) : granted[k][i] \in Nat
  BY <1>1, ElementOfSeq
<1>3. \A k \in Keys : Len(granted[k]) \in Nat /\ Len(events[k]) \in Nat
  BY <1>1, LenProperties DEF IInv, TypeOK
<1>4. TypeOK'
  BY DEF IInv, TypeOK
<1>5. ASSUME NEW k \in Keys PROVE DequeIsSuffix(k)'
  <2>1. DequeIsSuffix(k)
    BY DEF IInv
  <2>2. ASSUME NEW i \in 1 .. Dropped(k) PROVE granted[k][i] + Per <= now + 1
    <3>1. i \in 1 .. Len(granted[k])
      BY <1>3 DEF Dropped
    <3>2. granted[k][i] \in Nat /\ granted[k][i] + Per <= now
      BY <1>2, <2>1, <3>1 DEF DequeIsSuffix
    <3>3. QED
      BY <1>1, <3>2
  <2>3. QED
    BY <1>1, <2>1, <2>2 DEF DequeIsSuffix, Dropped
<1>6. ASSUME NEW k \in Keys PROVE LogSorted(k)'
  <2>1. LogSorted(k)
    BY DEF IInv
  <2>2. ASSUME NEW i \in 1 .. Len(granted[k]) PROVE granted[k][i] <= now + 1
    <3>1. granted[k][i] \in Nat /\ granted[k][i] <= now
      BY <1>2, <2>1 DEF LogSorted
    <3>2. QED
      BY <1>1, <3>1
  <2>3. QED
    BY <1>1, <2>1, <2>2 DEF LogSorted
<1>7. ASSUME NEW k \in Keys PROVE ToldIsCovered(k)'
  <2>1. ToldIsCovered(k)
    BY DEF IInv
  <2>2. ASSUME told[k].slots > 0, NEW i \in 1 .. Len(granted[k]),
               i + MaxEvents <= Len(granted[k]) + told[k].slots
        PROVE  granted[k][i] + Per <= now + 1
    <3>1. granted[k][i] \in Nat /\ granted[k][i] + Per <= now
      BY <1>2, <2>1, <2>2 DEF ToldIsCovered
    <3>2. QED
      BY <1>1, <3>1
  <2>3. QED
    BY <1>1, <2>1, <2>2 DEF ToldIsCovered
<1>8. WindowBound'
  BY DEF IInv, WindowBound
<1>9. QED
  BY <1>4, <1>5, <1>6, <1>7, <1>8 DEF IInv

\* A granting allow() uses up one of the slots told, and withdraws the
\* instant told: what is left is still covered.
LEMMA GrantIInv == ASSUME NEW k \in Keys PROVE IInv /\ Grant(k) => IInv'
<1> SUFFICES ASSUME IInv, Grant(k) PROVE IInv'
  OBVIOUS
<1> USE LimitAssumption
<1>1. /\ now' = now /\ now \in 0 .. MaxTime
      /\ answer' = Reply(k, "granted", 0, 0)
      /\ told \in [Keys -> [slots : 0 .. MaxEvents, opensAt : 0 .. MaxTime + Per + Unit]]
      /\ told' = [told EXCEPT ![k] =
           [slots |-> IF @.slots > 0 THEN @.slots - 1 ELSE 0, opensAt |-> 0]]
  BY DEF IInv, TypeOK, Grant
<1>2. answer' \in Replies
  BY <1>1 DEF Reply, Replies
<1>3. told[k].slots \in 0 .. MaxEvents
  BY <1>1
<1>4. /\ told' \in [Keys -> [slots : 0 .. MaxEvents, opensAt : 0 .. MaxTime + Per + Unit]]
      /\ told'[k].opensAt = 0
      /\ told'[k].slots = IF told[k].slots > 0 THEN told[k].slots - 1 ELSE 0
      /\ \A q \in Keys : q # k => told'[q] = told[q]
  BY <1>1, <1>3
<1>5. TypeOK'
  BY <1>1, <1>2, <1>4, GrantKeepsDeque DEF TypeOK
<1>6. ASSUME NEW q \in Keys PROVE ToldIsCovered(q)'
  <2>1. ToldIsCovered(q) /\ granted \in [Keys -> Seq(Nat)]
    BY DEF IInv, TypeOK
  <2>2. CASE q # k
    <3>1. granted'[q] = granted[q] /\ told'[q] = told[q]
      BY <1>4, <2>1, <2>2 DEF Grant
    <3>2. QED
      BY <1>1, <2>1, <3>1 DEF ToldIsCovered
  <2>3. CASE q = k
    <3> DEFINE n == Len(granted[k])
    <3>1. n \in Nat
      BY <2>1, LenProperties
    <3> HIDE DEF n
    <3>2. Len(granted'[k]) = n + 1 /\ \A i \in 1 .. n : granted'[k][i] = granted[k][i]
      BY GrantKeepsDeque DEF n
    <3>3. ASSUME told'[k].slots > 0, NEW i \in 1 .. n + 1,
                 i + MaxEvents <= (n + 1) + told'[k].slots
          PROVE  granted'[k][i] + Per <= now
      <4>1. told[k].slots > 0 /\ i \in 1 .. n /\ i + MaxEvents <= n + told[k].slots
        BY <1>3, <1>4, <3>1, <3>3
      <4>2. granted[k][i] + Per <= now
        BY <2>1, <2>3, <4>1 DEF ToldIsCovered, n
      <4>3. QED
        BY <3>2, <4>1, <4>2
    <3>4. QED
      BY <1>1, <1>4, <2>3, <3>2, <3>3 DEF ToldIsCovered
  <2>4. QED
    BY <2>2, <2>3
<1>7. QED
  BY <1>5, <1>6, GrantKeepsDeque DEF IInv

\* Rounding moves a wait by half a hundredth at most (status).
LEMMA RoundedIsNear ==
  ASSUME NEW wait \in Nat
  PROVE  /\ Rounded(wait) \in Nat
         /\ 2 * Rounded(wait) <= 2 * wait + Unit
         /\ 2 * wait <= 2 * Rounded(wait) + Unit
<1>1. Unit \in Nat /\ Unit > 0
  BY LimitAssumption
<1> DEFINE over == wait % Unit
           odd == wait % (2 * Unit) >= Unit
<1>2. over \in 0 .. Unit - 1 /\ over <= wait
  BY <1>1
<1>3. Rounded(wait) = IF 2 * over > Unit \/ (2 * over = Unit /\ odd)
                        THEN (wait - over) + Unit ELSE wait - over
  BY DEF Rounded
<1> HIDE DEF over, odd
<1>4. CASE 2 * over > Unit \/ (2 * over = Unit /\ odd)
  BY <1>1, <1>2, <1>3, <1>4
<1>5. CASE ~(2 * over > Unit \/ (2 * over = Unit /\ odd))
  <2>1. Rounded(wait) = wait - over /\ 2 * over <= Unit
    BY <1>1, <1>2, <1>3, <1>5
  <2>2. QED
    BY <1>1, <1>2, <2>1
<1>6. QED
  BY <1>4, <1>5

\* The wait for a cleaned deque is at most the window's length, and
\* positive if the deque is full: the oldest grant left has not expired.
LEMMA WaitInRange ==
  ASSUME IInv, NEW k \in Keys
  PROVE  LET window == Cleanup(events[k], now)
             n == Len(granted[k])
         IN  /\ Wait(window, now) \in 0 .. Per
             /\ Full(window) =>
                  /\ Len(window) = MaxEvents
                  /\ now + Wait(window, now) = granted[k][(n - MaxEvents) + 1] + Per
<1> DEFINE window == Cleanup(events[k], now)
           n == Len(granted[k])
<1>1. /\ now \in Nat /\ MaxEvents \in Nat \ {0} /\ Per \in Nat
      /\ \A i \in 1 .. n : granted[k][i] \in Nat /\ granted[k][i] <= now
  BY LimitAssumption, ElementOfSeq DEF IInv, TypeOK, LogSorted
<1>2. /\ Len(window) \in 0 .. MaxEvents
      /\ n \in Nat /\ Len(window) <= n
      /\ \A i \in 1 .. Len(window) : window[i] = granted[k][(n - Len(window)) + i]
      /\ \A i \in (n - Len(window)) + 1 .. n : granted[k][i] + Per > now
  BY CleanWindow
<1> HIDE DEF window, n
<1>3. CASE Full(window)
  <2>1. Len(window) = MaxEvents
    BY <1>1, <1>2, <1>3 DEF Full
  <2> DEFINE oldest == (n - MaxEvents) + 1
  <2>2. /\ oldest \in 1 .. n
        /\ oldest \in (n - Len(window)) + 1 .. n
        /\ window[1] = granted[k][oldest]
    BY <1>1, <1>2, <2>1
  <2> HIDE DEF oldest
  <2>3. /\ window[1] \in Nat /\ window[1] <= now /\ window[1] + Per > now
    BY <1>1, <1>2, <2>2
  <2>4. Wait(window, now) = (window[1] + Per) - now
    BY <1>3 DEF Wait
  <2>5. Wait(window, now) \in 0 .. Per /\ now + Wait(window, now) = window[1] + Per
    BY <1>1, <2>3, <2>4
  <2>6. QED
    BY <2>1, <2>2, <2>5 DEF oldest, window, n
<1>4. CASE ~Full(window)
  BY <1>1, <1>4 DEF Wait, window
<1>5. QED
  BY <1>3, <1>4

\* The methods that tell the client nothing new: a refusing allow(),
\* quota_left() and retry_after().
LEMMA QuietIInv ==
  ASSUME NEW k \in Keys
  PROVE  IInv /\ (Refuse(k) \/ QuotaLeft(k) \/ RetryAfter(k)) => IInv'
<1> SUFFICES ASSUME IInv, Refuse(k) \/ QuotaLeft(k) \/ RetryAfter(k) PROVE IInv'
  OBVIOUS
<1> DEFINE window == Cleanup(events[k], now)
<1>1. /\ events' = [events EXCEPT ![k] = window]
      /\ UNCHANGED <<now, granted, told>>
  BY DEF Refuse, QuotaLeft, RetryAfter
<1>2. Len(window) \in 0 .. MaxEvents /\ Wait(window, now) \in 0 .. Per
  BY CleanWindow, WaitInRange
<1>3. /\ MaxEvents - Len(window) \in 0 .. MaxEvents
      /\ 0 \in 0 .. MaxEvents /\ 0 \in 0 .. Per + Unit
      /\ Wait(window, now) \in 0 .. Per + Unit
  BY <1>2, LimitAssumption
<1>4. answer' \in Replies
  <2>1. CASE Refuse(k)
    BY <1>3, <2>1 DEF Refuse, Reply, Replies
  <2>2. CASE QuotaLeft(k)
    BY <1>3, <2>2 DEF QuotaLeft, Reply, Replies
  <2>3. CASE RetryAfter(k)
    BY <1>3, <2>3 DEF RetryAfter, Reply, Replies
  <2>4. QED
    BY <2>1, <2>2, <2>3
<1>5. TypeOK'
  BY <1>1, <1>4, CleaningKeepsDeque DEF IInv, TypeOK
<1>6. \A q \in Keys : ToldIsCovered(q)'
  BY <1>1 DEF IInv, ToldIsCovered
<1>7. QED
  BY <1>1, <1>5, <1>6, CleaningKeepsDeque DEF IInv

\* status(): what it tells is covered by what it counted.
LEMMA StatusIInv == ASSUME NEW k \in Keys PROVE IInv /\ Status(k) => IInv'
<1> SUFFICES ASSUME IInv, Status(k) PROVE IInv'
  OBVIOUS
<1> USE LimitAssumption
<1> DEFINE window == Cleanup(events[k], now)
           n == Len(granted[k])
           left == MaxEvents - Len(window)
           wait == Wait(window, now)
           reset == Rounded(wait)
           opensAt == IF left = 0 THEN now + reset ELSE 0
<1>1. /\ events' = [events EXCEPT ![k] = window]
      /\ answer' = Reply(k, "status", left, reset)
      /\ told' = [told EXCEPT ![k] = [slots |-> left, opensAt |-> opensAt]]
      /\ UNCHANGED <<now, granted>>
  BY DEF Status
<1>2. /\ Len(window) \in 0 .. MaxEvents /\ n \in Nat /\ Len(window) <= n
      /\ \A i \in 1 .. n - Len(window) : granted[k][i] + Per <= now
  BY CleanWindow
<1>3. /\ wait \in 0 .. Per
      /\ Full(window) =>
           /\ Len(window) = MaxEvents
           /\ now + wait = granted[k][(n - MaxEvents) + 1] + Per
  BY WaitInRange
<1>12. /\ reset \in 0 .. Per + Unit
       /\ 2 * wait <= 2 * reset + Unit
  <2> HIDE DEF wait
  <2>1. /\ reset \in Nat /\ 2 * reset <= 2 * wait + Unit /\ 2 * wait <= 2 * reset + Unit
    BY <1>3, RoundedIsNear
  <2> HIDE DEF reset
  <2>2. QED
    BY <1>3, <2>1
<1>4. /\ now \in 0 .. MaxTime
      /\ told \in [Keys -> [slots : 0 .. MaxEvents, opensAt : 0 .. MaxTime + Per + Unit]]
      /\ \A i, j \in 1 .. n : i <= j => granted[k][i] <= granted[k][j]
      /\ \A i \in 1 .. n : granted[k][i] \in Nat
      /\ granted \in [Keys -> Seq(Nat)]
  BY ElementOfSeq DEF IInv, TypeOK, LogSorted
<1>11. /\ (events \in [Keys -> Seq(Nat)])'
       /\ (\A q \in Keys : Len(events[q]) <= MaxEvents)'
       /\ (\A q \in Keys : DequeIsSuffix(q) /\ LogSorted(q))'
       /\ WindowBound'
  BY <1>1, CleaningKeepsDeque
<1> HIDE DEF window, n, wait, reset
<1>5. left \in 0 .. MaxEvents /\ opensAt \in 0 .. MaxTime + Per + Unit
  BY <1>2, <1>12, <1>4
<1>6. answer' \in Replies
  BY <1>1, <1>12, <1>5 DEF Reply, Replies
<1>7. /\ told' \in [Keys -> [slots : 0 .. MaxEvents, opensAt : 0 .. MaxTime + Per + Unit]]
      /\ told'[k].slots = left /\ told'[k].opensAt = opensAt
      /\ \A q \in Keys : q # k => told'[q] = told[q]
  BY <1>1, <1>4, <1>5
<1>8. TypeOK'
  <2>1. now' \in 0 .. MaxTime /\ granted' \in [Keys -> Seq(Nat)]
    BY <1>1, <1>4
  <2>2. told' \in [Keys -> [slots : 0 .. MaxEvents, opensAt : 0 .. MaxTime + Per + Unit]]
    BY <1>7
  <2>3. QED
    BY <2>1, <2>2, <1>6, <1>11 DEF TypeOK, Replies
<1>9. ASSUME NEW q \in Keys PROVE ToldIsCovered(q)'
  <2>1. CASE q # k
    BY <1>1, <1>7, <2>1 DEF IInv, ToldIsCovered
  <2>2. CASE q = k
    <3>1. ASSUME left > 0, NEW i \in 1 .. n, i + MaxEvents <= n + left
          PROVE  granted[k][i] + Per <= now
      <4>1. i \in 1 .. n - Len(window)
        BY <1>2, <3>1
      <4>2. QED
        BY <1>2, <4>1
    <3>2. ASSUME opensAt > 0, NEW i \in 1 .. n, i + MaxEvents <= n + 1
          PROVE  2 * (granted[k][i] + Per) <= 2 * opensAt + Unit
      <4>1. left = 0 /\ Full(window)
        BY <1>2, <3>2 DEF Full
      <4>2. (n - MaxEvents) + 1 \in 1 .. n /\ i <= (n - MaxEvents) + 1
        BY <1>2, <3>2, <4>1
      <4>3. granted[k][i] <= granted[k][(n - MaxEvents) + 1]
            /\ granted[k][i] \in Nat /\ granted[k][(n - MaxEvents) + 1] \in Nat
        BY <1>4, <4>2
      <4>4. opensAt = now + reset
            /\ now + wait = granted[k][(n - MaxEvents) + 1] + Per
        BY <1>3, <4>1
      <4> DEFINE earlier == granted[k][i]
                 oldest == granted[k][(n - MaxEvents) + 1]
      <4>5. /\ earlier \in Nat /\ oldest \in Nat /\ earlier <= oldest
            /\ now + wait = oldest + Per /\ now \in Nat
            /\ wait \in Nat /\ reset \in Nat /\ 2 * wait <= 2 * reset + Unit
        BY <1>3, <1>4, <1>12, <4>3, <4>4
      <4> HIDE DEF earlier, oldest
      <4>6. 2 * (earlier + Per) <= 2 * (now + reset) + Unit
        BY <4>5
      <4>7. QED
        BY <4>4, <4>6 DEF earlier
    <3>3. QED
      BY <1>1, <1>7, <2>2, <3>1, <3>2 DEF ToldIsCovered, n
  <2>3. QED
    BY <2>1, <2>2
<1>10. QED
  BY <1>8, <1>9, <1>11 DEF IInv

LEMMA StepIInv == IInv /\ [Next]_vars => IInv'
<1> SUFFICES ASSUME IInv, [Next]_vars PROVE IInv'
  OBVIOUS
<1>1. CASE UNCHANGED vars
  BY <1>1 DEF vars, IInv, TypeOK, DequeIsSuffix, Dropped, LogSorted,
              ToldIsCovered, WindowBound
<1>2. CASE Tick
  BY <1>2, TickIInv
<1>3. ASSUME NEW k \in Keys, Allow(k) PROVE IInv'
  BY <1>3, GrantIInv, QuietIInv DEF Allow
<1>4. ASSUME NEW k \in Keys, Status(k) PROVE IInv'
  BY <1>4, StatusIInv
<1>5. ASSUME NEW k \in Keys, QuotaLeft(k) \/ RetryAfter(k) PROVE IInv'
  BY <1>5, QuietIInv
<1>6. QED
  BY <1>1, <1>2, <1>3, <1>4, <1>5 DEF Next

\* The invariant holds of every behaviour.
THEOREM Invariance == Spec => []IInv
<1>1. Init => IInv
  BY InitIInv
<1>2. IInv /\ [Next]_vars => IInv'
  BY StepIInv
<1>3. QED
  BY <1>1, <1>2, PTL DEF Spec

\* Type correctness: no deque ever holds more than max_events.
THEOREM TypeCorrect == Spec => []TypeOK
<1>1. IInv => TypeOK
  BY DEF IInv
<1>2. QED
  BY <1>1, Invariance, PTL

\* The limit is kept for every limit and window: any MaxEvents + 1
\* consecutive grants of a key span at least Per ticks.
THEOREM WindowBoundHolds == Spec => []WindowBound
<1>1. IInv => WindowBound
  BY DEF IInv
<1>2. QED
  BY <1>1, Invariance, PTL

\* A refused key has no slot left of those it was told, and half a hundredth
\* after its reset time has not come.
LEMMA RefusalIsHonest ==
  ASSUME IInv, NEW k \in Keys, Refuse(k)
  PROVE  ~Expects(k)
<1> DEFINE window == Cleanup(events[k], now)
           n == Len(granted[k])
<1>1. /\ now \in Nat /\ MaxEvents \in Nat \ {0} /\ Per \in Nat
      /\ told[k].slots \in 0 .. MaxEvents /\ told[k].opensAt \in Nat
      /\ \A i \in 1 .. n : granted[k][i] \in Nat
  BY LimitAssumption, ElementOfSeq DEF IInv, TypeOK
<1>2. /\ Len(window) \in 0 .. MaxEvents
      /\ n \in Nat /\ Len(window) <= n
      /\ \A i \in (n - Len(window)) + 1 .. n : granted[k][i] + Per > now
  BY CleanWindow
<1>3. Len(window) = MaxEvents
  BY <1>1, <1>2 DEF Refuse, Full
<1> HIDE DEF window, n
<1> DEFINE oldest == (n - MaxEvents) + 1
<1>4. /\ oldest \in 1 .. n
      /\ oldest + MaxEvents = n + 1
      /\ granted[k][oldest] + Per > now
  BY <1>1, <1>2, <1>3
<1> HIDE DEF oldest
<1>5. ~(told[k].slots > 0)
  <2>1. SUFFICES ASSUME told[k].slots > 0 PROVE FALSE
    OBVIOUS
  <2>2. oldest + MaxEvents <= n + told[k].slots
    BY <1>1, <1>2, <1>4, <2>1
  <2>3. granted[k][oldest] + Per <= now
    BY <1>4, <2>1, <2>2 DEF IInv, ToldIsCovered, n
  <2>4. QED
    BY <1>1, <1>4, <2>3
<1>6. ~(told[k].opensAt > 0 /\ 2 * told[k].opensAt + Unit <= 2 * now)
  <2>1. SUFFICES ASSUME told[k].opensAt > 0, 2 * told[k].opensAt + Unit <= 2 * now
                 PROVE  FALSE
    OBVIOUS
  <2>2. 2 * (granted[k][oldest] + Per) <= 2 * told[k].opensAt + Unit
    BY <1>2, <1>4, <2>1 DEF IInv, ToldIsCovered, n
  <2>3. granted[k][oldest] \in Nat
    BY <1>1, <1>4
  <2> DEFINE at == granted[k][oldest]
             opens == told[k].opensAt
  <2>4. /\ at \in Nat /\ opens \in Nat /\ at + Per > now
        /\ 2 * (at + Per) <= 2 * opens + Unit /\ 2 * opens + Unit <= 2 * now
    BY <1>1, <1>4, <2>1, <2>2, <2>3
  <2> HIDE DEF at, opens
  <2>5. QED
    BY <1>1, <2>4, LimitAssumption
<1>7. QED
  BY <1>5, <1>6 DEF Expects

\* The numbers sent to the client are honest but for the rounding of reset:
\* allow() never refuses a key that has a slot left of those it was told, or
\* whose reset time came half a hundredth of a second ago.
THEOREM HonestStatusHolds == Spec => HonestStatus
<1>1. IInv /\ [Next]_vars => [\A k \in Keys : Refuse(k) => ~Expects(k)]_vars
  BY RefusalIsHonest
<1>2. QED
  BY <1>1, Invariance, PTL DEF Spec, HonestStatus

-----------------------------------------------------------------------------

\* The cleaned deque holds as many events as the full log counts, and agrees
\* with the log on whether the window is full and how long to wait.
LEMMA DequeCountsTheLog ==
  ASSUME IInv, NEW k \in Keys
  PROVE  LET window == Cleanup(events[k], now)
         IN  /\ Ideal!Used(k) = Len(window)
             /\ Ideal!Full(k) <=> Full(window)
             /\ Ideal!Wait(k) = Wait(window, now)
<1> DEFINE window == Cleanup(events[k], now)
           n == Len(granted[k])
           d == n - Len(window)
<1>1. /\ now \in Nat /\ MaxEvents \in Nat \ {0} /\ Per \in Nat
      /\ granted[k] \in Seq(Nat)
      /\ DOMAIN granted[k] = 1 .. n
      /\ \A i \in 1 .. n : granted[k][i] \in Nat
  BY LimitAssumption, ElementOfSeq, LenProperties DEF IInv, TypeOK
<1>2. /\ Len(window) \in Nat /\ n \in Nat /\ Len(window) <= n
      /\ \A i \in 1 .. Len(window) : window[i] = granted[k][d + i]
      /\ \A i \in 1 .. d : granted[k][i] + Per <= now
      /\ \A i \in d + 1 .. n : granted[k][i] + Per > now
  BY CleanWindow, LimitAssumption
<1> HIDE DEF window, n
<1>9. d \in Nat /\ d <= n /\ n = d + Len(window)
  BY <1>2
<1> HIDE DEF d
<1>3. \A i \in 1 .. n : (granted[k][i] + Per > now) <=> (i \in d + 1 .. n)
  <2> SUFFICES ASSUME NEW i \in 1 .. n
               PROVE  (granted[k][i] + Per > now) <=> (i \in d + 1 .. n)
    OBVIOUS
  <2>1. granted[k][i] \in Nat
    BY <1>1
  <2>2. CASE i \in 1 .. d
    <3>1. granted[k][i] + Per <= now /\ i \notin d + 1 .. n
      BY <1>2, <1>9, <2>2
    <3>2. QED
      BY <1>1, <2>1, <3>1
  <2>3. CASE i \in d + 1 .. n
    BY <1>2, <2>3
  <2>4. QED
    BY <1>2, <1>9, <2>2, <2>3
<1>4. Ideal!Recent(k) = d + 1 .. n
  <2>1. Ideal!Recent(k) = {i \in 1 .. n : granted[k][i] + Per > now}
    BY <1>1 DEF Ideal!Recent
  <2>2. d + 1 .. n \subseteq 1 .. n
    BY <1>2, <1>9
  <2>3. QED
    BY <1>3, <2>1, <2>2
<1>5. Cardinality(Ideal!Recent(k)) = Len(window)
  <2>1. d + 1 \in Int /\ n \in Int
    BY <1>2, <1>9
  <2>2. Cardinality(d + 1 .. n) = IF d + 1 > n THEN 0 ELSE n - (d + 1) + 1
    BY <2>1, FS_Interval
  <2>3. QED
    BY <1>2, <1>4, <1>9, <2>2
<1>10. Ideal!Cardinality(Ideal!Recent(k)) = Cardinality(Ideal!Recent(k))
  BY Zenon DEF Ideal!Cardinality, Cardinality
<1>11. Ideal!Used(k) = Len(window)
  BY <1>5, <1>10 DEF Ideal!Used
<1>6. Ideal!Full(k) <=> Full(window)
  BY <1>11 DEF Ideal!Full, Full
<1>7. Ideal!Wait(k) = Wait(window, now)
  <2>1. CASE ~Full(window)
    BY <1>6, <2>1 DEF Ideal!Wait, Wait
  <2>2. CASE Full(window)
    <3>1. 1 \in 1 .. Len(window) /\ d + 1 \in d + 1 .. n
      BY <1>1, <1>2, <1>9, <2>2 DEF Full
    <3>2. \A i \in d + 1 .. n : d + 1 <= i /\ (i <= d + 1 => i = d + 1)
      BY <1>9
    <3>3. Ideal!Oldest(k) = d + 1
      BY <1>4, <3>1, <3>2 DEF Ideal!Oldest
    <3>4. window[1] = granted[k][d + 1]
      BY <1>2, <3>1
    <3>5. QED
      BY <1>6, <2>2, <3>3, <3>4 DEF Ideal!Wait, Wait
  <2>3. QED
    BY <2>1, <2>2
<1>8. QED
  BY <1>6, <1>7, <1>11 DEF window

\* The limiter implements the ideal window: its deque is only an optimisation
\* of the log, and every answer it gives is the log's.
THEOREM LimiterImplementsIdeal == Spec => ImplementsIdeal
<1>1. Init => Ideal!Init
  BY DEF Init, Ideal!Init, NoReply, Ideal!NoReply
<1>2. ASSUME IInv, [Next]_vars PROVE [Ideal!Next]_(Ideal!vars)
  <2> USE DEF Reply, Ideal!Reply
  <2>1. CASE UNCHANGED vars
    BY <2>1 DEF vars, Ideal!vars
  <2>2. CASE Tick
    BY <2>2 DEF Tick, Ideal!Tick, Ideal!Next
  <2>3. ASSUME NEW k \in Keys, Grant(k) PROVE Ideal!Grant(k)
    BY <1>2, <2>3, DequeCountsTheLog DEF Grant, Ideal!Grant
  <2>4. ASSUME NEW k \in Keys, Refuse(k) PROVE Ideal!Refuse(k)
    BY <1>2, <2>4, DequeCountsTheLog DEF Refuse, Ideal!Refuse
  <2>5. ASSUME NEW k \in Keys, QuotaLeft(k) \/ RetryAfter(k)
        PROVE  Ideal!Report(k)
    BY <1>2, <2>5, DequeCountsTheLog DEF QuotaLeft, RetryAfter, Ideal!Report
  <2>7. ASSUME NEW k \in Keys, Status(k) PROVE Ideal!Report(k)
    <3> DEFINE wait == Wait(Cleanup(events[k], now), now)
    <3>1. Ideal!Wait(k) = wait
      BY <1>2, DequeCountsTheLog
    <3>2. wait \in 0 .. Per
      BY <1>2, WaitInRange
    <3> HIDE DEF wait
    <3>3. /\ Rounded(wait) \in Nat
          /\ 2 * Rounded(wait) <= 2 * wait + Unit /\ 2 * wait <= 2 * Rounded(wait) + Unit
      BY <3>2, LimitAssumption, RoundedIsNear
    <3>4. Rounded(wait) \in 0 .. Per + Unit
      BY <3>2, <3>3, LimitAssumption
    <3>5. Rounded(wait) \in Ideal!Reported(k)
      BY <3>1, <3>3, <3>4 DEF Ideal!Reported
    <3>6. /\ answer' = Ideal!Reply(k, "status", MaxEvents - Ideal!Used(k), Rounded(wait))
          /\ UNCHANGED <<now, granted>>
      BY <1>2, <2>7, DequeCountsTheLog DEF Status, wait
    <3>7. QED
      BY <3>5, <3>6 DEF Ideal!Report
  <2>6. QED
    BY <1>2, <2>1, <2>2, <2>3, <2>4, <2>5, <2>7 DEF Next, Allow, Ideal!Next
<1>3. QED
  BY <1>1, <1>2, Invariance, PTL DEF Spec, ImplementsIdeal, Ideal!Spec
=============================================================================
