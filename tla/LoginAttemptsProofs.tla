-------------------------- MODULE LoginAttemptsProofs --------------------------
(***************************************************************************)
(* Proofs about LoginAttempts for any clients, any number of logins in     *)
(* flight, any limits and times.                                           *)
(*                                                                         *)
(* Both counters forget, one after a pause and one after a window, and     *)
(* both bounds come from what a counter still knows.  A login gets past    *)
(* the check only while its key is not locked; at that moment the guesses  *)
(* and the lock are bounded by the counter, and the logins that are past   *)
(* the check, InFlight, are the only ones that can add to them later.      *)
(***************************************************************************)
EXTENDS LoginAttempts, NumberLemmas, FiniteSetTheorems

\* Logins that have passed the check and may still record a failure.
InFlight(k) == { r \in Requests : request[r].pc \in {"compare", "fail"} /\ request[r].key = k }

Pending(k) == Cardinality(InFlight(k))

\* n doublings of a time.
Doubled(time, n) == time * PowerOfTwo[n]

\* The length of a lock if there were no MaxLock.
Uncapped(failures) == Doubled(BaseLock, failures - MaxFailures)

\* What locks can still become: the doublings of the logins in flight are within the
\* bound, or there is no new lock since a lock of that length.
Proportionate(failures, pending, length) ==
  \/ MaxLock <= length
  \/ Uncapped(failures) <= length
  \/ Uncapped(failures + pending) <= LongestLock(length)

\* Numbers of guesses that only grow with the time they are looked back.
Growing(past) == \A i, j \in 0..Window : i <= j => past[i] <= past[j]

\* The Map's record of a key, its history of guesses and the logins in flight.
MapOK(record, past, pending) ==
  /\ Growing(past)
  /\ record.failures = 0 => record.age = 0
  /\ past[Window] <= record.failures
  /\ \A i \in 0..Window : i < record.age => past[i] = 0
  /\ record.lock = 0 /\ record.failures >= MaxFailures => past[Window] = 0
  /\ past[Window] + pending <= Cardinality(Requests) + MaxFailures - 1
  /\ record.lock <= LongestLock(Window)
  /\ record.failures >= MaxFailures /\ record.age <= Window =>
       /\ LockTime(record.failures) <= record.lock + record.age
       /\ Proportionate(record.failures, pending, Window)

\* The same of Redis, whose counter has a window of its own.
RedisOK(record, past, pending) ==
  /\ Growing(past)
  /\ record.failures = 0 => past[0] = 0
  /\ past[Window] + pending <= Cardinality(Requests) + 2 * (MaxFailures - 1)
  /\ record.lock <= record.lag =>
       /\ record.failures = 0 => past[Window] <= MaxFailures - 1
       /\ record.failures \in 1..MaxFailures - 1 =>
            /\ past[Window - record.ttl] <= record.failures
            /\ past[Window] <= past[Window - record.ttl] + MaxFailures - 1
       /\ record.failures >= MaxFailures => past[Window] = 0
  /\ record.lock <= LongestLock(Window - 1 + MaxLag)
  /\ record.failures >= MaxFailures =>
       /\ LockTime(record.failures) <= record.lock + Window - record.ttl
       /\ Proportionate(record.failures, pending, Window - 1 + MaxLag)

\* Only the store that is in use is written to.
KeyOK(k) ==
  /\ redisEnabled => attempts[k] = NoAttempts
  /\ MapOK(attempts[k], guesses["map"][k], IF redisEnabled THEN 0 ELSE Pending(k))
  /\ RedisOK(redis[k], guesses["redis"][k], IF redisEnabled THEN Pending(k) ELSE 0)

StoresOK == \A k \in Keys : KeyOK(k)

\* A login that has begun has a key.
KeysKnown == \A r \in Requests : request[r].pc # "idle" => request[r].key \in Keys

IInv == TypeOK /\ KeysKnown /\ StoresOK
-------------------------------------------------------------------------------
(* Numbers.                                                                *)

LEMMA MinOfTwo ==
  ASSUME NEW a \in Nat, NEW b \in Nat
  PROVE  Min({a, b}) = IF a <= b THEN a ELSE b
BY DEF Min

LEMMA MaxOfTwo ==
  ASSUME NEW a \in Int, NEW b \in Int
  PROVE  Max({a, b}) = IF a >= b THEN a ELSE b
BY DEF Max

\* The recursive definition defines a function.
LEMMA PowerOfTwoDefined ==
  PowerOfTwo = [ n \in Nat |-> IF n = 0 THEN 1 ELSE 2 * PowerOfTwo[n - 1] ]
<1>1. PICK step : step = [ p \in Nat \X Nat |-> 2 * p[2] ]
  OBVIOUS
<1>2. step \in [Nat \X Nat -> Nat]
  BY <1>1
<1>3. \E f : Iterated(f, Nat, 1, step)
  BY <1>2, Iteration
<1>4. PICK f \in [Nat -> Nat] : f[0] = 1 /\ \A n \in Nat : f[n + 1] = step[<<n, f[n]>>]
  BY <1>3 DEF Iterated
<1>5. \A n \in Nat : f[n + 1] = 2 * f[n]
  BY <1>1, <1>4
<1>6. ASSUME NEW n \in Nat
      PROVE  f[n] = IF n = 0 THEN 1 ELSE 2 * f[n - 1]
  <2>1. CASE n = 0
    BY <1>4, <2>1
  <2>2. CASE n # 0
    <3>1. n - 1 \in Nat /\ (n - 1) + 1 = n
      BY <2>2
    <3> QED
      BY <1>5, <2>2, <3>1
  <2> QED
    BY <2>1, <2>2
<1>7. f = [ n \in Nat |-> IF n = 0 THEN 1 ELSE 2 * f[n - 1] ]
  BY <1>6
<1> QED
  BY <1>7 DEF PowerOfTwo

LEMMA PowerOfTwoStep ==
  PowerOfTwo[0] = 1 /\ \A n \in Nat : PowerOfTwo[n + 1] = 2 * PowerOfTwo[n]
<1>1. PowerOfTwo[0] = 1
  BY PowerOfTwoDefined
<1>2. ASSUME NEW n \in Nat
      PROVE  PowerOfTwo[n + 1] = 2 * PowerOfTwo[n]
  <2>1. n + 1 \in Nat /\ n + 1 # 0 /\ (n + 1) - 1 = n
    OBVIOUS
  <2> QED
    BY <2>1, PowerOfTwoDefined
<1> QED
  BY <1>1, <1>2

\* Powers of two are positive numbers.
LEMMA PowerOfTwoType ==
  \A n \in Nat : PowerOfTwo[n] \in Nat \ {0}
<1> DEFINE T == { n \in Nat : PowerOfTwo[n] \in Nat \ {0} }
<1>1. 0 \in T
  BY PowerOfTwoStep
<1>2. \A n \in Nat : n \in T => n + 1 \in T
  BY PowerOfTwoStep
<1>3. \A n \in Nat : n \in T
  BY <1>1, <1>2, SetInduction
<1> QED
  BY <1>3

\* More doublings give more.
LEMMA DoubledGrows ==
  ASSUME NEW a \in Nat, NEW m \in Nat, NEW n \in Nat
  PROVE  /\ Doubled(a, m) \in Nat
         /\ Doubled(a, m) <= Doubled(a, m + n)
<1> DEFINE T == { i \in Nat : a * PowerOfTwo[m] <= a * PowerOfTwo[m + i] }
<1>0. \A i \in Nat : PowerOfTwo[i] \in Nat /\ a * PowerOfTwo[i] \in Nat
  BY PowerOfTwoType
<1>1. 0 \in T
  BY <1>0
<1>2. ASSUME NEW i \in Nat, i \in T
      PROVE  i + 1 \in T
  <2>1. m + i \in Nat /\ (m + i) + 1 = m + (i + 1)
    OBVIOUS
  <2>2. PowerOfTwo[m + (i + 1)] = 2 * PowerOfTwo[m + i]
    BY <2>1, PowerOfTwoStep
  <2>3. PICK p \in Nat : p = PowerOfTwo[m + i]
    BY <1>0, <2>1
  <2>4. a * (2 * p) = 2 * (a * p) /\ a * p \in Nat
    OBVIOUS
  <2>5. a * PowerOfTwo[m + i] <= a * PowerOfTwo[m + (i + 1)]
    BY <2>2, <2>3, <2>4
  <2> QED
    BY <1>0, <1>2, <2>1, <2>5
<1>3. \A i \in Nat : i \in T
  BY <1>1, <1>2, SetInduction
<1> QED
  BY <1>0, <1>3 DEF Doubled

LEMMA DoubledOrdered ==
  ASSUME NEW a \in Nat, NEW m \in Nat, NEW n \in Nat, m <= n
  PROVE  /\ Doubled(a, m) \in Nat
         /\ Doubled(a, n) \in Nat
         /\ Doubled(a, m) <= Doubled(a, n)
<1>1. n - m \in Nat /\ m + (n - m) = n
  OBVIOUS
<1>2. Doubled(a, m) <= Doubled(a, m + (n - m))
  BY <1>1, DoubledGrows
<1> QED
  BY <1>1, <1>2, DoubledGrows

LEMMA DoubledOnce ==
  ASSUME NEW a \in Nat
  PROVE  Doubled(a, 0) = a
BY PowerOfTwoStep DEF Doubled

\* n doublings of what is at most b are at most n doublings of b.
LEMMA DoublingsBounded ==
  ASSUME NEW a \in Nat, NEW b \in Nat, NEW m \in Nat, NEW n \in Nat,
         Doubled(a, m) <= b
  PROVE  Doubled(a, m + n) <= Doubled(b, n)
<1> DEFINE T == { i \in Nat : a * PowerOfTwo[m + i] <= b * PowerOfTwo[i] }
<1>0. \A i \in Nat : PowerOfTwo[i] \in Nat
  BY PowerOfTwoType
<1>1. 0 \in T
  BY <1>0, PowerOfTwoStep DEF Doubled
<1>2. ASSUME NEW i \in Nat, i \in T
      PROVE  i + 1 \in T
  <2>1. m + i \in Nat /\ (m + i) + 1 = m + (i + 1)
    OBVIOUS
  <2>2. PowerOfTwo[m + (i + 1)] = 2 * PowerOfTwo[m + i] /\ PowerOfTwo[i + 1] = 2 * PowerOfTwo[i]
    BY <2>1, PowerOfTwoStep
  <2>3. PICK p \in Nat, q \in Nat : p = PowerOfTwo[m + i] /\ q = PowerOfTwo[i]
    BY <1>0, <2>1
  <2>4. a * (2 * p) = 2 * (a * p) /\ b * (2 * q) = 2 * (b * q) /\ a * p \in Nat /\ b * q \in Nat
    OBVIOUS
  <2>5. a * p <= b * q
    BY <1>2, <2>3
  <2> QED
    BY <2>2, <2>3, <2>4, <2>5
<1>3. \A i \in Nat : i \in T
  BY <1>1, <1>2, SetInduction
<1> QED
  BY <1>3 DEF Doubled

-------------------------------------------------------------------------------
(* Locks.                                                                  *)

LEMMA RequestsCounted ==
  /\ Cardinality(Requests) \in Nat \ {0}
  /\ \A S \in SUBSET Requests : /\ IsFiniteSet(S)
                                /\ Cardinality(S) \in Nat
                                /\ Cardinality(S) <= Cardinality(Requests)
BY LoginAttemptsAssumption, FS_CardinalityType, FS_EmptySet, FS_Subset

LEMMA UncappedOrdered ==
  ASSUME NEW m \in Nat, NEW n \in Nat, MaxFailures <= m, m <= n
  PROVE  /\ Uncapped(m) \in Nat
         /\ Uncapped(n) \in Nat
         /\ Uncapped(m) <= Uncapped(n)
<1> USE LoginAttemptsAssumption
<1>1. PICK i \in Nat : i = m - MaxFailures
  OBVIOUS
<1>2. PICK j \in Nat : j = n - MaxFailures
  OBVIOUS
<1>3. i <= j /\ BaseLock \in Nat
  BY <1>1, <1>2
<1>4. /\ Doubled(BaseLock, i) \in Nat
      /\ Doubled(BaseLock, j) \in Nat
      /\ Doubled(BaseLock, i) <= Doubled(BaseLock, j)
  BY <1>3, DoubledOrdered
<1> QED
  BY <1>1, <1>2, <1>4 DEF Uncapped

LEMMA UncappedDoublings ==
  ASSUME NEW n \in Nat, NEW q \in Nat, NEW length \in Nat,
         MaxFailures <= n, Uncapped(n) <= length
  PROVE  Uncapped(n + q) <= Doubled(length, q)
<1> USE LoginAttemptsAssumption
<1>1. PICK i \in Nat : i = n - MaxFailures
  OBVIOUS
<1>2. i + q = (n + q) - MaxFailures /\ BaseLock \in Nat /\ Doubled(BaseLock, i) <= length
  BY <1>1 DEF Uncapped
<1>3. Doubled(BaseLock, i + q) <= Doubled(length, q)
  BY <1>2, DoublingsBounded
<1> QED
  BY <1>2, <1>3 DEF Uncapped

\* A lock is never longer than its cap, and outlasts every call.
LEMMA LockTimes ==
  ASSUME NEW n \in Nat, n >= MaxFailures
  PROVE  /\ Uncapped(n) \in Nat
         /\ LockTime(n) = IF Uncapped(n) <= MaxLock THEN Uncapped(n) ELSE MaxLock
         /\ LockTime(n) \in 0..MaxLock
         /\ LockTime(n) <= Uncapped(n)
         /\ LockTime(n) > MaxLag
<1> USE LoginAttemptsAssumption
<1>1. n - MaxFailures \in Nat /\ 0 \in Nat /\ 0 <= n - MaxFailures
  OBVIOUS
<1>2. /\ Doubled(BaseLock, 0) <= Doubled(BaseLock, n - MaxFailures)
      /\ Doubled(BaseLock, n - MaxFailures) \in Nat
  BY <1>1, DoubledOrdered
<1>3. Doubled(BaseLock, 0) = BaseLock
  BY DoubledOnce
<1>4. Uncapped(n) \in Nat /\ BaseLock <= Uncapped(n)
  BY <1>1, <1>2, <1>3 DEF Uncapped
<1>5. LockTime(n) = IF Uncapped(n) <= MaxLock THEN Uncapped(n) ELSE MaxLock
  BY <1>4, MinOfTwo DEF LockTime, Uncapped, Doubled
<1> QED
  BY <1>4, <1>5

LEMMA LongestLocks ==
  ASSUME NEW length \in Nat
  PROVE  /\ LongestLock(length) \in Nat
         /\ \A p \in Nat : p < Cardinality(Requests) =>
              Doubled(BaseLock, p) \in Nat /\ Doubled(BaseLock, p) <= LongestLock(length)
         /\ \A p \in Nat : p <= Cardinality(Requests) =>
              Doubled(length, p) \in Nat /\ Doubled(length, p) <= LongestLock(length)
         /\ length <= LongestLock(length)
<1> USE LoginAttemptsAssumption
<1>1. PICK R \in Nat : R = Cardinality(Requests) /\ R # 0
  BY RequestsCounted
<1>2. PICK first : first = Doubled(BaseLock, R - 1)
  OBVIOUS
<1>3. PICK later : later = Doubled(length, R)
  OBVIOUS
<1>4. PICK before \in Nat : before = R - 1
  BY <1>1
<1>5. \A p \in Nat : p <= R => Doubled(length, p) \in Nat /\ Doubled(length, p) <= later
  BY <1>3, DoubledOrdered
<1>6. \A p \in Nat : p <= before => Doubled(BaseLock, p) \in Nat /\ Doubled(BaseLock, p) <= first
  BY <1>2, <1>4, DoubledOrdered
<1>7. first \in Nat /\ later \in Nat
  BY <1>2, <1>3, <1>4, <1>5, <1>6
<1>8. LongestLock(length) = IF first >= later THEN first ELSE later
  BY <1>1, <1>2, <1>3, <1>7, MaxOfTwo DEF LongestLock, Doubled
<1>9. length <= later
  BY <1>5, DoubledOnce
<1>10. first <= LongestLock(length) /\ later <= LongestLock(length) /\ LongestLock(length) \in Nat
  BY <1>7, <1>8
<1>11. ASSUME NEW p \in Nat, p < R
       PROVE  Doubled(BaseLock, p) \in Nat /\ Doubled(BaseLock, p) <= LongestLock(length)
  <2>1. p <= before
    BY <1>4, <1>11
  <2> QED
    BY <1>6, <1>7, <1>10, <2>1
<1>12. \A p \in Nat : p <= R =>
         Doubled(length, p) \in Nat /\ Doubled(length, p) <= LongestLock(length)
  BY <1>5, <1>7, <1>10
<1>13. length <= LongestLock(length)
  BY <1>7, <1>9, <1>10
<1> QED
  BY <1>1, <1>10, <1>11, <1>12, <1>13

\* With fewer logins in flight a bound on what locks can become still holds.
LEMMA FewerProportionate ==
  ASSUME NEW n \in Nat, NEW p \in Nat, NEW q \in Nat, NEW length \in Nat,
         n >= MaxFailures, q <= p, Proportionate(n, p, length)
  PROVE  Proportionate(n, q, length)
<1> USE LoginAttemptsAssumption
<1>1. PICK i \in Nat : i = n + q
  OBVIOUS
<1>2. PICK j \in Nat : j = n + p
  OBVIOUS
<1>3. MaxFailures <= i /\ i <= j
  BY <1>1, <1>2
<1>4. Uncapped(i) <= Uncapped(j) /\ Uncapped(i) \in Nat /\ Uncapped(j) \in Nat
  BY <1>3, UncappedOrdered
<1> QED
  BY <1>1, <1>2, <1>4, LongestLocks DEF Proportionate

\* The lock of one more failure.
LEMMA NextLock ==
  ASSUME NEW n \in Nat, NEW p \in Nat, NEW length \in Nat,
         n + 1 >= MaxFailures, p + 1 <= Cardinality(Requests),
         n >= MaxFailures => Proportionate(n, p + 1, length)
  PROVE  /\ LockTime(n + 1) <= LongestLock(length)
         /\ Proportionate(n + 1, p, length)
<1> USE LoginAttemptsAssumption
<1>1. PICK i \in Nat : i = n + 1
  OBVIOUS
<1>2. PICK j \in Nat : j = i + p
  OBVIOUS
<1>3. /\ LockTime(i) \in Nat /\ LockTime(i) <= MaxLock
      /\ LockTime(i) <= Uncapped(i) /\ Uncapped(i) \in Nat
      /\ Uncapped(i) <= Uncapped(j) /\ Uncapped(j) \in Nat
  BY <1>1, <1>2, LockTimes, UncappedOrdered
<1>4. LongestLock(length) \in Nat /\ length <= LongestLock(length)
  BY LongestLocks
<1>5. MaxLock <= length \/ Uncapped(j) <= LongestLock(length)
  <2>1. CASE i = MaxFailures
    <3>1. j - MaxFailures = p /\ p < Cardinality(Requests)
      BY <1>2, <2>1, RequestsCounted
    <3> QED
      BY <3>1, LongestLocks DEF Uncapped
  <2>2. CASE n >= MaxFailures /\ Uncapped(n) <= length
    <3>1. PICK q \in Nat : q = p + 1
      OBVIOUS
    <3>2. n + q = j /\ q <= Cardinality(Requests)
      BY <1>1, <1>2, <3>1
    <3>3. Uncapped(j) <= Doubled(length, q)
      BY <2>2, <3>2, UncappedDoublings
    <3> QED
      BY <1>3, <1>4, <3>2, <3>3, LongestLocks
  <2>3. CASE n >= MaxFailures /\ Uncapped(n + (p + 1)) <= LongestLock(length)
    <3>1. n + (p + 1) = j
      BY <1>1, <1>2
    <3> QED
      BY <2>3, <3>1
  <2> QED
    BY <1>1, <2>1, <2>2, <2>3 DEF Proportionate
<1>6. LockTime(i) <= LongestLock(length)
  BY <1>3, <1>4, <1>5
<1> QED
  BY <1>1, <1>2, <1>5, <1>6 DEF Proportionate

\* While nothing is locked, what a counter knows bounds the lock of the next failure.
LEMMA ProportionateAgain ==
  ASSUME NEW n \in Nat, NEW q, NEW length \in Nat,
         n >= MaxFailures, LockTime(n) <= length
  PROVE  Proportionate(n, q, length)
BY LockTimes DEF Proportionate

-------------------------------------------------------------------------------
(* What a step does to the record of one key.                              *)

MapRecords   == [failures : Nat, age : 0..Window + 1, lock : 0..MaxLock]
RedisRecords == [failures : Nat, ttl : 0..Window, lock : 0..MaxLock, lag : 0..MaxLag]
Pasts        == [0..Window -> Nat]

Consistent(record) == record.failures = 0 <=> record.ttl = 0

\* A failure is part of every past; a tick moves the past on.
OneMore(past) == [ i \in 0..Window |-> past[i] + 1 ]
Later(past)   == [ i \in 0..Window |-> IF i = 0 THEN 0 ELSE past[i - 1] ]

LEMMA NothingYet ==
  /\ NoAttempts \in MapRecords
  /\ NoKeys \in RedisRecords /\ Consistent(NoKeys)
  /\ NoGuesses \in Pasts
  /\ \A p \in Nat : p <= Cardinality(Requests) =>
       MapOK(NoAttempts, NoGuesses, p) /\ RedisOK(NoKeys, NoGuesses, p)
<1> USE LoginAttemptsAssumption
<1>1. Window \in 0..Window /\ Window \in Nat /\ Window - 1 + MaxLag \in Nat
  OBVIOUS
<1>2. LongestLock(Window) \in Nat /\ LongestLock(Window - 1 + MaxLag) \in Nat
  BY <1>1, LongestLocks
<1>3. \A i \in 0..Window : NoGuesses[i] = 0
  BY DEF NoGuesses
<1>4. NoAttempts \in MapRecords /\ NoKeys \in RedisRecords /\ Consistent(NoKeys)
  BY DEF NoAttempts, NoKeys, MapRecords, RedisRecords, Consistent
<1>5. NoGuesses \in Pasts
  BY DEF NoGuesses, Pasts
<1>6. Growing(NoGuesses)
  BY <1>3 DEF Growing
<1>7. PICK R \in Nat : R = Cardinality(Requests)
  BY RequestsCounted
<1>8. ASSUME NEW p \in Nat, p <= R
      PROVE  MapOK(NoAttempts, NoGuesses, p)
  BY <1>1, <1>2, <1>3, <1>6, <1>7, <1>8 DEF MapOK, NoAttempts
<1>9. ASSUME NEW p \in Nat, p <= R
      PROVE  RedisOK(NoKeys, NoGuesses, p)
  BY <1>1, <1>2, <1>3, <1>6, <1>7, <1>9 DEF RedisOK, NoKeys
<1> QED
  BY <1>4, <1>5, <1>7, <1>8, <1>9

LEMMA PastsMove ==
  ASSUME NEW past \in Pasts, Growing(past)
  PROVE  /\ OneMore(past) \in Pasts /\ Growing(OneMore(past))
         /\ Later(past) \in Pasts /\ Growing(Later(past))
         /\ Later(past)[Window] <= past[Window]
<1> USE LoginAttemptsAssumption
<1>1. \A i \in 0..Window : past[i] \in Nat
  BY DEF Pasts
<1>2. \A i \in 0..Window : i # 0 => i - 1 \in 0..Window
  OBVIOUS
<1>3. OneMore(past) \in Pasts /\ Growing(OneMore(past))
  BY <1>1 DEF OneMore, Pasts, Growing
<1>4. Later(past) \in Pasts
  BY <1>1, <1>2 DEF Later, Pasts
<1>5. Growing(Later(past))
  <2> SUFFICES ASSUME NEW i \in 0..Window, NEW j \in 0..Window, i <= j
               PROVE  Later(past)[i] <= Later(past)[j]
    BY DEF Growing
  <2>1. CASE i = 0
    BY <1>4, <2>1 DEF Later, Pasts
  <2>2. CASE i # 0
    <3>1. j # 0 /\ i - 1 <= j - 1 /\ i - 1 \in 0..Window /\ j - 1 \in 0..Window
      BY <2>2
    <3>2. past[i - 1] <= past[j - 1]
      BY <3>1 DEF Growing
    <3> QED
      BY <2>2, <3>1, <3>2 DEF Later
  <2> QED
    BY <2>1, <2>2
<1>6. Later(past)[Window] <= past[Window]
  <2>1. Window \in 0..Window /\ Window - 1 \in 0..Window /\ Window - 1 <= Window /\ Window # 0
    OBVIOUS
  <2>2. past[Window - 1] <= past[Window]
    BY <2>1 DEF Growing
  <2> QED
    BY <2>1, <2>2 DEF Later
<1> QED
  BY <1>3, <1>4, <1>5, <1>6

\* Fewer logins in flight.
LEMMA MapFewer ==
  ASSUME NEW record \in MapRecords, NEW past \in Pasts, NEW p \in Nat, NEW q \in Nat,
         MapOK(record, past, p), q <= p
  PROVE  MapOK(record, past, q)
<1> USE LoginAttemptsAssumption
<1>1. record.failures \in Nat /\ past[Window] \in Nat /\ Window \in Nat
  BY DEF MapRecords, Pasts
<1>2. record.failures >= MaxFailures /\ Proportionate(record.failures, p, Window)
        => Proportionate(record.failures, q, Window)
  BY <1>1, FewerProportionate
<1>3. past[Window] + q <= Cardinality(Requests) + MaxFailures - 1
  BY <1>1, RequestsCounted DEF MapOK
<1> QED
  BY <1>2, <1>3 DEF MapOK

LEMMA RedisFewer ==
  ASSUME NEW record \in RedisRecords, NEW past \in Pasts, NEW p \in Nat, NEW q \in Nat,
         RedisOK(record, past, p), q <= p
  PROVE  RedisOK(record, past, q)
<1> USE LoginAttemptsAssumption
<1>1. record.failures \in Nat /\ past[Window] \in Nat /\ Window - 1 + MaxLag \in Nat
  BY DEF RedisRecords, Pasts
<1>2. record.failures >= MaxFailures /\ Proportionate(record.failures, p, Window - 1 + MaxLag)
        => Proportionate(record.failures, q, Window - 1 + MaxLag)
  BY <1>1, FewerProportionate
<1>3. past[Window] + q <= Cardinality(Requests) + 2 * (MaxFailures - 1)
  BY <1>1, RequestsCounted DEF RedisOK
<1> QED
  BY <1>2, <1>3 DEF RedisOK

\* A record that is dropped or swept was past its window and not locked.
LEMMA MapDropped ==
  ASSUME NEW record \in MapRecords, NEW past \in Pasts, NEW p \in Nat,
         MapOK(record, past, p), p <= Cardinality(Requests), record.age > Window
  PROVE  MapOK(NoAttempts, past, p)
<1> USE LoginAttemptsAssumption
<1>1. \A i \in 0..Window : past[i] = 0
  BY DEF MapOK, MapRecords
<1>2. Window \in 0..Window /\ LongestLock(Window) \in Nat
  BY LongestLocks
<1>3. PICK R \in Nat : R = Cardinality(Requests)
  BY RequestsCounted
<1> QED
  BY <1>1, <1>2, <1>3 DEF MapOK, NoAttempts

\* A login gets past the check.
LEMMA MapPassed ==
  ASSUME NEW record \in MapRecords, NEW past \in Pasts, NEW p \in Nat, NEW q \in Nat,
         MapOK(record, past, p), q <= Cardinality(Requests), record.lock = 0
  PROVE  MapOK(record, past, q)
<1> USE LoginAttemptsAssumption
<1>1. /\ record.failures \in Nat /\ record.age \in Nat
      /\ past[Window] \in Nat /\ Window \in Nat
  BY DEF MapRecords, Pasts
<1>2. past[Window] + q <= Cardinality(Requests) + MaxFailures - 1
  BY <1>1, RequestsCounted DEF MapOK
<1>3. ASSUME record.failures >= MaxFailures, record.age <= Window
      PROVE  Proportionate(record.failures, q, Window)
  <2>1. LockTime(record.failures) <= record.age
    BY <1>1, <1>3, LockTimes DEF MapOK
  <2>2. LockTime(record.failures) <= Window
    BY <1>1, <1>3, <2>1, LockTimes
  <2> QED
    BY <1>1, <1>3, <2>2, ProportionateAgain
<1> QED
  BY <1>2, <1>3 DEF MapOK

LEMMA RedisPassed ==
  ASSUME NEW record \in RedisRecords, NEW past \in Pasts, NEW p \in Nat, NEW q \in Nat,
         RedisOK(record, past, p), q <= Cardinality(Requests), Consistent(record),
         record.lock <= record.lag
  PROVE  RedisOK(record, past, q)
<1> USE LoginAttemptsAssumption
<1>1. /\ record.failures \in Nat /\ record.ttl \in 0..Window /\ record.lag \in 0..MaxLag
      /\ record.lock \in Nat
      /\ past[Window] \in Nat /\ Window - 1 + MaxLag \in Nat
  BY DEF RedisRecords, Pasts
<1>2. past[Window] + q <= Cardinality(Requests) + 2 * (MaxFailures - 1)
  <2>1. PICK R \in Nat : R = Cardinality(Requests)
    BY RequestsCounted
  <2>2. CASE record.failures = 0
    BY <1>1, <2>1, <2>2 DEF RedisOK
  <2>3. CASE record.failures \in 1..MaxFailures - 1
    <3>1. PICK i \in 0..Window : i = Window - record.ttl
      BY <1>1
    <3>2. /\ past[i] \in Nat
          /\ past[i] <= record.failures
          /\ past[Window] <= past[i] + MaxFailures - 1
      BY <2>3, <3>1 DEF RedisOK, Pasts
    <3> QED
      BY <1>1, <2>1, <2>3, <3>2
  <2>4. CASE record.failures >= MaxFailures
    BY <1>1, <2>1, <2>4 DEF RedisOK
  <2> QED
    BY <1>1, <2>2, <2>3, <2>4
<1>3. ASSUME record.failures >= MaxFailures
      PROVE  Proportionate(record.failures, q, Window - 1 + MaxLag)
  <2>1. LockTime(record.failures) <= record.lock + Window - record.ttl /\ record.ttl # 0
    BY <1>1, <1>3 DEF RedisOK, Consistent
  <2>2. LockTime(record.failures) <= Window - 1 + MaxLag
    BY <1>1, <1>3, <2>1, LockTimes
  <2> QED
    BY <1>1, <1>3, <2>2, ProportionateAgain
<1> QED
  BY <1>2, <1>3 DEF RedisOK

\* A failure is recorded: one login in flight less, one guess more.
LEMMA MapFailed ==
  ASSUME NEW record \in MapRecords, NEW past \in Pasts, NEW p \in Nat,
         MapOK(record, past, p + 1), p + 1 <= Cardinality(Requests)
  PROVE  /\ FailedInMemory(record) \in MapRecords
         /\ MapOK(FailedInMemory(record), OneMore(past), p)
<1> USE LoginAttemptsAssumption
<1>1. /\ record.failures \in Nat /\ record.age \in 0..Window + 1
      /\ record.lock \in 0..MaxLock /\ Window \in Nat /\ Window \in 0..Window
  BY DEF MapRecords
<1>2. PICK counts \in BOOLEAN : counts <=> record.failures > 0 /\ record.age <= Window
  OBVIOUS
<1>3. PICK n \in Nat : n = IF counts THEN record.failures + 1 ELSE 1
  BY <1>1
<1>4. PICK new : new = FailedInMemory(record)
  OBVIOUS
<1>5. /\ new.failures = n
      /\ new.age = 0
      /\ new.lock = IF n >= MaxFailures THEN LockTime(n) ELSE record.lock
  BY <1>2, <1>3, <1>4 DEF FailedInMemory
<1>6. n >= MaxFailures => LockTime(n) \in 0..MaxLock /\ LockTime(n) # 0
  BY LockTimes
<1>7. new \in MapRecords
  BY <1>1, <1>2, <1>3, <1>4, <1>6 DEF MapRecords, FailedInMemory
<1>8. \A i \in 0..Window : OneMore(past)[i] = past[i] + 1 /\ past[i] \in Nat
  BY DEF OneMore, Pasts
<1>9. past[Window] + 1 <= n
  BY <1>1, <1>2, <1>3, <1>8 DEF MapOK
<1>10. past[Window] + 1 + p <= Cardinality(Requests) + MaxFailures - 1
  <2>1. PICK R \in Nat : R = Cardinality(Requests)
    BY RequestsCounted
  <2> QED
    BY <1>1, <1>8, <2>1 DEF MapOK
<1>11. ASSUME n >= MaxFailures
       PROVE  LockTime(n) <= LongestLock(Window) /\ Proportionate(n, p, Window)
  <2>1. CASE n = record.failures + 1 /\ record.age <= Window
    <3>1. record.failures >= MaxFailures => Proportionate(record.failures, p + 1, Window)
      BY <2>1 DEF MapOK
    <3> QED
      BY <1>1, <1>11, <2>1, <3>1, NextLock
  <2>2. CASE n = 1
    <3>1. PICK m \in Nat : m = 0 /\ n = m + 1 /\ ~(m >= MaxFailures)
      BY <2>2, LoginAttemptsAssumption
    <3> QED
      BY <1>1, <1>11, <3>1, NextLock
  <2> QED
    BY <1>2, <1>3, <2>1, <2>2
<1>12. Growing(OneMore(past))
  BY PastsMove DEF MapOK
<1>13. new.lock <= LongestLock(Window)
  BY <1>5, <1>11 DEF MapOK
<1>14. n >= MaxFailures => LockTime(n) <= new.lock + new.age
  BY <1>5, <1>6
<1>15. OneMore(past)[Window] <= n /\ OneMore(past)[Window] + p <= Cardinality(Requests) + MaxFailures - 1
  BY <1>1, <1>8, <1>9, <1>10
<1>16. n # 0
  BY <1>1, <1>3
<1>17. ~(new.lock = 0 /\ n >= MaxFailures)
  BY <1>5, <1>6
<1>18. MapOK(new, OneMore(past), p)
  BY <1>5, <1>11, <1>12, <1>13, <1>14, <1>15, <1>16, <1>17 DEF MapOK
<1> QED
  BY <1>4, <1>7, <1>18

LEMMA RedisFailed ==
  ASSUME NEW record \in RedisRecords, NEW past \in Pasts, NEW p \in Nat, NEW lag \in 0..MaxLag,
         Consistent(record), RedisOK(record, past, p + 1), p + 1 <= Cardinality(Requests)
  PROVE  /\ FailedInRedis(record, lag) \in RedisRecords
         /\ Consistent(FailedInRedis(record, lag))
         /\ RedisOK(FailedInRedis(record, lag), OneMore(past), p)
<1> USE LoginAttemptsAssumption
<1> DEFINE length == Window - 1 + MaxLag
<1>1. /\ record.failures \in Nat /\ record.ttl \in 0..Window
      /\ record.lock \in 0..MaxLock /\ record.lag \in 0..MaxLag
      /\ length \in Nat /\ 0 \in 0..Window /\ Window \in 0..Window
  BY DEF RedisRecords
<1>2. PICK n \in Nat : n = record.failures + 1
  BY <1>1
<1>3. PICK new : new = FailedInRedis(record, lag)
  OBVIOUS
<1>4. /\ new.failures = n
      /\ new.ttl = IF n = 1 THEN Window ELSE record.ttl
      /\ new.lock = IF n >= MaxFailures THEN LockTime(n) ELSE record.lock
      /\ new.lag = IF n >= MaxFailures THEN lag ELSE record.lag
  BY <1>2, <1>3 DEF FailedInRedis
<1>5. n >= MaxFailures => LockTime(n) \in 0..MaxLock /\ LockTime(n) > MaxLag
  BY LockTimes
<1>6. new \in RedisRecords
  BY <1>1, <1>2, <1>3, <1>5 DEF RedisRecords, FailedInRedis
<1>7. new.ttl \in 1..Window /\ n # 0
  BY <1>1, <1>2, <1>4 DEF Consistent
<1>8. Consistent(new)
  BY <1>4, <1>7 DEF Consistent
<1>9. \A i \in 0..Window : OneMore(past)[i] = past[i] + 1 /\ past[i] \in Nat
  BY DEF OneMore, Pasts
<1>10. OneMore(past)[Window] + p <= Cardinality(Requests) + 2 * (MaxFailures - 1)
  <2>1. PICK R \in Nat : R = Cardinality(Requests)
    BY RequestsCounted
  <2> QED
    BY <1>1, <1>9, <2>1 DEF RedisOK
<1>11. ASSUME n >= MaxFailures
       PROVE  LockTime(n) <= LongestLock(length) /\ Proportionate(n, p, length)
  <2>1. record.failures >= MaxFailures => Proportionate(record.failures, p + 1, length)
    BY DEF RedisOK
  <2> QED
    BY <1>1, <1>2, <1>11, <2>1, NextLock
<1>12. Growing(OneMore(past))
  BY PastsMove DEF RedisOK
<1>13. new.lock <= LongestLock(length)
  BY <1>4, <1>11 DEF RedisOK
<1>14. n >= MaxFailures => LockTime(n) <= new.lock + Window - new.ttl
  BY <1>4, <1>5, <1>7
<1>15. ASSUME new.lock <= new.lag
       PROVE  /\ n < MaxFailures
              /\ OneMore(past)[Window - new.ttl] <= n
              /\ OneMore(past)[Window] <= OneMore(past)[Window - new.ttl] + MaxFailures - 1
  <2>1. n < MaxFailures /\ record.lock <= record.lag
    BY <1>4, <1>5, <1>15
  <2>2. CASE n = 1
    <3>1. record.failures = 0 /\ new.ttl = Window /\ Window - new.ttl = 0
      BY <1>1, <1>2, <1>4, <2>2
    <3>2. past[0] = 0 /\ past[Window] <= MaxFailures - 1
      BY <2>1, <3>1 DEF RedisOK
    <3> QED
      BY <1>1, <1>9, <2>1, <2>2, <3>1, <3>2
  <2>3. CASE n # 1
    <3>1. record.failures \in 1..MaxFailures - 1 /\ new.ttl = record.ttl
      BY <1>1, <1>2, <1>4, <2>1, <2>3
    <3>2. PICK i \in 0..Window : i = Window - record.ttl
      BY <1>1
    <3>3. past[i] <= record.failures /\ past[Window] <= past[i] + MaxFailures - 1
      BY <2>1, <3>1, <3>2 DEF RedisOK
    <3> QED
      BY <1>1, <1>2, <1>9, <2>1, <3>1, <3>2, <3>3
  <2> QED
    BY <2>2, <2>3
<1>16. RedisOK(new, OneMore(past), p)
  <2> HIDE DEF length
  <2>1. n >= MaxFailures => Proportionate(n, p, Window - 1 + MaxLag)
    BY <1>11 DEF length
  <2>2. new.lock <= LongestLock(Window - 1 + MaxLag)
    BY <1>13 DEF length
  <2>3. ~(n >= MaxFailures /\ n < MaxFailures)
    OBVIOUS
  <2> QED
    BY <1>4, <1>7, <1>10, <1>12, <1>14, <1>15, <2>1, <2>2, <2>3 DEF RedisOK
<1> QED
  BY <1>3, <1>6, <1>8, <1>16

\* Time passes; a lock that ends with it starts the guesses anew.
LEMMA MapOlder ==
  ASSUME NEW record \in MapRecords, NEW past \in Pasts, NEW p \in Nat, NEW next,
         MapOK(record, past, p),
         next = IF record.lock > 0 /\ ~(OlderAttempts(record).lock > 0)
                  THEN NoGuesses ELSE Later(past)
  PROVE  /\ OlderAttempts(record) \in MapRecords
         /\ next \in Pasts
         /\ MapOK(OlderAttempts(record), next, p)
<1> USE LoginAttemptsAssumption
<1>1. /\ record.failures \in Nat /\ record.age \in 0..Window + 1
      /\ record.lock \in 0..MaxLock /\ Window \in Nat /\ Window \in 0..Window
  BY DEF MapRecords
<1>2. PICK new : new = OlderAttempts(record)
  OBVIOUS
<1>3. /\ new.failures = record.failures
      /\ new.age = IF record.failures = 0 THEN 0
                   ELSE IF record.age <= Window THEN record.age + 1 ELSE Window + 1
      /\ new.lock = IF record.lock > 0 THEN record.lock - 1 ELSE 0
      /\ new \in [failures : Nat, age : {new.age}, lock : {new.lock}]
  <2>1. Min({record.age + 1, Window + 1}) =
          IF record.age <= Window THEN record.age + 1 ELSE Window + 1
    BY <1>1, MinOfTwo
  <2>2. Max({record.lock - 1, 0}) = IF record.lock > 0 THEN record.lock - 1 ELSE 0
    BY <1>1, MaxOfTwo
  <2> QED
    BY <1>1, <1>2, <2>1, <2>2 DEF OlderAttempts, MapRecords
<1>4. new \in MapRecords
  BY <1>1, <1>3 DEF MapRecords
<1>5. next \in Pasts /\ Growing(next) /\ next[Window] <= past[Window] /\ next[Window] \in Nat
  <2>1. NoGuesses \in Pasts /\ Growing(NoGuesses) /\ NoGuesses[Window] = 0
    BY <1>1, NothingYet DEF Growing, NoGuesses
  <2>2. Later(past) \in Pasts /\ Growing(Later(past)) /\ Later(past)[Window] <= past[Window]
    BY PastsMove DEF MapOK
  <2>3. next = NoGuesses \/ next = Later(past)
    OBVIOUS
  <2>4. past[Window] \in Nat
    BY <1>1 DEF Pasts
  <2>5. next \in Pasts /\ Growing(next)
    BY <2>1, <2>2, <2>3
  <2>6. next[Window] <= past[Window]
    BY <2>1, <2>2, <2>3, <2>4
  <2> QED
    BY <1>1, <2>5, <2>6 DEF Pasts
<1>6. ASSUME NEW i \in 0..Window, i < new.age
      PROVE  next[i] = 0
  <2>1. CASE i = 0 \/ next = NoGuesses
    BY <2>1 DEF NoGuesses, Later
  <2>2. CASE i # 0 /\ next = Later(past)
    <3>1. i - 1 \in 0..Window /\ i - 1 < record.age
      BY <1>1, <1>3, <1>6, <2>2
    <3>2. past[i - 1] = 0
      BY <3>1 DEF MapOK
    <3> QED
      BY <2>2, <3>2 DEF Later
  <2> QED
    BY <2>1, <2>2
<1>7. ASSUME new.lock = 0, new.failures >= MaxFailures
      PROVE  next[Window] = 0
  <2>1. CASE record.lock > 0
    BY <1>1, <1>2, <1>7, <2>1 DEF NoGuesses
  <2>2. CASE record.lock = 0
    BY <1>1, <1>3, <1>5, <1>7, <2>2 DEF MapOK, Pasts
  <2> QED
    BY <1>1, <2>1, <2>2
<1>8. past[Window] \in Nat /\ next[Window] <= new.failures
  <2>1. past[Window] \in Nat
    BY <1>1 DEF Pasts
  <2>2. past[Window] <= record.failures /\ new.failures = record.failures /\ record.failures \in Nat
    BY <1>1, <1>3 DEF MapOK, MapRecords
  <2>3. next[Window] <= past[Window] /\ next[Window] \in Nat
    BY <1>5
  <2> QED
    BY <2>1, <2>2, <2>3
<1>9. next[Window] + p <= Cardinality(Requests) + MaxFailures - 1
  <2>1. PICK R \in Nat : R = Cardinality(Requests)
    BY RequestsCounted
  <2> QED
    BY <1>1, <1>5, <1>8, <2>1 DEF MapOK
<1>10. new.lock <= LongestLock(Window)
  BY <1>1, <1>3, LongestLocks DEF MapOK
<1>11. ASSUME new.failures >= MaxFailures, new.age <= Window
       PROVE  /\ LockTime(new.failures) <= new.lock + new.age
              /\ Proportionate(new.failures, p, Window)
  <2>1. record.failures # 0 /\ record.age <= Window /\ new.age = record.age + 1
    BY <1>1, <1>3, <1>11
  <2>2. LockTime(record.failures) \in Nat
    BY <1>1, <1>3, <1>11, LockTimes
  <2>3. LockTime(record.failures) <= record.lock + record.age
    BY <1>3, <1>11, <2>1 DEF MapOK
  <2>4. LockTime(record.failures) <= new.lock + new.age
    BY <1>1, <1>3, <2>1, <2>2, <2>3
  <2> QED
    BY <1>3, <1>11, <2>1, <2>4 DEF MapOK
<1>12. new.failures = 0 => new.age = 0
  BY <1>3
<1>13. MapOK(new, next, p)
  BY <1>5, <1>6, <1>7, <1>8, <1>9, <1>10, <1>11, <1>12 DEF MapOK
<1> QED
  BY <1>2, <1>4, <1>5, <1>13

LEMMA RedisOlder ==
  ASSUME NEW record \in RedisRecords, NEW past \in Pasts, NEW p \in Nat, NEW next,
         Consistent(record), RedisOK(record, past, p),
         next = IF record.lock > record.lag /\ ~(OlderKeys(record).lock > OlderKeys(record).lag)
                  THEN NoGuesses ELSE Later(past)
  PROVE  /\ OlderKeys(record) \in RedisRecords
         /\ Consistent(OlderKeys(record))
         /\ next \in Pasts
         /\ RedisOK(OlderKeys(record), next, p)
<1> USE LoginAttemptsAssumption
<1> DEFINE length == Window - 1 + MaxLag
<1>1. /\ record.failures \in Nat /\ record.ttl \in 0..Window
      /\ record.lock \in 0..MaxLock /\ record.lag \in 0..MaxLag
      /\ length \in Nat /\ 0 \in 0..Window /\ Window \in 0..Window
  BY DEF RedisRecords
<1>2. PICK new : new = OlderKeys(record)
  OBVIOUS
<1>3. /\ new.failures = IF record.ttl <= 1 THEN 0 ELSE record.failures
      /\ new.ttl = IF record.ttl > 0 THEN record.ttl - 1 ELSE 0
      /\ new.lock = IF record.lock > 0 THEN record.lock - 1 ELSE 0
      /\ new.lag = IF record.lock <= 1 THEN 0 ELSE record.lag
      /\ new \in [failures : {new.failures}, ttl : {new.ttl}, lock : {new.lock}, lag : {new.lag}]
  <2>1. Max({record.ttl - 1, 0}) = IF record.ttl > 0 THEN record.ttl - 1 ELSE 0
    BY <1>1, MaxOfTwo
  <2>2. Max({record.lock - 1, 0}) = IF record.lock > 0 THEN record.lock - 1 ELSE 0
    BY <1>1, MaxOfTwo
  <2> QED
    BY <1>1, <1>2, <2>1, <2>2 DEF OlderKeys
<1>4. new \in RedisRecords
  BY <1>1, <1>3 DEF RedisRecords
<1>5. Consistent(new)
  BY <1>1, <1>3 DEF Consistent
<1>6. /\ next \in Pasts /\ Growing(next) /\ next[Window] <= past[Window]
      /\ \A i \in 0..Window : next[i] \in Nat
      /\ next[0] = 0
  <2>1. NoGuesses \in Pasts /\ Growing(NoGuesses) /\ NoGuesses[Window] = 0 /\ NoGuesses[0] = 0
    BY <1>1, NothingYet DEF Growing, NoGuesses
  <2>2. /\ Later(past) \in Pasts /\ Growing(Later(past)) /\ Later(past)[Window] <= past[Window]
        /\ Later(past)[0] = 0
    BY <1>1, PastsMove DEF RedisOK, Later
  <2>3. next = NoGuesses \/ next = Later(past)
    OBVIOUS
  <2>4. past[Window] \in Nat
    BY <1>1 DEF Pasts
  <2>5. next \in Pasts /\ Growing(next) /\ next[0] = 0
    BY <2>1, <2>2, <2>3
  <2>6. next[Window] <= past[Window]
    BY <2>1, <2>2, <2>3, <2>4
  <2> QED
    BY <1>1, <2>5, <2>6 DEF Pasts
<1>7. \A i \in 0..Window : past[i] \in Nat
  BY DEF Pasts
<1>8. next[Window] + p <= Cardinality(Requests) + 2 * (MaxFailures - 1)
  <2>1. PICK R \in Nat : R = Cardinality(Requests)
    BY RequestsCounted
  <2> QED
    BY <1>1, <1>6, <1>7, <2>1 DEF RedisOK
<1>9. new.lock <= LongestLock(length)
  BY <1>1, <1>3, LongestLocks DEF RedisOK
<1>10. ASSUME new.failures >= MaxFailures
       PROVE  /\ LockTime(new.failures) <= new.lock + Window - new.ttl
              /\ Proportionate(new.failures, p, length)
  <2>1. new.failures = record.failures /\ record.ttl > 1
    BY <1>1, <1>3, <1>10
  <2>2. LockTime(record.failures) \in Nat
    BY <1>1, <1>10, <2>1, LockTimes
  <2>3. LockTime(record.failures) <= record.lock + Window - record.ttl
    BY <1>10, <2>1 DEF RedisOK
  <2>4. LockTime(record.failures) <= new.lock + Window - new.ttl
    BY <1>1, <1>3, <2>1, <2>2, <2>3
  <2> QED
    BY <1>10, <2>1, <2>4 DEF RedisOK
<1>11. ASSUME new.lock <= new.lag
       PROVE  /\ new.failures = 0 => next[Window] <= MaxFailures - 1
              /\ new.failures \in 1..MaxFailures - 1 =>
                   /\ next[Window - new.ttl] <= new.failures
                   /\ next[Window] <= next[Window - new.ttl] + MaxFailures - 1
              /\ new.failures >= MaxFailures => next[Window] = 0
  <2>1. CASE next = NoGuesses
    <3>1. \A i \in 0..Window : next[i] = 0
      BY <2>1 DEF NoGuesses
    <3>2. Window - new.ttl \in 0..Window
      BY <1>1, <1>3
    <3> QED
      BY <1>1, <3>1, <3>2
  <2>2. CASE next # NoGuesses
    <3>1. record.lock <= record.lag /\ next = Later(past)
      BY <1>1, <1>2, <1>3, <1>11, <2>2
    <3>2. PICK i \in 0..Window : i = Window - record.ttl
      BY <1>1
    <3>3. record.ttl > 0 => next[i + 1] = past[i] /\ i + 1 \in 0..Window
      <4> SUFFICES ASSUME record.ttl > 0
                   PROVE  next[i + 1] = past[i] /\ i + 1 \in 0..Window
        OBVIOUS
      <4>1. i + 1 \in 0..Window /\ i + 1 # 0 /\ (i + 1) - 1 = i
        BY <1>1, <3>2
      <4> QED
        BY <3>1, <4>1 DEF Later
    <3>4. CASE record.failures = 0
      BY <1>1, <1>3, <1>5, <1>6, <1>7, <3>1, <3>4 DEF RedisOK, Consistent
    <3>5. CASE record.failures \in 1..MaxFailures - 1
      <4>1. /\ past[i] <= record.failures
            /\ past[Window] <= past[i] + MaxFailures - 1
            /\ record.ttl > 0
        BY <1>1, <3>1, <3>2, <3>5 DEF RedisOK, Consistent
      <4>2. CASE record.ttl = 1
        <5>1. i + 1 = Window
          BY <1>1, <3>2, <4>2
        <5>2. next[Window] <= MaxFailures - 1 /\ new.failures = 0
          BY <1>1, <1>3, <1>7, <3>3, <3>5, <4>1, <4>2, <5>1
        <5> QED
          BY <5>2
      <4>3. CASE record.ttl > 1
        <5>1. Window - new.ttl = i + 1 /\ new.failures = record.failures
          BY <1>1, <1>3, <3>2, <4>3
        <5>2. next[i + 1] <= new.failures /\ next[Window] <= next[i + 1] + MaxFailures - 1
          BY <1>1, <1>6, <1>7, <3>3, <4>1, <5>1
        <5>3. new.failures # 0 /\ ~(new.failures >= MaxFailures)
          BY <1>1, <3>5, <5>1
        <5> QED
          BY <5>1, <5>2, <5>3
      <4> QED
        BY <1>1, <4>1, <4>2, <4>3
    <3>6. CASE record.failures >= MaxFailures
      <4>1. past[Window] = 0
        BY <3>1, <3>6 DEF RedisOK
      <4>2. next[Window] = 0
        BY <1>1, <1>6, <4>1
      <4>3. new.failures \notin 1..MaxFailures - 1
        BY <1>1, <1>3, <3>6
      <4> QED
        BY <4>2, <4>3
    <3> QED
      BY <1>1, <3>4, <3>5, <3>6
  <2> QED
    BY <2>1, <2>2
<1>12. RedisOK(new, next, p)
  <2> HIDE DEF length
  <2>1. new.failures >= MaxFailures => Proportionate(new.failures, p, Window - 1 + MaxLag)
    BY <1>10 DEF length
  <2>2. new.lock <= LongestLock(Window - 1 + MaxLag)
    BY <1>9 DEF length
  <2> QED
    BY <1>6, <1>8, <1>10, <1>11, <2>1, <2>2 DEF RedisOK
<1> QED
  BY <1>2, <1>4, <1>5, <1>6, <1>12

-------------------------------------------------------------------------------
(* Requests.                                                               *)

Steps == {"idle", "check", "compare", "succeed", "fail", "recheck"}
Slots == [pc : Steps, key : Keys \cup {None}, lag : 0..MaxLag]

LEMMA TypeParts ==
  TypeOK <=>
    /\ redisEnabled \in BOOLEAN
    /\ attempts \in [Keys -> MapRecords]
    /\ redis \in [Keys -> RedisRecords]
    /\ \A k \in Keys : Consistent(redis[k])
    /\ sinceCleanup \in 0..CleanupInterval
    /\ request \in [Requests -> Slots]
    /\ guesses \in [{"map", "redis"} -> [Keys -> Pasts]]
BY DEF TypeOK, MapRecords, RedisRecords, Consistent, Slots, Steps, Pasts

LEMMA PendingCounted ==
  ASSUME NEW k
  PROVE  /\ Pending(k) \in Nat /\ Pending(k) <= Cardinality(Requests)
         /\ Pending(k)' \in Nat /\ Pending(k)' <= Cardinality(Requests)
<1>1. InFlight(k) \in SUBSET Requests /\ InFlight(k)' \in SUBSET Requests
  BY DEF InFlight
<1> QED
  BY <1>1, RequestsCounted DEF Pending

LEMMA PendingLess ==
  ASSUME NEW k, InFlight(k)' \subseteq InFlight(k)
  PROVE  Pending(k)' <= Pending(k)
<1>1. InFlight(k) \in SUBSET Requests
  BY DEF InFlight
<1> QED
  BY <1>1, RequestsCounted, FS_Subset DEF Pending

LEMMA PendingFailed ==
  ASSUME NEW k, NEW r \in InFlight(k), InFlight(k)' = InFlight(k) \ {r}
  PROVE  Pending(k) = Pending(k)' + 1
<1>1. InFlight(k) \in SUBSET Requests
  BY DEF InFlight
<1>2. IsFiniteSet(InFlight(k))
  BY <1>1, RequestsCounted
<1>3. Cardinality(InFlight(k) \ {r}) = Cardinality(InFlight(k)) - 1
  BY <1>2, FS_RemoveElement
<1> QED
  BY <1>3, PendingCounted DEF Pending

\* A login goes on to its next step, or is answered.
LEMMA Moves ==
  ASSUME NEW r \in Requests, NEW step \in Steps, TypeOK, KeysKnown, request[r].pc # "idle",
         Go(r, step) \/ Respond(r)
  PROVE  /\ request' \in [Requests -> Slots]
         /\ KeysKnown'
         /\ \A k \in Keys : InFlight(k)' \subseteq InFlight(k) \cup {r}
         /\ \A k \in Keys : r \in InFlight(k)' => k = request[r].key /\ Go(r, step)
         /\ step \notin {"compare", "fail"} \/ Respond(r) =>
              \A k \in Keys : InFlight(k)' = InFlight(k) \ {r}
<1> USE LoginAttemptsAssumption
<1>1. request \in [Requests -> Slots]
  BY TypeParts
<1>2. \A q \in Requests : q # r => request'[q] = request[q]
  BY <1>1 DEF Go, Respond
<1>3. CASE Go(r, step)
  <2>1. /\ request'[r].pc = step /\ request'[r].key = request[r].key
        /\ request' \in [Requests -> Slots]
    <3>1. request[r] \in Slots /\ 0 \in 0..MaxLag
      BY <1>1
    <3>2. request' = [request EXCEPT ![r] = [request[r] EXCEPT !.pc = step, !.lag = 0]]
      BY <1>1, <1>3 DEF Go
    <3>3. PICK slot : slot = [request[r] EXCEPT !.pc = step, !.lag = 0]
      OBVIOUS
    <3>4. slot \in Slots /\ slot.pc = step /\ slot.key = request[r].key
      BY <3>1, <3>3 DEF Slots
    <3> QED
      BY <1>1, <3>2, <3>3, <3>4
  <2>2. KeysKnown'
    BY <1>1, <1>2, <2>1 DEF KeysKnown
  <2>3. \A k \in Keys : InFlight(k)' \subseteq InFlight(k) \cup {r}
    BY <1>2 DEF InFlight
  <2>4. \A k \in Keys : r \in InFlight(k)' => k = request[r].key /\ Go(r, step)
    BY <1>3, <2>1 DEF InFlight
  <2>5. ASSUME step \notin {"compare", "fail"} \/ Respond(r), NEW k \in Keys
        PROVE  InFlight(k)' = InFlight(k) \ {r}
    <3>1. request'[r].pc \notin {"compare", "fail"}
      BY <1>1, <2>1, <2>5 DEF Respond, Idle
    <3> QED
      BY <1>2, <3>1 DEF InFlight
  <2> QED
    BY <2>1, <2>2, <2>3, <2>4, <2>5
<1>4. CASE Respond(r)
  <2>1. /\ request'[r].pc = "idle"
        /\ request' \in [Requests -> Slots]
    BY <1>1, <1>4 DEF Respond, Idle, Slots, Steps
  <2>2. KeysKnown'
    BY <1>1, <1>2, <2>1 DEF KeysKnown
  <2> QED
    BY <1>2, <2>1, <2>2 DEF InFlight
<1> QED
  BY <1>3, <1>4

\* Steps of requests that leave the stores alone.
LEMMA StoresAlone ==
  ASSUME IInv, UNCHANGED <<redisEnabled, stores>>,
         \A k \in Keys : InFlight(k)' \subseteq InFlight(k)
  PROVE  StoresOK'
<1> SUFFICES ASSUME NEW k \in Keys
             PROVE  KeyOK(k)'
  BY DEF StoresOK
<1>1. /\ attempts[k] \in MapRecords /\ redis[k] \in RedisRecords
      /\ guesses["map"][k] \in Pasts /\ guesses["redis"][k] \in Pasts
  BY TypeParts DEF IInv
<1>2. KeyOK(k)
  BY DEF IInv, StoresOK
<1>3. /\ attempts'[k] = attempts[k] /\ redis'[k] = redis[k]
      /\ guesses'["map"][k] = guesses["map"][k] /\ guesses'["redis"][k] = guesses["redis"][k]
      /\ redisEnabled' = redisEnabled
  BY DEF stores
<1>4. Pending(k) \in Nat /\ Pending(k)' \in Nat /\ Pending(k)' <= Pending(k)
  BY PendingCounted, PendingLess
<1>5. MapOK(attempts[k], guesses["map"][k], IF redisEnabled THEN 0 ELSE Pending(k)')
  BY <1>1, <1>2, <1>4, MapFewer DEF KeyOK
<1>6. RedisOK(redis[k], guesses["redis"][k], IF redisEnabled THEN Pending(k)' ELSE 0)
  BY <1>1, <1>2, <1>4, RedisFewer DEF KeyOK
<1> QED
  BY <1>2, <1>3, <1>5, <1>6 DEF KeyOK

LEMMA ArriveStep ==
  ASSUME IInv, NEW r \in Requests, NEW k \in Keys, Arrive(r, k)
  PROVE  IInv'
<1> USE LoginAttemptsAssumption
<1>1. request \in [Requests -> Slots]
  BY TypeParts DEF IInv
<1>2. /\ request'[r] = [pc |-> "check", key |-> k, lag |-> 0]
      /\ \A q \in Requests : q # r => request'[q] = request[q]
      /\ request' \in [Requests -> Slots]
  BY <1>1 DEF Arrive, Slots, Steps
<1>3. TypeOK'
  BY <1>2, TypeParts DEF IInv, TypeOK, Arrive, stores, Slots, Steps
<1>4. KeysKnown'
  BY <1>2 DEF IInv, KeysKnown
<1>5. \A x \in Keys : InFlight(x)' \subseteq InFlight(x)
  BY <1>2 DEF InFlight
<1>6. StoresOK'
  BY <1>5, StoresAlone DEF Arrive
<1> QED
  BY <1>3, <1>4, <1>6 DEF IInv

LEMMA CompareStep ==
  ASSUME IInv, NEW r \in Requests, Compare(r)
  PROVE  IInv'
<1> USE DEF IInv
<1>1. PICK step \in {"succeed", "fail"} : Go(r, step)
  BY DEF Compare
<1>2. step \in Steps /\ request[r].pc = "compare"
  BY DEF Compare, At, Steps
<1>3. request' \in [Requests -> Slots] /\ KeysKnown'
  BY <1>1, <1>2, Moves
<1>4. TypeOK'
  BY <1>3, TypeParts DEF TypeOK, Compare, stores, Slots, Steps
<1>5. \A x \in Keys : InFlight(x)' \subseteq InFlight(x)
  <2>1. ASSUME NEW x \in Keys, r \in InFlight(x)'
        PROVE  r \in InFlight(x)
    <3>1. x = request[r].key
      BY <1>1, <1>2, <2>1, Moves
    <3> QED
      BY <1>2, <3>1 DEF InFlight
  <2> QED
    BY <1>1, <1>2, <2>1, Moves
<1>6. StoresOK'
  BY <1>5, StoresAlone DEF Compare
<1> QED
  BY <1>3, <1>4, <1>6

LEMMA AbortStep ==
  ASSUME IInv, NEW r \in Requests, Abort(r)
  PROVE  IInv'
<1> USE DEF IInv
<1>1. Respond(r) /\ request[r].pc # "idle" /\ "idle" \in Steps
  BY DEF Abort, At, Steps
<1>2. request' \in [Requests -> Slots] /\ KeysKnown'
  BY <1>1, Moves
<1>3. TypeOK'
  BY <1>2, TypeParts DEF TypeOK, Abort, stores, Slots, Steps
<1>4. \A x \in Keys : InFlight(x)' \subseteq InFlight(x)
  BY <1>1, Moves
<1>5. StoresOK'
  BY <1>4, StoresAlone DEF Abort
<1> QED
  BY <1>2, <1>3, <1>5

-------------------------------------------------------------------------------
(* Steps that read or write the stores.                                    *)

LEMMA SucceedStep ==
  ASSUME IInv, NEW r \in Requests, Succeed(r)
  PROVE  IInv'
<1> USE DEF IInv
<1>1. Respond(r) /\ request[r].pc = "succeed" /\ "idle" \in Steps
  BY DEF Succeed, At, Steps
<1>2. request' \in [Requests -> Slots] /\ KeysKnown'
  BY <1>1, Moves
<1>3. PICK key \in Keys : key = request[r].key
  BY <1>1 DEF KeysKnown
<1>4. PICK store \in {"map", "redis"} : store = Store
  BY DEF Store
<1>5. /\ attempts \in [Keys -> MapRecords] /\ redis \in [Keys -> RedisRecords]
      /\ guesses \in [{"map", "redis"} -> [Keys -> Pasts]]
      /\ \A k \in Keys : Consistent(redis[k])
  BY TypeParts
<1>6. /\ redisEnabled' = redisEnabled /\ sinceCleanup' = sinceCleanup
      /\ attempts' = IF redisEnabled THEN attempts ELSE [attempts EXCEPT ![key] = NoAttempts]
      /\ redis' = IF redisEnabled THEN [redis EXCEPT ![key] = NoKeys] ELSE redis
      /\ guesses' = [guesses EXCEPT ![store][key] = NoGuesses]
  BY <1>3, <1>4 DEF Succeed
<1>7. /\ attempts' \in [Keys -> MapRecords] /\ redis' \in [Keys -> RedisRecords]
      /\ guesses' \in [{"map", "redis"} -> [Keys -> Pasts]]
      /\ \A k \in Keys : Consistent(redis'[k])
  BY <1>5, <1>6, NothingYet
<1>8. TypeOK'
  BY <1>2, <1>6, <1>7 DEF TypeOK, MapRecords, RedisRecords, Consistent, Slots, Steps, Pasts
<1>9. ASSUME NEW k \in Keys
      PROVE  KeyOK(k)'
  <2>1. Pending(k)' <= Pending(k)
    BY <1>1, Moves, PendingLess
  <2>2. /\ Pending(k) \in Nat /\ Pending(k)' \in Nat
        /\ Pending(k)' <= Cardinality(Requests) /\ Cardinality(Requests) \in Nat
    BY PendingCounted, RequestsCounted
  <2>3. KeyOK(k)
    BY DEF StoresOK
  <2>4. /\ attempts[k] \in MapRecords /\ redis[k] \in RedisRecords
        /\ guesses["map"][k] \in Pasts /\ guesses["redis"][k] \in Pasts
    BY <1>5
  <2>5. /\ MapOK(attempts[k], guesses["map"][k], IF redisEnabled THEN 0 ELSE Pending(k)')
        /\ RedisOK(redis[k], guesses["redis"][k], IF redisEnabled THEN Pending(k)' ELSE 0)
    BY <2>1, <2>2, <2>3, <2>4, MapFewer, RedisFewer DEF KeyOK
  <2>6. /\ MapOK(NoAttempts, NoGuesses, Pending(k)')
        /\ RedisOK(NoKeys, NoGuesses, Pending(k)')
    BY <2>2, NothingYet
  <2>7. CASE k = key /\ redisEnabled
    <3>1. redis'[k] = NoKeys /\ guesses'["redis"][k] = NoGuesses
      BY <1>4, <1>5, <1>6, <2>7 DEF Store
    <3>2. attempts'[k] = attempts[k] /\ guesses'["map"][k] = guesses["map"][k]
      BY <1>4, <1>5, <1>6, <2>7 DEF Store
    <3> QED
      BY <1>6, <2>3, <2>5, <2>6, <2>7, <3>1, <3>2 DEF KeyOK
  <2>8. CASE k = key /\ ~redisEnabled
    <3>1. attempts'[k] = NoAttempts /\ guesses'["map"][k] = NoGuesses
      BY <1>4, <1>5, <1>6, <2>8 DEF Store
    <3>2. redis'[k] = redis[k] /\ guesses'["redis"][k] = guesses["redis"][k]
      BY <1>4, <1>5, <1>6, <2>8 DEF Store
    <3> QED
      BY <1>6, <2>5, <2>6, <2>8, <3>1, <3>2 DEF KeyOK
  <2>9. CASE k # key
    <3>1. /\ attempts'[k] = attempts[k] /\ redis'[k] = redis[k]
          /\ guesses'["map"][k] = guesses["map"][k]
          /\ guesses'["redis"][k] = guesses["redis"][k]
      BY <1>5, <1>6, <2>9
    <3> QED
      BY <1>6, <2>3, <2>5, <3>1 DEF KeyOK
  <2> QED
    BY <2>7, <2>8, <2>9
<1> QED
  BY <1>2, <1>8, <1>9 DEF StoresOK

\* The sweep drops records that are past their window and not locked.
LEMMA SweptOK ==
  ASSUME IInv
  PROVE  /\ Swept \in [Keys -> MapRecords]
         /\ \A k \in Keys : Swept[k] = attempts[k] \/ (Swept[k] = NoAttempts /\ Sweepable(k))
         /\ ~redisEnabled => \A k \in Keys : MapOK(Swept[k], guesses["map"][k], Pending(k))
         /\ SweepClock => sinceCleanup' \in 0..CleanupInterval
<1> USE LoginAttemptsAssumption DEF IInv
<1>1. attempts \in [Keys -> MapRecords] /\ guesses \in [{"map", "redis"} -> [Keys -> Pasts]]
      /\ sinceCleanup \in 0..CleanupInterval
  BY TypeParts
<1>2. Swept \in [Keys -> MapRecords]
  <2>1. \A k \in Keys : attempts[k] \in MapRecords /\ NoAttempts \in MapRecords
    BY <1>1, NothingYet
  <2> QED
    BY <2>1 DEF Swept
<1>3. \A k \in Keys : Swept[k] = attempts[k] \/ (Swept[k] = NoAttempts /\ Sweepable(k))
  BY DEF Swept
<1>4. ASSUME ~redisEnabled, NEW k \in Keys
      PROVE  MapOK(Swept[k], guesses["map"][k], Pending(k))
  <2>1. MapOK(attempts[k], guesses["map"][k], Pending(k))
    BY <1>4 DEF StoresOK, KeyOK
  <2>2. ASSUME Sweepable(k)
        PROVE  MapOK(NoAttempts, guesses["map"][k], Pending(k))
    <3>1. attempts[k].age > Window
      BY <2>2 DEF Sweepable
    <3> QED
      BY <1>1, <2>1, <3>1, MapDropped, PendingCounted
  <2> QED
    BY <1>3, <2>1, <2>2
<1>5. SweepClock => sinceCleanup' \in 0..CleanupInterval
  BY <1>1 DEF SweepClock
<1> QED
  BY <1>2, <1>3, <1>4, <1>5

LEMMA AssertNotLockedStep ==
  ASSUME IInv, NEW r \in Requests, NEW step \in {"idle", "compare"},
         request[r].pc \in {"check", "recheck"}, AssertNotLocked(r, step)
  PROVE  IInv'
<1> USE LoginAttemptsAssumption DEF IInv
<1>1. PICK key \in Keys : key = request[r].key
  BY DEF KeysKnown
<1>2. PICK refused \in BOOLEAN : refused <=> LockedAt(key, request[r].lag)
  OBVIOUS
<1>3. /\ SweepClock
      /\ attempts' = IF redisEnabled THEN attempts
                     ELSE IF ~refused /\ Swept[key].age > Window
                            THEN [ Swept EXCEPT ![key] = NoAttempts ] ELSE Swept
      /\ redisEnabled' = redisEnabled /\ redis' = redis /\ guesses' = guesses
      /\ Respond(r) \/ (~refused /\ step # "idle" /\ Go(r, step))
  <2>1. LockedAt(request[r].key, request[r].lag) <=> refused
    BY <1>1, <1>2
  <2> QED
    BY <1>1, <2>1 DEF AssertNotLocked
<1>4. step \in Steps /\ request[r].pc # "idle"
  BY DEF Steps
<1>5. request' \in [Requests -> Slots] /\ KeysKnown'
  BY <1>3, <1>4, Moves
<1>6. /\ attempts \in [Keys -> MapRecords] /\ redis \in [Keys -> RedisRecords]
      /\ guesses \in [{"map", "redis"} -> [Keys -> Pasts]] /\ redisEnabled \in BOOLEAN
      /\ \A k \in Keys : Consistent(redis[k])
      /\ request[r].lag \in 0..MaxLag
  BY TypeParts DEF Slots
<1>7. attempts' \in [Keys -> MapRecords] /\ sinceCleanup' \in 0..CleanupInterval
  BY <1>3, <1>6, SweptOK, NothingYet
<1>8. TypeOK'
  BY <1>3, <1>5, <1>6, <1>7 DEF TypeOK, MapRecords, RedisRecords, Consistent, Slots, Steps, Pasts
<1>9. ASSUME NEW k \in Keys
      PROVE  KeyOK(k)'
  <2>1. /\ Pending(k) \in Nat /\ Pending(k)' \in Nat
        /\ Pending(k) <= Cardinality(Requests) /\ Pending(k)' <= Cardinality(Requests)
        /\ 0 <= Cardinality(Requests) /\ Cardinality(Requests) \in Nat
    BY PendingCounted, RequestsCounted
  <2>2. Pending(k)' <= Pending(k) \/ (~refused /\ k = key)
    <3>0. Respond(r) \/ Go(r, step)
      BY <1>3
    <3>1. CASE r \in InFlight(k)' /\ ~Respond(r)
      BY <1>1, <1>3, <1>4, <3>0, <3>1, Moves
    <3>2. CASE Respond(r)
      BY <1>4, <3>2, Moves, PendingLess
    <3>3. CASE r \notin InFlight(k)'
      <4>1. InFlight(k)' \subseteq InFlight(k) \cup {r}
        BY <1>4, <3>0, Moves
      <4>2. InFlight(k)' \subseteq InFlight(k)
        BY <3>3, <4>1
      <4> QED
        BY <4>2, PendingLess
    <3> QED
      BY <3>1, <3>2, <3>3
  <2>3. KeyOK(k)
    BY DEF StoresOK
  <2>4. CASE redisEnabled
    <3>1. RedisOK(redis[k], guesses["redis"][k], Pending(k))
      BY <2>3, <2>4 DEF KeyOK
    <3>2. redis[k] \in RedisRecords /\ guesses["redis"][k] \in Pasts /\ Consistent(redis[k])
      BY <1>6
    <3>3. RedisOK(redis[k], guesses["redis"][k], Pending(k)')
      <4>1. CASE Pending(k)' <= Pending(k)
        BY <2>1, <3>1, <3>2, <4>1, RedisFewer
      <4>2. CASE ~refused /\ k = key
        <5>1. redis[k].lock <= redis[k].lag
          BY <1>2, <1>6, <2>4, <3>2, <4>2 DEF LockedAt, RedisRecords
        <5> QED
          BY <2>1, <3>1, <3>2, <5>1, RedisPassed
      <4> QED
        BY <2>2, <4>1, <4>2
    <3> QED
      BY <1>3, <2>3, <2>4, <3>3 DEF KeyOK
  <2>5. CASE ~redisEnabled
    <3>1. Swept[k] \in MapRecords /\ guesses["map"][k] \in Pasts
      BY <1>6, SweptOK
    <3>2. MapOK(Swept[k], guesses["map"][k], Pending(k))
      BY <2>5, SweptOK
    <3>3. MapOK(Swept[k], guesses["map"][k], Pending(k)')
      <4>1. CASE Pending(k)' <= Pending(k)
        BY <2>1, <3>1, <3>2, <4>1, MapFewer
      <4>2. CASE ~refused /\ k = key
        <5>1. attempts[k].lock = 0
          BY <1>2, <1>6, <2>5, <4>2 DEF LockedAt, MapRecords
        <5>2. Swept[k].lock = 0
          BY <5>1, SweptOK DEF NoAttempts
        <5> QED
          BY <2>1, <3>1, <3>2, <5>2, MapPassed
      <4> QED
        BY <2>2, <4>1, <4>2
    <3>4. MapOK(attempts'[k], guesses["map"][k], Pending(k)')
      <4>1. CASE k = key /\ ~refused /\ Swept[key].age > Window
        <5>1. attempts'[k] = NoAttempts
          BY <1>3, <2>5, <4>1, SweptOK
        <5> QED
          BY <2>1, <3>1, <3>3, <4>1, <5>1, MapDropped
      <4>2. CASE ~(k = key /\ ~refused /\ Swept[key].age > Window)
        <5>1. attempts'[k] = Swept[k]
          BY <1>3, <2>5, <4>2, SweptOK
        <5> QED
          BY <3>3, <5>1
      <4> QED
        BY <4>1, <4>2
    <3> QED
      BY <1>3, <2>3, <2>5, <3>4 DEF KeyOK
  <2> QED
    BY <2>4, <2>5
<1> QED
  BY <1>5, <1>8, <1>9 DEF StoresOK

LEMMA FailStep ==
  ASSUME IInv, NEW r \in Requests, Fail(r)
  PROVE  IInv'
<1> USE LoginAttemptsAssumption DEF IInv
<1>1. Go(r, "recheck") /\ request[r].pc = "fail" /\ "recheck" \in Steps
  BY DEF Fail, At, Steps
<1>2. request' \in [Requests -> Slots] /\ KeysKnown'
  BY <1>1, Moves
<1>3. PICK key \in Keys : key = request[r].key
  BY <1>1 DEF KeysKnown
<1>4. PICK lag \in 0..MaxLag : lag = request[r].lag
  BY TypeParts DEF Slots
<1>5. /\ attempts \in [Keys -> MapRecords] /\ redis \in [Keys -> RedisRecords]
      /\ guesses \in [{"map", "redis"} -> [Keys -> Pasts]] /\ redisEnabled \in BOOLEAN
      /\ \A k \in Keys : Consistent(redis[k])
  BY TypeParts
<1>6. PICK store \in {"map", "redis"} : store = Store
  BY DEF Store
<1>7. /\ SweepClock
      /\ redisEnabled' = redisEnabled
      /\ attempts' = IF redisEnabled THEN attempts
                     ELSE [ Swept EXCEPT ![key] = FailedInMemory(Swept[key]) ]
      /\ redis' = IF redisEnabled
                    THEN [ redis EXCEPT ![key] = FailedInRedis(redis[key], lag) ] ELSE redis
      /\ guesses' = [ guesses EXCEPT ![store][key] = OneMore(guesses[store][key]) ]
  BY <1>3, <1>4, <1>5, <1>6 DEF Fail, OneMore
<1>8. ASSUME NEW k \in Keys
      PROVE  /\ Pending(k) \in Nat /\ Pending(k)' \in Nat
             /\ Pending(k) <= Cardinality(Requests) /\ Cardinality(Requests) \in Nat
             /\ Pending(k)' <= Pending(k)
             /\ k = key => Pending(k) = Pending(k)' + 1
  <2>1. InFlight(k)' = InFlight(k) \ {r}
    BY <1>1, Moves
  <2>2. k = key => r \in InFlight(k)
    BY <1>1, <1>3 DEF InFlight
  <2> QED
    BY <2>1, <2>2, PendingFailed, PendingLess, PendingCounted, RequestsCounted
<1>9. ASSUME redisEnabled
      PROVE  /\ FailedInRedis(redis[key], lag) \in RedisRecords
             /\ Consistent(FailedInRedis(redis[key], lag))
             /\ RedisOK(FailedInRedis(redis[key], lag), OneMore(guesses["redis"][key]), Pending(key)')
  <2>1. PICK p \in Nat : p = Pending(key)'
    BY <1>8
  <2>2. RedisOK(redis[key], guesses["redis"][key], p + 1) /\ p + 1 <= Cardinality(Requests)
    BY <1>8, <1>9, <2>1 DEF StoresOK, KeyOK
  <2>3. redis[key] \in RedisRecords /\ Consistent(redis[key]) /\ guesses["redis"][key] \in Pasts
    BY <1>5
  <2> QED
    BY <2>1, <2>2, <2>3, RedisFailed
<1>10. ASSUME ~redisEnabled
       PROVE  /\ FailedInMemory(Swept[key]) \in MapRecords
              /\ MapOK(FailedInMemory(Swept[key]), OneMore(guesses["map"][key]), Pending(key)')
  <2>1. PICK p \in Nat : p = Pending(key)'
    BY <1>8
  <2>2. MapOK(Swept[key], guesses["map"][key], p + 1) /\ p + 1 <= Cardinality(Requests)
    BY <1>8, <1>10, <2>1, SweptOK
  <2>3. Swept[key] \in MapRecords /\ guesses["map"][key] \in Pasts
    BY <1>5, SweptOK
  <2> QED
    BY <2>1, <2>2, <2>3, MapFailed
<1>11. /\ OneMore(guesses[store][key]) \in Pasts
  <2>1. guesses[store][key] \in Pasts /\ Growing(guesses[store][key])
    BY <1>5, <1>6 DEF StoresOK, KeyOK, MapOK, RedisOK, Store
  <2> QED
    BY <2>1, PastsMove
<1>12. guesses' \in [{"map", "redis"} -> [Keys -> Pasts]]
  BY <1>5, <1>7, <1>11
<1>13. attempts' \in [Keys -> MapRecords]
  BY <1>5, <1>7, <1>10, SweptOK
<1>14. redis' \in [Keys -> RedisRecords] /\ \A k \in Keys : Consistent(redis'[k])
  BY <1>5, <1>7, <1>9
<1>15. TypeOK'
  <2>1. sinceCleanup' \in 0..CleanupInterval
    BY <1>7, SweptOK
  <2> QED
    BY <1>2, <1>5, <1>7, <1>12, <1>13, <1>14, <2>1
    DEF TypeOK, MapRecords, RedisRecords, Consistent, Slots, Steps, Pasts
<1>16. ASSUME NEW k \in Keys
       PROVE  KeyOK(k)'
  <2>1. KeyOK(k)
    BY DEF StoresOK
  <2>2. /\ attempts[k] \in MapRecords /\ redis[k] \in RedisRecords
        /\ guesses["map"][k] \in Pasts /\ guesses["redis"][k] \in Pasts
    BY <1>5
  <2>3. CASE redisEnabled
    <3>1. store = "redis" /\ attempts'[k] = attempts[k] /\ guesses'["map"][k] = guesses["map"][k]
      BY <1>5, <1>6, <1>7, <2>3 DEF Store
    <3>2. CASE k = key
      <4>1. /\ redis'[k] = FailedInRedis(redis[key], lag)
            /\ guesses'["redis"][k] = OneMore(guesses["redis"][key])
        BY <1>5, <1>7, <2>3, <3>1, <3>2
      <4> QED
        BY <1>7, <1>9, <2>1, <2>3, <3>1, <3>2, <4>1 DEF KeyOK
    <3>3. CASE k # key
      <4>1. redis'[k] = redis[k] /\ guesses'["redis"][k] = guesses["redis"][k]
        BY <1>5, <1>7, <2>3, <3>1, <3>3
      <4>2. RedisOK(redis[k], guesses["redis"][k], Pending(k)')
        BY <1>8, <2>1, <2>2, <2>3, RedisFewer DEF KeyOK
      <4> QED
        BY <1>7, <2>1, <2>3, <3>1, <4>1, <4>2 DEF KeyOK
    <3> QED
      BY <3>2, <3>3
  <2>4. CASE ~redisEnabled
    <3>1. store = "map" /\ redis'[k] = redis[k] /\ guesses'["redis"][k] = guesses["redis"][k]
      BY <1>5, <1>6, <1>7, <2>4 DEF Store
    <3>2. CASE k = key
      <4>1. /\ attempts'[k] = FailedInMemory(Swept[key])
            /\ guesses'["map"][k] = OneMore(guesses["map"][key])
        BY <1>5, <1>7, <2>4, <3>1, <3>2, SweptOK
      <4> QED
        BY <1>7, <1>10, <2>1, <2>4, <3>1, <3>2, <4>1 DEF KeyOK
    <3>3. CASE k # key
      <4>1. attempts'[k] = Swept[k] /\ guesses'["map"][k] = guesses["map"][k]
        BY <1>5, <1>7, <2>4, <3>1, <3>3, SweptOK
      <4>2. Swept[k] \in MapRecords /\ MapOK(Swept[k], guesses["map"][k], Pending(k))
        BY <2>4, SweptOK
      <4>3. MapOK(Swept[k], guesses["map"][k], Pending(k)')
        BY <1>8, <2>2, <4>2, MapFewer
      <4> QED
        BY <1>7, <2>1, <2>4, <3>1, <4>1, <4>3 DEF KeyOK
    <3> QED
      BY <3>2, <3>3
  <2> QED
    BY <2>3, <2>4
<1> QED
  BY <1>2, <1>15, <1>16 DEF StoresOK

LEMMA RestartStep ==
  ASSUME IInv, Restart
  PROVE  IInv'
<1> USE LoginAttemptsAssumption DEF IInv
<1>1. /\ attempts \in [Keys -> MapRecords] /\ redis \in [Keys -> RedisRecords]
      /\ guesses \in [{"map", "redis"} -> [Keys -> Pasts]]
      /\ \A k \in Keys : Consistent(redis[k])
  BY TypeParts
<1>2. /\ redisEnabled' \in BOOLEAN
      /\ request' = [ r \in Requests |-> Idle ]
      /\ attempts' = [ k \in Keys |-> NoAttempts ]
      /\ sinceCleanup' = CleanupInterval
      /\ redis' = redis
      /\ guesses' = [ guesses EXCEPT !["map"] = [ k \in Keys |-> NoGuesses ] ]
  BY DEF Restart
<1>3. request' \in [Requests -> Slots] /\ KeysKnown'
  BY <1>2 DEF Idle, Slots, Steps, KeysKnown
<1>4. attempts' \in [Keys -> MapRecords]
  BY <1>2, NothingYet
<1>5. guesses' \in [{"map", "redis"} -> [Keys -> Pasts]]
  BY <1>1, <1>2, NothingYet
<1>6. TypeOK'
  <2>1. sinceCleanup' \in 0..CleanupInterval
    BY <1>2
  <2>2. redis' \in [Keys -> RedisRecords] /\ \A k \in Keys : Consistent(redis'[k])
    BY <1>1, <1>2
  <2>3. redisEnabled' \in BOOLEAN
    BY <1>2
  <2> QED
    BY <1>3, <1>4, <1>5, <2>1, <2>2, <2>3
    DEF TypeOK, MapRecords, RedisRecords, Consistent, Slots, Steps, Pasts
<1>7. ASSUME NEW k \in Keys
      PROVE  KeyOK(k)'
  <2>1. Pending(k)' = 0
    <3>1. InFlight(k)' = {}
      BY <1>2 DEF InFlight, Idle
    <3> QED
      BY <3>1, FS_EmptySet DEF Pending
  <2>2. /\ attempts'[k] = NoAttempts /\ guesses'["map"][k] = NoGuesses
        /\ redis'[k] = redis[k] /\ guesses'["redis"][k] = guesses["redis"][k]
    BY <1>1, <1>2
  <2>3. MapOK(NoAttempts, NoGuesses, 0)
    BY NothingYet, RequestsCounted
  <2>4. RedisOK(redis[k], guesses["redis"][k], 0)
    <3>1. Pending(k) \in Nat /\ redis[k] \in RedisRecords /\ guesses["redis"][k] \in Pasts
      BY <1>1, PendingCounted
    <3>2. RedisOK(redis[k], guesses["redis"][k], IF redisEnabled THEN Pending(k) ELSE 0)
      BY DEF StoresOK, KeyOK
    <3> QED
      BY <3>1, <3>2, RedisFewer
  <2> QED
    BY <2>1, <2>2, <2>3, <2>4 DEF KeyOK
<1> QED
  BY <1>3, <1>6, <1>7 DEF StoresOK

LEMMA TickStep ==
  ASSUME IInv, Tick
  PROVE  IInv'
<1> USE LoginAttemptsAssumption DEF IInv
<1>1. /\ attempts \in [Keys -> MapRecords] /\ redis \in [Keys -> RedisRecords]
      /\ guesses \in [{"map", "redis"} -> [Keys -> Pasts]]
      /\ \A k \in Keys : Consistent(redis[k])
      /\ request \in [Requests -> Slots] /\ sinceCleanup \in 0..CleanupInterval
      /\ redisEnabled \in BOOLEAN
  BY TypeParts
<1>2. /\ \A k \in Keys : attempts'[k] = OlderAttempts(attempts[k])
      /\ \A k \in Keys : redis'[k] = OlderKeys(redis[k])
      /\ redisEnabled' = redisEnabled
      /\ attempts' = [ k \in Keys |-> OlderAttempts(attempts[k]) ]
      /\ redis' = [ k \in Keys |-> OlderKeys(redis[k]) ]
  BY DEF Tick
<1>3. request' \in [Requests -> Slots]
  <2>1. request' = [ r \in Requests |->
          IF HoldsClock(r) THEN [request[r] EXCEPT !.lag = request[r].lag + 1] ELSE request[r] ]
    BY <1>1 DEF Tick
  <2>2. ASSUME NEW r \in Requests
        PROVE  (IF HoldsClock(r) THEN [request[r] EXCEPT !.lag = request[r].lag + 1]
                                 ELSE request[r]) \in Slots
    <3>1. request[r] \in Slots /\ (HoldsClock(r) => request[r].lag < MaxLag)
      BY <1>1 DEF Tick
    <3> QED
      BY <3>1 DEF Slots
  <2> QED
    BY <2>1, <2>2
<1>4. \A r \in Requests : request'[r].pc = request[r].pc /\ request'[r].key = request[r].key
  BY <1>1 DEF Tick, Slots
<1>5. KeysKnown'
  BY <1>4 DEF KeysKnown
<1>6. sinceCleanup' \in 0..CleanupInterval
  <2>1. PICK since \in Nat : since = sinceCleanup + 1
    BY <1>1
  <2>2. sinceCleanup' = Min({since, CleanupInterval})
    BY <2>1 DEF Tick
  <2> QED
    BY <1>1, <2>1, <2>2, MinOfTwo
<1>7. ASSUME NEW k \in Keys
      PROVE  Pending(k)' = Pending(k)
  <2>1. InFlight(k)' = InFlight(k)
    BY <1>4 DEF InFlight
  <2> QED
    BY <2>1 DEF Pending
<1>8. ASSUME NEW s \in {"map", "redis"}, NEW k \in Keys
      PROVE  guesses'[s][k] = IF LockedIn(s, k) /\ ~LockedIn(s, k)'
                                THEN NoGuesses ELSE Later(guesses[s][k])
  BY DEF Tick, Later
<1>9. ASSUME NEW k \in Keys
      PROVE  /\ OlderAttempts(attempts[k]) \in MapRecords
             /\ guesses'["map"][k] \in Pasts
             /\ MapOK(OlderAttempts(attempts[k]), guesses'["map"][k],
                      IF redisEnabled THEN 0 ELSE Pending(k))
  <2>1. guesses'["map"][k] =
          IF attempts[k].lock > 0 /\ ~(OlderAttempts(attempts[k]).lock > 0)
            THEN NoGuesses ELSE Later(guesses["map"][k])
    BY <1>2, <1>8 DEF LockedIn
  <2>2. PICK p \in Nat : p = IF redisEnabled THEN 0 ELSE Pending(k)
    BY PendingCounted
  <2>3. /\ attempts[k] \in MapRecords /\ guesses["map"][k] \in Pasts
        /\ MapOK(attempts[k], guesses["map"][k], p)
    BY <1>1, <2>2 DEF StoresOK, KeyOK
  <2> QED
    BY <2>1, <2>2, <2>3, MapOlder
<1>10. ASSUME NEW k \in Keys
       PROVE  /\ OlderKeys(redis[k]) \in RedisRecords
              /\ Consistent(OlderKeys(redis[k]))
              /\ guesses'["redis"][k] \in Pasts
              /\ RedisOK(OlderKeys(redis[k]), guesses'["redis"][k],
                         IF redisEnabled THEN Pending(k) ELSE 0)
  <2>1. guesses'["redis"][k] =
          IF redis[k].lock > redis[k].lag /\ ~(OlderKeys(redis[k]).lock > OlderKeys(redis[k]).lag)
            THEN NoGuesses ELSE Later(guesses["redis"][k])
    BY <1>2, <1>8 DEF LockedIn
  <2>2. PICK p \in Nat : p = IF redisEnabled THEN Pending(k) ELSE 0
    BY PendingCounted
  <2>3. /\ redis[k] \in RedisRecords /\ guesses["redis"][k] \in Pasts
        /\ RedisOK(redis[k], guesses["redis"][k], p) /\ Consistent(redis[k])
    BY <1>1, <2>2 DEF StoresOK, KeyOK
  <2> QED
    BY <2>1, <2>2, <2>3, RedisOlder
<1>11. guesses' \in [{"map", "redis"} -> [Keys -> Pasts]]
  <2>1. guesses' = [ s \in {"map", "redis"} |-> [ k \in Keys |-> guesses'[s][k] ] ]
    BY DEF Tick
  <2> QED
    BY <1>9, <1>10, <2>1
<1>12. TypeOK'
  <2>1. /\ attempts' \in [Keys -> MapRecords] /\ redis' \in [Keys -> RedisRecords]
        /\ \A k \in Keys : Consistent(redis'[k])
    BY <1>2, <1>9, <1>10
  <2> QED
    BY <1>1, <1>2, <1>3, <1>6, <1>11, <2>1
    DEF TypeOK, MapRecords, RedisRecords, Consistent, Slots, Steps, Pasts
<1>13. ASSUME NEW k \in Keys
       PROVE  KeyOK(k)'
  <2>1. redisEnabled => attempts'[k] = NoAttempts
    <3>1. OlderAttempts(NoAttempts) = NoAttempts
      <4>1. PICK old : old = NoAttempts
        OBVIOUS
      <4>2. old.failures = 0 /\ old.lock = 0
        BY <4>1 DEF NoAttempts
      <4>3. Max({old.lock - 1, 0}) = 0
        BY <4>2, MaxOfTwo
      <4>4. OlderAttempts(old) = [old EXCEPT !.age = 0, !.lock = 0]
        BY <4>2, <4>3 DEF OlderAttempts
      <4> QED
        BY <4>1, <4>4 DEF NoAttempts
    <3>2. redisEnabled => attempts[k] = NoAttempts
      BY DEF StoresOK, KeyOK
    <3> QED
      BY <1>2, <3>1, <3>2
  <2> QED
    BY <1>2, <1>7, <1>9, <1>10, <2>1 DEF KeyOK
<1> QED
  BY <1>5, <1>12, <1>13 DEF StoresOK

-------------------------------------------------------------------------------
(* Theorems.                                                               *)

LEMMA InitIInv == Init => IInv
<1> SUFFICES ASSUME Init
             PROVE  IInv
  OBVIOUS
<1> USE LoginAttemptsAssumption
<1>1. /\ redisEnabled \in BOOLEAN
      /\ attempts = [ k \in Keys |-> NoAttempts ]
      /\ redis = [ k \in Keys |-> NoKeys ]
      /\ sinceCleanup \in 0..CleanupInterval
      /\ request = [ r \in Requests |-> Idle ]
      /\ guesses = [ s \in {"map", "redis"} |-> [ k \in Keys |-> NoGuesses ] ]
  BY DEF Init
<1>2. request \in [Requests -> Slots]
  BY <1>1 DEF Idle, Slots, Steps
<1>3. TypeOK
  BY <1>1, <1>2, NothingYet, TypeParts
<1>4. KeysKnown
  BY <1>1 DEF KeysKnown, Idle
<1>5. ASSUME NEW k \in Keys
      PROVE  KeyOK(k)
  <2>1. /\ attempts[k] = NoAttempts /\ redis[k] = NoKeys
        /\ guesses["map"][k] = NoGuesses /\ guesses["redis"][k] = NoGuesses
    BY <1>1
  <2>2. PICK p \in Nat : p = Pending(k) /\ p <= Cardinality(Requests)
    BY PendingCounted
  <2>3. 0 <= Cardinality(Requests)
    BY RequestsCounted
  <2> QED
    BY <2>1, <2>2, <2>3, NothingYet DEF KeyOK
<1> QED
  BY <1>3, <1>4, <1>5 DEF IInv, StoresOK

LEMMA NextIInv == IInv /\ [Next]_vars => IInv'
<1> SUFFICES ASSUME IInv, [Next]_vars
             PROVE  IInv'
  OBVIOUS
<1>1. ASSUME NEW r \in Requests, NEW k \in Keys, Arrive(r, k)
      PROVE  IInv'
  BY <1>1, ArriveStep
<1>2. ASSUME NEW r \in Requests, Check(r)
      PROVE  IInv'
  BY <1>2, AssertNotLockedStep DEF Check, At
<1>3. ASSUME NEW r \in Requests, Compare(r)
      PROVE  IInv'
  BY <1>3, CompareStep
<1>4. ASSUME NEW r \in Requests, Succeed(r)
      PROVE  IInv'
  BY <1>4, SucceedStep
<1>5. ASSUME NEW r \in Requests, Fail(r)
      PROVE  IInv'
  BY <1>5, FailStep
<1>6. ASSUME NEW r \in Requests, Recheck(r)
      PROVE  IInv'
  BY <1>6, AssertNotLockedStep DEF Recheck, At
<1>7. ASSUME NEW r \in Requests, Abort(r)
      PROVE  IInv'
  BY <1>7, AbortStep
<1>8. CASE Restart
  BY <1>8, RestartStep
<1>9. CASE Tick
  BY <1>9, TickStep
<1>10. CASE UNCHANGED vars
  <2>1. TypeOK' /\ KeysKnown'
    BY <1>10 DEF IInv, TypeOK, KeysKnown, vars, stores
  <2>2. \A k \in Keys : InFlight(k)' \subseteq InFlight(k)
    BY <1>10 DEF InFlight, vars
  <2>3. StoresOK'
    BY <1>10, <2>2, StoresAlone DEF vars
  <2> QED
    BY <2>1, <2>3 DEF IInv
<1> QED
  BY <1>1, <1>2, <1>3, <1>4, <1>5, <1>6, <1>7, <1>8, <1>9, <1>10 DEF Next, Step

LEMMA SpecIInv == Spec => []IInv
BY InitIInv, NextIInv, PTL DEF Spec

\* Records, clocks and requests are what LoginAttemptService can hold: no counter in Redis
\* is without an expiry, no lock outlives its PX.
THEOREM TypeCorrect == Spec => []TypeOK
<1>1. IInv => TypeOK
  BY DEF IInv
<1> QED
  BY <1>1, SpecIInv, PTL

\* Between two locks no store records more wrong guesses in a window than a counter lets
\* through, plus those that were in flight together.
THEOREM GuessesAreBounded == Spec => []GuessesBounded
<1>1. IInv => GuessesBounded
  <2> SUFFICES ASSUME IInv, NEW k \in Keys
               PROVE  /\ guesses["map"][k][Window] <= Cardinality(Requests) + MaxFailures - 1
                      /\ guesses["redis"][k][Window] <=
                           Cardinality(Requests) + 2 * (MaxFailures - 1)
    BY DEF GuessesBounded
  <2> USE LoginAttemptsAssumption
  <2>1. /\ guesses["map"][k][Window] \in Nat /\ guesses["redis"][k][Window] \in Nat
        /\ Cardinality(Requests) \in Nat
    BY TypeParts, RequestsCounted DEF IInv, Pasts
  <2>2. PICK p \in Nat, q \in Nat :
          /\ p = IF redisEnabled THEN 0 ELSE Pending(k)
          /\ q = IF redisEnabled THEN Pending(k) ELSE 0
    BY PendingCounted
  <2>3. /\ guesses["map"][k][Window] + p <= Cardinality(Requests) + MaxFailures - 1
        /\ guesses["redis"][k][Window] + q <= Cardinality(Requests) + 2 * (MaxFailures - 1)
    BY <2>2 DEF IInv, StoresOK, KeyOK, MapOK, RedisOK
  <2> QED
    BY <2>1, <2>3
<1> QED
  BY <1>1, SpecIInv, PTL

\* A lock doubles only as long as it is within the window of its counter, whatever MaxLock,
\* and then with the logins that were in flight.
THEOREM LocksAreProportionate == Spec => []LocksProportionate
<1>1. IInv => LocksProportionate
  BY DEF IInv, StoresOK, KeyOK, MapOK, RedisOK, LocksProportionate
<1> QED
  BY <1>1, SpecIInv, PTL

\* The other steps of a login leave a lock in force.
LEMMA LockKept ==
  ASSUME IInv, NEW r \in Requests, NEW k \in Keys, Locked(k),
         \/ Check(r) \/ Recheck(r) \/ Fail(r)
         \/ Succeed(r) /\ request[r].key # k
  PROVE  Locked(k)'
<1> USE LoginAttemptsAssumption
<1>1. /\ attempts \in [Keys -> MapRecords] /\ redis \in [Keys -> RedisRecords]
      /\ redisEnabled \in BOOLEAN /\ request[r] \in Slots
  BY TypeParts DEF IInv
<1>2. \A n \in Nat : n >= MaxFailures => LockTime(n) > MaxLag /\ LockTime(n) \in Nat
  BY LockTimes
<1>3. Swept \in [Keys -> MapRecords]
  BY SweptOK
<1>4. attempts[k].lock > 0 => Swept[k] = attempts[k]
  BY <1>1, SweptOK DEF Sweepable
<1>5. redisEnabled' = redisEnabled
  BY DEF Check, Recheck, AssertNotLocked, Fail, Succeed
<1>6. CASE Check(r) \/ Recheck(r)
  <2>1. CASE redisEnabled
    <3>1. redis' = redis
      BY <1>6 DEF Check, Recheck, AssertNotLocked
    <3> QED
      BY <1>5, <2>1, <3>1 DEF Locked, LockedIn, Store
  <2>2. CASE ~redisEnabled
    <3>1. attempts[k].lock > 0
      BY <2>2 DEF Locked, LockedIn, Store
    <3>2. attempts'[k] = Swept[k]
      <4>1. attempts' = Swept \/
              ( /\ ~LockedAt(request[r].key, request[r].lag)
                /\ attempts' = [ Swept EXCEPT ![request[r].key] = NoAttempts ] )
        BY <1>6, <2>2 DEF Check, Recheck, AssertNotLocked
      <4>2. k = request[r].key => LockedAt(request[r].key, request[r].lag)
        BY <2>2, <3>1 DEF LockedAt
      <4> QED
        BY <1>3, <4>1, <4>2
    <3> QED
      BY <1>4, <1>5, <2>2, <3>1, <3>2 DEF Locked, LockedIn, Store
  <2> QED
    BY <2>1, <2>2
<1>7. CASE Fail(r)
  <2>1. CASE redisEnabled
    <3>1. redis' = [ redis EXCEPT ![request[r].key] =
                       FailedInRedis(redis[request[r].key], request[r].lag) ]
      BY <1>7, <2>1 DEF Fail
    <3>2. redis[k].lock > redis[k].lag
      BY <2>1 DEF Locked, LockedIn, Store
    <3>3. redis'[k] = redis[k] \/ redis'[k] = FailedInRedis(redis[k], request[r].lag)
      BY <1>1, <3>1
    <3>4. ASSUME redis'[k] = FailedInRedis(redis[k], request[r].lag)
          PROVE  redis'[k].lock > redis'[k].lag
      <4>1. PICK n \in Nat : n = redis[k].failures + 1
        BY <1>1 DEF RedisRecords
      <4>2. request[r].lag \in 0..MaxLag
        BY <1>1 DEF Slots
      <4>3. CASE n >= MaxFailures
        <5>1. redis'[k].lock = LockTime(n) /\ redis'[k].lag = request[r].lag
          BY <3>4, <4>1, <4>3 DEF FailedInRedis
        <5> QED
          BY <1>2, <4>2, <4>3, <5>1
      <4>4. CASE ~(n >= MaxFailures)
        <5>1. redis'[k].lock = redis[k].lock /\ redis'[k].lag = redis[k].lag
          BY <3>4, <4>1, <4>4 DEF FailedInRedis
        <5> QED
          BY <3>2, <5>1
      <4> QED
        BY <4>3, <4>4
    <3> QED
      BY <1>5, <2>1, <3>2, <3>3, <3>4 DEF Locked, LockedIn, Store
  <2>2. CASE ~redisEnabled
    <3>1. attempts' = [ Swept EXCEPT ![request[r].key] = FailedInMemory(Swept[request[r].key]) ]
      BY <1>7, <2>2 DEF Fail
    <3>2. attempts[k].lock > 0 /\ Swept[k] = attempts[k]
      BY <1>4, <2>2 DEF Locked, LockedIn, Store
    <3>3. attempts'[k] = attempts[k] \/ attempts'[k] = FailedInMemory(attempts[k])
      BY <1>3, <3>1, <3>2
    <3>4. ASSUME attempts'[k] = FailedInMemory(attempts[k])
          PROVE  attempts'[k].lock > 0
      <4>1. PICK n \in Nat : n = IF attempts[k].failures > 0 /\ attempts[k].age <= Window
                                   THEN attempts[k].failures + 1 ELSE 1
        BY <1>1 DEF MapRecords
      <4>2. attempts'[k].lock = IF n >= MaxFailures THEN LockTime(n) ELSE attempts[k].lock
        BY <3>4, <4>1 DEF FailedInMemory
      <4> QED
        BY <1>2, <3>2, <4>2
    <3> QED
      BY <1>5, <2>2, <3>2, <3>3, <3>4 DEF Locked, LockedIn, Store
  <2> QED
    BY <2>1, <2>2
<1>8. CASE Succeed(r) /\ request[r].key # k
  <2>1. attempts'[k] = attempts[k] /\ redis'[k] = redis[k]
    BY <1>1, <1>8 DEF Succeed
  <2> QED
    BY <1>5, <2>1 DEF Locked, LockedIn, Store
<1> QED
  BY <1>6, <1>7, <1>8

\* A lock in force is ended by time, by a restart or by a right password, and by nothing
\* else that LoginAttemptService does.
THEOREM LocksDoLast == Spec => LocksLast
<1>1. ASSUME IInv, [Next]_vars
      PROVE  [ \A k \in Keys : Locked(k) /\ ~Locked(k)' =>
                 Tick \/ Restart \/ \E r \in Requests : Succeed(r) /\ request[r].key = k ]_vars
  <2> SUFFICES ASSUME NEW k \in Keys, Locked(k), ~Locked(k)', ~Tick, ~Restart
               PROVE  \E r \in Requests : Succeed(r) /\ request[r].key = k
    OBVIOUS
  <2>1. ~UNCHANGED <<redisEnabled, stores>>
    BY DEF stores, Locked, LockedIn, Store
  <2>2. PICK r \in Requests : Check(r) \/ Recheck(r) \/ Fail(r) \/ Succeed(r)
    BY <1>1, <2>1 DEF Next, Step, Arrive, Compare, Abort, vars
  <2>3. Succeed(r) /\ request[r].key = k
    BY <1>1, <2>2, LockKept
  <2> QED
    BY <2>3
<1> QED
  BY <1>1, SpecIInv, PTL DEF Spec, LocksLast
===============================================================================
