---------------------------- MODULE LoginAttempts ----------------------------
(***************************************************************************)
(* LoginAttemptService: the lockout of POST /auth/login by ip and e-mail.   *)
(*                                                                         *)
(* A login asks assertNotLocked, compares the password, and records the    *)
(* outcome; a failure asks assertNotLocked again for its answer.  These    *)
(* are separate steps of concurrent requests.  A process keeps its records *)
(* in Redis if it could connect when it started, and in a Map otherwise.   *)
(* The stores differ in more than place: the Map forgets a key Window      *)
(* after its LAST failure, Redis Window after the FIRST, and a Redis call  *)
(* uses a clock read before its await.                                     *)
(*                                                                         *)
(* Time is discrete and kept as ages and remaining times, which do not     *)
(* grow for ever, so that no horizon bounds a behaviour.                    *)
(***************************************************************************)
EXTENDS Integers, FiniteSets, FiniteSetsExt

CONSTANTS
  Keys,             \* normalised ip|email pairs
  Requests,         \* how many logins can be in flight
  MaxFailures,      \* LOGIN_MAX_FAILURES
  Window,           \* LOGIN_ATTEMPT_WINDOW_MS
  BaseLock,         \* LOGIN_LOCK_BASE_MS
  MaxLock,          \* LOGIN_LOCK_MAX_MS
  CleanupInterval,  \* memoryCleanupIntervalMs
  MaxLag,           \* bound on the time a Redis call takes
  None

ASSUME LoginAttemptsAssumption ==
  /\ MaxFailures \in Nat \ {0}
  /\ Window \in Nat \ {0}
  /\ BaseLock \in Nat \ {0}
  /\ MaxLock \in Nat \ {0}
  /\ CleanupInterval \in Nat \ {0}
  /\ MaxLag \in Nat
  \* No call takes as long as the shortest lock.
  /\ MaxLag < BaseLock /\ MaxLag < MaxLock
  /\ IsFiniteSet(Requests) /\ Requests # {}
  /\ None \notin Keys

VARIABLES
  redisEnabled,  \* which store the process uses
  attempts,      \* the Map
  redis,         \* the two Redis keys of each key
  sinceCleanup,  \* time since cleanupExpiredAttempts last swept the Map
  request,       \* what each request slot is doing
  guesses        \* history: failures recorded up to i ticks ago, by store and key

stores == <<attempts, redis, sinceCleanup, guesses>>
vars   == <<redisEnabled, stores, request>>

-------------------------------------------------------------------------------
(* failures = 0 is an absent counter.  In the Map age is the time since the *)
(* last failure; in Redis ttl is what is left of the counter.  lock is what *)
(* is left of the lock, for Redis that of its key, whose value lockUntil is *)
(* lag earlier: it was computed from a clock read before the script ran.   *)

NoAttempts == [failures |-> 0, age |-> 0, lock |-> 0]
NoKeys     == [failures |-> 0, ttl |-> 0, lock |-> 0, lag |-> 0]

LockedIn(store, k) ==
  IF store = "map" THEN attempts[k].lock > 0 ELSE redis[k].lock > redis[k].lag

Store     == IF redisEnabled THEN "redis" ELSE "map"
Locked(k) == LockedIn(Store, k)

\* How locked a key looks to a request whose clock is that much behind.
LockedAt(k, lag) ==
  IF redisEnabled THEN redis[k].lock > 0 /\ redis[k].lock + lag > redis[k].lag
                  ELSE attempts[k].lock > 0

Idle == [pc |-> "idle", key |-> None, lag |-> 0]
At(r, step) == request[r].pc = step

Go(r, step) == request' = [ request EXCEPT ![r].pc = step, ![r].lag = 0 ]
Respond(r)  == request' = [ request EXCEPT ![r] = Idle ]

NoGuesses == [ i \in 0..Window |-> 0 ]

Init ==
  /\ redisEnabled \in BOOLEAN
  /\ attempts = [ k \in Keys |-> NoAttempts ]
  /\ redis = [ k \in Keys |-> NoKeys ]
  /\ sinceCleanup = CleanupInterval
  /\ request = [ r \in Requests |-> Idle ]
  /\ guesses = [ s \in {"map", "redis"} |-> [ k \in Keys |-> NoGuesses ] ]

-------------------------------------------------------------------------------
(* The Map.                                                                *)

\* Mutant of Sweepable: the lock of the record is not looked at.
SweepableThoughLocked(k) == attempts[k].age > Window

Sweepable(k) == attempts[k].age > Window /\ attempts[k].lock = 0

\* cleanupExpiredAttempts, at most once per interval.
Swept ==
  [ k \in Keys |-> IF sinceCleanup >= CleanupInterval /\ Sweepable(k)
                     THEN NoAttempts ELSE attempts[k] ]

SweepClock ==
  sinceCleanup' =
    IF ~redisEnabled /\ sinceCleanup >= CleanupInterval THEN 0 ELSE sinceCleanup

-------------------------------------------------------------------------------
(* Steps of a login.                                                       *)

Arrive(r, k) ==
  /\ At(r, "idle")
  /\ request' = [ request EXCEPT ![r] = [pc |-> "check", key |-> k, lag |-> 0] ]
  /\ UNCHANGED <<redisEnabled, stores>>

\* assertNotLocked; step is where the request goes if the key is not locked.
\* In the Map a record that is past its window and not locked is dropped.
AssertNotLocked(r, step) ==
  LET k       == request[r].key
      refused == LockedAt(k, request[r].lag)
  IN  /\ SweepClock
      /\ attempts' = IF redisEnabled THEN attempts
                     ELSE IF ~refused /\ Swept[k].age > Window
                            THEN [ Swept EXCEPT ![k] = NoAttempts ] ELSE Swept
      /\ \/ refused /\ Respond(r)
         \/ ~refused /\ IF step = "idle" THEN Respond(r) ELSE Go(r, step)
      /\ UNCHANGED <<redisEnabled, redis, guesses>>

\* Mutant of Check: the first assertNotLocked is left out.
CheckNothing(r) ==
  At(r, "check") /\ Go(r, "compare") /\ UNCHANGED <<redisEnabled, stores>>

\* Mutant of Check: a refused attempt starts the lock anew.
CheckRenewing(r) ==
  LET k == request[r].key
  IN  /\ At(r, "check")
      /\ \/ /\ Locked(k)
            /\ attempts' = [ attempts EXCEPT ![k].lock = Max({@, BaseLock}) ]
            /\ Respond(r)
         \/ ~Locked(k) /\ Go(r, "compare") /\ UNCHANGED attempts
      /\ UNCHANGED <<redisEnabled, redis, sinceCleanup, guesses>>

Check(r) == At(r, "check") /\ AssertNotLocked(r, "compare")

\* The user is looked up and the password compared: it is right or it is not.
Compare(r) ==
  /\ At(r, "compare")
  /\ Go(r, "succeed") \/ Go(r, "fail")
  /\ UNCHANGED <<redisEnabled, stores>>

\* recordSuccess forgets the key, and the login goes on to open a session.
Succeed(r) ==
  LET k == request[r].key
  IN  /\ At(r, "succeed")
      /\ \/ redisEnabled /\ redis' = [ redis EXCEPT ![k] = NoKeys ] /\ UNCHANGED attempts
         \/ /\ ~redisEnabled
            /\ attempts' = [ attempts EXCEPT ![k] = NoAttempts ]
            /\ UNCHANGED redis
      /\ guesses' = [ guesses EXCEPT ![Store][k] = NoGuesses ]
      /\ Respond(r)
      /\ UNCHANGED <<redisEnabled, sinceCleanup>>

\* 2 ^ n.
PowerOfTwo[n \in Nat] == IF n = 0 THEN 1 ELSE 2 * PowerOfTwo[n - 1]

\* Mutant of LockTime: the exponent counts all the failures.
LockTimeFromFirst(failures) == BaseLock * PowerOfTwo[failures]

LockTime(failures) == Min({BaseLock * PowerOfTwo[failures - MaxFailures], MaxLock})

\* recordFailure on the Map: the window slides, every failure restarts it.
FailedInMemory(old) ==
  LET n == IF old.failures > 0 /\ old.age <= Window THEN old.failures + 1 ELSE 1
  IN  [ failures |-> n, age |-> 0,
        lock |-> IF n >= MaxFailures THEN LockTime(n) ELSE old.lock ]

\* Mutant of FailedInRedis: only a failure that locks sets the expiry.
FailedInRedisUnexpiring(old, lag) ==
  LET n == old.failures + 1
  IN  [ failures |-> n,
        ttl  |-> IF n = MaxFailures THEN Window ELSE old.ttl,
        lock |-> IF n >= MaxFailures THEN LockTime(n) ELSE old.lock,
        lag  |-> IF n >= MaxFailures THEN lag ELSE old.lag ]

\* The Lua script: INCR, PEXPIRE on the first failure, SET PX of the lock.
FailedInRedis(old, lag) ==
  LET n == old.failures + 1
  IN  [ failures |-> n,
        ttl  |-> IF n = 1 THEN Window ELSE old.ttl,
        lock |-> IF n >= MaxFailures THEN LockTime(n) ELSE old.lock,
        lag  |-> IF n >= MaxFailures THEN lag ELSE old.lag ]

Fail(r) ==
  LET k == request[r].key
  IN  /\ At(r, "fail")
      /\ SweepClock
      /\ \/ /\ redisEnabled
            /\ redis' = [ redis EXCEPT ![k] = FailedInRedis(@, request[r].lag) ]
            /\ UNCHANGED attempts
         \/ /\ ~redisEnabled
            /\ attempts' = [ Swept EXCEPT ![k] = FailedInMemory(Swept[k]) ]
            /\ UNCHANGED redis
      /\ guesses' = [ guesses EXCEPT ![Store][k] = [ i \in 0..Window |-> @[i] + 1 ] ]
      /\ Go(r, "recheck")
      /\ UNCHANGED redisEnabled

\* The answer of a failure is 429 or 401; either way it is the end.
Recheck(r) == At(r, "recheck") /\ AssertNotLocked(r, "idle")

-------------------------------------------------------------------------------
(* Time, failures of the store, restarts.                                  *)

\* A call to the store or the database rejects: 500, nothing is recorded, and
\* the next login tries Redis again.
Abort(r) ==
  /\ ~At(r, "idle")
  /\ Respond(r)
  /\ UNCHANGED <<redisEnabled, stores>>

\* The process starts again, with Redis if it can be connected to; the Map is
\* lost, what Redis holds is not.
Restart ==
  /\ redisEnabled' \in BOOLEAN
  /\ request' = [ r \in Requests |-> Idle ]
  /\ attempts' = [ k \in Keys |-> NoAttempts ]
  /\ sinceCleanup' = CleanupInterval
  /\ guesses' = [ guesses EXCEPT !["map"] = [ k \in Keys |-> NoGuesses ] ]
  /\ UNCHANGED redis

OlderAttempts(old) ==
  [ old EXCEPT !.age  = IF old.failures = 0 THEN 0 ELSE Min({@ + 1, Window + 1}),
               !.lock = Max({@ - 1, 0}) ]

\* Redis expires its keys by itself.
OlderKeys(old) ==
  [ failures |-> IF old.ttl <= 1 THEN 0 ELSE old.failures,
    ttl      |-> Max({old.ttl - 1, 0}),
    lock     |-> Max({old.lock - 1, 0}),
    lag      |-> IF old.lock <= 1 THEN 0 ELSE old.lag ]

\* Only a call that awaits Redis holds a clock that time makes stale.
HoldsClock(r) == redisEnabled /\ request[r].pc \in {"check", "fail", "recheck"}

Tick ==
  /\ \A r \in Requests : HoldsClock(r) => request[r].lag < MaxLag
  /\ attempts' = [ k \in Keys |-> OlderAttempts(attempts[k]) ]
  /\ redis' = [ k \in Keys |-> OlderKeys(redis[k]) ]
  /\ sinceCleanup' = Min({sinceCleanup + 1, CleanupInterval})
  /\ request' = [ r \in Requests |->
       IF HoldsClock(r) THEN [request[r] EXCEPT !.lag = @ + 1] ELSE request[r] ]
  /\ guesses' = [ s \in {"map", "redis"} |-> [ k \in Keys |->
       IF LockedIn(s, k) /\ ~LockedIn(s, k)' THEN NoGuesses
       ELSE [ i \in 0..Window |-> IF i = 0 THEN 0 ELSE guesses[s][k][i - 1] ] ] ]
  /\ UNCHANGED redisEnabled

-------------------------------------------------------------------------------
Step(r) == Check(r) \/ Compare(r) \/ Succeed(r) \/ Fail(r) \/ Recheck(r)

Next ==
  \/ \E r \in Requests, k \in Keys : Arrive(r, k)
  \/ \E r \in Requests : Step(r) \/ Abort(r)
  \/ Restart
  \/ Tick

Spec == Init /\ [][Next]_vars

\* Time passes whatever the service does, and no call takes for ever; that
\* Tick may wait for a call is only the bound MaxLag.
FairSpec ==
  /\ Spec
  /\ SF_vars(Tick)
  /\ \A r \in Requests : WF_vars(Step(r))

-------------------------------------------------------------------------------
(* Properties                                                              *)

\* Records, clocks and requests are what the code can hold; in particular no
\* counter in Redis is without an expiry, no lock outlives its PX, and no clock
\* is further behind than a call.
TypeOK ==
  /\ redisEnabled \in BOOLEAN
  /\ attempts \in [Keys -> [failures : Nat, age : 0..Window + 1, lock : 0..MaxLock]]
  /\ redis \in
       [Keys -> [failures : Nat, ttl : 0..Window, lock : 0..MaxLock, lag : 0..MaxLag]]
  /\ \A k \in Keys : redis[k].failures = 0 <=> redis[k].ttl = 0
  /\ sinceCleanup \in 0..CleanupInterval
  /\ request \in
       [Requests -> [ pc  : {"idle", "check", "compare", "succeed", "fail", "recheck"},
                      key : Keys \cup {None}, lag : 0..MaxLag ]]
  /\ guesses \in [{"map", "redis"} -> [Keys -> [0..Window -> Nat]]]

\* Checking, comparing and recording are separate steps, yet between two locks
\* (or since a success or a restart forgot the key) no store records more than
\* MaxFailures - 1 wrong guesses in any stretch of Window, plus those that were
\* in flight together; in Redis, whose windows do not slide, two windows may
\* meet in the stretch.
GuessesBounded ==
  \A k \in Keys :
    /\ guesses["map"][k][Window] <= Cardinality(Requests) + MaxFailures - 1
    /\ guesses["redis"][k][Window] <= Cardinality(Requests) + 2 * (MaxFailures - 1)

\* A lock in force ends by time, by a restart that changes or loses the store,
\* or by a right password that was already being compared: not by a sweep, by
\* further failures, by an expiring counter or by a refused attempt.
LocksLast ==
  [][ \A k \in Keys : Locked(k) /\ ~Locked(k)' =>
        Tick \/ Restart \/ \E r \in Requests : Succeed(r) /\ request[r].key = k ]_vars

\* What the logins in flight together can make of a lock of that length, or of the
\* first one.
LongestLock(length) ==
  Max({ BaseLock * PowerOfTwo[Cardinality(Requests) - 1],
        length * PowerOfTwo[Cardinality(Requests)] })

\* The backoff is driven by the failures that follow a lock, and their counter forgets:
\* however large MaxLock is, a lock only doubles as long as it is no longer than a
\* Window (over Redis, where a Window starts before the lock does, but the lock looks
\* shorter by the length of a call), and then with the logins in flight.
LocksProportionate ==
  \A k \in Keys : /\ attempts[k].lock <= LongestLock(Window)
                  /\ redis[k].lock <= LongestLock(Window - 1 + MaxLag)

\* No attempts, however many, keep a key locked for ever: a refused attempt
\* does not prolong the lock.
LocksEnd == \A k \in Keys : Locked(k) ~> ~Locked(k)
===============================================================================
