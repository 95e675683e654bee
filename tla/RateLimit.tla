------------------------------- MODULE RateLimit -------------------------------
(***************************************************************************)
(* RateLimitGuard: requests per ip, method and route in fixed windows.     *)
(*                                                                         *)
(* The counter of a key is in Redis while the process trusts Redis.  After *)
(* one failed call it never asks Redis again, and counts in a Map of its   *)
(* own until it is restarted.  A store is Redis or a process (its Map);    *)
(* both count the same way.  Of the time only what is left of a window is  *)
(* kept, so that no horizon bounds a behaviour.  A Map entry whose resetAt *)
(* is past is an absent one, which is all that the cleanup makes of it.    *)
(***************************************************************************)
EXTENDS Naturals, FiniteSetsExt

CONSTANTS
  Processes,  \* the instances of the service
  Redis,      \* the shared store
  Keys,       \* ip:method:route
  Requests,   \* request slots
  Limit,      \* of RateLimit({ limit, windowMs })
  Window,
  None

ASSUME RateLimitAssumption ==
  /\ Redis \notin Processes
  /\ Limit \in Nat \ {0}
  /\ Window \in Nat \ {0}
  /\ None \notin Processes \cup Keys

Stores == Processes \cup {Redis}

VARIABLES
  redisEnabled,  \* by process
  counter,       \* by store and key
  request,       \* the requests that wait for Redis
  admitted       \* history: requests let through up to i ticks ago, by store and key

vars == <<redisEnabled, counter, request, admitted>>

NoCounter == [count |-> 0, left |-> 0]
Idle      == [process |-> None, key |-> None]
Nobody    == [ i \in 0..Window - 1 |-> 0 ]

Init ==
  /\ redisEnabled \in [Processes -> BOOLEAN]
  /\ counter = [ s \in Stores |-> [ k \in Keys |-> NoCounter ] ]
  /\ request = [ r \in Requests |-> Idle ]
  /\ admitted = [ s \in Stores |-> [ k \in Keys |-> Nobody ] ]

\* Mutant of Counted: every request restarts the window.
CountedSliding(old) == [count |-> Min({old.count + 1, Limit + 1}), left |-> Window]

\* Mutant of Counted: the expiry is set by a second call, which may not come.
CountedWithoutExpiry(old) ==
  [count |-> Min({old.count + 1, Limit + 1}), left |-> IF old.count = 1 THEN Window ELSE old.left]

\* The first request opens the window, the others only count.  (Counts above
\* Limit are all alike: Limit + 1 stands for them.)
Counted(old) ==
  IF old.count = 0 THEN [count |-> 1, left |-> Window]
                   ELSE [old EXCEPT !.count = Min({@ + 1, Limit + 1})]

LetThrough(past) == [ i \in 0..Window - 1 |-> past[i] + 1 ]

\* Mutant of Count: the limit is looked at before the request is counted.
CountAfterwards(s, k) ==
  /\ counter' = [ counter EXCEPT ![s][k] = Counted(@) ]
  /\ admitted' = [ admitted EXCEPT ![s][k] =
                     IF counter[s][k].count <= Limit THEN LetThrough(@) ELSE @ ]

\* The request is counted in a store and let through or answered with 429.
Count(s, k) ==
  /\ counter' = [ counter EXCEPT ![s][k] = Counted(@) ]
  /\ admitted' = [ admitted EXCEPT ![s][k] =
                     IF Counted(counter[s][k]).count <= Limit THEN LetThrough(@) ELSE @ ]

\* A request arrives; in a process without Redis it is counted at once.
CanActivate(r, p, k) ==
  /\ request[r] = Idle
  /\ \/ /\ redisEnabled[p]
        /\ request' = [ request EXCEPT ![r] = [process |-> p, key |-> k] ]
        /\ UNCHANGED <<counter, admitted>>
     \/ /\ ~redisEnabled[p]
        /\ Count(p, k)
        /\ UNCHANGED request
  /\ UNCHANGED redisEnabled

\* Redis answers, whether or not its process still trusts it.
RedisCounts(r) ==
  /\ request[r] # Idle
  /\ Count(Redis, request[r].key)
  /\ request' = [ request EXCEPT ![r] = Idle ]
  /\ UNCHANGED redisEnabled

\* The call fails, before or after the script ran: the request is counted in
\* the Map, and so are those that follow.
RedisFails(r) ==
  LET p == request[r].process
      k == request[r].key
  IN  /\ request[r] # Idle
      /\ redisEnabled' = [ redisEnabled EXCEPT ![p] = FALSE ]
      /\ \E ran \in BOOLEAN :
           counter' = [ counter EXCEPT ![p][k] = Counted(@),
                                       ![Redis][k] = IF ran THEN Counted(@) ELSE @ ]
      /\ admitted' = [ admitted EXCEPT ![p][k] =
                         IF Counted(counter[p][k]).count <= Limit THEN LetThrough(@) ELSE @ ]
      /\ request' = [ request EXCEPT ![r] = Idle ]

\* A process starts again, with Redis if it can be connected to.
Restart(p) ==
  /\ \E connected \in BOOLEAN :
       redisEnabled' = [ redisEnabled EXCEPT ![p] = connected ]
  /\ counter' = [ counter EXCEPT ![p] = [ k \in Keys |-> NoCounter ] ]
  /\ admitted' = [ admitted EXCEPT ![p] = [ k \in Keys |-> Nobody ] ]
  /\ request' = [ r \in Requests |->
                    IF request[r].process = p THEN Idle ELSE request[r] ]

Older(old) ==
  IF old.left <= 1 THEN NoCounter ELSE [old EXCEPT !.left = @ - 1]

Tick ==
  /\ counter' = [ s \in Stores |-> [ k \in Keys |-> Older(counter[s][k]) ] ]
  /\ admitted' = [ s \in Stores |-> [ k \in Keys |->
       [ i \in 0..Window - 1 |-> IF i = 0 THEN 0 ELSE admitted[s][k][i - 1] ] ] ]
  /\ UNCHANGED <<redisEnabled, request>>

Next ==
  \/ \E r \in Requests, p \in Processes, k \in Keys : CanActivate(r, p, k)
  \/ \E r \in Requests : RedisCounts(r) \/ RedisFails(r)
  \/ \E p \in Processes : Restart(p)
  \/ Tick

Spec == Init /\ [][Next]_vars

\* Time passes, whatever is requested.
FairSpec == Spec /\ WF_vars(Tick)

-------------------------------------------------------------------------------
(* Properties                                                              *)

\* The variables have their types, and no counter is without a window that
\* will end it.
TypeOK ==
  /\ redisEnabled \in [Processes -> BOOLEAN]
  /\ counter \in [Stores -> [Keys -> [count : 0..Limit + 1, left : 0..Window]]]
  /\ \A s \in Stores, k \in Keys : counter[s][k].count = 0 <=> counter[s][k].left = 0
  /\ request \in [Requests -> [process : Processes \cup {None}, key : Keys \cup {None}]]
  /\ admitted \in [Stores -> [Keys -> [0..Window - 1 -> Nat]]]

\* No stretch of Window lets 2 * Limit requests of a key through in any one store,
\* whatever Redis fails and whichever requests are in flight when it does: where the end
\* of one window meets the next, the request that opened the earlier one lies outside.
\* So a client gets at most 2 * Limit - 1 per store.
AdmissionsBounded ==
  \A s \in Stores, k \in Keys : admitted[s][k][Window - 1] < 2 * Limit

\* A refused client is not refused for ever: refusals count, but they neither
\* prolong a window nor leave a counter without one.
RefusalEnds ==
  \A s \in Stores, k \in Keys :
    counter[s][k].count >= Limit ~> counter[s][k].count < Limit
===============================================================================
