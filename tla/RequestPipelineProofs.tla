------------------------ MODULE RequestPipelineProofs ------------------------
(***************************************************************************)
(* Proofs about RequestPipeline for any number of instances, clients and   *)
(* requests in flight, any limit and any window.                           *)
(*                                                                         *)
(* Of the pipeline the rate limiter only sees requests that arrive, Redis  *)
(* that answers or does not, and processes that stop: PipelineSpec         *)
(* implements RateLimit's Spec.  The trace of a process is complete        *)
(* because a request is counted exactly when it becomes one whose audit    *)
(* entry is on its way, and both are forgotten together when it stops.     *)
(***************************************************************************)
EXTENDS RequestPipeline, FiniteSetTheorems, TLAPS

-------------------------------------------------------------------------------
(* The counters.                                                           *)

\* A counter, which has a window to end it unless it is zero.
Counters == { c \in [count : 0..Limit + 1, left : 0..Window] : c.count = 0 <=> c.left = 0 }

\* Min of two numbers is the smaller one.
LEMMA MinOfTwo ==
  ASSUME NEW a \in Nat, NEW b \in Nat
  PROVE  Min({a, b}) = IF a <= b THEN a ELSE b
BY DEF Min

\* Counting leaves a counter within its window.
LEMMA CountedTyped ==
  ASSUME NEW old \in Counters
  PROVE  Counted(old) \in Counters
<1>1. Limit \in Nat \ {0} /\ Window \in Nat \ {0}
  BY RateLimitAssumption
<1>2. old.count \in 0..Limit + 1 /\ old.left \in 0..Window /\ (old.count = 0 <=> old.left = 0)
  BY DEF Counters
<1>3. CASE old.count = 0
  BY <1>1, <1>3 DEF Counted, Counters
<1>4. CASE old.count # 0
  <2>1. PICK n \in 1..Limit + 1 : n = Min({old.count + 1, Limit + 1})
    BY <1>1, <1>2, <1>4, MinOfTwo
  <2>2. Counted(old) = [old EXCEPT !.count = n]
    BY <1>4, <2>1 DEF Counted
  <2> QED
    BY <1>1, <1>2, <1>4, <2>1, <2>2 DEF Counters
<1> QED
  BY <1>3, <1>4

\* Time ends windows.
LEMMA OlderTyped ==
  ASSUME NEW old \in Counters
  PROVE  Older(old) \in Counters
<1>1. Limit \in Nat \ {0} /\ Window \in Nat \ {0}
  BY RateLimitAssumption
<1>2. old.count \in 0..Limit + 1 /\ old.left \in 0..Window /\ (old.count = 0 <=> old.left = 0)
  BY DEF Counters
<1>3. CASE old.left <= 1
  BY <1>1, <1>3 DEF Older, NoCounter, Counters
<1>4. CASE old.left > 1
  <2>1. PICK n \in 1..Window : n = old.left - 1
    BY <1>1, <1>2, <1>4
  <2>2. Older(old) = [old EXCEPT !.left = n]
    BY <1>2, <1>4, <2>1 DEF Older
  <2> QED
    BY <1>1, <1>2, <1>4, <2>1, <2>2 DEF Counters
<1> QED
  BY <1>2, <1>3, <1>4

Histories == [0..Window - 1 -> Nat]

\* A request that waits for Redis, or a slot where none does.
Slots == [process : Processes, key : Keys] \cup {Idle}

\* The types of RateLimit, with slots that are free or taken.
LimiterOK ==
  /\ redisEnabled \in [Processes -> BOOLEAN]
  /\ counter \in [Stores -> [Keys -> Counters]]
  /\ request \in [Requests -> Slots]
  /\ admitted \in [Stores -> [Keys -> Histories]]

\* They are the types that are checked.
LEMMA LimiterTyped ==
  LimiterOK => TypeOK
<1> SUFFICES ASSUME LimiterOK PROVE TypeOK
  OBVIOUS
<1>1. counter \in [Stores -> [Keys -> [count : 0..Limit + 1, left : 0..Window]]]
  BY DEF LimiterOK, Counters
<1>2. \A s \in Stores, k \in Keys : counter[s][k].count = 0 <=> counter[s][k].left = 0
  BY DEF LimiterOK, Counters
<1>3. Slots \subseteq [process : Processes \cup {None}, key : Keys \cup {None}]
  BY DEF Slots, Idle
<1> QED
  BY <1>1, <1>2, <1>3 DEF LimiterOK, TypeOK, Histories

\* A store in which a counter or a history gets a new value.
LEMMA StoreTyped ==
  ASSUME NEW s \in Stores, NEW k \in Keys
  PROVE  /\ \A f \in [Stores -> [Keys -> Counters]], c \in Counters :
              [ f EXCEPT ![s][k] = c ] \in [Stores -> [Keys -> Counters]]
         /\ \A f \in [Stores -> [Keys -> Histories]], h \in Histories :
              [ f EXCEPT ![s][k] = h ] \in [Stores -> [Keys -> Histories]]
OBVIOUS

-------------------------------------------------------------------------------
(* The rate limiter.                                                       *)

\* What a key's history becomes when a request is counted in a store.
Answered(c, past) == IF Counted(c).count <= Limit THEN LetThrough(past) ELSE past

LEMMA AnsweredTyped ==
  ASSUME NEW c, NEW past \in Histories
  PROVE  Answered(c, past) \in Histories
BY DEF Answered, LetThrough, Histories

\* One more is admitted, or none.
LEMMA AdmitStep ==
  ASSUME LimiterOK, NEW s \in Stores, NEW k \in Keys,
         admitted' = [ admitted EXCEPT ![s][k] =
                         IF Counted(counter[s][k]).count <= Limit THEN LetThrough(@) ELSE @ ]
  PROVE  /\ admitted' \in [Stores -> [Keys -> Histories]]
         /\ admitted' = [ admitted EXCEPT ![s][k] = Answered(counter[s][k], admitted[s][k]) ]
<1>1. PICK h \in Histories : h = Answered(counter[s][k], admitted[s][k])
  BY AnsweredTyped DEF LimiterOK
<1>2. admitted' = [ admitted EXCEPT ![s][k] = h ]
  BY <1>1 DEF Answered
<1>3. [ admitted EXCEPT ![s][k] = h ] \in [Stores -> [Keys -> Histories]]
  BY StoreTyped DEF LimiterOK
<1> QED
  BY <1>1, <1>2, <1>3

\* A store that counts.
LEMMA CountStep ==
  ASSUME LimiterOK, NEW s \in Stores, NEW k \in Keys, Count(s, k)
  PROVE  /\ counter' \in [Stores -> [Keys -> Counters]]
         /\ admitted' \in [Stores -> [Keys -> Histories]]
<1>1. Counted(counter[s][k]) \in Counters
  BY CountedTyped DEF LimiterOK
<1> QED
  BY <1>1, AdmitStep, StoreTyped DEF Count, LimiterOK

\* A call that fails, counted in the Map and maybe in Redis too.
LEMMA RedisFailsStep ==
  ASSUME LimiterOK, NEW r \in Requests, RedisFails(r)
  PROVE  LimiterOK'
<1>1. PICK p \in Processes, k \in Keys : request[r].process = p /\ request[r].key = k
  BY DEF RedisFails, LimiterOK, Slots
<1>2. Redis \in Stores /\ p \in Stores /\ p # Redis
  BY RateLimitAssumption DEF Stores
<1>3. PICK ran \in BOOLEAN :
        counter' = [ counter EXCEPT ![p][k] = Counted(@),
                                    ![Redis][k] = IF ran THEN Counted(@) ELSE @ ]
  BY <1>1 DEF RedisFails
<1>4. PICK a \in Counters : a = Counted(counter[p][k])
  BY <1>2, CountedTyped DEF LimiterOK
<1>5. PICK b \in Counters : b = IF ran THEN Counted(counter[Redis][k]) ELSE counter[Redis][k]
  BY <1>2, CountedTyped DEF LimiterOK
<1>6. counter' = [ counter EXCEPT ![p][k] = a, ![Redis][k] = b ]
  BY <1>2, <1>3, <1>4, <1>5 DEF LimiterOK
<1>7. counter' \in [Stores -> [Keys -> Counters]]
  <2>1. PICK mid : mid = [ counter EXCEPT ![p][k] = a ]
    OBVIOUS
  <2>2. mid \in [Stores -> [Keys -> Counters]]
    BY <1>2, <2>1, StoreTyped DEF LimiterOK
  <2>3. [ mid EXCEPT ![Redis][k] = b ] \in [Stores -> [Keys -> Counters]]
    BY <1>2, <2>2, StoreTyped
  <2> QED
    BY <1>6, <2>1, <2>3
<1>8. admitted' \in [Stores -> [Keys -> Histories]]
  BY <1>1, <1>2, AdmitStep DEF RedisFails
<1> QED
  BY <1>1, <1>7, <1>8 DEF RedisFails, LimiterOK, Slots

\* A process that starts with empty counters.
LEMMA RestartStep ==
  ASSUME LimiterOK, NEW p \in Processes, Restart(p)
  PROVE  LimiterOK'
<1>1. p \in Stores
  BY DEF Stores
<1>2. NoCounter \in Counters /\ Nobody \in Histories
  BY RateLimitAssumption DEF NoCounter, Counters, Nobody, Histories
<1>3. PICK connected \in BOOLEAN : redisEnabled' = [ redisEnabled EXCEPT ![p] = connected ]
  BY DEF Restart
<1>4. redisEnabled' \in [Processes -> BOOLEAN]
  BY <1>3 DEF LimiterOK
<1>5. /\ counter' \in [Stores -> [Keys -> Counters]]
      /\ admitted' \in [Stores -> [Keys -> Histories]]
  BY <1>1, <1>2 DEF Restart, LimiterOK
<1>6. request' \in [Requests -> Slots]
  BY DEF Restart, LimiterOK, Slots
<1> QED
  BY <1>4, <1>5, <1>6 DEF LimiterOK

\* Time that passes.
LEMMA TickStep ==
  ASSUME LimiterOK, Tick
  PROVE  LimiterOK'
<1>1. counter' \in [Stores -> [Keys -> Counters]]
  BY OlderTyped DEF Tick, LimiterOK
<1>2. ASSUME NEW s \in Stores, NEW k \in Keys
      PROVE  [ i \in 0..Window - 1 |-> IF i = 0 THEN 0 ELSE admitted[s][k][i - 1] ] \in Histories
  <2>1. PICK h \in Histories : h = admitted[s][k]
    BY DEF LimiterOK
  <2>2. Window \in Nat
    BY RateLimitAssumption
  <2> QED
    BY <2>1, <2>2 DEF Histories
<1>3. admitted' \in [Stores -> [Keys -> Histories]]
  BY <1>2 DEF Tick
<1> QED
  BY <1>1, <1>3 DEF Tick, LimiterOK

\* Every step of the limiter keeps its types.
LEMMA LimiterStep ==
  ASSUME LimiterOK, [Next]_vars
  PROVE  LimiterOK'
<1>1. ASSUME NEW r \in Requests, NEW p \in Processes, NEW k \in Keys, CanActivate(r, p, k)
      PROVE  LimiterOK'
  <2>1. p \in Stores
    BY DEF Stores
  <2> QED
    BY <1>1, <2>1, CountStep DEF CanActivate, LimiterOK, Slots
<1>2. ASSUME NEW r \in Requests, RedisCounts(r)
      PROVE  LimiterOK'
  <2>1. request[r].key \in Keys /\ Redis \in Stores
    BY <1>2 DEF RedisCounts, LimiterOK, Slots, Stores
  <2> QED
    BY <1>2, <2>1, CountStep DEF RedisCounts, LimiterOK, Slots
<1>3. ASSUME NEW r \in Requests, RedisFails(r)
      PROVE  LimiterOK'
  BY <1>3, RedisFailsStep
<1>4. ASSUME NEW p \in Processes, Restart(p)
      PROVE  LimiterOK'
  BY <1>4, RestartStep
<1>5. CASE Tick
  BY <1>5, TickStep
<1>6. CASE UNCHANGED vars
  BY <1>6 DEF vars, LimiterOK
<1> QED
  BY <1>1, <1>2, <1>3, <1>4, <1>5, <1>6 DEF Next

\* A limiter that has just started.
LEMMA LimiterInitially ==
  Init => LimiterOK
<1>1. NoCounter \in Counters /\ Nobody \in Histories
  BY RateLimitAssumption DEF NoCounter, Counters, Nobody, Histories
<1> QED
  BY <1>1 DEF Init, LimiterOK, Slots

-------------------------------------------------------------------------------
(* The pipeline.                                                           *)

Stages == {"idle", "limit", "handler", "auditing"}

\* A slot, free or with a request on its way through a process.
PipelineSlots == {Waiting} \cup [stage : Stages \ {"idle"}, process : Processes]

\* The limiter's guarantees, slots that agree with it, and two counts of each process.
PipelineOK ==
  /\ LimiterOK
  /\ pipeline \in [Requests -> PipelineSlots]
  /\ \A r \in Requests :
       /\ At(r, "limit") <=> request[r] # Idle
       /\ At(r, "limit") => request[r].process = pipeline[r].process
  /\ metrics \in [Processes -> 0..1] /\ auditLog \in [Processes -> 0..1]

\* They imply the types that are checked.
LEMMA PipelineTyped ==
  PipelineOK => PipelineTypeOK
<1> SUFFICES ASSUME PipelineOK PROVE PipelineTypeOK
  OBVIOUS
<1>1. pipeline \in [ Requests -> [stage : Stages, process : Processes \cup {None}] ]
  BY DEF PipelineOK, PipelineSlots, Waiting, Stages
<1>2. \A r \in Requests : At(r, "idle") <=> pipeline[r].process = None
  BY RateLimitAssumption DEF PipelineOK, PipelineSlots, Waiting, Stages, At
<1> QED
  BY <1>1, <1>2, LimiterTyped DEF PipelineOK, PipelineTypeOK, Stages, Modulus

\* What a request of the pipeline does to the limiter is a step of the limiter or none.
LEMMA PipelineStepBelow ==
  ASSUME PipelineOK, [PipelineNext]_pipelineVars
  PROVE  [Next]_vars
<1>1. ASSUME NEW r \in Requests, Step(r)
      PROVE  [Next]_vars
  <2>1. CASE RedisAnswers(r)
    BY <2>1 DEF RedisAnswers, Next
  <2>2. CASE RedisRejects(r)
    BY <2>2 DEF RedisRejects, Next
  <2>3. CASE Handle(r) \/ AuditStored(r)
    BY <2>3 DEF Handle, AuditStored
  <2>4. CASE AuditRejected(r)
    <3>0. PICK p \in Processes : pipeline[r].process = p
      <4>1. pipeline[r] \in PipelineSlots /\ pipeline[r].stage = "auditing"
        BY <2>4 DEF AuditRejected, PipelineOK, At
      <4> QED
        BY <4>1 DEF PipelineSlots, Waiting
    <3>1. Stop(p)
      BY <2>4, <3>0 DEF AuditRejected
    <3> QED
      BY <3>1 DEF Stop, Next
  <2> QED
    BY <1>1, <2>1, <2>2, <2>3, <2>4 DEF Step
<1>2. ASSUME NEW p \in Processes, Stop(p)
      PROVE  [Next]_vars
  BY <1>2 DEF Stop, Next
<1>3. ASSUME NEW r \in Requests, NEW p \in Processes, NEW k \in Keys, ArriveLimited(r, p, k)
      PROVE  [Next]_vars
  BY <1>3 DEF ArriveLimited, Next
<1>4. ASSUME NEW r \in Requests, NEW p \in Processes, Unauthorized(r) \/ ArriveUnlimited(r, p)
      PROVE  [Next]_vars
  BY <1>4 DEF Unauthorized, ArriveUnlimited, pipelineVars
<1>5. CASE TimePasses \/ UNCHANGED pipelineVars
  BY <1>5 DEF TimePasses, Next, pipelineVars
<1> QED
  BY <1>1, <1>2, <1>3, <1>4, <1>5 DEF PipelineNext, Unauthorized, pipelineVars

\* A slot that moves on to a stage, or to its end, beside a limiter that knows of it.
LEMMA SlotStep ==
  ASSUME PipelineOK, LimiterOK', NEW r \in Requests, NEW q \in PipelineSlots,
         pipeline' = [ pipeline EXCEPT ![r] = q ],
         \A s \in Requests : s # r => request'[s] = request[s],
         q.stage = "limit" <=> request'[r] # Idle,
         q.stage = "limit" => request'[r].process = q.process,
         metrics' \in [Processes -> 0..1], auditLog' \in [Processes -> 0..1]
  PROVE  PipelineOK'
<1>1. pipeline' \in [Requests -> PipelineSlots]
  BY DEF PipelineOK
<1>2. ASSUME NEW s \in Requests
      PROVE  /\ pipeline'[s].stage = "limit" <=> request'[s] # Idle
             /\ pipeline'[s].stage = "limit" => request'[s].process = pipeline'[s].process
  BY DEF PipelineOK, At
<1> QED
  BY <1>1, <1>2 DEF PipelineOK, At

\* One more is a count too.
LEMMA OneMoreTyped ==
  ASSUME NEW c \in [Processes -> 0..1], NEW p \in Processes
  PROVE  OneMore(c, p) \in [Processes -> 0..1]
<1>1. PICK n \in 0..1 : n = (c[p] + 1) % Modulus
  <2>1. (c[p] + 1) % Modulus \in 0..1
    BY DEF Modulus
  <2> QED
    BY <2>1
<1> QED
  BY <1>1 DEF OneMore

\* A process takes its requests, and its counts, with it.
LEMMA StopStep ==
  ASSUME PipelineOK, NEW p \in Processes, Stop(p)
  PROVE  PipelineOK'
<1>1. LimiterOK'
  BY RestartStep DEF Stop, PipelineOK
<1>2. pipeline' \in [Requests -> PipelineSlots]
  BY DEF Stop, PipelineOK, PipelineSlots
<1>3. ASSUME NEW r \in Requests
      PROVE  /\ pipeline'[r].stage = "limit" <=> request'[r] # Idle
             /\ pipeline'[r].stage = "limit" => request'[r].process = pipeline'[r].process
  <2>1. /\ pipeline'[r] = IF pipeline[r].process = p THEN Waiting ELSE pipeline[r]
        /\ request'[r] = IF request[r].process = p THEN Idle ELSE request[r]
    BY DEF Stop, Restart, PipelineOK
  <2>2. request[r] \in Slots /\ pipeline[r] \in PipelineSlots
    BY DEF PipelineOK, LimiterOK
  <2>3. Waiting.stage = "idle"
    BY DEF Waiting
  <2>4. CASE pipeline[r].stage = "limit"
    BY <2>1, <2>2, <2>3, <2>4 DEF PipelineOK, At
  <2>5. CASE pipeline[r].stage # "limit"
    BY <2>1, <2>2, <2>3, <2>5 DEF PipelineOK, At
  <2> QED
    BY <2>4, <2>5
<1>4. metrics' \in [Processes -> 0..1] /\ auditLog' \in [Processes -> 0..1]
  BY DEF Stop, PipelineOK
<1> QED
  BY <1>1, <1>2, <1>3, <1>4 DEF PipelineOK, At

\* Once counted, a request is let through or answered.
LEMMA EnterStep ==
  ASSUME PipelineOK, LimiterOK', NEW r \in Requests, NEW p \in Processes, NEW s \in Stores,
         NEW k \in Keys, Enter(r, p, s, k), UNCHANGED traceVars,
         request'[r] = Idle, \A t \in Requests : t # r => request'[t] = request[t]
  PROVE  PipelineOK'
<1>1. PICK q \in PipelineSlots : pipeline' = [ pipeline EXCEPT ![r] = q ] /\ q.stage # "limit"
  <2>1. [stage |-> "handler", process |-> p] \in PipelineSlots /\ Waiting \in PipelineSlots
    BY DEF PipelineSlots, Stages
  <2>2. Waiting.stage = "idle"
    BY DEF Waiting
  <2> QED
    BY <2>1, <2>2 DEF Enter, Proceed, Finish
<1> QED
  BY <1>1, SlotStep DEF PipelineOK, traceVars

\* Every step keeps the guarantees of the pipeline.
LEMMA PipelineStep ==
  ASSUME PipelineOK, [PipelineNext]_pipelineVars
  PROVE  PipelineOK'
<1>0. LimiterOK'
  BY PipelineStepBelow, LimiterStep DEF PipelineOK
<1>1. ASSUME NEW r \in Requests, NEW p \in Processes, ArriveUnlimited(r, p)
      PROVE  PipelineOK'
  <2>1. PICK q \in PipelineSlots : q = [stage |-> "handler", process |-> p]
    BY DEF PipelineSlots, Stages
  <2>2. request'[r] = Idle /\ request' = request
    BY <1>1 DEF ArriveUnlimited, PipelineOK, At, vars
  <2> QED
    BY <1>0, <1>1, <2>1, <2>2, SlotStep DEF ArriveUnlimited, Proceed, PipelineOK, traceVars
<1>2. ASSUME NEW r \in Requests, NEW p \in Processes, NEW k \in Keys, ArriveLimited(r, p, k)
      PROVE  PipelineOK'
  <2>0. request[r] = Idle /\ p \in Stores
    BY <1>2 DEF ArriveLimited, CanActivate, Stores
  <2>1. CASE redisEnabled[p]
    <3>1. PICK q \in PipelineSlots : q = [stage |-> "limit", process |-> p]
      BY DEF PipelineSlots, Stages
    <3>2. request' = [ request EXCEPT ![r] = [process |-> p, key |-> k] ]
      BY <1>2, <2>1 DEF ArriveLimited, CanActivate
    <3>3. request'[r] # Idle /\ request'[r].process = p
      BY <3>2, RateLimitAssumption DEF PipelineOK, LimiterOK, Idle
    <3>4. pipeline' = [ pipeline EXCEPT ![r] = q ]
      BY <1>2, <2>1, <3>1 DEF ArriveLimited, Proceed
    <3>5. \A s \in Requests : s # r => request'[s] = request[s]
      BY <3>2 DEF PipelineOK, LimiterOK
    <3> QED
      BY <1>0, <1>2, <3>1, <3>3, <3>4, <3>5, SlotStep DEF ArriveLimited, PipelineOK, traceVars
  <2>2. CASE ~redisEnabled[p]
    BY <1>0, <1>2, <2>0, <2>2, EnterStep DEF ArriveLimited, CanActivate
  <2> QED
    BY <2>1, <2>2
<1>3. ASSUME NEW r \in Requests, RedisAnswers(r) \/ RedisRejects(r)
      PROVE  PipelineOK'
  <2>1. PICK p \in Processes, k \in Keys : request[r].process = p /\ request[r].key = k
    BY <1>3 DEF RedisAnswers, RedisRejects, PipelineOK, LimiterOK, Slots
  <2>2. p \in Stores /\ Redis \in Stores
    BY DEF Stores
  <2>3. request' = [ request EXCEPT ![r] = Idle ]
    BY <1>3 DEF RedisAnswers, RedisRejects, RedisCounts, RedisFails
  <2>4. request'[r] = Idle /\ \A t \in Requests : t # r => request'[t] = request[t]
    BY <2>3 DEF PipelineOK, LimiterOK
  <2> QED
    BY <1>0, <1>3, <2>1, <2>2, <2>4, EnterStep DEF RedisAnswers, RedisRejects
<1>4. ASSUME NEW r \in Requests, Handle(r) \/ AuditStored(r)
      PROVE  PipelineOK'
  <2>1. PICK p \in Processes : pipeline[r].process = p
    BY <1>4 DEF Handle, AuditStored, At, PipelineOK, PipelineSlots, Waiting
  <2>2. request'[r] = Idle /\ request' = request
    BY <1>4 DEF Handle, AuditStored, At, PipelineOK, vars
  <2>3. PICK q \in PipelineSlots : pipeline' = [ pipeline EXCEPT ![r] = q ] /\ q.stage # "limit"
    <3>1. [stage |-> "auditing", process |-> p] \in PipelineSlots /\ Waiting \in PipelineSlots
      BY DEF PipelineSlots, Stages
    <3>2. Waiting.stage = "idle"
      BY DEF Waiting
    <3> QED
      BY <1>4, <2>1, <3>1, <3>2 DEF Handle, AuditStored, Proceed, Finish
  <2>4. metrics' \in [Processes -> 0..1] /\ auditLog' \in [Processes -> 0..1]
    BY <1>4, <2>1, OneMoreTyped DEF Handle, AuditStored, PipelineOK
  <2> QED
    BY <1>0, <2>2, <2>3, <2>4, SlotStep
<1>5. ASSUME NEW r \in Requests, AuditRejected(r)
      PROVE  PipelineOK'
  <2>1. PICK p \in Processes : pipeline[r].process = p
    BY <1>5 DEF AuditRejected, At, PipelineOK, PipelineSlots, Waiting
  <2> QED
    BY <1>5, <2>1, StopStep DEF AuditRejected
<1>6. ASSUME NEW p \in Processes, Stop(p)
      PROVE  PipelineOK'
  BY <1>6, StopStep
<1>7. CASE TimePasses \/ UNCHANGED pipelineVars \/ \E r \in Requests : Unauthorized(r)
  <2>1. UNCHANGED <<request, pipeline, metrics, auditLog>>
    BY <1>7 DEF TimePasses, Tick, Unauthorized, pipelineVars, traceVars, vars
  <2> QED
    BY <1>0, <2>1 DEF PipelineOK, At
<1> QED
  BY <1>1, <1>2, <1>3, <1>4, <1>5, <1>6, <1>7 DEF PipelineNext, Step

\* An idle pipeline guarantees everything.
LEMMA PipelineInitially ==
  PipelineInit => PipelineOK
<1> SUFFICES ASSUME PipelineInit PROVE PipelineOK
  OBVIOUS
<1>1. Waiting.stage = "idle"
  BY DEF Waiting
<1> QED
  BY <1>1, LimiterInitially DEF PipelineInit, Init, PipelineOK, PipelineSlots, At

\* The guarantees hold always.
LEMMA PipelineInvariance ==
  PipelineSpec => []PipelineOK
BY PipelineInitially, PipelineStep, PTL DEF PipelineSpec

-------------------------------------------------------------------------------
(* Theorems.                                                               *)

\* Slots and limiter agree about who waits for Redis, where and what for, and no counter
\* is ever without a window that ends it, with any number of instances and requests.
THEOREM PipelineTypeCorrect ==
  PipelineSpec => []PipelineTypeOK
BY PipelineInvariance, PipelineTyped, PTL

\* The pipeline implements the rate limiter: it composes it with guards, interceptors,
\* audit entries and processes that stop, and asks nothing of it that it does not do.
THEOREM PipelineImplementsRateLimit ==
  PipelineSpec => Spec
<1>1. PipelineInit => Init
  BY DEF PipelineInit
<1>2. PipelineOK /\ [PipelineNext]_pipelineVars => [Next]_vars
  BY PipelineStepBelow
<1> QED
  BY <1>1, <1>2, PipelineInvariance, PTL DEF PipelineSpec, Spec

\* The requests of a process whose audit entry is on its way.
Auditing(p) == { r \in Requests : At(r, "auditing") /\ pipeline[r].process = p }

\* They are finitely many.
LEMMA AuditingFinite ==
  ASSUME NEW p
  PROVE  IsFiniteSet(Auditing(p)) /\ Cardinality(Auditing(p)) \in Nat
<1>1. Auditing(p) \subseteq Requests
  BY DEF Auditing
<1> QED
  BY <1>1, PipelineAssumption, FS_Subset, FS_CardinalityType

\* A handled request moves the count of one side, a stored entry that of the other.
LEMMA TraceStep ==
  ASSUME PipelineOK, TraceComplete, [PipelineNext]_pipelineVars
  PROVE  TraceComplete'
<1> SUFFICES ASSUME NEW p \in Processes
             PROVE  metrics'[p] = (auditLog'[p] + Cardinality(Auditing(p)')) % 2
  BY DEF TraceComplete, Auditing, Modulus
<1>0. /\ metrics[p] = (auditLog[p] + Cardinality(Auditing(p))) % 2
      /\ metrics[p] \in 0..1 /\ auditLog[p] \in 0..1
      /\ Cardinality(Auditing(p)) \in Nat
  BY AuditingFinite DEF TraceComplete, Auditing, Modulus, PipelineOK
<1>1. ASSUME NEW r \in Requests, Handle(r)
      PROVE  metrics'[p] = (auditLog'[p] + Cardinality(Auditing(p)')) % 2
  <2>1. CASE pipeline[r].process = p
    <3>1. Auditing(p)' = Auditing(p) \cup {r} /\ r \notin Auditing(p)
      BY <1>1, <2>1 DEF Handle, Proceed, Auditing, At, PipelineOK
    <3>2. Cardinality(Auditing(p)') = Cardinality(Auditing(p)) + 1
      BY <3>1, AuditingFinite, FS_AddElement
    <3>3. metrics'[p] = (metrics[p] + 1) % 2 /\ auditLog'[p] = auditLog[p]
      BY <1>1, <2>1 DEF Handle, OneMore, PipelineOK, Modulus
    <3> QED
      BY <1>0, <3>2, <3>3
  <2>2. CASE pipeline[r].process # p
    <3>1. Auditing(p)' = Auditing(p)
      BY <1>1, <2>2 DEF Handle, Proceed, Auditing, At, PipelineOK
    <3>2. metrics'[p] = metrics[p] /\ auditLog'[p] = auditLog[p]
      BY <1>1, <2>2 DEF Handle, OneMore, PipelineOK
    <3> QED
      BY <1>0, <3>1, <3>2
  <2> QED
    BY <2>1, <2>2
<1>2. ASSUME NEW r \in Requests, AuditStored(r)
      PROVE  metrics'[p] = (auditLog'[p] + Cardinality(Auditing(p)')) % 2
  <2>1. CASE pipeline[r].process = p
    <3>1. Auditing(p)' = Auditing(p) \ {r} /\ r \in Auditing(p)
      BY <1>2, <2>1 DEF AuditStored, Finish, Waiting, Auditing, At, PipelineOK
    <3>2. Cardinality(Auditing(p)') = Cardinality(Auditing(p)) - 1
      BY <3>1, AuditingFinite, FS_RemoveElement
    <3>3. auditLog'[p] = (auditLog[p] + 1) % 2 /\ metrics'[p] = metrics[p]
      BY <1>2, <2>1 DEF AuditStored, OneMore, PipelineOK, Modulus
    <3> QED
      BY <1>0, <3>2, <3>3
  <2>2. CASE pipeline[r].process # p
    <3>1. Auditing(p)' = Auditing(p)
      BY <1>2, <2>2, RateLimitAssumption
         DEF AuditStored, Finish, Waiting, Auditing, At, PipelineOK
    <3>2. metrics'[p] = metrics[p] /\ auditLog'[p] = auditLog[p]
      BY <1>2, <2>2 DEF AuditStored, OneMore, PipelineOK
    <3> QED
      BY <1>0, <3>1, <3>2
  <2> QED
    BY <2>1, <2>2
<1>3. ASSUME NEW q, Stop(q)
      PROVE  metrics'[p] = (auditLog'[p] + Cardinality(Auditing(p)')) % 2
  <2>1. CASE q = p
    <3>1. Auditing(p)' = {}
      BY <1>3, <2>1, RateLimitAssumption DEF Stop, Waiting, Auditing, At, PipelineOK
    <3>2. Cardinality(Auditing(p)') = 0
      BY <3>1, FS_EmptySet
    <3>3. metrics'[p] = 0 /\ auditLog'[p] = 0
      BY <1>3, <2>1 DEF Stop, PipelineOK
    <3> QED
      BY <3>2, <3>3
  <2>2. CASE q # p
    <3>1. Auditing(p)' = Auditing(p)
      BY <1>3, <2>2, RateLimitAssumption DEF Stop, Waiting, Auditing, At, PipelineOK
    <3>2. metrics'[p] = metrics[p] /\ auditLog'[p] = auditLog[p]
      BY <1>3, <2>2 DEF Stop, PipelineOK
    <3> QED
      BY <1>0, <3>1, <3>2
  <2> QED
    BY <2>1, <2>2
<1>4. ASSUME UNCHANGED traceVars,
             \A r \in Requests : /\ At(r, "auditing")' <=> At(r, "auditing")
                                 /\ At(r, "auditing") =>
                                      pipeline'[r].process = pipeline[r].process
      PROVE  metrics'[p] = (auditLog'[p] + Cardinality(Auditing(p)')) % 2
  <2>1. Auditing(p)' = Auditing(p)
    BY <1>4 DEF Auditing
  <2> QED
    BY <1>0, <1>4, <2>1 DEF traceVars
<1>5. ASSUME NEW r \in Requests, NEW q, ~At(r, "auditing"), UNCHANGED traceVars,
             \/ Proceed(r, q, "limit") \/ Proceed(r, q, "handler") \/ Finish(r)
      PROVE  metrics'[p] = (auditLog'[p] + Cardinality(Auditing(p)')) % 2
  <2>1. \A s \in Requests : /\ At(s, "auditing")' <=> At(s, "auditing")
                            /\ At(s, "auditing") =>
                                 pipeline'[s].process = pipeline[s].process
    BY <1>5 DEF Proceed, Finish, Waiting, At, PipelineOK
  <2> QED
    BY <1>4, <1>5, <2>1
<1>6. ASSUME NEW r \in Requests, NEW q \in Processes, ArriveUnlimited(r, q)
      PROVE  metrics'[p] = (auditLog'[p] + Cardinality(Auditing(p)')) % 2
  BY <1>5, <1>6 DEF ArriveUnlimited, At
<1>7. ASSUME NEW r \in Requests, NEW q \in Processes, NEW k \in Keys, ArriveLimited(r, q, k)
      PROVE  metrics'[p] = (auditLog'[p] + Cardinality(Auditing(p)')) % 2
  BY <1>5, <1>7 DEF ArriveLimited, Enter, At
<1>8. ASSUME NEW r \in Requests, RedisAnswers(r) \/ RedisRejects(r)
      PROVE  metrics'[p] = (auditLog'[p] + Cardinality(Auditing(p)')) % 2
  BY <1>5, <1>8 DEF RedisAnswers, RedisRejects, Enter, At
<1>9. CASE TimePasses \/ UNCHANGED pipelineVars \/ \E r \in Requests : Unauthorized(r)
  <2>1. UNCHANGED <<pipeline, traceVars>>
    BY <1>9 DEF TimePasses, Unauthorized, pipelineVars
  <2> QED
    BY <1>4, <2>1 DEF At
<1> QED
  BY <1>1, <1>2, <1>3, <1>6, <1>7, <1>8, <1>9 DEF PipelineNext, Step, AuditRejected

\* Whatever the guards refuse and however often processes stop, the metrics of a process
\* and its audit entries, stored or on their way, count the same requests.
THEOREM TraceIsComplete ==
  PipelineSpec => []TraceComplete
<1>1. PipelineInit => TraceComplete
  <2> SUFFICES ASSUME PipelineInit, NEW p \in Processes
               PROVE  metrics[p] = (auditLog[p] + Cardinality(Auditing(p))) % 2
    BY DEF TraceComplete, Auditing, Modulus
  <2>1. Auditing(p) = {}
    BY DEF PipelineInit, Auditing, At, Waiting
  <2>2. Cardinality(Auditing(p)) = 0
    BY <2>1, FS_EmptySet
  <2> QED
    BY <2>2 DEF PipelineInit
<1> QED
  BY <1>1, TraceStep, PipelineInvariance, PTL DEF PipelineSpec

\* So no counter is ever without a window that ends it, with any number of instances.
THEOREM LimiterTypeCorrect ==
  Spec => []TypeOK
BY LimiterInitially, LimiterStep, LimiterTyped, PTL DEF Spec

-------------------------------------------------------------------------------
(* How many requests a store lets through.                                 *)

\* What a counter says of the past of its key: since the window was opened, left
\* ticks before its end, at most count requests were let through, and fewer after the
\* tick that opened it; those let through in the stretch of Window before that belong
\* to a single earlier window, without its first.
Bounded(c, past) ==
  /\ \A i, j \in 0..Window - 1 : i <= j => past[i] <= past[j]
  /\ c.left = 0 => past[0] = 0 /\ past[Window - 1] < Limit
  /\ c.left # 0 => /\ past[Window - c.left] <= c.count
                   /\ past[Window - c.left] <= Limit
                   /\ past[Window - 1] < past[Window - c.left] + Limit
  /\ c.left \in 1..Window - 1 => /\ past[Window - c.left - 1] < c.count
                                 /\ past[Window - c.left - 1] < Limit

AdmissionsOK ==
  \A s \in Stores, k \in Keys : Bounded(counter[s][k], admitted[s][k])

\* The two numbers of a counter.
LEMMA CounterNumbers ==
  ASSUME NEW c \in Counters
  PROVE  /\ c.count \in Nat /\ c.left \in Nat /\ c.left <= Window
         /\ c.count <= Limit + 1
         /\ c.count = 0 <=> c.left = 0
BY RateLimitAssumption DEF Counters

\* What counting makes of them.
LEMMA CountedNumbers ==
  ASSUME NEW c \in Counters
  PROVE  /\ Counted(c).left = IF c.count = 0 THEN Window ELSE c.left
         /\ Counted(c).count = IF c.count <= Limit THEN c.count + 1 ELSE Limit + 1
<1>1. Limit \in Nat \ {0}
  BY RateLimitAssumption
<1>2. c.count \in Nat /\ c.count <= Limit + 1
  BY CounterNumbers
<1>3. CASE c.count = 0
  BY <1>1, <1>3 DEF Counted
<1>4. CASE c.count # 0
  <2>1. Min({c.count + 1, Limit + 1}) = IF c.count <= Limit THEN c.count + 1 ELSE Limit + 1
    BY <1>1, <1>2, MinOfTwo
  <2>2. Counted(c) = [ c EXCEPT !.count = IF c.count <= Limit THEN c.count + 1 ELSE Limit + 1 ]
    BY <1>4, <2>1 DEF Counted
  <2> QED
    BY <1>4, <2>2 DEF Counters
<1> QED
  BY <1>3, <1>4

\* A request is counted, and let through if the count allows it, or (when Redis has
\* counted it but its answer is lost) not.
LEMMA CountedBounded ==
  ASSUME NEW c \in Counters, NEW past \in Histories, Bounded(c, past)
  PROVE  Bounded(Counted(c), past) /\ Bounded(Counted(c), Answered(c, past))
<1>1. Limit \in Nat \ {0} /\ Window \in Nat \ {0}
  BY RateLimitAssumption
<1>2. /\ c.count \in Nat /\ c.left \in Nat /\ c.left <= Window
      /\ c.count <= Limit + 1
      /\ c.count = 0 <=> c.left = 0
  BY CounterNumbers
<1>3. \A i \in 0..Window - 1 : past[i] \in Nat
  BY DEF Histories
<1>4. Bounded(Counted(c), past)
  <2>1. CASE c.count = 0
    BY <1>1, <1>2, <1>3, <2>1, CountedNumbers DEF Bounded
  <2>2. CASE c.count # 0
    BY <1>1, <1>2, <1>3, <2>2, CountedNumbers DEF Bounded
  <2> QED
    BY <2>1, <2>2
<1>5. CASE Counted(c).count <= Limit
  <2>1. PICK more : more = LetThrough(past)
    OBVIOUS
  <2>2. \A i \in 0..Window - 1 : more[i] = past[i] + 1
    BY <2>1 DEF LetThrough
  <2>3. Bounded(Counted(c), more)
    <3>1. CASE c.count = 0
      BY <1>1, <1>2, <1>3, <2>2, <3>1, CountedNumbers DEF Bounded
    <3>2. CASE c.count # 0
      <4>1. PICK d \in Counters : d = Counted(c)
        BY CountedTyped
      <4>2. d.left = c.left /\ d.count = c.count + 1 /\ d.count <= Limit /\ c.left \in 1..Window
        BY <1>1, <1>2, <1>5, <3>2, <4>1, CountedNumbers
      <4>3. /\ more[Window - c.left] <= c.count + 1 /\ more[Window - c.left] <= Limit
            /\ more[Window - 1] < more[Window - c.left] + Limit
        BY <1>1, <1>2, <1>3, <2>2, <4>2 DEF Bounded
      <4>4. ASSUME c.left \in 1..Window - 1
            PROVE  more[Window - c.left - 1] < c.count + 1 /\ more[Window - c.left - 1] < Limit
        <5>1. Window - c.left - 1 \in 0..Window - 1
          BY <1>1, <4>4
        <5>2. past[Window - c.left - 1] < c.count
          BY <4>4 DEF Bounded
        <5> QED
          BY <1>1, <1>2, <1>3, <2>2, <4>2, <5>1, <5>2
      <4>5. \A i, j \in 0..Window - 1 : i <= j => more[i] <= more[j]
        BY <1>3, <2>2 DEF Bounded
      <4>6. Bounded(d, more)
        BY <1>1, <4>2, <4>3, <4>4, <4>5 DEF Bounded
      <4> QED
        BY <4>1, <4>6
    <3> QED
      BY <3>1, <3>2
  <2> QED
    BY <1>4, <1>5, <2>1, <2>3 DEF Answered
<1>6. CASE ~(Counted(c).count <= Limit)
  BY <1>4, <1>6 DEF Answered
<1> QED
  BY <1>4, <1>5, <1>6

\* One tick later.
LEMMA OlderBounded ==
  ASSUME NEW c \in Counters, NEW past \in Histories, Bounded(c, past), NEW later,
         later = [ i \in 0..Window - 1 |-> IF i = 0 THEN 0 ELSE past[i - 1] ]
  PROVE  Bounded(Older(c), later)
<1>1. Limit \in Nat \ {0} /\ Window \in Nat \ {0}
  BY RateLimitAssumption
<1>2. /\ c.count \in Nat /\ c.left \in Nat /\ c.left <= Window
      /\ c.count <= Limit + 1
      /\ c.count = 0 <=> c.left = 0
  BY CounterNumbers
<1>3. \A i \in 0..Window - 1 : past[i] \in Nat
  BY DEF Histories
<1>4. later[0] = 0 /\ \A i \in 1..Window - 1 : later[i] = past[i - 1]
  BY <1>1
<1>5. \A i, j \in 0..Window - 1 : i <= j => later[i] <= later[j]
  <2> SUFFICES ASSUME NEW i \in 0..Window - 1, NEW j \in 0..Window - 1, i <= j
               PROVE  later[i] <= later[j]
    OBVIOUS
  <2>1. CASE i = 0
    BY <1>1, <1>3, <1>4, <2>1
  <2>2. CASE i # 0
    <3>1. i - 1 \in 0..Window - 1 /\ j - 1 \in 0..Window - 1 /\ i - 1 <= j - 1
      BY <1>1, <2>2
    <3>2. past[i - 1] <= past[j - 1]
      BY <3>1 DEF Bounded
    <3> QED
      BY <1>1, <1>4, <2>2, <3>2
  <2> QED
    BY <2>1, <2>2
<1>6. later[Window - 1] <= past[Window - 1]
  <2>1. CASE Window = 1
    BY <1>3, <1>4, <2>1
  <2>2. CASE Window # 1
    <3>1. past[Window - 2] <= past[Window - 1]
      BY <1>1, <2>2 DEF Bounded
    <3>2. later[Window - 1] = past[Window - 2]
      BY <1>1, <1>4, <2>2
    <3> QED
      BY <3>1, <3>2
  <2> QED
    BY <2>1, <2>2
<1>7. later[Window - 1] \in Nat /\ past[Window - 1] \in Nat
  BY <1>1, <1>3, <1>4
<1>8. CASE c.left <= 1
  <2>1. Older(c).left = 0
    BY <1>8 DEF Older, NoCounter
  <2>2. later[Window - 1] < Limit
    <3>1. CASE c.left = 0
      BY <1>1, <1>6, <1>7, <3>1 DEF Bounded
    <3>2. CASE Window = 1
      BY <1>1, <1>4, <3>2
    <3>3. CASE c.left = 1 /\ Window # 1
      <4>1. c.left \in 1..Window - 1 /\ Window - c.left - 1 = Window - 2
        BY <1>1, <3>3
      <4>2. past[Window - 2] < Limit
        BY <4>1 DEF Bounded
      <4>3. later[Window - 1] = past[Window - 2]
        BY <1>1, <1>4, <3>3
      <4> QED
        BY <4>2, <4>3
    <3> QED
      BY <1>2, <1>8, <3>1, <3>2, <3>3
  <2> QED
    BY <1>1, <1>4, <1>5, <2>1, <2>2 DEF Bounded
<1>9. CASE c.left > 1
  <2>1. Older(c) = [ c EXCEPT !.left = c.left - 1 ]
    BY <1>2, <1>9 DEF Older
  <2>2. Older(c).left = c.left - 1 /\ Older(c).count = c.count
    BY <2>1 DEF Counters
  <2>3. later[Window - (c.left - 1)] = past[Window - c.left]
    BY <1>1, <1>2, <1>4, <1>9
  <2>4. past[Window - c.left] \in Nat
    BY <1>1, <1>2, <1>3, <1>9
  <2>5. /\ past[Window - c.left] <= c.count
        /\ past[Window - c.left] <= Limit
        /\ past[Window - 1] < past[Window - c.left] + Limit
    BY <1>2, <1>9 DEF Bounded
  <2>6. later[Window - 1] < past[Window - c.left] + Limit
    BY <1>1, <1>6, <1>7, <2>4, <2>5
  <2>7. later[Window - (c.left - 1) - 1] < c.count /\ later[Window - (c.left - 1) - 1] < Limit
    <3>1. Window - (c.left - 1) - 1 = Window - c.left
      BY <1>1, <1>2
    <3>2. CASE c.left = Window
      BY <1>1, <1>2, <1>4, <1>9, <3>1, <3>2
    <3>3. CASE c.left # Window
      <4>1. c.left \in 1..Window - 1
        BY <1>1, <1>2, <1>9, <3>3
      <4>2. past[Window - c.left - 1] < c.count /\ past[Window - c.left - 1] < Limit
        BY <4>1 DEF Bounded
      <4>3. later[Window - c.left] = past[Window - c.left - 1]
        BY <1>1, <1>2, <1>4, <4>1
      <4> QED
        BY <3>1, <4>2, <4>3
    <3> QED
      BY <3>2, <3>3
  <2> QED
    BY <1>2, <1>5, <1>9, <2>2, <2>3, <2>5, <2>6, <2>7 DEF Bounded
<1> QED
  BY <1>2, <1>8, <1>9

\* Nothing counted and nothing let through.
LEMMA NothingBounded ==
  Bounded(NoCounter, Nobody)
BY RateLimitAssumption DEF Bounded, NoCounter, Nobody

\* A store that counts.
LEMMA CountKeepsBounds ==
  ASSUME LimiterOK, AdmissionsOK, NEW s \in Stores, NEW k \in Keys, Count(s, k)
  PROVE  AdmissionsOK'
<1> SUFFICES ASSUME NEW t \in Stores, NEW l \in Keys
             PROVE  Bounded(counter'[t][l], admitted'[t][l])
  BY DEF AdmissionsOK
<1>1. /\ counter' = [ counter EXCEPT ![s][k] = Counted(counter[s][k]) ]
      /\ admitted' = [ admitted EXCEPT ![s][k] = Answered(counter[s][k], admitted[s][k]) ]
  BY AdmitStep DEF Count
<1>2. CASE t = s /\ l = k
  <2>1. counter'[t][l] = Counted(counter[s][k])
    BY <1>1, <1>2 DEF LimiterOK
  <2>2. admitted'[t][l] = Answered(counter[s][k], admitted[s][k])
    BY <1>1, <1>2 DEF LimiterOK
  <2> QED
    BY <2>1, <2>2, CountedBounded DEF LimiterOK, AdmissionsOK
<1>3. CASE ~(t = s /\ l = k)
  <2>1. counter'[t][l] = counter[t][l] /\ admitted'[t][l] = admitted[t][l]
    BY <1>1, <1>3 DEF LimiterOK
  <2> QED
    BY <2>1 DEF AdmissionsOK
<1> QED
  BY <1>2, <1>3

\* A call that fails: the Map counts and answers, Redis may have counted.
LEMMA RedisFailsKeepsBounds ==
  ASSUME LimiterOK, AdmissionsOK, NEW r \in Requests, RedisFails(r)
  PROVE  AdmissionsOK'
<1> SUFFICES ASSUME NEW t \in Stores, NEW l \in Keys
             PROVE  Bounded(counter'[t][l], admitted'[t][l])
  BY DEF AdmissionsOK
<1>1. PICK p \in Processes, k \in Keys : request[r].process = p /\ request[r].key = k
  BY DEF RedisFails, LimiterOK, Slots
<1>2. Redis \in Stores /\ p \in Stores /\ p # Redis
  BY RateLimitAssumption DEF Stores
<1>3. PICK ran \in BOOLEAN :
        counter' = [ counter EXCEPT ![p][k] = Counted(@),
                                    ![Redis][k] = IF ran THEN Counted(@) ELSE @ ]
  BY <1>1 DEF RedisFails
<1>4. admitted' = [ admitted EXCEPT ![p][k] = Answered(counter[p][k], admitted[p][k]) ]
  BY <1>1, <1>2, AdmitStep DEF RedisFails
<1>5. CASE t = p /\ l = k
  <2>1. counter'[t][l] = Counted(counter[p][k])
    BY <1>2, <1>3, <1>5 DEF LimiterOK
  <2>2. admitted'[t][l] = Answered(counter[p][k], admitted[p][k])
    BY <1>2, <1>4, <1>5 DEF LimiterOK
  <2> QED
    BY <1>2, <2>1, <2>2, CountedBounded DEF LimiterOK, AdmissionsOK
<1>6. CASE t = Redis /\ l = k
  <2>1. counter'[t][l] \in {counter[Redis][k], Counted(counter[Redis][k])}
    BY <1>2, <1>3, <1>6 DEF LimiterOK
  <2>2. admitted'[t][l] = admitted[Redis][k]
    BY <1>2, <1>4, <1>6 DEF LimiterOK
  <2> QED
    BY <1>2, <2>1, <2>2, CountedBounded DEF LimiterOK, AdmissionsOK
<1>7. CASE l # k \/ t \notin {p, Redis}
  <2>1. counter'[t][l] = counter[t][l]
    BY <1>2, <1>3, <1>7 DEF LimiterOK
  <2>2. admitted'[t][l] = admitted[t][l]
    BY <1>2, <1>4, <1>7 DEF LimiterOK
  <2> QED
    BY <2>1, <2>2 DEF AdmissionsOK
<1> QED
  BY <1>5, <1>6, <1>7

\* Every step of the limiter keeps the bounds.
LEMMA BoundsStep ==
  ASSUME LimiterOK, AdmissionsOK, [Next]_vars
  PROVE  AdmissionsOK'
<1>1. ASSUME NEW r \in Requests, NEW p \in Processes, NEW k \in Keys, CanActivate(r, p, k)
      PROVE  AdmissionsOK'
  <2>1. p \in Stores
    BY DEF Stores
  <2> QED
    BY <1>1, <2>1, CountKeepsBounds DEF CanActivate, AdmissionsOK
<1>2. ASSUME NEW r \in Requests, RedisCounts(r)
      PROVE  AdmissionsOK'
  <2>1. request[r].key \in Keys /\ Redis \in Stores
    BY <1>2 DEF RedisCounts, LimiterOK, Slots, Stores
  <2> QED
    BY <1>2, <2>1, CountKeepsBounds DEF RedisCounts
<1>3. ASSUME NEW r \in Requests, RedisFails(r)
      PROVE  AdmissionsOK'
  BY <1>3, RedisFailsKeepsBounds
<1>4. ASSUME NEW p \in Processes, Restart(p)
      PROVE  AdmissionsOK'
  <2> SUFFICES ASSUME NEW t \in Stores, NEW l \in Keys
               PROVE  Bounded(counter'[t][l], admitted'[t][l])
    BY DEF AdmissionsOK
  <2>1. CASE t = p
    BY <1>4, <2>1, NothingBounded DEF Restart, LimiterOK
  <2>2. CASE t # p
    BY <1>4, <2>2 DEF Restart, LimiterOK, AdmissionsOK
  <2> QED
    BY <2>1, <2>2
<1>5. CASE Tick
  <2> SUFFICES ASSUME NEW t \in Stores, NEW l \in Keys
               PROVE  Bounded(counter'[t][l], admitted'[t][l])
    BY DEF AdmissionsOK
  <2>1. counter'[t][l] = Older(counter[t][l])
    BY <1>5 DEF Tick
  <2>2. admitted'[t][l] =
          [ i \in 0..Window - 1 |-> IF i = 0 THEN 0 ELSE admitted[t][l][i - 1] ]
    BY <1>5 DEF Tick
  <2> QED
    BY <2>1, <2>2, OlderBounded DEF LimiterOK, AdmissionsOK
<1>6. CASE UNCHANGED vars
  BY <1>6 DEF vars, AdmissionsOK
<1> QED
  BY <1>1, <1>2, <1>3, <1>4, <1>5, <1>6 DEF Next

\* They bound what is let through in any stretch of Window.
LEMMA BoundsSuffice ==
  ASSUME LimiterOK, AdmissionsOK
  PROVE  AdmissionsBounded
<1> SUFFICES ASSUME NEW s \in Stores, NEW k \in Keys
             PROVE  admitted[s][k][Window - 1] < 2 * Limit
  BY DEF AdmissionsBounded
<1>1. PICK c \in Counters, past \in Histories : c = counter[s][k] /\ past = admitted[s][k]
  BY DEF LimiterOK
<1>2. Limit \in Nat \ {0} /\ Window \in Nat \ {0}
  BY RateLimitAssumption
<1>3. \A i \in 0..Window - 1 : past[i] \in Nat
  BY DEF Histories
<1>4. c.left \in Nat /\ c.left <= Window
  BY CounterNumbers
<1>5. Bounded(c, past)
  BY <1>1 DEF AdmissionsOK
<1>6. past[Window - 1] < 2 * Limit
  <2>1. CASE c.left = 0
    BY <1>2, <1>3, <1>5, <2>1 DEF Bounded
  <2>2. CASE c.left # 0
    <3>1. past[Window - c.left] \in Nat /\ past[Window - 1] \in Nat
      BY <1>2, <1>3, <1>4, <2>2
    <3> QED
      BY <1>2, <1>5, <2>2, <3>1 DEF Bounded
  <2> QED
    BY <2>1, <2>2
<1> QED
  BY <1>1, <1>6

LEMMA LimiterAdmissions ==
  Spec => []AdmissionsBounded
<1>1. Init => LimiterOK /\ AdmissionsOK
  BY LimiterInitially, NothingBounded DEF Init, AdmissionsOK
<1>2. LimiterOK /\ AdmissionsOK /\ [Next]_vars => (LimiterOK /\ AdmissionsOK)'
  BY LimiterStep, BoundsStep
<1>3. LimiterOK /\ AdmissionsOK => AdmissionsBounded
  BY BoundsSuffice
<1> QED
  BY <1>1, <1>2, <1>3, PTL DEF Spec

\* In no stretch of Window does a store let 2 * Limit of a client's requests through, for
\* any number of instances, any limit and any window, whichever calls to Redis fail and
\* whichever processes stop.
THEOREM AdmissionsAreBounded ==
  PipelineSpec => []AdmissionsBounded
BY LimiterAdmissions, PipelineImplementsRateLimit, PTL
===============================================================================
