---------------------------- MODULE RequestPipeline ----------------------------
(***************************************************************************)
(* A mutating request on its way through an instance: guards, the two      *)
(* global interceptors around pipes and handler, and the audit entry that  *)
(* is written behind the client's back.                                    *)
(*                                                                         *)
(* The interceptors see what the guards let through and nothing else.  The *)
(* INSERT of an audit entry is not awaited: the client has its answer, and *)
(* a rejected INSERT is an unhandled rejection, which stops the process    *)
(* with all it has in memory and in flight.                                *)
(***************************************************************************)
EXTENDS RateLimit

ASSUME PipelineAssumption == IsFiniteSet(Requests)

VARIABLES
  pipeline,  \* what each request slot is doing, and in which process
  metrics,   \* MetricsService of each process: handled requests
  auditLog   \* table AuditLog: entries of each process since its start

traceVars    == <<metrics, auditLog>>
pipelineVars == <<vars, pipeline, traceVars>>

\* Handled requests and entries are counted modulo this number: equal counts stay
\* equal, and a request counted twice or not at all still makes a difference.
Modulus == 2

Waiting == [stage |-> "idle", process |-> None]

At(r, stage) == pipeline[r].stage = stage

Proceed(r, p, stage) ==
  pipeline' = [ pipeline EXCEPT ![r] = [stage |-> stage, process |-> p] ]

\* The client has its answer and the process nothing more to do for it.
Finish(r) == pipeline' = [ pipeline EXCEPT ![r] = Waiting ]

OneMore(counts, p) == [ counts EXCEPT ![p] = (@ + 1) % Modulus ]

PipelineInit ==
  /\ Init
  /\ pipeline = [ r \in Requests |-> Waiting ]
  /\ metrics = [ p \in Processes |-> 0 ]
  /\ auditLog = [ p \in Processes |-> 0 ]

-------------------------------------------------------------------------------
(* Guards.  Their exceptions go to the filter past the interceptors.       *)

\* JwtGlobalGuard or PermissionsGuard answers 401 or 403: neither counter hears of it.
Unauthorized(r) == At(r, "idle") /\ UNCHANGED pipelineVars

\* Past RateLimitGuard, once store s has counted the request, or 429.
Enter(r, p, s, k) ==
  IF Counted(counter[s][k]).count <= Limit THEN Proceed(r, p, "handler") ELSE Finish(r)

\* A request that is allowed to be made, of a route without @RateLimit.
ArriveUnlimited(r, p) ==
  /\ At(r, "idle")
  /\ Proceed(r, p, "handler")
  /\ UNCHANGED <<vars, traceVars>>

\* A request that is allowed to be made, of a route with @RateLimit.
ArriveLimited(r, p, k) ==
  /\ At(r, "idle")
  /\ CanActivate(r, p, k)
  /\ IF redisEnabled[p] THEN Proceed(r, p, "limit") ELSE Enter(r, p, p, k)
  /\ UNCHANGED traceVars

RedisAnswers(r) ==
  /\ At(r, "limit")
  /\ RedisCounts(r)
  /\ Enter(r, request[r].process, Redis, request[r].key)
  /\ UNCHANGED traceVars

\* Mutant of RedisRejects: the rejection is recorded and swallowed.
RedisRejectsUnanswered(r) ==
  /\ At(r, "limit")
  /\ RedisFails(r)
  /\ UNCHANGED <<pipeline, traceVars>>

RedisRejects(r) ==
  /\ At(r, "limit")
  /\ RedisFails(r)
  /\ Enter(r, request[r].process, request[r].process, request[r].key)
  /\ UNCHANGED traceVars

-------------------------------------------------------------------------------
(* Interceptors and handler.                                               *)

\* Mutant of Handle: the logging interceptor has no error callback.
HandleCountingSuccess(r) ==
  /\ At(r, "handler")
  /\ \E succeeds \in BOOLEAN :
       metrics' = IF succeeds THEN OneMore(metrics, pipeline[r].process) ELSE metrics
  /\ Proceed(r, pipeline[r].process, "auditing")
  /\ UNCHANGED <<vars, auditLog>>

\* Pipes and handler return or throw, both taps see it, and the client is answered.
\* The slot stays taken until the audit entry is written.
Handle(r) ==
  /\ At(r, "handler")
  /\ metrics' = OneMore(metrics, pipeline[r].process)
  /\ Proceed(r, pipeline[r].process, "auditing")
  /\ UNCHANGED <<vars, auditLog>>

AuditStored(r) ==
  /\ At(r, "auditing")
  /\ auditLog' = OneMore(auditLog, pipeline[r].process)
  /\ Finish(r)
  /\ UNCHANGED <<vars, metrics>>

\* A process stops, whatever for, and is started again: its requests are lost, and so
\* is what it kept in memory.
Stop(p) ==
  /\ Restart(p)
  /\ pipeline' = [ r \in Requests |->
                     IF pipeline[r].process = p THEN Waiting ELSE pipeline[r] ]
  /\ metrics' = [ metrics EXCEPT ![p] = 0 ]
  /\ auditLog' = [ auditLog EXCEPT ![p] = 0 ]

\* The INSERT rejects, which nobody handles.
AuditRejected(r) == At(r, "auditing") /\ Stop(pipeline[r].process)

-------------------------------------------------------------------------------
Step(r) ==
  \/ RedisAnswers(r) \/ RedisRejects(r)
  \/ Handle(r) \/ AuditStored(r) \/ AuditRejected(r)

TimePasses == Tick /\ UNCHANGED <<pipeline, traceVars>>

PipelineNext ==
  \/ \E r \in Requests : Unauthorized(r) \/ Step(r)
  \/ \E r \in Requests, p \in Processes :
       \/ ArriveUnlimited(r, p)
       \/ \E k \in Keys : ArriveLimited(r, p, k)
  \/ \E p \in Processes : Stop(p)
  \/ TimePasses

PipelineSpec == PipelineInit /\ [][PipelineNext]_pipelineVars

\* Time passes, and every query, Redis call and handler ends one way or the other.
PipelineFairSpec ==
  /\ PipelineSpec
  /\ WF_pipelineVars(TimePasses)
  /\ \A r \in Requests : WF_pipelineVars(Step(r))

-------------------------------------------------------------------------------
(* Properties                                                              *)

\* The slots agree with the guard about who waits for Redis, where and what for.
PipelineTypeOK ==
  /\ TypeOK
  /\ pipeline \in [ Requests -> [ stage : {"idle", "limit", "handler", "auditing"},
                                  process : Processes \cup {None} ] ]
  /\ \A r \in Requests :
       /\ At(r, "idle") <=> pipeline[r].process = None
       /\ At(r, "limit") <=> request[r] # Idle
       /\ At(r, "limit") => request[r].process = pipeline[r].process
  /\ {metrics, auditLog} \subseteq [Processes -> 0..Modulus - 1]

\* A process has counted a request in its metrics exactly if it has written its audit
\* entry or is about to: two interceptors and an INSERT nobody waits for agree on what
\* was handled, whatever the guards refuse and however often the processes stop.
TraceComplete ==
  \A p \in Processes :
    metrics[p] =
      (auditLog[p] + Cardinality({ r \in Requests :
                       At(r, "auditing") /\ pipeline[r].process = p })) % Modulus

\* Every request is answered and its slot is free again, unless its process stops.
RequestsAnswered == \A r \in Requests : ~At(r, "idle") ~> At(r, "idle")
===============================================================================
