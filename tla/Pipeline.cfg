\* One instance, which is restarted, with Redis; three requests of one client.
SPECIFICATION PipelineFairSpec
CONSTANTS
  None = None
  Redis = Redis
  Processes = {p1}
  Keys = {k1}
  Requests = {r1, r2, r3}
  Limit = 2
  Window = 2
INVARIANTS PipelineTypeOK AdmissionsBounded TraceComplete
PROPERTIES RefusalEnds RequestsAnswered
