----------------------------- MODULE CashflowStats -----------------------------
(***************************************************************************)
(* CashflowService.getStats beside the cash movements it summarises.       *)
(*                                                                         *)
(* The six aggregates are the statements of one transaction, but at READ   *)
(* COMMITTED each of them sees what is committed when it starts, so that   *)
(* movements are created and change status between any two of them.  What  *)
(* a statement counts or sums up is kept as the set of rows it has seen.   *)
(***************************************************************************)
EXTENDS CashMovements, Sequences

CONSTANT TypeOf  \* "IN" or "OUT" of each movement; no handler ever changes it

ASSUME CashflowStatsAssumption == TypeOf \in [Movements -> {"IN", "OUT"}]

VARIABLE stats  \* the stats request

statsVars == <<vars, stats>>

-------------------------------------------------------------------------------
\* Mutant of Queries: the finished movements are counted first.
QueriesBackwards == <<"IN", "OUT", "REJECTED", "DELIVERED", "APPROVED", "PENDING">>

\* The statements, in the order of the transaction.
Queries == <<"IN", "OUT", "PENDING", "APPROVED", "DELIVERED", "REJECTED">>

Types == {"IN", "OUT"}

\* present is history: the movements there were when the request arrived.
NoStats ==
  [ pc |-> 0, user |-> None, context |-> None, requested |-> None, scope |-> None,
    inRange |-> {}, present |-> {},
    seen |-> [ q \in Types \cup MovementStatus |-> {} ] ]

Rows == { m \in Movements : movement[m] # NoMovement }

StatsInit == Init /\ stats = NoStats

\* resolveRange: createdAt of a row, old or yet to come, is in the range or not, for
\* from and to are any dates and an INSERT may commit long after its createdAt.  pc
\* counts the statements that have run, from 1; a range that is not valid is answered
\* at once.
GetStats(u, requested) ==
  /\ stats.pc = 0
  /\ account[u].active
  /\ \E range \in SUBSET Movements :
       stats' = [ NoStats EXCEPT
                    !.pc = 1, !.user = u, !.requested = requested,
                    !.context = [ org |-> OrgOf[u], branch |-> account[u].branch,
                                  role |-> ResolveRuntimeRole(account[u].roles) ],
                    !.inRange = range, !.present = Rows ]
  /\ UNCHANGED vars

ResolveStatsBranch ==
  LET outcome == ResolveBranchForFilter(stats.context, stats.requested)
  IN  /\ stats.pc = 1
      /\ \/ /\ outcome.code = "OK"
            /\ stats' = [ stats EXCEPT !.pc = 2, !.scope = outcome.branch ]
         \/ outcome.code # "OK" /\ stats' = NoStats
      /\ UNCHANGED vars

\* Mutant of Selected: the where-clause has lost the organization.
SelectedAnyOrg(q) ==
  { m \in Rows \cap stats.inRange :
      /\ stats.scope \in {None, movement[m].branch}
      /\ q \in {TypeOf[m], movement[m].status} }

\* The rows that match the where-clause of a statement.
Selected(q) ==
  { m \in Rows \cap stats.inRange :
      /\ movement[m].org = stats.context.org
      /\ stats.scope \in {None, movement[m].branch}
      /\ q \in {TypeOf[m], movement[m].status} }

Aggregate ==
  LET q == Queries[stats.pc - 1]
  IN  /\ stats.pc \in 2..Len(Queries) + 1
      /\ stats' = [ stats EXCEPT !.pc = @ + 1, !.seen[q] = Selected(q) ]
      /\ UNCHANGED vars

Answered == stats.pc = Len(Queries) + 2

Answer == Answered /\ stats' = NoStats /\ UNCHANGED vars

\* The transaction fails.
AbortStats == stats.pc # 0 /\ stats' = NoStats /\ UNCHANGED vars

StatsNext ==
  \/ \E u \in Users, requested \in Branches \cup {None} : GetStats(u, requested)
  \/ ResolveStatsBranch \/ Aggregate \/ Answer \/ AbortStats
  \/ Next /\ UNCHANGED stats

StatsSpec == StatsInit /\ [][StatsNext]_statsVars

-------------------------------------------------------------------------------
(* Properties                                                              *)

Summed  == UNION { stats.seen[q] : q \in Types }
Counted == UNION { stats.seen[q] : q \in MovementStatus }

\* The cards of one answer agree although they are read at six moments: every
\* movement in the totals is in at least one of the counts, because statuses are
\* counted in the order in which movements pass through them; and a movement that is
\* counted but not in the totals was created after the request arrived.  (That some
\* movement is counted twice is possible, and so, when two requests race on one
\* movement, is that it is counted nowhere.)
CardsAgree ==
  Answered =>
    /\ Summed \subseteq Counted
    /\ Counted \cap stats.present \subseteq Summed

\* Whatever is summed or counted belongs to the organization of the caller and,
\* for a branch-scoped context, to its branch.
StatsInScope ==
  \A m \in Summed \cup Counted :
    /\ movement[m].org = stats.context.org
    /\ IsBranchScoped(stats.context) => movement[m].branch = stats.context.branch
===============================================================================
