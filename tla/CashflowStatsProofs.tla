-------------------------- MODULE CashflowStatsProofs --------------------------
(***************************************************************************)
(* Proofs about CashflowStats beside any number of cash-movement requests, *)
(* on top of the invariant of CashMovementsProofs.                         *)
(*                                                                         *)
(* StatsOK says what the statements that have run guarantee of the rows    *)
(* they have seen.  It survives the writes of other requests because a row *)
(* never leaves its organisation or branch.  That the cards agree needs    *)
(* more: the totals cover what is counted of the rows that were there when *)
(* the request arrived (TotalsOK), and the counts cover the totals because *)
(* statuses are asked in the order in which movements pass through them    *)
(* (CountsOK), which stale writes break: there one request slot is assumed.*)
(***************************************************************************)
EXTENDS CashflowStats, CashMovementsProofs

StatsRecords ==
  [ pc : 0..8, user : Users \cup {None}, context : Contexts \cup {None},
    requested : Branches \cup {None}, scope : Branches \cup {None},
    inRange : SUBSET Movements, present : SUBSET Movements,
    seen : [Types \cup MovementStatus -> SUBSET Movements] ]

\* The statements that have run.
Asked == { Queries[i] : i \in 1..stats.pc - 2 }

\* The movements a statement of this request may see.
InCards(m) ==
  /\ m \in Rows \cap stats.inRange
  /\ movement[m].org = stats.context.org
  /\ stats.scope \in {None, movement[m].branch}

StatsOK ==
  /\ stats \in StatsRecords
  /\ stats.pc # 0 => stats.context \in Contexts
  /\ stats.pc \in 2..8 /\ IsBranchScoped(stats.context) =>
       stats.scope = stats.context.branch /\ stats.scope # None
  /\ \A q \in Types \cup MovementStatus :
       /\ stats.seen[q] # {} => stats.pc \in 2..8 /\ q \in Asked
       /\ \A m \in stats.seen[q] : InCards(m)

\* The totals that have been read cover the rows that were there at arrival.
TotalsOK ==
  /\ stats.present \subseteq Rows
  /\ \A q \in Types \cap Asked, m \in stats.present :
       InCards(m) /\ TypeOf[m] = q => m \in stats.seen[q]

\* What is in the totals has been counted, or is in a status that is yet to be asked for.
CountsOK ==
  \A m \in Summed : m \in Counted \/ movement[m].status \notin Asked

-------------------------------------------------------------------------------
(* The order of the statements.                                            *)

\* There are six of them.
LEMMA SixQueries ==
  Len(Queries) = 6
BY DEF Queries

\* The types come first, then the statuses, none of them twice.
LEMMA QueryOrder ==
  ASSUME NEW i \in 1..6
  PROVE  /\ Queries[i] \in Types \cup MovementStatus
         /\ Queries[i] \in Types <=> i \in 1..2
         /\ \A j \in 1..6 : Queries[i] = Queries[j] => i = j
BY DEF Queries, Types, MovementStatus

\* The next statement asks for something new.
LEMMA AskedNext ==
  ASSUME StatsOK, Aggregate
  PROVE  /\ stats.pc \in 2..7
         /\ Queries[stats.pc - 1] \in Types \cup MovementStatus
         /\ Queries[stats.pc - 1] \notin Asked
         /\ stats'.pc = stats.pc + 1
         /\ Asked' = Asked \cup {Queries[stats.pc - 1]}
<1>1. stats.pc \in 2..7 /\ stats'.pc = stats.pc + 1
  BY SixQueries DEF Aggregate, StatsOK, StatsRecords
<1>2. stats.pc - 1 \in 1..6
  BY <1>1
<1>3. Queries[stats.pc - 1] \in Types \cup MovementStatus
  BY <1>2, QueryOrder
<1>4. ASSUME NEW i \in 1..stats.pc - 2
      PROVE  Queries[i] # Queries[stats.pc - 1]
  <2>1. i \in 1..6 /\ i # stats.pc - 1
    BY <1>1, <1>4
  <2> QED
    BY <1>2, <2>1, QueryOrder
<1>5. Asked' = Asked \cup {Queries[stats.pc - 1]}
  <2>1. Asked' = { Queries[i] : i \in 1..stats.pc - 1 }
    BY <1>1 DEF Asked, Queries
  <2>2. 1..stats.pc - 1 = (1..stats.pc - 2) \cup {stats.pc - 1}
    BY <1>1
  <2> QED
    BY <2>1, <2>2 DEF Asked
<1> QED
  BY <1>1, <1>3, <1>4, <1>5 DEF Asked

-------------------------------------------------------------------------------
(* What other requests do to the rows.                                     *)

\* A row that exists keeps its organisation and its branch, whoever writes.
LEMMA RowsStay ==
  ASSUME IInv, [Next]_vars, NEW m \in Movements, movement[m] # NoMovement
  PROVE  /\ movement'[m] # NoMovement
         /\ movement'[m].org = movement[m].org
         /\ movement'[m].branch = movement[m].branch
         /\ movement[m].status \in MovementStatus
<1>0. movement \in [Movements -> MovementRows \cup {NoMovement}] /\ movement[m] \in MovementRows
  BY DEF IInv, TypeOK
<1>1. CASE UNCHANGED movement
  BY <1>0, <1>1 DEF MovementRows
<1>2. ASSUME NEW r \in Requests, Insert(r)
      PROVE  movement'[m] = movement[m]
  BY <1>0, <1>2 DEF Insert
<1>3. ASSUME NEW r \in Requests, WriteStatus(r), movement'[m] # movement[m]
      PROVE  movement'[m] = Signed(movement[m], Input(r).op, Caller(r))
  BY <1>0, <1>3 DEF WriteStatus
<1>4. ASSUME NEW r \in Requests, WriteStatus(r)
      PROVE  /\ movement'[m].org = movement[m].org
             /\ movement'[m].branch = movement[m].branch
             /\ movement'[m].org # None
  <2>1. movement[m].org # None
    BY <1>0, BranchAssumption DEF MovementRows
  <2> QED
    BY <1>0, <1>3, <1>4, <2>1 DEF Signed, MovementRows
<1>5. UNCHANGED movement \/ \E r \in Requests : Insert(r) \/ WriteStatus(r)
  BY DEF vars, Next, Step, Arrive, Abort, Administration, UpdateUser, DeleteRoles, CreateRoles,
         SetBranchActive, ReadUser, ReadRoles, GuardUser, GuardRoles, ResolveForCreate,
         FindMovement, CheckAccess, ResolveForFilter, ListItems, CountItems, Reply
<1> QED
  BY <1>0, <1>1, <1>2, <1>4, <1>5 DEF MovementRows, NoMovement

\* With one request slot a status changes only along the valid transitions.
LEMMA StatusesFollow ==
  ASSUME IInv, ReadIsFresh, [Next]_vars, NEW m \in Movements, movement[m] # NoMovement
  PROVE  \/ movement'[m].status = movement[m].status
         \/ <<movement[m].status, movement'[m].status>> \in ValidTransitions
<1>0. movement \in [Movements -> MovementRows \cup {NoMovement}] /\ movement[m] \in MovementRows
  BY DEF IInv, TypeOK
<1>1. CASE UNCHANGED movement
  BY <1>1
<1>2. ASSUME NEW r \in Requests, Insert(r)
      PROVE  movement'[m] = movement[m]
  BY <1>0, <1>2 DEF Insert
<1>3. ASSUME NEW r \in Requests, WriteStatus(r), movement'[m] # movement[m]
      PROVE  <<movement[m].status, movement'[m].status>> \in ValidTransitions
  <2>1. /\ m = Input(r).target
        /\ movement'[m] = Signed(movement[m], Input(r).op, Caller(r))
    BY <1>0, <1>3 DEF WriteStatus
  <2>2. /\ request[r].read = movement[m].status
        /\ <<request[r].read, TargetStatus(Input(r).op)>> \in ValidTransitions
    BY <1>3, <2>1 DEF WriteStatus, At, ReadIsFresh, IInv, RequestOK, Input
  <2>3. movement'[m].status = TargetStatus(Input(r).op)
    BY <1>0, <2>1 DEF Signed, MovementRows
  <2> QED
    BY <2>2, <2>3
<1>4. UNCHANGED movement \/ \E r \in Requests : Insert(r) \/ WriteStatus(r)
  BY DEF vars, Next, Step, Arrive, Abort, Administration, UpdateUser, DeleteRoles, CreateRoles,
         SetBranchActive, ReadUser, ReadRoles, GuardUser, GuardRoles, ResolveForCreate,
         FindMovement, CheckAccess, ResolveForFilter, ListItems, CountItems, Reply
<1> QED
  BY <1>1, <1>2, <1>3, <1>4

-------------------------------------------------------------------------------
(* The request record, assigned field by field.                            *)

\* A request that has just arrived.
LEMMA ArrivedTyped ==
  ASSUME NEW u \in Users, NEW requested \in Branches \cup {None}, NEW c \in Contexts,
         NEW range \in SUBSET Movements, NEW present \in SUBSET Movements
  PROVE  [ NoStats EXCEPT !.pc = 1, !.user = u, !.requested = requested, !.context = c,
                          !.inRange = range, !.present = present ] \in StatsRecords
<1>1. NoStats \in StatsRecords
  BY DEF NoStats, StatsRecords
<1>2. PICK s1 : s1 = [ NoStats EXCEPT !.pc = 1 ]
  OBVIOUS
<1>3. s1 \in StatsRecords
  BY <1>1, <1>2 DEF StatsRecords
<1>4. PICK s2 : s2 = [ s1 EXCEPT !.user = u ]
  OBVIOUS
<1>5. s2 \in StatsRecords
  BY <1>3, <1>4 DEF StatsRecords
<1>6. PICK s3 : s3 = [ s2 EXCEPT !.requested = requested ]
  OBVIOUS
<1>7. s3 \in StatsRecords
  BY <1>5, <1>6 DEF StatsRecords
<1>8. PICK s4 : s4 = [ s3 EXCEPT !.context = c ]
  OBVIOUS
<1>9. s4 \in StatsRecords
  BY <1>7, <1>8 DEF StatsRecords
<1>10. PICK s5 : s5 = [ s4 EXCEPT !.inRange = range ]
  OBVIOUS
<1>11. s5 \in StatsRecords
  BY <1>9, <1>10 DEF StatsRecords
<1>12. [ s5 EXCEPT !.present = present ] \in StatsRecords
  BY <1>11 DEF StatsRecords
<1> QED
  BY <1>2, <1>4, <1>6, <1>8, <1>10, <1>12

\* One with its branch scope.
LEMMA ResolvedTyped ==
  ASSUME NEW s \in StatsRecords, NEW b \in Branches \cup {None}
  PROVE  [ s EXCEPT !.pc = 2, !.scope = b ] \in StatsRecords
<1>1. PICK mid : mid = [ s EXCEPT !.pc = 2 ]
  OBVIOUS
<1>2. mid \in StatsRecords
  BY <1>1 DEF StatsRecords
<1>3. [ mid EXCEPT !.scope = b ] \in StatsRecords
  BY <1>2 DEF StatsRecords
<1> QED
  BY <1>1, <1>3

\* One that has seen the rows of one more statement.
LEMMA SeenTyped ==
  ASSUME NEW s \in StatsRecords, NEW n \in 0..8, NEW q \in Types \cup MovementStatus,
         NEW S \in SUBSET Movements
  PROVE  [ s EXCEPT !.pc = n, !.seen[q] = S ] \in StatsRecords
<1>1. PICK mid : mid = [ s EXCEPT !.pc = n ]
  OBVIOUS
<1>2. mid \in StatsRecords
  BY <1>1 DEF StatsRecords
<1>3. [ mid EXCEPT !.seen[q] = S ] \in StatsRecords
  BY <1>2 DEF StatsRecords
<1> QED
  BY <1>1, <1>3

-------------------------------------------------------------------------------
(* The steps of the stats request.                                         *)

\* A free request guarantees everything.
LEMMA NoStatsOK ==
  ASSUME TypeOK, stats' = NoStats
  PROVE  (StatsOK /\ TotalsOK /\ CountsOK)'
<1>1. NoStats \in StatsRecords
  BY DEF NoStats, StatsRecords
<1>2. /\ stats' \in StatsRecords /\ stats'.pc = 0 /\ stats'.present = {}
      /\ \A q \in Types \cup MovementStatus : stats'.seen[q] = {}
  BY <1>1 DEF NoStats
<1>3. Summed' = {}
  BY <1>2 DEF Summed
<1> QED
  BY <1>2, <1>3 DEF StatsOK, TotalsOK, CountsOK

\* The request fixes its context, which has the type that BranchAccess takes, and its range.
LEMMA GetStatsStep ==
  ASSUME IInv, NEW u \in Users, NEW requested \in Branches \cup {None}, GetStats(u, requested)
  PROVE  (StatsOK /\ TotalsOK /\ CountsOK)'
<1> DEFINE context == [ org |-> OrgOf[u], branch |-> account[u].branch,
                        role |-> ResolveRuntimeRole(account[u].roles) ]
<1>1. context \in Contexts
  <2>1. OrgOf[u] \in Orgs /\ account[u].branch \in Branches \cup {None}
    BY CashMovementsAssumption DEF IInv, TypeOK, AccountRows
  <2>2. ResolveRuntimeRole(account[u].roles) \in CanonicalRoles
    BY DEF ResolveRuntimeRole, CanonicalRoles
  <2> QED
    BY <2>1, <2>2 DEF Contexts
<1>2. PICK range \in SUBSET Movements :
        stats' = [ NoStats EXCEPT
                     !.pc = 1, !.user = u, !.requested = requested, !.context = context,
                     !.inRange = range, !.present = Rows ]
  BY DEF GetStats
<1>3. Rows \in SUBSET Movements /\ Rows' = Rows
  BY DEF Rows, GetStats, vars
<1> HIDE DEF context
<1>4. /\ stats' \in StatsRecords /\ stats'.pc = 1 /\ stats'.context = context
      /\ stats'.present = Rows
      /\ \A q \in Types \cup MovementStatus : stats'.seen[q] = {}
  <2>1. PICK present \in SUBSET Movements : present = Rows
    BY <1>3
  <2>2. stats' \in StatsRecords
    BY <1>1, <1>2, <2>1, ArrivedTyped
  <2>3. /\ stats'.pc = 1 /\ stats'.context = context
        /\ stats'.present = Rows /\ stats'.seen = NoStats.seen
    BY <1>2 DEF NoStats
  <2>4. \A q \in Types \cup MovementStatus : NoStats.seen[q] = {}
    BY DEF NoStats
  <2> QED
    BY <2>2, <2>3, <2>4
<1>5. Summed' = {} /\ Asked' = {}
  BY <1>4 DEF Summed, Asked
<1> QED
  BY <1>1, <1>3, <1>4, <1>5 DEF StatsOK, TotalsOK, CountsOK

\* The branch scope is resolved, as for a listing.
LEMMA ResolveStatsBranchStep ==
  ASSUME IInv, StatsOK, TotalsOK, ResolveStatsBranch
  PROVE  (StatsOK /\ TotalsOK /\ CountsOK)'
<1> DEFINE outcome == ResolveBranchForFilter(stats.context, stats.requested)
<1>1. CASE stats' = NoStats
  BY <1>1, NoStatsOK DEF IInv
<1>2. CASE /\ outcome.code = "OK"
           /\ stats' = [ stats EXCEPT !.pc = 2, !.scope = outcome.branch ]
  <2>1. /\ stats \in StatsRecords /\ stats.pc = 1 /\ stats.context \in Contexts
        /\ stats.requested \in Branches \cup {None}
    BY DEF ResolveStatsBranch, StatsOK, StatsRecords
  <2>2. /\ outcome.branch \in Branches \cup {None}
        /\ IsBranchScoped(stats.context) =>
             outcome.branch = stats.context.branch /\ outcome.branch # None
    BY <1>2, <2>1, FilterBranch
  <2> HIDE DEF outcome
  <2>3. /\ stats' \in StatsRecords /\ stats'.pc = 2 /\ stats'.context = stats.context
        /\ stats'.scope = outcome.branch /\ stats'.seen = stats.seen
        /\ stats'.present = stats.present /\ stats'.inRange = stats.inRange
    <3>1. stats' \in StatsRecords
      BY <1>2, <2>1, <2>2, ResolvedTyped
    <3> QED
      BY <1>2, <2>1, <3>1 DEF StatsRecords
  <2>4. \A q \in Types \cup MovementStatus : stats'.seen[q] = {}
    BY <2>1, <2>3 DEF StatsOK
  <2>5. Summed' = {} /\ Asked' = {} /\ Rows' = Rows
    BY <2>3, <2>4 DEF Summed, Asked, ResolveStatsBranch, Rows, vars
  <2> QED
    BY <2>1, <2>2, <2>3, <2>4, <2>5 DEF StatsOK, TotalsOK, CountsOK
<1> QED
  BY <1>1, <1>2 DEF ResolveStatsBranch

\* What a statement selects is in the cards.
LEMMA SelectedInCards ==
  ASSUME NEW q
  PROVE  Selected(q) = { m \in Movements : InCards(m) /\ q \in {TypeOf[m], movement[m].status} }
BY DEF Selected, InCards, Rows

\* One statement more.
LEMMA AggregateStep ==
  ASSUME IInv, StatsOK, Aggregate
  PROVE  /\ StatsOK'
         /\ TotalsOK => TotalsOK'
         /\ CountsOK => CountsOK'
<1> DEFINE q == Queries[stats.pc - 1]
<1>1. /\ stats.pc \in 2..7 /\ stats'.pc = stats.pc + 1 /\ q \in Types \cup MovementStatus
      /\ q \notin Asked /\ Asked' = Asked \cup {q}
  BY AskedNext
<1>2. stats' = [ stats EXCEPT !.pc = stats.pc + 1, !.seen[q] = Selected(q) ] /\ UNCHANGED vars
  BY DEF Aggregate
<1>3. stats \in StatsRecords
  BY DEF StatsOK
<1>4. Selected(q) \subseteq Movements
  BY SelectedInCards
<1> HIDE DEF q
<1>5. /\ stats' \in StatsRecords
      /\ stats'.context = stats.context /\ stats'.scope = stats.scope
      /\ stats'.present = stats.present /\ stats'.inRange = stats.inRange
      /\ stats'.seen = [ stats.seen EXCEPT ![q] = Selected(q) ]
  <2>1. stats' \in StatsRecords
    <3>1. PICK n \in 0..8 : n = stats.pc + 1
      BY <1>1
    <3>2. PICK S \in SUBSET Movements : S = Selected(q)
      BY <1>4
    <3>3. stats' = [ stats EXCEPT !.pc = n, !.seen[q] = S ]
      BY <1>2, <3>1, <3>2
    <3> QED
      BY <1>1, <1>3, <3>3, SeenTyped
  <2> QED
    BY <1>2, <1>3, <2>1 DEF StatsRecords
<1>6. /\ stats'.seen[q] = Selected(q)
      /\ \A p \in Types \cup MovementStatus : p # q => stats'.seen[p] = stats.seen[p]
  BY <1>1, <1>3, <1>5 DEF StatsRecords
<1>7. movement' = movement /\ \A m \in Movements : InCards(m)' <=> InCards(m)
  BY <1>2, <1>5 DEF vars, InCards, Rows
<1>8. StatsOK'
  <2>1. ASSUME NEW p \in Types \cup MovementStatus
        PROVE  /\ stats'.seen[p] # {} => p \in Asked'
               /\ \A m \in stats'.seen[p] : InCards(m)'
    <3>1. stats.seen[p] \subseteq Movements
      BY <1>3 DEF StatsRecords
    <3> QED
      BY <1>1, <1>6, <1>7, <3>1, SelectedInCards DEF StatsOK
  <2> QED
    BY <1>1, <1>5, <2>1 DEF StatsOK
<1>9. ASSUME TotalsOK
      PROVE  TotalsOK'
  <2>1. stats.present \subseteq Movements
    BY <1>3 DEF StatsRecords
  <2>2. ASSUME NEW p \in Types \cap Asked', NEW m \in stats.present, InCards(m), TypeOf[m] = p
        PROVE  m \in stats'.seen[p]
    BY <1>1, <1>6, <1>9, <2>1, <2>2, SelectedInCards DEF TotalsOK
  <2> QED
    BY <1>2, <1>5, <1>7, <1>9, <2>1, <2>2 DEF TotalsOK, Rows, vars
<1>10. ASSUME CountsOK
       PROVE  CountsOK'
  <2> SUFFICES ASSUME NEW m \in Summed'
               PROVE  m \in Counted' \/ movement[m].status \notin Asked'
    BY <1>7 DEF CountsOK
  <2>1. PICK p \in Types : m \in stats'.seen[p]
    BY DEF Summed
  <2>2. InCards(m) /\ m \in Movements /\ movement[m].status \in MovementStatus
    <3>1. InCards(m)' /\ m \in Movements
      BY <1>8, <2>1 DEF StatsOK, InCards, Rows
    <3>2. movement[m] # NoMovement
      BY <1>7, <3>1 DEF InCards, Rows
    <3> QED
      BY <1>7, <3>1, <3>2 DEF IInv, TypeOK, MovementRows
  <2>3. CASE q \in Types
    <3>1. stats.pc - 1 \in 1..2
      <4>1. stats.pc - 1 \in 1..6
        BY <1>1
      <4> QED
        BY <2>3, <4>1, QueryOrder DEF q
    <3>2. Asked' \subseteq Types
      <4>1. ASSUME NEW i \in 1..stats'.pc - 2
            PROVE  Queries[i] \in Types
        BY <1>1, <3>1, <4>1, QueryOrder
      <4>2. Asked' = { Queries[i] : i \in 1..stats'.pc - 2 }
        BY DEF Asked, Queries
      <4> QED
        BY <4>1, <4>2
    <3> QED
      BY <2>2, <3>2 DEF Types, MovementStatus
  <2>4. CASE q \in MovementStatus
    <3>1. q \notin Types
      BY <2>4 DEF Types, MovementStatus
    <3>2. m \in Summed
      BY <1>6, <2>1, <3>1 DEF Summed
    <3>3. CASE movement[m].status = q
      BY <1>6, <2>2, <2>4, <3>3, SelectedInCards DEF Counted
    <3>4. CASE m \in Counted
      <4>1. PICK s \in MovementStatus : m \in stats.seen[s]
        BY <3>4 DEF Counted
      <4>2. s # q
        BY <1>1, <4>1 DEF StatsOK
      <4> QED
        BY <1>6, <4>1, <4>2 DEF Counted
    <3> QED
      BY <1>1, <1>10, <3>2, <3>3, <3>4 DEF CountsOK
  <2> QED
    BY <1>1, <2>3, <2>4
<1> QED
  BY <1>8, <1>9, <1>10

-------------------------------------------------------------------------------
(* The steps of the other requests.                                        *)

\* What is in the cards stays there, and a row that is there does not get into them.
LEMMA CardsStay ==
  ASSUME IInv, [Next]_vars, UNCHANGED stats, NEW m \in Movements
  PROVE  /\ InCards(m) => InCards(m)'
         /\ m \in Rows /\ InCards(m)' => InCards(m)
BY RowsStay DEF InCards, Rows

\* They leave the guarantees of the stats request alone.
LEMMA OthersStep ==
  ASSUME IInv, StatsOK, [Next]_vars, UNCHANGED stats
  PROVE  /\ StatsOK'
         /\ TotalsOK => TotalsOK'
<1>1. Asked' = Asked
  BY DEF Asked, Queries
<1>2. stats \in StatsRecords
  BY DEF StatsOK
<1>3. StatsOK'
  <2>1. ASSUME NEW q \in Types \cup MovementStatus, NEW m \in stats.seen[q]
        PROVE  InCards(m)'
    <3>1. m \in Movements /\ InCards(m)
      BY <1>2, <2>1 DEF StatsRecords, StatsOK
    <3> QED
      BY <3>1, CardsStay
  <2> QED
    BY <1>1, <2>1 DEF StatsOK
<1>4. ASSUME TotalsOK
      PROVE  /\ stats.present \subseteq Rows'
             /\ \A q \in Types \cap Asked, m \in stats.present :
                  InCards(m)' /\ TypeOf[m] = q => m \in stats.seen[q]
  <2>1. stats.present \subseteq Rows /\ Rows \subseteq Rows'
    BY <1>4, RowsStay DEF TotalsOK, Rows
  <2>2. ASSUME NEW q \in Types \cap Asked, NEW m \in stats.present, InCards(m)', TypeOf[m] = q
        PROVE  m \in stats.seen[q]
    <3>1. m \in Movements /\ m \in Rows
      BY <2>1 DEF Rows
    <3>2. InCards(m)
      BY <2>2, <3>1, CardsStay
    <3> QED
      BY <1>4, <2>2, <3>2 DEF TotalsOK
  <2> QED
    BY <2>1, <2>2
<1> QED
  BY <1>1, <1>3, <1>4 DEF TotalsOK

\* A valid transition leads to a status that is asked for later.
LEMMA TransitionsFollowQueries ==
  ASSUME StatsOK, NEW a, NEW b, <<a, b>> \in ValidTransitions, b \in Asked
  PROVE  a \in Asked
<1>1. PICK i \in 1..stats.pc - 2 : b = Queries[i]
  BY DEF Asked
<1>2. stats.pc \in 0..8 /\ i \in 1..6
  BY <1>1 DEF StatsOK, StatsRecords
<1>3. \/ a = "PENDING" /\ b = "APPROVED"
      \/ a = "PENDING" /\ b = "REJECTED"
      \/ a = "APPROVED" /\ b = "DELIVERED"
  BY DEF ValidTransitions
<1>4. PICK j \in 1..6 : j < i /\ a = Queries[j]
  BY <1>1, <1>2, <1>3 DEF Queries
<1> QED
  BY <1>1, <1>2, <1>4 DEF Asked

\* Along the valid transitions nothing is left out of the counts.
LEMMA OthersCountsStep ==
  ASSUME IInv, ReadIsFresh, StatsOK, CountsOK, [Next]_vars, UNCHANGED stats
  PROVE  CountsOK'
<1> SUFFICES ASSUME NEW m \in Summed, m \notin Counted
             PROVE  movement'[m].status \notin Asked
  BY DEF CountsOK, Summed, Counted, Asked, Queries
<1>1. m \in Movements /\ movement[m] # NoMovement
  BY DEF Summed, StatsOK, InCards, Rows
<1>2. movement[m].status \notin Asked
  BY DEF CountsOK
<1> QED
  BY <1>1, <1>2, StatusesFollow, TransitionsFollowQueries

-------------------------------------------------------------------------------
(* Theorems.                                                               *)

\* Every step keeps the guarantees of the stats request.
LEMMA StatsStep ==
  ASSUME IInv, StatsOK, TotalsOK, [StatsNext]_statsVars
  PROVE  (StatsOK /\ TotalsOK)'
<1>1. ASSUME NEW u \in Users, NEW requested \in Branches \cup {None}, GetStats(u, requested)
      PROVE  (StatsOK /\ TotalsOK)'
  BY <1>1, GetStatsStep
<1>2. CASE ResolveStatsBranch
  BY <1>2, ResolveStatsBranchStep
<1>3. CASE Aggregate
  BY <1>3, AggregateStep
<1>4. CASE Answer \/ AbortStats
  BY <1>4, NoStatsOK DEF Answer, AbortStats, IInv
<1>5. CASE Next /\ UNCHANGED stats
  BY <1>5, OthersStep
<1>6. CASE UNCHANGED statsVars
  BY <1>6, OthersStep DEF statsVars
<1> QED
  BY <1>1, <1>2, <1>3, <1>4, <1>5, <1>6 DEF StatsNext

\* The component below takes a step or none.
LEMMA StepBelow ==
  [StatsNext]_statsVars => [Next]_vars
BY DEF StatsNext, statsVars, GetStats, ResolveStatsBranch, Aggregate, Answer, AbortStats

\* A request that has not arrived guarantees everything.
LEMMA StatsInitially ==
  StatsInit => IInv /\ StatsOK /\ TotalsOK /\ CountsOK
<1> SUFFICES ASSUME StatsInit
             PROVE  IInv /\ StatsOK /\ TotalsOK /\ CountsOK
  OBVIOUS
<1>1. IInv
  BY Initial DEF StatsInit
<1>2. stats \in StatsRecords
  BY DEF StatsInit, NoStats, StatsRecords
<1>3. /\ stats.pc = 0 /\ stats.present = {}
      /\ \A q \in Types \cup MovementStatus : stats.seen[q] = {}
  BY DEF StatsInit, NoStats
<1>4. Summed = {}
  BY <1>3 DEF Summed
<1> QED
  BY <1>1, <1>2, <1>3, <1>4 DEF StatsOK, TotalsOK, CountsOK

\* The guarantees hold in every reachable state, however many requests move movements.
LEMMA StatsInvariance ==
  StatsSpec => [](IInv /\ StatsOK /\ TotalsOK)
<1>1. IInv /\ StatsOK /\ TotalsOK /\ [StatsNext]_statsVars => (IInv /\ StatsOK /\ TotalsOK)'
  BY StepBelow, Inductive, StatsStep
<1> QED
  BY <1>1, StatsInitially, PTL DEF StatsSpec

\* Whatever is summed or counted belongs to the caller's organisation and, for a
\* branch-scoped context, to its branch (cashflow.service.ts getStats).
THEOREM StatsScope ==
  StatsSpec => []StatsInScope
<1>1. IInv /\ StatsOK => StatsInScope
  <2> SUFFICES ASSUME IInv, StatsOK, NEW m \in Summed \cup Counted
               PROVE  /\ movement[m].org = stats.context.org
                      /\ IsBranchScoped(stats.context) =>
                           movement[m].branch = stats.context.branch
    BY DEF StatsInScope
  <2>1. PICK q \in Types \cup MovementStatus : m \in stats.seen[q]
    BY DEF Summed, Counted
  <2>2. InCards(m) /\ stats.pc \in 2..8
    BY <2>1 DEF StatsOK
  <2> QED
    BY <2>2 DEF StatsOK, InCards
<1> QED
  BY <1>1, StatsInvariance, PTL

\* What is counted but not summed up was created after the request arrived, however the
\* writes of other requests fall between the statements.
TotalsCoverCounts == Answered => Counted \cap stats.present \subseteq Summed

\* An answer comes after all six statements.
LEMMA AllAsked ==
  ASSUME StatsOK, Answered
  PROVE  Types \cup MovementStatus \subseteq Asked
<1>1. stats.pc = 8
  BY SixQueries DEF Answered
<1>2. Asked = { Queries[i] : i \in 1..6 }
  BY <1>1 DEF Asked
<1>3. /\ Queries[1] = "IN" /\ Queries[2] = "OUT" /\ Queries[3] = "PENDING"
      /\ Queries[4] = "APPROVED" /\ Queries[5] = "DELIVERED" /\ Queries[6] = "REJECTED"
  BY DEF Queries
<1> QED
  BY <1>2, <1>3 DEF Types, MovementStatus

\* A counted row is in the range and of a type, whose total has seen it if it was there.
LEMMA CountsAreSummed ==
  ASSUME IInv, StatsOK, TotalsOK
  PROVE  TotalsCoverCounts
<1> SUFFICES ASSUME Answered, NEW m \in Counted \cap stats.present
             PROVE  m \in Summed
  BY DEF TotalsCoverCounts
<1>1. m \in Movements /\ InCards(m)
  BY DEF Counted, StatsOK, InCards, Rows
<1>2. TypeOf[m] \in Types /\ Types \subseteq Asked
  BY <1>1, AllAsked, CashflowStatsAssumption DEF Types
<1>3. m \in stats.seen[TypeOf[m]]
  BY <1>1, <1>2 DEF TotalsOK
<1> QED
  BY <1>2, <1>3 DEF Summed

\* The totals cover what is counted of the movements that were there when the request
\* arrived, for any number of requests (cashflow.service.ts getStats).
THEOREM TotalsCover ==
  StatsSpec => []TotalsCoverCounts
BY CountsAreSummed, StatsInvariance, PTL

\* With one request that moves movements at a time, the cards of an answer agree: every
\* movement in the totals is counted too, and every counted one that was there when the
\* request arrived is in the totals, although the six statements have six snapshots.
THEOREM CardsAgreeSerially ==
  ASSUME \A r, s \in Requests : r = s
  PROVE  StatsSpec => []CardsAgree
<1>1. StatsInit => ReadIsFresh
  BY DEF StatsInit, Init, Idle, ReadIsFresh
<1>2. IInv /\ StatsOK /\ ReadIsFresh /\ CountsOK /\ [StatsNext]_statsVars
        => (ReadIsFresh /\ CountsOK)'
  <2> SUFFICES ASSUME IInv, StatsOK, ReadIsFresh, CountsOK, [StatsNext]_statsVars
               PROVE  (ReadIsFresh /\ CountsOK)'
    OBVIOUS
  <2>0. ReadIsFresh'
    BY FreshReads, StepBelow
  <2> SUFFICES CountsOK'
    BY <2>0
  <2>1. ASSUME NEW u \in Users, NEW requested \in Branches \cup {None}, GetStats(u, requested)
        PROVE  CountsOK'
    BY <2>1, GetStatsStep
  <2>2. CASE ResolveStatsBranch
    <3>1. CASE stats' = NoStats
      BY <3>1, NoStatsOK DEF IInv
    <3>2. CASE stats' # NoStats
      <4>1. stats.pc = 1 /\ stats'.seen = stats.seen
        BY <2>2, <3>2 DEF ResolveStatsBranch, StatsOK, StatsRecords
      <4>2. Summed' = {}
        BY <4>1 DEF StatsOK, Summed
      <4> QED
        BY <4>2 DEF CountsOK
    <3> QED
      BY <3>1, <3>2
  <2>3. CASE Aggregate
    BY <2>3, AggregateStep
  <2>4. CASE Answer \/ AbortStats
    BY <2>4, NoStatsOK DEF Answer, AbortStats, IInv
  <2>5. CASE UNCHANGED stats
    BY <2>5, StepBelow, OthersCountsStep
  <2> QED
    BY <2>0, <2>1, <2>2, <2>3, <2>4, <2>5 DEF StatsNext, statsVars
<1>3. IInv /\ StatsOK /\ TotalsOK /\ CountsOK => CardsAgree
  <2> SUFFICES ASSUME IInv, StatsOK, TotalsOK, CountsOK, Answered
               PROVE  Summed \subseteq Counted /\ Counted \cap stats.present \subseteq Summed
    BY DEF CardsAgree
  <2>1. ASSUME NEW m \in Summed
        PROVE  m \in Counted
    <3>1. m \in Movements /\ movement[m] # NoMovement
      BY DEF Summed, StatsOK, InCards, Rows
    <3>2. movement[m].status \in MovementStatus
      BY <3>1 DEF IInv, TypeOK, MovementRows
    <3> QED
      BY <3>2, AllAsked DEF CountsOK
  <2> QED
    BY <2>1, CountsAreSummed DEF TotalsCoverCounts
<1> QED
  BY <1>1, <1>2, <1>3, StatsInitially, StatsInvariance, PTL DEF StatsSpec
===============================================================================
