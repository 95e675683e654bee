--------------------------- MODULE AuthSessionsProofs ---------------------------
(***************************************************************************)
(* Proofs about AuthSessions for any users, sessions, tokens and number of *)
(* concurrent requests.                                                    *)
(*                                                                         *)
(* The inductive invariant says of every session row where it comes from   *)
(* (RowOK), of every row lock who will release it (LockOK), and of every   *)
(* request in flight what its past reads still guarantee (RequestOK).  The *)
(* third part survives the others' writes because a session that was once  *)
(* committed keeps its user and its parent and is never free again, and    *)
(* because a row that somebody has locked is not deleted by anybody else.  *)
(***************************************************************************)
EXTENDS AuthSessions, FiniteSetTheorems, TLAPS

RefreshSteps  == {"refresh", "rotateInsert", "rotateUpdate", "rotateCommit"}
LogoutSteps   == {"logout", "revoke"}
PasswordSteps == {"setPassword", "delete", "lockRows"}
UserSteps     == {"create", "login", "open", "authenticate", "change", "forgot"}

Rotating(q) == q.pc \in {"rotateUpdate", "rotateCommit"}

\* What a session row guarantees.
RowOK(s) ==
  LET row == session[s]
  IN  /\ row.state = "free" => row = NoSession
      /\ row.state # "free" => row.user \in Users
      /\ row.state = "pending" => /\ ~row.revoked /\ row.replacedBy = None
                                  /\ \E r \in Requests : Rotating(request[r]) /\ request[r].opened = s
      /\ row.parent # None => Issued(row.parent)
      /\ Exists(s) =>
           /\ row.parent # None => ~Live(row.parent)
           /\ row.replacedBy # None =>
                /\ row.revoked
                /\ Exists(row.replacedBy)
                /\ session[row.replacedBy].parent = s

\* What a row lock guarantees.
LockOK(row) ==
  lock[row] # None =>
    LET q == request[lock[row]]
    IN  /\ row \in Users => q.pc \in {"delete", "lockRows"} /\ q.user = row
        /\ row \in Sessions => \/ q.pc = "rotateCommit" /\ q.input.subject = row
                               \/ q.pc = "lockRows" /\ row \in q.doomed

\* What a request guarantees at the step it has reached.
RequestOK(r) ==
  LET q == request[r]
      s == q.input.subject
  IN  /\ q.pc = "idle" => q = Idle
      /\ q.pc # "idle" => q.input \in Inputs
      /\ q.pc \in RefreshSteps \cup LogoutSteps =>
           /\ s \in Sessions \cup {None}
           /\ s # None => Issued(s) /\ q.user = session[s].user
      /\ q.pc \in {"rotateInsert", "rotateUpdate", "rotateCommit", "revoke"} => s # None
      /\ q.pc = "reset" =>
           /\ q.input.op = "reset"
           /\ s \in Tokens \cup {None}
           /\ s # None => q.user \in Users /\ q.user = token[s].user
      /\ q.pc \in PasswordSteps \cup UserSteps => q.user \in Users
      /\ q.pc \in {"authenticate", "change"} => q.input.op = "change"
      /\ q.pc \in PasswordSteps => /\ q.input.op \in {"change", "reset"}
                                   /\ q.input.op = "reset" =>
                                        s \in Tokens /\ q.user = token[s].user
      /\ q.pc \in PasswordSteps \cup {"authenticate", "change", "reset"} =>
           \A e \in q.earlier : Issued(e) /\ session[e].user = q.user
      /\ Rotating(q) =>
           /\ q.opened \in Sessions
           /\ session[q.opened].state = "pending"
           /\ session[q.opened].parent = s
           /\ session[q.opened].user = q.user
           /\ \A other \in Requests \ {r} : request[other].opened # q.opened
      /\ q.opened # None => Rotating(q)
      /\ q.pc = "rotateCommit" => Exists(s) /\ lock[s] = r
      /\ q.pc \in {"delete", "lockRows"} => lock[q.user] = r
      /\ q.pc = "lockRows" =>
           /\ \A d \in q.doomed : Issued(d) /\ session[d].user = q.user
           /\ \A e \in q.earlier : e \in q.doomed \/ session[e].state = "gone"

\* What a reset token guarantees.
TokenOK(t) == token[t] # NoToken => token[t].user \in Users

IInv ==
  /\ TypeOK
  /\ \A t \in Tokens : TokenOK(t)
  /\ \A s \in Sessions : RowOK(s)
  /\ \A row \in Users \cup Sessions : LockOK(row)
  /\ \A r \in Requests : RequestOK(r)
-------------------------------------------------------------------------------
(* What one request's step leaves to the others.                           *)

\* A reset token never changes hands.
TokensKept ==
  \A t \in Tokens : token[t].user # None => token'[t].user = token[t].user

\* A step of request r, as far as the others notice it.
Frame(r) ==
  /\ \A o \in Requests \ {r} : request'[o] = request[o]
  /\ \A row \in Users \cup Sessions, o \in Requests \ {r} : lock'[row] = o <=> lock[row] = o
  /\ \A s \in Sessions :
       /\ Issued(s) => Issued(s)' /\ session'[s].user = session[s].user
       /\ session[s].state = "gone" => session'[s].state = "gone"
       /\ Exists(s) => Exists(s)' \/ lock[s] = r
       /\ session[s].state = "pending" /\ s # request[r].opened => session'[s] = session[s]
  /\ TokensKept
  /\ request'[r].opened # None =>
       \/ request'[r].opened = request[r].opened
       \/ request'[r].opened \in Sessions /\ session[request'[r].opened].state = "free"

\* What clients send, by endpoint.
LEMMA InputShape ==
  ASSUME NEW i \in Inputs
  PROVE  /\ i.op \in Endpoints
         /\ i.op \in {"register", "login", "change", "forgot"} => i.user \in Users
         /\ i.op \in {"refresh", "logout"} => i.subject \in Sessions \cup {None}
         /\ i.op = "reset" => i.subject \in Tokens \cup {None}
BY DEF Inputs, Input, Endpoints

\* The guarantees of the other requests survive.
LEMMA OthersKept ==
  ASSUME IInv, NEW r \in Requests, Frame(r), NEW o \in Requests \ {r}
  PROVE  RequestOK(o)'
<1> DEFINE q == request[o]
           s == q.input.subject
<1>1. q = request'[o] /\ RequestOK(o) /\ RequestOK(r) /\ o \in Requests /\ o # r
  BY DEF IInv, Frame
<1>2. TypeOK
  BY DEF IInv
<1>3. q.pc \in RefreshSteps \cup LogoutSteps /\ s # None => Issued(s)' /\ q.user = session'[s].user
  BY <1>1 DEF RequestOK, Frame
<1>4. Rotating(q) =>
        /\ session'[q.opened].state = "pending"
        /\ session'[q.opened].parent = s
        /\ session'[q.opened].user = q.user
        /\ \A other \in Requests \ {o} : request'[other].opened # q.opened
  <2> SUFFICES ASSUME Rotating(q)
               PROVE  /\ session'[q.opened] = session[q.opened]
                      /\ \A other \in Requests \ {o} : request'[other].opened # q.opened
    BY <1>1 DEF RequestOK
  <2>1. q.opened \in Sessions /\ session[q.opened].state = "pending" /\ request[r].opened # q.opened
    BY <1>1 DEF RequestOK
  <2>2. session'[q.opened] = session[q.opened]
    BY <2>1 DEF Frame
  <2>3. ASSUME NEW other \in Requests \ {o}
        PROVE  request'[other].opened # q.opened
    <3>1. CASE other = r
      BY <2>1, <3>1, AuthSessionsAssumption DEF Frame
    <3>2. CASE other # r
      BY <1>1, <3>2 DEF Frame, RequestOK
    <3> QED
      BY <3>1, <3>2
  <2> QED
    BY <2>2, <2>3
<1>5. q.pc = "rotateCommit" => Exists(s)' /\ lock'[s] = o
  <2>1. q.pc = "rotateCommit" => s \in Sessions /\ Exists(s) /\ lock[s] = o
    BY <1>1 DEF RequestOK, RefreshSteps
  <2> QED
    BY <1>1, <2>1 DEF Frame
<1>6. q.pc \in {"delete", "lockRows"} => lock'[q.user] = o
  BY <1>1 DEF RequestOK, Frame, PasswordSteps
<1>7. q.earlier \subseteq Sessions /\ q.doomed \subseteq Sessions
  BY <1>1, <1>2 DEF TypeOK, RequestRecords
<1>8. q.pc \in PasswordSteps \cup {"authenticate", "change", "reset"} =>
        \A e \in q.earlier : Issued(e)' /\ session'[e].user = q.user
  BY <1>1, <1>7 DEF RequestOK, Frame
<1>9. q.pc = "lockRows" =>
        /\ \A d \in q.doomed : Issued(d)' /\ session'[d].user = q.user
        /\ \A e \in q.earlier : e \in q.doomed \/ session'[e].state = "gone"
  BY <1>1, <1>7 DEF RequestOK, Frame
<1>10. /\ q.pc = "reset" /\ s # None => q.user = token'[s].user
       /\ q.pc \in PasswordSteps /\ q.input.op = "reset" => q.user = token'[s].user
  BY <1>1, AuthSessionsAssumption DEF RequestOK, Frame, TokensKept
<1> QED
  BY <1>1, <1>3, <1>4, <1>5, <1>6, <1>8, <1>9, <1>10 DEF RequestOK

\* So do the guarantees of the locks, if those that r then holds are right.
LEMMA LocksKept ==
  ASSUME IInv, NEW r \in Requests, Frame(r), TypeOK',
         \A row \in Users \cup Sessions : lock'[row] = r => LockOK(row)'
  PROVE  \A row \in Users \cup Sessions : LockOK(row)'
<1> TAKE row \in Users \cup Sessions
<1>1. CASE lock'[row] \in {r, None}
  BY <1>1 DEF LockOK
<1>2. CASE lock'[row] \notin {r, None}
  <2>1. lock'[row] \in Requests \ {r}
    BY <1>2 DEF TypeOK
  <2>2. lock[row] = lock'[row] /\ request'[lock'[row]] = request[lock'[row]]
    BY <2>1 DEF Frame
  <2>3. LockOK(row)
    BY DEF IInv
  <2> QED
    BY <2>1, <2>2, <2>3, AuthSessionsAssumption DEF LockOK
<1> QED
  BY <1>1, <1>2

\* A step that touches neither session rows nor locks, of a request that has none.
LEMMA QuietStep ==
  ASSUME IInv, NEW r \in Requests, TypeOK', UNCHANGED <<session, lock>>,
         \A t \in Tokens : TokenOK(t)', TokensKept,
         \A o \in Requests \ {r} : request'[o] = request[o],
         ~Rotating(request[r]), request[r].pc \notin {"delete", "lockRows"},
         request'[r].opened = None, RequestOK(r)'
  PROVE  IInv'
<1>1. Frame(r)
  BY DEF Frame, Issued, Exists
<1>2. \A o \in Requests : RequestOK(o)'
  BY <1>1, OthersKept
<1>3. \A row \in Users \cup Sessions : LockOK(row)'
  <2>1. \A row \in Users \cup Sessions : lock[row] # r
    <3> SUFFICES ASSUME NEW row \in Users \cup Sessions, lock[row] = r
                 PROVE  FALSE
      OBVIOUS
    <3>1. LockOK(row) /\ r # None
      BY AuthSessionsAssumption DEF IInv
    <3> QED
      BY <3>1 DEF LockOK, Rotating
  <2> QED
    BY <1>1, <2>1, LocksKept
<1>4. \A s \in Sessions : RowOK(s)'
  <2> SUFFICES ASSUME NEW s \in Sessions
               PROVE  RowOK(s)'
    OBVIOUS
  <2>1. RowOK(s)
    BY DEF IInv
  <2>2. session[s].state = "pending" =>
          \E o \in Requests : Rotating(request'[o]) /\ request'[o].opened = s
    BY <2>1 DEF RowOK
  <2> QED
    BY <2>1, <2>2 DEF RowOK, Issued, Exists, Live
<1> QED
  BY <1>2, <1>3, <1>4 DEF IInv

-------------------------------------------------------------------------------
(* Each action preserves the invariant.                                    *)

\* The slot is empty again.
LEMMA IdleOK ==
  ASSUME NEW r \in Requests, request'[r] = Idle
  PROVE  RequestOK(r)' /\ request'[r].opened = None /\ request'[r] \in RequestRecords
BY DEF RequestOK, Idle, Rotating, RefreshSteps, LogoutSteps, PasswordSteps, UserSteps,
       RequestRecords, Steps

\* A request that is answered without having touched sessions or locks.
LEMMA QuietRespond ==
  ASSUME IInv, NEW r \in Requests, UNCHANGED <<session, lock>>, Respond(r),
         account' \in [Users -> AccountRows], lastPassword' \in Nat,
         token' \in [Tokens -> TokenRows], \A t \in Tokens : TokenOK(t)', TokensKept,
         ~Rotating(request[r]), request[r].pc \notin {"delete", "lockRows"}
  PROVE  IInv'
<1>1. request' = [ request EXCEPT ![r] = Idle ] /\ request \in [Requests -> RequestRecords]
  BY DEF Respond, IInv, TypeOK
<1>2. request'[r] = Idle /\ \A o \in Requests \ {r} : request'[o] = request[o]
  BY <1>1
<1>3. TypeOK'
  BY <1>1, <1>2, IdleOK DEF TypeOK, IInv
<1> QED
  BY <1>2, <1>3, IdleOK, QuietStep

\* The tokens keep their guarantee when they are not touched.
LEMMA SameTokens ==
  ASSUME IInv, token' = token
  PROVE  /\ token' \in [Tokens -> TokenRows]
         /\ \A t \in Tokens : TokenOK(t)'
         /\ TokensKept
BY DEF IInv, TypeOK, TokenOK, TokensKept

LEMMA ArriveStep ==
  ASSUME IInv, NEW r \in Requests, NEW input \in Inputs, Arrive(r, input)
  PROVE  IInv'
<1> DEFINE u == Subject(input)
           earlier == IF input.op \in {"change", "reset"} THEN SessionsOf(u) ELSE {}
           q == [ Idle EXCEPT !.pc = FirstStep(input.op), !.input = input, !.user = u,
                              !.earlier = earlier ]
<1>0. /\ q.pc = FirstStep(input.op) /\ q.input = input /\ q.user = u
      /\ q.opened = None /\ q.doomed = {} /\ q.earlier = earlier
  BY DEF Idle
<1>1. request' = [ request EXCEPT ![r] = q ] /\ request \in [Requests -> RequestRecords]
  BY DEF Arrive, IInv, TypeOK
<1>2. request'[r] = q /\ \A o \in Requests \ {r} : request'[o] = request[o]
  BY <1>1
<1>3. /\ UNCHANGED <<account, lastPassword, session, token, lock>>
      /\ TypeOK /\ At(r, "idle") /\ RequestOK(r)
  BY DEF Arrive, IInv
<1>4. /\ input.op \in {"refresh", "logout"} =>
           input.subject \in { s \in Sessions : Issued(s) } \cup {None}
      /\ input.op = "reset" =>
           input.subject \in { t \in Tokens : token[t] # NoToken } \cup {None}
  BY DEF Arrive
<1>5. \A s \in SessionsOf(u) : s \in Sessions /\ Issued(s) /\ session[s].user = u
  BY DEF SessionsOf, Issued, Exists
<1>6. /\ u \in Users \cup {None}
      /\ input.op \in {"register", "login", "change", "forgot"} => u \in Users
      /\ input.op \in {"refresh", "logout"} =>
           (input.subject # None => Issued(input.subject) /\ u = session[input.subject].user)
      /\ input.op = "reset" =>
           (input.subject # None => u \in Users /\ u = token[input.subject].user)
  <2>1. CASE input.op \in {"register", "login", "change", "forgot"}
    BY <2>1, InputShape DEF Subject
  <2>2. CASE input.op \in {"refresh", "logout"}
    <3>1. u = IF input.subject = None THEN None ELSE session[input.subject].user
      BY <2>2 DEF Subject
    <3> QED
      BY <2>2, <3>1, <1>3, <1>4 DEF TypeOK, SessionRows
  <2>3. CASE input.op = "reset"
    <3>1. u = IF input.subject = None THEN None ELSE token[input.subject].user
      BY <2>3 DEF Subject
    <3> QED
      BY <2>3, <3>1, <1>4 DEF TokenOK, IInv
  <2> QED
    BY <2>1, <2>2, <2>3, InputShape DEF Endpoints
<1>7. q.pc \in {"create", "login", "refresh", "logout", "authenticate", "forgot", "reset"}
  BY <1>0, InputShape DEF FirstStep, Endpoints
<1>8. /\ q.pc \in {"create", "login", "authenticate", "forgot"} =>
           input.op \in {"register", "login", "change", "forgot"}
      /\ q.pc \in {"refresh", "logout"} => input.op \in {"refresh", "logout"}
      /\ q.pc = "authenticate" => input.op = "change"
      /\ q.pc = "reset" => input.op = "reset"
  BY <1>0, InputShape DEF FirstStep, Endpoints
<1>9. q \in RequestRecords
  <2>1. earlier \subseteq Sessions
    BY <1>5
  <2> QED
    BY <2>1, <1>0, <1>6, <1>7 DEF RequestRecords, Steps, Idle
<1>10. RequestOK(r)'
  BY <1>0, <1>2, <1>3, <1>4, <1>5, <1>6, <1>7, <1>8, InputShape
     DEF RequestOK, Rotating, Issued, RefreshSteps, LogoutSteps, PasswordSteps, UserSteps
<1>11. TypeOK'
  BY <1>1, <1>3, <1>9 DEF TypeOK
<1>12. TokensKept /\ \A t \in Tokens : TokenOK(t)'
  BY <1>3, SameTokens
<1>13. ~Rotating(request[r]) /\ request[r].pc \notin {"delete", "lockRows"}
  BY <1>3 DEF At, Rotating
<1> QED
  BY <1>0, <1>2, <1>3, <1>10, <1>11, <1>12, <1>13, QuietStep

\* What Advance changes of a request, with or without its credential.
LEMMA AdvanceShape ==
  ASSUME TypeOK, NEW r \in Requests, NEW step \in Steps, NEW c \in Nat,
         \/ Advance(r, step)
         \/ request' = [ request EXCEPT ![r].pc = step, ![r].credential = c ]
  PROVE  /\ request' \in [Requests -> RequestRecords]
         /\ \A o \in Requests \ {r} : request'[o] = request[o]
         /\ request'[r].pc = step
         /\ request'[r].input = request[r].input /\ request'[r].user = request[r].user
         /\ request'[r].opened = request[r].opened
         /\ request'[r].doomed = request[r].doomed
         /\ request'[r].earlier = request[r].earlier
         /\ Advance(r, step) => request'[r].credential = request[r].credential
BY DEF TypeOK, Advance, RequestRecords

\* A request that goes on to a step for which it has all guarantees already.
LEMMA QuietAdvance ==
  ASSUME IInv, NEW r \in Requests, UNCHANGED <<session, lock, token>>,
         account' \in [Users -> AccountRows], lastPassword' \in Nat,
         ~Rotating(request[r]), request[r].pc \notin {"delete", "lockRows"},
         request' \in [Requests -> RequestRecords],
         \A o \in Requests \ {r} : request'[o] = request[o],
         request'[r].opened = request[r].opened, RequestOK(r)'
  PROVE  IInv'
<1>1. TypeOK /\ RequestOK(r)
  BY DEF IInv
<1>2. request'[r].opened = None
  BY <1>1 DEF RequestOK
<1>3. TypeOK'
  BY <1>1 DEF TypeOK
<1> QED
  BY <1>2, <1>3, SameTokens, QuietStep

LEMMA RegisterStep ==
  ASSUME IInv, NEW r \in Requests, Register(r)
  PROVE  IInv'
<1> DEFINE u == request[r].user
<1>1. /\ UNCHANGED <<session, token, lock>> /\ request[r].pc = "create"
      /\ TypeOK /\ RequestOK(r)
  BY DEF Register, IInv, At
<1>2. ~Rotating(request[r]) /\ request[r].pc \notin {"delete", "lockRows"}
  BY <1>1 DEF Rotating
<1>3. u \in Users /\ lastPassword + 1 \in Nat
  BY <1>1 DEF RequestOK, UserSteps, TypeOK
<1>4. CASE ~account[u].registered
  <2>1. /\ account' = [ account EXCEPT ![u] =
             [registered |-> TRUE, active |-> TRUE, password |-> lastPassword + 1] ]
        /\ lastPassword' = lastPassword + 1
        /\ request' = [ request EXCEPT ![r].pc = "open", ![r].credential = lastPassword + 1 ]
    BY <1>4 DEF Register
  <2>2. account' \in [Users -> AccountRows]
    BY <1>1, <1>3, <2>1 DEF TypeOK, AccountRows
  <2>3. /\ request' \in [Requests -> RequestRecords]
        /\ \A o \in Requests \ {r} : request'[o] = request[o]
        /\ request'[r].pc = "open" /\ request'[r].opened = request[r].opened
        /\ request'[r].input = request[r].input /\ request'[r].user = u
    BY <1>1, <1>3, <2>1, AdvanceShape DEF Steps
  <2>4. RequestOK(r)'
    BY <1>1, <1>3, <2>3
       DEF RequestOK, Rotating, RefreshSteps, LogoutSteps, PasswordSteps, UserSteps
  <2> QED
    BY <1>1, <1>2, <1>3, <2>1, <2>2, <2>3, <2>4, QuietAdvance
<1>5. CASE account[u].registered
  BY <1>1, <1>2, <1>5, SameTokens, QuietRespond DEF Register, TypeOK
<1> QED
  BY <1>4, <1>5

\* login, and the checks of refresh, logout and the password endpoints.
LEMMA CheckStep ==
  ASSUME IInv, NEW r \in Requests,
         Login(r) \/ Refresh(r) \/ Logout(r) \/ Authenticate(r) \/ Change(r) \/ Reset(r)
  PROVE  IInv'
<1>1. /\ UNCHANGED <<account, lastPassword, session, token, lock>>
      /\ TypeOK /\ RequestOK(r)
      /\ request[r].pc \in {"login", "refresh", "logout", "authenticate", "change", "reset"}
  BY DEF Login, Refresh, Logout, Authenticate, Change, Reset, IInv, At
<1>2. ~Rotating(request[r]) /\ request[r].pc \notin {"delete", "lockRows"}
  BY <1>1 DEF Rotating
<1>3. CASE Respond(r)
  BY <1>1, <1>2, <1>3, SameTokens, QuietRespond DEF TypeOK
<1>4. CASE ~Respond(r)
  <2>1. PICK step \in Steps, c \in Nat :
          /\ \/ Advance(r, step)
             \/ request' = [ request EXCEPT ![r].pc = step, ![r].credential = c ]
          /\ \/ request[r].pc = "login" /\ step = "open"
             \/ request[r].pc = "refresh" /\ step = "rotateInsert" /\ In(r).subject # None
             \/ request[r].pc = "logout" /\ step = "revoke" /\ In(r).subject # None
             \/ request[r].pc = "authenticate" /\ step = "change"
             \/ request[r].pc = "change" /\ step = "setPassword"
             \/ request[r].pc = "reset" /\ step = "setPassword" /\ In(r).subject # None
    <3>1. CASE Login(r)
      <4>1. At(r, "login")
            /\ request' = [ request EXCEPT ![r].pc = "open", ![r].credential = In(r).password ]
        BY <1>4, <3>1 DEF Login
      <4>2. In(r) \in Inputs /\ account[request[r].user].password = In(r).password
        BY <1>1, <1>4, <3>1, <4>1 DEF Login, RequestOK, At, In
      <4>3. In(r).password \in Nat
        BY <1>1, <4>1, <4>2 DEF TypeOK, AccountRows, RequestOK, UserSteps, At
      <4> QED
        BY <4>1, <4>3 DEF Steps, At
    <3>2. CASE Refresh(r)
      <4>1. /\ At(r, "refresh") /\ In(r).subject # None
            /\ request' = [ request EXCEPT ![r].pc = "rotateInsert",
                             ![r].credential = session[In(r).subject].credential ]
        BY <1>4, <3>2 DEF Refresh
      <4>2. session[In(r).subject].credential \in Nat
        BY <1>1, <4>1 DEF TypeOK, SessionRows, RequestOK, RefreshSteps, At, In
      <4> QED
        BY <4>1, <4>2 DEF Steps, At
    <3>3. CASE Logout(r)
      BY <1>4, <3>3 DEF Logout, At, Steps
    <3>4. CASE Authenticate(r)
      BY <1>4, <3>4 DEF Authenticate, At, Steps
    <3>5. CASE Change(r)
      BY <1>4, <3>5 DEF Change, At, Steps
    <3>6. CASE Reset(r)
      BY <1>4, <3>6 DEF Reset, At, Steps
    <3> QED
      BY <3>1, <3>2, <3>3, <3>4, <3>5, <3>6
  <2>2. /\ request' \in [Requests -> RequestRecords]
        /\ \A o \in Requests \ {r} : request'[o] = request[o]
        /\ request'[r].pc = step
        /\ request'[r].input = request[r].input /\ request'[r].user = request[r].user
        /\ request'[r].opened = request[r].opened
        /\ request'[r].earlier = request[r].earlier
    BY <1>1, <2>1, AdvanceShape
  <2>3. RequestOK(r)'
    BY <1>1, <2>1, <2>2 DEF RequestOK, Rotating, RefreshSteps, LogoutSteps, PasswordSteps,
                            UserSteps, In, Issued
  <2> QED
    BY <1>1, <1>2, <2>2, <2>3, QuietAdvance DEF TypeOK
<1> QED
  BY <1>3, <1>4

LEMMA ForgotStep ==
  ASSUME IInv, NEW r \in Requests, Forgot(r)
  PROVE  IInv'
<1>1. /\ UNCHANGED <<account, lastPassword, session, lock>> /\ Respond(r)
      /\ TypeOK /\ RequestOK(r) /\ request[r].pc = "forgot"
  BY DEF Forgot, IInv, At
<1>2. request[r].user \in Users
  BY <1>1 DEF RequestOK, UserSteps
<1>3. token' \in [Tokens -> TokenRows] /\ TokensKept /\ \A t \in Tokens : TokenOK(t)'
  <2>1. CASE token' = token
    BY <2>1, SameTokens
  <2>2. CASE token' # token
    <3>1. PICK t \in Tokens : /\ token[t] = NoToken
                               /\ token' = [ token EXCEPT ![t].user = request[r].user ]
      BY <2>2 DEF Forgot
    <3>2. token[t].user = None
      BY <3>1 DEF NoToken
    <3> QED
      BY <1>1, <1>2, <3>1, <3>2 DEF TypeOK, TokenRows, TokenOK, TokensKept, IInv
  <2> QED
    BY <2>1, <2>2
<1> QED
  BY <1>1, <1>3, QuietRespond DEF TypeOK, Rotating

\* A step of r that keeps to its frame preserves the invariant if it leaves the
\* rows, r itself and the locks that r then holds in order.
LEMMA FramedStep ==
  ASSUME IInv, NEW r \in Requests, Frame(r), TypeOK', \A t \in Tokens : TokenOK(t)',
         \A s \in Sessions : RowOK(s)', RequestOK(r)',
         \A row \in Users \cup Sessions : lock'[row] = r => LockOK(row)'
  PROVE  IInv'
BY OthersKept, LocksKept DEF IInv

\* The requests that insert a pending row are not the one that takes a step here.
LEMMA PendingKept ==
  ASSUME IInv, NEW r \in Requests, NEW s \in Sessions, session[s].state = "pending",
         request[r].opened # s, \A o \in Requests \ {r} : request'[o] = request[o]
  PROVE  \E o \in Requests : Rotating(request'[o]) /\ request'[o].opened = s
<1>1. PICK o \in Requests : Rotating(request[o]) /\ request[o].opened = s
  BY DEF IInv, RowOK
<1>2. request'[o] = request[o]
  BY <1>1
<1> QED
  BY <1>1, <1>2

\* A request holds no lock at all where LockOK provides for none.
LEMMA NoLocksHeld ==
  ASSUME IInv, NEW r \in Requests, request[r].pc \notin {"rotateCommit", "delete", "lockRows"}
  PROVE  \A row \in Users \cup Sessions : lock[row] # r
<1> SUFFICES ASSUME NEW row \in Users \cup Sessions, lock[row] = r
             PROVE  FALSE
  OBVIOUS
<1>1. LockOK(row) /\ r # None
  BY AuthSessionsAssumption DEF IInv
<1> QED
  BY <1>1 DEF LockOK

\* The slot is empty, nobody else's has changed.
LEMMA RespondShape ==
  ASSUME TypeOK, NEW r \in Requests, Respond(r)
  PROVE  /\ request' \in [Requests -> RequestRecords]
         /\ request'[r] = Idle /\ request'[r].opened = None /\ RequestOK(r)'
         /\ \A o \in Requests \ {r} : request'[o] = request[o]
<1>1. request' = [ request EXCEPT ![r] = Idle ] /\ request \in [Requests -> RequestRecords]
  BY DEF Respond, TypeOK
<1>2. request'[r] = Idle
  BY <1>1
<1> QED
  BY <1>1, <1>2, IdleOK

\* A new session row, whatever its state.
LEMMA NewSessionShape ==
  ASSUME NEW state \in {"pending", "row"}, NEW u \in Users, NEW parent \in Sessions \cup {None},
         NEW c \in Nat
  PROVE  LET row == NewSession(state, u, parent, c)
         IN  /\ row \in SessionRows
             /\ row.state = state /\ row.user = u /\ row.parent = parent
             /\ row.credential = c
             /\ ~row.revoked /\ ~row.expired /\ row.replacedBy = None
BY DEF NewSession, NoSession, SessionRows

LEMMA NoSessionShape ==
  /\ NoSession \in SessionRows
  /\ NoSession.state = "free" /\ NoSession.parent = None
BY DEF NoSession, SessionRows

LEMMA OpenSessionStep ==
  ASSUME IInv, NEW r \in Requests, OpenSession(r)
  PROVE  IInv'
<1> DEFINE new == NewSession("row", request[r].user, None, request[r].credential)
<1>1. /\ UNCHANGED <<account, lastPassword, token, lock>> /\ Respond(r)
      /\ TypeOK /\ RequestOK(r) /\ request[r].pc = "open"
  BY DEF OpenSession, IInv, At
<1>2. PICK s \in Sessions : session[s] = NoSession /\ session' = [ session EXCEPT ![s] = new ]
  BY DEF OpenSession
<1>3. request[r].user \in Users /\ request[r].credential \in Nat /\ request[r].opened = None
  BY <1>1 DEF RequestOK, UserSteps, TypeOK, RequestRecords, Rotating
<1>4. /\ new \in SessionRows /\ new.state = "row" /\ new.user \in Users
      /\ new.parent = None /\ new.replacedBy = None
  BY <1>3, NewSessionShape
<1>5. /\ session' \in [Sessions -> SessionRows] /\ session'[s] = new
      /\ \A x \in Sessions \ {s} : session'[x] = session[x]
      /\ session[s].state = "free"
  BY <1>1, <1>2, <1>4, NoSessionShape DEF TypeOK
<1>6. TypeOK'
  BY <1>1, <1>5, RespondShape DEF TypeOK
<1>7. Frame(r)
  BY <1>1, <1>5, RespondShape, SameTokens DEF Frame, Issued, Exists
<1>8. ASSUME NEW x \in Sessions
      PROVE  RowOK(x)'
  <2>1. CASE x = s
    BY <1>4, <1>5, <2>1 DEF RowOK, Exists
  <2>2. CASE x # s
    <3>1. RowOK(x) /\ session'[x] = session[x]
      BY <1>5, <2>2 DEF IInv
    <3>2. session[x].parent # None => session'[session[x].parent] = session[session[x].parent]
      BY <1>1, <1>5, <3>1 DEF RowOK, Issued, TypeOK, SessionRows
    <3>3. Exists(x) /\ session[x].replacedBy # None =>
            session'[session[x].replacedBy] = session[session[x].replacedBy]
      BY <1>1, <1>5, <3>1 DEF RowOK, Exists, TypeOK, SessionRows
    <3>4. session[x].state = "pending" =>
            \E o \in Requests : Rotating(request'[o]) /\ request'[o].opened = x
      BY <1>1, <1>3, RespondShape, PendingKept, AuthSessionsAssumption
    <3> QED
      BY <3>1, <3>2, <3>3, <3>4 DEF RowOK, Issued, Exists, Live
  <2> QED
    BY <2>1, <2>2
<1> QED
  BY <1>1, <1>6, <1>7, <1>8, SameTokens, RespondShape, NoLocksHeld, FramedStep

\* What RotateInsert changes of its request.
LEMMA InsertShape ==
  ASSUME request \in [Requests -> RequestRecords], NEW r \in Requests, NEW s \in Sessions,
         NEW step \in Steps,
         request' = [ request EXCEPT ![r].pc = step, ![r].opened = s ]
  PROVE  /\ request' \in [Requests -> RequestRecords]
         /\ \A o \in Requests \ {r} : request'[o] = request[o]
         /\ request'[r].pc = step /\ request'[r].opened = s
         /\ request'[r].input = request[r].input /\ request'[r].user = request[r].user
BY DEF RequestRecords

LEMMA RotateInsertStep ==
  ASSUME IInv, NEW r \in Requests, RotateInsert(r)
  PROVE  IInv'
<1> DEFINE parent == In(r).subject
           new == NewSession("pending", request[r].user, parent, request[r].credential)
<1>1. /\ UNCHANGED <<account, lastPassword, token, lock>>
      /\ TypeOK /\ RequestOK(r) /\ request[r].pc = "rotateInsert"
  BY DEF RotateInsert, IInv, At
<1>2. PICK s \in Sessions :
        /\ session[s] = NoSession
        /\ session' = [ session EXCEPT ![s] = new ]
        /\ request' = [ request EXCEPT ![r].pc = "rotateUpdate", ![r].opened = s ]
  BY DEF RotateInsert
<1>3. /\ parent \in Sessions /\ Issued(parent) /\ request[r].user = session[parent].user
      /\ request[r].credential \in Nat /\ request[r].input \in Inputs /\ request[r].opened = None
  BY <1>1 DEF RequestOK, RefreshSteps, TypeOK, RequestRecords, In, Rotating
<1>4. request[r].user \in Users
  BY <1>3 DEF IInv, RowOK, Issued
<1>5. /\ new \in SessionRows /\ new.state = "pending" /\ new.user = request[r].user
      /\ new.parent = parent /\ new.replacedBy = None /\ ~new.revoked
  BY <1>3, <1>4, NewSessionShape
<1>6. /\ session' \in [Sessions -> SessionRows] /\ session'[s] = new
      /\ \A x \in Sessions \ {s} : session'[x] = session[x]
      /\ session[s].state = "free"
  BY <1>1, <1>2, <1>5, NoSessionShape DEF TypeOK
<1>7. /\ request' \in [Requests -> RequestRecords]
      /\ \A o \in Requests \ {r} : request'[o] = request[o]
      /\ request'[r].pc = "rotateUpdate" /\ request'[r].opened = s
      /\ request'[r].input = request[r].input /\ request'[r].user = request[r].user
  BY <1>1, <1>2, InsertShape DEF TypeOK, Steps
<1>8. TypeOK'
  BY <1>1, <1>6, <1>7 DEF TypeOK
<1>9. Frame(r)
  BY <1>1, <1>6, <1>7, SameTokens DEF Frame, Issued, Exists
<1>10. ASSUME NEW x \in Sessions
       PROVE  RowOK(x)'
  <2>1. CASE x = s
    <3>1. Rotating(request'[r]) /\ request'[r].opened = s
      BY <1>7 DEF Rotating
    <3>2. session'[parent].state \in {"row", "gone"}
      BY <1>3, <1>6 DEF Issued
    <3> HIDE DEF new, parent
    <3> QED
      BY <1>4, <1>5, <1>6, <2>1, <3>1, <3>2 DEF RowOK, Exists, Issued
  <2>2. CASE x # s
    <3>1. RowOK(x) /\ session'[x] = session[x]
      BY <1>6, <2>2 DEF IInv
    <3>2. session[x].parent # None => session'[session[x].parent] = session[session[x].parent]
      BY <1>1, <1>6, <3>1 DEF RowOK, Issued, TypeOK, SessionRows
    <3>3. Exists(x) /\ session[x].replacedBy # None =>
            session'[session[x].replacedBy] = session[session[x].replacedBy]
      BY <1>1, <1>6, <3>1 DEF RowOK, Exists, TypeOK, SessionRows
    <3>4. session[x].state = "pending" =>
            \E o \in Requests : Rotating(request'[o]) /\ request'[o].opened = x
      BY <1>3, <1>7, PendingKept, AuthSessionsAssumption
    <3> QED
      BY <3>1, <3>2, <3>3, <3>4 DEF RowOK, Issued, Exists, Live
  <2> QED
    BY <2>1, <2>2
<1>11. \A o \in Requests \ {r} : request'[o].opened # s
  <2> SUFFICES ASSUME NEW o \in Requests \ {r}, request[o].opened = s
               PROVE  FALSE
    BY <1>7
  <2>1. RequestOK(o) /\ s # None
    BY AuthSessionsAssumption DEF IInv
  <2> QED
    BY <1>6, <2>1 DEF RequestOK
<1>12. RequestOK(r)'
  <2>1. parent = request'[r].input.subject /\ session'[parent] = session[parent]
    BY <1>3, <1>6, <1>7 DEF In, Issued
  <2> HIDE DEF new, parent
  <2> QED
    BY <1>3, <1>5, <1>6, <1>7, <1>11, <2>1, AuthSessionsAssumption
       DEF RequestOK, Rotating, Issued, RefreshSteps, LogoutSteps, PasswordSteps, UserSteps
<1> QED
  BY <1>1, <1>8, <1>9, <1>10, <1>12, SameTokens, NoLocksHeld, FramedStep

\* A rollback takes back what the request has inserted and locked, no more.
LEMMA RollBackStep ==
  ASSUME IInv, NEW r \in Requests, RollBack(r), Respond(r),
         UNCHANGED <<account, lastPassword, token>>
  PROVE  IInv'
<1> DEFINE opened == request[r].opened
<1>1. /\ TypeOK /\ RequestOK(r)
      /\ session' = [ s \in Sessions |-> IF s = opened THEN NoSession ELSE session[s] ]
      /\ lock' = [ row \in DOMAIN lock |-> IF lock[row] = r THEN None ELSE lock[row] ]
  BY DEF RollBack, IInv
<1>2. opened \in Sessions => session[opened].state = "pending"
  BY <1>1, AuthSessionsAssumption DEF RequestOK
<1>3. /\ session' \in [Sessions -> SessionRows]
      /\ \A s \in Sessions : s # opened => session'[s] = session[s]
      /\ \A s \in Sessions : s = opened => session'[s] = NoSession
  BY <1>1, NoSessionShape DEF TypeOK
<1>4. /\ lock' \in [Users \cup Sessions -> Requests \cup {None}]
      /\ \A row \in Users \cup Sessions : lock'[row] # r
      /\ \A row \in Users \cup Sessions, o \in Requests \ {r} : lock'[row] = o <=> lock[row] = o
  <2>1. r # None /\ \A o \in Requests : o # None
    BY AuthSessionsAssumption
  <2> QED
    BY <1>1, <2>1 DEF TypeOK
<1>5. TypeOK'
  BY <1>1, <1>3, <1>4, RespondShape DEF TypeOK
<1>6. Frame(r)
  <2>1. ASSUME NEW s \in Sessions
        PROVE  /\ Issued(s) => Issued(s)' /\ session'[s].user = session[s].user
               /\ session[s].state = "gone" => session'[s].state = "gone"
               /\ Exists(s) => Exists(s)' \/ lock[s] = r
               /\ session[s].state = "pending" /\ s # request[r].opened => session'[s] = session[s]
    BY <1>2, <1>3 DEF Issued, Exists
  <2> QED
    BY <1>1, <1>4, <2>1, RespondShape, SameTokens DEF Frame
<1>7. ASSUME NEW x \in Sessions
      PROVE  RowOK(x)'
  <2>1. CASE x = opened
    BY <1>3, <2>1, NoSessionShape DEF RowOK, Exists
  <2>2. CASE x # opened
    <3>1. RowOK(x) /\ session'[x] = session[x]
      BY <1>3, <2>2 DEF IInv
    <3>2. session[x].parent # None => session'[session[x].parent] = session[session[x].parent]
      BY <1>1, <1>2, <1>3, <3>1 DEF RowOK, Issued, TypeOK, SessionRows
    <3>3. Exists(x) /\ session[x].replacedBy # None =>
            session'[session[x].replacedBy] = session[session[x].replacedBy]
      BY <1>1, <1>2, <1>3, <3>1 DEF RowOK, Exists, TypeOK, SessionRows
    <3>4. session[x].state = "pending" =>
            \E o \in Requests : Rotating(request'[o]) /\ request'[o].opened = x
      BY <1>1, <2>2, RespondShape, PendingKept
    <3> QED
      BY <3>1, <3>2, <3>3, <3>4 DEF RowOK, Issued, Exists, Live
  <2> QED
    BY <2>1, <2>2
<1> QED
  BY <1>1, <1>4, <1>5, <1>6, <1>7, SameTokens, RespondShape, FramedStep

\* A step that leaves every session row as it is.
LEMMA RowsKept ==
  ASSUME IInv, NEW r \in Requests, session' = session,
         \A o \in Requests \ {r} : request'[o] = request[o],
         request'[r].opened = request[r].opened,
         Rotating(request[r]) => Rotating(request'[r])
  PROVE  \A s \in Sessions : RowOK(s)'
<1> TAKE s \in Sessions
<1>1. RowOK(s)
  BY DEF IInv
<1>2. session[s].state = "pending" =>
        \E o \in Requests : Rotating(request'[o]) /\ request'[o].opened = s
  BY <1>1 DEF RowOK
<1> QED
  BY <1>1, <1>2 DEF RowOK, Issued, Exists, Live

LEMMA RotateUpdateStep ==
  ASSUME IInv, NEW r \in Requests, RotateUpdate(r)
  PROVE  IInv'
<1> DEFINE s == In(r).subject
<1>1. /\ UNCHANGED <<account, lastPassword, token>> /\ lock[s] = None
      /\ TypeOK /\ RequestOK(r) /\ request[r].pc = "rotateUpdate"
  BY DEF RotateUpdate, IInv, At
<1>2. s \in Sessions /\ s \notin Users
  BY <1>1, AuthSessionsAssumption DEF RequestOK, RefreshSteps, In
<1>3. CASE Exists(s)
  <2>1. lock' = [ lock EXCEPT ![s] = r ] /\ Advance(r, "rotateCommit") /\ session' = session
    BY <1>3 DEF RotateUpdate
  <2>2. /\ request' \in [Requests -> RequestRecords]
        /\ \A o \in Requests \ {r} : request'[o] = request[o]
        /\ request'[r].pc = "rotateCommit" /\ request'[r].opened = request[r].opened
        /\ request'[r].input = request[r].input /\ request'[r].user = request[r].user
    BY <1>1, <2>1, AdvanceShape DEF Steps
  <2>3. /\ lock' \in [Users \cup Sessions -> Requests \cup {None}] /\ lock'[s] = r
        /\ \A row \in Users \cup Sessions : row # s => lock'[row] = lock[row]
    BY <1>1, <1>2, <2>1 DEF TypeOK
  <2>4. TypeOK'
    BY <1>1, <2>1, <2>2, <2>3 DEF TypeOK
  <2>5. Frame(r)
    BY <1>1, <2>1, <2>2, <2>3, AuthSessionsAssumption, SameTokens DEF Frame, Issued, Exists
  <2>6. \A x \in Sessions : RowOK(x)'
    BY <1>1, <2>1, <2>2, RowsKept DEF Rotating
  <2>7. s = request'[r].input.subject
    BY <2>2 DEF In
  <2>8. RequestOK(r)'
    <3>1. request[r].input \in Inputs /\ Issued(s) /\ request[r].user = session[s].user
      BY <1>1, <1>2, AuthSessionsAssumption DEF RequestOK, RefreshSteps, In
    <3>2. /\ request[r].opened \in Sessions
          /\ session[request[r].opened].state = "pending"
          /\ session[request[r].opened].parent = s
          /\ session[request[r].opened].user = request[r].user
          /\ \A o \in Requests \ {r} : request[o].opened # request[r].opened
      BY <1>1 DEF RequestOK, Rotating, In
    <3>3. s # None
      BY <1>2, AuthSessionsAssumption
    <3> HIDE DEF s
    <3> QED
      BY <1>2, <1>3, <2>1, <2>2, <2>3, <2>7, <3>1, <3>2, <3>3
         DEF RequestOK, Rotating, Issued, Exists, RefreshSteps, LogoutSteps, PasswordSteps, UserSteps
  <2>9. ASSUME NEW row \in Users \cup Sessions, lock'[row] = r
        PROVE  LockOK(row)'
    <3>1. row = s
      BY <1>1, <2>3, <2>9, NoLocksHeld
    <3> QED
      BY <1>2, <2>2, <2>7, <2>9, <3>1 DEF LockOK
  <2> QED
    BY <1>1, <2>4, <2>5, <2>6, <2>8, <2>9, SameTokens, FramedStep
<1>4. CASE ~Exists(s)
  BY <1>1, <1>4, RollBackStep DEF RotateUpdate
<1> QED
  BY <1>3, <1>4

LEMMA AbortStep ==
  ASSUME IInv, NEW r \in Requests, Abort(r)
  PROVE  IInv'
BY RollBackStep DEF Abort

LEMMA RotateCommitStep ==
  ASSUME IInv, NEW r \in Requests, RotateCommit(r)
  PROVE  IInv'
<1> DEFINE s == In(r).subject
           successor == request[r].opened
<1>1. /\ UNCHANGED <<account, lastPassword, token>> /\ Respond(r)
      /\ session' = [ session EXCEPT ![s].revoked = TRUE, ![s].replacedBy = successor,
                                     ![successor].state = "row" ]
      /\ lock' = [ lock EXCEPT ![s] = None ]
      /\ TypeOK /\ RequestOK(r) /\ request[r].pc = "rotateCommit"
  BY DEF RotateCommit, IInv, At
<1>2. /\ s \in Sessions /\ Exists(s) /\ lock[s] = r /\ s # None /\ s \notin Users
      /\ successor \in Sessions /\ session[successor].state = "pending"
      /\ session[successor].parent = s
  BY <1>1, AuthSessionsAssumption DEF RequestOK, RefreshSteps, Rotating, In
<1>3. RowOK(s) /\ RowOK(successor) /\ successor # s /\ successor # None
  BY <1>2, AuthSessionsAssumption DEF IInv, Exists
<1>4. session' \in [Sessions -> SessionRows]
  <2> DEFINE first  == [ session EXCEPT ![s].revoked = TRUE ]
             second == [ first EXCEPT ![s].replacedBy = successor ]
  <2>1. first \in [Sessions -> SessionRows]
    BY <1>1, <1>2 DEF TypeOK, SessionRows
  <2> HIDE DEF s, successor
  <2>2. session' = [ second EXCEPT ![successor].state = "row" ]
    BY <1>1
  <2> HIDE DEF first
  <2>3. second \in [Sessions -> SessionRows]
    BY <1>2, <2>1 DEF SessionRows
  <2> HIDE DEF second
  <2> QED
    BY <1>2, <2>2, <2>3 DEF SessionRows
<1>5. \A x \in Sessions :
        /\ session'[x].user = session[x].user /\ session'[x].parent = session[x].parent
        /\ x # successor => session'[x].state = session[x].state
        /\ x # s => session'[x].replacedBy = session[x].replacedBy
        /\ x # s => session'[x].revoked = session[x].revoked
        /\ x \notin {s, successor} => session'[x] = session[x]
  BY <1>1, <1>2, <1>3 DEF TypeOK, SessionRows
<1>6. /\ session'[s].state = "row" /\ session'[s].revoked /\ session'[s].replacedBy = successor
      /\ session'[successor].state = "row" /\ session'[successor].replacedBy = None
  <2>1. session[successor].replacedBy = None /\ session[s].state = "row"
    BY <1>2, <1>3 DEF RowOK, Exists
  <2> QED
    BY <1>1, <1>2, <1>3, <2>1 DEF TypeOK, SessionRows
<1>7. /\ lock' \in [Users \cup Sessions -> Requests \cup {None}]
      /\ lock'[s] = None
      /\ \A row \in Users \cup Sessions : row # s => lock'[row] = lock[row]
  BY <1>1, <1>2 DEF TypeOK
<1>8. TypeOK'
  BY <1>1, <1>4, <1>7, RespondShape DEF TypeOK
<1>9. Frame(r)
  <2>1. ASSUME NEW x \in Sessions
        PROVE  /\ Issued(x) => Issued(x)' /\ session'[x].user = session[x].user
               /\ session[x].state = "gone" => session'[x].state = "gone"
               /\ Exists(x) => Exists(x)' \/ lock[x] = r
               /\ session[x].state = "pending" /\ x # successor => session'[x] = session[x]
    BY <1>2, <1>5, <1>6 DEF Issued, Exists
  <2>2. \A row \in Users \cup Sessions, o \in Requests \ {r} : lock'[row] = o <=> lock[row] = o
    BY <1>2, <1>7, AuthSessionsAssumption
  <2> QED
    BY <1>1, <2>1, <2>2, RespondShape, SameTokens DEF Frame
<1>10. ASSUME NEW x \in Sessions
       PROVE  RowOK(x)'
  <2>0. RowOK(x)
    BY DEF IInv
  <2>1. session[x].parent # None =>
          /\ session[x].parent \in Sessions \ {successor}
          /\ session[session[x].parent].state \in {"row", "gone"}
    BY <1>1, <1>2, <2>0 DEF RowOK, Issued, TypeOK, SessionRows
  <2>2. Exists(x) /\ session[x].replacedBy # None =>
          session[x].replacedBy \in Sessions \ {successor}
    BY <1>1, <1>2, <2>0 DEF RowOK, Exists, TypeOK, SessionRows
  <2>3. session[x].state = "pending" /\ x # successor =>
          \E o \in Requests : Rotating(request'[o]) /\ request'[o].opened = x
    BY <1>1, RespondShape, PendingKept
  <2>4. session[x].state # "free" /\ x \in {s, successor} => session[x].user \in Users
    BY <2>0 DEF RowOK
  <2>5. session[x].parent # None => session[x].parent # successor
    BY <2>1
  <2> HIDE DEF s, successor
  <2>6. CASE x = s
    BY <1>2, <1>5, <1>6, <2>0, <2>1, <2>4, <2>6 DEF RowOK, Issued, Exists, Live
  <2>7. CASE x = successor
    BY <1>2, <1>5, <1>6, <2>0, <2>1, <2>4, <2>7 DEF RowOK, Issued, Exists, Live
  <2>8. CASE x \notin {s, successor}
    <3>1. session'[x] = session[x]
      BY <1>5, <2>8
    <3>2. session[x].parent # None =>
            /\ session'[session[x].parent].state = session[session[x].parent].state
            /\ session[session[x].parent].revoked => session'[session[x].parent].revoked
      BY <1>5, <1>6, <2>1
    <3>3. Exists(x) /\ session[x].replacedBy # None =>
            /\ session'[session[x].replacedBy].state = session[session[x].replacedBy].state
            /\ session'[session[x].replacedBy].parent = session[session[x].replacedBy].parent
      BY <1>5, <2>2
    <3> QED
      BY <2>0, <2>3, <2>8, <3>1, <3>2, <3>3 DEF RowOK, Issued, Exists, Live
  <2> QED
    BY <2>6, <2>7, <2>8
<1>11. \A row \in Users \cup Sessions : lock'[row] # r
  <2> SUFFICES ASSUME NEW row \in Users \cup Sessions, row # s, lock[row] = r
               PROVE  FALSE
    BY <1>7, AuthSessionsAssumption
  <2>1. LockOK(row) /\ r # None
    BY AuthSessionsAssumption DEF IInv
  <2> QED
    BY <1>1, <2>1 DEF LockOK, In
<1> QED
  BY <1>1, <1>8, <1>9, <1>10, <1>11, SameTokens, RespondShape, FramedStep

LEMMA RevokeStep ==
  ASSUME IInv, NEW r \in Requests, Revoke(r)
  PROVE  IInv'
<1> DEFINE s == In(r).subject
<1>1. /\ UNCHANGED <<account, lastPassword, token, lock>> /\ Respond(r)
      /\ TypeOK /\ RequestOK(r) /\ request[r].pc = "revoke"
  BY DEF Revoke, IInv, At
<1>2. ~Rotating(request[r]) /\ request[r].pc \notin {"rotateCommit", "delete", "lockRows"}
  BY <1>1 DEF Rotating
<1>3. CASE session' = session
  BY <1>1, <1>2, <1>3, SameTokens, QuietRespond DEF TypeOK
<1>4. CASE session' # session
  <2>1. Exists(s) /\ session' = [ session EXCEPT ![s].revoked = TRUE ]
    BY <1>4 DEF Revoke
  <2>2. s \in Sessions
    BY <1>1 DEF RequestOK, LogoutSteps, In
  <2>3. session' \in [Sessions -> SessionRows]
    BY <1>1, <2>1, <2>2 DEF TypeOK, SessionRows
  <2>4. \A x \in Sessions :
          /\ session'[x].state = session[x].state /\ session'[x].user = session[x].user
          /\ session'[x].parent = session[x].parent
          /\ session'[x].replacedBy = session[x].replacedBy
          /\ session[x].revoked => session'[x].revoked
          /\ x # s => session'[x] = session[x]
    BY <1>1, <2>1, <2>2 DEF TypeOK, SessionRows
  <2>5. TypeOK'
    BY <1>1, <2>3, RespondShape DEF TypeOK
  <2>6. Frame(r)
    BY <1>1, <2>1, <2>4, RespondShape, SameTokens DEF Frame, Issued, Exists
  <2>7. ASSUME NEW x \in Sessions
        PROVE  RowOK(x)'
    <3>1. RowOK(x)
      BY DEF IInv
    <3>2. session[x].parent # None => session[x].parent \in Sessions
      BY <1>1 DEF TypeOK, SessionRows
    <3>3. session[x].replacedBy # None => session[x].replacedBy \in Sessions
      BY <1>1 DEF TypeOK, SessionRows
    <3>4. session[x].state = "pending" =>
            \E o \in Requests : Rotating(request'[o]) /\ request'[o].opened = x
      <4>1. request[r].opened = None /\ x # None
        BY <1>1, <1>2, AuthSessionsAssumption DEF RequestOK
      <4> QED
        BY <1>1, <4>1, RespondShape, PendingKept
    <3>5. session[x].state \in {"free", "pending"} => session'[x] = session[x]
      BY <2>1, <2>4 DEF Exists
    <3> HIDE DEF s
    <3> QED
      BY <2>4, <3>1, <3>2, <3>3, <3>4, <3>5 DEF RowOK, Issued, Exists, Live
  <2> QED
    BY <1>1, <1>2, <2>5, <2>6, <2>7, SameTokens, RespondShape, NoLocksHeld, FramedStep
<1> QED
  BY <1>3, <1>4

LEMMA SetPasswordStep ==
  ASSUME IInv, NEW r \in Requests, SetPassword(r)
  PROVE  IInv'
<1> DEFINE u == request[r].user
<1>1. /\ UNCHANGED <<account, lastPassword, session, token>> /\ lock[u] = None
      /\ lock' = [ lock EXCEPT ![u] = r ] /\ Advance(r, "delete")
      /\ TypeOK /\ RequestOK(r) /\ request[r].pc = "setPassword"
  BY DEF SetPassword, IInv, At
<1>2. u \in Users /\ u \notin Sessions
  BY <1>1, AuthSessionsAssumption DEF RequestOK, PasswordSteps
<1>3. /\ request' \in [Requests -> RequestRecords]
      /\ \A o \in Requests \ {r} : request'[o] = request[o]
      /\ request'[r].pc = "delete" /\ request'[r].opened = request[r].opened
      /\ request'[r].input = request[r].input /\ request'[r].user = request[r].user
      /\ request'[r].earlier = request[r].earlier
  BY <1>1, AdvanceShape DEF Steps
<1>4. /\ lock' \in [Users \cup Sessions -> Requests \cup {None}] /\ lock'[u] = r
      /\ \A row \in Users \cup Sessions : row # u => lock'[row] = lock[row]
  BY <1>1, <1>2 DEF TypeOK
<1>5. TypeOK'
  BY <1>1, <1>3, <1>4 DEF TypeOK
<1>6. Frame(r)
  BY <1>1, <1>3, <1>4, AuthSessionsAssumption, SameTokens DEF Frame, Issued, Exists
<1>7. \A s \in Sessions : RowOK(s)'
  BY <1>1, <1>3, RowsKept DEF Rotating
<1>8. RequestOK(r)'
  BY <1>1, <1>2, <1>3, <1>4
     DEF RequestOK, Rotating, Issued, RefreshSteps, LogoutSteps, PasswordSteps, UserSteps
<1>9. ASSUME NEW row \in Users \cup Sessions, lock'[row] = r
      PROVE  LockOK(row)'
  <2>1. row = u
    BY <1>1, <1>4, <1>9, NoLocksHeld
  <2> QED
    BY <1>2, <1>3, <1>9, <2>1 DEF LockOK
<1> QED
  BY <1>1, <1>5, <1>6, <1>7, <1>8, <1>9, SameTokens, FramedStep

\* What DeleteSessions changes of its request.
LEMMA DoomShape ==
  ASSUME request \in [Requests -> RequestRecords], NEW r \in Requests,
         NEW step \in Steps, NEW doomed \in SUBSET Sessions,
         request' = [ request EXCEPT ![r].pc = step, ![r].doomed = doomed ]
  PROVE  /\ request' \in [Requests -> RequestRecords]
         /\ \A o \in Requests \ {r} : request'[o] = request[o]
         /\ request'[r].pc = step /\ request'[r].doomed = doomed
         /\ request'[r].input = request[r].input /\ request'[r].user = request[r].user
         /\ request'[r].opened = request[r].opened
         /\ request'[r].earlier = request[r].earlier
BY DEF RequestRecords

LEMMA DeleteSessionsStep ==
  ASSUME IInv, NEW r \in Requests, DeleteSessions(r)
  PROVE  IInv'
<1> DEFINE u == request[r].user
<1>1. /\ UNCHANGED <<account, lastPassword, session, token, lock>>
      /\ request' = [ request EXCEPT ![r].pc = "lockRows", ![r].doomed = SessionsOf(u) ]
      /\ TypeOK /\ RequestOK(r) /\ request[r].pc = "delete"
  BY DEF DeleteSessions, IInv, At
<1>2. /\ u \in Users /\ u \notin Sessions
      /\ SessionsOf(u) \subseteq Sessions
      /\ \A d \in SessionsOf(u) : Issued(d) /\ session[d].user = u
      /\ \A s \in Sessions : session[s].state = "row" /\ session[s].user = u => s \in SessionsOf(u)
  BY <1>1, AuthSessionsAssumption DEF RequestOK, PasswordSteps, SessionsOf, Issued, Exists
<1>3. /\ request' \in [Requests -> RequestRecords]
      /\ \A o \in Requests \ {r} : request'[o] = request[o]
      /\ request'[r].pc = "lockRows" /\ request'[r].doomed = SessionsOf(u)
      /\ request'[r].input = request[r].input /\ request'[r].user = u
      /\ request'[r].opened = request[r].opened /\ request'[r].earlier = request[r].earlier
  <2>1. "lockRows" \in Steps /\ SessionsOf(u) \in SUBSET Sessions
    BY <1>2 DEF Steps
  <2> QED
    BY <1>1, <2>1, DoomShape DEF TypeOK
<1>4. TypeOK'
  BY <1>1, <1>3 DEF TypeOK
<1>5. Frame(r)
  BY <1>1, <1>3, SameTokens DEF Frame, Issued, Exists
<1>6. \A s \in Sessions : RowOK(s)'
  BY <1>1, <1>3, RowsKept DEF Rotating
<1>7. \A e \in request[r].earlier :
        e \in Sessions /\ Issued(e) /\ session[e].user = u
  BY <1>1 DEF RequestOK, PasswordSteps, TypeOK, RequestRecords
<1>8. RequestOK(r)'
  BY <1>1, <1>2, <1>3, <1>7
     DEF RequestOK, Rotating, Issued, RefreshSteps, LogoutSteps, PasswordSteps, UserSteps
<1>9. ASSUME NEW row \in Users \cup Sessions, lock'[row] = r
      PROVE  LockOK(row)'
  <2>1. LockOK(row) /\ lock[row] = r /\ r # None
    BY <1>1, <1>9, AuthSessionsAssumption DEF IInv
  <2>2. row \in Users /\ row \notin Sessions /\ row = u
    BY <1>1, <2>1, AuthSessionsAssumption DEF LockOK
  <2> QED
    BY <1>3, <1>9, <2>2 DEF LockOK
<1> QED
  BY <1>1, <1>4, <1>5, <1>6, <1>8, <1>9, SameTokens, FramedStep

LEMMA LockSessionStep ==
  ASSUME IInv, NEW r \in Requests, LockSession(r)
  PROVE  IInv'
<1>1. /\ UNCHANGED <<account, lastPassword, session, token, request>>
      /\ TypeOK /\ RequestOK(r) /\ request[r].pc = "lockRows"
  BY DEF LockSession, IInv, At
<1>2. PICK s \in request[r].doomed : lock[s] = None /\ lock' = [ lock EXCEPT ![s] = r ]
  BY DEF LockSession
<1>3. s \in Sessions /\ s \notin Users
  BY <1>1, AuthSessionsAssumption DEF TypeOK, RequestRecords
<1>4. /\ lock' \in [Users \cup Sessions -> Requests \cup {None}] /\ lock'[s] = r
      /\ \A row \in Users \cup Sessions : row # s => lock'[row] = lock[row]
  BY <1>1, <1>2, <1>3 DEF TypeOK
<1>5. TypeOK'
  BY <1>1, <1>4 DEF TypeOK
<1>6. Frame(r)
  BY <1>1, <1>2, <1>4, AuthSessionsAssumption, SameTokens DEF Frame, Issued, Exists
<1>7. \A x \in Sessions : RowOK(x)'
  BY <1>1, RowsKept
<1>8. RequestOK(r)'
  <2>1. request[r].user \in Users /\ lock[request[r].user] = r /\ request[r].user # s
    BY <1>1, <1>3 DEF RequestOK, PasswordSteps
  <2> QED
    BY <1>1, <1>4, <2>1 DEF RequestOK, Rotating, Issued, Exists
<1>9. ASSUME NEW row \in Users \cup Sessions, lock'[row] = r
      PROVE  LockOK(row)'
  <2>1. CASE row = s
    BY <1>1, <1>2, <1>3, <1>9, <2>1 DEF LockOK
  <2>2. CASE row # s
    <3>1. LockOK(row) /\ lock[row] = r
      BY <1>4, <1>9, <2>2 DEF IInv
    <3> QED
      BY <1>1, <1>9, <3>1 DEF LockOK
  <2> QED
    BY <2>1, <2>2
<1> QED
  BY <1>1, <1>5, <1>6, <1>7, <1>8, <1>9, SameTokens, FramedStep

\* A DELETE changes nothing of the rows but their state and what named a row
\* that is gone.
LEMMA DeletedShape ==
  ASSUME session \in [Sessions -> SessionRows], NEW doomed \in SUBSET Sessions,
         None \notin Sessions
  PROVE  /\ Deleted(doomed) \in [Sessions -> SessionRows]
         /\ \A s \in Sessions :
              LET row == Deleted(doomed)[s]
              IN  /\ row.user = session[s].user /\ row.parent = session[s].parent
                  /\ row.revoked = session[s].revoked
                  /\ row.credential = session[s].credential
                  /\ s \in doomed => row.state = "gone"
                  /\ s \notin doomed => /\ row.state = session[s].state
                                        /\ row.replacedBy \in {None, session[s].replacedBy}
                                        /\ row.replacedBy \notin doomed
                  /\ s \notin doomed /\ session[s].replacedBy = None => row = session[s]
<1>1. ASSUME NEW s \in Sessions
      PROVE  LET row == Deleted(doomed)[s]
             IN  /\ row \in SessionRows
                 /\ row.user = session[s].user /\ row.parent = session[s].parent
                 /\ row.revoked = session[s].revoked
                 /\ row.credential = session[s].credential
                 /\ s \in doomed => row.state = "gone"
                 /\ s \notin doomed => /\ row.state = session[s].state
                                       /\ row.replacedBy \in {None, session[s].replacedBy}
                                       /\ row.replacedBy \notin doomed
                 /\ s \notin doomed /\ session[s].replacedBy = None => row = session[s]
  <2>1. session[s] \in SessionRows
    OBVIOUS
  <2>2. Deleted(doomed)[s] =
          IF s \in doomed THEN [session[s] EXCEPT !.state = "gone"]
          ELSE IF session[s].replacedBy \in doomed
                 THEN [session[s] EXCEPT !.replacedBy = None]
                 ELSE session[s]
    BY DEF Deleted
  <2>3. CASE s \in doomed
    BY <2>1, <2>2, <2>3 DEF SessionRows
  <2>4. CASE s \notin doomed /\ session[s].replacedBy \in doomed
    BY <2>1, <2>2, <2>4 DEF SessionRows
  <2>5. CASE s \notin doomed /\ session[s].replacedBy \notin doomed
    BY <2>1, <2>2, <2>5
  <2> QED
    BY <2>3, <2>4, <2>5
<1>2. Deleted(doomed) = [ s \in Sessions |-> Deleted(doomed)[s] ]
  BY DEF Deleted
<1>3. \A s \in Sessions : Deleted(doomed)[s] \in SessionRows
  BY <1>1
<1>4. Deleted(doomed) \in [Sessions -> SessionRows]
  BY <1>2, <1>3
<1> QED
  BY <1>1, <1>4

LEMMA CommitPasswordStep ==
  ASSUME IInv, NEW r \in Requests, CommitPassword(r)
  PROVE  IInv'
<1> DEFINE u == request[r].user
           doomed == request[r].doomed
<1>1. /\ account' = [ account EXCEPT ![u].password = lastPassword + 1 ]
      /\ lastPassword' = lastPassword + 1
      /\ session' = Deleted(doomed) /\ \A s \in doomed : lock[s] = r
      /\ lock' = [ row \in DOMAIN lock |-> IF lock[row] = r THEN None ELSE lock[row] ]
      /\ Respond(r)
      /\ TypeOK /\ RequestOK(r) /\ request[r].pc = "lockRows"
  BY DEF CommitPassword, IInv, At
<1>2. /\ u \in Users /\ doomed \subseteq Sessions /\ request[r].opened = None
      /\ \A d \in doomed : Issued(d)
  BY <1>1 DEF RequestOK, PasswordSteps, TypeOK, RequestRecords, Rotating
<1>3. account' \in [Users -> AccountRows] /\ lastPassword' \in Nat
  BY <1>1, <1>2 DEF TypeOK, AccountRows
<1>4. token' \in [Tokens -> TokenRows] /\ TokensKept /\ \A t \in Tokens : TokenOK(t)'
  <2>1. CASE token' = token
    BY <2>1, SameTokens
  <2>2. CASE token' # token
    <3> DEFINE t == In(r).subject
    <3>1. In(r).op = "reset" /\ token' = [ token EXCEPT ![t].uses = @ + 1 ] /\ t \in Tokens
      BY <1>1, <2>2 DEF CommitPassword, RequestOK, PasswordSteps, In
    <3>2. token' \in [Tokens -> TokenRows]
      BY <1>1, <3>1 DEF TypeOK, TokenRows
    <3>3. \A x \in Tokens : token'[x].user = token[x].user
      BY <1>1, <3>1 DEF TypeOK, TokenRows
    <3>4. token[t].user \in Users
      BY <1>1, <1>2, <3>1 DEF RequestOK, PasswordSteps, In
    <3>5. \A x \in Tokens : x # t => token'[x] = token[x]
      BY <1>1, <3>1 DEF TypeOK
    <3> QED
      BY <3>2, <3>3, <3>4, <3>5 DEF TokenOK, TokensKept, IInv
  <2> QED
    BY <2>1, <2>2
<1>5. /\ session' \in [Sessions -> SessionRows]
      /\ \A s \in Sessions :
           /\ session'[s].user = session[s].user /\ session'[s].parent = session[s].parent
           /\ session'[s].revoked = session[s].revoked
           /\ s \in doomed => session'[s].state = "gone"
           /\ s \notin doomed => /\ session'[s].state = session[s].state
                                 /\ session'[s].replacedBy \in {None, session[s].replacedBy}
                                 /\ session'[s].replacedBy \notin doomed
           /\ s \notin doomed /\ session[s].replacedBy = None => session'[s] = session[s]
  BY <1>1, <1>2, DeletedShape, AuthSessionsAssumption DEF TypeOK
<1>6. /\ lock' \in [Users \cup Sessions -> Requests \cup {None}]
      /\ \A row \in Users \cup Sessions : lock'[row] # r
      /\ \A row \in Users \cup Sessions, o \in Requests \ {r} : lock'[row] = o <=> lock[row] = o
  <2>1. r # None /\ \A o \in Requests : o # None
    BY AuthSessionsAssumption
  <2> QED
    BY <1>1, <2>1 DEF TypeOK
<1>7. TypeOK'
  BY <1>1, <1>3, <1>4, <1>5, <1>6, RespondShape DEF TypeOK
<1>8. \A s \in Sessions : session[s].state = "pending" => session'[s] = session[s]
  BY <1>2, <1>5 DEF IInv, RowOK, Issued
<1>9. Frame(r)
  <2>1. ASSUME NEW s \in Sessions
        PROVE  /\ Issued(s) => Issued(s)' /\ session'[s].user = session[s].user
               /\ session[s].state = "gone" => session'[s].state = "gone"
               /\ Exists(s) => Exists(s)' \/ lock[s] = r
    BY <1>1, <1>5 DEF Issued, Exists
  <2> QED
    BY <1>1, <1>4, <1>6, <1>8, <2>1, RespondShape DEF Frame
<1>10. ASSUME NEW x \in Sessions
       PROVE  RowOK(x)'
  <2>0. RowOK(x) /\ session[x] \in SessionRows
    BY <1>1 DEF IInv, TypeOK
  <2>1. session[x].parent # None =>
          /\ session[x].parent \in Sessions
          /\ session'[session[x].parent].state \in {"row", "gone"}
          /\ session'[session[x].parent].state = "row" => session[session[x].parent].state = "row"
    BY <1>5, <2>0 DEF RowOK, Issued, SessionRows
  <2>2. session[x].state = "pending" =>
          \E o \in Requests : Rotating(request'[o]) /\ request'[o].opened = x
    BY <1>1, <1>2, RespondShape, PendingKept, AuthSessionsAssumption
  <2>3. x \in doomed => session[x].user \in Users
    BY <1>2, <2>0 DEF RowOK, Issued
  <2>4. x \notin doomed /\ session[x].state = "row" /\ session'[x].replacedBy # None =>
          /\ session'[x].replacedBy = session[x].replacedBy
          /\ session[x].replacedBy \in Sessions \ doomed
    BY <1>5, <2>0 DEF SessionRows
  <2>5. session[x].state = "free" => session'[x] = session[x]
    BY <1>2, <1>5, <2>0 DEF RowOK, Issued, NoSession
  <2> HIDE DEF doomed
  <2>6. CASE x \in doomed
    BY <1>5, <2>0, <2>1, <2>3, <2>6 DEF RowOK, Issued, Exists, Live
  <2>7. CASE x \notin doomed
    BY <1>5, <1>8, <2>0, <2>1, <2>2, <2>4, <2>5, <2>7 DEF RowOK, Issued, Exists, Live
  <2> QED
    BY <2>6, <2>7
<1> QED
  BY <1>1, <1>4, <1>6, <1>7, <1>9, <1>10, RespondShape, FramedStep

LEMMA EnvironmentStep ==
  ASSUME IInv, Environment
  PROVE  IInv'
<1>1. /\ TypeOK /\ UNCHANGED <<lastPassword, lock, request>>
      /\ \A r \in Requests : RequestOK(r)
      /\ \A row \in Users \cup Sessions : LockOK(row)
  BY DEF Environment, SetActive, Expire, ExpireToken, IInv
<1>2. /\ account' \in [Users -> AccountRows]
      /\ session' \in [Sessions -> SessionRows]
      /\ token' \in [Tokens -> TokenRows]
      /\ \A s \in Sessions :
           /\ session'[s].state = session[s].state /\ session'[s].user = session[s].user
           /\ session'[s].parent = session[s].parent
           /\ session'[s].replacedBy = session[s].replacedBy
           /\ session'[s].revoked = session[s].revoked
           /\ session[s].state = "free" => session'[s] = session[s]
      /\ \A t \in Tokens :
           /\ token'[t].user = token[t].user
           /\ token[t] = NoToken => token'[t] = token[t]
  <2>1. CASE \E u \in Users : SetActive(u)
    <3>1. PICK u \in Users :
            /\ account' = [ account EXCEPT ![u].active = ~@ ]
            /\ UNCHANGED <<session, token>>
      BY <2>1 DEF SetActive
    <3>2. account' \in [Users -> AccountRows]
      BY <1>1, <3>1 DEF TypeOK, AccountRows
    <3> QED
      BY <1>1, <3>1, <3>2 DEF TypeOK
  <2>2. CASE \E s \in Sessions : Expire(s)
    <3>1. PICK s \in Sessions :
            /\ session[s].state = "row"
            /\ session' = [ session EXCEPT ![s].expired = TRUE ]
            /\ UNCHANGED <<account, token>>
      BY <2>2 DEF Expire, Exists
    <3>2. session' \in [Sessions -> SessionRows]
      BY <1>1, <3>1 DEF TypeOK, SessionRows
    <3> QED
      BY <1>1, <3>1, <3>2 DEF TypeOK, SessionRows
  <2>3. CASE \E t \in Tokens : ExpireToken(t)
    <3>1. PICK t \in Tokens :
            /\ token[t] # NoToken
            /\ token' = [ token EXCEPT ![t].expired = TRUE ]
            /\ UNCHANGED <<account, session>>
      BY <2>3 DEF ExpireToken
    <3>2. token' \in [Tokens -> TokenRows]
      BY <1>1, <3>1 DEF TypeOK, TokenRows
    <3> QED
      BY <1>1, <3>1, <3>2 DEF TypeOK, TokenRows
  <2> QED
    BY <2>1, <2>2, <2>3 DEF Environment
<1>3. TypeOK'
  BY <1>1, <1>2 DEF TypeOK
<1>4. \A t \in Tokens : TokenOK(t)'
  BY <1>2 DEF IInv, TokenOK
<1>5. ASSUME NEW s \in Sessions
      PROVE  RowOK(s)'
  <2>1. RowOK(s) /\ session[s] \in SessionRows
    BY <1>1 DEF IInv, TypeOK
  <2> QED
    BY <1>1, <1>2, <2>1 DEF RowOK, Issued, Exists, Live, SessionRows
<1>6. \A row \in Users \cup Sessions : LockOK(row)'
  BY <1>1 DEF LockOK
<1>7. ASSUME NEW r \in Requests
      PROVE  RequestOK(r)'
  <2> DEFINE q == request[r]
             s == q.input.subject
  <2>1. RequestOK(r) /\ request'[r] = q /\ q \in RequestRecords
    BY <1>1 DEF TypeOK
  <2>2. q.pc \in RefreshSteps \cup LogoutSteps /\ s # None =>
          Issued(s)' /\ q.user = session'[s].user
    BY <1>2, <2>1 DEF RequestOK, Issued
  <2>3. Rotating(q) =>
          /\ session'[q.opened].state = "pending"
          /\ session'[q.opened].parent = s
          /\ session'[q.opened].user = q.user
    BY <1>2, <2>1 DEF RequestOK
  <2>4. q.pc = "rotateCommit" => Exists(s)'
    BY <1>2, <2>1, AuthSessionsAssumption DEF RequestOK, Exists, RefreshSteps
  <2>5. \A e \in q.earlier \cup q.doomed :
          /\ Issued(e) => Issued(e)' /\ session'[e].user = session[e].user
          /\ session'[e].state = session[e].state
    BY <1>2, <2>1 DEF Issued, RequestRecords
  <2>6. /\ q.pc = "reset" /\ s # None => q.user = token'[s].user
        /\ q.pc \in PasswordSteps /\ q.input.op = "reset" => q.user = token'[s].user
    BY <1>2, <2>1 DEF RequestOK
  <2> QED
    BY <1>1, <2>1, <2>2, <2>3, <2>4, <2>5, <2>6 DEF RequestOK
<1> QED
  BY <1>3, <1>4, <1>5, <1>6, <1>7 DEF IInv

-------------------------------------------------------------------------------
(* The invariant holds of every behaviour.                                 *)

LEMMA InitiallyOK == Init => IInv
<1> SUFFICES ASSUME Init
             PROVE  IInv
  OBVIOUS
<1>1. TypeOK
  BY NoSessionShape, AuthSessionsAssumption
     DEF Init, TypeOK, AccountRows, TokenRows, NoToken, RequestRecords, Idle, Steps
<1>2. \A t \in Tokens : TokenOK(t)
  BY DEF Init, TokenOK
<1>3. \A s \in Sessions : RowOK(s)
  BY NoSessionShape DEF Init, RowOK, Exists
<1>4. \A row \in Users \cup Sessions : LockOK(row)
  BY DEF Init, LockOK
<1>5. \A r \in Requests : RequestOK(r)
  BY DEF Init, Idle, RequestOK, Rotating, RefreshSteps, LogoutSteps, PasswordSteps, UserSteps
<1> QED
  BY <1>1, <1>2, <1>3, <1>4, <1>5 DEF IInv

LEMMA StepOK ==
  ASSUME IInv, NEW r \in Requests, Step(r)
  PROVE  IInv'
BY RegisterStep, CheckStep, OpenSessionStep, RotateInsertStep, RotateUpdateStep, RotateCommitStep,
   RevokeStep, ForgotStep, SetPasswordStep, DeleteSessionsStep, LockSessionStep,
   CommitPasswordStep DEF Step

LEMMA NextOK == IInv /\ [Next]_vars => IInv'
<1> SUFFICES ASSUME IInv, [Next]_vars
             PROVE  IInv'
  OBVIOUS
<1>1. CASE \E r \in Requests, input \in Inputs : Arrive(r, input)
  BY <1>1, ArriveStep
<1>2. CASE \E r \in Requests : Step(r) \/ Abort(r)
  BY <1>2, StepOK, AbortStep
<1>3. CASE Environment
  BY <1>3, EnvironmentStep
<1>4. CASE UNCHANGED vars
  BY <1>4 DEF IInv, TypeOK, TokenOK, RowOK, LockOK, RequestOK, Issued, Exists, Live, vars
<1> QED
  BY <1>1, <1>2, <1>3, <1>4 DEF Next

LEMMA Invariance == Spec => []IInv
BY InitiallyOK, NextOK, PTL DEF Spec

-------------------------------------------------------------------------------
(* What is promised.                                                       *)

\* Every variable holds rows of its table, row locks or request records,
\* however many requests the service is working on (auth.service.ts).
THEOREM TypeCorrect == Spec => []TypeOK
<1>1. IInv => TypeOK
  BY DEF IInv
<1> QED
  BY <1>1, Invariance, PTL

\* Every row lock is held by a request whose next steps release it, and every
\* uncommitted session belongs to a rotation: no error path of auth.service.ts
\* leaves one behind.
THEOREM NoLeaks == Spec => []NothingLeaks
<1>1. IInv => NothingLeaks
  <2> SUFFICES ASSUME IInv
               PROVE  NothingLeaks
    OBVIOUS
  <2>1. TypeOK
    BY DEF IInv
  <2>2. \A u \in Users : lock[u] # None =>
          /\ request[lock[u]].pc \in {"delete", "lockRows"}
          /\ request[lock[u]].user = u
    BY DEF IInv, LockOK
  <2>3. \A s \in Sessions : lock[s] # None =>
          \/ At(lock[s], "rotateCommit") /\ In(lock[s]).subject = s
          \/ At(lock[s], "lockRows") /\ s \in request[lock[s]].doomed
    BY DEF IInv, LockOK, At, In
  <2>4. \A s \in Sessions : session[s].state = "pending" =>
          \E r \in Requests :
            /\ request[r].pc \in {"rotateUpdate", "rotateCommit"}
            /\ request[r].opened = s
    BY DEF IInv, RowOK, Rotating
  <2> QED
    BY <2>2, <2>3, <2>4 DEF NothingLeaks
<1> QED
  BY <1>1, Invariance, PTL

\* A session and the one it was rotated into are never live together, and
\* replacedById names the committed session that took this one's place, however
\* refreshes, logouts and password changes interleave (createSession).
THEOREM RotationIsAtomic == Spec => []RotationAtomic
<1>1. IInv => RotationAtomic
  BY DEF IInv, RowOK, RotationAtomic
<1> QED
  BY <1>1, Invariance, PTL

\* The second statement of the rotation re-checks that the row it replaces is
\* there (P2025), so no refresh survives the deletion of its session.
THEOREM RefreshNeedsItsSession == Spec => RotationNeedsParent
<1> DEFINE A == \A s \in Sessions :
                  ~Exists(s) /\ Exists(s)' /\ session'[s].parent # None =>
                    session'[session'[s].parent].state = "row"
<1>1. IInv /\ [Next]_vars => A
  <2> SUFFICES ASSUME IInv, [Next]_vars, NEW s \in Sessions, session[s].state # "row",
                      session'[s].state = "row", session'[s].parent # None
               PROVE  session'[session'[s].parent].state = "row"
    BY DEF Exists
  <2>0. TypeOK /\ None \notin Sessions
    BY AuthSessionsAssumption DEF IInv
  <2>1. CASE session' = session
    BY <2>1
  <2>2. CASE \E r \in Requests : OpenSession(r)
    <3>1. PICK r \in Requests, x \in Sessions :
            session' = [ session EXCEPT ![x] =
                           NewSession("row", request[r].user, None, request[r].credential) ]
      BY <2>2 DEF OpenSession
    <3>2. NewSession("row", request[r].user, None, request[r].credential).parent = None
      BY DEF NewSession, NoSession
    <3> QED
      BY <2>0, <3>1, <3>2 DEF TypeOK
  <2>3. CASE \E r \in Requests : RotateInsert(r)
    <3>1. PICK r \in Requests, x \in Sessions :
            session' = [ session EXCEPT ![x] =
                           NewSession("pending", request[r].user, In(r).subject,
                                      request[r].credential) ]
      BY <2>3 DEF RotateInsert
    <3>2. NewSession("pending", request[r].user, In(r).subject, request[r].credential).state
            = "pending"
      BY DEF NewSession, NoSession
    <3> QED
      BY <2>0, <3>1, <3>2 DEF TypeOK
  <2>4. CASE \E r \in Requests : RollBack(r)
    <3>1. session'[s] \in {NoSession, session[s]}
      BY <2>4 DEF RollBack
    <3> QED
      BY <3>1, NoSessionShape
  <2>5. CASE \E r \in Requests : RotateCommit(r)
    <3>1. PICK r \in Requests : RotateCommit(r)
      BY <2>5
    <3>2. /\ In(r).subject \in Sessions /\ request[r].opened \in Sessions
          /\ session[In(r).subject].state = "row"
          /\ session[request[r].opened].state = "pending"
          /\ session[request[r].opened].parent = In(r).subject
      BY <2>0, <3>1, AuthSessionsAssumption
         DEF RotateCommit, At, In, IInv, RequestOK, RefreshSteps, Rotating, Exists
    <3>3. /\ session'[s].parent = session[s].parent
          /\ s # request[r].opened => session'[s].state = session[s].state
          /\ session'[In(r).subject].state = "row"
      BY <2>0, <3>1, <3>2 DEF RotateCommit, TypeOK, SessionRows
    <3> QED
      BY <3>2, <3>3
  <2>6. CASE \E r \in Requests : Revoke(r)
    BY <2>0, <2>6 DEF Revoke, Exists, TypeOK, SessionRows
  <2>7. CASE \E r \in Requests : CommitPassword(r)
    <3>1. PICK r \in Requests : session' = Deleted(request[r].doomed)
      BY <2>7 DEF CommitPassword
    <3>2. request[r].doomed \in SUBSET Sessions
      BY <2>0 DEF TypeOK, RequestRecords
    <3> QED
      BY <2>0, <3>1, <3>2, DeletedShape DEF TypeOK
  <2>8. CASE \E x \in Sessions : Expire(x)
    BY <2>0, <2>8 DEF Expire, Exists, TypeOK, SessionRows
  <2> QED
    BY <2>1, <2>2, <2>3, <2>4, <2>5, <2>6, <2>7, <2>8
       DEF Next, vars, Step, Environment, Arrive, Register, Login, Refresh, RotateUpdate, Logout,
           Authenticate, Change, Forgot, Reset, SetPassword, DeleteSessions, LockSession, Abort,
           SetActive, ExpireToken
<1> QED
  BY <1>1, Invariance, PTL DEF Spec, RotationNeedsParent

\* changePassword and resetPassword delete at least every session their user
\* had when they were called, whatever refreshes run meanwhile.
THEOREM PasswordChangeEndsSessions == Spec => PasswordEndsEarlierSessions
<1> DEFINE A == \A r \in Requests :
                  At(r, "lockRows") /\ request'[r].pc = "idle" /\ lastPassword' # lastPassword =>
                    \A s \in request[r].earlier : session'[s].state # "row"
<1>1. IInv /\ [Next]_vars => A
  <2> SUFFICES ASSUME IInv, [Next]_vars, NEW r \in Requests, request[r].pc = "lockRows",
                      request'[r].pc = "idle", lastPassword' # lastPassword,
                      NEW s \in request[r].earlier
               PROVE  session'[s].state # "row"
    BY DEF At
  <2>0. TypeOK /\ RequestOK(r) /\ None \notin Sessions
    BY AuthSessionsAssumption DEF IInv
  <2>1. PICK o \in Requests : Register(o) \/ CommitPassword(o)
    BY DEF Next, vars, Step, Environment, Arrive, Login, OpenSession, Refresh, RotateInsert,
           RotateUpdate, RotateCommit, Logout, Revoke, Authenticate, Change, Forgot, Reset,
           SetPassword, DeleteSessions, LockSession, Abort, SetActive, Expire, ExpireToken
  <2>2. CASE o # r
    <3>1. request'[r] = request[r]
      BY <2>0, <2>1, <2>2 DEF Register, CommitPassword, Respond, TypeOK
    <3> QED
      BY <3>1
  <2>3. CASE o = r
    <3>1. CommitPassword(r)
      BY <2>1, <2>3 DEF Register, At
    <3>2. session' = Deleted(request[r].doomed)
      BY <3>1 DEF CommitPassword
    <3>3. s \in Sessions /\ request[r].doomed \in SUBSET Sessions
      BY <2>0 DEF TypeOK, RequestRecords
    <3>4. s \in request[r].doomed \/ session[s].state = "gone"
      BY <2>0 DEF RequestOK
    <3> QED
      BY <2>0, <3>2, <3>3, <3>4, DeletedShape DEF TypeOK
  <2> QED
    BY <2>2, <2>3
<1> QED
  BY <1>1, Invariance, PTL DEF Spec, PasswordEndsEarlierSessions

-------------------------------------------------------------------------------
(* How often a session forks.  Whoever may still commit a successor of a   *)
(* session is in flight; once one is committed the session is revoked for  *)
(* good, and no further refresh of it gets past the check.                 *)

Children(s) == { c \in Sessions : Issued(c) /\ session[c].parent = s }

Rotators(s) ==
  { r \in Requests : /\ request[r].pc \in {"rotateInsert", "rotateUpdate", "rotateCommit"}
                     /\ In(r).subject = s }

\* A session that was replaced once is not live, even if its successor is deleted.
ReplacedIsDead ==
  \A c \in Sessions : Issued(c) /\ session[c].parent # None => ~Live(session[c].parent)

ForksOK ==
  /\ ReplacedIsDead
  /\ \A s \in Sessions :
       Cardinality(Children(s)) + Cardinality(Rotators(s)) <= Cardinality(Requests)

\* A session keeps its parent, is never live again, and gets its parent from a rotation.
LEMMA SessionsOnward ==
  ASSUME IInv, [Next]_vars, NEW s \in Sessions
  PROVE  /\ Issued(s) => /\ Issued(s)' /\ session'[s].parent = session[s].parent
                         /\ ~Live(s) => ~Live(s)'
         /\ ~Issued(s) /\ Issued(s)' /\ session'[s].parent # None =>
              \E r \in Requests : /\ RotateCommit(r) /\ request[r].opened = s
                                  /\ session'[s].parent = In(r).subject
<1> DEFINE Kept == /\ Issued(s) => /\ Issued(s)' /\ session'[s].parent = session[s].parent
                                   /\ ~Live(s) => ~Live(s)'
                   /\ ~Issued(s) /\ Issued(s)' => session'[s].parent = None
<1>0. TypeOK /\ None \notin Sessions /\ RowOK(s)
  BY AuthSessionsAssumption DEF IInv
<1>1. CASE session' = session
  BY <1>1 DEF Issued, Live, Exists
<1>2. CASE \E r \in Requests : OpenSession(r)
  <2>1. PICK r \in Requests, x \in Sessions :
          /\ session[x] = NoSession
          /\ session' = [ session EXCEPT ![x] =
                            NewSession("row", request[r].user, None, request[r].credential) ]
    BY <1>2 DEF OpenSession
  <2>2. NewSession("row", request[r].user, None, request[r].credential).parent = None
    BY DEF NewSession, NoSession
  <2>3. Kept
    BY <1>0, <2>1, <2>2, NoSessionShape DEF TypeOK, Issued, Live, Exists
  <2> QED
    BY <2>3
<1>3. CASE \E r \in Requests : RotateInsert(r)
  <2>1. PICK r \in Requests, x \in Sessions :
          /\ session[x] = NoSession
          /\ session' = [ session EXCEPT ![x] =
                           NewSession("pending", request[r].user, In(r).subject,
                                      request[r].credential) ]
    BY <1>3 DEF RotateInsert
  <2>2. NewSession("pending", request[r].user, In(r).subject, request[r].credential).state
          = "pending"
    BY DEF NewSession, NoSession
  <2>3. Kept
    BY <1>0, <2>1, <2>2, NoSessionShape DEF TypeOK, Issued, Live, Exists
  <2> QED
    BY <2>3
<1>4. CASE \E r \in Requests : RollBack(r)
  <2>1. PICK r \in Requests : RollBack(r)
    BY <1>4
  <2>2. s = request[r].opened => ~Issued(s)
    BY <1>0, <2>1 DEF IInv, RequestOK, Issued
  <2>3. session'[s] = IF s = request[r].opened THEN NoSession ELSE session[s]
    BY <2>1 DEF RollBack
  <2>4. Kept
    BY <2>2, <2>3, NoSessionShape DEF Issued, Live, Exists
  <2> QED
    BY <2>4
<1>5. CASE \E r \in Requests : RotateCommit(r)
  <2>1. PICK r \in Requests : RotateCommit(r)
    BY <1>5
  <2>2. /\ In(r).subject \in Sessions /\ request[r].opened \in Sessions
        /\ session[In(r).subject].state = "row"
        /\ session[request[r].opened].state = "pending"
        /\ session[request[r].opened].parent = In(r).subject
    BY <1>0, <2>1, AuthSessionsAssumption
       DEF RotateCommit, At, In, IInv, RequestOK, RefreshSteps, Rotating, Exists
  <2>3. /\ session'[s].parent = session[s].parent
        /\ s # request[r].opened => session'[s].state = session[s].state
        /\ s = In(r).subject => session'[s].revoked
        /\ s # In(r).subject => session'[s].revoked = session[s].revoked
    BY <1>0, <2>1, <2>2 DEF RotateCommit, TypeOK, SessionRows
  <2>4. CASE s = request[r].opened
    BY <2>1, <2>2, <2>3, <2>4 DEF Issued
  <2>5. CASE s # request[r].opened
    BY <2>3, <2>5 DEF Issued, Live, Exists
  <2> QED
    BY <2>4, <2>5
<1>6. CASE \E r \in Requests : Revoke(r)
  <2>1. PICK r \in Requests : Revoke(r)
    BY <1>6
  <2>2. /\ session'[s].parent = session[s].parent /\ session'[s].state = session[s].state
        /\ session[s].revoked => session'[s].revoked
    BY <1>0, <2>1 DEF Revoke, TypeOK, SessionRows
  <2> QED
    BY <2>2 DEF Issued, Live, Exists
<1>7. CASE \E r \in Requests : CommitPassword(r)
  <2>1. PICK r \in Requests : CommitPassword(r)
    BY <1>7
  <2>2. request[r].doomed \in SUBSET Sessions /\ session' = Deleted(request[r].doomed)
    BY <1>0, <2>1 DEF TypeOK, RequestRecords, CommitPassword
  <2>3. /\ session'[s].parent = session[s].parent /\ session'[s].revoked = session[s].revoked
        /\ s \in request[r].doomed => session'[s].state = "gone"
        /\ s \notin request[r].doomed => session'[s].state = session[s].state
    BY <1>0, <2>2, DeletedShape DEF TypeOK
  <2>4. s \in request[r].doomed => Issued(s)
    BY <2>1 DEF CommitPassword, At, IInv, RequestOK
  <2> QED
    BY <2>3, <2>4 DEF Issued, Live, Exists
<1>8. CASE \E x \in Sessions : Expire(x)
  <2>1. /\ session'[s].parent = session[s].parent /\ session'[s].state = session[s].state
        /\ session'[s].revoked = session[s].revoked
    BY <1>0, <1>8 DEF Expire, TypeOK, SessionRows
  <2> QED
    BY <2>1 DEF Issued, Live, Exists
<1> QED
  BY <1>1, <1>2, <1>3, <1>4, <1>5, <1>6, <1>7, <1>8
     DEF Next, vars, Step, Environment, Arrive, Register, Login, Refresh, RotateUpdate, Logout,
         Authenticate, Change, Forgot, Reset, SetPassword, DeleteSessions, LockSession, Abort,
         SetActive, ExpireToken

LEMMA ReplacedStaysDead ==
  ASSUME IInv, ReplacedIsDead, [Next]_vars
  PROVE  ReplacedIsDead'
<1> SUFFICES ASSUME NEW c \in Sessions, Issued(c)', session'[c].parent # None,
                    NEW p, p = session'[c].parent
             PROVE  ~Live(p)'
  BY DEF ReplacedIsDead, Live, Exists
<1>0. TypeOK /\ None \notin Sessions /\ RowOK(c)
  BY AuthSessionsAssumption DEF IInv
<1>1. CASE Issued(c)
  <2>1. p = session[c].parent /\ p \in Sessions
    BY <1>0, <1>1, SessionsOnward DEF TypeOK, SessionRows
  <2>2. Issued(p) /\ ~Live(p)
    BY <1>0, <1>1, <2>1 DEF RowOK, ReplacedIsDead
  <2> QED
    BY <2>1, <2>2, SessionsOnward
<1>2. CASE ~Issued(c)
  <2>1. PICK r \in Requests : RotateCommit(r) /\ request[r].opened = c /\ p = In(r).subject
    BY <1>2, SessionsOnward
  <2>2. At(r, "rotateCommit") /\ RequestOK(r) /\ session[c].state = "pending"
    BY <2>1 DEF RotateCommit, At, IInv, RequestOK, Rotating
  <2>3. p \in Sessions /\ Issued(p)
    BY <2>1, <2>2, <1>0, AuthSessionsAssumption
       DEF At, In, RequestOK, RefreshSteps, TypeOK, RequestRecords
  <2>4. p # c
    BY <2>2, <2>3 DEF Issued
  <2>5. session'[p].revoked
    BY <1>0, <2>1, <2>3, <2>4 DEF RotateCommit, TypeOK, SessionRows
  <2> QED
    BY <2>5 DEF Live
<1> QED
  BY <1>1, <1>2

\* Only a refresh of a live session adds to those that may still replace it.
LEMMA RotatorsOnward ==
  ASSUME IInv, [Next]_vars, NEW s \in Sessions
  PROVE  /\ \/ Rotators(s)' \subseteq Rotators(s)
            \/ Live(s) /\ session' = session
         /\ \A r \in Requests : RotateCommit(r) =>
              /\ Rotators(s)' \subseteq Rotators(s) \ {r}
              /\ In(r).subject = s => r \in Rotators(s)
<1>0. TypeOK /\ request \in [Requests -> RequestRecords]
  BY DEF IInv, TypeOK
<1> DEFINE Pcs == {"rotateInsert", "rotateUpdate", "rotateCommit"}
<1>1. ASSUME NEW r \in Requests, request'[r].pc \in Pcs
      PROVE  \/ request[r].pc \in Pcs /\ request'[r].input = request[r].input
             \/ /\ Refresh(r) /\ Live(In(r).subject) /\ request'[r].input = request[r].input
  <2>1. CASE \E i \in Inputs : Arrive(r, i)
    <3>1. PICK i \in Inputs : Arrive(r, i)
      BY <2>1
    <3>2. request'[r].pc = FirstStep(i.op)
      BY <1>0, <3>1 DEF Arrive, Idle
    <3> QED
      BY <1>1, <3>2, InputShape DEF FirstStep, Endpoints
  <2>2. CASE Refresh(r)
    BY <1>0, <1>1, <2>2 DEF Refresh, Respond, Idle, Refreshable, Live, RequestRecords
  <2>3. CASE RotateInsert(r) \/ RotateUpdate(r)
    BY <1>0, <1>1, <2>3 DEF RotateInsert, RotateUpdate, At, Advance, Respond, Idle, RequestRecords
  <2>4. CASE \/ Register(r) \/ Login(r) \/ OpenSession(r) \/ RotateCommit(r) \/ Logout(r)
             \/ Revoke(r) \/ Authenticate(r) \/ Change(r) \/ Forgot(r) \/ Reset(r)
             \/ SetPassword(r) \/ DeleteSessions(r) \/ CommitPassword(r) \/ Abort(r)
    BY <1>0, <1>1, <2>4
       DEF Register, Login, OpenSession, RotateCommit, Logout, Revoke, Authenticate, Change,
           Forgot, Reset, SetPassword, DeleteSessions, CommitPassword, Abort, Respond, Advance,
           Idle, RequestRecords
  <2>5. CASE request'[r] = request[r]
    BY <1>1, <2>5
  <2>6. CASE \E o \in Requests \ {r} :
                Step(o) \/ Abort(o) \/ (\E i \in Inputs : Arrive(o, i))
    <3>1. request'[r] = request[r]
      BY <1>0, <2>6
         DEF Step, Arrive, Register, Login, OpenSession, Refresh, RotateInsert, RotateUpdate,
             RotateCommit, Logout, Revoke, Authenticate, Change, Forgot, Reset, SetPassword,
             DeleteSessions, LockSession, CommitPassword, Abort, Respond, Advance
    <3> QED
      BY <2>5, <3>1
  <2>7. CASE LockSession(r) \/ Environment \/ UNCHANGED vars
    BY <2>5, <2>7 DEF LockSession, Environment, SetActive, Expire, ExpireToken, vars
  <2>8. Step(r) => \/ Refresh(r) \/ RotateInsert(r) \/ RotateUpdate(r) \/ LockSession(r)
                   \/ Register(r) \/ Login(r) \/ OpenSession(r) \/ RotateCommit(r)
                   \/ Logout(r) \/ Revoke(r) \/ Authenticate(r) \/ Change(r) \/ Forgot(r)
                   \/ Reset(r) \/ SetPassword(r) \/ DeleteSessions(r) \/ CommitPassword(r)
    BY DEF Step
  <2>9. CASE \E o \in Requests : Step(o) \/ Abort(o) \/ (\E i \in Inputs : Arrive(o, i))
    BY <2>1, <2>2, <2>3, <2>4, <2>6, <2>7, <2>8, <2>9
  <2> QED
    BY <2>7, <2>9 DEF Next
<1>2. CASE \E r \in Requests : Refresh(r) /\ Live(In(r).subject) /\ In(r).subject = s
  <2>1. Live(s) /\ session' = session
    BY <1>2 DEF Refresh
  <2>2. \A r \in Requests : ~RotateCommit(r)
    BY <2>1, <1>0, <1>2 DEF RotateCommit, Refresh, At, Respond, Idle, IInv, RequestOK
  <2> QED
    BY <2>1, <2>2
<1>3. CASE ~ \E r \in Requests : Refresh(r) /\ Live(In(r).subject) /\ In(r).subject = s
  <2>1. Rotators(s)' \subseteq Rotators(s)
    BY <1>1, <1>3 DEF Rotators, In
  <2>2. ASSUME NEW r \in Requests, RotateCommit(r)
        PROVE  r \notin Rotators(s)' /\ (In(r).subject = s => r \in Rotators(s))
    BY <1>0, <2>2 DEF RotateCommit, Respond, Idle, Rotators, At
  <2> QED
    BY <2>1, <2>2
<1> QED
  BY <1>2, <1>3

LEMMA ForksStep ==
  ASSUME IInv, ForksOK, [Next]_vars
  PROVE  ForksOK'
<1> SUFFICES ASSUME NEW s \in Sessions
             PROVE  Cardinality(Children(s)') + Cardinality(Rotators(s)') <= Cardinality(Requests)
  BY ReplacedStaysDead DEF ForksOK
<1> USE AuthSessionsAssumption
<1>0. /\ \A S \in SUBSET Sessions : IsFiniteSet(S) /\ Cardinality(S) \in Nat
      /\ \A S \in SUBSET Requests : /\ IsFiniteSet(S) /\ Cardinality(S) \in Nat
                                    /\ Cardinality(S) <= Cardinality(Requests)
      /\ Cardinality(Requests) \in Nat
  BY FS_Subset, FS_CardinalityType
<1>1. /\ Children(s) \in SUBSET Sessions /\ Children(s)' \in SUBSET Sessions
      /\ Rotators(s) \in SUBSET Requests /\ Rotators(s)' \in SUBSET Requests
      /\ Cardinality(Children(s)) + Cardinality(Rotators(s)) <= Cardinality(Requests)
  BY DEF Children, Rotators, ForksOK
<1>2. PICK a \in Nat, b \in Nat, n \in Nat :
        a = Cardinality(Children(s)) /\ b = Cardinality(Rotators(s)) /\ n = Cardinality(Requests)
  BY <1>0, <1>1
<1>3. PICK x \in Nat, y \in Nat : x = Cardinality(Children(s)') /\ y = Cardinality(Rotators(s)')
  BY <1>0, <1>1
<1>4. CASE Live(s) /\ session' = session
  <2>1. Children(s)' = {}
    BY <1>4 DEF Children, Issued, ForksOK, ReplacedIsDead
  <2>2. x = 0 /\ y <= n
    BY <1>0, <1>1, <1>2, <1>3, <2>1, FS_EmptySet
  <2> QED
    BY <1>2, <1>3, <2>2
<1>5. CASE Children(s)' \subseteq Children(s) /\ Rotators(s)' \subseteq Rotators(s)
  <2>1. x <= a /\ y <= b
    BY <1>0, <1>1, <1>2, <1>3, <1>5, FS_Subset
  <2> QED
    BY <1>1, <1>2, <1>3, <2>1
<1>6. CASE ~(Children(s)' \subseteq Children(s)) /\ ~(Live(s) /\ session' = session)
  <2>1. PICK c \in Sessions : c \in Children(s)' /\ c \notin Children(s)
    BY <1>6 DEF Children
  <2>2. PICK r \in Requests : /\ RotateCommit(r) /\ request[r].opened = c
                              /\ In(r).subject = s
    BY <2>1, SessionsOnward DEF Children
  <2>3. ASSUME NEW d \in Children(s)', d \notin Children(s)
        PROVE  d = c
    <3>1. PICK q \in Requests : RotateCommit(q) /\ request[q].opened = d
      BY <2>3, SessionsOnward DEF Children
    <3>2. q = r
      BY <2>2, <3>1 DEF RotateCommit, At, Respond, Idle, IInv, TypeOK
    <3> QED
      BY <2>2, <3>1, <3>2
  <2>4. Children(s)' \subseteq Children(s) \cup {c}
    BY <2>3
  <2>5. Rotators(s)' \subseteq Rotators(s) \ {r} /\ r \in Rotators(s)
    BY <2>2, RotatorsOnward
  <2>6. /\ IsFiniteSet(Children(s) \cup {c})
        /\ Cardinality(Children(s) \cup {c}) = Cardinality(Children(s)) + 1
    BY <1>0, <1>1, <2>1, FS_AddElement
  <2>7. x <= a + 1
    BY <1>2, <1>3, <2>4, <2>6, FS_Subset
  <2>8. /\ IsFiniteSet(Rotators(s) \ {r})
        /\ Cardinality(Rotators(s) \ {r}) = Cardinality(Rotators(s)) - 1
    BY <1>0, <1>1, <2>5, FS_RemoveElement
  <2>9. y <= b - 1
    BY <1>2, <1>3, <2>5, <2>8, FS_Subset
  <2> QED
    BY <1>1, <1>2, <1>3, <2>7, <2>9
<1> QED
  BY <1>4, <1>5, <1>6, RotatorsOnward

\* However refreshes of one session race, it has at most as many successors as there can be
\* requests in flight together: the successor that is committed first stops the next ones.
THEOREM ForksAreBounded == Spec => []ForksBounded
<1>1. Init => ForksOK
  <2> SUFFICES ASSUME Init
               PROVE  ForksOK
    OBVIOUS
  <2>1. ReplacedIsDead /\ \A s \in Sessions : Children(s) = {} /\ Rotators(s) = {}
    BY DEF Init, Children, Rotators, ReplacedIsDead, Issued, NoSession, Idle
  <2>2. Cardinality({}) = 0 /\ Cardinality(Requests) \in Nat
    BY AuthSessionsAssumption, FS_EmptySet, FS_CardinalityType
  <2>3. PICK z, n \in Nat : z = Cardinality({}) /\ n = Cardinality(Requests) /\ z = 0
    BY <2>2
  <2>4. z + z <= n
    BY <2>3
  <2> QED
    BY <2>1, <2>3, <2>4 DEF ForksOK
<1>2. IInv /\ ForksOK /\ [Next]_vars => ForksOK'
  BY ForksStep
<1>3. ForksOK => ForksBounded
  <2> SUFFICES ASSUME ForksOK, NEW s \in Sessions
               PROVE  Cardinality(Children(s)) <= Cardinality(Requests)
    BY DEF ForksBounded, Children
  <2>1. Children(s) \in SUBSET Sessions /\ Rotators(s) \in SUBSET Requests
    BY DEF Children, Rotators
  <2>2. /\ Cardinality(Children(s)) \in Nat /\ Cardinality(Rotators(s)) \in Nat
        /\ Cardinality(Requests) \in Nat
    BY <2>1, AuthSessionsAssumption, FS_Subset, FS_CardinalityType
  <2> QED
    BY <2>2 DEF ForksOK
<1> QED
  BY <1>1, <1>2, <1>3, Invariance, PTL DEF Spec

-------------------------------------------------------------------------------
(***************************************************************************)
(* One request at a time, AuthSessions implements SessionLife, for any     *)
(* users, sessions and tokens.                                             *)
(*                                                                         *)
(* SerialInv says what a request without competitors may still rely on     *)
(* when it writes: what it has read is then as it was.  The steps that     *)
(* write rows map to steps of SessionLife, all others to stuttering.       *)
(***************************************************************************)

Serial == \E r \in Requests : Requests = {r}

AccountSerial(u) ==
  /\ account[u].password # 0 <=> account[u].registered
  /\ account[u].password <= lastPassword

\* A live session was opened with the password its user still has.
SessionSerial(s) ==
  Live(s) => /\ account[session[s].user].registered
             /\ session[s].credential = account[session[s].user].password

TokenSerial(t) == token[t] # NoToken => account[token[t].user].registered

\* The one request sees what it saw before.
RequestSerial(r) ==
  LET q == request[r]
      s == q.input.subject
  IN  /\ q.pc = "open" => /\ account[q.user].registered
                          /\ q.credential = account[q.user].password
      /\ q.pc \in {"rotateInsert", "rotateUpdate", "rotateCommit"} =>
           Live(s) /\ q.credential = session[s].credential
      /\ Rotating(q) => session[q.opened].credential = q.credential
      /\ q.pc = "revoke" => Live(s)
      /\ q.pc \in PasswordSteps \cup {"change"} => account[q.user].registered
      /\ q.pc \in PasswordSteps /\ q.input.op = "reset" => token[s].uses = 0
      /\ q.pc = "lockRows" => q.doomed = SessionsOf(q.user)

SerialInv ==
  /\ \A u \in Users : AccountSerial(u)
  /\ \A s \in Sessions : SessionSerial(s)
  /\ \A t \in Tokens : TokenSerial(t)
  /\ \A r \in Requests : RequestSerial(r)

-------------------------------------------------------------------------------
(* SerialInv is an invariant.                                              *)

LEMMA OnlyRequest ==
  ASSUME NEW r \in Requests, Serial
  PROVE  \A o \in Requests : o = r
BY DEF Serial

\* An idle slot guarantees nothing.
LEMMA SerialIdle ==
  ASSUME NEW r \in Requests, request'[r] = Idle
  PROVE  RequestSerial(r)'
BY DEF RequestSerial, Idle, Rotating, PasswordSteps

\* The rows stay as they are.
LEMMA SerialRead ==
  ASSUME SerialInv, Serial, NEW r \in Requests, UNCHANGED <<account, lastPassword, session, token>>,
         RequestSerial(r)'
  PROVE  SerialInv'
BY OnlyRequest
   DEF SerialInv, AccountSerial, SessionSerial, TokenSerial, Live, Exists

LEMMA SerialRespond ==
  ASSUME IInv, SerialInv, Serial, NEW r \in Requests, Respond(r),
         UNCHANGED <<account, lastPassword, session, token>>
  PROVE  SerialInv'
<1>1. request'[r] = Idle
  BY DEF Respond, IInv, TypeOK
<1> QED
  BY <1>1, SerialIdle, SerialRead

LEMMA SerialArrive ==
  ASSUME IInv, SerialInv, Serial, NEW r \in Requests, NEW input \in Inputs, Arrive(r, input)
  PROVE  SerialInv'
<1>1. request'[r].pc = FirstStep(input.op)
  BY DEF Arrive, IInv, TypeOK, Idle
<1>2. request'[r].pc \in {"create", "login", "refresh", "logout", "authenticate", "forgot", "reset"}
  BY <1>1, InputShape DEF FirstStep, Endpoints
<1> QED
  BY <1>2, SerialRead DEF Arrive, RequestSerial, Rotating, PasswordSteps

\* The checks: what they have seen is what RequestSerial asks for.
LEMMA SerialCheck ==
  ASSUME IInv, SerialInv, Serial, NEW r \in Requests,
         Login(r) \/ Refresh(r) \/ Logout(r) \/ Authenticate(r) \/ Change(r) \/ Reset(r)
  PROVE  SerialInv'
<1> DEFINE q == request[r]
<1>1. /\ UNCHANGED <<account, lastPassword, session, token>>
      /\ request \in [Requests -> RequestRecords] /\ RequestOK(r) /\ RequestSerial(r)
  BY DEF Login, Refresh, Logout, Authenticate, Change, Reset, IInv, SerialInv, TypeOK
<1>2. CASE Respond(r)
  BY <1>1, <1>2, SerialRespond
<1>3. CASE Login(r) /\ ~Respond(r)
  <2>1. /\ request' = [ request EXCEPT ![r].pc = "open", ![r].credential = q.input.password ]
        /\ account[q.user].registered /\ account[q.user].password = q.input.password
    BY <1>3 DEF Login, In
  <2>2. /\ request'[r].pc = "open" /\ request'[r].user = q.user
        /\ request'[r].credential = q.input.password
    BY <1>1, <2>1 DEF RequestRecords
  <2>3. RequestSerial(r)'
    BY <1>1, <2>1, <2>2 DEF RequestSerial, Rotating, PasswordSteps
  <2> QED
    BY <1>1, <2>3, SerialRead
<1>4. CASE Refresh(r) /\ ~Respond(r)
  <2> DEFINE s == q.input.subject
  <2>1. /\ request' = [ request EXCEPT ![r].pc = "rotateInsert",
                                       ![r].credential = session[s].credential ]
        /\ Live(s)
    BY <1>4 DEF Refresh, In, Refreshable, Live
  <2>2. /\ request'[r].pc = "rotateInsert" /\ request'[r].input = q.input
        /\ request'[r].credential = session[s].credential
    BY <1>1, <2>1 DEF RequestRecords
  <2>3. RequestSerial(r)'
    BY <1>1, <2>1, <2>2 DEF RequestSerial, Rotating, PasswordSteps, Live, Exists
  <2> QED
    BY <1>1, <2>3, SerialRead
<1>5. CASE Logout(r) /\ ~Respond(r)
  <2>1. Advance(r, "revoke") /\ Live(q.input.subject)
    BY <1>5 DEF Logout, In
  <2>2. request'[r].pc = "revoke" /\ request'[r].input = q.input
    BY <1>1, <2>1 DEF Advance, RequestRecords
  <2>3. RequestSerial(r)'
    BY <1>1, <2>1, <2>2 DEF RequestSerial, Rotating, PasswordSteps, Live, Exists
  <2> QED
    BY <1>1, <2>3, SerialRead
<1>6. CASE Authenticate(r) /\ ~Respond(r)
  <2>1. Advance(r, "change") /\ account[q.user].registered
    BY <1>6 DEF Authenticate
  <2>2. request'[r].pc = "change" /\ request'[r].user = q.user
    BY <1>1, <2>1 DEF Advance, RequestRecords
  <2>3. RequestSerial(r)'
    BY <1>1, <2>1, <2>2 DEF RequestSerial, Rotating, PasswordSteps
  <2> QED
    BY <1>1, <2>3, SerialRead
<1>7. CASE Change(r) /\ ~Respond(r)
  <2>1. Advance(r, "setPassword") /\ q.pc = "change"
    BY <1>7 DEF Change, At
  <2>2. request'[r].pc = "setPassword" /\ request'[r].user = q.user /\ request'[r].input = q.input
    BY <1>1, <2>1 DEF Advance, RequestRecords
  <2>3. q.input.op = "change" /\ account[q.user].registered
    BY <1>1, <2>1 DEF RequestOK, RequestSerial
  <2>4. RequestSerial(r)'
    BY <1>1, <2>2, <2>3 DEF RequestSerial, Rotating, PasswordSteps
  <2> QED
    BY <1>1, <2>4, SerialRead
<1>8. CASE Reset(r) /\ ~Respond(r)
  <2> DEFINE t == q.input.subject
  <2>1. Advance(r, "setPassword") /\ q.pc = "reset" /\ t # None /\ token[t].uses = 0
    BY <1>8 DEF Reset, At, In
  <2>2. request'[r].pc = "setPassword" /\ request'[r].user = q.user /\ request'[r].input = q.input
    BY <1>1, <2>1 DEF Advance, RequestRecords
  <2>3. t \in Tokens /\ q.user \in Users /\ token[t].user = q.user
    BY <1>1, <2>1 DEF RequestOK
  <2>4. account[q.user].registered
    BY <2>3, AuthSessionsAssumption DEF SerialInv, TokenSerial, NoToken
  <2>5. RequestSerial(r)'
    BY <1>1, <2>1, <2>2, <2>4 DEF RequestSerial, Rotating, PasswordSteps
  <2> QED
    BY <1>1, <2>5, SerialRead
<1> QED
  BY <1>2, <1>3, <1>4, <1>5, <1>6, <1>7, <1>8

\* The statements of a password change before its commit.
LEMMA SerialPassword ==
  ASSUME IInv, SerialInv, Serial, NEW r \in Requests,
         SetPassword(r) \/ DeleteSessions(r) \/ LockSession(r)
  PROVE  SerialInv'
<1> DEFINE q == request[r]
<1>1. /\ UNCHANGED <<account, lastPassword, session, token>>
      /\ request \in [Requests -> RequestRecords] /\ RequestSerial(r)
      /\ q.pc \in PasswordSteps
  BY DEF SetPassword, DeleteSessions, LockSession, IInv, SerialInv, TypeOK, At, PasswordSteps
<1>2. CASE SetPassword(r)
  <2>1. request'[r].pc = "delete" /\ request'[r].user = q.user /\ request'[r].input = q.input
    BY <1>1, <1>2 DEF SetPassword, Advance, RequestRecords
  <2>2. RequestSerial(r)'
    BY <1>1, <2>1 DEF RequestSerial, Rotating, PasswordSteps
  <2> QED
    BY <1>1, <2>2, SerialRead
<1>3. CASE DeleteSessions(r)
  <2>1. /\ request'[r].pc = "lockRows" /\ request'[r].user = q.user /\ request'[r].input = q.input
        /\ request'[r].doomed = SessionsOf(q.user)
    BY <1>1, <1>3 DEF DeleteSessions, RequestRecords
  <2>2. RequestSerial(r)'
    BY <1>1, <2>1 DEF RequestSerial, Rotating, PasswordSteps, SessionsOf, Exists
  <2> QED
    BY <1>1, <2>2, SerialRead
<1>4. CASE LockSession(r)
  <2>1. request' = request
    BY <1>4 DEF LockSession
  <2>2. RequestSerial(r)'
    BY <1>1, <2>1 DEF RequestSerial, SessionsOf, Exists, Live
  <2> QED
    BY <1>1, <2>2, SerialRead
<1> QED
  BY <1>2, <1>3, <1>4

LEMMA SerialRegister ==
  ASSUME IInv, SerialInv, Serial, NEW r \in Requests, Register(r)
  PROVE  SerialInv'
<1> DEFINE u == request[r].user
<1>1. /\ UNCHANGED <<session, token>> /\ request[r].pc = "create"
      /\ TypeOK /\ RequestOK(r) /\ u \in Users
  BY DEF Register, IInv, At, RequestOK, UserSteps
<1>2. CASE account[u].registered
  BY <1>1, <1>2, SerialRespond DEF Register
<1>3. CASE ~account[u].registered
  <2>1. /\ account' = [ account EXCEPT ![u] =
             [registered |-> TRUE, active |-> TRUE, password |-> lastPassword + 1] ]
        /\ lastPassword' = lastPassword + 1 /\ lastPassword \in Nat
        /\ request' = [ request EXCEPT ![r].pc = "open", ![r].credential = lastPassword + 1 ]
    BY <1>1, <1>3 DEF Register, TypeOK
  <2>2. /\ account'[u].registered /\ account'[u].password = lastPassword + 1
        /\ \A x \in Users : x # u => account'[x] = account[x]
    BY <1>1, <2>1 DEF TypeOK
  <2>3. \A x \in Users : account[x].password \in Nat
    BY <1>1 DEF TypeOK, AccountRows
  <2>4. request'[r].pc = "open" /\ request'[r].user = u /\ request'[r].credential = lastPassword + 1
    BY <1>1, <2>1 DEF TypeOK, RequestRecords
  <2>5. RequestSerial(r)'
    BY <2>2, <2>4 DEF RequestSerial, Rotating, PasswordSteps
  <2>6. \A x \in Users : AccountSerial(x)'
    BY <2>1, <2>2, <2>3 DEF SerialInv, AccountSerial
  <2>7. ASSUME NEW s \in Sessions
        PROVE  SessionSerial(s)'
    <3>1. Live(s) => session[s].user \in Users
      BY DEF IInv, RowOK, Live, Exists
    <3> QED
      BY <1>1, <1>3, <2>2, <3>1 DEF SerialInv, SessionSerial, Live, Exists
  <2>8. ASSUME NEW t \in Tokens
        PROVE  TokenSerial(t)'
    <3>1. token[t] # NoToken => token[t].user \in Users
      BY DEF IInv, TokenOK
    <3> QED
      BY <1>1, <1>3, <2>2, <3>1 DEF SerialInv, TokenSerial
  <2> QED
    BY <2>5, <2>6, <2>7, <2>8, OnlyRequest DEF SerialInv
<1> QED
  BY <1>2, <1>3

LEMMA SerialOpen ==
  ASSUME IInv, SerialInv, Serial, NEW r \in Requests, OpenSession(r)
  PROVE  SerialInv'
<1> DEFINE q == request[r]
           new == NewSession("row", q.user, None, q.credential)
<1>1. /\ UNCHANGED <<account, lastPassword, token>> /\ Respond(r) /\ q.pc = "open"
      /\ TypeOK /\ RequestOK(r) /\ RequestSerial(r)
  BY DEF OpenSession, IInv, SerialInv, At
<1>2. PICK s \in Sessions : session' = [ session EXCEPT ![s] = new ]
  BY DEF OpenSession
<1>3. new.user = q.user /\ new.credential = q.credential
  BY DEF NewSession, NoSession
<1>4. session'[s] = new /\ \A x \in Sessions : x # s => session'[x] = session[x]
  BY <1>1, <1>2 DEF TypeOK
<1>5. \A x \in Sessions : SessionSerial(x)'
  BY <1>1, <1>3, <1>4 DEF SerialInv, SessionSerial, RequestSerial, Live, Exists
<1>6. RequestSerial(r)'
  BY <1>1, RespondShape, SerialIdle
<1> QED
  BY <1>1, <1>5, <1>6, OnlyRequest DEF SerialInv, AccountSerial, TokenSerial

LEMMA SerialRotateInsert ==
  ASSUME IInv, SerialInv, Serial, NEW r \in Requests, RotateInsert(r)
  PROVE  SerialInv'
<1> DEFINE q == request[r]
           parent == q.input.subject
           new == NewSession("pending", q.user, parent, q.credential)
<1>1. /\ UNCHANGED <<account, lastPassword, token>> /\ q.pc = "rotateInsert"
      /\ TypeOK /\ RequestOK(r) /\ RequestSerial(r)
  BY DEF RotateInsert, IInv, SerialInv, At
<1>2. PICK s \in Sessions :
        /\ session[s] = NoSession
        /\ session' = [ session EXCEPT ![s] = new ]
        /\ request' = [ request EXCEPT ![r].pc = "rotateUpdate", ![r].opened = s ]
  BY DEF RotateInsert, In
<1>3. new.state = "pending" /\ new.credential = q.credential
  BY DEF NewSession, NoSession
<1>4. /\ session'[s] = new /\ \A x \in Sessions : x # s => session'[x] = session[x]
      /\ session[s].state = "free"
  BY <1>1, <1>2, NoSessionShape DEF TypeOK
<1>5. /\ request'[r].pc = "rotateUpdate" /\ request'[r].opened = s
      /\ request'[r].input = q.input /\ request'[r].credential = q.credential
  BY <1>1, <1>2 DEF TypeOK, RequestRecords
<1>6. /\ Live(parent) /\ parent \in Sessions /\ parent # s /\ session'[parent] = session[parent]
      /\ q.credential = session[parent].credential
  BY <1>1, <1>4 DEF RequestSerial, RequestOK, RefreshSteps, Live, Exists
<1>7. \A x \in Sessions : SessionSerial(x)'
  BY <1>1, <1>3, <1>4 DEF SerialInv, SessionSerial, Live, Exists
<1>8. RequestSerial(r)'
  <2> HIDE DEF new
  <2> QED
    BY <1>3, <1>4, <1>5, <1>6 DEF RequestSerial, Rotating, PasswordSteps, Live, Exists
<1> QED
  BY <1>1, <1>7, <1>8, OnlyRequest DEF SerialInv, AccountSerial, TokenSerial

\* The transaction ends without commit.
LEMMA SerialRollBack ==
  ASSUME IInv, SerialInv, Serial, NEW r \in Requests, RollBack(r), Respond(r),
         UNCHANGED <<account, lastPassword, token>>
  PROVE  SerialInv'
<1>1. \A s \in Sessions : session'[s] \in {NoSession, session[s]}
  BY DEF RollBack
<1>2. \A s \in Sessions : SessionSerial(s)'
  BY <1>1, NoSessionShape DEF SerialInv, SessionSerial, Live, Exists
<1>3. RequestSerial(r)'
  BY RespondShape, SerialIdle DEF IInv
<1> QED
  BY <1>2, <1>3, OnlyRequest DEF SerialInv, AccountSerial, TokenSerial

LEMMA SerialRotateUpdate ==
  ASSUME IInv, SerialInv, Serial, NEW r \in Requests, RotateUpdate(r)
  PROVE  SerialInv'
<1> DEFINE q == request[r]
<1>1. /\ UNCHANGED <<account, lastPassword, token>> /\ q.pc = "rotateUpdate"
      /\ request \in [Requests -> RequestRecords] /\ RequestSerial(r)
  BY DEF RotateUpdate, IInv, SerialInv, At, TypeOK
<1>2. Exists(q.input.subject)
  BY <1>1 DEF RequestSerial, Live
<1>3. Advance(r, "rotateCommit") /\ session' = session
  BY <1>2 DEF RotateUpdate, In
<1>4. /\ request'[r].pc = "rotateCommit" /\ request'[r].input = q.input
      /\ request'[r].opened = q.opened /\ request'[r].credential = q.credential
  BY <1>1, <1>3 DEF Advance, RequestRecords
<1>5. RequestSerial(r)'
  BY <1>1, <1>3, <1>4 DEF RequestSerial, Rotating, PasswordSteps, Live, Exists
<1> QED
  BY <1>1, <1>3, <1>5, SerialRead

\* What a rotation commits: the successor has the user and the credential of
\* the session it replaces.
LEMMA CommitShape ==
  ASSUME IInv, SerialInv, NEW r \in Requests, RotateCommit(r)
  PROVE  LET s == In(r).subject
             successor == request[r].opened
         IN  /\ s \in Sessions /\ successor \in Sessions /\ successor # s
             /\ Live(s) /\ session[successor].state = "pending"
             /\ session'[s].state = "row" /\ session'[s].revoked
             /\ session'[successor].state = "row" /\ ~session'[successor].revoked
             /\ session'[successor].parent = s
             /\ session'[successor].user = session[s].user
             /\ session'[successor].credential = session[s].credential
             /\ session'[s].user = session[s].user
             /\ session'[s].parent = session[s].parent
             /\ session'[s].credential = session[s].credential
             /\ \A x \in Sessions : x \notin {s, successor} => session'[x] = session[x]
<1> DEFINE q == request[r]
           s == In(r).subject
           successor == q.opened
<1>1. /\ session' = [ session EXCEPT ![s].revoked = TRUE, ![s].replacedBy = successor,
                                     ![successor].state = "row" ]
      /\ TypeOK /\ RequestOK(r) /\ RequestSerial(r) /\ q.pc = "rotateCommit"
  BY DEF RotateCommit, IInv, SerialInv, At
<1>2. /\ s \in Sessions /\ Live(s) /\ q.credential = session[s].credential
      /\ q.user = session[s].user
      /\ successor \in Sessions /\ session[successor].state = "pending"
      /\ session[successor].parent = s /\ session[successor].user = q.user
      /\ session[successor].credential = q.credential
  BY <1>1, AuthSessionsAssumption
     DEF RequestOK, RequestSerial, RefreshSteps, Rotating, In, Live, Exists
<1>3. successor # s /\ ~session[successor].revoked /\ session[s].state = "row"
  BY <1>2 DEF IInv, RowOK, Live, Exists
<1> QED
  BY <1>1, <1>2, <1>3 DEF TypeOK, SessionRows

LEMMA SerialRotateCommit ==
  ASSUME IInv, SerialInv, Serial, NEW r \in Requests, RotateCommit(r)
  PROVE  SerialInv'
<1>1. UNCHANGED <<account, lastPassword, token>> /\ Respond(r) /\ TypeOK
  BY DEF RotateCommit, IInv
<1>2. \A x \in Sessions : SessionSerial(x)'
  BY <1>1, CommitShape DEF SerialInv, SessionSerial, Live, Exists
<1>3. RequestSerial(r)'
  BY <1>1, RespondShape, SerialIdle
<1> QED
  BY <1>1, <1>2, <1>3, OnlyRequest DEF SerialInv, AccountSerial, TokenSerial

LEMMA SerialRevoke ==
  ASSUME IInv, SerialInv, Serial, NEW r \in Requests, Revoke(r)
  PROVE  SerialInv'
<1>1. UNCHANGED <<account, lastPassword, token>> /\ Respond(r) /\ TypeOK
  BY DEF Revoke, IInv
<1>2. \A x \in Sessions :
        /\ session'[x].state = session[x].state /\ session'[x].user = session[x].user
        /\ session'[x].credential = session[x].credential
        /\ session[x].revoked => session'[x].revoked
  BY <1>1 DEF Revoke, TypeOK, SessionRows
<1>3. \A x \in Sessions : SessionSerial(x)'
  BY <1>1, <1>2 DEF SerialInv, SessionSerial, Live, Exists
<1>4. RequestSerial(r)'
  BY <1>1, RespondShape, SerialIdle
<1> QED
  BY <1>1, <1>3, <1>4, OnlyRequest DEF SerialInv, AccountSerial, TokenSerial

LEMMA SerialForgot ==
  ASSUME IInv, SerialInv, Serial, NEW r \in Requests, Forgot(r)
  PROVE  SerialInv'
<1>1. UNCHANGED <<account, lastPassword, session>> /\ Respond(r) /\ TypeOK
  BY DEF Forgot, IInv
<1>2. CASE token' = token
  BY <1>1, <1>2, SerialRespond
<1>3. CASE token' # token
  <2>1. PICK t \in Tokens : token' = [ token EXCEPT ![t].user = request[r].user ]
    BY <1>3 DEF Forgot
  <2>2. account[request[r].user].registered
    BY <1>3 DEF Forgot
  <2>3. \A x \in Tokens : TokenSerial(x)'
    BY <1>1, <2>1, <2>2 DEF TypeOK, TokenRows, SerialInv, TokenSerial
  <2>4. RequestSerial(r)'
    BY <1>1, RespondShape, SerialIdle
  <2> QED
    BY <1>1, <2>3, <2>4, OnlyRequest DEF SerialInv, AccountSerial, SessionSerial, Live, Exists
<1> QED
  BY <1>2, <1>3

LEMMA SerialCommitPassword ==
  ASSUME IInv, SerialInv, Serial, NEW r \in Requests, CommitPassword(r)
  PROVE  SerialInv'
<1> DEFINE q == request[r]
           u == q.user
<1>1. /\ account' = [ account EXCEPT ![u].password = lastPassword + 1 ]
      /\ lastPassword' = lastPassword + 1 /\ lastPassword \in Nat
      /\ session' = Deleted(q.doomed) /\ Respond(r) /\ q.pc = "lockRows"
      /\ TypeOK /\ RequestOK(r) /\ RequestSerial(r)
  BY DEF CommitPassword, IInv, SerialInv, At, TypeOK
<1>2. /\ u \in Users /\ account[u].registered /\ q.doomed = SessionsOf(u)
      /\ q.doomed \in SUBSET Sessions
  BY <1>1 DEF RequestOK, RequestSerial, PasswordSteps, TypeOK, RequestRecords
<1>3. \A x \in Users :
        /\ account[x].password \in Nat
        /\ account'[x].registered = account[x].registered
        /\ x = u => account'[x].password = lastPassword + 1
        /\ x # u => account'[x].password = account[x].password
  BY <1>1, <1>2 DEF TypeOK, AccountRows
<1>4. \A x \in Users : AccountSerial(x)'
  BY <1>1, <1>2, <1>3 DEF SerialInv, AccountSerial
<1>5. ASSUME NEW x \in Sessions
      PROVE  SessionSerial(x)'
  <2>1. /\ session'[x].user = session[x].user /\ session'[x].revoked = session[x].revoked
        /\ session'[x].credential = session[x].credential
        /\ x \in q.doomed => session'[x].state = "gone"
        /\ x \notin q.doomed => session'[x].state = session[x].state
    BY <1>1, <1>2, DeletedShape, AuthSessionsAssumption DEF TypeOK
  <2>2. Live(x) => session[x].user \in Users
    BY DEF IInv, RowOK, Live, Exists
  <2>3. x \notin q.doomed /\ Live(x) => session[x].user # u
    BY <1>2 DEF SessionsOf, Live
  <2> QED
    BY <1>3, <2>1, <2>2, <2>3 DEF SerialInv, SessionSerial, Live, Exists
<1>6. ASSUME NEW t \in Tokens
      PROVE  TokenSerial(t)'
  <2>1. token[t] # NoToken => token[t].user \in Users
    BY DEF IInv, TokenOK
  <2>2. token' # token =>
          /\ In(r).subject \in Tokens
          /\ token' = [ token EXCEPT ![In(r).subject].uses = @ + 1 ]
          /\ token[In(r).subject].user = u
    BY <1>1 DEF CommitPassword, RequestOK, PasswordSteps, In
  <2>3. token'[t].user = token[t].user
    BY <1>1, <2>2 DEF TypeOK, TokenRows
  <2>4. token'[t] # NoToken => token[t] # NoToken
    <3>1. CASE token' # token /\ t = In(r).subject
      BY <1>2, <2>2, <3>1, AuthSessionsAssumption DEF NoToken
    <3>2. CASE token' # token /\ t # In(r).subject
      BY <1>1, <2>2, <3>2 DEF TypeOK
    <3> QED
      BY <3>1, <3>2
  <2> QED
    BY <1>3, <2>1, <2>3, <2>4 DEF SerialInv, TokenSerial
<1>7. RequestSerial(r)'
  BY <1>1, RespondShape, SerialIdle
<1> QED
  BY <1>4, <1>5, <1>6, <1>7, OnlyRequest DEF SerialInv

\* Neither the clock nor an administrator changes what is compared.
LEMMA EnvironmentShape ==
  ASSUME TypeOK, Environment
  PROVE  /\ UNCHANGED <<lastPassword, request>>
         /\ \A u \in Users : /\ account'[u].registered = account[u].registered
                             /\ account'[u].password = account[u].password
         /\ \A s \in Sessions :
              /\ session'[s].state = session[s].state /\ session'[s].user = session[s].user
              /\ session'[s].parent = session[s].parent
              /\ session'[s].revoked = session[s].revoked
              /\ session'[s].credential = session[s].credential
         /\ \A t \in Tokens :
              /\ token'[t].user = token[t].user /\ token'[t].uses = token[t].uses
              /\ token'[t] # NoToken => token[t] # NoToken
<1>1. CASE \E u \in Users : SetActive(u)
  BY <1>1 DEF SetActive, TypeOK, AccountRows
<1>2. CASE \E s \in Sessions : Expire(s)
  BY <1>2 DEF Expire, TypeOK, SessionRows
<1>3. CASE \E t \in Tokens : ExpireToken(t)
  <2>1. PICK t \in Tokens :
          /\ token[t] # NoToken
          /\ token' = [ token EXCEPT ![t].expired = TRUE ]
          /\ UNCHANGED <<account, session, lastPassword, request>>
    BY <1>3 DEF ExpireToken
  <2> QED
    BY <2>1 DEF TypeOK, TokenRows
<1> QED
  BY <1>1, <1>2, <1>3 DEF Environment

LEMMA SerialEnvironment ==
  ASSUME IInv, SerialInv, Serial, Environment
  PROVE  SerialInv'
<1>1. TypeOK
  BY DEF IInv
<1> USE EnvironmentShape
<1>2. \A u \in Users : AccountSerial(u)'
  BY <1>1 DEF SerialInv, AccountSerial
<1>3. \A s \in Sessions : SessionSerial(s)'
  <2>1. \A s \in Sessions : Live(s) => session[s].user \in Users
    BY DEF IInv, RowOK, Live, Exists
  <2> QED
    BY <1>1, <2>1 DEF SerialInv, SessionSerial, Live, Exists
<1>4. \A t \in Tokens : TokenSerial(t)'
  BY <1>1 DEF SerialInv, TokenSerial, IInv, TokenOK
<1>5. ASSUME NEW r \in Requests
      PROVE  RequestSerial(r)'
  <2>1. RequestSerial(r) /\ RequestOK(r) /\ request' = request
    BY <1>1 DEF SerialInv, IInv
  <2>2. \A u : SessionsOf(u)' = SessionsOf(u)
    BY <1>1 DEF SessionsOf, Exists
  <2>3. request[r].pc \in {"rotateInsert", "rotateUpdate", "rotateCommit", "revoke"} =>
          request[r].input.subject \in Sessions
    BY <2>1 DEF RequestOK, RefreshSteps, LogoutSteps
  <2>4. Rotating(request[r]) => request[r].opened \in Sessions
    BY <2>1 DEF RequestOK
  <2>5. request[r].pc \in PasswordSteps \cup {"open", "change"} => request[r].user \in Users
    BY <2>1 DEF RequestOK, UserSteps
  <2>6. request[r].pc \in PasswordSteps /\ request[r].input.op = "reset" =>
          request[r].input.subject \in Tokens
    BY <2>1 DEF RequestOK
  <2> QED
    BY <1>1, <2>1, <2>2, <2>3, <2>4, <2>5, <2>6 DEF RequestSerial, Live, Exists
<1> QED
  BY <1>2, <1>3, <1>4, <1>5 DEF SerialInv

LEMMA SerialInitially == Init => SerialInv
<1> SUFFICES ASSUME Init
             PROVE  SerialInv
  OBVIOUS
<1>1. ASSUME NEW u \in Users
      PROVE  AccountSerial(u)
  <2>1. CASE u \in Registered
    <3>1. account[u].registered /\ account[u].password = 1 /\ lastPassword = 1
      BY <2>1 DEF Init
    <3> QED
      BY <3>1 DEF AccountSerial
  <2>2. CASE u \notin Registered
    <3>1. ~account[u].registered /\ account[u].password = 0 /\ lastPassword = 1
      BY <2>2 DEF Init
    <3> QED
      BY <3>1 DEF AccountSerial
  <2> QED
    BY <2>1, <2>2
<1>2. \A s \in Sessions : SessionSerial(s)
  BY NoSessionShape DEF Init, SessionSerial, Live, Exists
<1>3. \A t \in Tokens : TokenSerial(t)
  BY DEF Init, TokenSerial
<1>4. \A r \in Requests : RequestSerial(r)
  BY DEF Init, RequestSerial, Idle, Rotating, PasswordSteps
<1> QED
  BY <1>1, <1>2, <1>3, <1>4 DEF SerialInv

LEMMA SerialNext == IInv /\ SerialInv /\ Serial /\ [Next]_vars => SerialInv'
<1> SUFFICES ASSUME IInv, SerialInv, Serial, [Next]_vars
             PROVE  SerialInv'
  OBVIOUS
<1>1. CASE \E r \in Requests, input \in Inputs : Arrive(r, input)
  BY <1>1, SerialArrive
<1>2. CASE \E r \in Requests : Step(r)
  BY <1>2, SerialRegister, SerialCheck, SerialOpen, SerialRotateInsert, SerialRotateUpdate,
     SerialRotateCommit, SerialRevoke, SerialForgot, SerialPassword, SerialCommitPassword DEF Step
<1>3. CASE \E r \in Requests : Abort(r)
  BY <1>3, SerialRollBack DEF Abort
<1>4. CASE Environment
  BY <1>4, SerialEnvironment
<1>5. CASE UNCHANGED vars
  BY <1>5 DEF SerialInv, AccountSerial, SessionSerial, TokenSerial, RequestSerial, Live, Exists,
              SessionsOf, vars
<1> QED
  BY <1>1, <1>2, <1>3, <1>4, <1>5 DEF Next

LEMMA SerialInvariance ==
  ASSUME Serial
  PROVE  Spec => [](IInv /\ SerialInv)
<1>1. Init => IInv /\ SerialInv
  BY InitiallyOK, SerialInitially
<1>2. (IInv /\ SerialInv) /\ [Next]_vars => (IInv /\ SerialInv)'
  BY NextOK, SerialNext
<1> QED
  BY <1>1, <1>2, PTL DEF Spec

-------------------------------------------------------------------------------
(* The refinement mapping, step by step.                                   *)

\* What SessionLife sees of the rows: its variables, as ImplementsSessionLife
\* substitutes them.
Seen(s) ==
  IF session[s].state \in {"free", "pending"}
    THEN [state |-> "none", user |-> None, parent |-> None, credential |-> 0]
    ELSE [ state      |-> IF Live(s) THEN "live" ELSE "ended",
           user       |-> session[s].user,
           parent     |-> session[s].parent,
           credential |-> session[s].credential ]

LifeSession  == [ s \in Sessions |-> Seen(s) ]
LifePassword == [ u \in Users |-> account[u].password ]
LifeUses     == [ t \in Tokens |-> token[t].uses ]

\* Nothing that SessionLife sees has changed.
LEMMA MapStutter ==
  ASSUME \A s \in Sessions : Seen(s)' = Seen(s),
         \A u \in Users : account'[u].password = account[u].password,
         \A t \in Tokens : token'[t].uses = token[t].uses
  PROVE  UNCHANGED Life!vars
<1>1. LifeSession' = LifeSession /\ LifePassword' = LifePassword /\ LifeUses' = LifeUses
  BY DEF LifeSession, LifePassword, LifeUses
<1> QED
  BY <1>1 DEF LifeSession, LifePassword, LifeUses, Seen, Life!vars

LEMMA MapRegister ==
  ASSUME IInv, SerialInv, NEW r \in Requests, Register(r)
  PROVE  Life!Next \/ UNCHANGED Life!vars
<1> DEFINE u == request[r].user
<1>1. /\ UNCHANGED <<session, token>> /\ TypeOK /\ RequestOK(r) /\ u \in Users
  BY DEF Register, IInv, At, RequestOK, UserSteps
<1>2. CASE account[u].registered
  <2>1. account' = account
    BY <1>2 DEF Register
  <2> QED
    BY <1>1, <2>1, MapStutter DEF Seen, Live, Exists
<1>3. CASE ~account[u].registered
  <2>1. /\ account' = [ account EXCEPT ![u] =
             [registered |-> TRUE, active |-> TRUE, password |-> lastPassword + 1] ]
        /\ lastPassword \in Nat
    BY <1>1, <1>3 DEF Register, TypeOK
  <2>2. account[u].password = 0
    BY <1>1, <1>3 DEF SerialInv, AccountSerial
  <2>3. /\ LifePassword[u] = 0 /\ LifePassword'[u] # 0
        /\ LifePassword' = [ LifePassword EXCEPT ![u] = LifePassword'[u] ]
    BY <1>1, <2>1, <2>2 DEF LifePassword, TypeOK
  <2>4. LifeSession' = LifeSession /\ LifeUses' = LifeUses
    BY <1>1 DEF LifeSession, LifeUses, Seen, Live, Exists
  <2>5. PICK x \in Users : x = u
    BY <1>1
  <2>6. Life!Register(x)
    BY <2>3, <2>4, <2>5 DEF Life!Register, LifeSession, LifePassword, LifeUses, Seen
  <2> QED
    BY <2>6 DEF Life!Next
<1> QED
  BY <1>2, <1>3

LEMMA MapOpen ==
  ASSUME IInv, SerialInv, NEW r \in Requests, OpenSession(r)
  PROVE  Life!Next
<1> DEFINE q == request[r]
           new == NewSession("row", q.user, None, q.credential)
<1>1. /\ UNCHANGED <<account, lastPassword, token>> /\ q.pc = "open"
      /\ TypeOK /\ RequestOK(r) /\ RequestSerial(r)
  BY DEF OpenSession, IInv, SerialInv, At
<1>2. PICK s \in Sessions : session[s] = NoSession /\ session' = [ session EXCEPT ![s] = new ]
  BY DEF OpenSession
<1>3. /\ new.state = "row" /\ ~new.revoked /\ new.user = q.user /\ new.parent = None
      /\ new.credential = q.credential
  BY DEF NewSession, NoSession
<1>4. /\ session'[s] = new /\ \A x \in Sessions : x # s => session'[x] = session[x]
      /\ session[s].state = "free"
  BY <1>1, <1>2, NoSessionShape DEF TypeOK
<1>5. /\ q.user \in Users /\ account[q.user].password = q.credential
      /\ account[q.user].password # 0
  BY <1>1 DEF RequestOK, UserSteps, RequestSerial, SerialInv, AccountSerial
<1> HIDE DEF new
<1>6. /\ LifeSession[s] = [state |-> "none", user |-> None, parent |-> None, credential |-> 0]
      /\ LifeSession' = [ LifeSession EXCEPT ![s] =
           [state |-> "live", user |-> q.user, parent |-> None,
            credential |-> LifePassword[q.user]] ]
  BY <1>3, <1>4, <1>5 DEF LifeSession, LifePassword, Seen, Live, Exists
<1>7. LifePassword[q.user] # 0 /\ LifePassword' = LifePassword /\ LifeUses' = LifeUses
  BY <1>1, <1>5 DEF LifePassword, LifeUses
<1>8. PICK u \in Users : u = q.user
  BY <1>5
<1>9. Life!Open(s, u)
  BY <1>6, <1>7, <1>8
     DEF Life!Open, Life!Live, Life!NoSession, LifeSession, LifePassword, LifeUses, Seen
<1> QED
  BY <1>9 DEF Life!Next

\* What it is to end one session of many.
LEMMA EndShape ==
  ASSUME NEW f, NEW s \in Sessions, NEW u, NEW p, NEW c, NEW ended,
         f = [ x \in Sessions |-> f[x] ],
         f[s] = [state |-> "live", user |-> u, parent |-> p, credential |-> c],
         ended = [state |-> "ended", user |-> u, parent |-> p, credential |-> c]
  PROVE  [ f EXCEPT ![s].state = "ended" ]
           = [ x \in Sessions |-> IF x = s THEN ended ELSE f[x] ]
<1>1. [ f EXCEPT ![s].state = "ended" ]
        = [ x \in Sessions |-> IF x = s THEN [f[s] EXCEPT !.state = "ended"] ELSE f[x] ]
  OBVIOUS
<1>2. [f[s] EXCEPT !.state = "ended"] = ended
  OBVIOUS
<1> QED
  BY <1>1, <1>2

LEMMA MapRotate ==
  ASSUME IInv, SerialInv, NEW r \in Requests, RotateCommit(r)
  PROVE  Life!Next
<1>1. UNCHANGED <<account, lastPassword, token>> /\ TypeOK
  BY DEF RotateCommit, IInv
<1>2. PICK s \in Sessions, successor \in Sessions :
        /\ successor # s
        /\ session[s].state = "row" /\ ~session[s].revoked
        /\ session[successor].state = "pending"
        /\ session'[s].state = "row" /\ session'[s].revoked
        /\ session'[successor].state = "row" /\ ~session'[successor].revoked
        /\ session'[successor].parent = s
        /\ session'[successor].user = session[s].user
        /\ session'[successor].credential = session[s].credential
        /\ session'[s].user = session[s].user
        /\ session'[s].parent = session[s].parent
        /\ session'[s].credential = session[s].credential
        /\ \A x \in Sessions : x \notin {s, successor} => session'[x] = session[x]
  BY CommitShape DEF Live, Exists
<1>3. session[s].user \in Users /\ session[s].credential = account[session[s].user].password
  BY <1>2 DEF IInv, RowOK, SerialInv, SessionSerial, Live, Exists
<1>4. /\ LifeSession[s].state = "live" /\ LifeSession[s].user = session[s].user
      /\ LifeSession[successor] = [state |-> "none", user |-> None, parent |-> None, credential |-> 0]
      /\ LifeSession' = [ LifeSession EXCEPT
           ![s].state = "ended",
           ![successor] = [state |-> "live", user |-> session[s].user, parent |-> s,
                           credential |-> LifePassword[session[s].user]] ]
  <2>1. LifePassword[session[s].user] = session[s].credential
    BY <1>3 DEF LifePassword
  <2>2. /\ Seen(s) = [state |-> "live", user |-> session[s].user, parent |-> session[s].parent,
                      credential |-> session[s].credential]
        /\ Seen(s)' = [state |-> "ended", user |-> session[s].user, parent |-> session[s].parent,
                       credential |-> session[s].credential]
    BY <1>2 DEF Seen, Live, Exists
  <2>3. /\ Seen(successor) = [state |-> "none", user |-> None, parent |-> None, credential |-> 0]
        /\ Seen(successor)' = [state |-> "live", user |-> session[s].user, parent |-> s,
                               credential |-> session[s].credential]
    BY <1>2 DEF Seen, Live, Exists
  <2>4. \A x \in Sessions : x \notin {s, successor} => Seen(x)' = Seen(x)
    BY <1>2 DEF Seen, Live, Exists
  <2>5. LifeSession = [ x \in Sessions |-> LifeSession[x] ] /\ LifeSession[s] = Seen(s)
    BY DEF LifeSession
  <2>6. [ LifeSession EXCEPT ![s].state = "ended" ]
          = [ x \in Sessions |-> IF x = s THEN Seen(s)' ELSE LifeSession[x] ]
    BY <2>2, <2>5, EndShape
  <2> DEFINE new == [state |-> "live", user |-> session[s].user, parent |-> s,
                     credential |-> LifePassword[session[s].user]]
             first == [ LifeSession EXCEPT ![s].state = "ended" ]
  <2>7. LifeSession' = [ x \in Sessions |-> IF x = successor THEN new ELSE first[x] ]
    BY <1>2, <2>1, <2>3, <2>4, <2>6 DEF LifeSession
  <2>8. DOMAIN first = Sessions
    BY <2>6
  <2>9. [ LifeSession EXCEPT ![s].state = "ended", ![successor] = new ]
          = [ first EXCEPT ![successor] = new ]
    OBVIOUS
  <2> HIDE DEF new, first
  <2>10. LifeSession' = [ first EXCEPT ![successor] = new ]
    BY <2>7, <2>8
  <2> USE DEF new, first
  <2>11. LifeSession[s].state = "live" /\ LifeSession[s].user = session[s].user
    BY <2>2, <2>5
  <2>12. LifeSession[successor]
           = [state |-> "none", user |-> None, parent |-> None, credential |-> 0]
    BY <2>3 DEF LifeSession
  <2> QED
    BY <2>9, <2>10, <2>11, <2>12
<1>5. LifePassword' = LifePassword /\ LifeUses' = LifeUses
  BY <1>1 DEF LifePassword, LifeUses
<1>6. Life!Rotate(s, successor)
  BY <1>4, <1>5
     DEF Life!Rotate, Life!Live, Life!NoSession, LifeSession, LifePassword, LifeUses, Seen
<1> QED
  BY <1>6 DEF Life!Next

LEMMA MapEnd ==
  ASSUME IInv, SerialInv, NEW r \in Requests, Revoke(r)
  PROVE  Life!Next
<1> DEFINE subject == request[r].input.subject
<1>1. /\ UNCHANGED <<account, lastPassword, token>> /\ TypeOK
      /\ RequestOK(r) /\ RequestSerial(r) /\ request[r].pc = "revoke"
  BY DEF Revoke, At, IInv, SerialInv
<1>2. PICK s \in Sessions : s = subject
  BY <1>1 DEF RequestOK, LogoutSteps
<1>3. /\ session[s].state = "row" /\ ~session[s].revoked
      /\ session' = [ session EXCEPT ![s].revoked = TRUE ]
  BY <1>1, <1>2 DEF RequestSerial, Live, Exists, Revoke, In
<1>4. /\ session'[s].state = "row" /\ session'[s].revoked
      /\ session'[s].user = session[s].user /\ session'[s].parent = session[s].parent
      /\ session'[s].credential = session[s].credential
      /\ \A x \in Sessions : x # s => session'[x] = session[x]
  BY <1>1, <1>3 DEF TypeOK, SessionRows
<1>5. LifeSession[s].state = "live" /\ LifeSession' = [ LifeSession EXCEPT ![s].state = "ended" ]
  <2>1. /\ Seen(s) = [state |-> "live", user |-> session[s].user, parent |-> session[s].parent,
                      credential |-> session[s].credential]
        /\ Seen(s)' = [state |-> "ended", user |-> session[s].user, parent |-> session[s].parent,
                       credential |-> session[s].credential]
    BY <1>3, <1>4 DEF Seen, Live, Exists
  <2>2. \A x \in Sessions : x # s => Seen(x)' = Seen(x)
    BY <1>4 DEF Seen, Live, Exists
  <2>3. LifeSession = [ x \in Sessions |-> LifeSession[x] ] /\ LifeSession[s] = Seen(s)
    BY DEF LifeSession
  <2>4. [ LifeSession EXCEPT ![s].state = "ended" ]
          = [ x \in Sessions |-> IF x = s THEN Seen(s)' ELSE LifeSession[x] ]
    BY <2>1, <2>3, EndShape
  <2> QED
    BY <2>1, <2>2, <2>4 DEF LifeSession
<1>6. LifePassword' = LifePassword /\ LifeUses' = LifeUses
  BY <1>1 DEF LifePassword, LifeUses
<1>7. Life!End(s)
  BY <1>5, <1>6 DEF Life!End, LifeSession, LifePassword, LifeUses, Seen
<1> QED
  BY <1>7 DEF Life!Next

LEMMA MapSetPassword ==
  ASSUME IInv, SerialInv, NEW r \in Requests, CommitPassword(r)
  PROVE  Life!Next
<1> DEFINE q == request[r]
<1>1. /\ account' = [ account EXCEPT ![q.user].password = lastPassword + 1 ]
      /\ lastPassword \in Nat
      /\ session' = Deleted(q.doomed) /\ q.pc = "lockRows"
      /\ TypeOK /\ RequestOK(r) /\ RequestSerial(r)
  BY DEF CommitPassword, IInv, SerialInv, At, TypeOK
<1>2. PICK u \in Users : u = q.user
  BY <1>1 DEF RequestOK, PasswordSteps
<1>3. /\ account[u].registered /\ q.doomed = SessionsOf(u) /\ q.doomed \in SUBSET Sessions
      /\ account[u].password # 0 /\ account[u].password <= lastPassword
      /\ account[u].password \in Nat
  BY <1>1, <1>2 DEF RequestSerial, PasswordSteps, TypeOK, RequestRecords, SerialInv,
                    AccountSerial, AccountRows
<1>4. /\ LifePassword[u] # 0 /\ LifePassword'[u] # LifePassword[u]
      /\ LifePassword' = [ LifePassword EXCEPT ![u] = LifePassword'[u] ]
  <2>1. account'[u].password = lastPassword + 1 /\ lastPassword + 1 # account[u].password
    BY <1>1, <1>2, <1>3 DEF TypeOK, AccountRows
  <2>2. \A x \in Users : x # u => account'[x].password = account[x].password
    BY <1>1, <1>2 DEF TypeOK
  <2> QED
    BY <1>3, <2>1, <2>2 DEF LifePassword
<1>5. LifeSession' = [ s \in Sessions |->
                         IF LifeSession[s].user = u
                           THEN [LifeSession[s] EXCEPT !.state = "ended"] ELSE LifeSession[s] ]
  <2> SUFFICES ASSUME NEW s \in Sessions
               PROVE  Seen(s)' = IF Seen(s).user = u
                                   THEN [Seen(s) EXCEPT !.state = "ended"] ELSE Seen(s)
    BY DEF LifeSession
  <2>1. /\ session'[s].user = session[s].user /\ session'[s].revoked = session[s].revoked
        /\ session'[s].parent = session[s].parent
        /\ session'[s].credential = session[s].credential
        /\ s \in q.doomed => session'[s].state = "gone"
        /\ s \notin q.doomed => session'[s].state = session[s].state
    BY <1>1, <1>3, DeletedShape, AuthSessionsAssumption DEF TypeOK
  <2>2. s \in q.doomed <=> session[s].state = "row" /\ session[s].user = u
    BY <1>3 DEF SessionsOf, Exists
  <2>3. u # None /\ session[s] \in SessionRows
    BY <1>1, AuthSessionsAssumption DEF TypeOK
  <2> DEFINE ended == [state |-> "ended", user |-> session[s].user,
                       parent |-> session[s].parent, credential |-> session[s].credential]
             none == [state |-> "none", user |-> None, parent |-> None, credential |-> 0]
  <2>4. CASE session[s].state \in {"free", "pending"}
    <3>1. Seen(s) = none /\ Seen(s)' = none /\ none.user # u
      BY <2>1, <2>2, <2>3, <2>4 DEF Seen
    <3> QED
      BY <3>1
  <2>5. CASE session[s].state \in {"row", "gone"} /\ session[s].user = u
    <3>1. Seen(s)' = ended
      BY <2>1, <2>2, <2>5 DEF Seen, Live, Exists
    <3>2. Seen(s).user = u /\ [Seen(s) EXCEPT !.state = "ended"] = ended
      BY <2>5 DEF Seen
    <3> QED
      BY <3>1, <3>2
  <2>6. CASE session[s].state \in {"row", "gone"} /\ session[s].user # u
    <3>1. Seen(s)' = Seen(s)
      BY <2>1, <2>2, <2>6 DEF Seen, Live, Exists
    <3>2. Seen(s).user # u
      BY <2>6 DEF Seen
    <3> QED
      BY <3>1, <3>2
  <2> QED
    BY <2>3, <2>4, <2>5, <2>6 DEF SessionRows
<1>6. \/ LifeUses' = LifeUses
      \/ \E t \in Tokens : LifeUses[t] = 0 /\ LifeUses' = [ LifeUses EXCEPT ![t] = 1 ]
  <2>1. CASE token' = token
    BY <2>1 DEF LifeUses
  <2>2. CASE token' # token
    <3>1. /\ q.input.op = "reset"
          /\ token' = [ token EXCEPT ![q.input.subject].uses = @ + 1 ]
      BY <2>2 DEF CommitPassword, In
    <3>2. PICK t \in Tokens : t = q.input.subject
      BY <1>1, <3>1 DEF RequestOK, PasswordSteps
    <3>3. token[t].uses = 0
      BY <1>1, <3>1, <3>2 DEF RequestSerial, PasswordSteps
    <3>4. token'[t].uses = 1 /\ \A x \in Tokens : x # t => token'[x].uses = token[x].uses
      BY <1>1, <3>1, <3>2, <3>3 DEF TypeOK, TokenRows
    <3> QED
      BY <3>2, <3>3, <3>4 DEF LifeUses
  <2> QED
    BY <2>1, <2>2
<1>7. Life!SetPassword(u)
  BY <1>4, <1>5, <1>6 DEF Life!SetPassword, LifeSession, LifePassword, LifeUses, Seen
<1> QED
  BY <1>7 DEF Life!Next

\* All other steps are invisible: what they insert is not committed, what they
\* take back was not either, and reads, locks and expiry dates are not seen.
LEMMA MapInvisible ==
  ASSUME IInv, SerialInv, NEW r \in Requests,
         \/ \E input \in Inputs : Arrive(r, input)
         \/ Login(r) \/ Refresh(r) \/ RotateInsert(r) \/ RotateUpdate(r) \/ Logout(r)
         \/ Authenticate(r) \/ Change(r) \/ Forgot(r) \/ Reset(r)
         \/ SetPassword(r) \/ DeleteSessions(r) \/ LockSession(r) \/ Abort(r)
  PROVE  UNCHANGED Life!vars
<1>1. TypeOK /\ RequestOK(r) /\ RequestSerial(r) /\ UNCHANGED account
  BY DEF IInv, SerialInv, Arrive, Login, Refresh, RotateInsert, RotateUpdate, Logout,
         Authenticate, Change, Forgot, Reset, SetPassword, DeleteSessions, LockSession, Abort
<1>2. \A t \in Tokens : token'[t].uses = token[t].uses
  <2>1. CASE token' = token
    BY <2>1
  <2>2. CASE token' # token
    <3>1. PICK t \in Tokens : token' = [ token EXCEPT ![t].user = request[r].user ]
      BY <2>2 DEF Arrive, Login, Refresh, RotateInsert, RotateUpdate, Logout, Authenticate,
                  Change, Forgot, Reset, SetPassword, DeleteSessions, LockSession, Abort
    <3> QED
      BY <1>1, <3>1 DEF TypeOK, TokenRows
  <2> QED
    BY <2>1, <2>2
<1>3. \A s \in Sessions : Seen(s)' = Seen(s)
  <2>1. CASE session' = session
    BY <2>1 DEF Seen, Live, Exists
  <2>2. CASE RotateInsert(r)
    <3> DEFINE new == NewSession("pending", request[r].user, In(r).subject, request[r].credential)
    <3>1. PICK s \in Sessions :
            session[s] = NoSession /\ session' = [ session EXCEPT ![s] = new ]
      BY <2>2 DEF RotateInsert
    <3>2. new.state = "pending" /\ session[s].state = "free"
      BY <3>1, NoSessionShape DEF NewSession, NoSession
    <3> HIDE DEF new
    <3> QED
      BY <1>1, <3>1, <3>2 DEF TypeOK, Seen, Live, Exists
  <2>3. CASE RollBack(r)
    <3>1. \A s \in Sessions : s = request[r].opened => session[s].state = "pending"
      BY <1>1, AuthSessionsAssumption DEF RequestOK
    <3> QED
      BY <2>3, <3>1, NoSessionShape DEF RollBack, Seen, Live, Exists
  <2> QED
    BY <2>1, <2>2, <2>3 DEF Arrive, Login, Refresh, RotateUpdate, Logout, Authenticate,
         Change, Forgot, Reset, SetPassword, DeleteSessions, LockSession, Abort
<1> QED
  BY <1>1, <1>2, <1>3, MapStutter

LEMMA MapNext ==
  ASSUME IInv, SerialInv, [Next]_vars
  PROVE  Life!Next \/ UNCHANGED Life!vars
<1>1. CASE \E r \in Requests, input \in Inputs : Arrive(r, input)
  BY <1>1, MapInvisible
<1>2. CASE \E r \in Requests : Step(r) \/ Abort(r)
  BY <1>2, MapRegister, MapOpen, MapRotate, MapEnd, MapSetPassword, MapInvisible DEF Step
<1>3. CASE Environment
  <2>1. TypeOK
    BY DEF IInv
  <2> QED
    BY <1>3, <2>1, EnvironmentShape, MapStutter DEF Seen, Live, Exists
<1>4. CASE UNCHANGED vars
  BY <1>4, MapStutter DEF vars, Seen, Live, Exists
<1> QED
  BY <1>1, <1>2, <1>3, <1>4 DEF Next

LEMMA MapInit == Init => Life!Init
<1> SUFFICES ASSUME Init
             PROVE  Life!Init
  OBVIOUS
<1>1. LifeSession = [ s \in Sessions |->
        [state |-> "none", user |-> None, parent |-> None, credential |-> 0] ]
  BY NoSessionShape DEF Init, LifeSession, Seen
<1>2. LifePassword \in [Users -> Nat]
  BY DEF Init, LifePassword
<1>3. LifeUses = [ t \in Tokens |-> 0 ]
  BY DEF Init, LifeUses, NoToken
<1> QED
  BY <1>1, <1>2, <1>3
     DEF Life!Init, Life!NoSession, LifeSession, LifePassword, LifeUses, Seen

\* The auth API (AuthService) keeps the promises of SessionLife when requests do
\* not overlap: a session is opened with the current password, rotated once,
\* and is over when the password changes; a reset token works once.
THEOREM SerialImplementation ==
  ASSUME Serial
  PROVE  Spec => ImplementsSessionLife
<1>1. IInv /\ SerialInv /\ [Next]_vars => [Life!Next]_Life!vars
  BY MapNext
<1> QED
  BY <1>1, MapInit, SerialInvariance, PTL DEF Spec, ImplementsSessionLife, Life!Spec
===============================================================================
