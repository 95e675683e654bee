----------------------------- MODULE AuthSessions -----------------------------
(***************************************************************************)
(* AuthService: accounts, refresh sessions and password-reset tokens.      *)
(*                                                                         *)
(* Every request occupies a slot and advances by database statements, as   *)
(* PostgreSQL runs them at READ COMMITTED.  A read sees what is committed  *)
(* and locks nothing.  An UPDATE or DELETE waits for the lock of its row   *)
(* and then acts on what the row has become; it keeps the lock until its   *)
(* transaction ends.  Rotation is one transaction of two statements, a     *)
(* password change or reset one of three; other writes commit at once.     *)
(*                                                                         *)
(* Passwords are numbered in the order they are chosen, so that "the       *)
(* password this session was opened with" is a number to compare.  Every   *)
(* refresh token is genuine and names its session: the bcrypt comparison   *)
(* of a genuine token always succeeds.                                     *)
(***************************************************************************)
EXTENDS Naturals, FiniteSets

CONSTANTS
  Users,         \* user ids; each has its own e-mail
  Registered,    \* the users that have an account when the run starts
  Sessions,      \* ids a session row may get
  Tokens,        \* ids a reset token may get
  Requests,      \* request slots: how many requests can be in flight
  Operations,    \* the endpoints the clients call in this instance
  MaxPasswords,  \* bound on the passwords ever chosen
  None

Endpoints ==
  {"register", "login", "refresh", "logout", "change", "forgot", "reset"}

ASSUME AuthSessionsAssumption ==
  /\ Registered \subseteq Users
  /\ IsFiniteSet(Sessions) /\ IsFiniteSet(Requests)
  /\ Operations \subseteq Endpoints
  /\ MaxPasswords \in Nat \ {0}
  /\ None \notin Users \cup Sessions \cup Tokens \cup Requests
  /\ Users \cap Sessions = {}

VARIABLES
  account,       \* table User: [registered, active, password]
  lastPassword,  \* the number of the password chosen last
  session,       \* table AuthSession, by id
  token,         \* table PasswordResetToken, by id
  lock,          \* the request whose transaction holds a row, or None
  request        \* what each request slot is doing

vars == <<account, lastPassword, session, token, lock, request>>

-------------------------------------------------------------------------------
(* Rows and requests.                                                      *)

\* "pending" is a row its transaction has not committed, "gone" a deleted one.
\* parent and credential are history: the session it replaced, and the
\* password that was presented when its lineage was opened.
NoSession ==
  [ state |-> "free", user |-> None, revoked |-> FALSE, expired |-> FALSE,
    replacedBy |-> None, parent |-> None, credential |-> 0 ]

NewSession(state, u, parent, credential) ==
  [ NoSession EXCEPT !.state = state, !.user = u, !.parent = parent,
                     !.credential = credential ]

\* usedAt is set when uses, the number of resets the token has made, is not 0.
NoToken == [user |-> None, uses |-> 0, expired |-> FALSE]

Exists(s)  == session[s].state = "row"
Live(s)    == Exists(s) /\ ~session[s].revoked
Issued(s)  == session[s].state \in {"row", "gone"}
SessionsOf(u) == { s \in Sessions : Exists(s) /\ session[s].user = u }

Input(op, u, subject, password) ==
  [op |-> op, user |-> u, subject |-> subject, password |-> password]

\* What a client can send: any user and password, tokens it was once given,
\* or a cookie or link that names nothing (None).
Inputs ==
  { Input("register", u, None, 0) : u \in Users }
  \cup { Input(op, u, None, p) : op \in {"login", "change"}, u \in Users,
                                 p \in 1..MaxPasswords }
  \cup { Input(op, None, s, 0) : op \in {"refresh", "logout"},
                                 s \in Sessions \cup {None} }
  \cup { Input("forgot", u, None, 0) : u \in Users }
  \cup { Input("reset", None, t, 0) : t \in Tokens \cup {None} }

\* doomed: the rows a DELETE has selected; opened: the session row inserted;
\* earlier: history, the caller's sessions when a password request arrived.
Idle ==
  [ pc |-> "idle", input |-> None, user |-> None, credential |-> 0,
    opened |-> None, doomed |-> {}, earlier |-> {} ]

At(r, step) == request[r].pc = step
In(r)       == request[r].input

Respond(r) == request' = [ request EXCEPT ![r] = Idle ]
Advance(r, step) == request' = [ request EXCEPT ![r].pc = step ]

Init ==
  /\ account = [ u \in Users |->
                   [ registered |-> u \in Registered, active |-> u \in Registered,
                     password   |-> IF u \in Registered THEN 1 ELSE 0 ] ]
  /\ lastPassword = 1
  /\ session = [ s \in Sessions |-> NoSession ]
  /\ token = [ t \in Tokens |-> NoToken ]
  /\ lock = [ row \in Users \cup Sessions |-> None ]
  /\ request = [ r \in Requests |-> Idle ]

-------------------------------------------------------------------------------
(* Arrival.                                                                *)

\* Bounds: a request arrives only while the ids and passwords it may use up
\* are left for it and for the requests in flight.
InFlight(ops) == { r \in Requests : ~At(r, "idle") /\ In(r).op \in ops }

Room(op) ==
  /\ op \in {"register", "login", "refresh"} =>
       Cardinality({ r \in InFlight({"register", "login", "refresh"}) :
                       request[r].opened = None })
         < Cardinality({ s \in Sessions : session[s] = NoSession })
  /\ op \in {"register", "change", "reset"} =>
       lastPassword + Cardinality(InFlight({"register", "change", "reset"}))
         < MaxPasswords
  /\ op = "forgot" =>
       Cardinality(InFlight({"forgot"}))
         < Cardinality({ t \in Tokens : token[t] = NoToken })

\* The step an endpoint starts with.
FirstStep(op) ==
  CASE op = "register" -> "create"
    [] op = "login"    -> "login"
    [] op = "refresh"  -> "refresh"
    [] op = "logout"   -> "logout"
    [] op = "change"   -> "authenticate"
    [] op = "forgot"   -> "forgot"
    [] op = "reset"    -> "reset"

\* Mutant of Subject: the session id of the payload is taken for its user.
SubjectOfPayload(input) ==
  CASE input.op \in {"register", "login", "change", "forgot"} -> input.user
    [] input.op \in {"refresh", "logout"} -> input.subject
    [] input.op = "reset" ->
         IF input.subject = None THEN None ELSE token[input.subject].user

\* The user an input is about, as far as the client can know.
Subject(input) ==
  CASE input.op \in {"register", "login", "change", "forgot"} -> input.user
    [] input.op \in {"refresh", "logout"} ->
         IF input.subject = None THEN None ELSE session[input.subject].user
    [] input.op = "reset" ->
         IF input.subject = None THEN None ELSE token[input.subject].user

Arrive(r, input) ==
  /\ At(r, "idle")
  /\ input.op \in Operations
  /\ Room(input.op)
  /\ input.op \in {"login", "change"} => input.password \in 1..lastPassword
  /\ input.op \in {"refresh", "logout"} =>
       input.subject \in { s \in Sessions : Issued(s) } \cup {None}
  /\ input.op = "reset" =>
       input.subject \in { t \in Tokens : token[t] # NoToken } \cup {None}
  /\ request' = [ request EXCEPT ![r] =
                    [Idle EXCEPT !.pc = FirstStep(input.op), !.input = input,
                                 !.user = Subject(input),
                                 !.earlier = IF input.op \in {"change", "reset"}
                                               THEN SessionsOf(Subject(input)) ELSE {}] ]
  /\ UNCHANGED <<account, lastPassword, session, token, lock>>

-------------------------------------------------------------------------------
(* register and login                                                      *)

\* INSERT of the user with its role; the unique e-mail refuses a second one.
Register(r) ==
  LET u == request[r].user
  IN  /\ At(r, "create")
      /\ \/ /\ ~account[u].registered
            /\ account' = [ account EXCEPT ![u] =
                 [registered |-> TRUE, active |-> TRUE, password |-> lastPassword + 1] ]
            /\ lastPassword' = lastPassword + 1
            /\ request' = [ request EXCEPT ![r].pc = "open",
                                           ![r].credential = lastPassword + 1 ]
         \/ /\ account[u].registered
            /\ Respond(r)
            /\ UNCHANGED <<account, lastPassword>>
      /\ UNCHANGED <<session, token, lock>>

Login(r) ==
  LET row     == account[request[r].user]
      allowed == row.registered /\ row.active /\ row.password = In(r).password
  IN  /\ At(r, "login")
      /\ \/ /\ allowed
            /\ request' = [ request EXCEPT ![r].pc = "open",
                                           ![r].credential = In(r).password ]
         \/ ~allowed /\ Respond(r)
      /\ UNCHANGED <<account, lastPassword, session, token, lock>>

\* createSession without a session to replace.
OpenSession(r) ==
  /\ At(r, "open")
  /\ \E s \in Sessions :
       /\ session[s] = NoSession
       /\ session' = [ session EXCEPT ![s] =
            NewSession("row", request[r].user, None, request[r].credential) ]
  /\ Respond(r)
  /\ UNCHANGED <<account, lastPassword, token, lock>>

-------------------------------------------------------------------------------
(* refresh                                                                 *)

\* Mutant of Refreshable: a revoked session may be refreshed.
RefreshableThoughRevoked(s) ==
  Exists(s) /\ account[session[s].user].active /\ ~session[s].expired

Refreshable(s) ==
  /\ Exists(s)
  /\ account[session[s].user].active
  /\ ~session[s].revoked
  /\ ~session[s].expired

Refresh(r) ==
  LET s       == In(r).subject
      allowed == s # None /\ Refreshable(s)
  IN  /\ At(r, "refresh")
      /\ \/ /\ allowed
            /\ request' = [ request EXCEPT ![r].pc = "rotateInsert",
                                           ![r].credential = session[s].credential ]
         \/ ~allowed /\ Respond(r)
      /\ UNCHANGED <<account, lastPassword, session, token, lock>>

\* Mutant of RotateInsert: outside of a transaction, visible at once.
RotateInsertVisible(r) ==
  /\ At(r, "rotateInsert")
  /\ \E s \in Sessions :
       /\ session[s] = NoSession
       /\ session' = [ session EXCEPT ![s] =
            NewSession("row", request[r].user, In(r).subject, request[r].credential) ]
       /\ request' = [ request EXCEPT ![r].pc = "rotateUpdate", ![r].opened = s ]
  /\ UNCHANGED <<account, lastPassword, token, lock>>

\* The first statement of the rotation inserts the successor.
RotateInsert(r) ==
  /\ At(r, "rotateInsert")
  /\ \E s \in Sessions :
       /\ session[s] = NoSession
       /\ session' = [ session EXCEPT ![s] =
            NewSession("pending", request[r].user, In(r).subject,
                       request[r].credential) ]
       /\ request' = [ request EXCEPT ![r].pc = "rotateUpdate", ![r].opened = s ]
  /\ UNCHANGED <<account, lastPassword, token, lock>>

\* What the end of a transaction without commit leaves of its inserts and locks.
RollBack(r) ==
  /\ session' = [ s \in Sessions |->
                    IF s = request[r].opened THEN NoSession ELSE session[s] ]
  /\ lock' = [ row \in DOMAIN lock |-> IF lock[row] = r THEN None ELSE lock[row] ]

\* Mutant of RotateUpdate: updateMany, which does not mind an absent row.
RotateUpdateMany(r) ==
  LET s == In(r).subject
  IN  /\ At(r, "rotateUpdate")
      /\ lock[s] = None
      /\ lock' = [ lock EXCEPT ![s] = r ]
      /\ Advance(r, "rotateCommit")
      /\ UNCHANGED <<account, lastPassword, session, token>>

\* Mutant of RotateUpdate: P2025 is answered without rolling the insert back.
RotateUpdateNoRollback(r) ==
  LET s == In(r).subject
  IN  /\ At(r, "rotateUpdate")
      /\ lock[s] = None
      /\ \/ /\ Exists(s)
            /\ lock' = [ lock EXCEPT ![s] = r ]
            /\ Advance(r, "rotateCommit")
         \/ ~Exists(s) /\ Respond(r) /\ UNCHANGED lock
      /\ UNCHANGED <<account, lastPassword, session, token>>

\* Mutant of RotateUpdate: waits for the row, even if it is gone.
RotateUpdateUnanswered(r) ==
  LET s == In(r).subject
  IN  /\ At(r, "rotateUpdate")
      /\ lock[s] = None
      /\ Exists(s)
      /\ lock' = [ lock EXCEPT ![s] = r ]
      /\ Advance(r, "rotateCommit")
      /\ UNCHANGED <<account, lastPassword, session, token>>

\* The second one updates the old row: P2025 rolls back if it is gone.
RotateUpdate(r) ==
  LET s == In(r).subject
  IN  /\ At(r, "rotateUpdate")
      /\ lock[s] = None
      /\ \/ /\ Exists(s)
            /\ lock' = [ lock EXCEPT ![s] = r ]
            /\ Advance(r, "rotateCommit")
            /\ UNCHANGED session
         \/ ~Exists(s) /\ RollBack(r) /\ Respond(r)
      /\ UNCHANGED <<account, lastPassword, token>>

RotateCommit(r) ==
  LET s == In(r).subject
      successor == request[r].opened
  IN  /\ At(r, "rotateCommit")
      /\ session' = [ session EXCEPT ![s].revoked = TRUE,
                                     ![s].replacedBy = successor,
                                     ![successor].state = "row" ]
      /\ lock' = [ lock EXCEPT ![s] = None ]
      /\ Respond(r)
      /\ UNCHANGED <<account, lastPassword, token>>

-------------------------------------------------------------------------------
(* logout                                                                  *)

Logout(r) ==
  LET s == In(r).subject
      found == s # None /\ Live(s)
  IN  /\ At(r, "logout")
      /\ \/ found /\ Advance(r, "revoke")
         \/ ~found /\ Respond(r)
      /\ UNCHANGED <<account, lastPassword, session, token, lock>>

\* P2025 if the row is gone by now: nothing is written.
Revoke(r) ==
  LET s == In(r).subject
  IN  /\ At(r, "revoke")
      /\ lock[s] = None
      /\ \/ Exists(s) /\ session' = [ session EXCEPT ![s].revoked = TRUE ]
         \/ ~Exists(s) /\ UNCHANGED session
      /\ Respond(r)
      /\ UNCHANGED <<account, lastPassword, token, lock>>

-------------------------------------------------------------------------------
(* change-password, forgot-password, reset-password                        *)

\* JwtStrategy, on the access token change-password needs.
Authenticate(r) ==
  LET row == account[request[r].user]
  IN  /\ At(r, "authenticate")
      /\ \/ row.registered /\ row.active /\ Advance(r, "change")
         \/ ~(row.registered /\ row.active) /\ Respond(r)
      /\ UNCHANGED <<account, lastPassword, session, token, lock>>

Change(r) ==
  LET correct == account[request[r].user].password = In(r).password
  IN  /\ At(r, "change")
      /\ \/ correct /\ Advance(r, "setPassword")
         \/ ~correct /\ Respond(r)
      /\ UNCHANGED <<account, lastPassword, session, token, lock>>

\* Users are never deleted, so the read and the INSERT of the token act on the
\* same user and are one step; isActive is not asked.
Forgot(r) ==
  /\ At(r, "forgot")
  /\ \/ /\ account[request[r].user].registered
        /\ \E t \in Tokens :
             /\ token[t] = NoToken
             /\ token' = [ token EXCEPT ![t].user = request[r].user ]
     \/ ~account[request[r].user].registered /\ UNCHANGED token
  /\ Respond(r)
  /\ UNCHANGED <<account, lastPassword, session, lock>>

Reset(r) ==
  LET t       == In(r).subject
      allowed == t # None /\ token[t].uses = 0 /\ ~token[t].expired
  IN  /\ At(r, "reset")
      /\ \/ allowed /\ Advance(r, "setPassword")
         \/ ~allowed /\ Respond(r)
      /\ UNCHANGED <<account, lastPassword, session, token, lock>>

\* The transaction's first statement updates the user row.  The token row of a
\* reset is updated under the same lock: only resets of that user touch it.
SetPassword(r) ==
  LET u == request[r].user
  IN  /\ At(r, "setPassword")
      /\ lock[u] = None
      /\ lock' = [ lock EXCEPT ![u] = r ]
      /\ Advance(r, "delete")
      /\ UNCHANGED <<account, lastPassword, session, token>>

\* Mutant of DeleteSessions: only the sessions that are not revoked.
DeleteLiveSessions(r) ==
  /\ At(r, "delete")
  /\ request' = [ request EXCEPT
                    ![r].pc = "lockRows",
                    ![r].doomed = { s \in SessionsOf(request[r].user) : Live(s) } ]
  /\ UNCHANGED <<account, lastPassword, session, token, lock>>

\* DELETE selects the user's session rows committed when it starts ...
DeleteSessions(r) ==
  /\ At(r, "delete")
  /\ request' = [ request EXCEPT ![r].pc = "lockRows",
                                 ![r].doomed = SessionsOf(request[r].user) ]
  /\ UNCHANGED <<account, lastPassword, session, token, lock>>

\* ... and locks them one by one, waiting for those that are being rotated.
LockSession(r) ==
  /\ At(r, "lockRows")
  /\ \E s \in request[r].doomed :
       /\ lock[s] = None
       /\ lock' = [ lock EXCEPT ![s] = r ]
  /\ UNCHANGED <<account, lastPassword, session, token, request>>

\* Deleting a successor clears the replacedById that names it (ON DELETE SET NULL).
Deleted(doomed) ==
  [ s \in Sessions |->
      IF s \in doomed THEN [session[s] EXCEPT !.state = "gone"]
      ELSE IF session[s].replacedBy \in doomed
             THEN [session[s] EXCEPT !.replacedBy = None]
             ELSE session[s] ]

CommitPassword(r) ==
  LET u == request[r].user
      t == In(r).subject
  IN  /\ At(r, "lockRows")
      /\ \A s \in request[r].doomed : lock[s] = r
      /\ account' = [ account EXCEPT ![u].password = lastPassword + 1 ]
      /\ lastPassword' = lastPassword + 1
      /\ session' = Deleted(request[r].doomed)
      /\ \/ In(r).op = "reset"  /\ token' = [ token EXCEPT ![t].uses = @ + 1 ]
         \/ In(r).op = "change" /\ UNCHANGED token
      /\ lock' = [ row \in DOMAIN lock |-> IF lock[row] = r THEN None ELSE lock[row] ]
      /\ Respond(r)

-------------------------------------------------------------------------------
(* What else happens meanwhile.                                            *)

\* The lockout or the rate limit refuses the request, a query rejects or the
\* process stops: the transaction, if one is open, is rolled back.
Abort(r) ==
  /\ ~At(r, "idle")
  /\ RollBack(r)
  /\ Respond(r)
  /\ UNCHANGED <<account, lastPassword, token>>

\* UsersService sets isActive: one UPDATE of the user row.
SetActive(u) ==
  /\ account[u].registered
  /\ lock[u] = None
  /\ account' = [ account EXCEPT ![u].active = ~@ ]
  /\ UNCHANGED <<lastPassword, session, token, lock, request>>

\* The clock passes expiresAt.
Expire(s) ==
  /\ Exists(s) /\ ~session[s].expired
  /\ session' = [ session EXCEPT ![s].expired = TRUE ]
  /\ UNCHANGED <<account, lastPassword, token, lock, request>>

ExpireToken(t) ==
  /\ token[t] # NoToken /\ ~token[t].expired
  /\ token' = [ token EXCEPT ![t].expired = TRUE ]
  /\ UNCHANGED <<account, lastPassword, session, lock, request>>

-------------------------------------------------------------------------------
Step(r) ==
  \/ Register(r) \/ Login(r) \/ OpenSession(r)
  \/ Refresh(r) \/ RotateInsert(r) \/ RotateUpdate(r) \/ RotateCommit(r)
  \/ Logout(r) \/ Revoke(r)
  \/ Authenticate(r) \/ Change(r) \/ Forgot(r) \/ Reset(r)
  \/ SetPassword(r) \/ DeleteSessions(r) \/ LockSession(r) \/ CommitPassword(r)

Environment ==
  \/ \E u \in Users : SetActive(u)
  \/ \E s \in Sessions : Expire(s)
  \/ \E t \in Tokens : ExpireToken(t)

Next ==
  \/ \E r \in Requests, input \in Inputs : Arrive(r, input)
  \/ \E r \in Requests : Step(r) \/ Abort(r)
  \/ Environment

Spec == Init /\ [][Next]_vars

\* The event loop resumes every request, and PostgreSQL queues the waiters of a
\* row lock, so a request that waits for one again and again does get it.
FairSpec == Spec /\ \A r \in Requests : SF_vars(Step(r))

-------------------------------------------------------------------------------
(* Properties                                                              *)

Steps ==
  { "idle", "create", "login", "open", "refresh", "rotateInsert", "rotateUpdate",
    "rotateCommit", "logout", "revoke", "authenticate", "change", "forgot",
    "reset", "setPassword", "delete", "lockRows" }

AccountRows == [registered : BOOLEAN, active : BOOLEAN, password : Nat]

SessionRows ==
  [ state : {"free", "pending", "row", "gone"}, user : Users \cup {None},
    revoked : BOOLEAN, expired : BOOLEAN, replacedBy : Sessions \cup {None},
    parent : Sessions \cup {None}, credential : Nat ]

TokenRows == [user : Users \cup {None}, uses : Nat, expired : BOOLEAN]

RequestRecords ==
  [ pc : Steps, input : Inputs \cup {None}, user : Users \cup {None},
    credential : Nat, opened : Sessions \cup {None},
    doomed : SUBSET Sessions, earlier : SUBSET Sessions ]

\* Every variable holds rows of its table (schema.prisma), row locks or request
\* records.
TypeOK ==
  /\ account \in [Users -> AccountRows]
  /\ lastPassword \in Nat
  /\ session \in [Sessions -> SessionRows]
  /\ token \in [Tokens -> TokenRows]
  /\ lock \in [Users \cup Sessions -> Requests \cup {None}]
  /\ request \in [Requests -> RequestRecords]

\* Rotation is all or nothing, whatever races it: a session and its successor
\* are never live together, and replacedById always names a committed session
\* that was opened in place of this one, which is then revoked.
RotationAtomic ==
  \A s \in Sessions : Exists(s) =>
    /\ session[s].parent # None => ~Live(session[s].parent)
    /\ LET successor == session[s].replacedBy
       IN  successor # None =>
             /\ session[s].revoked
             /\ Exists(successor)
             /\ session[successor].parent = s

\* The check of a refresh is not repeated by its write, so concurrent refreshes
\* of one session can all succeed; but only those that were in flight together:
\* a session never has more successors than there are concurrent requests.
ForksBounded ==
  \A s \in Sessions :
    Cardinality({ c \in Sessions : Issued(c) /\ session[c].parent = s })
      <= Cardinality(Requests)

\* No refresh outlives its session: a successor is committed only while the
\* row it replaces still exists, even if that was read long before a password
\* change deleted it.
RotationNeedsParent ==
  [][ \A s \in Sessions :
        ~Exists(s) /\ Exists(s)' /\ session'[s].parent # None =>
          session'[session'[s].parent].state = "row" ]_vars

\* A password change or reset deletes at least every session the user had when
\* it was requested, whichever refreshes and logouts race it.
PasswordEndsEarlierSessions ==
  [][ \A r \in Requests :
        At(r, "lockRows") /\ request'[r].pc = "idle" /\ lastPassword' # lastPassword =>
          \A s \in request[r].earlier : session'[s].state # "row" ]_vars

\* Nothing outlives the transaction it belongs to: each lock is held by a
\* request that has taken it and will release it, and each uncommitted session
\* is the one some rotation has inserted.
NothingLeaks ==
  /\ \A u \in Users : lock[u] # None =>
       /\ request[lock[u]].pc \in {"delete", "lockRows"}
       /\ request[lock[u]].user = u
  /\ \A s \in Sessions : lock[s] # None =>
       \/ At(lock[s], "rotateCommit") /\ In(lock[s]).subject = s
       \/ At(lock[s], "lockRows") /\ s \in request[lock[s]].doomed
  /\ \A s \in Sessions : session[s].state = "pending" =>
       \E r \in Requests :
         /\ request[r].pc \in {"rotateUpdate", "rotateCommit"}
         /\ request[r].opened = s

\* Every request is answered: whatever locks the others hold, no set of
\* requests waits for one another for ever.
RequestsAnswered == \A r \in Requests : ~At(r, "idle") ~> At(r, "idle")

\* docs/AUTH_AND_SECURITY.md 3.2: if token reuse is detected, that is, a token that has
\* already been rotated is presented to refresh, the sessions are revoked.
ReuseRevokesSessions ==
  [][ \A r \in Requests :
        LET s == In(r).subject
        IN  Refresh(r) /\ s # None =>
              (Exists(s) /\ session[s].replacedBy # None =>
                 \A other \in SessionsOf(session[s].user) : session'[other].revoked)
    ]_vars

\* One request at a time, the component implements the atomic sessions.
Life ==
  INSTANCE SessionLife WITH
    session <- [ s \in Sessions |->
      IF session[s].state \in {"free", "pending"}
        THEN [state |-> "none", user |-> None, parent |-> None, credential |-> 0]
        ELSE [ state      |-> IF Live(s) THEN "live" ELSE "ended",
               user       |-> session[s].user,
               parent     |-> session[s].parent,
               credential |-> session[s].credential ] ],
    password <- [ u \in Users |-> account[u].password ],
    uses <- [ t \in Tokens |-> token[t].uses ]

ImplementsSessionLife == Life!Spec
===============================================================================
