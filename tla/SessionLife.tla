----------------------------- MODULE SessionLife -----------------------------
(***************************************************************************)
(* What the auth API promises of sessions, as if every request ran alone:  *)
(* a session is opened by someone who knows the password, is rotated at    *)
(* most once, into one successor, and ends at the latest when the password *)
(* of its user changes.  A reset token changes a password once.            *)
(***************************************************************************)
EXTENDS Naturals

CONSTANTS Users, Sessions, Tokens, None

VARIABLES
  session,   \* id -> [state, user, parent, credential]
  password,  \* the current password of each user; 0: no account yet
  uses       \* how many resets each reset token has made

vars == <<session, password, uses>>

NoSession == [state |-> "none", user |-> None, parent |-> None, credential |-> 0]

Init ==
  /\ session = [ s \in Sessions |-> NoSession ]
  /\ password \in [ Users -> Nat ]
  /\ uses = [ t \in Tokens |-> 0 ]

Register(u) ==
  /\ password[u] = 0
  /\ password'[u] # 0
  /\ password' = [ password EXCEPT ![u] = password'[u] ]
  /\ UNCHANGED <<session, uses>>

Live(u, parent) ==
  [state |-> "live", user |-> u, parent |-> parent, credential |-> password[u]]

Open(s, u) ==
  /\ session[s] = NoSession
  /\ password[u] # 0
  /\ session' = [ session EXCEPT ![s] = Live(u, None) ]
  /\ UNCHANGED <<password, uses>>

Rotate(s, successor) ==
  /\ session[s].state = "live"
  /\ session[successor] = NoSession
  /\ session' = [ session EXCEPT ![s].state = "ended",
                                 ![successor] = Live(session[s].user, s) ]
  /\ UNCHANGED <<password, uses>>

End(s) ==
  /\ session[s].state = "live"
  /\ session' = [ session EXCEPT ![s].state = "ended" ]
  /\ UNCHANGED <<password, uses>>

\* With a reset token, used up by it, or without one by the user in person.
SetPassword(u) ==
  /\ password[u] # 0
  /\ password'[u] # password[u]
  /\ password' = [ password EXCEPT ![u] = password'[u] ]
  /\ session' = [ s \in Sessions |->
                    IF session[s].user = u
                      THEN [session[s] EXCEPT !.state = "ended"] ELSE session[s] ]
  /\ \/ uses' = uses
     \/ \E t \in Tokens : uses[t] = 0 /\ uses' = [ uses EXCEPT ![t] = 1 ]

Next ==
  \/ \E u \in Users : Register(u) \/ SetPassword(u)
  \/ \E s \in Sessions, u \in Users : Open(s, u)
  \/ \E s, successor \in Sessions : Rotate(s, successor)
  \/ \E s \in Sessions : End(s)

Spec == Init /\ [][Next]_vars
==============================================================================
