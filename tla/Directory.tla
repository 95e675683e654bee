------------------------------- MODULE Directory -------------------------------
(***************************************************************************)
(* What the administration of users and branches promises: a directory in   *)
(* which every entry is complete and consistent after every step, and      *)
(* entries never move to another organization nor disappear.                *)
(***************************************************************************)
CONSTANTS UserIds, BranchIds, None, Founders, Agencies

VARIABLES users, branches

Consistent(us, bs) ==
  /\ \A u, v \in UserIds :
       us[u] # None /\ us[v] # None /\ us[u].email = us[v].email => u = v
  /\ \A a, b \in BranchIds :
       /\ bs[a] # None /\ bs[b] # None
       /\ bs[a].org = bs[b].org /\ bs[a].code = bs[b].code
       => a = b
  /\ \A u \in UserIds : us[u] # None =>
       /\ us[u].roles # {}
       /\ us[u].branch # None =>
            bs[us[u].branch] # None /\ bs[us[u].branch].org = us[u].org

Init ==
  /\ users = [ u \in UserIds |-> IF u \in DOMAIN Founders THEN Founders[u] ELSE None ]
  /\ branches = [ b \in BranchIds |-> IF b \in DOMAIN Agencies THEN Agencies[b] ELSE None ]

\* One entry is added or edited.
ChangeUser(u) ==
  /\ users' = [ users EXCEPT ![u] = users'[u] ]
  /\ users[u] # None => users'[u] # None /\ users'[u].org = users[u].org
  /\ UNCHANGED branches

ChangeBranch(b) ==
  /\ branches' = [ branches EXCEPT ![b] = branches'[b] ]
  /\ branches[b] # None =>
       /\ branches'[b] # None
       /\ branches'[b].org = branches[b].org
       /\ branches'[b].code = branches[b].code
  /\ UNCHANGED users

Next ==
  /\ \/ \E u \in UserIds : ChangeUser(u)
     \/ \E b \in BranchIds : ChangeBranch(b)
  /\ Consistent(users', branches')

Spec == Init /\ [][Next]_<<users, branches>>
===============================================================================
