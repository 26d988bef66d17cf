------------------------------ MODULE Directory -----------------------------
(***************************************************************************)
(* What the server promises about who is connected, abstractly: a name has *)
(* one holder at a time, names that differ only in case being one name; a  *)
(* user is admitted only with a name; and a user that has been admitted    *)
(* stays so, under one name or another, until it leaves.                   *)
(***************************************************************************)
CONSTANTS
  User,         \* those who may connect
  Name,         \* the names they may ask for
  NoName,       \* no name yet
  Same(_, _)    \* are two names one?

VARIABLES
  users,        \* the connected users
  name,         \* name[u]: the name u holds
  admitted      \* the users that are logged in

vars == <<users, name, admitted>>

Init ==
  /\ users = {}
  /\ name = [u \in User |-> NoName]
  /\ admitted = {}

Arrive(u) ==
  /\ u \in User \ users
  /\ users' = users \cup {u}
  /\ UNCHANGED <<name, admitted>>

Leave(u) ==
  /\ u \in users
  /\ users' = users \ {u}
  /\ name' = [name EXCEPT ![u] = NoName]
  /\ admitted' = admitted \ {u}

\* Nobody but u holds n, in whatever spelling.
Free(u, n) == \A v \in users \ {u} : ~Same(name[v], n)

\* u takes a name, or is admitted under the name it has, or both at once.
Settle(u) ==
  /\ u \in users
  /\ \/ name' = name
     \/ \E n \in Name : Free(u, n) /\ name' = [name EXCEPT ![u] = n]
  /\ \/ admitted' = admitted
     \/ name'[u] # NoName /\ admitted' = admitted \cup {u}
  /\ users' = users

Next == \E u \in User : Arrive(u) \/ Leave(u) \/ Settle(u)

Spec == Init /\ [][Next]_vars
=============================================================================
