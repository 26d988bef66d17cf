-------------------------- MODULE DeleteWalkProofs --------------------------
(***************************************************************************)
(* Proofs about the walk over m_ChannelMap in CServer::DeleteClient, for   *)
(* any number of channels and clients: whatever it erases and wherever it  *)
(* restarts, the walk leaves what ChatServer's closed forms say, and       *)
(* misses one channel at most.                                             *)
(*                                                                         *)
(* A key is visited when the client has been taken off its channel, which  *)
(* is when the channel has been told of the departure.  The iterator moves *)
(* back when it restarts at begin(), so the invariant does not say that    *)
(* the keys before it have been passed: it says that those on which the    *)
(* client is found have been visited, and that visits go up the keys.      *)
(***************************************************************************)
EXTENDS DeleteWalk, WellFoundedInduction, FiniteSetTheorems, TLAPS

\* The key the walk never visits, if there is one: the second, where the
\* client is alone on the first.
over == Whole!SteppedOver(p)

\* told[c] is 1 if channel c has been visited, and else 0.
told == [c \in ChanName |-> IF p \in member0[c] \ member[c] THEN 1 ELSE 0]

Keys ==
  /\ channelMap0 \subseteq ChanName /\ channelMap \subseteq channelMap0
  /\ member0 \in [ChanName -> SUBSET Ptr]
  /\ member \in [ChanName -> SUBSET Ptr]
  /\ \A c \in ChanName : c \in channelMap0 <=> member0[c] # {}
  /\ it \in channelMap \cup {End}

\* A visit is all that happens to a channel.
Visits ==
  \A c \in ChanName :
    /\ told[c] = 1 => c \in found
    /\ member[c] = IF told[c] = 1 THEN member0[c] \ {p} ELSE member0[c]
    /\ c \in channelMap <=>
         c \in channelMap0 /\ ~(told[c] = 1 /\ member0[c] = {p})

\* Visits go up the keys, and the iterator has left none behind it.
InOrder ==
  \A c \in found :
    /\ c < it => told[c] = 1
    /\ \A d \in ChanName : told[d] = 1 /\ c < d => told[c] = 1

\* The walk is behind the key it steps over, or has not begun.
PassesOver ==
  \A s \in over : it # s /\ (it < s => \A c \in ChanName : told[c] = 0)

IInv == Keys /\ Visits /\ InOrder /\ PassesOver

USE WalkAssumption
-----------------------------------------------------------------------------
(* The keys of a map are in order.                                         *)

LEMMA HasLeast ==
  ASSUME NEW T \in SUBSET Nat, T # {}
  PROVE  \E x \in T : \A y \in T : x =< y
<1> DEFINE R == OpToRel(<, Nat)
<1>1. IsWellFoundedOn(R, Nat)
  BY NatLessThanWellFounded
<1>2. \A x, y \in Nat : y < x => <<y, x>> \in R
  BY DEF OpToRel
<1> HIDE DEF R
<1>3. PICK x \in T : \A y \in T : ~(<<y, x>> \in R)
  BY <1>1, WFMin
<1>4. ASSUME NEW y \in T PROVE x =< y
  <2>1. x \in Nat /\ y \in Nat /\ ~(y < x)
    BY <1>2, <1>3
  <2> QED
    BY <2>1
<1> QED
  BY <1>4

LEMMA MinIs ==
  ASSUME NEW K \in SUBSET ChanName, NEW m \in K, \A y \in K : m =< y
  PROVE  Min(K) = m
<1>1. K \subseteq Nat
  BY DEF ChanName
<1>2. \A x \in K : (\A y \in K : x =< y) => x = m
  BY <1>1
<1> QED
  BY <1>2 DEF Min

\* begin(): the first key, if there is one.
LEMMA BeginIsFirst ==
  ASSUME NEW K \in SUBSET ChanName
  PROVE  /\ K = {} => Begin(K) = End
         /\ K # {} => Begin(K) \in K /\ \A d \in K : Begin(K) =< d
<1>1. CASE K = {}
  BY <1>1 DEF Begin
<1>2. CASE K # {}
  <2>1. PICK m \in K : \A y \in K : m =< y
    <3>1. K \in SUBSET Nat
      BY DEF ChanName
    <3> QED
      BY <1>2, <3>1, HasLeast
  <2>2. Min(K) = m
    BY <2>1, MinIs
  <2> QED
    BY <1>2, <2>1, <2>2 DEF Begin
<1> QED
  BY <1>1, <1>2

\* it++: the next key, or the end; no key is in between.
LEMMA AfterIsNext ==
  ASSUME NEW K \in SUBSET ChanName, NEW c \in ChanName
  PROVE  /\ After(c, K) \in K \cup {End} /\ c < After(c, K)
         /\ \A d \in K : c < d => After(c, K) =< d
<1> DEFINE L == {d \in K : d > c}
<1>1. L \in SUBSET ChanName /\ K \subseteq Nat /\ c \in Nat /\ c < End
  <2>1. c \in Nat /\ c < End /\ ChanName \subseteq Nat
    BY DEF ChanName, End
  <2> QED
    BY <2>1
<1>2. /\ L = {} => Begin(L) = End
      /\ L # {} => Begin(L) \in L /\ \A d \in L : Begin(L) =< d
  BY <1>1, BeginIsFirst
<1>3. After(c, K) = Begin(L)
  BY DEF After
<1> QED
  BY <1>1, <1>2, <1>3

-----------------------------------------------------------------------------
(* The closed forms.                                                       *)

\* What it means to be stepped over.
LEMMA OverIs ==
  /\ over = {c \in channelMap0 :
               \E f \in channelMap0 :
                  /\ f < c /\ member0[f] = {p}
                  /\ \A d \in channelMap0 \ {f} : c =< d}
  /\ found = {c \in channelMap0 \ over : p \in member0[c]}
  /\ \A S : Whole!Emptied(p, S) = {c \in S : member0[c] = {p}}
BY DEF over, found, Whole!SteppedOver, Whole!Visited, Whole!Emptied

\* There is one such key at most, and the client is alone on the first.
LEMMA OverIsOne ==
  ASSUME Keys, NEW s \in over
  PROVE  /\ \A t \in over : t = s
         /\ \E f \in channelMap0 :
              /\ f < s /\ member0[f] = {p} /\ f \notin over
              /\ \A d \in channelMap0 : f =< d
              /\ \A d \in channelMap0 \ {f} : s =< d
<1>1. channelMap0 \subseteq Nat
  BY DEF Keys, ChanName
<1>2. PICK f \in channelMap0 :
        f < s /\ member0[f] = {p} /\ \A d \in channelMap0 \ {f} : s =< d
  BY OverIs
<1>3. s \in channelMap0
  BY OverIs
<1>4. ASSUME NEW t \in over PROVE t = s /\ t # f
  <2>1. PICK g \in channelMap0 :
          g < t /\ \A d \in channelMap0 \ {g} : t =< d
    BY OverIs
  <2>2. t \in channelMap0
    BY OverIs
  <2>3. f = g
    BY <1>1, <1>2, <1>3, <2>1, <2>2
  <2> QED
    BY <1>1, <1>2, <1>3, <2>1, <2>2, <2>3
<1>5. \A d \in channelMap0 : f =< d
  BY <1>1, <1>2, <1>3
<1> QED
  BY <1>2, <1>4, <1>5

-----------------------------------------------------------------------------
(* One lemma for each way the iterator moves.                              *)

\* What is found and what is stepped over does not change.
LEMMA BeforeStays ==
  ASSUME UNCHANGED before
  PROVE  over' = over /\ found' = found
BY DEF before, over, found, Whole!SteppedOver, Whole!Visited

\* it++ leaves no channel behind on which the client is found.
LEMMA OnwardKeepsOrder ==
  ASSUME IInv, it # End, NEW c \in found,
         c < Onward(it, channelMap), c # it, told[c] # 1
  PROVE  FALSE
<1>1. /\ it \in ChanName /\ c \in ChanName /\ c \in channelMap0
      /\ channelMap \in SUBSET ChanName
  BY OverIs DEF IInv, Keys
<1>2. c \in channelMap
  BY <1>1 DEF IInv, Visits
<1>3. ~(c < it)
  BY DEF IInv, InOrder
<1>4. it \in Nat /\ c \in Nat /\ End \in Nat /\ ChanName \subseteq Nat
  BY <1>1 DEF ChanName, End
<1>5. it < c
  BY <1>3, <1>4
<1>6. Onward(it, channelMap) =< c /\ Onward(it, channelMap) \in Nat
  BY <1>1, <1>2, <1>4, <1>5, AfterIsNext DEF Onward
<1> QED
  BY <1>4, <1>6

\* The iterator is at the first key or behind the one stepped over.
LEMMA WhereOverIs ==
  ASSUME IInv, it # End, NEW s \in over
  PROVE  \/ it > s
         \/ /\ it < s /\ member0[it] = {p} /\ p \in member[it]
            /\ \A c \in ChanName : told[c] = 0
            /\ \A d \in channelMap0 \ {it} : s =< d
<1>1. it \in channelMap0 /\ channelMap0 \subseteq ChanName /\ s \in channelMap0
  BY OverIs DEF IInv, Keys
<1>2. ChanName \subseteq Nat
  BY DEF ChanName
<1>3. it # s
  BY DEF IInv, PassesOver
<1>4. CASE it < s
  <2>1. \A c \in ChanName : told[c] = 0
    BY <1>4 DEF IInv, PassesOver
  <2>2. PICK f \in channelMap0 :
          /\ f < s /\ member0[f] = {p}
          /\ \A d \in channelMap0 \ {f} : s =< d
    BY OverIsOne DEF IInv
  <2>3. f = it
    BY <1>1, <1>2, <1>4, <2>2
  <2>4. member[it] = member0[it]
    <3>1. it \in ChanName /\ told[it] # 1
      BY <1>1, <2>1
    <3> QED
      BY <3>1 DEF IInv, Visits
  <2> QED
    BY <1>4, <2>1, <2>2, <2>3, <2>4
<1>5. it \in Nat /\ s \in Nat
  BY <1>1, <1>2
<1> QED
  BY <1>3, <1>4, <1>5

\* A channel the client is not on.
LEMMA PassByStep == ASSUME IInv, PassBy PROVE IInv'
<1>1. /\ it # End /\ p \notin member[it] /\ it' = Onward(it, channelMap)
      /\ UNCHANGED <<channelMap, member, told, channelMap0, member0>>
  BY DEF PassBy, before, told
<1>2. over' = over /\ found' = found
  BY <1>1, BeforeStays DEF before
<1>3. /\ it \in channelMap /\ channelMap \in SUBSET ChanName
      /\ it \in ChanName /\ ChanName \subseteq Nat
  BY <1>1 DEF IInv, Keys, ChanName
<1>4. it' \in channelMap \cup {End} /\ it < it' /\ it' \in Nat
  <2>1. it' \in channelMap \cup {End} /\ it < it'
    BY <1>1, <1>3, AfterIsNext DEF Onward
  <2>2. End \in Nat
    BY DEF End
  <2> QED
    BY <1>3, <2>1, <2>2
<1>5. Keys' /\ Visits'
  BY <1>1, <1>2, <1>4 DEF IInv, Keys, Visits
<1>6. ASSUME NEW c \in found, c < it' PROVE told[c] = 1
  <2>1. CASE c = it
    <3>1. p \in member0[c]
      BY OverIs
    <3> QED
      BY <1>1, <1>3, <2>1, <3>1 DEF IInv, Visits
  <2>2. CASE c # it
    BY <1>1, <1>6, <2>2, OnwardKeepsOrder
  <2> QED
    BY <2>1, <2>2
<1>7. InOrder'
  BY <1>1, <1>2, <1>6 DEF IInv, InOrder
<1>8. PassesOver'
  <2> SUFFICES ASSUME NEW s \in over PROVE it' > s
    <3>1. \A s \in over : s \in Nat
      BY <1>3, OverIs DEF IInv, Keys
    <3> QED
      BY <1>2, <1>4, <3>1 DEF PassesOver
  <2>1. it > s /\ s \in Nat
    BY <1>1, <1>3, WhereOverIs, OverIs DEF IInv, Keys
  <2> QED
    BY <1>3, <1>4, <2>1
<1> QED
  BY <1>5, <1>7, <1>8 DEF IInv

\* The channel a Visit tells is one the client is found on, untold so far.
LEMMA VisitsFound ==
  ASSUME IInv, Visit
  PROVE  /\ it \in found /\ told[it] = 0 /\ member[it] = member0[it]
         /\ told' = [told EXCEPT ![it] = 1]
         /\ it \in channelMap /\ it \in ChanName
<1>1. /\ it # End /\ p \in member[it] /\ member0' = member0
      /\ member' = [member EXCEPT ![it] = @ \ {p}]
  BY DEF Visit, before
<1>2. it \in channelMap /\ it \in ChanName /\ it \in channelMap0
  BY <1>1 DEF IInv, Keys
<1>3. told[it] = 0 /\ member[it] = member0[it]
  <2>1. told[it] # 1
    BY <1>1, <1>2 DEF told
  <2>2. told[it] = 0
    BY <1>2, <2>1 DEF told
  <2>3. member[it] = IF told[it] = 1 THEN member0[it] \ {p} ELSE member0[it]
    BY <1>2 DEF IInv, Visits
  <2> QED
    BY <2>1, <2>2, <2>3
<1>4. it \notin over
  BY DEF IInv, PassesOver
<1>5. it \in found
  BY <1>1, <1>2, <1>3, <1>4, OverIs
<1>6. told' = [told EXCEPT ![it] = 1]
  <2>1. member \in [ChanName -> SUBSET Ptr] /\ p \in member0[it]
    BY <1>1, <1>3 DEF IInv, Keys
  <2>2. told' = [c \in ChanName |->
                  IF p \in member0[c] \ member'[c] THEN 1 ELSE 0]
    BY <1>1 DEF told
  <2> QED
    BY <1>1, <1>2, <2>1, <2>2 DEF told
<1> QED
  BY <1>2, <1>3, <1>5, <1>6

\* What it does to the channel, wherever the iterator goes.
LEMMA VisitTells ==
  ASSUME IInv, Visit, it' \in channelMap' \cup {End}
  PROVE  /\ Keys' /\ Visits' /\ over' = over /\ found' = found
         /\ told'[it] = 1
         /\ \A c \in ChanName \ {it} : told'[c] = told[c]
         /\ channelMap' = channelMap \ (IF member0[it] = {p} THEN {it} ELSE {})
         /\ \A c \in found : \A d \in ChanName :
              told'[d] = 1 /\ c < d => told'[c] = 1
<1>1. /\ it \in found /\ told[it] = 0 /\ member[it] = member0[it]
      /\ told' = [told EXCEPT ![it] = 1]
      /\ it \in channelMap /\ it \in ChanName
  BY VisitsFound
<1>2. /\ member' = [member EXCEPT ![it] = @ \ {p}]
      /\ UNCHANGED <<channelMap0, member0>>
  BY DEF Visit, before
<1>3. channelMap' = channelMap \ (IF member0[it] = {p} THEN {it} ELSE {})
  <2>1. CASE member[it] = {p}
    BY <1>1, <2>1 DEF Visit
  <2>2. CASE member[it] # {p}
    BY <1>1, <2>2 DEF Visit
  <2> QED
    BY <2>1, <2>2
<1>4. over' = over /\ found' = found
  BY <1>2, BeforeStays DEF before
<1>5. /\ told' \in [ChanName -> {0, 1}] /\ told'[it] = 1
      /\ \A c \in ChanName \ {it} : told'[c] = told[c]
  <2>1. told \in [ChanName -> {0, 1}]
    BY DEF told
  <2> QED
    BY <1>1, <2>1
<1>6. /\ member' \in [ChanName -> SUBSET Ptr]
      /\ member'[it] = member0[it] \ {p}
      /\ \A c \in ChanName \ {it} : member'[c] = member[c]
  BY <1>1, <1>2 DEF IInv, Keys
<1>7. Keys'
  BY <1>2, <1>3, <1>5, <1>6 DEF IInv, Keys
<1>8. Visits'
  <2> SUFFICES ASSUME NEW c \in ChanName
               PROVE  /\ told'[c] = 1 => c \in found
                      /\ member'[c] = IF told'[c] = 1 THEN member0[c] \ {p}
                                                      ELSE member0[c]
                      /\ c \in channelMap' <=>
                           /\ c \in channelMap0
                           /\ ~(told'[c] = 1 /\ member0[c] = {p})
    BY <1>2, <1>4 DEF Visits
  <2>1. CASE c = it
    BY <1>1, <1>3, <1>5, <1>6, <2>1 DEF IInv, Keys
  <2>2. CASE c # it
    BY <1>3, <1>5, <1>6, <2>2 DEF IInv, Visits
  <2> QED
    BY <2>1, <2>2
<1>9. ASSUME NEW c \in found, NEW d \in ChanName, told'[d] = 1, c < d
      PROVE  told'[c] = 1
  <2>0. c \in ChanName
    BY OverIs DEF IInv, Keys
  <2>1. CASE d = it
    BY <1>1, <1>5, <1>9, <2>0, <2>1 DEF IInv, InOrder
  <2>2. CASE d # it
    BY <1>5, <1>9, <2>0, <2>2 DEF IInv, InOrder
  <2> QED
    BY <2>1, <2>2
<1> QED
  BY <1>3, <1>4, <1>5, <1>7, <1>8, <1>9

\* A channel where others stay: it++.
LEMMA VisitStep == ASSUME IInv, Visit, member[it] # {p} PROVE IInv'
<1>1. /\ it \in found /\ told[it] = 0 /\ member[it] = member0[it]
      /\ it \in channelMap /\ it \in ChanName
  BY VisitsFound
<1>2. it # End /\ channelMap' = channelMap /\ it' = Onward(it, channelMap)
  BY DEF Visit
<1>3. channelMap \in SUBSET ChanName /\ ChanName \subseteq Nat /\ End \in Nat
  BY DEF IInv, Keys, ChanName, End
<1>4. it' \in channelMap \cup {End} /\ it < it' /\ it' \in Nat
  <2>1. it' \in channelMap \cup {End} /\ it < it'
    BY <1>1, <1>2, <1>3, AfterIsNext DEF Onward
  <2> QED
    BY <1>3, <2>1
<1>5. /\ Keys' /\ Visits' /\ over' = over /\ found' = found
      /\ told'[it] = 1
      /\ \A c \in ChanName \ {it} : told'[c] = told[c]
      /\ \A c \in found : \A d \in ChanName :
           told'[d] = 1 /\ c < d => told'[c] = 1
  BY <1>2, <1>4, VisitTells
<1>6. ASSUME NEW c \in found, c < it' PROVE told'[c] = 1
  <2>1. c \in ChanName
    BY OverIs DEF IInv, Keys
  <2>2. CASE c # it
    BY <1>2, <1>5, <1>6, <2>1, <2>2, OnwardKeepsOrder
  <2> QED
    BY <1>5, <2>2
<1>7. InOrder'
  BY <1>5, <1>6 DEF InOrder
<1>8. PassesOver'
  <2> SUFFICES ASSUME NEW s \in over PROVE it' > s
    <3>1. \A s \in over : s \in Nat
      BY <1>3, OverIs DEF IInv, Keys
    <3> QED
      BY <1>4, <1>5, <3>1 DEF PassesOver
  <2>1. it > s
    BY <1>1, <1>2, WhereOverIs
  <2>2. s \in Nat /\ it \in Nat
    BY <1>1, <1>3, OverIs DEF IInv, Keys
  <2> QED
    BY <1>4, <2>1, <2>2
<1> QED
  BY <1>5, <1>7, <1>8 DEF IInv

\* If the first key that is left is behind the one just erased, the client
\* was alone on all the keys before it, and the second of them would be one
\* the walk steps over: so there is nothing before the erased key.
LEMMA NothingErasedBefore ==
  ASSUME IInv, Visit, \A d \in channelMap : ~(d < it),
         NEW d \in channelMap0, d < it
  PROVE  FALSE
<1>1. it \in found /\ it \in channelMap /\ it \in ChanName
  BY VisitsFound
<1>2. /\ channelMap0 \in SUBSET Nat /\ channelMap0 \subseteq ChanName
      /\ it \in channelMap0
  BY <1>1 DEF IInv, Keys, ChanName
<1>3. PICK g \in channelMap0 : \A y \in channelMap0 : g =< y
  BY <1>2, HasLeast
<1>4. g < it /\ g \notin channelMap /\ g \in Nat /\ it \in Nat
  BY <1>2, <1>3
<1>5. member0[g] = {p}
  BY <1>2, <1>4 DEF IInv, Visits
<1>6. it \in channelMap0 \ {g}
  BY <1>2, <1>4
<1>7. PICK s \in channelMap0 \ {g} : \A y \in channelMap0 \ {g} : s =< y
  <2>1. channelMap0 \ {g} \in SUBSET Nat /\ channelMap0 \ {g} # {}
    BY <1>2, <1>6
  <2> QED
    BY <2>1, HasLeast
<1>8. g < s /\ s =< it /\ s \in Nat
  BY <1>2, <1>3, <1>6, <1>7
<1>9. s \in over
  BY <1>5, <1>7, <1>8, OverIs
<1>10. s \in channelMap
  <2>1. s \notin found
    BY <1>9, OverIs
  <2> QED
    BY <1>2, <1>7, <2>1 DEF IInv, Visits
<1>11. s = it
  BY <1>4, <1>8, <1>10
<1> QED
  BY <1>9, <1>11 DEF IInv, PassesOver

\* A channel the client was alone on: it is erased, the iterator restarts at
\* begin() and is moved on once.
LEMMA EraseStep == ASSUME IInv, Visit, member[it] = {p} PROVE IInv'
<1> DEFINE K == channelMap'
<1>1. /\ it \in found /\ told[it] = 0 /\ member0[it] = {p}
      /\ it \in channelMap /\ it \in ChanName /\ it # End
  BY VisitsFound DEF Visit
<1>2. /\ K = channelMap \ {it}
      /\ it' = IF K = {} THEN End ELSE Resume(it, K)
  BY DEF Visit
<1>3. /\ K \in SUBSET ChanName /\ ChanName \subseteq Nat /\ End \in Nat
      /\ \A c \in ChanName : c < End
      /\ channelMap \in SUBSET ChanName
  BY <1>2 DEF IInv, Keys, ChanName, End
<1> HIDE DEF K
<1>4. ASSUME K # {}
      PROVE  /\ Begin(K) \in K /\ \A d \in K : Begin(K) =< d
             /\ it' \in K \cup {End} /\ Begin(K) < it'
             /\ \A d \in K : Begin(K) < d => it' =< d
  <2>1. Begin(K) \in K /\ \A d \in K : Begin(K) =< d
    BY <1>3, <1>4, BeginIsFirst
  <2>2. it' = After(Begin(K), K)
    BY <1>2, <1>4 DEF Resume
  <2> QED
    BY <1>3, <2>1, <2>2, AfterIsNext
<1>5. it' \in K \cup {End} /\ it' \in Nat
  BY <1>2, <1>3, <1>4
<1>6. /\ Keys' /\ Visits' /\ over' = over /\ found' = found
      /\ told'[it] = 1
      /\ \A c \in ChanName \ {it} : told'[c] = told[c]
      /\ \A c \in found : \A d \in ChanName :
           told'[d] = 1 /\ c < d => told'[c] = 1
  BY <1>5, VisitTells DEF K
<1>7. ASSUME NEW c \in found, c < it' PROVE told'[c] = 1
  <2> SUFFICES ASSUME told'[c] # 1 PROVE FALSE
    OBVIOUS
  <2>1. /\ c \in ChanName /\ c # it /\ told[c] # 1
        /\ c \in channelMap0 /\ c \notin over /\ p \in member0[c]
    BY <1>6, OverIs DEF IInv, Keys
  <2>2. c \in K /\ K # {}
    BY <1>2, <2>1 DEF IInv, Visits
  <2>3. ~(c < it)
    BY <2>1 DEF IInv, InOrder
  <2>4. it < c /\ it \in Nat /\ c \in Nat
    BY <1>1, <1>3, <2>1, <2>3
  <2>5. c = Begin(K)
    <3>1. Begin(K) \in Nat /\ Begin(K) =< c
      BY <1>3, <1>4, <2>2
    <3>2. ~(Begin(K) < c)
      BY <1>4, <1>5, <1>7, <2>2, <2>4
    <3> QED
      BY <2>4, <3>1, <3>2
  <2>6. \A d \in channelMap : ~(d < it)
    <3> SUFFICES ASSUME NEW d \in channelMap, d < it PROVE FALSE
      OBVIOUS
    <3>1. d \in K /\ d \in Nat
      BY <1>1, <1>2, <1>3
    <3>2. c =< d
      BY <1>4, <2>2, <2>5, <3>1
    <3> QED
      BY <2>4, <3>1, <3>2
  <2>7. ASSUME NEW d \in channelMap0 \ {it} PROVE c =< d
    <3>1. d \in Nat /\ d \in ChanName
      BY <1>3 DEF IInv, Keys
    <3>2. ~(d < it)
      BY <2>6, NothingErasedBefore
    <3>3. CASE d \in channelMap
      BY <1>2, <1>4, <2>2, <2>5, <3>3
    <3>4. CASE d \notin channelMap
      <4>1. told[d] = 1
        BY <3>1, <3>4 DEF IInv, Visits
      <4>2. it < d
        BY <2>4, <3>1, <3>2
      <4>3. told[it] = 1
        BY <1>1, <3>1, <4>1, <4>2 DEF IInv, InOrder
      <4> QED
        BY <1>1, <4>3
    <3> QED
      BY <3>3, <3>4
  <2>8. it \in channelMap0
    BY <1>1 DEF IInv, Keys
  <2>9. c \in over
    BY <1>1, <2>1, <2>4, <2>7, <2>8, OverIs
  <2> QED
    BY <2>1, <2>9
<1>8. InOrder'
  BY <1>6, <1>7 DEF InOrder
<1>9. PassesOver'
  <2> SUFFICES ASSUME NEW s \in over PROVE it' > s
    <3>1. \A s \in over : s \in Nat
      BY <1>3, OverIs DEF IInv, Keys
    <3> QED
      BY <1>5, <1>6, <3>1 DEF PassesOver
  <2>1. s \in channelMap0 /\ s \in ChanName /\ s \in Nat /\ s \notin found
    BY <1>3, OverIs DEF IInv, Keys
  <2>2. s \in K
    <3>1. s # it
      BY DEF IInv, PassesOver
    <3>2. s \in channelMap
      BY <2>1 DEF IInv, Visits
    <3> QED
      BY <1>2, <3>1, <3>2
  <2>3. \A d \in K : s =< d
    <3>1. PICK f \in channelMap0 :
            /\ member0[f] = {p} /\ f < s /\ f \notin over
            /\ \A d \in channelMap0 \ {f} : s =< d
      BY OverIsOne DEF IInv
    <3>2. f \notin K
      <4>1. CASE f = it
        BY <1>2, <4>1
      <4>2. CASE f # it
        <5>1. f \in found /\ f \in ChanName
          BY <3>1, OverIs DEF IInv, Keys
        <5>2. it \in channelMap0 \ {f}
          BY <1>1, <4>2 DEF IInv, Keys
        <5>3. s =< it
          BY <3>1, <5>2
        <5>4. f < it
          BY <1>1, <1>3, <2>1, <3>1, <5>1, <5>3
        <5>5. told[f] = 1
          BY <5>1, <5>4 DEF IInv, InOrder
        <5> QED
          BY <1>2, <3>1, <5>1, <5>5 DEF IInv, Visits
      <4> QED
        BY <4>1, <4>2
    <3>3. K \subseteq channelMap0
      BY <1>2 DEF IInv, Keys
    <3> QED
      BY <3>1, <3>2, <3>3
  <2>4. Begin(K) \in Nat /\ s =< Begin(K) /\ Begin(K) < it'
    BY <1>3, <1>4, <2>2, <2>3
  <2> QED
    BY <1>5, <2>1, <2>4
<1> QED
  BY <1>6, <1>8, <1>9 DEF IInv

-----------------------------------------------------------------------------
LEMMA InitIInv == ASSUME Init PROVE IInv
<1>1. /\ channelMap \in SUBSET ChanName /\ channelMap0 = channelMap
      /\ member \in [ChanName -> SUBSET Ptr] /\ member0 = member
      /\ \A c \in ChanName : c \in channelMap <=> member[c] # {}
      /\ it = Begin(channelMap)
  BY DEF Init
<1>2. /\ channelMap = {} => it = End
      /\ channelMap # {} => it \in channelMap /\ \A d \in channelMap : it =< d
  BY <1>1, BeginIsFirst
<1>3. \A c \in ChanName : told[c] = 0
  BY <1>1 DEF told
<1>4. Keys
  BY <1>1, <1>2 DEF Keys
<1>5. Visits
  BY <1>1, <1>3 DEF Visits
<1>6. ASSUME NEW c \in channelMap0 PROVE it \in channelMap /\ it =< c
  BY <1>1, <1>2
<1>7. \A c \in channelMap0 : c \in Nat
  BY <1>1 DEF ChanName
<1>8. InOrder
  <2>1. found \subseteq channelMap0
    BY OverIs
  <2>2. \A c \in channelMap0 : ~(c < it)
    BY <1>1, <1>6, <1>7
  <2> QED
    BY <1>3, <2>1, <2>2 DEF InOrder
<1>9. PassesOver
  <2> SUFFICES ASSUME NEW s \in over PROVE it # s
    BY <1>3 DEF PassesOver
  <2>1. PICK f \in channelMap0 : f < s
    BY OverIs
  <2>2. s \in channelMap0
    BY OverIs
  <2> QED
    BY <1>1, <1>6, <1>7, <2>1, <2>2
<1> QED
  BY <1>4, <1>5, <1>8, <1>9 DEF IInv

LEMMA IInvStep == ASSUME IInv, [Next]_vars PROVE IInv'
<1>1. CASE UNCHANGED vars
  <2>1. /\ UNCHANGED <<channelMap, member, it, told, channelMap0, member0>>
        /\ UNCHANGED before
    BY <1>1 DEF vars, before, told
  <2>2. over' = over /\ found' = found
    BY <2>1, BeforeStays
  <2> QED
    BY <2>1, <2>2 DEF IInv, Keys, Visits, InOrder, PassesOver
<1>2. CASE Visit
  BY <1>2, VisitStep, EraseStep
<1> QED
  BY <1>1, <1>2, PassByStep DEF Next

\* Whichever channels the walk of DeleteClient erases under its iterator, what
\* it has visited and stepped over is as IInv says.
THEOREM Inductive == Spec => []IInv
BY InitIInv, IInvStep, PTL DEF Spec

-----------------------------------------------------------------------------
\* When the walk is over, all channels the client is found on are visited.
LEMMA AllVisited ==
  ASSUME IInv, it = End, NEW c \in ChanName
  PROVE  told[c] = (IF c \in found THEN 1 ELSE 0)
<1>1. c < it
  BY DEF ChanName, End
<1>2. told[c] \in {0, 1}
  BY DEF told
<1>3. CASE c \in found
  BY <1>1, <1>3 DEF IInv, InOrder
<1>4. CASE c \notin found
  BY <1>2, <1>4 DEF IInv, Visits
<1> QED
  BY <1>3, <1>4

\* ChatServer may do the walk in one step: for any map and any members, the
\* iterator ends with the channels, the members and the erased keys that
\* ChatServer!DeleteClient writes down at once.
THEOREM OneStepIsTheWalk == Spec => []WalkAgrees
<1>1. IInv => WalkAgrees
  <2> SUFFICES ASSUME IInv, it = End PROVE
        /\ channelMap = channelMap0 \ Whole!Emptied(p, found)
        /\ \A c \in ChanName :
             member[c] = IF c \in found THEN member0[c] \ {p} ELSE member0[c]
    BY DEF WalkAgrees
  <2>1. \A c \in ChanName : told[c] = 1 <=> c \in found
    BY AllVisited
  <2>2. ASSUME NEW c \in ChanName
        PROVE  member[c] = IF c \in found THEN member0[c] \ {p}
                                          ELSE member0[c]
    BY <2>1 DEF IInv, Visits
  <2>3. \A c \in ChanName :
          c \in channelMap <=> c \in channelMap0 \ Whole!Emptied(p, found)
    <3>1. Whole!Emptied(p, found) = {c \in found : member0[c] = {p}}
      BY OverIs
    <3> QED
      BY <2>1, <3>1 DEF IInv, Visits
  <2>4. channelMap \subseteq ChanName /\ channelMap0 \subseteq ChanName
    BY DEF IInv, Keys
  <2> QED
    BY <2>2, <2>3, <2>4
<1> QED
  BY <1>1, Inductive, PTL

\* However many channels there are and however many the walk erases, the
\* client stays on one at most, and only if it was alone on the first.
THEOREM OneChannelMissed == Spec => []OneSteppedOver
<1>1. IInv => OneSteppedOver
  <2> DEFINE left == {c \in ChanName : p \in member[c]}
  <2> SUFFICES ASSUME IInv, it = End
               PROVE  /\ Cardinality(left) =< 1
                      /\ left # {} => member0[Min(channelMap0)] = {p}
    BY DEF OneSteppedOver
  <2>1. left \subseteq over
    <3> SUFFICES ASSUME NEW c \in ChanName, p \in member[c] PROVE c \in over
      OBVIOUS
    <3>1. told[c] = 1 <=> c \in found
      BY AllVisited
    <3>2. c \notin found /\ p \in member0[c]
      BY <3>1 DEF IInv, Visits
    <3>3. c \in channelMap0
      BY <3>2 DEF IInv, Keys
    <3> QED
      BY <3>2, <3>3, OverIs
  <2> HIDE DEF left
  <2>2. CASE left = {}
    BY <2>2, FS_EmptySet
  <2>3. CASE left # {}
    <3>1. PICK s \in left : TRUE
      BY <2>3
    <3>2. left = {s}
      BY <2>1, <3>1, OverIsOne DEF IInv
    <3>3. Cardinality(left) = 1
      BY <3>2, FS_Singleton
    <3>4. PICK f \in channelMap0 :
            member0[f] = {p} /\ \A d \in channelMap0 : f =< d
      BY <2>1, <3>1, OverIsOne DEF IInv
    <3>5. Min(channelMap0) = f
      BY <3>4, MinIs DEF IInv, Keys
    <3> QED
      BY <3>3, <3>4, <3>5
  <2> QED
    BY <2>2, <2>3
<1> QED
  BY <1>1, Inductive, PTL
=============================================================================
