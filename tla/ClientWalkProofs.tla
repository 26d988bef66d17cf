-------------------------- MODULE ClientWalkProofs --------------------------
(***************************************************************************)
(* Proofs about the walk of Loop over m_ClientVector, for any number of    *)
(* clients and any length of unfinished lines: a drop passes over the      *)
(* first client at most, nobody is passed over in two rounds in a row, and *)
(* a stale answer of select() is met only by clients served before.        *)
(*                                                                         *)
(* What is not inductive in the first two is the memory of the last round. *)
(* Whoever was missed is the first of the vector when the next round       *)
(* starts, and so the first one it serves (MissedIsFirst).                 *)
(***************************************************************************)
EXTENDS ClientWalk, SequenceTheorems, TLAPS

-----------------------------------------------------------------------------
(* What erase() and push_back() make of a vector in which nothing is found *)
(* twice.                                                                  *)

\* What is left of a sequence when its element i is taken out.
LEMMA RemoveAtElements ==
  ASSUME NEW S, NEW s \in Seq(S), NEW i \in 1..Len(s)
  PROVE  /\ RemoveAt(s, i) \in Seq(S)
         /\ Len(RemoveAt(s, i)) = Len(s) - 1
         /\ \A j \in 1..(Len(s) - 1) :
              RemoveAt(s, i)[j] = IF j < i THEN s[j] ELSE s[j + 1]
<1> DEFINE a == SubSeq(s, 1, i - 1)
           b == SubSeq(s, i + 1, Len(s))
<1>1. \A j \in 1..Len(s) : s[j] \in S
  BY ElementOfSeq
<1>2. /\ a \in Seq(S) /\ Len(a) = i - 1
      /\ \A j \in 1..(i - 1) : a[j] = s[j]
  BY <1>1, SubSeqProperties
<1>3. /\ b \in Seq(S) /\ Len(b) = Len(s) - i
      /\ \A j \in 1..(Len(s) - i) : b[j] = s[i + j]
  <2>1. \A j \in (i + 1)..Len(s) : s[j] \in S
    BY <1>1
  <2>2. /\ b \in Seq(S)
        /\ Len(b) = IF i + 1 =< Len(s) THEN Len(s) - (i + 1) + 1 ELSE 0
        /\ \A j \in 1..(Len(s) - (i + 1) + 1) : b[j] = s[(i + 1) + j - 1]
    BY <2>1, SubSeqProperties
  <2>3. Len(s) \in Nat
    OBVIOUS
  <2> HIDE DEF b
  <2> QED
    BY <2>2, <2>3
<1> HIDE DEF a, b
<1>4. RemoveAt(s, i) = a \o b
  BY DEF RemoveAt, a, b
<1>5. /\ a \o b \in Seq(S)
      /\ Len(a \o b) = Len(a) + Len(b)
      /\ \A j \in 1..(Len(a) + Len(b)) :
           (a \o b)[j] = IF j =< Len(a) THEN a[j] ELSE b[j - Len(a)]
  BY <1>2, <1>3, ConcatProperties
<1>6. ASSUME NEW j \in 1..(Len(s) - 1)
      PROVE  (a \o b)[j] = IF j < i THEN s[j] ELSE s[j + 1]
  <2>1. CASE j < i
    BY <1>2, <1>3, <1>5, <2>1
  <2>2. CASE ~(j < i)
    <3>1. (a \o b)[j] = b[j - (i - 1)]
      BY <1>2, <1>3, <1>5, <2>2
    <3>2. j - (i - 1) \in 1..(Len(s) - i)
      BY <2>2
    <3>3. i + (j - (i - 1)) = j + 1
      OBVIOUS
    <3> QED
      BY <1>3, <2>2, <3>1, <3>2, <3>3
  <2> QED
    BY <2>1, <2>2
<1> QED
  BY <1>2, <1>3, <1>4, <1>5, <1>6

\* Erasing from a vector takes out one client, and one only.
LEMMA RemoveAtInjective ==
  ASSUME NEW S, NEW s \in Seq(S), IsInjective(s), NEW i \in 1..Len(s)
  PROVE  /\ IsInjective(RemoveAt(s, i))
         /\ ToSet(RemoveAt(s, i)) = ToSet(s) \ {s[i]}
<1> DEFINE r == RemoveAt(s, i)
<1>1. /\ r \in Seq(S) /\ Len(r) = Len(s) - 1
      /\ \A j \in 1..(Len(s) - 1) : r[j] = IF j < i THEN s[j] ELSE s[j + 1]
  BY RemoveAtElements
<1> HIDE DEF r
<1>2. DOMAIN r = 1..(Len(s) - 1) /\ DOMAIN s = 1..Len(s) /\ Len(s) \in Nat
  BY <1>1
<1>3. \A a, b \in 1..Len(s) : s[a] = s[b] => a = b
  BY <1>2 DEF IsInjective
<1>4. IsInjective(r)
  <2> SUFFICES ASSUME NEW a \in 1..(Len(s) - 1), NEW b \in 1..(Len(s) - 1),
                      r[a] = r[b]
               PROVE  a = b
    BY <1>2 DEF IsInjective
  <2> DEFINE x == IF a < i THEN a ELSE a + 1
             y == IF b < i THEN b ELSE b + 1
  <2>1. x \in 1..Len(s) /\ y \in 1..Len(s)
    OBVIOUS
  <2>2. s[x] = s[y]
    BY <1>1
  <2>3. x = y
    BY <1>3, <2>1, <2>2
  <2> QED
    BY <2>3
<1>5. ASSUME NEW e \in ToSet(r) PROVE e \in ToSet(s) \ {s[i]}
  <2>1. PICK j \in 1..(Len(s) - 1) : e = r[j]
    BY <1>2, <1>5 DEF ToSet
  <2> DEFINE x == IF j < i THEN j ELSE j + 1
  <2>2. x \in 1..Len(s) /\ x # i /\ e = s[x]
    BY <1>1, <2>1
  <2> QED
    BY <1>2, <1>3, <2>2 DEF ToSet
<1>6. ASSUME NEW e \in ToSet(s) \ {s[i]} PROVE e \in ToSet(r)
  <2>1. PICK x \in 1..Len(s) : e = s[x] /\ x # i
    BY <1>2 DEF ToSet
  <2> DEFINE j == IF x < i THEN x ELSE x - 1
  <2>2. j \in 1..(Len(s) - 1) /\ r[j] = e
    BY <1>1, <2>1
  <2> QED
    BY <1>2, <2>2 DEF ToSet
<1> QED
  BY <1>4, <1>5, <1>6 DEF r

\* A newcomer at the end.
LEMMA AppendInjects ==
  ASSUME NEW S, NEW s \in Seq(S), IsInjective(s), NEW e \in S \ ToSet(s)
  PROVE  /\ Append(s, e) \in Seq(S)
         /\ IsInjective(Append(s, e))
         /\ ToSet(Append(s, e)) = ToSet(s) \cup {e}
         /\ Len(Append(s, e)) = Len(s) + 1
         /\ \A j \in 1..Len(s) : Append(s, e)[j] = s[j]
<1> DEFINE t == Append(s, e)
<1>1. /\ t \in Seq(S) /\ Len(t) = Len(s) + 1 /\ Len(s) \in Nat
      /\ \A j \in 1..Len(s) : t[j] = s[j]
      /\ t[Len(s) + 1] = e
  BY AppendProperties
<1> HIDE DEF t
<1>2. DOMAIN t = 1..(Len(s) + 1) /\ DOMAIN s = 1..Len(s)
  BY <1>1
<1>3. \A j \in 1..Len(s) : s[j] # e
  BY <1>2 DEF ToSet
<1>4. \A a, b \in 1..Len(s) : s[a] = s[b] => a = b
  BY <1>2 DEF IsInjective
<1>5. \A a \in 1..(Len(s) + 1) : a \in 1..Len(s) \/ a = Len(s) + 1
  BY <1>1
<1>6. IsInjective(t)
  BY <1>1, <1>2, <1>3, <1>4, <1>5 DEF IsInjective
<1>7. ToSet(t) = ToSet(s) \cup {e}
  <2>1. 1..Len(s) \subseteq 1..(Len(s) + 1) /\ Len(s) + 1 \in 1..(Len(s) + 1)
    BY <1>1
  <2> QED
    BY <1>1, <1>2, <1>5, <2>1 DEF ToSet
<1> QED
  BY <1>1, <1>6, <1>7 DEF t

-----------------------------------------------------------------------------
(* The invariant and the properties.                                       *)

\* A client missed in the last round is the first in the vector, and the
\* round that goes on has served it or is serving it, or has dropped it.
MissedIsFirst ==
  \A q \in Client : missed[q] # 0 =>
    /\ missed[q] = 1
    /\ phase = "select" => vector # <<>> /\ vector[1] = q
    /\ phase # "select" =>
         \/ q \notin Members
         \/ vector[1] = q /\ (it = 1 \/ q \in visited)

\* The answer of select() holds for every client not served yet.
AnswerIsFresh ==
  \A q \in rd \cap Members : q \notin visited =>
    Readable(q) \/ (phase = "check" /\ q = Current)

\* Between rounds nothing is kept of the last answer.
NothingKept == phase = "select" => rd = {}

IInv ==
  /\ TypeOK
  /\ OnlyFirstPassedOver
  /\ MissedIsFirst
  /\ AnswerIsFresh
  /\ NothingKept

-----------------------------------------------------------------------------
(* The steps, as far as the walk is concerned.                             *)

\* A step of a peer, or none: whatever was readable still is.
Quiet ==
  /\ UNCHANGED <<vector, rd, er, phase, it, pos, histVars>>
  /\ \A q \in Client : Readable(q) => Readable(q)'

\* ReadClientMessage has been called and the client stays.
ReadOn ==
  /\ phase = "read" /\ phase' = "check"
  /\ UNCHANGED <<vector, rd, er, it, eof, histVars>>
  /\ \A q \in Client \ {Current} : arrived'[q] = arrived[q]

\* While the walk goes on it is at a client.
LEMMA AtClient ==
  ASSUME TypeOK, phase # "select"
  PROVE  /\ it \in 1..Len(vector) /\ Len(vector) \in Nat
         /\ Current \in Client /\ Current \in Members
<1>1. /\ it \in 1..Len(vector) /\ vector \in Seq(Client)
  BY DEF TypeOK
<1> QED
  BY <1>1, ElementOfSeq DEF Current, Members, ToSet

LEMMA StepKinds ==
  ASSUME TypeOK, [Next]_vars
  PROVE  Quiet \/ Select \/ ReadOn \/ (phase # "select" /\ Drop) \/ CheckPassed
<1> USE DEF histVars, peerVars
<1>1. ASSUME NEW q \in Client, PeerSends(q) PROVE Quiet
  <2>1. UNCHANGED <<vector, rd, er, phase, it, pos, histVars>>
    BY <1>1 DEF PeerSends
  <2>2. /\ eof' = eof
        /\ \E piece \in {"part", "line"} : arrived' = [arrived EXCEPT ![q] = piece]
    BY <1>1 DEF PeerSends
  <2>3. arrived \in [Client -> {"nothing", "part", "line"}]
    BY DEF TypeOK
  <2>4. \A r \in Client : Readable(r) => Readable(r)'
    BY <2>2, <2>3 DEF Readable
  <2> QED
    BY <2>1, <2>4 DEF Quiet
<1>2. ASSUME NEW q \in Client, PeerCloses(q) PROVE Quiet
  BY <1>2 DEF PeerCloses, Quiet, Readable
<1>3. CASE ErrorDrop \/ RecvQuit
  BY <1>3 DEF ErrorDrop, RecvQuit, Reading, Receiving
<1>4. CASE CheckDrop
  BY <1>4 DEF CheckDrop
<1>5. CASE NotReadable
  BY <1>5 DEF NotReadable, Reading, ReadOn
<1>6. CASE RecvBytes
  <2>1. arrived' = [arrived EXCEPT ![Current] = "nothing"]
    BY <1>6 DEF RecvBytes
  <2>2. \A q \in Client \ {Current} : arrived'[q] = arrived[q]
    BY <2>1 DEF TypeOK
  <2> QED
    BY <1>6, <2>2 DEF RecvBytes, Receiving, Reading, ReadOn
<1>7. CASE RecvClosed
  BY <1>7 DEF RecvClosed, Receiving, Reading, ReadOn
<1>8. CASE RecvAgain
  BY <1>8 DEF RecvAgain, Receiving, Reading, ReadOn
<1>9. CASE UNCHANGED vars
  BY <1>9 DEF vars, Quiet, Readable
<1> QED
  BY <1>1, <1>2, <1>3, <1>4, <1>5, <1>6, <1>7, <1>8, <1>9 DEF Next, Peers, Loop

\* After a drop the walk is at the second client, or the round is over.
LEMMA AfterDropping ==
  ASSUME TypeOK, phase # "select", Drop
  PROVE  /\ vector' \in Seq(Client) /\ IsInjective(vector')
         /\ Members' = Members \ {Current}
         /\ Len(vector') = Len(vector) - 1
         /\ \A j \in 1..(Len(vector) - 1) :
              vector'[j] = IF j < it THEN vector[j] ELSE vector[j + 1]
         /\ \/ 2 =< Len(vector') /\ ServeNext(2)
            \/ Len(vector') < 2 /\ EndOfRound
<1>1. vector \in Seq(Client) /\ IsInjective(vector) /\ it \in 1..Len(vector)
  BY AtClient DEF TypeOK
<1>2. vector' = RemoveAt(vector, it)
  BY DEF Drop
<1>3. /\ vector' \in Seq(Client)
      /\ Len(vector') = Len(vector) - 1
      /\ \A j \in 1..(Len(vector) - 1) :
           vector'[j] = IF j < it THEN vector[j] ELSE vector[j + 1]
  BY <1>1, <1>2, RemoveAtElements
<1>4. IsInjective(vector') /\ Members' = Members \ {Current}
  BY <1>1, <1>2, RemoveAtInjective DEF Members, Current
<1>5. \/ 2 =< Len(vector') /\ ServeNext(2)
      \/ Len(vector') < 2 /\ EndOfRound
  <2>1. CASE vector' = <<>>
    <3>1. EndOfRound
      BY <2>1 DEF Drop
    <3>2. Len(vector') < 2
      BY <2>1
    <3> QED
      BY <3>1, <3>2
  <2>2. CASE vector' # <<>>
    <3>1. IF 2 =< Len(vector') THEN ServeNext(2) ELSE EndOfRound
      BY <2>2 DEF Drop, GoOn, AfterDrop
    <3>2. Len(vector') \in Nat
      BY <1>3
    <3> QED
      BY <3>1, <3>2
  <2> QED
    BY <2>1, <2>2
<1> QED
  BY <1>3, <1>4, <1>5

\* After a check the walk is at the next client, or the round is over.
LEMMA AfterCheck ==
  ASSUME TypeOK, CheckPassed
  PROVE  /\ vector' = vector /\ phase = "check"
         /\ \/ it < Len(vector) /\ ServeNext(it + 1)
            \/ it = Len(vector) /\ EndOfRound
<1>1. it \in 1..Len(vector) /\ Len(vector) \in Nat
  BY AtClient DEF CheckPassed
<1>2. vector' = vector /\ phase = "check" /\ GoOn(it + 1)
  BY DEF CheckPassed
<1> QED
  BY <1>1, <1>2 DEF GoOn

\* A round starts with the first client.
LEMMA RoundStarts ==
  ASSUME TypeOK, Select
  PROVE  /\ vector' \in Seq(Client) /\ IsInjective(vector')
         /\ Members \subseteq Members'
         /\ Len(vector) \in Nat /\ Len(vector') \in Nat
         /\ Len(vector) =< Len(vector')
         /\ \A j \in 1..Len(vector) : vector'[j] = vector[j]
         /\ \/ vector' = <<>> /\ phase' = "select" /\ it' = 0
            \/ vector' # <<>> /\ phase' = "read" /\ it' = 1
<1>1. vector \in Seq(Client) /\ IsInjective(vector)
  BY DEF TypeOK
<1>2. \/ vector' # <<>> /\ phase' = "read" /\ it' = 1
      \/ vector' = <<>> /\ phase' = "select" /\ it' = 0
  BY DEF Select
<1>3. CASE vector' = vector
  BY <1>1, <1>2, <1>3 DEF Members
<1>4. ASSUME NEW q \in Client \ Members, vector' = Append(vector, q)
      PROVE  /\ vector' \in Seq(Client) /\ IsInjective(vector')
             /\ Members \subseteq Members'
             /\ Len(vector') = Len(vector) + 1
             /\ \A j \in 1..Len(vector) : vector'[j] = vector[j]
  BY <1>1, <1>4, AppendInjects DEF Members
<1>5. Len(vector) \in Nat
  BY <1>1
<1> QED
  BY <1>1, <1>2, <1>3, <1>4, <1>5 DEF Select

-----------------------------------------------------------------------------
(* The parts of the invariant.                                             *)

\* Types.  A drop leaves the walk inside of what is left of the vector.
LEMMA TypeStep == ASSUME TypeOK, [Next]_vars PROVE TypeOK'
<1> USE DEF TypeOK, histVars, peerVars
<1> DEFINE Piece == {"nothing", "part", "line"}
           RestOK == /\ eof' \subseteq Client
                     /\ arrived' \in [Client -> Piece]
                     /\ pos' \in [Client -> Int]
                     /\ fault' \in BOOLEAN
           WalkOK == /\ vector' \in Seq(Client) /\ IsInjective(vector')
                     /\ rd' \subseteq Client /\ er' \subseteq Client
                     /\ phase' \in {"select", "read", "check"}
                     /\ IF phase' = "select" THEN it' = 0
                                             ELSE it' \in 1..Len(vector')
                     /\ visited' \subseteq Client
                     /\ missed' \in [Client -> Nat]
<1>1. RestOK
  <2>1. ASSUME NEW q \in Client, PeerSends(q) \/ PeerCloses(q) PROVE RestOK
    BY <2>1 DEF PeerSends, PeerCloses
  <2>2. ASSUME phase # "select", Drop, fault' \in BOOLEAN PROVE RestOK
    <3> Current \in Client
      BY <2>2, AtClient
    <3>1. /\ eof' = eof \ {Current}
          /\ arrived' = [arrived EXCEPT ![Current] = "nothing"]
          /\ pos' = [pos EXCEPT ![Current] = 0]
      BY <2>2 DEF Drop
    <3>2. eof' \subseteq Client /\ arrived' \in [Client -> Piece]
      BY <3>1
    <3>3. pos' \in [Client -> Int]
      BY <3>1
    <3> HIDE DEF Piece
    <3> QED
      BY <2>2, <3>2, <3>3
  <2>3. CASE ErrorDrop \/ RecvQuit \/ CheckDrop
    <3>1. phase # "select" /\ Drop /\ fault' \in BOOLEAN
      <4>1. CASE RecvQuit
        BY <4>1 DEF RecvQuit, Receiving, Reading
      <4>2. CASE ErrorDrop \/ CheckDrop
        BY <4>2 DEF ErrorDrop, CheckDrop, Reading
      <4> QED
        BY <2>3, <4>1, <4>2
    <3> QED
      BY <2>2, <3>1
  <2>4. CASE Select \/ NotReadable \/ CheckPassed \/ UNCHANGED vars
    BY <2>4 DEF Select, NotReadable, CheckPassed, vars
  <2>5. CASE RecvBytes
    <3>1. Current \in Client
      BY <2>5, AtClient DEF RecvBytes, Receiving, Reading
    <3>2. /\ eof' = eof
          /\ arrived' = [arrived EXCEPT ![Current] = "nothing"]
          /\ fault' \in BOOLEAN
          /\ pos' = [pos EXCEPT ![Current] =
                        IF arrived[Current] = "line" THEN 0
                        ELSE pos[Current] + 1]
      BY <2>5 DEF RecvBytes
    <3> QED
      BY <3>1, <3>2
  <2>6. CASE RecvClosed
    BY <2>2, <2>6 DEF RecvClosed, Receiving, Reading
  <2>7. CASE RecvAgain
    <3>1. Current \in Client
      BY <2>7, AtClient DEF RecvAgain, Receiving, Reading
    <3>2. /\ UNCHANGED <<eof, arrived, fault>>
          /\ pos' = [pos EXCEPT ![Current] = pos[Current] - 1]
      BY <2>7 DEF RecvAgain
    <3> QED
      BY <3>1, <3>2
  <2> QED
    BY <2>1, <2>3, <2>4, <2>5, <2>6, <2>7 DEF Next, Peers, Loop
<1>2. ASSUME (ServeNext(2) /\ 2 =< Len(vector')) \/ EndOfRound,
             vector' \in Seq(Client), IsInjective(vector'), phase # "select"
      PROVE  WalkOK
  <2>1. Current \in Client /\ Len(vector') \in Nat
    BY <1>2, AtClient
  <2>2. CASE EndOfRound
    BY <1>2, <2>1, <2>2 DEF EndOfRound
  <2>3. CASE ServeNext(2) /\ 2 =< Len(vector')
    <3>1. /\ phase' = "read" /\ it' = 2
          /\ visited' = visited \cup {Current}
          /\ rd' = rd /\ er' = er /\ missed' = missed
      BY <2>3 DEF ServeNext
    <3>2. it' \in 1..Len(vector')
      BY <2>1, <2>3, <3>1
    <3>3. /\ visited' \subseteq Client
          /\ rd' \subseteq Client /\ er' \subseteq Client
      BY <2>1, <3>1
    <3>4. missed' \in [Client -> Nat]
      BY <3>1
    <3> QED
      BY <1>2, <3>1, <3>2, <3>3, <3>4
  <2> QED
    BY <1>2, <2>2, <2>3
<1>3. WalkOK
  <2>1. CASE Quiet
    BY <2>1 DEF Quiet
  <2>2. CASE Select
    <3>1. /\ vector' \in Seq(Client) /\ IsInjective(vector')
          /\ Len(vector') \in Nat
          /\ \/ vector' = <<>> /\ phase' = "select" /\ it' = 0
             \/ vector' # <<>> /\ phase' = "read" /\ it' = 1
      BY <2>2, RoundStarts
    <3>2. vector' # <<>> => Len(vector') # 0
      BY <3>1
    <3>3. rd' \subseteq Client /\ er' \subseteq Client
      BY <2>2 DEF Select, Members, ToSet
    <3>4. UNCHANGED <<visited, missed>>
      BY <2>2 DEF Select
    <3> QED
      BY <3>1, <3>2, <3>3, <3>4
  <2>3. CASE ReadOn
    BY <2>3 DEF ReadOn
  <2>4. CASE phase # "select" /\ Drop
    BY <1>2, <2>4, AfterDropping
  <2>5. CASE CheckPassed
    <3>1. /\ vector' = vector /\ phase = "check"
          /\ \/ it < Len(vector) /\ ServeNext(it + 1)
             \/ it = Len(vector) /\ EndOfRound
      BY <2>5, AfterCheck
    <3>2. it \in 1..Len(vector) /\ Len(vector) \in Nat /\ Current \in Client
      BY <3>1, AtClient
    <3>3. CASE EndOfRound
      BY <1>2, <3>1, <3>3
    <3>4. CASE it < Len(vector) /\ ServeNext(it + 1)
      BY <3>1, <3>2, <3>4 DEF ServeNext
    <3> QED
      BY <3>1, <3>3, <3>4
  <2> QED
    BY <2>1, <2>2, <2>3, <2>4, <2>5, StepKinds
<1> HIDE DEF RestOK, WalkOK
<1> QED
  BY <1>1, <1>3 DEF RestOK, WalkOK

\* Whoever is behind the walk has been served, the first one excepted.
LEMMA PassedOverStep ==
  ASSUME TypeOK, OnlyFirstPassedOver, [Next]_vars PROVE OnlyFirstPassedOver'
<1> USE DEF OnlyFirstPassedOver
<1>1. CASE Quiet
  BY <1>1 DEF Quiet, histVars
<1>2. CASE Select
  BY <1>2, RoundStarts
<1>3. CASE ReadOn
  BY <1>3 DEF ReadOn, histVars
<1>4. CASE phase # "select" /\ Drop
  <2>1. it' = 2 \/ phase' = "select"
    BY <1>4, AfterDropping DEF ServeNext, EndOfRound
  <2>2. \A i \in 1..Len(vector') : i < 2 => i = 1
    OBVIOUS
  <2> QED
    BY <2>1, <2>2
<1>5. CASE CheckPassed
  <2>1. /\ vector' = vector /\ phase # "select"
        /\ \/ phase' = "select"
           \/ it' = it + 1 /\ visited' = visited \cup {Current}
    BY <1>5, AfterCheck DEF ServeNext, EndOfRound
  <2>2. it \in 1..Len(vector) /\ Len(vector) \in Nat
    BY <2>1, AtClient
  <2>3. ASSUME NEW i \in 1..Len(vector), i < it + 1, vector[i] \notin visited,
               vector[i] # Current
        PROVE  i = 1
    <3>1. i # it
      BY <2>3 DEF Current
    <3> QED
      BY <2>1, <2>2, <2>3, <3>1
  <2> QED
    BY <2>1, <2>3
<1> QED
  BY <1>1, <1>2, <1>3, <1>4, <1>5, StepKinds

\* Who is missed when a round ends is the first one left, and was not missed
\* in the round before.
LEMMA MissedAtEnd ==
  ASSUME TypeOK, OnlyFirstPassedOver, MissedIsFirst, phase # "select",
         EndOfRound,
         \/ vector' = vector /\ it = Len(vector)
         \/ /\ Members' = Members \ {Current}
            /\ Len(vector') < 2
            /\ vector' \in Seq(Client)
  PROVE  MissedIsFirst'
<1> SUFFICES ASSUME NEW q \in Client, missed'[q] # 0
             PROVE  missed'[q] = 1 /\ vector' # <<>> /\ vector'[1] = q
  BY DEF MissedIsFirst, EndOfRound
<1>1. /\ q \in Members' \ (visited \cup {Current})
      /\ missed'[q] = missed[q] + 1
  BY DEF EndOfRound
<1>2. q \in Members
  BY <1>1 DEF Members
<1>3. vector[1] = q => it # 1
  BY <1>1 DEF Current
<1>4. missed[q] = 0
  BY <1>1, <1>2, <1>3 DEF MissedIsFirst
<1>5. PICK i \in 1..Len(vector') : vector'[i] = q
  <2>1. vector' \in Seq(Client)
    BY DEF TypeOK
  <2> QED
    BY <1>1, <2>1 DEF Members, ToSet
<1>6. i = 1
  <2>1. CASE vector' = vector /\ it = Len(vector)
    <3>1. i # it
      BY <1>1, <1>5, <2>1 DEF Current
    <3>2. i < it
      BY <1>5, <2>1, <3>1, AtClient
    <3> QED
      BY <1>1, <1>5, <2>1, <3>2 DEF OnlyFirstPassedOver
  <2>2. CASE Len(vector') < 2
    BY <1>5, <2>2
  <2> QED
    BY <2>1, <2>2
<1>7. vector' # <<>>
  BY <1>5
<1> QED
  BY <1>1, <1>4, <1>5, <1>6, <1>7

\* Whoever has been missed is served first in the next round.
LEMMA MissedStep ==
  ASSUME TypeOK, OnlyFirstPassedOver, MissedIsFirst, [Next]_vars
  PROVE  MissedIsFirst'
<1>1. CASE Quiet
  BY <1>1 DEF Quiet, histVars, MissedIsFirst, Members
<1>2. CASE Select
  <2> SUFFICES ASSUME NEW q \in Client, missed'[q] # 0
               PROVE  /\ missed'[q] = 1
                      /\ vector' # <<>> /\ vector'[1] = q /\ it' = 1
                      /\ phase' # "select"
    BY DEF MissedIsFirst
  <2>1. missed[q] = 1 /\ missed'[q] = 1 /\ vector # <<>> /\ vector[1] = q
    BY <1>2 DEF MissedIsFirst, Select, histVars
  <2>2. /\ Len(vector) \in Nat /\ Len(vector') \in Nat
        /\ Len(vector) =< Len(vector')
        /\ \A j \in 1..Len(vector) : vector'[j] = vector[j]
        /\ \/ vector' = <<>> /\ phase' = "select" /\ it' = 0
           \/ vector' # <<>> /\ phase' = "read" /\ it' = 1
    BY <1>2, RoundStarts
  <2>3. Len(vector) # 0
    BY <2>1 DEF TypeOK
  <2>4. vector' # <<>>
    BY <2>2, <2>3
  <2> QED
    BY <2>1, <2>2, <2>3, <2>4
<1>3. CASE ReadOn
  BY <1>3 DEF ReadOn, histVars, MissedIsFirst, Members
<1>4. CASE phase # "select" /\ Drop
  <2>1. /\ vector' \in Seq(Client) /\ IsInjective(vector')
        /\ Members' = Members \ {Current}
        /\ Len(vector') = Len(vector) - 1
        /\ \A j \in 1..(Len(vector) - 1) :
             vector'[j] = IF j < it THEN vector[j] ELSE vector[j + 1]
        /\ \/ 2 =< Len(vector') /\ ServeNext(2)
           \/ Len(vector') < 2 /\ EndOfRound
    BY <1>4, AfterDropping
  <2>2. CASE EndOfRound /\ Len(vector') < 2
    BY <1>4, <2>1, <2>2, MissedAtEnd
  <2>3. CASE 2 =< Len(vector') /\ ServeNext(2)
    <3> SUFFICES ASSUME NEW q \in Client, missed'[q] # 0
                 PROVE  /\ missed'[q] = 1
                        /\ \/ q \notin Members'
                           \/ vector'[1] = q /\ q \in visited'
      BY <2>3 DEF MissedIsFirst, ServeNext
    <3>1. missed[q] = 1 /\ missed'[q] = 1
      BY <2>3 DEF MissedIsFirst, ServeNext
    <3>2. CASE q \notin Members
      BY <2>1, <3>1, <3>2
    <3>3. CASE it = 1 /\ vector[1] = q
      BY <2>1, <3>1, <3>3 DEF Current
    <3>4. CASE it # 1 /\ vector[1] = q /\ q \in visited
      <4>1. it \in 1..Len(vector) /\ Len(vector) \in Nat
        BY <1>4, AtClient
      <4>2. vector'[1] = vector[1]
        BY <2>1, <2>3, <3>4, <4>1
      <4> QED
        BY <2>3, <3>1, <3>4, <4>2 DEF ServeNext
    <3> QED
      BY <1>4, <3>1, <3>2, <3>3, <3>4 DEF MissedIsFirst
  <2> QED
    BY <2>1, <2>2, <2>3
<1>5. CASE CheckPassed
  <2>1. /\ vector' = vector /\ phase = "check"
        /\ \/ it < Len(vector) /\ ServeNext(it + 1)
           \/ it = Len(vector) /\ EndOfRound
    BY <1>5, AfterCheck
  <2>2. CASE it = Len(vector) /\ EndOfRound
    BY <2>1, <2>2, MissedAtEnd
  <2>3. CASE ServeNext(it + 1)
    BY <2>1, <2>3 DEF MissedIsFirst, ServeNext, Members, Current
  <2> QED
    BY <2>1, <2>2, <2>3
<1> QED
  BY <1>1, <1>2, <1>3, <1>4, <1>5, StepKinds

\* A client is readable, if select() said so, until it is served.
LEMMA FreshStep ==
  ASSUME TypeOK, AnswerIsFresh, NothingKept, [Next]_vars
  PROVE  AnswerIsFresh' /\ NothingKept'
<1> USE DEF AnswerIsFresh, NothingKept
<1>1. CASE Quiet
  <2>1. UNCHANGED <<vector, rd, phase, it, visited>>
    BY <1>1 DEF Quiet, histVars
  <2>2. rd \subseteq Client
    BY DEF TypeOK
  <2> QED
    BY <1>1, <2>1, <2>2 DEF Quiet, Members, Current
<1>2. CASE Select
  <2>1. rd' = {q \in Members : Readable(q)} /\ UNCHANGED <<arrived, eof>>
    BY <1>2 DEF Select, peerVars
  <2>2. vector' = <<>> => Members = {}
    <3> SUFFICES ASSUME vector' = <<>> PROVE Members = {}
      OBVIOUS
    <3>1. Members \subseteq Members' /\ Members' = {}
      BY <1>2, RoundStarts DEF Members, ToSet
    <3> QED
      BY <3>1
  <2>3. phase' = "select" => vector' = <<>>
    BY <1>2, RoundStarts
  <2> QED
    BY <2>1, <2>2, <2>3 DEF Readable
<1>3. CASE ReadOn
  <2>1. /\ UNCHANGED <<vector, rd, it, eof, visited>> /\ phase' = "check"
        /\ \A q \in Client \ {Current} : arrived'[q] = arrived[q]
        /\ phase = "read"
    BY <1>3 DEF ReadOn, histVars
  <2>2. rd \subseteq Client
    BY DEF TypeOK
  <2>3. \A q \in rd : q = Current \/ (Readable(q) => Readable(q)')
    BY <2>1, <2>2 DEF Readable
  <2> QED
    BY <2>1, <2>3 DEF Members, Current
<1>4. ASSUME EndOfRound PROVE AnswerIsFresh' /\ NothingKept'
  BY <1>4 DEF EndOfRound
<1>5. ASSUME NEW i, ServeNext(i), Members' \subseteq Members,
             \A q \in Client \ {Current} : Readable(q) => Readable(q)'
      PROVE  AnswerIsFresh' /\ NothingKept'
  <2>1. /\ rd' = rd /\ phase' = "read"
        /\ visited' = visited \cup {Current}
    BY <1>5 DEF ServeNext
  <2>2. rd \subseteq Client
    BY DEF TypeOK
  <2> QED
    BY <1>5, <2>1, <2>2
<1>6. CASE phase # "select" /\ Drop
  <2>1. /\ eof' = eof \ {Current}
        /\ arrived' = [arrived EXCEPT ![Current] = "nothing"]
    BY <1>6 DEF Drop
  <2>2. \A q \in Client \ {Current} : Readable(q) => Readable(q)'
    BY <2>1 DEF Readable, TypeOK
  <2> QED
    BY <1>4, <1>5, <1>6, <2>2, AfterDropping
<1>7. CASE CheckPassed
  <2>1. UNCHANGED <<arrived, eof>>
    BY <1>7 DEF CheckPassed, peerVars
  <2>2. \A q \in Client \ {Current} : Readable(q) => Readable(q)'
    BY <2>1 DEF Readable
  <2>3. vector' = vector /\ (ServeNext(it + 1) \/ EndOfRound)
    BY <1>7, AfterCheck
  <2>4. Members' = Members
    BY <2>3 DEF Members
  <2> QED
    BY <1>4, <1>5, <2>2, <2>3, <2>4
<1> QED
  BY <1>1, <1>2, <1>3, <1>6, <1>7, StepKinds

-----------------------------------------------------------------------------
(* The theorems.                                                           *)

LEMMA InitIInv == Init => IInv
<1> SUFFICES ASSUME Init PROVE IInv
  OBVIOUS
<1>1. TypeOK
  <2>1. vector \in Seq(Client) /\ IsInjective(vector)
    BY EmptySeq DEF Init, IsInjective
  <2>2. pos \in [Client -> Int] /\ missed \in [Client -> Nat]
    BY DEF Init
  <2>3. /\ arrived \in [Client -> {"nothing", "part", "line"}]
        /\ rd \subseteq Client /\ er \subseteq Client /\ eof \subseteq Client
        /\ visited \subseteq Client
        /\ phase = "select" /\ it = 0 /\ fault \in BOOLEAN
    BY DEF Init
  <2> QED
    BY <2>1, <2>2, <2>3 DEF TypeOK
<1> QED
  BY <1>1 DEF Init, IInv, OnlyFirstPassedOver, MissedIsFirst, AnswerIsFresh,
              NothingKept

LEMMA IInvStep == IInv /\ [Next]_vars => IInv'
  BY TypeStep, PassedOverStep, MissedStep, FreshStep DEF IInv

\* Every variable keeps its type, and the walk is inside m_ClientVector
\* whenever Loop looks at a client, whoever was dropped before.
THEOREM WalkTypeCorrect == Spec => []TypeOK
<1>1. IInv => TypeOK
  BY DEF IInv
<1> QED
  BY <1>1, InitIInv, IInvStep, PTL DEF Spec

\* Restarting the walk at begin() + 1 leaves only the first client behind
\* (Server.cpp:218-281).
THEOREM OnlyTheFirstIsPassedOver == Spec => []OnlyFirstPassedOver
<1>1. IInv => OnlyFirstPassedOver
  BY DEF IInv
<1> QED
  BY <1>1, InitIInv, IInvStep, PTL DEF Spec

\* No client that stays is passed over in two rounds in a row, whoever is
\* dropped, and whatever the dropped ones were sending.
THEOREM NobodyIsMissedTwice == Spec => []NeverMissedTwice
<1>1. IInv => NeverMissedTwice
  <2> SUFFICES ASSUME IInv, NEW q \in Client PROVE missed[q] =< 1
    BY DEF NeverMissedTwice
  <2>1. missed[q] = 0 \/ missed[q] = 1
    BY DEF IInv, MissedIsFirst
  <2> QED
    BY <2>1
<1> QED
  BY <1>1, InitIInv, IInvStep, PTL DEF Spec

\* recv finds nothing, and the -1 goes into the buffer position, only at
\* clients that were served before in the same round.
THEOREM StaleAfterServedOnly == Spec => StaleOnlyIfServedBefore
<1>1. IInv /\ [Next]_vars =>
        \A q \in Client : pos'[q] < pos[q] /\ pos'[q] # 0 => q \in visited
  <2> SUFFICES ASSUME IInv, [Next]_vars, NEW q \in Client,
                      pos'[q] < pos[q], pos'[q] # 0
               PROVE  q \in visited
    OBVIOUS
  <2>1. pos \in [Client -> Int]
    BY DEF IInv, TypeOK
  <2>2. CASE RecvAgain
    <3>1. /\ phase = "read" /\ Current \in rd
          /\ ~Readable(Current)
          /\ pos' = [pos EXCEPT ![Current] = @ - 1]
      BY <2>2 DEF RecvAgain, Receiving, Reading, Readable
    <3>2. Current \in Members
      BY <3>1, AtClient DEF IInv
    <3>3. q = Current
      BY <2>1, <3>1
    <3> QED
      BY <3>1, <3>2, <3>3 DEF IInv, AnswerIsFresh
  <2>3. CASE RecvBytes
    <3>1. pos' = [pos EXCEPT ![Current] =
                    IF arrived[Current] = "line" THEN 0 ELSE @ + 1]
      BY <2>3 DEF RecvBytes
    <3> QED
      BY <2>1, <3>1
  <2>4. CASE Drop
    <3>1. pos' = [pos EXCEPT ![Current] = 0]
      BY <2>4 DEF Drop
    <3> QED
      BY <2>1, <3>1
  <2>5. CASE pos' = pos
    BY <2>1, <2>5
  <2>6. CASE Peers \/ UNCHANGED vars
    BY <2>5, <2>6 DEF Peers, PeerSends, PeerCloses, vars
  <2>7. CASE Select \/ NotReadable \/ CheckPassed \/ RecvClosed
    BY <2>4, <2>5, <2>7 DEF Select, NotReadable, CheckPassed, RecvClosed
  <2>8. CASE ErrorDrop \/ RecvQuit \/ CheckDrop
    BY <2>4, <2>8 DEF ErrorDrop, RecvQuit, CheckDrop
  <2> QED
    BY <2>2, <2>3, <2>6, <2>7, <2>8 DEF Next, Loop
<1> QED
  BY <1>1, InitIInv, IInvStep, PTL DEF Spec, StaleOnlyIfServedBefore
=============================================================================
