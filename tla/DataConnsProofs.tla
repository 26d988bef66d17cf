-------------------------- MODULE DataConnsProofs ---------------------------
(***************************************************************************)
(* Proofs about data connections, for any number of clients, connections   *)
(* and pages and whatever serials the peers put on them: the connection of *)
(* a client is open, read in one place only, and its own unless serials    *)
(* were mixed; a connection that has left the unassigned ones has a served *)
(* client; a client keeps its connection; and what undefined steps take.   *)
(*                                                                         *)
(* The invariant is TypeOK in parts, with two facts that are not typing.   *)
(* The pages on a connection name the client that opened it, or one that   *)
(* is mixed up with it (PagesNamed): the code never compares the two, so   *)
(* whatever is said of a client's own connection rests on this.  And what  *)
(* waits is open (WaitingAreOpen), which is why `new' never gives a        *)
(* connection that is already in the vector.                               *)
(***************************************************************************)
EXTENDS DataConns, SequenceTheorems, TLAPS

-----------------------------------------------------------------------------
(* What erase() and push_back() make of a vector in which nothing is found *)
(* twice.                                                                  *)

\* What is left of a sequence when its element i is taken out.
LEMMA RemoveAtElements ==
  ASSUME NEW S, NEW s \in Seq(S), NEW i \in 1..Len(s)
  PROVE  /\ RemoveAt(s, i) \in Seq(S)
         /\ Len(RemoveAt(s, i)) = Len(s) - 1
         /\ \A j \in 1..(Len(s) - 1) :
              RemoveAt(s, i)[j] = IF j < i THEN s[j] ELSE s[j + 1]
<1> DEFINE a == SubSeq(s, 1, i - 1)
           b == SubSeq(s, i + 1, Len(s))
<1>1. \A j \in 1..Len(s) : s[j] \in S
  BY ElementOfSeq
<1>2. /\ a \in Seq(S) /\ Len(a) = i - 1
      /\ \A j \in 1..(i - 1) : a[j] = s[j]
  BY <1>1, SubSeqProperties
<1>3. /\ b \in Seq(S) /\ Len(b) = Len(s) - i
      /\ \A j \in 1..(Len(s) - i) : b[j] = s[i + j]
  <2>1. \A j \in (i + 1)..Len(s) : s[j] \in S
    BY <1>1
  <2>2. /\ b \in Seq(S)
        /\ Len(b) = IF i + 1 =< Len(s) THEN Len(s) - (i + 1) + 1 ELSE 0
        /\ \A j \in 1..(Len(s) - (i + 1) + 1) : b[j] = s[(i + 1) + j - 1]
    BY <2>1, SubSeqProperties
  <2>3. Len(s) \in Nat
    OBVIOUS
  <2> HIDE DEF b
  <2> QED
    BY <2>2, <2>3
<1> HIDE DEF a, b
<1>4. RemoveAt(s, i) = a \o b
  BY DEF RemoveAt, a, b
<1>5. /\ a \o b \in Seq(S)
      /\ Len(a \o b) = Len(a) + Len(b)
      /\ \A j \in 1..(Len(a) + Len(b)) :
           (a \o b)[j] = IF j =< Len(a) THEN a[j] ELSE b[j - Len(a)]
  BY <1>2, <1>3, ConcatProperties
<1>6. ASSUME NEW j \in 1..(Len(s) - 1)
      PROVE  (a \o b)[j] = IF j < i THEN s[j] ELSE s[j + 1]
  <2>1. CASE j < i
    BY <1>2, <1>3, <1>5, <2>1
  <2>2. CASE ~(j < i)
    <3>1. (a \o b)[j] = b[j - (i - 1)]
      BY <1>2, <1>3, <1>5, <2>2
    <3>2. j - (i - 1) \in 1..(Len(s) - i)
      BY <2>2
    <3>3. i + (j - (i - 1)) = j + 1
      OBVIOUS
    <3> QED
      BY <1>3, <2>2, <3>1, <3>2, <3>3
  <2> QED
    BY <2>1, <2>2
<1> QED
  BY <1>2, <1>3, <1>4, <1>5, <1>6

\* Erasing from a vector takes out one client, and one only.
LEMMA RemoveAtInjective ==
  ASSUME NEW S, NEW s \in Seq(S), IsInjective(s), NEW i \in 1..Len(s)
  PROVE  /\ IsInjective(RemoveAt(s, i))
         /\ ToSet(RemoveAt(s, i)) = ToSet(s) \ {s[i]}
<1> DEFINE r == RemoveAt(s, i)
<1>1. /\ r \in Seq(S) /\ Len(r) = Len(s) - 1
      /\ \A j \in 1..(Len(s) - 1) : r[j] = IF j < i THEN s[j] ELSE s[j + 1]
  BY RemoveAtElements
<1> HIDE DEF r
<1>2. DOMAIN r = 1..(Len(s) - 1) /\ DOMAIN s = 1..Len(s) /\ Len(s) \in Nat
  BY <1>1
<1>3. \A a, b \in 1..Len(s) : s[a] = s[b] => a = b
  BY <1>2 DEF IsInjective
<1>4. IsInjective(r)
  <2> SUFFICES ASSUME NEW a \in 1..(Len(s) - 1), NEW b \in 1..(Len(s) - 1),
                      r[a] = r[b]
               PROVE  a = b
    BY <1>2 DEF IsInjective
  <2> DEFINE x == IF a < i THEN a ELSE a + 1
             y == IF b < i THEN b ELSE b + 1
  <2>1. x \in 1..Len(s) /\ y \in 1..Len(s)
    OBVIOUS
  <2>2. s[x] = s[y]
    BY <1>1
  <2>3. x = y
    BY <1>3, <2>1, <2>2
  <2> QED
    BY <2>3
<1>5. ASSUME NEW e \in ToSet(r) PROVE e \in ToSet(s) \ {s[i]}
  <2>1. PICK j \in 1..(Len(s) - 1) : e = r[j]
    BY <1>2, <1>5 DEF ToSet
  <2> DEFINE x == IF j < i THEN j ELSE j + 1
  <2>2. x \in 1..Len(s) /\ x # i /\ e = s[x]
    BY <1>1, <2>1
  <2> QED
    BY <1>2, <1>3, <2>2 DEF ToSet
<1>6. ASSUME NEW e \in ToSet(s) \ {s[i]} PROVE e \in ToSet(r)
  <2>1. PICK x \in 1..Len(s) : e = s[x] /\ x # i
    BY <1>2 DEF ToSet
  <2> DEFINE j == IF x < i THEN x ELSE x - 1
  <2>2. j \in 1..(Len(s) - 1) /\ r[j] = e
    BY <1>1, <2>1
  <2> QED
    BY <1>2, <2>2 DEF ToSet
<1> QED
  BY <1>4, <1>5, <1>6 DEF r

\* A newcomer at the end.
LEMMA AppendInjects ==
  ASSUME NEW S, NEW s \in Seq(S), IsInjective(s), NEW e \in S \ ToSet(s)
  PROVE  /\ Append(s, e) \in Seq(S)
         /\ IsInjective(Append(s, e))
         /\ ToSet(Append(s, e)) = ToSet(s) \cup {e}
         /\ Len(Append(s, e)) = Len(s) + 1
         /\ \A j \in 1..Len(s) : Append(s, e)[j] = s[j]
<1> DEFINE t == Append(s, e)
<1>1. /\ t \in Seq(S) /\ Len(t) = Len(s) + 1 /\ Len(s) \in Nat
      /\ \A j \in 1..Len(s) : t[j] = s[j]
      /\ t[Len(s) + 1] = e
  BY AppendProperties
<1> HIDE DEF t
<1>2. DOMAIN t = 1..(Len(s) + 1) /\ DOMAIN s = 1..Len(s)
  BY <1>1
<1>3. \A j \in 1..Len(s) : s[j] # e
  BY <1>2 DEF ToSet
<1>4. \A a, b \in 1..Len(s) : s[a] = s[b] => a = b
  BY <1>2 DEF IsInjective
<1>5. \A a \in 1..(Len(s) + 1) : a \in 1..Len(s) \/ a = Len(s) + 1
  BY <1>1
<1>6. IsInjective(t)
  BY <1>1, <1>2, <1>3, <1>4, <1>5 DEF IsInjective
<1>7. ToSet(t) = ToSet(s) \cup {e}
  <2>1. 1..Len(s) \subseteq 1..(Len(s) + 1) /\ Len(s) + 1 \in 1..(Len(s) + 1)
    BY <1>1
  <2> QED
    BY <1>1, <1>2, <1>5, <2>1 DEF ToSet
<1> QED
  BY <1>1, <1>6, <1>7 DEF t

\* A sequence cut in two behind element m, and its part from i + 1 on.
LEMMA CutSeq ==
  ASSUME NEW S, NEW s \in Seq(S), NEW m \in 0..Len(s), NEW i \in 0..m
  PROVE  /\ SubSeq(s, i + 1, m) \in Seq(S)
         /\ SubSeq(s, m + 1, Len(s)) \in Seq(S)
         /\ SubSeq(s, i + 1, m) \o SubSeq(s, m + 1, Len(s))
              = SubSeq(s, i + 1, Len(s))
<1> DEFINE n == Len(s)
           a == SubSeq(s, i + 1, m)
           b == SubSeq(s, m + 1, n)
           c == SubSeq(s, i + 1, n)
<1>1. n \in Nat /\ m \in 0..n /\ i \in 0..m
  BY LenProperties
<1>2. \A j \in 1..n : s[j] \in S
  BY ElementOfSeq
<1> HIDE DEF n
<1>3. /\ \A j \in (i + 1)..m : s[j] \in S
      /\ \A j \in (m + 1)..n : s[j] \in S
      /\ \A j \in (i + 1)..n : s[j] \in S
  BY <1>1, <1>2
<1>4. /\ a \in Seq(S)
      /\ Len(a) = IF i + 1 <= m THEN m - (i + 1) + 1 ELSE 0
      /\ \A j \in 1..(m - (i + 1) + 1) : a[j] = s[i + 1 + j - 1]
  BY <1>1, <1>3, SubSeqProperties
<1>5. /\ b \in Seq(S)
      /\ Len(b) = IF m + 1 <= n THEN n - (m + 1) + 1 ELSE 0
      /\ \A j \in 1..(n - (m + 1) + 1) : b[j] = s[m + 1 + j - 1]
  BY <1>1, <1>3, SubSeqProperties
<1>6. /\ c \in Seq(S)
      /\ Len(c) = IF i + 1 <= n THEN n - (i + 1) + 1 ELSE 0
      /\ \A j \in 1..(n - (i + 1) + 1) : c[j] = s[i + 1 + j - 1]
  BY <1>1, <1>3, SubSeqProperties
<1> HIDE DEF a, b, c
<1>7. Len(a) = m - i /\ Len(b) = n - m /\ Len(c) = n - i
  BY <1>1, <1>4, <1>5, <1>6
<1>8. /\ a \o b \in Seq(S)
      /\ Len(a \o b) = Len(a) + Len(b)
      /\ \A j \in 1..(Len(a) + Len(b)) :
           (a \o b)[j] = IF j <= Len(a) THEN a[j] ELSE b[j - Len(a)]
  BY <1>4, <1>5, ConcatProperties
<1>9. ASSUME NEW j \in 1..(n - i)
      PROVE  (a \o b)[j] = c[j]
  <2>1. c[j] = s[i + j]
    <3>1. j \in 1..(n - (i + 1) + 1) /\ i + 1 + j - 1 = i + j
      BY <1>1
    <3> QED
      BY <1>6, <3>1
  <2>2. CASE j <= m - i
    <3>1. j \in 1..(m - (i + 1) + 1) /\ i + 1 + j - 1 = i + j
      BY <1>1, <2>2
    <3>2. a[j] = s[i + j]
      BY <1>4, <3>1
    <3> QED
      BY <1>1, <1>7, <1>8, <2>1, <2>2, <3>2
  <2>3. CASE ~(j <= m - i)
    <3>1. /\ j - (m - i) \in 1..(n - (m + 1) + 1)
          /\ m + 1 + (j - (m - i)) - 1 = i + j
      BY <1>1, <2>3
    <3>2. b[j - (m - i)] = s[i + j]
      BY <1>5, <3>1
    <3> QED
      BY <1>1, <1>7, <1>8, <2>1, <2>3, <3>2
  <2> QED
    BY <2>2, <2>3
<1>10. Len(a \o b) = Len(c) /\ Len(a \o b) = n - i
  BY <1>1, <1>7, <1>8
<1>11. a \o b = c
  BY <1>6, <1>8, <1>9, <1>10, SeqEqual
<1> QED
  BY <1>4, <1>5, <1>11 DEF a, b, c, n

\* A sequence over a set is one over each larger set.
LEMMA SeqOver ==
  ASSUME NEW S, NEW T, NEW s \in Seq(S), \A i \in 1..Len(s) : s[i] \in T
  PROVE  s \in Seq(T)
<1>1. /\ Len(s) \in Nat /\ DOMAIN s = 1..Len(s)
      /\ s = [i \in 1..Len(s) |-> s[i]]
  BY LenProperties, SeqDef
<1> QED
  BY <1>1, IsASeq

-----------------------------------------------------------------------------
(* The invariant and the properties.                                       *)

ClientsOK ==
  /\ vector \in Seq(Client) /\ IsInjective(vector)
  /\ loggedIn \subseteq Members
  /\ conn \in [Client -> Conn \cup {NoConn}]
  /\ stale \subseteq Client \ Members
  /\ mixed \subseteq Client

WaitingOK ==
  /\ unassigned \in Seq(Conn) /\ IsInjective(unassigned)
  /\ walk \in 0..Len(unassigned)
  /\ ready \subseteq Conn

ConnsOK ==
  /\ owner \in [Conn -> Client \cup {NoClient}]
  /\ eof \subseteq Open

\* The clients a page on d may name.
MayName(d) == {p \in Client : p = owner[d] \/ {p, owner[d]} \subseteq mixed}

\* The types of the pages, how many there may be, and whom they may name.
PagesTyped ==
  /\ kernel \in [Conn -> Seq(Client)]
  /\ decoder \in [Conn -> Seq(Client)]

PagesFit == \A d \in Conn : Len(Pages(d)) \in 0..MaxPages[d]

PagesNamed ==
  \A d \in Conn : kernel[d] \in Seq(MayName(d)) /\ decoder[d] \in Seq(MayName(d))

WaitingAreOpen == Waiting \subseteq Open

FaultOK == fault \in {"none", "pastTheEnd", "erasedIterator", "nullConnection",
                      "nullClient", "freedClient", "freedConnection"}

IInv ==
  /\ ClientsOK /\ WaitingOK /\ ConnsOK /\ FaultOK
  /\ PagesTyped /\ PagesFit /\ PagesNamed
  /\ WaitingAreOpen
  /\ ConnIsOwn
  /\ ServedOrWaiting

\* What IInv says of the pages.
PagesOK == PagesTyped /\ PagesFit /\ PagesNamed

USE IPAssumption, NoConnAssumption, WatchedAssumption, PagesAssumption
-----------------------------------------------------------------------------
(* What the steps are made of.                                             *)

\* it++ stays in the vector or ends the walk.
LEMMA StepFromStays ==
  ASSUME NEW n \in Nat, NEW i \in Nat, StepFrom(i, n)
  PROVE  walk' \in 0..n /\ (ready' = ready \/ ready' = {})
BY DEF StepFrom

\* erase( it ) takes the connection the walk is at out of the vector.
LEMMA EraseOne ==
  ASSUME WaitingOK, walk > 0, Erase
  PROVE  /\ WaitingOK'
         /\ Waiting' = Waiting \ {unassigned[walk]}
         /\ unassigned[walk] \in Waiting /\ unassigned[walk] \in Conn
<1>1. /\ unassigned \in Seq(Conn) /\ IsInjective(unassigned)
      /\ walk \in 1..Len(unassigned) /\ Len(unassigned) \in Nat
  BY DEF WaitingOK
<1>2. /\ unassigned' = RemoveAt(unassigned, walk)
      /\ StepFrom(walk, Len(unassigned) - 1)
  BY DEF Erase
<1>3. /\ unassigned' \in Seq(Conn)
      /\ Len(unassigned') = Len(unassigned) - 1
  BY <1>1, <1>2, RemoveAtElements
<1>4. IsInjective(unassigned') /\ Waiting' = Waiting \ {unassigned[walk]}
  BY <1>1, <1>2, RemoveAtInjective DEF Waiting
<1>5. Len(unassigned) - 1 \in Nat /\ walk \in Nat
  BY <1>1
<1>6. walk' \in 0..(Len(unassigned) - 1) /\ (ready' = ready \/ ready' = {})
  BY <1>2, <1>5, StepFromStays
<1>7. ready' \subseteq Conn
  BY <1>6 DEF WaitingOK
<1>8. unassigned[walk] \in Waiting /\ unassigned[walk] \in Conn
  BY <1>1, ElementOfSeq DEF Waiting, ToSet
<1> QED
  BY <1>3, <1>4, <1>6, <1>7, <1>8 DEF WaitingOK

\* A step of the walk that takes nothing out.
LEMMA StepOn ==
  ASSUME WaitingOK, walk > 0, StepFrom(walk, Len(unassigned)),
         unassigned' = unassigned
  PROVE  WaitingOK'
<1>1. Len(unassigned) \in Nat /\ walk \in Nat
  BY DEF WaitingOK
<1>2. walk' \in 0..Len(unassigned) /\ (ready' = ready \/ ready' = {})
  BY <1>1, StepFromStays
<1> QED
  BY <1>2 DEF WaitingOK

\* The pages on a connection, in the two sequences and in one.
LEMMA PagesOver ==
  ASSUME NEW S, NEW d \in Conn, kernel[d] \in Seq(S), decoder[d] \in Seq(S)
  PROVE  /\ Pages(d) \in Seq(S)
         /\ Len(Pages(d)) = Len(decoder[d]) + Len(kernel[d])
         /\ Len(decoder[d]) \in Nat /\ Len(kernel[d]) \in Nat
         /\ \A i \in 1..Len(decoder[d]) : decoder[d][i] = Pages(d)[i]
         /\ \A i \in 1..Len(kernel[d]) :
              kernel[d][i] = Pages(d)[Len(decoder[d]) + i]
<1>1. /\ Pages(d) \in Seq(S)
      /\ Len(Pages(d)) = Len(decoder[d]) + Len(kernel[d])
      /\ \A i \in 1..(Len(decoder[d]) + Len(kernel[d])) :
           Pages(d)[i] = IF i =< Len(decoder[d]) THEN decoder[d][i]
                         ELSE kernel[d][i - Len(decoder[d])]
  <2> DEFINE f == decoder[d]  g == kernel[d]
  <2>1. f \in Seq(S) /\ g \in Seq(S)
    OBVIOUS
  <2> HIDE DEF f, g
  <2>2. /\ f \o g \in Seq(S)
        /\ Len(f \o g) = Len(f) + Len(g)
        /\ \A i \in 1..(Len(f) + Len(g)) :
             (f \o g)[i] = IF i =< Len(f) THEN f[i] ELSE g[i - Len(f)]
    BY <2>1, ConcatProperties
  <2> QED
    BY <2>2 DEF f, g, Pages
<1>2. Len(decoder[d]) \in Nat /\ Len(kernel[d]) \in Nat
  BY LenProperties
<1> DEFINE x == Len(decoder[d])
           y == Len(kernel[d])
<1>3. x \in Nat /\ y \in Nat
  BY <1>2
<1> HIDE DEF x, y
<1>4. /\ \A i \in 1..x : i \in 1..(x + y) /\ i =< x
      /\ \A i \in 1..y : x + i \in 1..(x + y) /\ ~(x + i =< x) /\ (x + i) - x = i
  BY <1>3
<1>5. \A i \in 1..Len(decoder[d]) : decoder[d][i] = Pages(d)[i]
  BY <1>1, <1>4 DEF x, y
<1>6. ASSUME NEW i \in 1..Len(kernel[d])
      PROVE  kernel[d][i] = Pages(d)[Len(decoder[d]) + i]
  <2>1. /\ x + i \in 1..(x + y) /\ ~(x + i =< x) /\ (x + i) - x = i
    BY <1>4 DEF y
  <2>2. \A j \in 1..(x + y) :
          Pages(d)[j] = IF j =< x THEN decoder[d][j] ELSE kernel[d][j - x]
    BY <1>1 DEF x, y
  <2> DEFINE j == x + i
  <2>3. j \in 1..(x + y) /\ ~(j =< x) /\ j - x = i
    BY <2>1
  <2> HIDE DEF j
  <2>4. Pages(d)[j] = kernel[d][i]
    BY <2>2, <2>3
  <2> QED
    BY <2>4 DEF j, x
<1> QED
  BY <1>1, <1>2, <1>5, <1>6

\* A read leaves what was behind some page, cut somewhere, or nothing of
\* what recv gave and all the rest.
LEMMA ReadCuts ==
  ASSUME NEW S, NEW d \in Conn, kernel[d] \in Seq(S), decoder[d] \in Seq(S),
         NEW m \in Given(d), NEW i \in 0..m
  PROVE  /\ m \in 0..Len(Pages(d))
         /\ SubSeq(Pages(d), i + 1, m) \in Seq(S)
         /\ Rest(d, m) \in Seq(S)
         /\ Len(SubSeq(Pages(d), i + 1, m) \o Rest(d, m)) = Len(Pages(d)) - i
         /\ Len(<<>> \o Rest(d, m)) = Len(Pages(d)) - m
<1>1. /\ Pages(d) \in Seq(S) /\ Len(Pages(d)) \in Nat
      /\ Len(decoder[d]) \in Nat
  BY PagesOver, LenProperties
<1>2. m \in 0..Len(Pages(d)) /\ m \in 0..m
  BY <1>1 DEF Given
<1>3. /\ SubSeq(Pages(d), i + 1, m) \in Seq(S)
      /\ Rest(d, m) \in Seq(S)
      /\ SubSeq(Pages(d), i + 1, m) \o Rest(d, m)
           = SubSeq(Pages(d), i + 1, Len(Pages(d)))
  BY <1>1, <1>2, CutSeq DEF Rest
<1>4. ASSUME NEW j \in 0..Len(Pages(d))
      PROVE  Len(SubSeq(Pages(d), j + 1, Len(Pages(d)))) = Len(Pages(d)) - j
  BY <1>1, <1>4
<1>5. <<>> \o Rest(d, m) = Rest(d, m)
  BY <1>3
<1>6. i \in 0..Len(Pages(d))
  BY <1>2
<1> QED
  BY <1>2, <1>3, <1>4, <1>5, <1>6 DEF Rest

\* Freeing connections takes their pages with them.
LEMMA FreePages ==
  ASSUME PagesOK, ConnsOK, NEW D \in SUBSET Conn, Free(D), mixed' = mixed
  PROVE  /\ PagesTyped' /\ PagesFit' /\ PagesNamed'
         /\ ConnsOK'
         /\ Open' = Open \ D
         /\ \A d \in Conn \ D : owner'[d] = owner[d]
         /\ \A d \in D : owner'[d] = NoClient
<1>1. /\ \A d \in Conn \ D : owner'[d] = owner[d]
      /\ \A d \in D : owner'[d] = NoClient
      /\ owner' \in [Conn -> Client \cup {NoClient}]
  BY DEF ConnsOK, Free
<1>2. Open' = Open \ D
  BY <1>1 DEF Open
<1>3. /\ \A d \in Conn \ D : kernel'[d] = kernel[d] /\ decoder'[d] = decoder[d]
      /\ \A d \in D : kernel'[d] = <<>> /\ decoder'[d] = <<>>
      /\ DOMAIN kernel' = Conn /\ DOMAIN decoder' = Conn
      /\ kernel' = [d \in Conn |-> kernel'[d]]
      /\ decoder' = [d \in Conn |-> decoder'[d]]
  BY DEF Free
<1>4. ASSUME NEW d \in Conn, NEW S, kernel[d] \in Seq(S), decoder[d] \in Seq(S)
      PROVE  kernel'[d] \in Seq(S) /\ decoder'[d] \in Seq(S)
  <2>1. <<>> \in Seq(S)
    BY EmptySeq
  <2> QED
    BY <1>3, <1>4, <2>1
<1>5. \A d \in Conn : kernel'[d] \in Seq(Client) /\ decoder'[d] \in Seq(Client)
  BY <1>4 DEF PagesOK, PagesTyped
<1>6. PagesTyped'
  BY <1>3, <1>5 DEF PagesTyped
<1>7. ASSUME NEW d \in Conn PROVE Len(Pages(d)') \in 0..MaxPages[d]
  <2>1. CASE d \in D
    <3>1. Pages(d)' = <<>> \o <<>>
      BY <1>3, <2>1 DEF Pages
    <3>2. Len(<<>> \o <<>>) = 0 /\ MaxPages[d] \in Nat
      OBVIOUS
    <3> QED
      BY <3>1, <3>2
  <2>2. CASE d \notin D
    <3>1. Pages(d)' = Pages(d)
      BY <1>3, <2>2 DEF Pages
    <3> QED
      BY <3>1 DEF PagesOK, PagesFit
  <2> QED
    BY <2>1, <2>2
<1>8. ASSUME NEW d \in Conn
      PROVE  kernel'[d] \in Seq(MayName(d)') /\ decoder'[d] \in Seq(MayName(d)')
  <2>1. CASE d \in D
    <3> DEFINE S == MayName(d)'
    <3>1. <<>> \in Seq(S)
      BY EmptySeq
    <3> HIDE DEF S
    <3>2. kernel'[d] \in Seq(S) /\ decoder'[d] \in Seq(S)
      BY <1>3, <2>1, <3>1
    <3> QED
      BY <3>2 DEF S
  <2>2. CASE d \notin D
    <3>1. MayName(d)' = MayName(d)
      BY <1>1, <2>2 DEF MayName
    <3>2. kernel'[d] = kernel[d] /\ decoder'[d] = decoder[d]
      BY <1>3, <2>2
    <3>3. kernel[d] \in Seq(MayName(d)) /\ decoder[d] \in Seq(MayName(d))
      BY DEF PagesOK, PagesNamed
    <3> QED
      BY <3>1, <3>2, <3>3
  <2> QED
    BY <2>1, <2>2
<1>9. PagesFit' /\ PagesNamed'
  BY <1>7, <1>8 DEF PagesFit, PagesNamed
<1>10. ConnsOK'
  BY <1>1, <1>2 DEF ConnsOK, Free
<1> QED
  BY <1>1, <1>2, <1>6, <1>9, <1>10

\* A read moves pages from one sequence to the other or takes some away; and
\* the client it gives the connection to is one a page on it may name.
LEMMA ReadPages ==
  ASSUME PagesOK, NEW d \in Conn, NEW res \in {0, -2}, Read(d, res)
  PROVE  /\ PagesTyped' /\ PagesFit' /\ PagesNamed'
         /\ UNCHANGED <<vector, loggedIn, stale, mixed, owner, eof, fault>>
         /\ \/ res = -2 /\ conn' = conn
            \/ /\ res = 0
               /\ \E p \in MayName(d) :
                    p \in loggedIn /\ conn' = TakeConnection(d, p)
<1>1. UNCHANGED <<vector, loggedIn, stale, mixed, owner, eof, fault>>
  BY DEF Read
<1>2. PICK m \in Given(d) :
        /\ kernel' = [kernel EXCEPT ![d] = Rest(d, m)]
        /\ \/ /\ res = 0
              /\ \E i \in 1..m :
                   /\ FirstKnown(d, i) /\ Pages(d)[i] \in loggedIn
                   /\ decoder' = [decoder EXCEPT ![d] = SubSeq(Pages(d), i + 1, m)]
                   /\ conn' = TakeConnection(d, Pages(d)[i])
           \/ /\ res = -2
              /\ \A i \in 1..m : Pages(d)[i] \notin loggedIn \cup stale
              /\ decoder' = [decoder EXCEPT ![d] = <<>>]
              /\ UNCHANGED conn
  BY DEF Read
<1>3. /\ kernel \in [Conn -> Seq(Client)] /\ decoder \in [Conn -> Seq(Client)]
      /\ kernel[d] \in Seq(Client) /\ decoder[d] \in Seq(Client)
      /\ kernel[d] \in Seq(MayName(d)) /\ decoder[d] \in Seq(MayName(d))
  BY DEF PagesOK, PagesTyped, PagesNamed
<1>4. /\ m \in Nat /\ m \in 0..Len(Pages(d)) /\ Len(Pages(d)) \in Nat
      /\ 0 \in 0..m
  <2>1. Len(Pages(d)) \in Nat /\ Len(decoder[d]) \in Nat
    BY <1>3, PagesOver, LenProperties
  <2> QED
    BY <2>1 DEF Given
<1>5. PICK left :
        /\ decoder' = [decoder EXCEPT ![d] = left]
        /\ \/ left = <<>>
           \/ \E i \in 0..m : left = SubSeq(Pages(d), i + 1, m)
  <2>1. \A i \in 1..m : i \in 0..m
    BY <1>4
  <2> QED
    BY <1>2, <2>1
<1>6. ASSUME NEW S, kernel[d] \in Seq(S), decoder[d] \in Seq(S)
      PROVE  /\ Rest(d, m) \in Seq(S) /\ left \in Seq(S)
             /\ Len(left \o Rest(d, m)) \in 0..Len(Pages(d))
  <2>1. CASE left = <<>>
    <3>1. <<>> \in Seq(S)
      BY EmptySeq
    <3>2. Rest(d, m) \in Seq(S) /\ Len(<<>> \o Rest(d, m)) = Len(Pages(d)) - m
      BY <1>4, <1>6, ReadCuts
    <3>3. Len(Pages(d)) - m \in 0..Len(Pages(d))
      BY <1>4
    <3> QED
      BY <2>1, <3>1, <3>2, <3>3
  <2>2. ASSUME NEW i \in 0..m, left = SubSeq(Pages(d), i + 1, m)
        PROVE  /\ Rest(d, m) \in Seq(S) /\ left \in Seq(S)
               /\ Len(left \o Rest(d, m)) \in 0..Len(Pages(d))
    <3>0. /\ kernel[d] \in Seq(S) /\ decoder[d] \in Seq(S)
          /\ m \in Given(d) /\ i \in 0..m
      BY <1>6
    <3>1. /\ SubSeq(Pages(d), i + 1, m) \in Seq(S)
          /\ Rest(d, m) \in Seq(S)
          /\ Len(SubSeq(Pages(d), i + 1, m) \o Rest(d, m)) = Len(Pages(d)) - i
      BY <3>0, ReadCuts, SMTT(20)
    <3>2. Len(Pages(d)) - i \in 0..Len(Pages(d))
      BY <1>4
    <3> QED
      BY <2>2, <3>1, <3>2
  <2> QED
    BY <1>5, <2>1, <2>2
<1>7. /\ kernel'[d] = Rest(d, m) /\ decoder'[d] = left
      /\ \A e \in Conn \ {d} : kernel'[e] = kernel[e] /\ decoder'[e] = decoder[e]
  BY <1>2, <1>3, <1>5
<1>8. PagesTyped'
  <2>1. Rest(d, m) \in Seq(Client) /\ left \in Seq(Client)
    BY <1>3, <1>6
  <2> QED
    BY <1>2, <1>3, <1>5, <2>1 DEF PagesTyped
<1>9. PagesFit'
  <2> SUFFICES ASSUME NEW e \in Conn PROVE Len(Pages(e)') \in 0..MaxPages[e]
    BY DEF PagesFit
  <2>1. CASE e = d
    <3>1. Len(left \o Rest(d, m)) \in 0..Len(Pages(d))
      BY <1>3, <1>6
    <3>2. Len(Pages(d)) \in 0..MaxPages[d] /\ MaxPages[d] \in Nat
      BY DEF PagesOK, PagesFit
    <3>3. Pages(d)' = left \o Rest(d, m)
      BY <1>7 DEF Pages
    <3> QED
      BY <1>4, <2>1, <3>1, <3>2, <3>3
  <2>2. CASE e # d
    <3>1. Pages(e)' = Pages(e)
      BY <1>7, <2>2 DEF Pages
    <3> QED
      BY <3>1 DEF PagesOK, PagesFit
  <2> QED
    BY <2>1, <2>2
<1>10. PagesNamed'
  <2> SUFFICES ASSUME NEW e \in Conn
               PROVE  /\ kernel'[e] \in Seq(MayName(e)')
                      /\ decoder'[e] \in Seq(MayName(e)')
    BY DEF PagesNamed
  <2>1. MayName(e)' = MayName(e)
    BY <1>1 DEF MayName
  <2>2. CASE e = d
    <3> DEFINE S == MayName(d)
    <3>1. kernel[d] \in Seq(S) /\ decoder[d] \in Seq(S)
      BY <1>3
    <3> HIDE DEF S
    <3>2. kernel'[d] \in Seq(S) /\ decoder'[d] \in Seq(S)
      BY <1>6, <1>7, <3>1
    <3> QED
      BY <2>1, <2>2, <3>2 DEF S
  <2>3. CASE e # d
    <3>1. kernel[e] \in Seq(MayName(e)) /\ decoder[e] \in Seq(MayName(e))
      BY DEF PagesOK, PagesNamed
    <3> QED
      BY <1>7, <2>1, <2>3, <3>1
  <2> QED
    BY <2>2, <2>3
<1>11. CASE res = 0
  <2>1. PICK i \in 1..m :
          Pages(d)[i] \in loggedIn /\ conn' = TakeConnection(d, Pages(d)[i])
    BY <1>2, <1>11
  <2>2. i \in 1..Len(Pages(d))
    BY <1>4
  <2>3. Pages(d)[i] \in MayName(d)
    <3> DEFINE S == MayName(d)
    <3>1. kernel[d] \in Seq(S) /\ decoder[d] \in Seq(S)
      BY <1>3
    <3> HIDE DEF S
    <3>2. Pages(d) \in Seq(S)
      BY <3>1, PagesOver
    <3>3. Pages(d)[i] \in S
      BY <2>2, <3>2, ElementOfSeq
    <3> QED
      BY <3>3 DEF S
  <2> QED
    BY <1>1, <1>8, <1>9, <1>10, <1>11, <2>1, <2>3
<1>12. CASE res = -2
  BY <1>1, <1>2, <1>8, <1>9, <1>10, <1>12
<1> QED
  BY <1>11, <1>12

-----------------------------------------------------------------------------
(* One lemma for each kind of step.                                        *)

\* Nothing but the fault.
LEMMA FailStep ==
  ASSUME IInv, NEW kind, Fail(kind),
         kind \in {"pastTheEnd", "erasedIterator", "nullConnection",
                   "nullClient", "freedClient", "freedConnection"}
  PROVE  IInv'
<1>1. UNCHANGED <<vector, loggedIn, conn, stale, mixed, unassigned, owner,
                  kernel, decoder, eof, walk, ready>>
  BY DEF Fail, clientVars, pageVars, walkVars
<1>2. FaultOK'
  BY DEF Fail, FaultOK
<1>3. ClientsOK' /\ WaitingOK' /\ ConnsOK' /\ WaitingAreOpen'
  BY <1>1 DEF IInv, ClientsOK, WaitingOK, ConnsOK, WaitingAreOpen, Members,
              Waiting, Open
<1>4. PagesTyped' /\ PagesFit' /\ PagesNamed'
  BY <1>1 DEF IInv, PagesTyped, PagesFit, PagesNamed, Pages, MayName
<1>5. ConnIsOwn' /\ ServedOrWaiting'
  BY <1>1 DEF IInv, ConnIsOwn, ServedOrWaiting, Members, Waiting, Open
<1> QED
  BY <1>2, <1>3, <1>4, <1>5 DEF IInv

\* What a connection's pages may name only grows with `mixed'.
LEMMA NamesGrow ==
  ASSUME PagesNamed, NEW d \in Conn, MayName(d) \subseteq MayName(d)'
  PROVE  kernel[d] \in Seq(MayName(d)') /\ decoder[d] \in Seq(MayName(d)')
<1> DEFINE S == MayName(d)
           T == MayName(d)'
<1>1. kernel[d] \in Seq(S) /\ decoder[d] \in Seq(S) /\ S \subseteq T
  BY DEF PagesNamed
<1> HIDE DEF S, T
<1>2. kernel[d] \in Seq(T) /\ decoder[d] \in Seq(T)
  BY <1>1, ElementOfSeq, SeqOver
<1> QED
  BY <1>2 DEF T

LEMMA SendsStep ==
  ASSUME IInv, NEW d \in Conn, NEW q \in Client, PeerSendsPage(d, q)
  PROVE  IInv'
<1>1. /\ UNCHANGED <<vector, loggedIn, conn, stale, unassigned, owner, decoder,
                     eof, walk, ready, fault>>
      /\ kernel' = [kernel EXCEPT ![d] = Append(@, q)]
      /\ mixed' = IF q = owner[d] THEN mixed ELSE mixed \cup {q, owner[d]}
      /\ Len(Pages(d)) < MaxPages[d]
      /\ owner[d] \in Client
  BY DEF PeerSendsPage, clientVars, walkVars, Open, IInv, ConnsOK
<1>2. mixed \subseteq mixed' /\ mixed' \subseteq Client
  BY <1>1 DEF IInv, ClientsOK
<1>3. ClientsOK' /\ WaitingOK' /\ ConnsOK' /\ FaultOK' /\ WaitingAreOpen'
  BY <1>1, <1>2 DEF IInv, ClientsOK, WaitingOK, ConnsOK, FaultOK,
                    WaitingAreOpen, Members, Waiting, Open
<1>4. ConnIsOwn' /\ ServedOrWaiting'
  BY <1>1, <1>2 DEF IInv, ConnIsOwn, ServedOrWaiting, Members, Waiting, Open
<1>5. /\ kernel \in [Conn -> Seq(Client)] /\ decoder \in [Conn -> Seq(Client)]
      /\ kernel[d] \in Seq(Client) /\ decoder[d] \in Seq(Client)
  BY DEF IInv, PagesTyped
<1>6. /\ kernel'[d] = Append(kernel[d], q)
      /\ \A e \in Conn \ {d} : kernel'[e] = kernel[e]
  BY <1>1, <1>5
<1>7. PagesTyped'
  <2>1. Append(kernel[d], q) \in Seq(Client)
    BY <1>5, AppendProperties
  <2> QED
    BY <1>1, <1>5, <2>1 DEF PagesTyped
<1>8. PagesFit'
  <2> SUFFICES ASSUME NEW e \in Conn PROVE Len(Pages(e)') \in 0..MaxPages[e]
    BY DEF PagesFit
  <2>1. CASE e = d
    <3>1. /\ Append(kernel[d], q) \in Seq(Client)
          /\ Len(Append(kernel[d], q)) = Len(kernel[d]) + 1
      BY <1>5, AppendProperties
    <3>2. Len(decoder[d] \o Append(kernel[d], q))
            = Len(decoder[d]) + Len(Append(kernel[d], q))
      BY <1>5, <3>1, ConcatProperties
    <3>3. /\ Len(Pages(d)) = Len(decoder[d]) + Len(kernel[d])
          /\ Len(decoder[d]) \in Nat /\ Len(kernel[d]) \in Nat
      BY <1>5, PagesOver
    <3>4. Pages(d)' = decoder[d] \o Append(kernel[d], q)
      BY <1>1, <1>6 DEF Pages
    <3>5. MaxPages[d] \in Nat
      OBVIOUS
    <3> DEFINE x == Len(decoder[d])
               y == Len(kernel[d])
    <3>6. /\ Len(Pages(d)') = x + (y + 1)
          /\ x + y < MaxPages[d] /\ x \in Nat /\ y \in Nat
      BY <1>1, <3>1, <3>2, <3>3, <3>4
    <3> HIDE DEF x, y
    <3>7. Len(Pages(d)') \in 0..MaxPages[d]
      BY <3>5, <3>6
    <3> QED
      BY <2>1, <3>7
  <2>2. CASE e # d
    <3>1. Pages(e)' = Pages(e)
      BY <1>1, <1>6, <2>2 DEF Pages
    <3> QED
      BY <3>1 DEF IInv, PagesFit
  <2> QED
    BY <2>1, <2>2
<1>9. PagesNamed'
  <2> SUFFICES ASSUME NEW e \in Conn
               PROVE  /\ kernel'[e] \in Seq(MayName(e)')
                      /\ decoder'[e] \in Seq(MayName(e)')
    BY DEF PagesNamed
  <2>1. MayName(e) \subseteq MayName(e)'
    BY <1>1, <1>2 DEF MayName
  <2>2. kernel[e] \in Seq(MayName(e)') /\ decoder[e] \in Seq(MayName(e)')
    BY <2>1, NamesGrow DEF IInv
  <2>3. CASE e # d
    BY <1>1, <1>6, <2>2, <2>3
  <2>4. CASE e = d
    <3>1. q \in MayName(d)'
      BY <1>1 DEF MayName
    <3> DEFINE T == MayName(d)'
    <3>2. kernel[d] \in Seq(T) /\ q \in T
      BY <2>2, <2>4, <3>1
    <3> HIDE DEF T
    <3>3. Append(kernel[d], q) \in Seq(T)
      BY <3>2, AppendProperties
    <3>4. kernel'[d] \in Seq(MayName(d)')
      BY <1>6, <3>3 DEF T
    <3> QED
      BY <1>1, <2>2, <2>4, <3>4
  <2> QED
    BY <2>3, <2>4
<1> QED
  BY <1>3, <1>4, <1>7, <1>8, <1>9 DEF IInv

LEMMA ClosesStep == ASSUME IInv, NEW d \in Conn, PeerClosesData(d) PROVE IInv'
<1>1. /\ UNCHANGED <<vector, loggedIn, conn, stale, mixed, unassigned, owner,
                     kernel, decoder, walk, ready, fault>>
      /\ eof' = eof \cup {d} /\ d \in Open
  BY DEF PeerClosesData, clientVars, pageVars, walkVars
<1>2. ClientsOK' /\ WaitingOK' /\ ConnsOK' /\ FaultOK' /\ WaitingAreOpen'
  BY <1>1 DEF IInv, ClientsOK, WaitingOK, ConnsOK, FaultOK, WaitingAreOpen,
              Members, Waiting, Open
<1>3. PagesTyped' /\ PagesFit' /\ PagesNamed'
  BY <1>1 DEF IInv, PagesTyped, PagesFit, PagesNamed, Pages, MayName
<1>4. ConnIsOwn' /\ ServedOrWaiting'
  BY <1>1 DEF IInv, ConnIsOwn, ServedOrWaiting, Members, Waiting, Open
<1> QED
  BY <1>2, <1>3, <1>4 DEF IInv

LEMMA ConnectStep ==
  ASSUME IInv, NEW q \in Client, NewClientConnect(q)
  PROVE  IInv'
<1>1. /\ q \notin Members \cup stale
      /\ \A d \in Conn : owner[d] # q /\ q \notin ToSet(Pages(d))
      /\ vector' = Append(vector, q)
      /\ mixed' = mixed \ {q}
      /\ UNCHANGED <<loggedIn, conn, stale, unassigned, owner, kernel, decoder,
                     eof, walk, ready, fault>>
  BY DEF NewClientConnect, pageVars, walkVars
<1>2. /\ vector' \in Seq(Client) /\ IsInjective(vector')
      /\ Members' = Members \cup {q}
  BY <1>1, AppendInjects DEF IInv, ClientsOK, Members
<1>3. ClientsOK'
  BY <1>1, <1>2 DEF IInv, ClientsOK
<1>4. /\ WaitingOK' /\ ConnsOK' /\ FaultOK' /\ WaitingAreOpen'
      /\ PagesTyped' /\ PagesFit'
  BY <1>1 DEF IInv, WaitingOK, ConnsOK, PagesTyped, PagesFit, FaultOK,
              WaitingAreOpen, Waiting, Open, Pages
<1>5. PagesNamed'
  <2> SUFFICES ASSUME NEW d \in Conn
               PROVE  /\ kernel'[d] \in Seq(MayName(d)')
                      /\ decoder'[d] \in Seq(MayName(d)')
    BY DEF PagesNamed
  <2>1. MayName(d) \ {q} \subseteq MayName(d)'
    BY <1>1 DEF MayName
  <2> DEFINE S == MayName(d)
             T == MayName(d)'
  <2>2. kernel[d] \in Seq(S) /\ decoder[d] \in Seq(S) /\ S \ {q} \subseteq T
    BY <2>1 DEF IInv, PagesNamed
  <2> HIDE DEF S, T
  <2>3. /\ Pages(d) \in Seq(S)
        /\ Len(Pages(d)) = Len(decoder[d]) + Len(kernel[d])
        /\ Len(decoder[d]) \in Nat /\ Len(kernel[d]) \in Nat
        /\ \A i \in 1..Len(decoder[d]) : decoder[d][i] = Pages(d)[i]
        /\ \A i \in 1..Len(kernel[d]) :
             kernel[d][i] = Pages(d)[Len(decoder[d]) + i]
    BY <2>2, PagesOver
  <2>4. \A i \in 1..Len(Pages(d)) : Pages(d)[i] \in T
    <3>1. DOMAIN Pages(d) = 1..Len(Pages(d))
      BY <2>3
    <3>2. \A i \in 1..Len(Pages(d)) : Pages(d)[i] \in S /\ Pages(d)[i] # q
      BY <1>1, <2>3, <3>1, ElementOfSeq DEF ToSet
    <3> QED
      BY <2>2, <3>2
  <2> DEFINE x == Len(decoder[d])
             y == Len(kernel[d])
  <2>5. x \in Nat /\ y \in Nat
    BY <2>3
  <2> HIDE DEF x, y
  <2>6. /\ \A i \in 1..x : i \in 1..(x + y)
        /\ \A i \in 1..y : x + i \in 1..(x + y)
    BY <2>5
  <2>7. /\ \A i \in 1..Len(decoder[d]) : decoder[d][i] \in T
        /\ \A i \in 1..Len(kernel[d]) : kernel[d][i] \in T
    BY <2>3, <2>4, <2>6 DEF x, y
  <2>8. kernel[d] \in Seq(T) /\ decoder[d] \in Seq(T)
    BY <2>2, <2>7, SeqOver
  <2> QED
    BY <1>1, <2>8 DEF T
<1>6. ConnIsOwn'
  BY <1>1 DEF IInv, ClientsOK, ConnIsOwn, Waiting, Open
<1>7. ServedOrWaiting'
  BY <1>1, <1>2 DEF IInv, ServedOrWaiting, Waiting, Open
<1> QED
  BY <1>3, <1>4, <1>5, <1>6, <1>7 DEF IInv

LEMMA LoginStep == ASSUME IInv, NEW q \in Client, Login(q) PROVE IInv'
<1>1. /\ q \in Members /\ loggedIn' = loggedIn \cup {q}
      /\ UNCHANGED <<vector, conn, stale, mixed, unassigned, owner, kernel,
                     decoder, eof, walk, ready, fault>>
  BY DEF Login, pageVars, walkVars
<1>2. ClientsOK' /\ WaitingOK' /\ ConnsOK' /\ FaultOK' /\ WaitingAreOpen'
  BY <1>1 DEF IInv, ClientsOK, WaitingOK, ConnsOK, FaultOK, WaitingAreOpen,
              Members, Waiting, Open
<1>3. PagesTyped' /\ PagesFit' /\ PagesNamed'
  BY <1>1 DEF IInv, PagesTyped, PagesFit, PagesNamed, Pages, MayName
<1>4. ConnIsOwn' /\ ServedOrWaiting'
  BY <1>1 DEF IInv, ConnIsOwn, ServedOrWaiting, Members, Waiting, Open
<1> QED
  BY <1>2, <1>3, <1>4 DEF IInv

LEMMA TakeOutStep ==
  ASSUME IInv, NEW q \in Client, ~Shares(q), TakeOut(q)
  PROVE  IInv'
<1>1. PICK i \in 1..Len(vector) :
        vector[i] = q /\ vector' = RemoveAt(vector, i)
  BY DEF TakeOut
<1>2. /\ loggedIn' = loggedIn \ {q}
      /\ conn' = [conn EXCEPT ![q] = NoConn]
      /\ stale' \subseteq stale \cup {q}
      /\ Free(HeldBy(q))
      /\ UNCHANGED <<mixed, unassigned, walk, ready, fault>>
  BY DEF TakeOut, SerialsLeft, walkVars
<1>3. /\ vector' \in Seq(Client) /\ IsInjective(vector')
      /\ Members' = Members \ {q}
  BY <1>1, RemoveAtElements, RemoveAtInjective DEF IInv, ClientsOK, Members
<1>4. conn' \in [Client -> Conn \cup {NoConn}] /\ conn'[q] = NoConn
  BY <1>2 DEF IInv, ClientsOK
<1>5. \A r \in Client \ {q} : conn'[r] = conn[r]
  BY <1>2 DEF IInv, ClientsOK
<1>6. HeldBy(q) \subseteq Conn
  BY DEF HeldBy
<1>7. /\ PagesTyped' /\ PagesFit' /\ PagesNamed' /\ ConnsOK'
      /\ Open' = Open \ HeldBy(q)
      /\ \A d \in Conn \ HeldBy(q) : owner'[d] = owner[d]
      /\ \A d \in HeldBy(q) : owner'[d] = NoClient
  BY <1>2, <1>6, FreePages DEF IInv, PagesOK
<1>8. /\ \A d \in HeldBy(q) : d \notin Waiting
      /\ \A r \in Client \ {q} : conn[r] \notin HeldBy(q)
  BY DEF HeldBy, Shares, IInv, ConnIsOwn
<1>9. ClientsOK' /\ WaitingOK' /\ FaultOK'
  BY <1>2, <1>3, <1>4 DEF IInv, ClientsOK, WaitingOK, FaultOK
<1>10. Waiting' = Waiting
  BY <1>2 DEF Waiting
<1>11. WaitingAreOpen'
  BY <1>7, <1>8, <1>10 DEF IInv, WaitingAreOpen
<1>12. ConnIsOwn'
  <2> SUFFICES ASSUME NEW r \in Client, conn'[r] # NoConn
               PROVE  /\ r \in loggedIn'
                      /\ conn'[r] \in Open' \ Waiting'
                      /\ r \notin mixed' => owner'[conn'[r]] = r
    BY DEF ConnIsOwn
  <2>1. r # q /\ conn'[r] = conn[r] /\ conn[r] \notin HeldBy(q)
    BY <1>4, <1>5, <1>8
  <2>2. /\ r \in loggedIn /\ conn[r] \in Open \ Waiting
        /\ r \notin mixed => owner[conn[r]] = r
        /\ conn[r] \in Conn
    BY <2>1 DEF IInv, ConnIsOwn, Open
  <2> QED
    BY <1>2, <1>7, <1>10, <2>1, <2>2
<1>13. ServedOrWaiting'
  <2> SUFFICES ASSUME NEW d \in Open' \ Waiting',
                      owner'[d] \in Members' \ mixed'
               PROVE  conn'[owner'[d]] # NoConn
    BY DEF ServedOrWaiting
  <2>1. d \in Open \ Waiting /\ d \in Conn \ HeldBy(q) /\ owner'[d] = owner[d]
    BY <1>7, <1>10 DEF Open
  <2>2. /\ owner[d] \in Members \ mixed /\ owner[d] # q
        /\ owner[d] \in Client
    BY <1>2, <1>3, <2>1 DEF IInv, ConnsOK, Open
  <2>3. conn[owner[d]] # NoConn
    BY <2>1, <2>2 DEF IInv, ServedOrWaiting
  <2> QED
    BY <1>5, <2>1, <2>2, <2>3
<1> QED
  BY <1>7, <1>9, <1>11, <1>12, <1>13 DEF IInv

LEMMA DeleteStep == ASSUME IInv, NEW q \in Client, DeleteClient(q) PROVE IInv'
BY FailStep, TakeOutStep DEF DeleteClient

LEMMA NewDataStep ==
  ASSUME IInv, NEW q \in Client, NEW d \in Conn, NewDataConnection(q, d)
  PROVE  IInv'
<1>1. /\ walk = 0 /\ d \notin Open
      /\ unassigned' = Append(unassigned, d)
      /\ owner' = [owner EXCEPT ![d] = q]
      /\ UNCHANGED <<vector, loggedIn, conn, stale, mixed, kernel, decoder, eof,
                     walk, ready, fault>>
  BY DEF NewDataConnection, Idle, clientVars, pageVars
<1>2. d \notin Waiting
  BY <1>1 DEF IInv, WaitingAreOpen
<1>3. /\ unassigned' \in Seq(Conn) /\ IsInjective(unassigned')
      /\ Waiting' = Waiting \cup {d}
      /\ Len(unassigned') = Len(unassigned) + 1
  BY <1>1, <1>2, AppendInjects DEF IInv, WaitingOK, Waiting
<1>4. Len(unassigned) \in Nat
  BY DEF IInv, WaitingOK
<1>5. WaitingOK'
  BY <1>1, <1>3, <1>4 DEF IInv, WaitingOK
<1>6. /\ owner' \in [Conn -> Client \cup {NoClient}]
      /\ owner'[d] = q /\ \A e \in Conn \ {d} : owner'[e] = owner[e]
  BY <1>1 DEF IInv, ConnsOK
<1>7. Open' = Open \cup {d}
  BY <1>6 DEF Open
<1>8. ConnsOK' /\ WaitingAreOpen'
  BY <1>1, <1>3, <1>6, <1>7 DEF IInv, ConnsOK, WaitingAreOpen
<1>9. ClientsOK' /\ PagesTyped' /\ PagesFit' /\ FaultOK'
  BY <1>1 DEF IInv, ClientsOK, PagesTyped, PagesFit, FaultOK, Members, Pages
<1>10. PagesNamed'
  <2> SUFFICES ASSUME NEW e \in Conn
               PROVE  /\ kernel'[e] \in Seq(MayName(e)')
                      /\ decoder'[e] \in Seq(MayName(e)')
    BY DEF PagesNamed
  <2>1. MayName(e) \subseteq MayName(e)'
    <3>1. CASE e = d
      <4>1. owner[d] = NoClient
        BY <1>1 DEF Open
      <4>2. MayName(d) = {}
        BY <4>1 DEF MayName, IInv, ClientsOK
      <4> QED
        BY <3>1, <4>2
    <3>2. CASE e # d
      BY <1>1, <1>6, <3>2 DEF MayName
    <3> QED
      BY <3>1, <3>2
  <2> QED
    BY <1>1, <2>1, NamesGrow DEF IInv
<1>11. ConnIsOwn'
  <2> SUFFICES ASSUME NEW r \in Client, conn[r] # NoConn
               PROVE  /\ r \in loggedIn
                      /\ conn[r] \in Open' \ Waiting'
                      /\ r \notin mixed => owner'[conn[r]] = r
    BY <1>1 DEF ConnIsOwn
  <2>1. /\ r \in loggedIn /\ conn[r] \in Open \ Waiting /\ conn[r] \in Conn
        /\ r \notin mixed => owner[conn[r]] = r
    BY DEF IInv, ConnIsOwn, Open
  <2>2. conn[r] # d
    BY <1>1, <2>1
  <2> QED
    BY <1>3, <1>6, <1>7, <2>1, <2>2
<1>12. ServedOrWaiting'
  BY <1>1, <1>3, <1>6, <1>7 DEF IInv, ServedOrWaiting, Members, Open
<1> QED
  BY <1>5, <1>8, <1>9, <1>10, <1>11, <1>12 DEF IInv

\* StartWalk and PassBy.
LEMMA WalkStep == ASSUME IInv, StartWalk \/ PassBy PROVE IInv'
<1>1. UNCHANGED <<vector, loggedIn, conn, stale, mixed, unassigned, owner,
                  kernel, decoder, eof, fault>>
  BY DEF StartWalk, PassBy, clientVars, pageVars
<1>2. ClientsOK' /\ ConnsOK' /\ FaultOK' /\ WaitingAreOpen'
  BY <1>1 DEF IInv, ClientsOK, ConnsOK, FaultOK, WaitingAreOpen, Members,
              Waiting, Open
<1>3. PagesTyped' /\ PagesFit' /\ PagesNamed'
  BY <1>1 DEF IInv, PagesTyped, PagesFit, PagesNamed, Pages, MayName
<1>4. ConnIsOwn' /\ ServedOrWaiting'
  BY <1>1 DEF IInv, ConnIsOwn, ServedOrWaiting, Members, Waiting, Open
<1>5. CASE PassBy
  <2>1. WaitingOK'
    BY <1>1, <1>5, StepOn DEF PassBy, IInv
  <2> QED
    BY <1>2, <1>3, <1>4, <2>1 DEF IInv
<1>6. CASE StartWalk
  <2>1. unassigned \in Seq(Conn) /\ unassigned # <<>>
    BY <1>6 DEF StartWalk, IInv, WaitingOK
  <2>2. Len(unassigned) \in Nat \ {0}
    BY <2>1, EmptySeq
  <2>3. walk' = 1 /\ ready' \subseteq Waiting
    BY <1>6 DEF StartWalk
  <2>4. Waiting \subseteq Conn
    BY <2>1, ElementOfSeq DEF Waiting, ToSet
  <2>5. WaitingOK'
    BY <1>1, <2>1, <2>2, <2>3, <2>4 DEF IInv, WaitingOK
  <2> QED
    BY <1>2, <1>3, <1>4, <2>5 DEF IInv
<1> QED
  BY <1>5, <1>6

\* A read that leaves the vector as it is, or takes the connection out after
\* a page of a client.
LEMMA ReadStep ==
  ASSUME IInv, NEW d \in Open, NEW res \in {0, -2}, Read(d, res), WaitingOK',
         Waiting' = Waiting \ {d}, d \in Waiting => res = 0
  PROVE  IInv'
<1>1. d \in Conn
  BY DEF Open
<1>2. /\ PagesTyped' /\ PagesFit' /\ PagesNamed'
      /\ UNCHANGED <<vector, loggedIn, stale, mixed, owner, eof, fault>>
      /\ \/ res = -2 /\ conn' = conn
         \/ /\ res = 0
            /\ \E p \in MayName(d) :
                 p \in loggedIn /\ conn' = TakeConnection(d, p)
  BY <1>1, ReadPages DEF IInv, PagesOK
<1>3. /\ conn' \in [Client -> Conn \cup {NoConn}]
      /\ \A r \in Client : conn[r] # NoConn => conn'[r] = conn[r]
      /\ \A r \in Client : conn'[r] # conn[r] =>
           conn'[r] = d /\ r \in MayName(d) /\ r \in loggedIn
      /\ res = 0 => \E p \in MayName(d) : conn'[p] # NoConn
  <2>1. CASE conn' = conn /\ res = -2
    BY <2>1 DEF IInv, ClientsOK
  <2>2. ASSUME NEW p \in MayName(d), p \in loggedIn,
               conn' = TakeConnection(d, p)
        PROVE  /\ conn' \in [Client -> Conn \cup {NoConn}]
               /\ \A r \in Client : conn[r] # NoConn => conn'[r] = conn[r]
               /\ \A r \in Client : conn'[r] # conn[r] =>
                    conn'[r] = d /\ r \in MayName(d) /\ r \in loggedIn
               /\ conn'[p] # NoConn
    <3>1. p \in Client
      BY DEF MayName
    <3>2. conn \in [Client -> Conn \cup {NoConn}]
      BY DEF IInv, ClientsOK
    <3>3. CASE conn[p] = NoConn
      <4>1. conn' = [conn EXCEPT ![p] = d]
        BY <2>2, <3>3 DEF TakeConnection
      <4> QED
        BY <1>1, <2>2, <3>1, <3>2, <3>3, <4>1
    <3>4. CASE conn[p] # NoConn
      <4>1. conn' = conn
        BY <2>2, <3>4 DEF TakeConnection
      <4> QED
        BY <3>2, <3>4, <4>1
    <3> QED
      BY <3>3, <3>4
  <2> QED
    BY <1>2, <2>1, <2>2
<1>4. ClientsOK' /\ ConnsOK' /\ FaultOK' /\ Open' = Open
  BY <1>2, <1>3 DEF IInv, ClientsOK, ConnsOK, FaultOK, Members, Open
<1>5. WaitingAreOpen'
  BY <1>4 DEF IInv, WaitingAreOpen
<1>6. ConnIsOwn'
  <2> SUFFICES ASSUME NEW r \in Client, conn'[r] # NoConn
               PROVE  /\ r \in loggedIn
                      /\ conn'[r] \in Open \ Waiting'
                      /\ r \notin mixed => owner[conn'[r]] = r
    BY <1>2, <1>4 DEF ConnIsOwn
  <2>1. CASE conn'[r] = conn[r]
    BY <2>1 DEF IInv, ConnIsOwn
  <2>2. CASE conn'[r] # conn[r]
    BY <1>3, <2>2 DEF MayName
  <2> QED
    BY <2>1, <2>2
<1>7. ServedOrWaiting'
  <2> SUFFICES ASSUME NEW e \in Open \ Waiting', owner[e] \in Members \ mixed
               PROVE  conn'[owner[e]] # NoConn
    BY <1>2, <1>4 DEF ServedOrWaiting, Members
  <2>1. owner[e] \in Client
    BY DEF IInv, ConnsOK, Open
  <2>2. CASE e \notin Waiting
    <3>1. conn[owner[e]] # NoConn
      BY <2>2 DEF IInv, ServedOrWaiting
    <3> QED
      BY <1>3, <2>1, <3>1
  <2>3. CASE e \in Waiting
    <3>1. e = d /\ res = 0
      BY <2>3
    <3>2. PICK p \in MayName(d) : conn'[p] # NoConn
      BY <1>3, <3>1
    <3>3. p = owner[d]
      BY <3>1 DEF MayName
    <3> QED
      BY <3>1, <3>2, <3>3
  <2> QED
    BY <2>2, <2>3
<1> QED
  BY <1>2, <1>4, <1>5, <1>6, <1>7 DEF IInv

\* The end of an unassigned connection.
LEMMA FreeStep ==
  ASSUME IInv, walk > 0, Free({unassigned[walk]}), Erase,
         UNCHANGED <<clientVars, mixed, fault>>
  PROVE  IInv'
<1> DEFINE d == unassigned[walk]
<1>1. /\ WaitingOK' /\ Waiting' = Waiting \ {d} /\ d \in Waiting /\ d \in Conn
  BY EraseOne DEF IInv
<1>2. UNCHANGED <<vector, loggedIn, conn, stale, mixed, fault>>
  BY DEF clientVars
<1> HIDE DEF d
<1>3. /\ PagesTyped' /\ PagesFit' /\ PagesNamed' /\ ConnsOK'
      /\ Open' = Open \ {d}
      /\ \A e \in Conn \ {d} : owner'[e] = owner[e]
  BY <1>1, <1>2, FreePages DEF IInv, PagesOK, d
<1>4. ClientsOK' /\ FaultOK' /\ WaitingAreOpen'
  BY <1>1, <1>2, <1>3 DEF IInv, ClientsOK, FaultOK, WaitingAreOpen, Members
<1>5. ConnIsOwn'
  <2> SUFFICES ASSUME NEW r \in Client, conn[r] # NoConn
               PROVE  /\ r \in loggedIn
                      /\ conn[r] \in Open' \ Waiting'
                      /\ r \notin mixed => owner'[conn[r]] = r
    BY <1>2 DEF ConnIsOwn
  <2>1. /\ r \in loggedIn /\ conn[r] \in Open \ Waiting /\ conn[r] \in Conn
        /\ r \notin mixed => owner[conn[r]] = r
    BY DEF IInv, ConnIsOwn, Open
  <2> QED
    BY <1>1, <1>3, <2>1
<1>6. ServedOrWaiting'
  <2> SUFFICES ASSUME NEW e \in Open' \ Waiting',
                      owner'[e] \in Members \ mixed
               PROVE  conn[owner'[e]] # NoConn
    BY <1>2 DEF ServedOrWaiting, Members
  <2>1. e \in Open \ Waiting /\ owner'[e] = owner[e]
    BY <1>1, <1>3 DEF Open
  <2> QED
    BY <2>1 DEF IInv, ServedOrWaiting
<1> QED
  BY <1>1, <1>3, <1>4, <1>5, <1>6 DEF IInv

\* A round in which q's data connection is read, or found at its end.
LEMMA ServeStep == ASSUME IInv, NEW q \in Client, ServeData(q) PROVE IInv'
<1> DEFINE d == conn[q]
<1>1. d \in Open \ Waiting
  BY DEF ServeData, IInv, ConnIsOwn
<1> HIDE DEF d
<1>2. ASSUME NEW res \in {0, -2}, Read(d, res), UNCHANGED walkVars
      PROVE  IInv'
  <2>1. WaitingOK' /\ Waiting' = Waiting
    BY <1>2 DEF IInv, WaitingOK, Waiting, walkVars
  <2> QED
    BY <1>1, <1>2, <2>1, ReadStep
<1>3. CASE ReadFreed(d)
  BY <1>3, FailStep DEF ReadFreed
<1>4. CASE DataClosed(d)
  BY <1>4, FailStep DEF DataClosed
<1> QED
  BY <1>2, <1>3, <1>4 DEF ServeData, d

\* Bytes on an unassigned connection: they assign it, or they are dropped.
LEMMA ReadUnassignedStep == ASSUME IInv, ReadUnassigned PROVE IInv'
<1> DEFINE d == unassigned[walk]
<1>1. /\ walk > 0
      /\ \/ ReadFreed(d)
         \/ Fail("pastTheEnd")
         \/ \E res \in {0, -2} :
              /\ Read(d, res)
              /\ IF Assigned(res)
                 THEN ~EraseFaults /\ Erase
                 ELSE StepFrom(walk, Len(unassigned)) /\ UNCHANGED unassigned
  BY DEF ReadUnassigned
<1>2. d \in Waiting /\ d \in Open
  <2>1. /\ unassigned \in Seq(Conn) /\ walk \in 1..Len(unassigned)
    BY <1>1 DEF IInv, WaitingOK
  <2> QED
    BY <2>1 DEF Waiting, ToSet, IInv, WaitingAreOpen
<1>3. CASE ReadFreed(d)
  BY <1>3, FailStep DEF ReadFreed
<1>4. CASE Fail("pastTheEnd")
  BY <1>4, FailStep
<1>5. ASSUME NEW res \in {0, -2}, Read(d, res), Assigned(res), Erase
      PROVE  IInv'
  <2>1. WaitingOK' /\ Waiting' = Waiting \ {d}
    BY <1>1, <1>5, EraseOne DEF IInv
  <2>2. res = 0
    BY <1>5 DEF Assigned
  <2> HIDE DEF d
  <2> QED
    BY <1>2, <1>5, <2>1, <2>2, ReadStep
<1>6. ASSUME NEW res \in {0, -2}, Read(d, res), ~Assigned(res),
             StepFrom(walk, Len(unassigned)), unassigned' = unassigned
      PROVE  IInv'
  <2>1. res = -2
    BY <1>6 DEF Assigned
  <2>2. /\ PagesTyped' /\ PagesFit' /\ PagesNamed'
        /\ UNCHANGED <<vector, loggedIn, stale, mixed, owner, eof, fault, conn>>
    BY <1>2, <1>6, <2>1, ReadPages DEF IInv, PagesOK, Open
  <2>3. WaitingOK'
    BY <1>1, <1>6, StepOn DEF IInv
  <2>4. ClientsOK' /\ ConnsOK' /\ FaultOK' /\ WaitingAreOpen'
    BY <1>6, <2>2 DEF IInv, ClientsOK, ConnsOK, FaultOK, WaitingAreOpen,
                      Members, Waiting, Open
  <2>5. ConnIsOwn' /\ ServedOrWaiting'
    BY <1>6, <2>2 DEF IInv, ConnIsOwn, ServedOrWaiting, Members, Waiting, Open
  <2> QED
    BY <2>2, <2>3, <2>4, <2>5 DEF IInv
<1> QED
  BY <1>1, <1>3, <1>4, <1>5, <1>6

\* An unassigned connection at its end, or in er.
LEMMA EndStep == ASSUME IInv, UnassignedClosed \/ UnassignedError PROVE IInv'
<1>1. CASE UnassignedClosed
  BY <1>1, FailStep, FreeStep DEF UnassignedClosed
<1>2. CASE UnassignedError
  BY <1>2, FailStep, FreeStep DEF UnassignedError
<1> QED
  BY <1>1, <1>2

-----------------------------------------------------------------------------
LEMMA InitIInv == ASSUME Init PROVE IInv
<1> USE DEF Init
<1>1. Members = {} /\ Waiting = {} /\ Open = {}
  BY DEF Members, Waiting, Open, ToSet
<1>2. ClientsOK /\ WaitingOK
  BY <1>1 DEF ClientsOK, WaitingOK, IsInjective
<1>3. ConnsOK /\ FaultOK /\ WaitingAreOpen
  BY <1>1 DEF ConnsOK, FaultOK, WaitingAreOpen
<1>4. \A S : <<>> \in Seq(S)
  BY EmptySeq
<1>5. PagesTyped
  BY <1>4 DEF PagesTyped
<1>6. PagesFit
  <2> SUFFICES ASSUME NEW d \in Conn PROVE Len(Pages(d)) \in 0..MaxPages[d]
    BY DEF PagesFit
  <2>1. Pages(d) = <<>> \o <<>>
    BY DEF Pages
  <2>2. Len(<<>> \o <<>>) = 0 /\ MaxPages[d] \in Nat
    OBVIOUS
  <2> QED
    BY <2>1, <2>2
<1>7. PagesNamed
  <2> SUFFICES ASSUME NEW d \in Conn
               PROVE  /\ kernel[d] \in Seq(MayName(d))
                      /\ decoder[d] \in Seq(MayName(d))
    BY DEF PagesNamed
  <2> DEFINE S == MayName(d)
  <2>1. kernel[d] = <<>> /\ decoder[d] = <<>>
    OBVIOUS
  <2> HIDE DEF S
  <2>2. kernel[d] \in Seq(S) /\ decoder[d] \in Seq(S)
    BY <1>4, <2>1
  <2> QED
    BY <2>2 DEF S
<1>8. ConnIsOwn /\ ServedOrWaiting
  BY <1>1 DEF ConnIsOwn, ServedOrWaiting
<1> QED
  BY <1>2, <1>3, <1>5, <1>6, <1>7, <1>8 DEF IInv

LEMMA IInvStep == ASSUME IInv, [Next]_vars PROVE IInv'
<1>1. CASE UNCHANGED vars
  <2>1. UNCHANGED <<vector, loggedIn, conn, stale, mixed, unassigned, owner,
                    kernel, decoder, eof, walk, ready, fault>>
    BY <1>1 DEF vars, clientVars, pageVars, walkVars
  <2>2. ClientsOK' /\ WaitingOK' /\ ConnsOK' /\ WaitingAreOpen' /\ FaultOK'
    BY <2>1 DEF IInv, ClientsOK, WaitingOK, ConnsOK, WaitingAreOpen, Members,
                Waiting, Open, FaultOK
  <2>3. PagesTyped' /\ PagesFit' /\ PagesNamed'
    BY <2>1 DEF IInv, PagesTyped, PagesFit, PagesNamed, Pages, MayName
  <2>4. ConnIsOwn' /\ ServedOrWaiting'
    BY <2>1 DEF IInv, ConnIsOwn, ServedOrWaiting, Members, Waiting, Open
  <2> QED
    BY <2>2, <2>3, <2>4 DEF IInv
<1>2. CASE Walk
  BY <1>2, WalkStep, ReadUnassignedStep, EndStep DEF Walk
<1>3. ASSUME NEW q \in Client, ServeData(q) PROVE IInv'
  BY <1>3, ServeStep
<1>4. CASE Clients
  BY <1>4, ConnectStep, LoginStep, DeleteStep, NewDataStep, SendsStep,
     ClosesStep DEF Clients
<1> QED
  BY <1>1, <1>2, <1>3, <1>4 DEF Next, Loop

\* Whichever connections Loop reads and closes while it walks over them, and
\* whatever serials are on their pages, its vectors, its iterator and the
\* owners are as IInv says.
THEOREM Inductive == Spec => []IInv
BY InitIInv, IInvStep, PTL DEF Spec

-----------------------------------------------------------------------------
\* TypeOK for any number of clients and connections: the walk is at a
\* connection of the vector or has ended, nobody is in either vector twice,
\* and the pages of a connection never exceed their bound.
THEOREM ConnsTypeCorrect == Spec => []TypeOK
<1>1. IInv => TypeOK
  BY DEF TypeOK, IInv, ClientsOK, WaitingOK, ConnsOK, FaultOK, PagesTyped,
         PagesFit
<1> QED
  BY <1>1, Inductive, PTL

\* Whatever serials the peers put on their pages, the connection a client
\* reads from is open and not among the unassigned ones: no step of the walk
\* deletes it under the client.  And a client that uses its own serials, and
\* nobody else uses them, is never given another's connection, although the
\* code compares no addresses and no owners.
THEOREM ConnectionIsOwn == Spec => []ConnIsOwn
<1>1. IInv => ConnIsOwn
  BY DEF IInv
<1> QED
  BY <1>1, Inductive, PTL

\* Whatever order pages, ends and logins come in, a connection that has left
\* m_UnassignedDataConnectionVector has a client that is served, unless
\* serials were mixed on it.
THEOREM NobodyUnserved == Spec => []ServedOrWaiting
<1>1. IInv => ServedOrWaiting
  BY DEF IInv
<1> QED
  BY <1>1, Inductive, PTL

\* A connection shared by two clients has one that is mixed up.
LEMMA SharedIsMixed ==
  ASSUME IInv, NEW q \in Client, Shares(q)
  PROVE  \E r \in mixed : conn[r] # NoConn
<1>1. PICK r \in Client \ {q} : conn[r] \in Conn /\ conn[q] = conn[r]
  BY DEF Shares, HeldBy
<1>2. /\ r \notin mixed => owner[conn[r]] = r
      /\ q \notin mixed => owner[conn[q]] = q
  BY <1>1 DEF IInv, ConnIsOwn
<1> QED
  BY <1>1, <1>2

\* A serial that leads to a freed client is on a connection the client has
\* left, or was mixed up with one.
LEMMA FreedIsLeft ==
  ASSUME IInv, NEW d \in Conn, Finds(d, stale)
  PROVE  \E q \in stale : q \in mixed \/ \E e \in Conn : owner[e] = q
<1>1. PICK i \in 1..Len(Pages(d)) : Pages(d)[i] \in stale
  BY DEF Finds
<1> DEFINE S == MayName(d)
<1>2. kernel[d] \in Seq(S) /\ decoder[d] \in Seq(S)
  BY DEF IInv, PagesNamed
<1> HIDE DEF S
<1>3. Pages(d)[i] \in S
  BY <1>1, <1>2, PagesOver, ElementOfSeq
<1> QED
  BY <1>1, <1>3 DEF S, MayName

\* The undefined steps of this part of the server, and what each takes: an
\* iterator past the end or a null pointer takes two unassigned connections
\* or the end of one; a freed client takes a connection that has outlived
\* it or mixed serials, and a freed connection the latter; but the erased
\* iterator of DeleteClientSerials takes no more than a login.
THEOREM FaultsHaveACause == Spec => []FaultCause
<1>1. Init => FaultCause
  BY DEF Init, FaultCause
<1>2. IInv /\ FaultCause /\ [Next]_vars => FaultCause'
  <2> SUFFICES ASSUME IInv, FaultCause, [Next]_vars PROVE FaultCause'
    OBVIOUS
  <2>1. CASE UNCHANGED vars
    BY <2>1 DEF vars, clientVars, walkVars, FaultCause
  <2>2. CASE Next /\ fault' = fault
    BY <2>2 DEF Next, FaultCause
  <2>3. CASE Next /\ fault' # fault
    <3> DEFINE Ends == Len(unassigned) > 1 \/ eof # {}
    <3>1. ASSUME NEW kind, Fail(kind)
          PROVE  /\ fault' = kind
                 /\ UNCHANGED <<loggedIn, conn, stale, mixed, owner, unassigned,
                                eof>>
      BY <3>1 DEF Fail, clientVars, walkVars
    <3>2. ASSUME NEW kind, Fail(kind), Ends,
                 kind \in {"pastTheEnd", "nullConnection", "nullClient"}
          PROVE  FaultCause'
      BY <3>1, <3>2 DEF FaultCause
    <3>3. ASSUME NEW d \in Conn, ReadFreed(d)
          PROVE  FaultCause'
      BY <3>1, <3>3, FreedIsLeft DEF ReadFreed, FaultCause
    <3>4. \A d \in Conn, res \in {0, -2} : ~Read(d, res)
      BY <2>3 DEF Read
    <3>5. CASE ReadUnassigned
      <4>1. unassigned[walk] \in Conn
        <5>1. unassigned \in Seq(Conn) /\ walk \in 1..Len(unassigned)
          BY <3>5 DEF ReadUnassigned, IInv, WaitingOK
        <5> QED
          BY <5>1, ElementOfSeq
      <4>2. \/ ReadFreed(unassigned[walk])
            \/ EraseFaults /\ Fail("pastTheEnd")
        BY <3>4, <3>5, <4>1 DEF ReadUnassigned
      <4> QED
        BY <3>2, <3>3, <4>1, <4>2 DEF EraseFaults
    <3>6. CASE UnassignedClosed
      <4>1. eof # {} /\ (Fail("nullConnection") \/ Fail("pastTheEnd"))
        BY <2>3, <3>6 DEF UnassignedClosed
      <4> QED
        BY <3>2, <4>1
    <3>7. CASE UnassignedError
      <4>1. EraseFaults /\ Fail("pastTheEnd")
        BY <2>3, <3>7 DEF UnassignedError
      <4> QED
        BY <3>2, <4>1 DEF EraseFaults
    <3>8. ASSUME NEW q \in Client, ServeData(q) PROVE FaultCause'
      <4>1. conn[q] \in Conn
        BY <3>8 DEF ServeData, IInv, ClientsOK
      <4>2. \/ ReadFreed(conn[q])
            \/ eof # {} /\ DataClosed(conn[q])
        BY <3>4, <3>8, <4>1 DEF ServeData
      <4>3. DataClosed(conn[q]) =>
              \E kind \in {"pastTheEnd", "nullConnection", "nullClient"} :
                Fail(kind)
        BY DEF DataClosed
      <4> QED
        BY <3>2, <3>3, <4>1, <4>2, <4>3
    <3>9. ASSUME NEW q \in Client, DeleteClient(q) PROVE FaultCause'
      <4>1. \/ q \in loggedIn /\ Fail("erasedIterator")
            \/ Shares(q) /\ Fail("freedConnection")
        BY <2>3, <3>9 DEF DeleteClient, TakeOut
      <4>2. CASE q \in loggedIn /\ Fail("erasedIterator")
        BY <3>1, <4>2 DEF FaultCause
      <4>3. CASE Shares(q) /\ Fail("freedConnection")
        BY <3>1, <4>3, SharedIsMixed DEF FaultCause
      <4> QED
        BY <4>1, <4>2, <4>3
    <3> QED
      BY <2>3, <3>5, <3>6, <3>7, <3>8, <3>9
         DEF Next, Loop, Walk, Clients, StartWalk, PassBy, NewClientConnect,
             Login, NewDataConnection, PeerSendsPage, PeerClosesData
  <2> QED
    BY <2>1, <2>2, <2>3
<1>3. Init /\ [][Next]_vars => [](IInv /\ FaultCause)
  BY <1>1, <1>2, InitIInv, IInvStep, PTL
<1> QED
  BY <1>3, PTL DEF Spec

\* A client that has a data connection has the same one until DeleteClient
\* takes it off m_ClientVector: no page that arrives on another connection
\* takes it away, whoever's serial is on it.
THEOREM ConnectionIsKept == Spec => KeepsConnection
<1> DEFINE Kept == \A q \in Client : conn[q] # NoConn =>
                     conn'[q] = conn[q] \/ q \notin ToSet(vector')
<1>1. IInv /\ [Next]_vars => [Kept]_vars
  <2> SUFFICES ASSUME IInv, Next, NEW q \in Client, conn[q] # NoConn,
                      conn'[q] # conn[q]
               PROVE  q \notin ToSet(vector')
    OBVIOUS
  <2>1. PICK r \in Client : TakeOut(r)
    <3>1. ASSUME NEW d \in Conn, NEW res \in {0, -2}, Read(d, res)
          PROVE  FALSE
      <4>1. conn' = conn \/ \E p \in MayName(d) : conn' = TakeConnection(d, p)
        BY <3>1, ReadPages DEF IInv, PagesOK
      <4>2. PICK p \in MayName(d) :
              conn[p] = NoConn /\ conn' = [conn EXCEPT ![p] = d]
        BY <4>1 DEF TakeConnection
      <4> QED
        BY <4>2 DEF IInv, ClientsOK
    <3>2. ~ReadUnassigned
      <4> SUFFICES ASSUME ReadUnassigned PROVE FALSE
        OBVIOUS
      <4>1. unassigned[walk] \in Conn
        <5>1. unassigned \in Seq(Conn) /\ walk \in 1..Len(unassigned)
          BY DEF ReadUnassigned, IInv, WaitingOK
        <5> QED
          BY <5>1, ElementOfSeq
      <4> QED
        BY <3>1, <4>1 DEF ReadUnassigned, ReadFreed, Fail, clientVars
    <3>3. \A c \in Client : ~ServeData(c)
      <4> SUFFICES ASSUME NEW c \in Client, ServeData(c) PROVE FALSE
        OBVIOUS
      <4>1. conn[c] \in Conn
        BY DEF ServeData, IInv, ClientsOK
      <4> QED
        BY <3>1, <4>1 DEF ServeData, DataClosed, ReadFreed, Fail, clientVars
    <3> QED
      BY <3>2, <3>3 DEF Next, Loop, Walk, Clients, StartWalk, PassBy,
           UnassignedClosed, UnassignedError, Fail, NewClientConnect, Login,
           NewDataConnection, PeerSendsPage, PeerClosesData, DeleteClient,
           clientVars
  <2>2. r = q
    BY <2>1 DEF TakeOut, IInv, ClientsOK
  <2>3. PICK i \in 1..Len(vector) :
          vector[i] = q /\ vector' = RemoveAt(vector, i)
    BY <2>1, <2>2 DEF TakeOut
  <2> QED
    BY <2>3, RemoveAtInjective DEF IInv, ClientsOK
<1> QED
  BY <1>1, Inductive, PTL DEF Spec, KeepsConnection
=============================================================================
