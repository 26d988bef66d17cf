---------------------------- MODULE RelayProofs -----------------------------
(***************************************************************************)
(* Serials are unique, header vectors hold the headers, what a client      *)
(* sends on its only connection is relayed as it is, nobody is sent what   *)
(* it does not hear, and undefined behaviour has the causes Relay names:   *)
(* for any number of clients, connections and channels and any layout of   *)
(* the streams.                                                            *)
(*                                                                         *)
(* SerialInv adds to SerialsAreTheClients that a client that is not logged *)
(* in has no serial in the map: else its next login would leave it with    *)
(* three.  What the lookups of pages insert belongs to nobody.             *)
(*                                                                         *)
(* HeaderInv adds what is on its way: a page that waits, of a client that  *)
(* is still there, is the page of that number of the stream it is of, and  *)
(* until libogg has seen another page it expects the one behind the vector.*)
(*                                                                         *)
(* RelayInv adds whose pages are where: on a connection that a client has  *)
(* opened only its own, on others only pages of clients that have gone.    *)
(* The code never compares who sent a page with who opened the connection; *)
(* that the two agree is what makes its lookups by serial come out right.  *)
(***************************************************************************)
EXTENDS Relay, SequenceTheorems, FiniteSetTheorems, TLAPS

\* A client has the serials it was told; with none told, it has none.
HasWhatItWasTold(q) ==
  IF told[q]["video"] = 0 THEN SerialsOf(serialMap, q) = {}
  ELSE /\ SerialsOf(serialMap, q) = {told[q][k] : k \in Stream}
       /\ \A k \in Stream : serialMap[told[q][k]] = Entry(q, k)

SerialInv ==
  /\ handedOut \in Nat
  /\ told \in [Client -> [Stream -> Nat]]
  /\ \A q \in Client : HasWhatItWasTold(q)

USE PointerAssumption
-----------------------------------------------------------------------------
(* The operations of the map.                                              *)

\* A lookup inserts entries that belong to no client, and changes none.
LEMMA LookupKeeps ==
  ASSUME NEW m, NEW S, NEW q \in Client
  PROVE  /\ DOMAIN LookedUp(m, S) = DOMAIN m \cup S
         /\ \A s \in DOMAIN m : LookedUp(m, S)[s] = m[s]
         /\ SerialsOf(LookedUp(m, S), q) = SerialsOf(m, q)
  BY DEF LookedUp, SerialsOf, NullEntry

\* Two lookups are one.
LEMMA LookupTwice ==
  ASSUME NEW m, NEW S, NEW T
  PROVE  LookedUp(LookedUp(m, S), T) = LookedUp(m, S \cup T)
  BY DEF LookedUp

\* Whatever the erased iterator does, the client has no serial afterwards,
\* and the others have theirs.
LEMMA DeleteKeeps ==
  ASSUME NEW m, NEW q \in Client, NEW n \in DeleteClientSerials(m, q)
  PROVE  /\ SerialsOf(n, q) = {}
         /\ \A c \in Client \ {q} : /\ SerialsOf(n, c) = SerialsOf(m, c)
                                    /\ \A s \in SerialsOf(m, c) : n[s] = m[s]
<1>1. PICK G \in SUBSET SerialsOf(m, q) : n = Without(m, q, G)
  BY DEF DeleteClientSerials
<1>2. /\ DOMAIN n = DOMAIN m \ G
      /\ \A s \in DOMAIN n :
           n[s] = IF m[s].client = q THEN Entry(Freed, m[s].stream) ELSE m[s]
  BY <1>1 DEF Without
<1>3. \A s \in DOMAIN n : n[s].client # q
  <2> SUFFICES ASSUME NEW s \in DOMAIN n PROVE n[s].client # q
    OBVIOUS
  <2>1. CASE m[s].client = q
    BY <1>2, <2>1 DEF Entry
  <2>2. CASE m[s].client # q
    BY <1>2, <2>2
  <2> QED
    BY <2>1, <2>2
<1>4. ASSUME NEW c \in Client \ {q}
      PROVE  /\ SerialsOf(n, c) = SerialsOf(m, c)
             /\ \A s \in SerialsOf(m, c) : n[s] = m[s]
  <2>1. \A s \in DOMAIN m :
          s \in SerialsOf(m, c) => s \in DOMAIN n /\ n[s] = m[s]
    BY <1>1, <1>2 DEF SerialsOf
  <2>2. \A s \in DOMAIN n : n[s].client = c => m[s].client = c
    BY <1>2 DEF Entry
  <2> QED
    BY <1>2, <2>1, <2>2 DEF SerialsOf
<1> QED
  BY <1>3, <1>4 DEF SerialsOf

-----------------------------------------------------------------------------
(* The steps.                                                              *)

\* A login tells a client two serials that were nobody's.
LEMMA LoginStep ==
  ASSUME SerialInv, NEW q \in Client, Login(q) PROVE SerialInv'
<1> USE DEF SerialInv
<1>1. PICK v \in NewSerials(serialMap, handedOut) :
        LET m == SetEntry(serialMap, v, q, "video")
            n == IF v > handedOut THEN v ELSE handedOut
        IN  \E a \in NewSerials(m, n) :
              /\ serialMap' = SetEntry(m, a, q, "audio")
              /\ handedOut' = IF a > n THEN a ELSE n
              /\ told' = [told EXCEPT ![q] = [video |-> v, audio |-> a]]
  BY DEF Login
<1> DEFINE m == SetEntry(serialMap, v, q, "video")
<1>2. v = handedOut + 1 /\ v \notin DOMAIN serialMap
  BY <1>1 DEF NewSerials, Rand
<1>3. /\ DOMAIN m = DOMAIN serialMap \cup {v}
      /\ m[v] = Entry(q, "video")
      /\ \A s \in DOMAIN serialMap : s # v /\ m[s] = serialMap[s]
      /\ SerialsOf(m, q) = SerialsOf(serialMap, q) \cup {v}
      /\ \A c \in Client \ {q} : SerialsOf(m, c) = SerialsOf(serialMap, c)
  BY <1>2 DEF SetEntry, SerialsOf, Entry
<1>4. PICK a \in NewSerials(m, v) :
        /\ serialMap' = SetEntry(m, a, q, "audio")
        /\ handedOut' = IF a > v THEN a ELSE v
        /\ told' = [told EXCEPT ![q] = [video |-> v, audio |-> a]]
  <2>1. (IF v > handedOut THEN v ELSE handedOut) = v
    BY <1>2
  <2> QED
    BY <1>1, <2>1
<1> HIDE DEF m
<1>5. a = v + 1 /\ a \notin DOMAIN m
  BY <1>2, <1>4 DEF NewSerials, Rand
<1>6. /\ serialMap'[a] = Entry(q, "audio")
      /\ \A s \in DOMAIN m : s # a /\ serialMap'[s] = m[s]
      /\ SerialsOf(serialMap', q) = SerialsOf(m, q) \cup {a}
      /\ \A c \in Client \ {q} : SerialsOf(serialMap', c) = SerialsOf(m, c)
  BY <1>4, <1>5 DEF SetEntry, SerialsOf, Entry
<1>7. v \in Nat /\ a \in Nat /\ v # 0
  BY <1>2, <1>5
<1>8. /\ told'[q] = [video |-> v, audio |-> a]
      /\ \A c \in Client \ {q} : told'[c] = told[c]
  BY <1>4
<1>9. handedOut' \in Nat /\ told' \in [Client -> [Stream -> Nat]]
  BY <1>4, <1>7 DEF Stream
<1>10. HasWhatItWasTold(q)'
  <2>1. SerialsOf(serialMap, q) = {}
    BY DEF Login, LoggedIn, HasWhatItWasTold
  <2>2. SerialsOf(serialMap', q) = {v, a}
    BY <1>3, <1>6, <2>1
  <2>3. serialMap'[v] = Entry(q, "video") /\ serialMap'[a] = Entry(q, "audio")
    BY <1>3, <1>6
  <2>4. {told'[q][k] : k \in Stream} = {v, a}
    BY <1>8 DEF Stream
  <2> QED
    BY <1>7, <1>8, <2>2, <2>3, <2>4 DEF HasWhatItWasTold, Stream
<1>11. ASSUME NEW c \in Client \ {q} PROVE HasWhatItWasTold(c)'
  <2>1. SerialsOf(serialMap', c) = SerialsOf(serialMap, c)
    BY <1>3, <1>6
  <2>2. \A s \in DOMAIN serialMap : serialMap'[s] = serialMap[s]
    BY <1>3, <1>6
  <2>3. \A s \in SerialsOf(serialMap, c) : serialMap'[s] = serialMap[s]
    BY <2>2 DEF SerialsOf
  <2> QED
    BY <1>8, <2>1, <2>3 DEF HasWhatItWasTold
<1> QED
  BY <1>9, <1>10, <1>11

\* A client that goes leaves no serial of its own behind.
LEMMA DeleteStep ==
  ASSUME SerialInv, NEW q \in Client, TakeOut(q) PROVE SerialInv'
<1> USE DEF SerialInv
<1>1. /\ serialMap' \in DeleteClientSerials(serialMap, q)
      /\ told' = [told EXCEPT ![q] = NotTold]
      /\ handedOut' = handedOut
  BY DEF TakeOut
<1>2. told' \in [Client -> [Stream -> Nat]] /\ told'[q]["video"] = 0
  BY <1>1 DEF NotTold, Stream
<1>3. HasWhatItWasTold(q)'
  BY <1>1, <1>2, DeleteKeeps DEF HasWhatItWasTold
<1>4. ASSUME NEW c \in Client \ {q} PROVE HasWhatItWasTold(c)'
  <2>1. told'[c] = told[c]
    BY <1>1
  <2> QED
    BY <1>1, <2>1, DeleteKeeps DEF HasWhatItWasTold
<1> QED
  BY <1>1, <1>2, <1>3, <1>4

\* Steps that only look serials up.
LEMMA LookupStep ==
  ASSUME SerialInv, NEW S, serialMap' = LookedUp(serialMap, S),
         UNCHANGED <<handedOut, told>>
  PROVE  SerialInv'
<1> SUFFICES ASSUME NEW q \in Client PROVE HasWhatItWasTold(q)'
  BY DEF SerialInv
<1>1. HasWhatItWasTold(q)
  BY DEF SerialInv
<1>2. /\ SerialsOf(serialMap', q) = SerialsOf(serialMap, q)
      /\ \A s \in DOMAIN serialMap : serialMap'[s] = serialMap[s]
  BY LookupKeeps
<1>3. \A s \in SerialsOf(serialMap, q) : serialMap'[s] = serialMap[s]
  BY <1>2 DEF SerialsOf
<1> QED
  BY <1>1, <1>2, <1>3 DEF HasWhatItWasTold

\* What ReadPage does to the map: lookups, before and in ProcessClientData.
LEMMA ReadPageLooksUp ==
  ASSUME NEW d \in Conn, ReadPage(d)
  PROVE  \E S : serialMap' = LookedUp(serialMap, S)
<1>1. PICK i \in 1..Len(Pages(d)) :
        LET p == Pages(d)[i]
            e == serialMap[p.serial]
            q == e.client
            m == LookedUp(serialMap, {Pages(d)[j].serial : j \in 1..i}) IN
        \/ serialMap' = m
        \/ ProcessClientData(q, d, m)
  BY DEF ReadPage
<1> DEFINE S == {Pages(d)[j].serial : j \in 1..i}
<1>2. CASE serialMap' = LookedUp(serialMap, S)
  BY <1>2
<1>3. CASE \E s : serialMap' = LookedUp(LookedUp(serialMap, S), {s})
  <2> HIDE DEF S
  <2>1. PICK s : serialMap' = LookedUp(LookedUp(serialMap, S), {s})
    BY <1>3
  <2>2. serialMap' = LookedUp(serialMap, S \cup {s})
    BY <2>1, LookupTwice
  <2> QED
    BY <2>2
<1> QED
  BY <1>1, <1>2, <1>3 DEF ProcessClientData

\* No step breaks SerialInv.
LEMMA SerialStep == SerialInv /\ [Next]_vars => SerialInv'
<1> SUFFICES ASSUME SerialInv, [Next]_vars PROVE SerialInv'
  OBVIOUS
<1>1. ASSUME NEW q \in Client, Login(q) PROVE SerialInv'
  BY <1>1, LoginStep
<1>2. ASSUME NEW q \in Client, TakeOut(q) PROVE SerialInv'
  BY <1>2, DeleteStep
<1>3. CASE UNCHANGED serialVars
  BY <1>3 DEF serialVars, SerialInv, HasWhatItWasTold
<1>4. ASSUME NEW q \in Client, NEW ch \in Chan,
             Join(q, ch) \/ Part(q, ch)
      PROVE  SerialInv'
  BY <1>3, <1>4 DEF Join, Part
<1>11. ASSUME NEW q \in Client, SerialsFault(q) PROVE SerialInv'
  BY <1>3, <1>11 DEF SerialsFault
<1>5. ASSUME NEW q \in Client, NEW d \in Conn, NewDataConnection(q, d)
      PROVE  SerialInv'
  BY <1>3, <1>5 DEF NewDataConnection
<1>6. ASSUME NEW q \in Client, NEW d \in Conn, NEW k \in Stream,
             PeerSendsPage(q, d, k)
      PROVE  SerialInv'
  BY <1>3, <1>6 DEF PeerSendsPage
<1>7. ASSUME NEW d \in Conn, ReadPart(d) PROVE SerialInv'
  BY <1>3, <1>7 DEF ReadPart
<1>8. ASSUME NEW d \in Conn, ReadUnknown(d) PROVE SerialInv'
  BY <1>8, LookupStep DEF ReadUnknown
<1>9. ASSUME NEW d \in Conn, ReadPage(d) PROVE SerialInv'
  BY <1>9, ReadPageLooksUp, LookupStep DEF ReadPage
<1>10. CASE UNCHANGED vars
  BY <1>3, <1>10 DEF vars, serialVars
<1> QED
  BY <1>1, <1>2, <1>4, <1>5, <1>6, <1>7, <1>8, <1>9, <1>10, <1>11
     DEF Next, Clients, Reads, DeleteClient

\* The map is empty at first.
LEMMA InitSerial == Init => SerialInv
  BY DEF Init, SerialInv, HasWhatItWasTold, SerialsOf, EmptyMap, NotTold, Stream

\* Serials are unique (README:54): through every login, departure and page
\* of a client that has gone, the two serials a client was told, and no
\* others, lead GetClient and GetOggStream to it and its two streams.
THEOREM SerialsAreUnique == Spec => []SerialsAreTheClients
<1>1. SerialInv => SerialsAreTheClients
  BY DEF SerialInv, HasWhatItWasTold, SerialsAreTheClients, LoggedIn
<1> QED
  BY <1>1, InitSerial, SerialStep, PTL DEF Spec
-----------------------------------------------------------------------------
(* Header pages.                                                           *)

\* No two streams share a serial, and those that are told were handed out.
ToldInv ==
  \A q \in Client :
    \/ \A k \in Stream : told[q][k] = 0
    \/ \A k \in Stream : told[q][k] \in 1..handedOut

AnyPage == [serial : Nat, no : Nat, body : Body, torn : BOOLEAN]

\* Pages of a client that is still there are pages of its streams.
GoodPages ==
  {p \in AnyPage :
     /\ p.serial \in 1..handedOut
     /\ \A q \in Client, k \in Stream :
          told[q][k] = p.serial =>
            p.no \in 1..Len(Layout[k]) /\ p.body = Layout[k][p.no]}

PageInv ==
  /\ sent \in [Client -> [Stream -> Nat]]
  /\ kernel \in [Conn -> Seq(GoodPages)]
  /\ decoder \in [Conn -> Seq(GoodPages)]

AnyStream ==
  [at : Conn \cup {NoConn}, initialized : BOOLEAN, next : Nat, headers : Seq(Nat)]

\* The first pages of stream k, all of them headers, are the header vector
\* of st; libogg expects the next one as long as there may be more.
GoodStreams(k) ==
  {st \in AnyStream :
     /\ \A i \in 1..Len(st.headers) :
          st.headers[i] = i /\ Layout[k][i] = "header"
     /\ ~st.initialized => st.next = Len(st.headers) + 1}

StreamInv ==
  /\ stream \in [Client -> [Stream -> AnyStream]]
  /\ \A q \in Client, k \in Stream : stream[q][k] \in GoodStreams(k)

HeaderInv == SerialInv /\ ToldInv /\ PageInv /\ StreamInv

USE LayoutAssumption

\* A stream no page has been fed to.
LEMMA FreshIsGood == ASSUME NEW k \in Stream PROVE NewStream \in GoodStreams(k)
  BY DEF NewStream, GoodStreams, AnyStream

\* FeedPage keeps the vector right, whatever page of the stream comes.
LEMMA FeedIsGood ==
  ASSUME NEW k \in Stream, NEW st \in GoodStreams(k), NEW d \in Conn,
         NEW p \in AnyPage, p.no \in 1..Len(Layout[k]),
         p.body = Layout[k][p.no]
  PROVE  FeedPage(st, d, p) \in GoodStreams(k)
<1> DEFINE f == FeedPage(st, d, p)
<1>1. /\ st \in AnyStream
      /\ \A i \in 1..Len(st.headers) :
           st.headers[i] = i /\ Layout[k][i] = "header"
      /\ ~st.initialized => st.next = Len(st.headers) + 1
  BY DEF GoodStreams
<1>2. CASE st.initialized
  <2>1. f = [st EXCEPT !.at = d]
    BY <1>2 DEF FeedPage
  <2>2. /\ f \in AnyStream
        /\ f.headers = st.headers /\ f.initialized
    BY <1>1, <1>2, <2>1 DEF AnyStream
  <2> QED
    BY <1>1, <2>2 DEF GoodStreams
<1>3. CASE ~st.initialized /\ FirstGranule(st, p) = 0
  <2>1. p.no = st.next /\ p.body = "header"
    BY <1>3 DEF FirstGranule
  <2>2. f = [st EXCEPT !.at = d, !.next = p.no + 1,
                       !.headers = Append(@, p.no)]
    BY <1>3 DEF FeedPage
  <2>3. f \in AnyStream
    <3>1. Append(st.headers, p.no) \in Seq(Nat) /\ p.no + 1 \in Nat
      BY <1>1 DEF AnyStream, AnyPage
    <3>2. PICK h \in Seq(Nat), n \in Nat :
            h = Append(st.headers, p.no) /\ n = p.no + 1
      BY <3>1
    <3>3. [st EXCEPT !.at = d, !.next = n, !.headers = h] \in AnyStream
      BY <1>1 DEF AnyStream
    <3> QED
      BY <2>2, <3>2, <3>3
  <2>4. f.headers = Append(st.headers, p.no) /\ f.next = p.no + 1
    BY <1>1, <2>2 DEF AnyStream
  <2>5. p.no = Len(st.headers) + 1
    BY <1>1, <1>3, <2>1
  <2>6. st.headers \in Seq(Nat) /\ p.no \in Nat
    BY <1>1 DEF AnyStream, AnyPage
  <2>7. Len(f.headers) = Len(st.headers) + 1
    BY <2>4, <2>6
  <2>8. ASSUME NEW i \in 1..Len(f.headers)
        PROVE  f.headers[i] = i /\ Layout[k][i] = "header"
    <3>1. CASE i = Len(st.headers) + 1
      BY <2>1, <2>4, <2>5, <2>6, <3>1
    <3>2. CASE i \in 1..Len(st.headers)
      BY <1>1, <2>4, <2>6, <3>2
    <3> QED
      BY <2>6, <2>7, <3>1, <3>2
  <2> HIDE DEF f
  <2>9. f.next = Len(f.headers) + 1
    BY <2>4, <2>5, <2>7
  <2> QED
    BY <2>3, <2>8, <2>9 DEF f, GoodStreams
<1>4. CASE ~st.initialized /\ FirstGranule(st, p) # 0
  <2>1. f = [st EXCEPT !.at = d, !.next = p.no + 1, !.initialized = TRUE]
    BY <1>4 DEF FeedPage
  <2>2. p.no + 1 \in Nat
    BY DEF AnyPage
  <2>3. f \in AnyStream
    <3>1. PICK n \in Nat : n = p.no + 1
      BY <2>2
    <3>2. [st EXCEPT !.at = d, !.next = n, !.initialized = TRUE] \in AnyStream
      BY <1>1 DEF AnyStream
    <3> QED
      BY <2>1, <3>1, <3>2
  <2>4. f.headers = st.headers /\ f.initialized
    BY <1>1, <2>1 DEF AnyStream
  <2> QED
    BY <1>1, <2>3, <2>4 DEF GoodStreams
<1> QED
  BY <1>2, <1>3, <1>4

\* The serials a login hands out are above all others.
LEMMA LoginHandsOut ==
  ASSUME NEW q \in Client, handedOut \in Nat, Login(q)
  PROVE  /\ told' = [told EXCEPT ![q] = [video |-> handedOut + 1,
                                        audio |-> handedOut + 2]]
         /\ handedOut' = handedOut + 2
<1>1. PICK v \in NewSerials(serialMap, handedOut) :
        LET m == SetEntry(serialMap, v, q, "video")
            n == IF v > handedOut THEN v ELSE handedOut
        IN  \E a \in NewSerials(m, n) :
              /\ serialMap' = SetEntry(m, a, q, "audio")
              /\ handedOut' = IF a > n THEN a ELSE n
              /\ told' = [told EXCEPT ![q] = [video |-> v, audio |-> a]]
  BY DEF Login
<1> DEFINE m == SetEntry(serialMap, v, q, "video")
<1>2. v = handedOut + 1
  BY <1>1 DEF NewSerials, Rand
<1>3. (IF v > handedOut THEN v ELSE handedOut) = v
  BY <1>2
<1>4. PICK a \in NewSerials(m, v) :
        /\ handedOut' = IF a > v THEN a ELSE v
        /\ told' = [told EXCEPT ![q] = [video |-> v, audio |-> a]]
  BY <1>1, <1>3
<1> HIDE DEF m
<1>5. a = v + 1
  BY <1>4 DEF NewSerials, Rand
<1> QED
  BY <1>2, <1>4, <1>5

\* A serial that is told leads to one client and one stream.
LEMMA ToldIsOnes ==
  ASSUME SerialInv, ToldInv, NEW q \in Client, NEW k \in Stream,
         NEW c \in Client, NEW j \in Stream,
         told[q][k] = told[c][j], told[q][k] # 0
  PROVE  q = c /\ k = j
<1>1. told[q]["video"] # 0 /\ told[c]["video"] # 0
  BY DEF ToldInv, Stream
<1>2. serialMap[told[q][k]] = Entry(q, k) /\ serialMap[told[c][j]] = Entry(c, j)
  BY <1>1 DEF SerialInv, HasWhatItWasTold
<1> QED
  BY <1>2 DEF Entry

\* Pages stay good when serials are told and forgotten.
LEMMA PagesStayGood ==
  ASSUME handedOut \in Nat, handedOut' \in Nat, handedOut' >= handedOut,
         \A q \in Client, k \in Stream :
           told'[q][k] \in {told[q][k], 0} \/ told'[q][k] > handedOut
  PROVE  GoodPages \subseteq GoodPages'
<1> SUFFICES ASSUME NEW p \in GoodPages PROVE p \in GoodPages'
  OBVIOUS
<1>1. p \in AnyPage /\ p.serial \in 1..handedOut
  BY DEF GoodPages
<1>2. ASSUME NEW q \in Client, NEW k \in Stream, told'[q][k] = p.serial
      PROVE  p.no \in 1..Len(Layout[k]) /\ p.body = Layout[k][p.no]
  <2>1. told[q][k] = p.serial
    BY <1>1, <1>2
  <2> QED
    BY <2>1 DEF GoodPages
<1>3. p.serial \in 1..handedOut'
  BY <1>1
<1> QED
  BY <1>1, <1>2, <1>3 DEF GoodPages

\* So do queues of them.
LEMMA QueuesStayGood ==
  ASSUME GoodPages \subseteq GoodPages' PROVE Seq(GoodPages) \subseteq Seq(GoodPages')
  BY SeqMonotonic

\* What a step does to the serials told, and so to what pages are good.
LEMMA ToldStep ==
  ASSUME SerialInv, ToldInv, [Next]_vars
  PROVE  ToldInv' /\ GoodPages \subseteq GoodPages'
<1>1. handedOut \in Nat /\ told \in [Client -> [Stream -> Nat]]
  BY DEF SerialInv
<1>2. ASSUME NEW q \in Client, Login(q)
      PROVE  ToldInv' /\ GoodPages \subseteq GoodPages'
  <2>1. /\ told' = [told EXCEPT ![q] = [video |-> handedOut + 1,
                                       audio |-> handedOut + 2]]
        /\ handedOut' = handedOut + 2
    BY <1>1, <1>2, LoginHandsOut
  <2>2. ToldInv'
    <3>1. \A k \in Stream : told'[q][k] \in 1..handedOut'
      BY <1>1, <2>1 DEF Stream
    <3>2. \A c \in Client \ {q} : told'[c] = told[c]
      BY <1>1, <2>1
    <3>3. 1..handedOut \subseteq 1..handedOut'
      BY <1>1, <2>1
    <3> QED
      BY <3>1, <3>2, <3>3 DEF ToldInv
  <2>3. ASSUME NEW c \in Client, NEW k \in Stream
        PROVE  told'[c][k] \in {told[c][k], 0} \/ told'[c][k] > handedOut
    <3>1. CASE c = q
      BY <1>1, <2>1, <3>1 DEF Stream
    <3>2. CASE c # q
      BY <1>1, <2>1, <3>2
    <3> QED
      BY <3>1, <3>2
  <2> QED
    BY <1>1, <2>1, <2>2, <2>3, PagesStayGood
<1>3. ASSUME NEW q \in Client, TakeOut(q)
      PROVE  ToldInv' /\ GoodPages \subseteq GoodPages'
  <2>1. /\ told' = [told EXCEPT ![q] = NotTold]
        /\ handedOut' = handedOut
    BY <1>3 DEF TakeOut
  <2>2. ASSUME NEW c \in Client
        PROVE  \/ told'[c] = told[c]
               \/ \A k \in Stream : told'[c][k] = 0
    BY <1>1, <2>1 DEF NotTold
  <2>3. ToldInv'
    BY <2>1, <2>2 DEF ToldInv
  <2>4. \A c \in Client, k \in Stream : told'[c][k] \in {told[c][k], 0}
    BY <2>2
  <2> QED
    BY <1>1, <2>1, <2>3, <2>4, PagesStayGood
<1>4. CASE UNCHANGED <<handedOut, told>>
  BY <1>4 DEF ToldInv, GoodPages
<1>5. CASE UNCHANGED vars
  BY <1>4, <1>5 DEF vars, serialVars
<1>6. CASE \/ \E q \in Client, ch \in Chan : Join(q, ch) \/ Part(q, ch)
           \/ \E q \in Client, d \in Conn : NewDataConnection(q, d)
           \/ \E q \in Client, d \in Conn, k \in Stream : PeerSendsPage(q, d, k)
           \/ \E q \in Client : SerialsFault(q)
  BY <1>4, <1>6 DEF Join, Part, NewDataConnection, PeerSendsPage, SerialsFault,
                    serialVars
<1>7. CASE Reads
  <2>1. ASSUME NEW d \in Conn, ReadPart(d) PROVE UNCHANGED <<handedOut, told>>
    BY <2>1 DEF ReadPart, serialVars
  <2>2. ASSUME NEW d \in Conn, ReadUnknown(d)
        PROVE  UNCHANGED <<handedOut, told>>
    BY <2>2 DEF ReadUnknown
  <2>3. ASSUME NEW d \in Conn, ReadPage(d) PROVE UNCHANGED <<handedOut, told>>
    BY <2>3 DEF ReadPage
  <2> QED
    BY <1>4, <1>7, <2>1, <2>2, <2>3 DEF Reads
<1> QED
  BY <1>2, <1>3, <1>5, <1>6, <1>7 DEF Next, Clients, DeleteClient

\* What waits on a connection is good.
LEMMA PagesAreGood ==
  ASSUME PageInv, NEW d \in Conn
  PROVE  /\ Pages(d) \in Seq(GoodPages)
         /\ \A i \in 1..Len(Pages(d)) : Pages(d)[i] \in GoodPages
<1>1. kernel[d] \in Seq(GoodPages) /\ decoder[d] \in Seq(GoodPages)
  BY DEF PageInv
<1>2. Pages(d) \in Seq(GoodPages)
  BY <1>1 DEF Pages
<1> QED
  BY <1>2, ElementOfSeq

\* A sequence cut in two behind element m, and its part from i + 1 on.
LEMMA CutSeq ==
  ASSUME NEW S, NEW s \in Seq(S), NEW m \in 0..Len(s), NEW i \in 0..m
  PROVE  /\ SubSeq(s, i + 1, m) \in Seq(S)
         /\ SubSeq(s, m + 1, Len(s)) \in Seq(S)
         /\ SubSeq(s, i + 1, m) \o SubSeq(s, m + 1, Len(s))
              = SubSeq(s, i + 1, Len(s))
<1> DEFINE n == Len(s)
           a == SubSeq(s, i + 1, m)
           b == SubSeq(s, m + 1, n)
           c == SubSeq(s, i + 1, n)
<1>1. n \in Nat /\ m \in 0..n /\ i \in 0..m
  BY LenProperties
<1>2. \A j \in 1..n : s[j] \in S
  BY ElementOfSeq
<1> HIDE DEF n
<1>3. /\ \A j \in (i + 1)..m : s[j] \in S
      /\ \A j \in (m + 1)..n : s[j] \in S
      /\ \A j \in (i + 1)..n : s[j] \in S
  BY <1>1, <1>2
<1>4. /\ a \in Seq(S)
      /\ Len(a) = IF i + 1 <= m THEN m - (i + 1) + 1 ELSE 0
      /\ \A j \in 1..(m - (i + 1) + 1) : a[j] = s[i + 1 + j - 1]
  BY <1>1, <1>3, SubSeqProperties
<1>5. /\ b \in Seq(S)
      /\ Len(b) = IF m + 1 <= n THEN n - (m + 1) + 1 ELSE 0
      /\ \A j \in 1..(n - (m + 1) + 1) : b[j] = s[m + 1 + j - 1]
  BY <1>1, <1>3, SubSeqProperties
<1>6. /\ c \in Seq(S)
      /\ Len(c) = IF i + 1 <= n THEN n - (i + 1) + 1 ELSE 0
      /\ \A j \in 1..(n - (i + 1) + 1) : c[j] = s[i + 1 + j - 1]
  BY <1>1, <1>3, SubSeqProperties
<1> HIDE DEF a, b, c
<1>7. Len(a) = m - i /\ Len(b) = n - m /\ Len(c) = n - i
  BY <1>1, <1>4, <1>5, <1>6
<1>8. /\ a \o b \in Seq(S)
      /\ Len(a \o b) = Len(a) + Len(b)
      /\ \A j \in 1..(Len(a) + Len(b)) :
           (a \o b)[j] = IF j <= Len(a) THEN a[j] ELSE b[j - Len(a)]
  BY <1>4, <1>5, ConcatProperties
<1>9. ASSUME NEW j \in 1..(n - i)
      PROVE  (a \o b)[j] = c[j]
  <2>1. c[j] = s[i + j]
    <3>1. j \in 1..(n - (i + 1) + 1) /\ i + 1 + j - 1 = i + j
      BY <1>1
    <3> QED
      BY <1>6, <3>1
  <2>2. CASE j <= m - i
    <3>1. j \in 1..(m - (i + 1) + 1) /\ i + 1 + j - 1 = i + j
      BY <1>1, <2>2
    <3>2. a[j] = s[i + j]
      BY <1>4, <3>1
    <3> QED
      BY <1>1, <1>7, <1>8, <2>1, <2>2, <3>2
  <2>3. CASE ~(j <= m - i)
    <3>1. /\ j - (m - i) \in 1..(n - (m + 1) + 1)
          /\ m + 1 + (j - (m - i)) - 1 = i + j
      BY <1>1, <2>3
    <3>2. b[j - (m - i)] = s[i + j]
      BY <1>5, <3>1
    <3> QED
      BY <1>1, <1>7, <1>8, <2>1, <2>3, <3>2
  <2> QED
    BY <2>2, <2>3
<1>10. Len(a \o b) = Len(c) /\ Len(a \o b) = n - i
  BY <1>1, <1>7, <1>8
<1>11. a \o b = c
  BY <1>6, <1>8, <1>9, <1>10, SeqEqual
<1> QED
  BY <1>4, <1>5, <1>11 DEF a, b, c, n

\* How far recv gets is somewhere in the pages of the connection.
LEMMA GivenCuts ==
  ASSUME NEW S, NEW d \in Conn, kernel[d] \in Seq(S), decoder[d] \in Seq(S),
         NEW m \in Given(d)
  PROVE  /\ Pages(d) \in Seq(S)
         /\ m \in 0..Len(Pages(d))
         /\ SubSeq(Pages(d), m + 1, Len(Pages(d))) \in Seq(S)
<1>1. /\ Pages(d) \in Seq(S)
      /\ Len(Pages(d)) \in Nat /\ Len(decoder[d]) \in Nat
  BY ConcatProperties, LenProperties DEF Pages
<1>2. m \in 0..Len(Pages(d))
  BY <1>1 DEF Given
<1>3. 0 \in 0..m
  BY <1>1, <1>2
<1> QED
  BY <1>1, <1>2, <1>3, CutSeq

\* What TakePage leaves in the two queues: what was behind page i, in order.
LEMMA TakeLeaves ==
  ASSUME NEW S, NEW d \in Conn, kernel[d] \in Seq(S), decoder[d] \in Seq(S),
         NEW i \in 1..Len(Pages(d)), TakePage(d, i)
  PROVE  \E rest \in Seq(S), left \in Seq(S) :
           /\ kernel' = [kernel EXCEPT ![d] = rest]
           /\ decoder' = [decoder EXCEPT ![d] = left]
           /\ left \o rest = SubSeq(Pages(d), i + 1, Len(Pages(d)))
<1>1. PICK m \in Given(d) :
        /\ i =< m
        /\ kernel' = [kernel EXCEPT ![d] =
                         SubSeq(Pages(d), m + 1, Len(Pages(d)))]
        /\ decoder' = [decoder EXCEPT ![d] = SubSeq(Pages(d), i + 1, m)]
  BY DEF TakePage
<1>2. Pages(d) \in Seq(S) /\ m \in 0..Len(Pages(d))
  BY GivenCuts
<1>3. i \in 0..m
  BY <1>1, <1>2
<1>4. /\ SubSeq(Pages(d), i + 1, m) \in Seq(S)
      /\ SubSeq(Pages(d), m + 1, Len(Pages(d))) \in Seq(S)
      /\ SubSeq(Pages(d), i + 1, m) \o SubSeq(Pages(d), m + 1, Len(Pages(d)))
           = SubSeq(Pages(d), i + 1, Len(Pages(d)))
  BY <1>2, <1>3, CutSeq
<1> QED
  BY <1>1, <1>4

\* What ReadUnknown leaves.
LEMMA UnknownLeaves ==
  ASSUME NEW S, NEW d \in Conn, kernel[d] \in Seq(S), decoder[d] \in Seq(S),
         ReadUnknown(d)
  PROVE  \E rest \in Seq(S), m \in 1..Len(Pages(d)) :
           /\ kernel' = [kernel EXCEPT ![d] = rest]
           /\ decoder' = [decoder EXCEPT ![d] = <<>>]
           /\ current' = [current EXCEPT ![d] = Pages(d)[m]]
           /\ serialMap' = LookedUp(serialMap, {Pages(d)[i].serial : i \in 1..m})
           /\ \A i \in 1..m :
                Meaning(serialMap, Pages(d)[i].serial).client = NoClient
<1>1. PICK m \in Given(d) \ {0} :
        /\ \A i \in 1..m :
             Meaning(serialMap, Pages(d)[i].serial).client = NoClient
        /\ serialMap' = LookedUp(serialMap, {Pages(d)[i].serial : i \in 1..m})
        /\ kernel' = [kernel EXCEPT ![d] =
                         SubSeq(Pages(d), m + 1, Len(Pages(d)))]
        /\ decoder' = [decoder EXCEPT ![d] = <<>>]
        /\ current' = [current EXCEPT ![d] = Pages(d)[m]]
  BY DEF ReadUnknown
<1>2. /\ m \in 0..Len(Pages(d)) /\ m # 0
      /\ SubSeq(Pages(d), m + 1, Len(Pages(d))) \in Seq(S)
      /\ Pages(d) \in Seq(S)
  BY GivenCuts
<1>3. m \in 1..Len(Pages(d))
  BY <1>2
<1> QED
  BY <1>1, <1>2, <1>3

\* The pages it looks up are of nobody.
LEMMA UnknownLooksUp ==
  ASSUME PageInv, NEW d \in Conn, ReadUnknown(d)
  PROVE  \E m \in 1..Len(Pages(d)) :
           /\ serialMap' = LookedUp(serialMap, {Pages(d)[i].serial : i \in 1..m})
           /\ \A i \in 1..m :
                Meaning(serialMap, Pages(d)[i].serial).client = NoClient
<1>1. kernel[d] \in Seq(GoodPages) /\ decoder[d] \in Seq(GoodPages)
  BY DEF PageInv
<1>2. PICK m \in Given(d) \ {0} :
        /\ \A i \in 1..m :
             Meaning(serialMap, Pages(d)[i].serial).client = NoClient
        /\ serialMap' = LookedUp(serialMap, {Pages(d)[i].serial : i \in 1..m})
  BY DEF ReadUnknown
<1> DEFINE S == GoodPages
<1>3. kernel[d] \in Seq(S) /\ decoder[d] \in Seq(S)
  BY <1>1
<1> HIDE DEF S
<1>4. m \in 0..Len(Pages(d)) /\ m # 0
  BY <1>3, GivenCuts
<1>5. m \in 1..Len(Pages(d))
  BY <1>4
<1> QED
  BY <1>2, <1>5

\* What PeerSendsPage sends is good.
LEMMA SentIsGood ==
  ASSUME HeaderInv, NEW q \in Client, NEW d \in Conn, NEW k \in Stream,
         PeerSendsPage(q, d, k)
  PROVE  \E p \in GoodPages :
           /\ p.serial = told[q][k] /\ ~p.torn
           /\ kernel' = [kernel EXCEPT ![d] = Append(@, p)]
           /\ sent' = [sent EXCEPT ![q][k] = p.no]
<1> DEFINE no == sent[q][k] + 1
           p == [serial |-> told[q][k], no |-> no, body |-> Layout[k][no],
                 torn |-> FALSE]
<1>1. /\ kernel' = [kernel EXCEPT ![d] = Append(@, p)]
      /\ sent' = [sent EXCEPT ![q][k] = no]
      /\ q \in LoggedIn
      /\ sent[q][k] < Len(Layout[k])
  BY DEF PeerSendsPage
<1>2. Layout[k] \in Seq(Body) /\ Len(Layout[k]) \in Nat /\ sent[q][k] \in Nat
  BY DEF HeaderInv, PageInv
<1>3. no \in 1..Len(Layout[k])
  BY <1>1, <1>2
<1>4. Layout[k][no] \in Body
  BY <1>2, <1>3, ElementOfSeq
<1>5. told[q][k] \in 1..handedOut /\ handedOut \in Nat
  BY <1>1 DEF HeaderInv, SerialInv, ToldInv, LoggedIn, Stream
<1>6. p \in AnyPage
  BY <1>3, <1>4, <1>5 DEF AnyPage
<1>7. ASSUME NEW c \in Client, NEW j \in Stream, told[c][j] = p.serial
      PROVE  p.no \in 1..Len(Layout[j]) /\ p.body = Layout[j][p.no]
  <2>1. c = q /\ j = k
    BY <1>5, <1>7, ToldIsOnes DEF HeaderInv
  <2> QED
    BY <1>3, <2>1
<1>8. p \in GoodPages
  BY <1>5, <1>6, <1>7 DEF GoodPages
<1> QED
  BY <1>1, <1>8

\* A page sent joins good ones.
LEMMA SendStep ==
  ASSUME HeaderInv, NEW q \in Client, NEW d \in Conn, NEW k \in Stream,
         PeerSendsPage(q, d, k), GoodPages \subseteq GoodPages'
  PROVE  PageInv'
<1>1. PICK p \in GoodPages :
        /\ kernel' = [kernel EXCEPT ![d] = Append(@, p)]
        /\ sent' = [sent EXCEPT ![q][k] = p.no]
  BY SentIsGood
<1>2. /\ sent \in [Client -> [Stream -> Nat]]
      /\ kernel \in [Conn -> Seq(GoodPages)]
      /\ decoder \in [Conn -> Seq(GoodPages)]
  BY DEF HeaderInv, PageInv
<1>3. p.no \in Nat
  BY DEF GoodPages, AnyPage
<1>4. sent' \in [Client -> [Stream -> Nat]]
  BY <1>1, <1>2, <1>3
<1>5. kernel' \in [Conn -> Seq(GoodPages)]
  BY <1>1, <1>2
<1>6. decoder' = decoder
  BY DEF PeerSendsPage
<1> QED
  BY <1>2, <1>4, <1>5, <1>6, QueuesStayGood DEF PageInv

\* No step breaks PageInv.
LEMMA PageStep ==
  ASSUME HeaderInv, [Next]_vars, GoodPages \subseteq GoodPages'
  PROVE  PageInv'
<1> DEFINE Q == [Conn -> Seq(GoodPages)]
<1>1. /\ sent \in [Client -> [Stream -> Nat]]
      /\ kernel \in Q
      /\ decoder \in Q
  BY DEF HeaderInv, PageInv
<1>2. ASSUME sent' \in [Client -> [Stream -> Nat]], kernel' \in Q, decoder' \in Q
      PROVE  PageInv'
  BY <1>2, QueuesStayGood DEF PageInv
<1>3. CASE UNCHANGED <<sent, kernel, decoder>>
  BY <1>1, <1>2, <1>3
<1>4. ASSUME NEW q \in Client, TakeOut(q) PROVE PageInv'
  <2>1. /\ sent' = [sent EXCEPT ![q] = NotTold]
        /\ \E D : /\ kernel' = [d \in Conn |-> IF d \in D THEN <<>> ELSE kernel[d]]
                 /\ decoder' = [d \in Conn |-> IF d \in D THEN <<>> ELSE decoder[d]]
    BY <1>4 DEF TakeOut, Forget
  <2>2. <<>> \in Seq(GoodPages) /\ NotTold \in [Stream -> Nat]
    BY EmptySeq DEF NotTold
  <2> QED
    BY <1>1, <1>2, <2>1, <2>2
<1>5. ASSUME NEW q \in Client, NEW d \in Conn, NEW k \in Stream,
             PeerSendsPage(q, d, k)
      PROVE  PageInv'
  BY <1>5, SendStep
<1>6. ASSUME NEW d \in Conn, ReadUnknown(d) PROVE PageInv'
  <2>1. PICK rest \in Seq(GoodPages) :
          /\ kernel' = [kernel EXCEPT ![d] = rest]
          /\ decoder' = [decoder EXCEPT ![d] = <<>>]
    BY <1>1, <1>6, UnknownLeaves
  <2>2. <<>> \in Seq(GoodPages) /\ sent' = sent
    BY <1>6, EmptySeq DEF ReadUnknown
  <2> QED
    BY <1>1, <1>2, <2>1, <2>2
<1>7. ASSUME NEW d \in Conn, ReadPage(d) PROVE PageInv'
  <2>1. PICK i \in 1..Len(Pages(d)) : TakePage(d, i)
    BY <1>7 DEF ReadPage
  <2>2. PICK rest \in Seq(GoodPages), left \in Seq(GoodPages) :
          /\ kernel' = [kernel EXCEPT ![d] = rest]
          /\ decoder' = [decoder EXCEPT ![d] = left]
    BY <1>1, <2>1, TakeLeaves
  <2>3. kernel' \in Q /\ decoder' \in Q
    BY <1>1, <2>2
  <2>4. sent' = sent
    BY <1>7 DEF ReadPage
  <2> QED
    BY <1>1, <1>2, <2>3, <2>4
<1>8. CASE \/ \E q \in Client : Login(q)
           \/ \E q \in Client, ch \in Chan : Join(q, ch) \/ Part(q, ch)
           \/ \E q \in Client, d \in Conn : NewDataConnection(q, d)
           \/ \E d \in Conn : ReadPart(d)
           \/ \E q \in Client : SerialsFault(q)
           \/ UNCHANGED vars
  BY <1>3, <1>8
     DEF Login, Join, Part, NewDataConnection, ReadPart, SerialsFault, vars,
         pageVars
<1> QED
  BY <1>4, <1>5, <1>6, <1>7, <1>8 DEF Next, Clients, Reads, DeleteClient

\* The page a read takes is fed to the stream it is of.
LEMMA ReadFeedsRight ==
  ASSUME HeaderInv, NEW d \in Conn, NEW p \in GoodPages,
         p.serial \in DOMAIN serialMap, serialMap[p.serial].client \in Client
  PROVE  /\ serialMap[p.serial].stream \in Stream
         /\ p.no \in 1..Len(Layout[serialMap[p.serial].stream])
         /\ p.body = Layout[serialMap[p.serial].stream][p.no]
<1> DEFINE q == serialMap[p.serial].client
<1>1. p.serial \in SerialsOf(serialMap, q)
  BY DEF SerialsOf
<1>2. HasWhatItWasTold(q)
  BY DEF HeaderInv, SerialInv
<1>3. PICK k \in Stream :
        p.serial = told[q][k] /\ serialMap[told[q][k]] = Entry(q, k)
  BY <1>1, <1>2 DEF HasWhatItWasTold
<1>4. serialMap[p.serial].stream = k
  BY <1>3 DEF Entry
<1> QED
  BY <1>3, <1>4 DEF GoodPages

\* No step breaks StreamInv.
LEMMA StreamStep == ASSUME HeaderInv, [Next]_vars PROVE StreamInv'
<1>1. /\ stream \in [Client -> [Stream -> AnyStream]]
      /\ \A q \in Client, k \in Stream : stream[q][k] \in GoodStreams(k)
  BY DEF HeaderInv, StreamInv
<1>2. CASE UNCHANGED stream
  BY <1>1, <1>2 DEF StreamInv, GoodStreams
<1>3. ASSUME NEW q \in Client, TakeOut(q) PROVE StreamInv'
  <2>1. stream' = [stream EXCEPT ![q] = [k \in Stream |-> NewStream]]
    BY <1>3 DEF TakeOut
  <2>2. NewStream \in AnyStream
    BY DEF NewStream, AnyStream
  <2>3. stream' \in [Client -> [Stream -> AnyStream]]
    BY <1>1, <2>1, <2>2
  <2>4. ASSUME NEW c \in Client, NEW k \in Stream
        PROVE  stream'[c][k] \in GoodStreams(k)
    BY <1>1, <2>1, FreshIsGood
  <2> QED
    BY <2>3, <2>4 DEF StreamInv, GoodStreams
<1>4. ASSUME NEW d \in Conn, ReadPage(d), ~UNCHANGED stream PROVE StreamInv'
  <2>1. PICK i \in 1..Len(Pages(d)) :
          /\ FirstKnown(d, i)
          /\ LET e == serialMap[Pages(d)[i].serial] IN
             stream' = [stream EXCEPT ![e.client][e.stream] =
                          FeedPage(@, d, Pages(d)[i])]
    BY <1>4 DEF ReadPage, connVars
  <2> DEFINE p == Pages(d)[i]
             q == serialMap[p.serial].client
             k == serialMap[p.serial].stream
  <2>2. p \in GoodPages
    BY PagesAreGood DEF HeaderInv
  <2>3. p.serial \in DOMAIN serialMap
    BY <2>1 DEF FirstKnown, Meaning, NullEntry
  <2>4. q \in Client
    BY <1>1, <1>4, <2>1
  <2>5. /\ k \in Stream
        /\ p.no \in 1..Len(Layout[k])
        /\ p.body = Layout[k][p.no]
    BY <2>2, <2>3, <2>4, ReadFeedsRight
  <2>6. stream' = [stream EXCEPT ![q][k] = FeedPage(@, d, p)]
    BY <2>1
  <2>7. p \in AnyPage
    BY <2>2 DEF GoodPages
  <2> HIDE DEF p, q, k
  <2>8. FeedPage(stream[q][k], d, p) \in GoodStreams(k)
    BY <1>1, <2>4, <2>5, <2>7, FeedIsGood
  <2>9. FeedPage(stream[q][k], d, p) \in AnyStream
    BY <2>8 DEF GoodStreams
  <2>10. stream' \in [Client -> [Stream -> AnyStream]]
    BY <1>1, <2>4, <2>5, <2>6, <2>9
  <2>11. ASSUME NEW c \in Client, NEW j \in Stream
         PROVE  stream'[c][j] \in GoodStreams(j)
    <3>1. CASE c = q /\ j = k
      BY <1>1, <2>4, <2>5, <2>6, <2>8, <3>1
    <3>2. CASE c # q \/ j # k
      <4>1. stream'[c][j] = stream[c][j]
        BY <1>1, <2>4, <2>5, <2>6, <3>2
      <4> QED
        BY <1>1, <4>1
    <3> QED
      BY <3>1, <3>2
  <2> QED
    BY <2>10, <2>11 DEF StreamInv, GoodStreams
<1>5. CASE \/ \E q \in Client : Login(q)
           \/ \E q \in Client, ch \in Chan : Join(q, ch) \/ Part(q, ch)
           \/ \E q \in Client, d \in Conn : NewDataConnection(q, d)
           \/ \E q \in Client, d \in Conn, k \in Stream : PeerSendsPage(q, d, k)
           \/ \E d \in Conn : ReadPart(d) \/ ReadUnknown(d)
           \/ \E q \in Client : SerialsFault(q)
           \/ UNCHANGED vars
  BY <1>2, <1>5
     DEF Login, Join, Part, NewDataConnection, PeerSendsPage, ReadPart,
         ReadUnknown, SerialsFault, vars, pageVars
<1> QED
  BY <1>2, <1>3, <1>4, <1>5 DEF Next, Clients, Reads, DeleteClient

\* Nor HeaderInv.
LEMMA HeaderStep == HeaderInv /\ [Next]_vars => HeaderInv'
  BY SerialStep, ToldStep, PageStep, StreamStep DEF HeaderInv

\* It holds at first.
LEMMA InitHeader == Init => HeaderInv
<1> SUFFICES ASSUME Init PROVE HeaderInv
  OBVIOUS
<1>1. ToldInv
  BY DEF Init, ToldInv, NotTold
<1>2. PageInv
  BY EmptySeq DEF Init, PageInv, NotTold
<1>3. StreamInv
  BY FreshIsGood DEF Init, StreamInv, GoodStreams
<1> QED
  BY <1>1, <1>2, <1>3, InitSerial DEF HeaderInv

\* The header vector of a stream (OggStream.cpp:59) is the first pages of
\* the stream, all of them headers and none left out, whichever of the
\* client's connections they come on and whatever libogg makes of a page
\* of data, of a part of a packet, or of one behind a hole.
THEOREM HeadersAreTheFirstPages == Spec => []HeadersAreHeaders
<1>1. HeaderInv => HeadersAreHeaders
  BY DEF HeaderInv, StreamInv, GoodStreams, HeadersAreHeaders
<1> QED
  BY <1>1, InitHeader, HeaderStep, PTL DEF Spec
-----------------------------------------------------------------------------
(* Which pages wait where.                                                 *)

\* The serials that mean q.
Serials(q) == {told[q][k] : k \in Stream}

\* Pages that may be on connection d: if a client has opened d, its own, and
\* else pages of clients that have gone.
PagesOf(d) ==
  {p \in PageType :
     \A q \in Client : owner[d] = q <=> p.serial \in Serials(q)}

WholePages(d) == {p \in PagesOf(d) : ~p.torn}

MapOK ==
  /\ DOMAIN serialMap \subseteq 0..handedOut
  /\ \A s \in DOMAIN serialMap :
       serialMap[s] \in {NullEntry} \cup
         [client : Client \cup {Freed}, stream : Stream]

ClientsOK ==
  /\ on \in [Chan -> SUBSET LoggedIn]
  /\ closed \subseteq LoggedIn

\* A page has come on each connection a client holds.
ConnsOK ==
  /\ conn \in [Client -> Conn \cup {NoConn}]
  /\ owner \in [Conn -> LoggedIn \cup {NoClient}]
  /\ waiting \subseteq Conn
  /\ \A q \in Client : conn[q] # NoConn =>
       owner[conn[q]] = q /\ conn[q] \notin waiting /\ current[conn[q]] # NoPage

\* A connection that is not open holds nothing.
IdleOK ==
  \A d \in Conn \ Open :
    kernel[d] = <<>> /\ decoder[d] = <<>> /\ current[d] = NoPage

PagesOK ==
  /\ current \in [Conn -> AnyPage \cup {NoPage}]
  /\ \A d \in Conn :
       /\ kernel[d] \in Seq(WholePages(d))
       /\ decoder[d] \in Seq(WholePages(d))
       /\ current[d] \in PagesOf(d) \cup {NoPage}

\* A stream points to the last page of a connection of its client.
PointersOK ==
  \A q \in Client, k \in Stream :
    LET at == stream[q][k].at IN
    at # NoConn => at \in Conn /\ owner[at] = q /\ current[at] # NoPage

RelayInv == /\ HeaderInv /\ MapOK /\ ClientsOK /\ ConnsOK /\ IdleOK /\ PagesOK
            /\ PointersOK

USE ConnAssumption

\* What is read on a connection.
LEMMA ReadIsWhole ==
  ASSUME PagesOK, kernel \in [Conn -> Seq(GoodPages)],
         decoder \in [Conn -> Seq(GoodPages)], NEW d \in Conn
  PROVE  /\ Pages(d) \in Seq(WholePages(d))
         /\ \A i \in 1..Len(Pages(d)) : Pages(d)[i] \in WholePages(d)
<1>1. kernel[d] \in Seq(WholePages(d)) /\ decoder[d] \in Seq(WholePages(d))
  BY DEF PagesOK
<1>2. Pages(d) \in Seq(WholePages(d))
  BY <1>1 DEF Pages
<1> QED
  BY <1>2, ElementOfSeq

\* A page on a client's connection leads to that client.
LEMMA OwnersPage ==
  ASSUME RelayInv, NEW d \in Conn, NEW p \in PagesOf(d), owner[d] \in Client
  PROVE  \E k \in Stream : /\ p.serial = told[owner[d]][k]
                           /\ p.serial \in DOMAIN serialMap
                           /\ serialMap[p.serial] = Entry(owner[d], k)
<1>1. owner[d] \in LoggedIn
  BY DEF RelayInv, ConnsOK
<1>2. PICK k \in Stream : p.serial = told[owner[d]][k]
  BY DEF PagesOf, Serials
<1>3. /\ SerialsOf(serialMap, owner[d]) = {told[owner[d]][j] : j \in Stream}
      /\ \A j \in Stream : serialMap[told[owner[d]][j]] = Entry(owner[d], j)
  BY <1>1 DEF RelayInv, HeaderInv, SerialInv, HasWhatItWasTold, LoggedIn
<1>4. p.serial \in SerialsOf(serialMap, owner[d])
  BY <1>2, <1>3
<1>5. p.serial \in DOMAIN serialMap
  BY <1>4 DEF SerialsOf
<1> QED
  BY <1>2, <1>3, <1>5

\* A page that leads to a client is on a connection of that client.
LEMMA PagesOwner ==
  ASSUME RelayInv, NEW d \in Conn, NEW p \in PagesOf(d), NEW q \in Client,
         p.serial \in DOMAIN serialMap, serialMap[p.serial].client = q
  PROVE  owner[d] = q
<1>1. p.serial \in SerialsOf(serialMap, q)
  BY DEF SerialsOf
<1>2. HasWhatItWasTold(q)
  BY DEF RelayInv, HeaderInv, SerialInv
<1>3. p.serial \in Serials(q)
  BY <1>1, <1>2 DEF HasWhatItWasTold, Serials
<1> QED
  BY <1>3 DEF PagesOf

\* What ReadPage does to the page it takes, of whichever client.
TakesPage(d, i) ==
  /\ TakePage(d, i)
  /\ FirstKnown(d, i)
  /\ Pages(d)[i] \in WholePages(d)
  /\ UNCHANGED <<handedOut, told, sent, on, owner>>

\* The map after the lookups of the read.
MapAfter(d, i) == LookedUp(serialMap, {Pages(d)[j].serial : j \in 1..i})

\* The page is of a client that has gone, and so has who opened d.
TakesOrphan(d, i) ==
  /\ owner[d] = NoClient
  /\ d \in waiting
  /\ fault' = "freedClient"
  /\ serialMap' = MapAfter(d, i)
  /\ UNCHANGED <<conn, waiting, stream, closed>>
  /\ out' = Silence

\* The page is of stream k of the client q that has opened d.
TakesOwn(d, i, q, k) ==
  /\ owner[d] = q
  /\ Pages(d)[i].serial \in DOMAIN serialMap
  /\ serialMap[Pages(d)[i].serial] = Entry(q, k)
  /\ conn' = [conn EXCEPT ![q] = IF @ = NoConn THEN d ELSE @]
  /\ waiting' = waiting \ {d}
  /\ stream' = [stream EXCEPT ![q][k] = FeedPage(@, d, Pages(d)[i])]
  /\ ProcessClientData(q, d, MapAfter(d, i))

\* There is no third case.
LEMMA ReadTakes ==
  ASSUME RelayInv, NEW d \in Conn, ReadPage(d)
  PROVE  \E i \in 1..Len(Pages(d)) :
           /\ TakesPage(d, i)
           /\ \/ TakesOrphan(d, i)
              \/ \E q \in Client, k \in Stream : TakesOwn(d, i, q, k)
<1>1. PICK i \in 1..Len(Pages(d)) :
        /\ FirstKnown(d, i)
        /\ TakePage(d, i)
        /\ LET p == Pages(d)[i]
               e == serialMap[p.serial]
               q == e.client IN
           IF q = Freed
           THEN /\ fault' = "freedClient"
                /\ serialMap' = MapAfter(d, i)
                /\ NothingSent
                /\ UNCHANGED <<connVars, stream>>
           ELSE /\ conn' = [conn EXCEPT ![q] = IF @ = NoConn THEN d ELSE @]
                /\ waiting' = UnassignedWithout(d)
                /\ stream' = [stream EXCEPT ![q][e.stream] = FeedPage(@, d, p)]
                /\ ProcessClientData(q, d, MapAfter(d, i))
                /\ UNCHANGED owner
  BY DEF ReadPage, MapAfter
<1> DEFINE p == Pages(d)[i]
           m == MapAfter(d, i)
<1>2. UNCHANGED <<handedOut, told, sent, on>> /\ d \in Read
  BY DEF ReadPage
<1>3. p \in WholePages(d) /\ p \in PagesOf(d)
  BY ReadIsWhole DEF RelayInv, HeaderInv, PageInv, WholePages
<1>4. /\ p.serial \in DOMAIN serialMap
      /\ serialMap[p.serial].client # NoClient
  BY <1>1 DEF FirstKnown, Meaning, NullEntry
<1>5. serialMap[p.serial] \in [client : Client \cup {Freed}, stream : Stream]
  BY <1>4 DEF RelayInv, MapOK, NullEntry
<1>6. owner[d] \in Client \cup {NoClient}
  BY DEF RelayInv, ConnsOK, LoggedIn
<1>7. CASE serialMap[p.serial].client = Freed
  <2>1. /\ fault' = "freedClient"
        /\ serialMap' = m
        /\ UNCHANGED <<conn, waiting, owner, stream, closed>>
        /\ out' = Silence
    BY <1>1, <1>7 DEF NothingSent, connVars
  <2>2. owner[d] = NoClient
    <3>1. ASSUME owner[d] \in Client
          PROVE  serialMap[p.serial].client = owner[d]
      <4> HIDE DEF p, m
      <4>1. PICK k \in Stream : serialMap[p.serial] = Entry(owner[d], k)
        BY <1>3, <3>1, OwnersPage
      <4> QED
        BY <4>1 DEF Entry
    <3> QED
      BY <1>6, <1>7, <3>1
  <2>3. d \in waiting
    <3>1. ASSUME NEW q \in Client, d = conn[q], d # NoConn
          PROVE  FALSE
      BY <2>2, <3>1 DEF RelayInv, ConnsOK
    <3> QED
      BY <1>2, <3>1 DEF Read
  <2> HIDE DEF p, m
  <2>4. /\ TakePage(d, i) /\ FirstKnown(d, i)
    BY <1>1
  <2>5. UNCHANGED <<handedOut, told, sent, on, owner>>
    BY <1>2, <2>1
  <2> QED
    BY <1>3, <2>1, <2>2, <2>3, <2>4, <2>5 DEF p, m, TakesPage, TakesOrphan
<1>8. CASE serialMap[p.serial].client # Freed
  <2> DEFINE q == serialMap[p.serial].client
             k == serialMap[p.serial].stream
  <2>1. q \in Client /\ k \in Stream
    BY <1>5, <1>8
  <2>2. serialMap[p.serial] = Entry(q, k)
    BY <1>5 DEF Entry
  <2>3. owner[d] = q
    BY <1>3, <1>4, <2>1, PagesOwner
  <2>4. /\ conn' = [conn EXCEPT ![q] = IF @ = NoConn THEN d ELSE @]
        /\ waiting' = waiting \ {d}
        /\ stream' = [stream EXCEPT ![q][k] = FeedPage(@, d, p)]
        /\ ProcessClientData(q, d, m)
        /\ owner' = owner
    BY <1>1, <1>8 DEF UnassignedWithout
  <2>5. /\ TakePage(d, i) /\ FirstKnown(d, i)
    BY <1>1
  <2>6. UNCHANGED <<handedOut, told, sent, on, owner>>
    BY <1>2, <2>4
  <2> HIDE DEF p, m, q, k
  <2> QED
    BY <1>3, <1>4, <2>1, <2>2, <2>3, <2>4, <2>5, <2>6
       DEF p, m, TakesPage, TakesOwn
<1> QED
  BY <1>7, <1>8

\* A client that holds a connection keeps it; else it gets the one read.
LEMMA OwnConn ==
  ASSUME RelayInv, NEW d \in Conn, NEW i \in 1..Len(Pages(d)),
         NEW q \in Client, NEW k \in Stream,
         TakesPage(d, i), TakesOwn(d, i, q, k)
  PROVE  /\ conn' \in [Client -> Conn \cup {NoConn}]
         /\ \A r \in Client \ {q} : conn'[r] = conn[r]
         /\ conn'[q] \in Conn
         /\ owner[conn'[q]] = q
         /\ conn'[q] \notin waiting'
         /\ current'[conn'[q]] \in PagesOf(conn'[q])
         /\ conn'[q] = d => current'[conn'[q]] = Pages(d)[i]
<1>1. /\ conn' = [conn EXCEPT ![q] = IF @ = NoConn THEN d ELSE @]
      /\ waiting' = waiting \ {d}
      /\ owner[d] = q
  BY DEF TakesOwn
<1>2. /\ conn \in [Client -> Conn \cup {NoConn}]
      /\ conn[q] # NoConn => /\ owner[conn[q]] = q /\ conn[q] \notin waiting
                             /\ current[conn[q]] # NoPage
  BY DEF RelayInv, ConnsOK
<1>3. conn'[q] = IF conn[q] = NoConn THEN d ELSE conn[q]
  BY <1>1, <1>2
<1>4. /\ conn' \in [Client -> Conn \cup {NoConn}]
      /\ \A r \in Client \ {q} : conn'[r] = conn[r]
      /\ conn'[q] \in Conn
      /\ owner[conn'[q]] = q
      /\ conn'[q] \notin waiting'
  BY <1>1, <1>2, <1>3
<1>5. current' = [current EXCEPT ![d] = Pages(d)[i]]
  BY DEF TakesPage, TakePage
<1>6. Pages(d)[i] \in PagesOf(d)
  BY DEF TakesPage, WholePages
<1>7. current \in [Conn -> AnyPage \cup {NoPage}]
  BY DEF RelayInv, PagesOK
<1>8. CASE conn'[q] = d
  BY <1>4, <1>5, <1>6, <1>7, <1>8
<1>9. CASE conn'[q] # d
  <2>1. conn'[q] = conn[q] /\ conn[q] \in Conn /\ current[conn[q]] # NoPage
    BY <1>2, <1>3, <1>4, <1>9
  <2>2. current'[conn[q]] = current[conn[q]]
    BY <1>5, <1>7, <1>9, <2>1
  <2>3. current[conn[q]] \in PagesOf(conn[q])
    BY <2>1 DEF RelayInv, PagesOK
  <2> QED
    BY <1>4, <1>9, <2>1, <2>2, <2>3
<1> QED
  BY <1>8, <1>9

\* The serials by which ProcessClientData may look a stream up.
LEMMA SerialsReadKnown ==
  ASSUME RelayInv, NEW d \in Conn, NEW i \in 1..Len(Pages(d)),
         NEW q \in Client, NEW k \in Stream,
         TakesPage(d, i), TakesOwn(d, i, q, k)
  PROVE  CurrentPageSerials(q, d) \subseteq 0..handedOut
<1>1. current'[conn'[q]] \in PagesOf(conn'[q])
  BY OwnConn
<1>2. current'[conn'[q]].serial \in 0..handedOut
  BY <1>1 DEF PagesOf, PageType, RelayInv, HeaderInv, SerialInv
<1>3. \A j \in Stream : told[q][j] \in 0..handedOut
  BY DEF RelayInv, HeaderInv, SerialInv, ToldInv
<1>4. told' = told
  BY DEF TakesPage
<1>5. Garbage \in 0..handedOut
  BY DEF RelayInv, HeaderInv, SerialInv, Garbage
<1> QED
  BY <1>2, <1>3, <1>4, <1>5 DEF CurrentPageSerials, SerialsRead

\* The serials of what is read were handed out.
LEMMA PageSerials ==
  ASSUME RelayInv, NEW d \in Conn, NEW i \in 1..Len(Pages(d))
  PROVE  Pages(d)[i].serial \in 0..handedOut
<1>1. Pages(d)[i] \in PageType
  BY ReadIsWhole DEF RelayInv, HeaderInv, PageInv, WholePages, PagesOf
<1> QED
  BY <1>1 DEF PageType, RelayInv, HeaderInv, SerialInv

-----------------------------------------------------------------------------
(* One lemma for each part of the invariant.                               *)

\* Lookups of serials that were handed out keep the map well typed.
LEMMA LookupTyped ==
  ASSUME MapOK, NEW S \in SUBSET (0..handedOut),
         serialMap' = LookedUp(serialMap, S), handedOut' = handedOut
  PROVE  MapOK'
<1>1. /\ DOMAIN serialMap' = DOMAIN serialMap \cup S
      /\ \A s \in DOMAIN serialMap' :
           serialMap'[s] = IF s \in DOMAIN serialMap THEN serialMap[s]
                                                     ELSE NullEntry
  BY DEF LookedUp
<1> QED
  BY <1>1 DEF MapOK

\* The map's keys were handed out, or are Garbage.
LEMMA MapStep == ASSUME RelayInv, [Next]_vars PROVE MapOK'
<1>1. MapOK /\ handedOut \in Nat
  BY DEF RelayInv, HeaderInv, SerialInv
<1>2. CASE UNCHANGED serialVars
  BY <1>1, <1>2 DEF MapOK, serialVars
<1>3. ASSUME NEW q \in Client, Login(q)
      PROVE  MapOK'
  <2>1. PICK v \in NewSerials(serialMap, handedOut) :
          LET m == SetEntry(serialMap, v, q, "video")
              n == IF v > handedOut THEN v ELSE handedOut
          IN  \E a \in NewSerials(m, n) :
                /\ serialMap' = SetEntry(m, a, q, "audio")
                /\ handedOut' = IF a > n THEN a ELSE n
    BY <1>3 DEF Login
  <2> DEFINE m == SetEntry(serialMap, v, q, "video")
             n == IF v > handedOut THEN v ELSE handedOut
  <2>2. v = handedOut + 1
    BY <2>1 DEF NewSerials, Rand
  <2>3. n = v
    BY <1>1, <2>2
  <2>4. PICK a \in NewSerials(m, v) :
          /\ serialMap' = SetEntry(m, a, q, "audio")
          /\ handedOut' = IF a > v THEN a ELSE v
    BY <2>1, <2>3
  <2>5. DOMAIN m = DOMAIN serialMap \cup {v}
    BY DEF SetEntry
  <2>6. \A s \in DOMAIN m : m[s] = IF s = v THEN Entry(q, "video")
                                            ELSE serialMap[s]
    BY DEF SetEntry
  <2> HIDE DEF m, n
  <2>7. a = v + 1
    BY <2>4 DEF NewSerials, Rand
  <2>8. handedOut' = handedOut + 2
    BY <1>1, <2>2, <2>4, <2>7
  <2>9. /\ DOMAIN serialMap' = DOMAIN serialMap \cup {v, a}
        /\ \A s \in DOMAIN serialMap' :
             \/ serialMap'[s] \in {Entry(q, "audio"), Entry(q, "video")}
             \/ /\ s \in DOMAIN serialMap
                /\ serialMap'[s] = serialMap[s]
    <3>1. /\ DOMAIN serialMap' = DOMAIN m \cup {a}
          /\ \A s \in DOMAIN serialMap' :
               serialMap'[s] = IF s = a THEN Entry(q, "audio") ELSE m[s]
      BY <2>4 DEF SetEntry
    <3> QED
      BY <2>5, <2>6, <3>1
  <2>10. /\ Entry(q, "audio") \in [client : Client \cup {Freed}, stream : Stream]
         /\ Entry(q, "video") \in [client : Client \cup {Freed}, stream : Stream]
    BY DEF Entry, Stream
  <2>11. DOMAIN serialMap' \subseteq 0..handedOut'
    BY <1>1, <2>2, <2>7, <2>8, <2>9 DEF MapOK
  <2> QED
    BY <1>1, <2>9, <2>10, <2>11 DEF MapOK
<1>4. ASSUME NEW q \in Client, TakeOut(q)
      PROVE  MapOK'
  <2>1. PICK G \in SUBSET SerialsOf(serialMap, q) :
          serialMap' = Without(serialMap, q, G)
    BY <1>4 DEF TakeOut, DeleteClientSerials
  <2>2. handedOut' = handedOut
    BY <1>4 DEF TakeOut
  <2>3. /\ DOMAIN serialMap' = DOMAIN serialMap \ G
        /\ \A s \in DOMAIN serialMap' :
             serialMap'[s] = IF serialMap[s].client = q
                             THEN Entry(Freed, serialMap[s].stream)
                             ELSE serialMap[s]
    BY <2>1 DEF Without
  <2>4. ASSUME NEW s \in DOMAIN serialMap'
        PROVE  serialMap'[s] \in {NullEntry} \cup
                 [client : Client \cup {Freed}, stream : Stream]
    <3>1. serialMap[s] \in {NullEntry} \cup
            [client : Client \cup {Freed}, stream : Stream]
      BY <1>1, <2>3 DEF MapOK
    <3>2. CASE serialMap[s].client = q
      <4>1. serialMap[s] \in [client : Client \cup {Freed}, stream : Stream]
        BY <3>1, <3>2 DEF NullEntry
      <4>2. serialMap[s].stream \in Stream
        BY <4>1
      <4> QED
        BY <2>3, <3>2, <4>2 DEF Entry
    <3>3. CASE serialMap[s].client # q
      BY <2>3, <3>1, <3>3
    <3> QED
      BY <3>2, <3>3
  <2> QED
    BY <1>1, <2>2, <2>3, <2>4 DEF MapOK
<1>5. ASSUME NEW d \in Conn, ReadUnknown(d)
      PROVE  MapOK'
  <2>0. PICK m \in 1..Len(Pages(d)) :
          serialMap' = LookedUp(serialMap, {Pages(d)[i].serial : i \in 1..m})
    <3>1. PageInv
      BY DEF RelayInv, HeaderInv
    <3>2. \E m \in 1..Len(Pages(d)) :
            /\ serialMap' =
                 LookedUp(serialMap, {Pages(d)[i].serial : i \in 1..m})
            /\ \A i \in 1..m :
                 Meaning(serialMap, Pages(d)[i].serial).client = NoClient
      BY <1>5, <3>1, UnknownLooksUp, Zenon
    <3> QED
      BY <3>2, Zenon
  <2> DEFINE S == {Pages(d)[i].serial : i \in 1..m}
  <2>1. serialMap' = LookedUp(serialMap, S) /\ handedOut' = handedOut
    BY <1>5, <2>0 DEF ReadUnknown
  <2>2. S \subseteq 0..handedOut
    <3>1. Len(Pages(d)) \in Nat
      BY ReadIsWhole DEF RelayInv, HeaderInv, PageInv
    <3>2. 1..m \subseteq 1..Len(Pages(d))
      BY <3>1
    <3> QED
      BY <3>2, PageSerials
  <2> HIDE DEF S
  <2> QED
    BY <1>1, <2>1, <2>2, LookupTyped
<1>6. ASSUME NEW d \in Conn, ReadPage(d)
      PROVE  MapOK'
  <2>1. PICK i \in 1..Len(Pages(d)) :
          /\ TakesPage(d, i)
          /\ \/ TakesOrphan(d, i)
             \/ \E q \in Client, k \in Stream : TakesOwn(d, i, q, k)
    BY <1>6, ReadTakes
  <2> DEFINE S == {Pages(d)[j].serial : j \in 1..i}
  <2>2. S \subseteq 0..handedOut
    <3>1. Len(Pages(d)) \in Nat
      BY ReadIsWhole DEF RelayInv, HeaderInv, PageInv
    <3>2. 1..i \subseteq 1..Len(Pages(d))
      BY <3>1
    <3> QED
      BY <3>2, PageSerials
  <2>3. MapAfter(d, i) = LookedUp(serialMap, S)
    BY DEF MapAfter
  <2> HIDE DEF S
  <2>4. handedOut' = handedOut
    BY <2>1 DEF TakesPage
  <2>5. CASE TakesOrphan(d, i)
    BY <1>1, <2>2, <2>3, <2>4, <2>5, LookupTyped DEF TakesOrphan
  <2>6. ASSUME NEW q \in Client, NEW k \in Stream, TakesOwn(d, i, q, k)
        PROVE  MapOK'
    <3>1. PICK s \in CurrentPageSerials(q, d) :
            serialMap' = LookedUp(LookedUp(serialMap, S), {s})
      BY <2>3, <2>6 DEF TakesOwn, ProcessClientData
    <3>2. s \in 0..handedOut
      BY <2>1, <2>6, <3>1, SerialsReadKnown
    <3>3. serialMap' = LookedUp(serialMap, S \cup {s})
      BY <3>1, LookupTwice
    <3> QED
      BY <1>1, <2>2, <2>4, <3>2, <3>3, LookupTyped
  <2> QED
    BY <2>1, <2>5, <2>6
<1>7. CASE \/ \E q \in Client, ch \in Chan : Join(q, ch) \/ Part(q, ch)
           \/ \E q \in Client, d \in Conn : NewDataConnection(q, d)
           \/ \E q \in Client, d \in Conn, k \in Stream : PeerSendsPage(q, d, k)
           \/ \E d \in Conn : ReadPart(d)
           \/ \E q \in Client : SerialsFault(q)
           \/ UNCHANGED vars
  BY <1>2, <1>7
     DEF Join, Part, NewDataConnection, PeerSendsPage, ReadPart, SerialsFault,
         vars, serialVars
<1> QED
  BY <1>3, <1>4, <1>5, <1>6, <1>7 DEF Next, Clients, Reads, DeleteClient

\* Who is logged in after a step.
LEMMA LoggedInAfter ==
  ASSUME RelayInv, [Next]_vars
  PROVE  /\ told' = told => LoggedIn' = LoggedIn
         /\ \A q \in Client : Login(q) => LoggedIn' = LoggedIn \cup {q}
         /\ \A q \in Client : TakeOut(q) => LoggedIn' = LoggedIn \ {q}
         /\ \A q \in Client : ~TakeOut(q) /\ q \in LoggedIn => q \in LoggedIn'
<1>1. handedOut \in Nat /\ told \in [Client -> [Stream -> Nat]]
  BY DEF RelayInv, HeaderInv, SerialInv
<1>2. told' = told => LoggedIn' = LoggedIn
  BY DEF LoggedIn
<1>3. ASSUME NEW q \in Client, Login(q)
      PROVE  LoggedIn' = LoggedIn \cup {q}
  <2>1. told' = [told EXCEPT ![q] = [video |-> handedOut + 1,
                                    audio |-> handedOut + 2]]
    BY <1>1, <1>3, LoginHandsOut
  <2>2. told'[q]["video"] # 0
    BY <1>1, <2>1
  <2>3. \A c \in Client \ {q} : told'[c] = told[c]
    BY <1>1, <2>1
  <2> QED
    BY <2>2, <2>3 DEF LoggedIn
<1>4. ASSUME NEW q \in Client, TakeOut(q)
      PROVE  LoggedIn' = LoggedIn \ {q}
  <2>1. told' = [told EXCEPT ![q] = NotTold]
    BY <1>4 DEF TakeOut
  <2>2. told'[q]["video"] = 0
    BY <1>1, <2>1 DEF NotTold, Stream
  <2>3. \A c \in Client \ {q} : told'[c] = told[c]
    BY <1>1, <2>1
  <2> QED
    BY <2>2, <2>3 DEF LoggedIn
<1>5. told' = told \/ \E q \in Client : Login(q) \/ TakeOut(q)
  <2>1. ASSUME NEW d \in Conn, ReadPart(d) \/ ReadUnknown(d) \/ ReadPage(d)
        PROVE  told' = told
    BY <2>1 DEF ReadPart, ReadUnknown, ReadPage, serialVars
  <2> QED
    BY <2>1 DEF Next, Clients, Reads, Join, Part, NewDataConnection,
                PeerSendsPage, DeleteClient, SerialsFault, vars, serialVars
<1> QED
  BY <1>2, <1>3, <1>4, <1>5

\* Members of channels and clients with a failed send are logged in.
LEMMA ClientsStep == ASSUME RelayInv, [Next]_vars PROVE ClientsOK'
<1>1. on \in [Chan -> SUBSET LoggedIn] /\ closed \subseteq LoggedIn
  BY DEF RelayInv, ClientsOK
<1>2. ASSUME UNCHANGED <<told, on, closed>>
      PROVE  ClientsOK'
  BY <1>1, <1>2, LoggedInAfter DEF ClientsOK
<1>3. ASSUME NEW q \in Client, Login(q)
      PROVE  ClientsOK'
  <2>1. LoggedIn' = LoggedIn \cup {q} /\ UNCHANGED <<on, closed>>
    BY <1>3, LoggedInAfter DEF Login
  <2> QED
    BY <1>1, <2>1 DEF ClientsOK
<1>4. ASSUME NEW q \in Client, TakeOut(q)
      PROVE  ClientsOK'
  <2>1. /\ LoggedIn' = LoggedIn \ {q}
        /\ on' = [ch \in Chan |-> on[ch] \ {q}]
        /\ closed' = closed \ {q}
    BY <1>4, LoggedInAfter DEF TakeOut
  <2> QED
    BY <1>1, <2>1 DEF ClientsOK
<1>5. ASSUME NEW q \in Client, NEW ch \in Chan, Join(q, ch) \/ Part(q, ch)
      PROVE  ClientsOK'
  <2>1. LoggedIn' = LoggedIn /\ closed' = closed
    BY <1>5, LoggedInAfter DEF Join, Part, serialVars
  <2>2. on' \in [Chan -> SUBSET LoggedIn]
    BY <1>1, <1>5 DEF Join, Part
  <2> QED
    BY <1>1, <2>1, <2>2 DEF ClientsOK
<1>6. ASSUME NEW d \in Conn, ReadPage(d)
      PROVE  ClientsOK'
  <2>1. LoggedIn' = LoggedIn /\ on' = on
    BY <1>6, LoggedInAfter DEF ReadPage
  <2>2. PICK i \in 1..Len(Pages(d)) :
          \/ TakesOrphan(d, i)
          \/ \E q \in Client, k \in Stream : TakesOwn(d, i, q, k)
    BY <1>6, ReadTakes
  <2>3. CASE TakesOrphan(d, i)
    BY <1>1, <2>1, <2>3 DEF TakesOrphan, ClientsOK
  <2>4. ASSUME NEW q \in Client, NEW k \in Stream, TakesOwn(d, i, q, k)
        PROVE  ClientsOK'
    <3>1. closed' = closed \/ \E p : Broadcast(q, p)
      BY <2>4 DEF TakesOwn, ProcessClientData, NothingSent
    <3>2. \A r \in Client : Common(q, r) # {} => r \in LoggedIn
      BY <1>1 DEF Common, Others
    <3>3. closed' \subseteq LoggedIn
      BY <1>1, <3>1, <3>2 DEF Broadcast
    <3> QED
      BY <1>1, <2>1, <3>3 DEF ClientsOK
  <2> QED
    BY <2>2, <2>3, <2>4
<1>7. CASE \/ \E q \in Client, d \in Conn : NewDataConnection(q, d)
           \/ \E q \in Client, d \in Conn, k \in Stream : PeerSendsPage(q, d, k)
           \/ \E d \in Conn : ReadPart(d) \/ ReadUnknown(d)
           \/ \E q \in Client : SerialsFault(q)
           \/ UNCHANGED vars
  <2>5. CASE \E q \in Client : SerialsFault(q)
    BY <1>2, <2>5 DEF SerialsFault, serialVars
  <2>1. CASE \E q \in Client, d \in Conn : NewDataConnection(q, d)
    BY <1>2, <2>1 DEF NewDataConnection, serialVars
  <2>2. CASE \E q \in Client, d \in Conn, k \in Stream : PeerSendsPage(q, d, k)
    BY <1>2, <2>2 DEF PeerSendsPage, serialVars
  <2>3. CASE \E d \in Conn : ReadPart(d) \/ ReadUnknown(d)
    BY <1>2, <2>3 DEF ReadPart, ReadUnknown, serialVars
  <2>4. CASE UNCHANGED vars
    BY <1>2, <2>4 DEF vars, serialVars
  <2> QED
    BY <1>7, <2>1, <2>2, <2>3, <2>4, <2>5
<1> QED
  BY <1>3, <1>4, <1>5, <1>6, <1>7 DEF Next, Clients, Reads, DeleteClient

\* A connection that is read is open.
LEMMA ReadIsOpen ==
  ASSUME RelayInv, NEW d \in Read
  PROVE  d \in waiting \/ owner[d] \in Client
BY DEF Read, RelayInv, ConnsOK

\* What connections hold changes in six ways.
LEMMA CurrentAfter ==
  ASSUME RelayInv, [Next]_vars
  PROVE  \/ UNCHANGED <<kernel, decoder, current>>
         \/ \E q \in Client : TakeOut(q)
         \/ \E q \in Client, d \in Conn, k \in Stream : PeerSendsPage(q, d, k)
         \/ \E d \in Read \cap Conn :
              /\ UNCHANGED <<handedOut, told, owner>>
              /\ \A c \in Conn \ {d} :
                   /\ kernel'[c] = kernel[c]
                   /\ decoder'[c] = decoder[c]
                   /\ current'[c] = current[c]
              /\ kernel'[d] \in Seq(WholePages(d))
              /\ decoder'[d] \in Seq(WholePages(d))
              /\ current'[d] \in PagesOf(d)
              /\ current' \in [Conn -> AnyPage \cup {NoPage}]
<1>0. \A d \in Conn : /\ kernel[d] \in Seq(WholePages(d))
                       /\ decoder[d] \in Seq(WholePages(d))
  BY DEF RelayInv, PagesOK
<1>1. /\ current \in [Conn -> AnyPage \cup {NoPage}]
      /\ kernel \in [Conn -> Seq(GoodPages)]
      /\ decoder \in [Conn -> Seq(GoodPages)]
      /\ handedOut \in Nat
  BY DEF RelayInv, PagesOK, HeaderInv, PageInv, SerialInv
<1>2. ASSUME NEW d \in Conn, ReadPart(d)
      PROVE  /\ UNCHANGED <<handedOut, told, owner, kernel, decoder>>
             /\ \A c \in Conn \ {d} : current'[c] = current[c]
             /\ current'[d] \in PagesOf(d)
             /\ current' \in [Conn -> AnyPage \cup {NoPage}]
  <2>1. /\ UNCHANGED <<handedOut, told, owner, kernel, decoder>>
        /\ current' = [current EXCEPT ![d].torn = TRUE]
        /\ current[d] # NoPage
    BY <1>2 DEF ReadPart, serialVars, connVars
  <2>2. current[d] \in PagesOf(d) /\ current[d] \in AnyPage
    BY <1>1, <2>1 DEF RelayInv, PagesOK
  <2>3. current'[d] = [current[d] EXCEPT !.torn = TRUE]
    BY <1>1, <2>1
  <2>4. current'[d] \in AnyPage /\ current'[d].serial = current[d].serial
    BY <2>2, <2>3 DEF AnyPage
  <2>5. current'[d] \in PageType
    BY <2>2, <2>4 DEF PagesOf, PageType, AnyPage
  <2>6. current'[d] \in PagesOf(d)
    BY <2>2, <2>4, <2>5 DEF PagesOf
  <2>7. \A c \in Conn \ {d} : current'[c] = current[c]
    BY <1>1, <2>1
  <2>8. current' \in [Conn -> AnyPage \cup {NoPage}]
    BY <1>1, <2>1, <2>3, <2>4
  <2> QED
    BY <2>1, <2>6, <2>7, <2>8
<1>3. ASSUME NEW d \in Conn, NEW i \in 1..Len(Pages(d)),
             NEW s, s \in Seq(WholePages(d)),
             NEW rest, rest \in Seq(WholePages(d)),
             kernel' = [kernel EXCEPT ![d] = rest],
             decoder' = [decoder EXCEPT ![d] = s],
             current' = [current EXCEPT ![d] = Pages(d)[i]]
      PROVE  /\ \A c \in Conn \ {d} : /\ kernel'[c] = kernel[c]
                                       /\ decoder'[c] = decoder[c]
                                       /\ current'[c] = current[c]
             /\ kernel'[d] \in Seq(WholePages(d))
             /\ decoder'[d] \in Seq(WholePages(d))
             /\ current'[d] \in PagesOf(d)
             /\ current' \in [Conn -> AnyPage \cup {NoPage}]
  <2>1. Pages(d)[i] \in PagesOf(d)
    BY ReadIsWhole DEF RelayInv, HeaderInv, PageInv, WholePages
  <2>2. Pages(d)[i] \in AnyPage
    BY <1>1, <2>1 DEF PagesOf, PageType, AnyPage
  <2>3. \A c \in Conn \ {d} : /\ kernel'[c] = kernel[c]
                              /\ decoder'[c] = decoder[c]
                              /\ current'[c] = current[c]
    BY <1>1, <1>3
  <2>4. kernel'[d] = rest /\ decoder'[d] = s /\ current'[d] = Pages(d)[i]
    BY <1>1, <1>3
  <2>5. current' \in [Conn -> AnyPage \cup {NoPage}]
    BY <1>1, <1>3, <2>2
  <2> QED
    BY <1>3, <2>1, <2>3, <2>4, <2>5
<1>4. ASSUME NEW d \in Conn, ReadUnknown(d)
      PROVE  \E i \in 1..Len(Pages(d)), rest \in Seq(WholePages(d)) :
               /\ UNCHANGED <<handedOut, told, owner>>
               /\ kernel' = [kernel EXCEPT ![d] = rest]
               /\ decoder' = [decoder EXCEPT ![d] = <<>>]
               /\ current' = [current EXCEPT ![d] = Pages(d)[i]]
  <2>1. PICK rest \in Seq(WholePages(d)), i \in 1..Len(Pages(d)) :
          /\ kernel' = [kernel EXCEPT ![d] = rest]
          /\ decoder' = [decoder EXCEPT ![d] = <<>>]
          /\ current' = [current EXCEPT ![d] = Pages(d)[i]]
    <3>1. kernel[d] \in Seq(WholePages(d)) /\ decoder[d] \in Seq(WholePages(d))
      BY <1>0
    <3> DEFINE S == WholePages(d)
    <3>2. kernel[d] \in Seq(S) /\ decoder[d] \in Seq(S)
      BY <3>1
    <3> HIDE DEF S
    <3>3. \E rest \in Seq(S), m \in 1..Len(Pages(d)) :
            /\ kernel' = [kernel EXCEPT ![d] = rest]
            /\ decoder' = [decoder EXCEPT ![d] = <<>>]
            /\ current' = [current EXCEPT ![d] = Pages(d)[m]]
            /\ serialMap' =
                 LookedUp(serialMap, {Pages(d)[i].serial : i \in 1..m})
            /\ \A i \in 1..m :
                 Meaning(serialMap, Pages(d)[i].serial).client = NoClient
      BY <1>4, <3>2, UnknownLeaves, Zenon
    <3>4. PICK rest \in Seq(S), m \in 1..Len(Pages(d)) :
            /\ kernel' = [kernel EXCEPT ![d] = rest]
            /\ decoder' = [decoder EXCEPT ![d] = <<>>]
            /\ current' = [current EXCEPT ![d] = Pages(d)[m]]
      BY <3>3, Zenon
    <3> QED
      BY <3>4 DEF S
  <2>2. UNCHANGED <<handedOut, told, owner>>
    BY <1>4 DEF ReadUnknown, connVars
  <2> QED
    BY <2>1, <2>2
<1>5. ASSUME NEW d \in Conn, ReadPage(d)
      PROVE  \E i \in 1..Len(Pages(d)), s \in Seq(WholePages(d)),
                 rest \in Seq(WholePages(d)) :
               /\ UNCHANGED <<handedOut, told, owner>>
               /\ kernel' = [kernel EXCEPT ![d] = rest]
               /\ decoder' = [decoder EXCEPT ![d] = s]
               /\ current' = [current EXCEPT ![d] = Pages(d)[i]]
  <2>1. PICK i \in 1..Len(Pages(d)) : TakesPage(d, i)
    BY <1>5, ReadTakes
  <2>2. TakePage(d, i)
    BY <2>1 DEF TakesPage
  <2>3. PICK rest \in Seq(WholePages(d)), s \in Seq(WholePages(d)) :
          /\ kernel' = [kernel EXCEPT ![d] = rest]
          /\ decoder' = [decoder EXCEPT ![d] = s]
    <3>1. kernel[d] \in Seq(WholePages(d)) /\ decoder[d] \in Seq(WholePages(d))
      BY <1>0
    <3> DEFINE S == WholePages(d)
    <3>2. kernel[d] \in Seq(S) /\ decoder[d] \in Seq(S)
      BY <3>1
    <3> HIDE DEF S
    <3>3. \E rest \in Seq(S), s \in Seq(S) :
            /\ kernel' = [kernel EXCEPT ![d] = rest]
            /\ decoder' = [decoder EXCEPT ![d] = s]
      BY <2>2, <3>2, TakeLeaves
    <3> QED
      BY <3>3 DEF S
  <2>4. /\ UNCHANGED <<handedOut, told, owner>>
        /\ current' = [current EXCEPT ![d] = Pages(d)[i]]
    BY <2>1, <2>2 DEF TakesPage, TakePage
  <2> QED
    BY <2>3, <2>4
<1>6. \A d \in Conn : ReadPart(d) \/ ReadUnknown(d) \/ ReadPage(d) => d \in Read
  BY DEF ReadPart, ReadUnknown, ReadPage
<1>7. \A S : <<>> \in Seq(S)
  BY EmptySeq
<1>8. CASE Reads
  <2>1. PICK d \in Conn : ReadPart(d) \/ ReadUnknown(d) \/ ReadPage(d)
    BY <1>8 DEF Reads
  <2>2. d \in Read \cap Conn
    BY <1>6, <2>1
  <2>3. CASE ReadPart(d)
    <3>1. /\ UNCHANGED <<handedOut, told, owner, kernel, decoder>>
          /\ \A c \in Conn \ {d} : current'[c] = current[c]
          /\ current'[d] \in PagesOf(d)
          /\ current' \in [Conn -> AnyPage \cup {NoPage}]
      BY <1>2, <2>3
    <3> QED
      BY <1>0, <2>2, <3>1
  <2>4. CASE ReadUnknown(d)
    <3>1. PICK i \in 1..Len(Pages(d)), rest \in Seq(WholePages(d)) :
            /\ UNCHANGED <<handedOut, told, owner>>
            /\ kernel' = [kernel EXCEPT ![d] = rest]
            /\ decoder' = [decoder EXCEPT ![d] = <<>>]
            /\ current' = [current EXCEPT ![d] = Pages(d)[i]]
      BY <1>4, <2>4
    <3> QED
      BY <1>3, <1>7, <2>2, <3>1
  <2>5. CASE ReadPage(d)
    <3>1. PICK i \in 1..Len(Pages(d)), s \in Seq(WholePages(d)),
               rest \in Seq(WholePages(d)) :
            /\ UNCHANGED <<handedOut, told, owner>>
            /\ kernel' = [kernel EXCEPT ![d] = rest]
            /\ decoder' = [decoder EXCEPT ![d] = s]
            /\ current' = [current EXCEPT ![d] = Pages(d)[i]]
      BY <1>5, <2>5
    <3> QED
      BY <1>3, <2>2, <3>1
  <2> QED
    BY <2>1, <2>3, <2>4, <2>5
<1>9. CASE \/ \E q \in Client : Login(q)
           \/ \E q \in Client, ch \in Chan : Join(q, ch) \/ Part(q, ch)
           \/ \E q \in Client, d \in Conn : NewDataConnection(q, d)
           \/ \E q \in Client : SerialsFault(q)
           \/ UNCHANGED vars
  BY <1>9 DEF Login, Join, Part, NewDataConnection, SerialsFault, vars, pageVars
<1> QED
  BY <1>8, <1>9 DEF Next, Clients, DeleteClient

\* Who has opened a connection.
LEMMA OwnerAfter ==
  ASSUME RelayInv, [Next]_vars
  PROVE  \/ owner' = owner
         \/ \E q \in Client :
              /\ TakeOut(q)
              /\ owner' = [d \in Conn |-> IF owner[d] = q THEN NoClient
                                                          ELSE owner[d]]
         \/ \E q \in Client, d \in Conn :
              /\ NewDataConnection(q, d)
              /\ owner' = [owner EXCEPT ![d] = q]
<1>1. ASSUME NEW q \in Client, TakeOut(q)
      PROVE  owner' = [d \in Conn |-> IF owner[d] = q THEN NoClient
                                                      ELSE owner[d]]
  BY <1>1 DEF TakeOut, Forget
<1>2. ASSUME NEW q \in Client, NEW d \in Conn, NewDataConnection(q, d)
      PROVE  owner' = [owner EXCEPT ![d] = q]
  BY <1>2 DEF NewDataConnection
<1>3. ASSUME NEW d \in Conn, ReadPart(d) \/ ReadUnknown(d) \/ ReadPage(d)
      PROVE  owner' = owner
  <2>1. CASE ReadPart(d) \/ ReadUnknown(d)
    BY <2>1 DEF ReadPart, ReadUnknown, connVars
  <2>2. CASE ReadPage(d)
    <3>1. PICK i \in 1..Len(Pages(d)) : TakesPage(d, i)
      BY <2>2, ReadTakes
    <3> QED
      BY <3>1 DEF TakesPage
  <2> QED
    BY <1>3, <2>1, <2>2
<1>4. CASE \/ \E q \in Client : Login(q)
           \/ \E q \in Client, ch \in Chan : Join(q, ch) \/ Part(q, ch)
           \/ \E q \in Client, d \in Conn, k \in Stream : PeerSendsPage(q, d, k)
           \/ \E q \in Client : SerialsFault(q)
           \/ UNCHANGED vars
  BY <1>4 DEF Login, Join, Part, PeerSendsPage, SerialsFault, vars, connVars
<1> QED
  BY <1>1, <1>2, <1>3, <1>4 DEF Next, Clients, Reads, DeleteClient

\* What may be on a connection may be there after a step, unless the step is
\* the one that opens it.
LEMMA PagesKept ==
  ASSUME RelayInv, [Next]_vars, NEW d \in Conn,
         \A q \in Client : ~NewDataConnection(q, d)
  PROVE  PagesOf(d) \subseteq PagesOf(d)'
<1> SUFFICES ASSUME NEW p \in PagesOf(d) PROVE p \in PagesOf(d)'
  OBVIOUS
<1>1. /\ handedOut \in Nat
      /\ told \in [Client -> [Stream -> Nat]]
      /\ owner \in [Conn -> LoggedIn \cup {NoClient}]
      /\ ToldInv
  BY DEF RelayInv, HeaderInv, SerialInv, ConnsOK
<1>2. /\ p \in PageType
      /\ p.serial \in 1..handedOut
      /\ \A c \in Client : owner[d] = c <=> p.serial \in Serials(c)
  BY DEF PagesOf, PageType
<1>3. CASE owner' = owner /\ UNCHANGED <<handedOut, told>>
  BY <1>3 DEF PagesOf, PageType, Serials
<1>4. ASSUME NEW q \in Client, Login(q)
      PROVE  p \in PagesOf(d)'
  <2>1. /\ told' = [told EXCEPT ![q] = [video |-> handedOut + 1,
                                       audio |-> handedOut + 2]]
        /\ handedOut' = handedOut + 2
        /\ owner' = owner
    BY <1>1, <1>4, LoginHandsOut DEF Login, connVars
  <2>2. \A c \in Client \ {q} : Serials(c)' = Serials(c)
    BY <1>1, <2>1 DEF Serials
  <2>3. p.serial \notin Serials(q)'
    BY <1>1, <1>2, <2>1 DEF Serials, Stream
  <2>4. owner[d] # q
    BY <1>1, <1>4 DEF Login
  <2>5. p \in PageType'
    BY <1>1, <1>2, <2>1 DEF PageType
  <2> QED
    BY <1>2, <2>1, <2>2, <2>3, <2>4, <2>5 DEF PagesOf
<1>5. ASSUME NEW q \in Client, TakeOut(q)
      PROVE  p \in PagesOf(d)'
  <2>1. /\ told' = [told EXCEPT ![q] = NotTold]
        /\ handedOut' = handedOut
        /\ owner' = [e \in Conn |-> IF owner[e] = q THEN NoClient ELSE owner[e]]
    BY <1>5 DEF TakeOut, Forget
  <2>2. \A c \in Client \ {q} : Serials(c)' = Serials(c)
    BY <1>1, <2>1 DEF Serials
  <2>3. p.serial \notin Serials(q)'
    <3>1. \A k \in Stream : told'[q][k] = 0
      BY <1>1, <2>1 DEF NotTold
    <3> QED
      BY <1>2, <3>1 DEF Serials
  <2>4. \A c \in Client : owner'[d] = c <=> owner[d] = c /\ c # q
    BY <2>1
  <2>5. p \in PageType'
    BY <1>2, <2>1 DEF PageType
  <2> QED
    BY <1>2, <2>2, <2>3, <2>4, <2>5 DEF PagesOf
<1>6. ASSUME NEW q \in Client, NEW e \in Conn, NewDataConnection(q, e)
      PROVE  p \in PagesOf(d)'
  <2>1. e # d
    BY <1>6
  <2>2. owner' = [owner EXCEPT ![e] = q] /\ UNCHANGED <<handedOut, told>>
    BY <1>6 DEF NewDataConnection, serialVars
  <2>3. owner'[d] = owner[d]
    BY <1>1, <2>1, <2>2
  <2> QED
    BY <1>2, <2>2, <2>3 DEF PagesOf, PageType, Serials
<1>7. CASE Reads
  <2>1. UNCHANGED <<handedOut, told>>
    BY <1>7 DEF Reads, ReadPart, ReadUnknown, ReadPage, serialVars
  <2>2. owner' = owner
    <3>1. ~\E q \in Client : TakeOut(q)
      <4> SUFFICES ASSUME NEW q \in Client, TakeOut(q) PROVE FALSE
        OBVIOUS
      <4>1. q \in LoggedIn /\ told' = [told EXCEPT ![q] = NotTold]
        BY DEF TakeOut
      <4>2. told'[q]["video"] = 0
        BY <1>1, <4>1 DEF NotTold, Stream
      <4> QED
        BY <2>1, <4>1, <4>2 DEF LoggedIn
    <3>2. ASSUME NEW e \in Conn, ReadPart(e) \/ ReadUnknown(e)
          PROVE  owner' = owner
      BY <3>2 DEF ReadPart, ReadUnknown, connVars
    <3>3. ASSUME NEW e \in Conn, ReadPage(e)
          PROVE  owner' = owner
      <4>1. PICK i \in 1..Len(Pages(e)) : TakesPage(e, i)
        BY <3>3, ReadTakes
      <4> QED
        BY <4>1 DEF TakesPage
    <3> QED
      BY <1>7, <3>2, <3>3 DEF Reads
  <2> QED
    BY <1>3, <2>1, <2>2
<1>8. CASE \/ \E q \in Client, ch \in Chan : Join(q, ch) \/ Part(q, ch)
           \/ \E q \in Client, e \in Conn, k \in Stream : PeerSendsPage(q, e, k)
           \/ \E q \in Client : SerialsFault(q)
           \/ UNCHANGED vars
  <2>4. CASE \E q \in Client : SerialsFault(q)
    BY <1>3, <2>4 DEF SerialsFault, connVars, serialVars
  <2>1. CASE \E q \in Client, ch \in Chan : Join(q, ch) \/ Part(q, ch)
    BY <1>3, <2>1 DEF Join, Part, connVars, serialVars
  <2>2. CASE \E q \in Client, e \in Conn, k \in Stream : PeerSendsPage(q, e, k)
    BY <1>3, <2>2 DEF PeerSendsPage, serialVars, connVars
  <2>3. CASE UNCHANGED vars
    BY <1>3, <2>3 DEF vars, connVars, serialVars
  <2> QED
    BY <1>8, <2>1, <2>2, <2>3, <2>4
<1> QED
  BY <1>4, <1>5, <1>6, <1>7, <1>8 DEF Next, Clients, DeleteClient

\* What is on a connection after a step may be there.
LEMMA PagesStep == ASSUME RelayInv, [Next]_vars PROVE PagesOK'
<1>1. /\ current \in [Conn -> AnyPage \cup {NoPage}]
      /\ kernel \in [Conn -> Seq(GoodPages)]
      /\ decoder \in [Conn -> Seq(GoodPages)]
      /\ owner \in [Conn -> LoggedIn \cup {NoClient}]
  BY DEF RelayInv, PagesOK, HeaderInv, PageInv, ConnsOK
<1>2. ASSUME NEW d \in Conn
      PROVE  /\ kernel[d] \in Seq(WholePages(d))
             /\ decoder[d] \in Seq(WholePages(d))
             /\ current[d] \in PagesOf(d) \cup {NoPage}
  BY DEF RelayInv, PagesOK
<1>3. ASSUME NEW d \in Conn, PagesOf(d) \subseteq PagesOf(d)'
      PROVE  Seq(WholePages(d)) \subseteq Seq(WholePages(d)')
  <2>1. WholePages(d) \subseteq WholePages(d)'
    BY <1>3 DEF WholePages
  <2> HIDE DEF WholePages
  <2> QED
    BY <2>1, SeqMonotonic
<1>4. \A S : <<>> \in Seq(S)
  BY EmptySeq
<1>5. CASE UNCHANGED <<kernel, decoder, current>>
  <2>1. ASSUME NEW d \in Conn
        PROVE  /\ kernel'[d] \in Seq(WholePages(d)')
               /\ decoder'[d] \in Seq(WholePages(d)')
               /\ current'[d] \in PagesOf(d)' \cup {NoPage}
    <3>1. CASE \A q \in Client : ~NewDataConnection(q, d)
      BY <1>2, <1>3, <1>5, <3>1, PagesKept
    <3>2. ASSUME NEW q \in Client, NewDataConnection(q, d)
          PROVE  kernel'[d] = <<>> /\ decoder'[d] = <<>> /\ current'[d] = NoPage
      <4>1. d \notin Open
        BY <3>2 DEF NewDataConnection
      <4> QED
        BY <1>5, <4>1 DEF RelayInv, IdleOK
    <3> QED
      BY <1>4, <3>1, <3>2
  <2> QED
    BY <1>1, <1>5, <2>1 DEF PagesOK, AnyPage
<1>6. ASSUME NEW q \in Client, TakeOut(q)
      PROVE  PagesOK'
  <2>1. PICK D :
          /\ kernel' = [d \in Conn |-> IF d \in D THEN <<>> ELSE kernel[d]]
          /\ decoder' = [d \in Conn |-> IF d \in D THEN <<>> ELSE decoder[d]]
          /\ current' = [d \in Conn |-> IF d \in D THEN NoPage ELSE current[d]]
    BY <1>6 DEF TakeOut, Forget
  <2>2. current' \in [Conn -> AnyPage \cup {NoPage}]
    BY <1>1, <2>1
  <2>3. ASSUME NEW d \in Conn
        PROVE  /\ kernel'[d] \in Seq(WholePages(d)')
               /\ decoder'[d] \in Seq(WholePages(d)')
               /\ current'[d] \in PagesOf(d)' \cup {NoPage}
    <3>1. /\ kernel'[d] \in {<<>>, kernel[d]}
          /\ decoder'[d] \in {<<>>, decoder[d]}
          /\ current'[d] \in {NoPage, current[d]}
      BY <2>1
    <3>2. PagesOf(d) \subseteq PagesOf(d)'
      <4>1. ASSUME NEW c \in Client, NewDataConnection(c, d)
            PROVE  FALSE
        <5>1. told' = told
          BY <4>1 DEF NewDataConnection, serialVars
        <5>2. LoggedIn' = LoggedIn
          BY <5>1, LoggedInAfter
        <5>3. LoggedIn' = LoggedIn \ {q}
          BY <1>6, LoggedInAfter
        <5> QED
          BY <1>6, <5>2, <5>3 DEF TakeOut
      <4> QED
        BY <4>1, PagesKept
    <3> QED
      BY <1>2, <1>3, <1>4, <3>1, <3>2
  <2> QED
    BY <2>2, <2>3 DEF PagesOK, AnyPage
<1>7. ASSUME NEW q \in Client, NEW d \in Conn, NEW k \in Stream,
             PeerSendsPage(q, d, k)
      PROVE  PagesOK'
  <2>1. PICK p \in GoodPages :
          /\ p.serial = told[q][k] /\ ~p.torn
          /\ kernel' = [kernel EXCEPT ![d] = Append(@, p)]
    BY <1>7, SentIsGood DEF RelayInv
  <2>2. /\ UNCHANGED <<handedOut, told, owner, decoder, current>>
        /\ owner[d] = q /\ q \in LoggedIn
    BY <1>7 DEF PeerSendsPage, serialVars, connVars, Owned
  <2>3. p \in PageType
    BY <2>1 DEF GoodPages, AnyPage, PageType
  <2>4. ASSUME NEW c \in Client, p.serial \in Serials(c)
        PROVE  c = q
    <3>1. PICK j \in Stream : told[q][k] = told[c][j]
      BY <2>1, <2>4 DEF Serials
    <3>2. told[q][k] # 0
      BY <2>2 DEF RelayInv, HeaderInv, SerialInv, ToldInv, LoggedIn, Stream
    <3> QED
      BY <3>1, <3>2, ToldIsOnes DEF RelayInv, HeaderInv
  <2>5. p.serial \in Serials(q)
    BY <2>1 DEF Serials
  <2>6. p \in WholePages(d)
    BY <2>1, <2>2, <2>3, <2>4, <2>5 DEF WholePages, PagesOf
  <2>7. kernel'[d] = Append(kernel[d], p) /\ \A c \in Conn \ {d} : kernel'[c] = kernel[c]
    BY <1>1, <2>1
  <2>8. kernel'[d] \in Seq(WholePages(d))
    <3>1. kernel[d] \in Seq(WholePages(d))
      BY <1>2
    <3> HIDE DEF WholePages
    <3> QED
      BY <2>6, <2>7, <3>1, AppendProperties
  <2>9. \A c \in Conn : PagesOf(c)' = PagesOf(c) /\ WholePages(c)' = WholePages(c)
    BY <2>2 DEF PagesOf, PageType, Serials, WholePages
  <2> QED
    BY <1>1, <1>2, <2>2, <2>7, <2>8, <2>9 DEF PagesOK, AnyPage
<1>8. ASSUME NEW d \in Read \cap Conn,
             UNCHANGED <<handedOut, told, owner>>,
             \A c \in Conn \ {d} : /\ kernel'[c] = kernel[c]
                                   /\ decoder'[c] = decoder[c]
                                   /\ current'[c] = current[c],
             kernel'[d] \in Seq(WholePages(d)),
             decoder'[d] \in Seq(WholePages(d)),
             current'[d] \in PagesOf(d),
             current' \in [Conn -> AnyPage \cup {NoPage}]
      PROVE  PagesOK'
  <2>1. \A c \in Conn : PagesOf(c)' = PagesOf(c) /\ WholePages(c)' = WholePages(c)
    BY <1>8 DEF PagesOf, PageType, Serials, WholePages
  <2> QED
    BY <1>2, <1>4, <1>8, <2>1 DEF PagesOK, AnyPage
<1> QED
  BY <1>5, <1>6, <1>7, <1>8, CurrentAfter

\* A page is not the null pointer.
LEMMA PageIsSet ==
  ASSUME RelayInv, NEW d \in Conn, NEW p \in PagesOf(d) PROVE p # NoPage
<1>1. handedOut \in Nat
  BY DEF RelayInv, HeaderInv, SerialInv
<1>2. p \in [serial : Nat, no : Nat, body : Body, torn : BOOLEAN]
  BY <1>1 DEF PagesOf, PageType
<1> QED
  BY <1>2, PageAssumption

\* A client's connection stays its own, and a page that has come on it stays,
\* for as long as the client does.
LEMMA HeldKept ==
  ASSUME RelayInv, [Next]_vars, NEW q \in Client, NEW c \in Conn,
         owner[c] = q, ~TakeOut(q)
  PROVE  /\ owner'[c] = q
         /\ current[c] # NoPage => current'[c] # NoPage
<1>1. /\ owner \in [Conn -> LoggedIn \cup {NoClient}]
      /\ current \in [Conn -> AnyPage \cup {NoPage}]
  BY DEF RelayInv, ConnsOK, PagesOK
<1>2. owner'[c] = q
  <2>1. ASSUME NEW r \in Client, NEW d \in Conn, NewDataConnection(r, d),
               owner' = [owner EXCEPT ![d] = r]
        PROVE  owner'[c] = q
    <3>1. c # d
      BY <2>1 DEF NewDataConnection, Open
    <3> QED
      BY <1>1, <2>1, <3>1
  <2> QED
    BY <2>1, OwnerAfter
<1>3. ASSUME current[c] # NoPage PROVE current'[c] # NoPage
  <2>1. ASSUME NEW r \in Client, TakeOut(r)
        PROVE  current'[c] # NoPage
    <3>1. current' = [d \in Conn |-> IF d \in Owned(r) \ waiting
                                     THEN NoPage ELSE current[d]]
      BY <2>1 DEF TakeOut, Forget
    <3>2. c \notin Owned(r)
      BY <2>1 DEF Owned
    <3> QED
      BY <1>3, <3>1, <3>2
  <2>2. ASSUME NEW r \in Client, NEW d \in Conn, NEW k \in Stream,
               PeerSendsPage(r, d, k)
        PROVE  current'[c] # NoPage
    BY <1>3, <2>2 DEF PeerSendsPage
  <2>3. ASSUME NEW d \in Conn, current'[d] \in PagesOf(d),
               \A e \in Conn \ {d} : current'[e] = current[e]
        PROVE  current'[c] # NoPage
    BY <1>3, <2>3, PageIsSet
  <2> QED
    BY <1>3, <2>1, <2>2, <2>3, CurrentAfter
<1> QED
  BY <1>2, <1>3

\* Which connections wait, and which are held.
LEMMA ConnAfter ==
  ASSUME RelayInv, [Next]_vars
  PROVE  \/ UNCHANGED connVars
         \/ \E q \in Client :
              /\ TakeOut(q)
              /\ conn' = [conn EXCEPT ![q] = NoConn]
              /\ waiting' = waiting
         \/ \E q \in Client, d \in Conn :
              /\ NewDataConnection(q, d)
              /\ conn' = conn
              /\ waiting' = waiting \cup {d}
         \/ \E d \in Conn, q \in Client :
              /\ owner[d] = q
              /\ owner' = owner
              /\ waiting' = waiting \ {d}
              /\ conn' \in [Client -> Conn \cup {NoConn}]
              /\ \A r \in Client \ {q} : conn'[r] = conn[r]
              /\ conn'[q] \in Conn
              /\ owner[conn'[q]] = q
              /\ conn'[q] \notin waiting'
              /\ current'[conn'[q]] # NoPage
<1>1. ASSUME NEW d \in Conn, ReadPage(d), ~UNCHANGED connVars
      PROVE  \E q \in Client :
               /\ owner[d] = q
               /\ owner' = owner
               /\ waiting' = waiting \ {d}
               /\ conn' \in [Client -> Conn \cup {NoConn}]
               /\ \A r \in Client \ {q} : conn'[r] = conn[r]
               /\ conn'[q] \in Conn
               /\ owner[conn'[q]] = q
               /\ conn'[q] \notin waiting'
               /\ current'[conn'[q]] # NoPage
  <2>1. PICK i \in 1..Len(Pages(d)) :
          /\ TakesPage(d, i)
          /\ \/ TakesOrphan(d, i)
             \/ \E q \in Client, k \in Stream : TakesOwn(d, i, q, k)
    BY <1>1, ReadTakes
  <2>2. owner' = owner
    BY <2>1 DEF TakesPage
  <2>3. ~TakesOrphan(d, i)
    BY <1>1, <2>2 DEF TakesOrphan, connVars
  <2>4. PICK q \in Client, k \in Stream : TakesOwn(d, i, q, k)
    BY <2>1, <2>3
  <2>5. owner[d] = q /\ waiting' = waiting \ {d}
    BY <2>4 DEF TakesOwn
  <2>6. /\ conn' \in [Client -> Conn \cup {NoConn}]
        /\ \A r \in Client \ {q} : conn'[r] = conn[r]
        /\ conn'[q] \in Conn
        /\ owner[conn'[q]] = q
        /\ conn'[q] \notin waiting'
        /\ current'[conn'[q]] \in PagesOf(conn'[q])
    BY <2>1, <2>4, OwnConn
  <2> QED
    BY <2>2, <2>5, <2>6, PageIsSet
<1>2. ASSUME NEW q \in Client, TakeOut(q)
      PROVE  conn' = [conn EXCEPT ![q] = NoConn] /\ waiting' = waiting
  BY <1>2 DEF TakeOut
<1>3. ASSUME NEW q \in Client, NEW d \in Conn, NewDataConnection(q, d)
      PROVE  conn' = conn /\ waiting' = waiting \cup {d}
  BY <1>3 DEF NewDataConnection
<1>4. CASE \/ \E q \in Client : Login(q)
           \/ \E q \in Client, ch \in Chan : Join(q, ch) \/ Part(q, ch)
           \/ \E q \in Client, d \in Conn, k \in Stream : PeerSendsPage(q, d, k)
           \/ \E d \in Conn : ReadPart(d) \/ ReadUnknown(d)
           \/ \E q \in Client : SerialsFault(q)
           \/ UNCHANGED vars
  BY <1>4 DEF Login, Join, Part, PeerSendsPage, ReadPart, ReadUnknown,
              SerialsFault, vars
<1> QED
  BY <1>1, <1>2, <1>3, <1>4 DEF Next, Clients, Reads, DeleteClient

\* Who holds, has opened or waits on a connection.
LEMMA ConnsStep == ASSUME RelayInv, [Next]_vars PROVE ConnsOK'
<1>1. /\ conn \in [Client -> Conn \cup {NoConn}]
      /\ owner \in [Conn -> LoggedIn \cup {NoClient}]
      /\ waiting \subseteq Conn
      /\ \A q \in Client : conn[q] # NoConn =>
           owner[conn[q]] = q /\ conn[q] \notin waiting /\ current[conn[q]] # NoPage
  BY DEF RelayInv, ConnsOK
<1>2. owner' \in [Conn -> LoggedIn' \cup {NoClient}]
  <2>1. ASSUME NEW d \in Conn, owner[d] \in Client, ~TakeOut(owner[d])
        PROVE  owner[d] \in LoggedIn'
    BY <1>1, <2>1, LoggedInAfter
  <2>2. CASE owner' = owner
    <3>1. ASSUME NEW d \in Conn, owner[d] \in Client, TakeOut(owner[d])
          PROVE  FALSE
      <4>1. owner'[d] = NoClient
        BY <3>1 DEF TakeOut, Forget
      <4> QED
        BY <2>2, <3>1, <4>1
    <3>2. \A d \in Conn : owner[d] \in LoggedIn' \cup {NoClient}
      BY <1>1, <2>1, <3>1 DEF LoggedIn
    <3> QED
      BY <1>1, <2>2, <3>2
  <2>3. ASSUME NEW q \in Client, TakeOut(q),
               owner' = [d \in Conn |-> IF owner[d] = q THEN NoClient
                                                        ELSE owner[d]]
        PROVE  owner' \in [Conn -> LoggedIn' \cup {NoClient}]
    <3>1. LoggedIn' = LoggedIn \ {q}
      BY <2>3, LoggedInAfter
    <3> QED
      BY <1>1, <2>3, <3>1
  <2>4. ASSUME NEW q \in Client, NEW d \in Conn, NewDataConnection(q, d),
               owner' = [owner EXCEPT ![d] = q]
        PROVE  owner' \in [Conn -> LoggedIn' \cup {NoClient}]
    <3>1. q \in LoggedIn /\ LoggedIn' = LoggedIn
      BY <2>4, LoggedInAfter DEF NewDataConnection, serialVars
    <3> QED
      BY <1>1, <2>4, <3>1
  <2> QED
    BY <2>2, <2>3, <2>4, OwnerAfter
<1>3. ASSUME NEW q \in Client, conn[q] # NoConn, ~TakeOut(q)
      PROVE  owner'[conn[q]] = q /\ current'[conn[q]] # NoPage
  <2>1. conn[q] \in Conn /\ owner[conn[q]] = q /\ current[conn[q]] # NoPage
    BY <1>1, <1>3
  <2> QED
    BY <1>3, <2>1, HeldKept
<1>4. CASE UNCHANGED connVars
  <2>1. ASSUME NEW q \in Client, TakeOut(q) PROVE conn[q] = NoConn
    <3>1. conn' = [conn EXCEPT ![q] = NoConn]
      BY <2>1 DEF TakeOut
    <3> QED
      BY <1>1, <1>4, <3>1 DEF connVars
  <2> QED
    BY <1>1, <1>2, <1>3, <1>4, <2>1 DEF ConnsOK, connVars
<1>5. ASSUME NEW q \in Client, TakeOut(q),
             conn' = [conn EXCEPT ![q] = NoConn], waiting' = waiting
      PROVE  ConnsOK'
  <2>1. \A r \in Client \ {q} : ~TakeOut(r)
    <3> SUFFICES ASSUME NEW r \in Client \ {q}, TakeOut(r) PROVE FALSE
      OBVIOUS
    <3>1. LoggedIn' = LoggedIn \ {q} /\ LoggedIn' = LoggedIn \ {r}
      BY <1>5, LoggedInAfter
    <3>2. q \in LoggedIn
      BY <1>5 DEF TakeOut
    <3> QED
      BY <3>1, <3>2
  <2>2. conn' \in [Client -> Conn \cup {NoConn}]
    BY <1>1, <1>5
  <2>3. conn'[q] = NoConn /\ \A r \in Client \ {q} : conn'[r] = conn[r]
    BY <1>1, <1>5
  <2> QED
    BY <1>1, <1>2, <1>3, <1>5, <2>1, <2>2, <2>3 DEF ConnsOK
<1>6. ASSUME NEW q \in Client, NEW d \in Conn, NewDataConnection(q, d),
             conn' = conn, waiting' = waiting \cup {d}
      PROVE  ConnsOK'
  <2>1. \A r \in Client : conn[r] # d
    <3> SUFFICES ASSUME NEW r \in Client, conn[r] = d PROVE FALSE
      OBVIOUS
    <3>1. owner[d] = r
      BY <1>1
    <3> QED
      BY <1>6, <3>1 DEF NewDataConnection, Open
  <2>2. \A r \in Client : ~TakeOut(r)
    <3> SUFFICES ASSUME NEW r \in Client, TakeOut(r) PROVE FALSE
      OBVIOUS
    <3>1. LoggedIn' = LoggedIn \ {r} /\ LoggedIn' = LoggedIn
      BY <1>6, LoggedInAfter DEF NewDataConnection, serialVars
    <3> QED
      BY <3>1 DEF TakeOut
  <2> QED
    BY <1>1, <1>2, <1>3, <1>6, <2>1, <2>2 DEF ConnsOK
<1>7. ASSUME NEW d \in Conn, NEW q \in Client, owner[d] = q,
             owner' = owner,
             waiting' = waiting \ {d},
             conn' \in [Client -> Conn \cup {NoConn}],
             \A r \in Client \ {q} : conn'[r] = conn[r],
             conn'[q] \in Conn,
             owner[conn'[q]] = q,
             conn'[q] \notin waiting',
             current'[conn'[q]] # NoPage
      PROVE  ConnsOK'
  <2>1. ASSUME NEW r \in Client \ {q}, conn[r] # NoConn PROVE ~TakeOut(r)
    <3>1. conn[r] \in Conn /\ owner[conn[r]] = r
      BY <1>1, <2>1
    <3>2. TakeOut(r) => owner'[conn[r]] = NoClient
      BY <3>1 DEF TakeOut, Forget
    <3> QED
      BY <1>7, <3>1, <3>2
  <2> QED
    BY <1>1, <1>2, <1>3, <1>7, <2>1 DEF ConnsOK
<1> QED
  BY <1>4, <1>5, <1>6, <1>7, ConnAfter

\* A connection that is open stays so, but for those of a client that goes.
LEMMA OpenKept ==
  ASSUME RelayInv, [Next]_vars, \A q \in Client : ~TakeOut(q),
         NEW d \in Open
  PROVE  d \in Open'
<1>1. CASE d \in Conn /\ owner[d] \in Client
  BY <1>1, HeldKept DEF Open
<1>2. CASE owner[d] \notin Client
  <2>1. d \in waiting
    <3>1. \A e \in Conn : owner[e] # NoClient => owner[e] \in Client
      BY DEF RelayInv, ConnsOK, LoggedIn
    <3> QED
      BY <1>2, <3>1 DEF Open
  <2> QED
    BY <1>2, <2>1, ConnAfter DEF Open, connVars
<1> QED
  BY <1>1, <1>2 DEF Open, RelayInv, ConnsOK

\* A connection that has been closed holds nothing.
LEMMA IdleStep == ASSUME RelayInv, [Next]_vars PROVE IdleOK'
<1> SUFFICES ASSUME NEW d \in Conn \ Open'
             PROVE  kernel'[d] = <<>> /\ decoder'[d] = <<>> /\ current'[d] = NoPage
  BY DEF IdleOK
<1>1. \A c \in Conn \ Open :
        kernel[c] = <<>> /\ decoder[c] = <<>> /\ current[c] = NoPage
  BY DEF RelayInv, IdleOK
<1>2. /\ owner \in [Conn -> LoggedIn \cup {NoClient}]
      /\ kernel \in [Conn -> Seq(GoodPages)]
  BY DEF RelayInv, ConnsOK, HeaderInv, PageInv
<1>3. ASSUME NEW q \in Client, TakeOut(q)
      PROVE  kernel'[d] = <<>> /\ decoder'[d] = <<>> /\ current'[d] = NoPage
  <2> DEFINE D == Owned(q) \ waiting
  <2>1. /\ owner' = [c \in Conn |-> IF owner[c] = q THEN NoClient ELSE owner[c]]
        /\ kernel' = [c \in Conn |-> IF c \in D THEN <<>> ELSE kernel[c]]
        /\ decoder' = [c \in Conn |-> IF c \in D THEN <<>> ELSE decoder[c]]
        /\ current' = [c \in Conn |-> IF c \in D THEN NoPage ELSE current[c]]
        /\ waiting' = waiting
    BY <1>3 DEF TakeOut, Forget
  <2>2. d \notin waiting /\ owner'[d] = NoClient
    BY <2>1 DEF Open
  <2>3. CASE owner[d] = q
    BY <2>1, <2>2, <2>3 DEF Owned
  <2>4. CASE owner[d] # q
    <3>1. d \notin Open
      BY <2>1, <2>2, <2>4 DEF Open
    <3> QED
      BY <1>1, <2>1, <3>1
  <2> QED
    BY <2>3, <2>4
<1>4. ASSUME \A q \in Client : ~TakeOut(q)
      PROVE  kernel'[d] = <<>> /\ decoder'[d] = <<>> /\ current'[d] = NoPage
  <2>1. d \notin Open
    BY <1>4, OpenKept
  <2>2. ASSUME NEW q \in Client, NEW c \in Conn, NEW k \in Stream,
               PeerSendsPage(q, c, k)
        PROVE  kernel'[d] = kernel[d] /\ UNCHANGED <<decoder, current>>
    <3>1. owner[c] = q
      BY <2>2 DEF PeerSendsPage, Owned
    <3>2. c # d
      BY <2>1, <3>1 DEF Open
    <3> QED
      BY <1>2, <2>2, <3>2 DEF PeerSendsPage
  <2>3. d \notin Read
    BY <2>1, ReadIsOpen DEF Open
  <2> QED
    BY <1>1, <1>4, <2>1, <2>2, <2>3, CurrentAfter
<1> QED
  BY <1>3, <1>4

\* The page pointers of the streams.
LEMMA PointersStep == ASSUME RelayInv, [Next]_vars PROVE PointersOK'
<1>1. stream \in [Client -> [Stream -> AnyStream]]
  BY DEF RelayInv, HeaderInv, StreamInv
<1>2. ASSUME NEW q \in Client, NEW k \in Stream, stream[q][k].at # NoConn
      PROVE  /\ stream[q][k].at \in Conn
             /\ owner[stream[q][k].at] = q
             /\ current[stream[q][k].at] # NoPage
  BY <1>2 DEF RelayInv, PointersOK
<1>3. ASSUME NEW q \in Client, NEW k \in Stream, stream[q][k].at # NoConn,
             ~TakeOut(q)
      PROVE  /\ owner'[stream[q][k].at] = q
             /\ current'[stream[q][k].at] # NoPage
  BY <1>2, <1>3, HeldKept
<1>4. ASSUME NEW q \in Client, TakeOut(q)
      PROVE  PointersOK'
  <2>1. stream' = [stream EXCEPT ![q] = [k \in Stream |-> NewStream]]
    BY <1>4 DEF TakeOut
  <2>2. \A k \in Stream : stream'[q][k].at = NoConn
    BY <1>1, <2>1 DEF NewStream
  <2>3. \A r \in Client \ {q} : stream'[r] = stream[r]
    BY <1>1, <2>1
  <2>4. \A r \in Client \ {q} : ~TakeOut(r)
    <3> SUFFICES ASSUME NEW r \in Client \ {q}, TakeOut(r) PROVE FALSE
      OBVIOUS
    <3>1. LoggedIn' = LoggedIn \ {q} /\ LoggedIn' = LoggedIn \ {r}
      BY <1>4, LoggedInAfter
    <3>2. q \in LoggedIn
      BY <1>4 DEF TakeOut
    <3> QED
      BY <3>1, <3>2
  <2> QED
    BY <1>2, <1>3, <2>2, <2>3, <2>4 DEF PointersOK
<1>5. ASSUME stream' = stream, \A q \in Client : ~TakeOut(q)
      PROVE  PointersOK'
  BY <1>2, <1>3, <1>5 DEF PointersOK
<1>6. ASSUME NEW d \in Conn, ReadPage(d), stream' # stream,
             \A q \in Client : ~TakeOut(q)
      PROVE  PointersOK'
  <2>1. PICK i \in 1..Len(Pages(d)) :
          /\ TakesPage(d, i)
          /\ \/ TakesOrphan(d, i)
             \/ \E q \in Client, k \in Stream : TakesOwn(d, i, q, k)
    BY <1>6, ReadTakes
  <2>2. PICK q \in Client, k \in Stream : TakesOwn(d, i, q, k)
    BY <1>6, <2>1 DEF TakesOrphan
  <2>3. /\ stream' = [stream EXCEPT ![q][k] = FeedPage(@, d, Pages(d)[i])]
        /\ owner[d] = q
    BY <2>2 DEF TakesOwn
  <2>4. FeedPage(stream[q][k], d, Pages(d)[i]).at = d
    <3>1. stream[q][k] \in AnyStream
      BY <1>1
    <3> QED
      BY <3>1 DEF FeedPage, AnyStream
  <2>5. stream'[q][k].at = d
    BY <1>1, <2>3, <2>4
  <2>6. \A r \in Client, j \in Stream :
          (r = q /\ j = k) \/ stream'[r][j] = stream[r][j]
    BY <1>1, <2>3
  <2>7. owner'[d] = q
    BY <2>1, <2>3 DEF TakesPage
  <2>8. current'[d] # NoPage
    <3>1. /\ current \in [Conn -> AnyPage \cup {NoPage}]
          /\ current' = [current EXCEPT ![d] = Pages(d)[i]]
          /\ Pages(d)[i] \in PagesOf(d)
      BY <2>1 DEF RelayInv, PagesOK, TakesPage, TakePage, WholePages
    <3> QED
      BY <3>1, PageIsSet
  <2> QED
    BY <1>2, <1>3, <1>6, <2>5, <2>6, <2>7, <2>8 DEF PointersOK
<1>7. CASE \/ \E q \in Client : Login(q)
           \/ \E q \in Client, ch \in Chan : Join(q, ch) \/ Part(q, ch)
           \/ \E q \in Client, d \in Conn : NewDataConnection(q, d)
           \/ \E q \in Client, d \in Conn, k \in Stream : PeerSendsPage(q, d, k)
           \/ \E d \in Conn : ReadPart(d) \/ ReadUnknown(d)
           \/ \E q \in Client : SerialsFault(q)
           \/ UNCHANGED vars
  <2>1. stream' = stream
    BY <1>7 DEF Login, Join, Part, NewDataConnection, PeerSendsPage, ReadPart,
                ReadUnknown, SerialsFault, vars, pageVars
  <2> QED
    BY <1>4, <1>5, <2>1
<1> QED
  BY <1>4, <1>5, <1>6, <1>7 DEF Next, Clients, Reads, DeleteClient

-----------------------------------------------------------------------------
(* The invariant.                                                          *)

\* No step breaks it.
LEMMA RelayStep == RelayInv /\ [Next]_vars => RelayInv'
  BY HeaderStep, MapStep, ClientsStep, ConnsStep, IdleStep, PagesStep,
     PointersStep DEF RelayInv

\* The server starts with nothing on any connection.
LEMMA InitRelay == Init => RelayInv
<1> SUFFICES ASSUME Init PROVE RelayInv
  OBVIOUS
<1>1. MapOK
  BY DEF Init, MapOK, EmptyMap
<1>2. ClientsOK
  BY DEF Init, ClientsOK
<1>3. ConnsOK
  BY DEF Init, ConnsOK
<1>4. IdleOK
  BY DEF Init, IdleOK
<1>5. PagesOK
  BY EmptySeq DEF Init, PagesOK
<1>6. PointersOK
  BY DEF Init, PointersOK, NewStream
<1> QED
  BY <1>1, <1>2, <1>3, <1>4, <1>5, <1>6, InitHeader DEF RelayInv

\* ReadDataConnection finds on a connection what its peer has sent, and the
\* page pointers of a client lead to connections of that client.
THEOREM RelayInvariant == Spec => []RelayInv
  BY InitRelay, RelayStep, PTL DEF Spec

-----------------------------------------------------------------------------
(* Undefined behaviour.                                                    *)

\* On the connection a client holds, the page read is the page found: by its
\* serial, in the stream it is of, which points to it.
LEMMA OwnLookup ==
  ASSUME RelayInv, NEW d \in Conn, NEW i \in 1..Len(Pages(d)),
         NEW q \in Client, NEW k \in Stream,
         TakesPage(d, i), TakesOwn(d, i, q, k), conn'[q] = d,
         NEW s \in CurrentPageSerials(q, d)
  PROVE  /\ Meaning(MapAfter(d, i), s) = Entry(q, k)
         /\ stream'[q][k].at = d
         /\ RawPage(stream'[q][k]) = Pages(d)[i]
<1>1. current'[d] = Pages(d)[i] /\ ~Pages(d)[i].torn
  BY OwnConn DEF TakesPage, WholePages
<1>2. s = Pages(d)[i].serial
  BY <1>1 DEF CurrentPageSerials, SerialsRead
<1>3. s \in DOMAIN serialMap /\ serialMap[s] = Entry(q, k)
  BY <1>2 DEF TakesOwn
<1>4. /\ s \in DOMAIN MapAfter(d, i)
      /\ MapAfter(d, i)[s] = serialMap[s]
  BY <1>3, LookupKeeps DEF MapAfter
<1>5. stream \in [Client -> [Stream -> AnyStream]]
  BY DEF RelayInv, HeaderInv, StreamInv
<1>6. FeedPage(stream[q][k], d, Pages(d)[i]).at = d
  <2>1. stream[q][k] \in AnyStream
    BY <1>5
  <2> QED
    BY <2>1 DEF FeedPage, AnyStream
<1>7. stream'[q][k].at = d
  BY <1>5, <1>6 DEF TakesOwn
<1> QED
  BY <1>1, <1>3, <1>4, <1>7 DEF Meaning, RawPage

\* Which undefined behaviour, and where it comes from.
FaultInv ==
  /\ fault \in {"none", "freedClient", "wildPage", "erasedIterator"}
  /\ FaultCause

\* Two connections of one client.
LEMMA TwoOwned ==
  ASSUME NEW q \in Client, NEW c \in Owned(q), NEW d \in Owned(q), c # d
  PROVE  Cardinality(Owned(q)) > 1
<1> DEFINE S == {c}
           T == S \cup {d}
<1>1. IsFiniteSet(Owned(q)) /\ T \subseteq Owned(q)
  BY FS_Subset DEF Owned
<1>2. d \notin S /\ IsFiniteSet(S) /\ Cardinality(S) = 1
  BY FS_Singleton
<1> HIDE DEF S
<1>3. Cardinality(T) = 2
  <2>1. Cardinality(S \cup {d}) = Cardinality(S) + 1
    BY <1>2, FS_AddElement
  <2> QED
    BY <1>2, <2>1
<1> HIDE DEF T
<1>4. Cardinality(T) <= Cardinality(Owned(q)) /\ Cardinality(Owned(q)) \in Nat
  BY <1>1, FS_Subset, FS_CardinalityType
<1> QED
  BY <1>3, <1>4

\* A read by TakesOrphan uses a freed client, and leaves a connection behind
\* that waits and has no owner; a page pointer that was never set is met when
\* the connection read is not the one whose last page is looked up.
LEMMA FaultStep ==
  ASSUME RelayInv, FaultInv, [Next]_vars PROVE FaultInv'
<1>1. CASE UNCHANGED vars
  BY <1>1 DEF vars, connVars, serialVars, FaultInv, FaultCause, Owned, LoggedIn
<1>2. ASSUME fault' = "none"
      PROVE  FaultInv'
  BY <1>2 DEF FaultInv, FaultCause
<1>3. ASSUME NEW d \in Conn, ReadPage(d), fault = "none", fault' # "none"
      PROVE  FaultInv'
  <2>1. PICK i \in 1..Len(Pages(d)) :
          /\ TakesPage(d, i)
          /\ \/ TakesOrphan(d, i)
             \/ \E q \in Client, k \in Stream : TakesOwn(d, i, q, k)
    BY <1>3, ReadTakes
  <2>2. owner' = owner
    BY <2>1 DEF TakesPage
  <2>3. CASE TakesOrphan(d, i)
    <3>1. d \in waiting' /\ owner'[d] = NoClient /\ fault' = "freedClient"
      BY <2>2, <2>3 DEF TakesOrphan
    <3> QED
      BY <3>1 DEF FaultInv, FaultCause
  <2>4. ASSUME NEW q \in Client, NEW k \in Stream, TakesOwn(d, i, q, k)
        PROVE  FaultInv'
    <3>1. PICK s \in CurrentPageSerials(q, d) :
            /\ stream'[q][Meaning(MapAfter(d, i), s).stream].at = NoConn
            /\ fault' = "wildPage"
      BY <1>3, <2>4 DEF TakesOwn, ProcessClientData
    <3>2. conn'[q] # d
      <4> SUFFICES ASSUME conn'[q] = d PROVE FALSE
        OBVIOUS
      <4>1. /\ Meaning(MapAfter(d, i), s) = Entry(q, k)
            /\ stream'[q][k].at = d
        BY <2>1, <2>4, <3>1, OwnLookup
      <4> QED
        BY <3>1, <4>1 DEF Entry
    <3>3. conn'[q] \in Owned(q) /\ d \in Owned(q)
      <4>1. conn'[q] \in Conn /\ owner[conn'[q]] = q
        BY <2>1, <2>4, OwnConn
      <4>2. owner[d] = q
        BY <2>4 DEF TakesOwn
      <4> QED
        BY <4>1, <4>2 DEF Owned
    <3>4. Cardinality(Owned(q)) > 1
      BY <3>2, <3>3, TwoOwned
    <3>5. Owned(q)' = Owned(q)
      BY <2>2 DEF Owned
    <3> QED
      BY <3>1, <3>4, <3>5 DEF FaultInv, FaultCause
  <2> QED
    BY <2>1, <2>3, <2>4
<1>4. ASSUME NEW q \in LoggedIn, SerialsFault(q)
      PROVE  FaultInv'
  <2>1. fault' = "erasedIterator" /\ LoggedIn' = LoggedIn
    BY <1>4 DEF SerialsFault, serialVars, LoggedIn
  <2> QED
    BY <2>1 DEF FaultInv, FaultCause
<1>5. CASE Next /\ (\A d \in Conn : ~ReadPage(d))
                /\ (\A q \in LoggedIn : ~SerialsFault(q))
  <2>1. fault' = fault /\ fault = "none"
    BY <1>5 DEF Next, Clients, Reads, Login, Join, Part, DeleteClient, TakeOut,
                NewDataConnection, PeerSendsPage, ReadPart, ReadUnknown
  <2> QED
    BY <1>2, <2>1
<1> QED
  BY <1>1, <1>2, <1>3, <1>4, <1>5 DEF Next

\* Both hold from the start.
LEMMA FaultInvariant == Spec => [](RelayInv /\ FaultInv)
<1>1. Init => FaultInv
  BY DEF Init, FaultInv, FaultCause
<1> QED
  BY <1>1, InitRelay, RelayStep, FaultStep, PTL DEF Spec

\* ReadDataConnection and ProcessClientData follow a page pointer that was
\* never set only for a client with two connections (the pointer is that of
\* another stream than the page just fed, Server_DataProcess.cpp:162), and
\* use a freed client only by a connection that has outlived it (:136).  The
\* third undefined step, DeleteClientSerials' increment of an erased
\* iterator, may come with any departure of a client that is logged in.
THEOREM UndefinedOnlyThen == Spec => []FaultCause
  BY FaultInvariant, PTL DEF FaultInv

\* Every variable keeps its type, and a connection is unassigned or a
\* client's or lost, never two of these (Server.cpp:171-187).
THEOREM TypeCorrect == Spec => []TypeOK
<1>1. RelayInv /\ FaultInv => TypeOK
  <2> SUFFICES ASSUME RelayInv, FaultInv PROVE TypeOK
    OBVIOUS
  <2>1. MapOK /\ ClientsOK /\ ConnsOK
    BY DEF RelayInv
  <2>2. told \in [Client -> [Stream -> 0..handedOut]]
    <3>1. handedOut \in Nat /\ told \in [Client -> [Stream -> Nat]] /\ ToldInv
      BY DEF RelayInv, HeaderInv, SerialInv
    <3>2. \A q \in Client, k \in Stream : told[q][k] \in 0..handedOut
      BY <3>1 DEF ToldInv
    <3> QED
      BY <3>1, <3>2
  <2>3. /\ kernel \in [Conn -> Seq(PageType)]
        /\ decoder \in [Conn -> Seq(PageType)]
    <3>1. \A d \in Conn : Seq(WholePages(d)) \subseteq Seq(PageType)
      <4> SUFFICES ASSUME NEW d \in Conn
                   PROVE  Seq(WholePages(d)) \subseteq Seq(PageType)
        OBVIOUS
      <4>1. WholePages(d) \subseteq PageType
        BY DEF WholePages, PagesOf
      <4> HIDE DEF WholePages, PageType
      <4> QED
        BY <4>1, SeqMonotonic
    <3>2. /\ kernel \in [Conn -> Seq(GoodPages)]
          /\ decoder \in [Conn -> Seq(GoodPages)]
      BY DEF RelayInv, HeaderInv, PageInv
    <3> QED
      BY <3>1, <3>2 DEF RelayInv, PagesOK
  <2>4. current \in [Conn -> PageType \cup {NoPage}]
    BY DEF RelayInv, PagesOK, PagesOf
  <2>5. fault \in {"none", "freedClient", "wildPage", "erasedIterator"}
    BY DEF FaultInv
  <2> QED
    BY <2>1, <2>2, <2>3, <2>4, <2>5 DEF TypeOK, MapOK, ClientsOK, ConnsOK
<1> QED
  BY <1>1, FaultInvariant, PTL

-----------------------------------------------------------------------------
(* What is sent.                                                           *)

\* The channels in which one client hears another are those they share.
LEMMA HearsOnShared ==
  ASSUME NEW q \in Client, NEW r \in Client PROVE Common(q, r) = Shared(q, r)
BY DEF Common, Others, Shared

\* What a step sends, it relays for the client whose page it has read.
LEMMA OnlyReadsSend ==
  ASSUME RelayInv, Next
  PROVE  \/ out' = Silence
         \/ \E d \in Conn : \E i \in 1..Len(Pages(d)) :
              /\ TakesPage(d, i)
              /\ \E q \in Client, k \in Stream : TakesOwn(d, i, q, k)
<1>1. ASSUME NEW d \in Conn, ReadPage(d), out' # Silence
      PROVE  \E i \in 1..Len(Pages(d)) :
               /\ TakesPage(d, i)
               /\ \E q \in Client, k \in Stream : TakesOwn(d, i, q, k)
  BY <1>1, ReadTakes DEF TakesOrphan
<1> QED
  BY <1>1 DEF Next, Clients, Reads, Login, Join, Part, DeleteClient, TakeOut,
              SerialsFault, NewDataConnection, PeerSendsPage, ReadPart,
              ReadUnknown

\* Whoever is sent a page hears the client it is of.
LEMMA SentIsHeard ==
  ASSUME RelayInv, Next, NEW r \in Client, NEW n \in 1..Len(out'[r])
  PROVE  \E q \in Client :
           Shared(q, r) # {} /\ \E k \in Stream : told[q][k] = out'[r][n].serial
<1>1. out' # Silence
  <2>1. Len(Silence[r]) = 0
    BY EmptySeq DEF Silence
  <2> QED
    BY <2>1
<1>2. PICK d \in Conn : \E i \in 1..Len(Pages(d)) :
        /\ TakesPage(d, i)
        /\ \E q \in Client, k \in Stream : TakesOwn(d, i, q, k)
  BY <1>1, OnlyReadsSend
<1>3. PICK i \in 1..Len(Pages(d)) :
        /\ TakesPage(d, i)
        /\ \E q \in Client, k \in Stream : TakesOwn(d, i, q, k)
  BY <1>2
<1>4. PICK q \in Client, k \in Stream : TakesOwn(d, i, q, k)
  BY <1>3
<1> DEFINE m == MapAfter(d, i)
<1>5. PICK s \in CurrentPageSerials(q, d) :
        /\ serialMap' = LookedUp(m, {s})
        /\ Meaning(m, s).client # NoClient
        /\ stream'[q][Meaning(m, s).stream].at # NoConn
        /\ Broadcast(q, RawPage(stream'[q][Meaning(m, s).stream]))
  BY <1>1, <1>4 DEF TakesOwn, ProcessClientData, NothingSent
<1> DEFINE j == Meaning(m, s).stream
<1>6. j \in Stream
  <2>1. s \in DOMAIN m /\ Meaning(m, s) = m[s]
    BY <1>5 DEF Meaning, NullEntry
  <2>2. s \in DOMAIN serialMap' /\ serialMap'[s] = m[s]
    <3> HIDE DEF m
    <3> QED
      BY <1>5, <2>1 DEF LookedUp
  <2>3. MapOK'
    BY MapStep
  <2> HIDE DEF m
  <2>4. m[s] \in {NullEntry} \cup [client : Client \cup {Freed}, stream : Stream]
    BY <2>2, <2>3 DEF MapOK
  <2>5. m[s] # NullEntry
    BY <1>5, <2>1 DEF NullEntry
  <2> QED
    BY <2>1, <2>4, <2>5
<1> HIDE DEF m, j
<1>7. PICK c \in Conn :
        c = stream'[q][j].at /\ owner'[c] = q /\ current'[c] # NoPage
  BY <1>5, <1>6, PointersStep DEF PointersOK, j
<1>8. current'[c] \in PagesOf(c)'
  BY <1>7, PagesStep DEF PagesOK
<1>9. \E l \in Stream : told[q][l] = current'[c].serial
  <2>1. told' = told
    BY <1>3 DEF TakesPage
  <2>2. owner'[c] = q <=> current'[c].serial \in Serials(q)'
    BY <1>8 DEF PagesOf
  <2>3. current'[c].serial \in Serials(q)'
    BY <1>7, <2>2
  <2> QED
    BY <2>1, <2>3 DEF Serials
<1>10. Broadcast(q, current'[c])
  BY <1>5, <1>7 DEF RawPage, j
<1>11. Common(q, r) # {} /\ out'[r][n] = current'[c]
  <2>1. out'[r] = <<>> \/
        (Common(q, r) # {} /\
         out'[r] = [l \in 1..Cardinality(Common(q, r)) |-> current'[c]])
    BY <1>10 DEF Broadcast
  <2>2. out'[r] # <<>>
    BY EmptySeq
  <2>3. Common(q, r) # {}
    BY <2>1, <2>2
  <2>4. out'[r] = [l \in 1..Cardinality(Common(q, r)) |-> current'[c]]
    BY <2>1, <2>2
  <2> DEFINE N == Cardinality(Common(q, r))
  <2>5. n \in 1..N
    <3>1. IsFiniteSet(Common(q, r))
      BY ChanAssumption, FS_Subset DEF Common
    <3>2. N \in Nat
      BY <3>1, FS_CardinalityType
    <3> HIDE DEF N
    <3>3. out'[r] = [l \in 1..N |-> current'[c]]
      BY <2>4 DEF N
    <3>4. Len(out'[r]) = N
      BY <3>2, <3>3
    <3> QED
      BY <3>4
  <2> QED
    BY <2>3, <2>4, <2>5
<1> QED
  BY <1>9, <1>11, HearsOnShared

\* Every page on a client's connection is known.
LEMMA OwnersAreKnown ==
  ASSUME RelayInv, NEW d \in Conn, owner[d] \in Client, NEW i \in 1..Len(Pages(d))
  PROVE  Meaning(serialMap, Pages(d)[i].serial).client # NoClient
<1>1. Pages(d)[i] \in PagesOf(d)
  BY ReadIsWhole DEF RelayInv, HeaderInv, PageInv, WholePages
<1> DEFINE p == Pages(d)[i]
<1> HIDE DEF p
<1>2. PICK k \in Stream : /\ p.serial \in DOMAIN serialMap
                          /\ serialMap[p.serial] = Entry(owner[d], k)
  BY <1>1, OwnersPage DEF p
<1>3. Meaning(serialMap, p.serial).client = owner[d]
  BY <1>2 DEF Meaning, Entry
<1> QED
  BY <1>3 DEF p

\* Pages leave the connection of a client by ReadPage only.
LEMMA OnlyReadPageTakes ==
  ASSUME RelayInv, Next, NEW q \in Client, NEW d \in Conn, Takes(q, d)
  PROVE  ReadPage(d)
<1>1. /\ kernel \in [Conn -> Seq(GoodPages)]
      /\ decoder \in [Conn -> Seq(GoodPages)]
  BY DEF RelayInv, HeaderInv, PageInv
<1>2. owner[d] = q /\ owner'[d] = q
  BY DEF Takes
<1>3. Len(Pages(d)) \in Nat
  BY <1>1 DEF Pages
<1>4. ASSUME kernel'[d] = kernel[d], decoder'[d] = decoder[d]
      PROVE  FALSE
  <2>1. decoder'[d] \o kernel'[d] = Pages(d)
    BY <1>4 DEF Pages
  <2>2. Len(Pages(d)) < Len(Pages(d))
    BY <2>1 DEF Takes
  <2> QED
    BY <1>3, <2>2
<1>5. ASSUME NEW r \in Client, TakeOut(r)
      PROVE  FALSE
  <2>1. /\ owner' = [e \in Conn |-> IF owner[e] = r THEN NoClient ELSE owner[e]]
        /\ kernel' = [e \in Conn |-> IF e \in Owned(r) \ waiting THEN <<>>
                                                            ELSE kernel[e]]
        /\ decoder' = [e \in Conn |-> IF e \in Owned(r) \ waiting THEN <<>>
                                                             ELSE decoder[e]]
    BY <1>5 DEF TakeOut, Forget
  <2>2. d \notin Owned(r)
    BY <1>2, <2>1 DEF Owned
  <2> QED
    BY <1>4, <2>1, <2>2
<1>6. ASSUME NEW r \in Client, NEW e \in Conn, NEW k \in Stream,
             PeerSendsPage(r, e, k)
      PROVE  FALSE
  <2>1. PICK p \in GoodPages : kernel' = [kernel EXCEPT ![e] = Append(@, p)]
    BY <1>6, SentIsGood DEF RelayInv
  <2>2. decoder' = decoder
    BY <1>6 DEF PeerSendsPage
  <2>3. CASE e # d
    BY <1>1, <1>4, <2>1, <2>2, <2>3
  <2>4. CASE e = d
    <3>1. kernel'[d] = Append(kernel[d], p) /\ kernel[d] \in Seq(GoodPages)
      BY <1>1, <2>1, <2>4
    <3>2. Len(kernel'[d]) = Len(kernel[d]) + 1 /\ kernel'[d] \in Seq(GoodPages)
      BY <3>1, AppendProperties
    <3>3. decoder[d] \in Seq(GoodPages)
      BY <1>1
    <3>4. Len(decoder[d] \o kernel'[d]) = Len(decoder[d]) + Len(kernel'[d])
      BY <3>2, <3>3, ConcatProperties
    <3>5. Len(Pages(d)) = Len(decoder[d]) + Len(kernel[d])
      BY <3>1, <3>3, ConcatProperties DEF Pages
    <3>6. Len(decoder[d]) \in Nat /\ Len(kernel[d]) \in Nat
      BY <3>1, <3>3, LenProperties
    <3>7. Len(decoder[d] \o kernel'[d]) < Len(Pages(d))
      BY <2>2 DEF Takes
    <3> DEFINE x == Len(decoder[d])
               y == Len(kernel[d])
    <3>8. x + (y + 1) < x + y
      BY <3>2, <3>4, <3>5, <3>7
    <3>9. x \in Nat /\ y \in Nat
      BY <3>6
    <3> HIDE DEF x, y
    <3> QED
      BY <3>8, <3>9
  <2> QED
    BY <2>3, <2>4
<1>7. ASSUME NEW e \in Conn, ReadUnknown(e)
      PROVE  FALSE
  <2>1. CASE e # d
    BY <1>1, <1>4, <1>7, <2>1 DEF ReadUnknown
  <2>2. CASE e = d
    <3>1. PICK m \in 1..Len(Pages(d)) :
            \A i \in 1..m :
              Meaning(serialMap, Pages(d)[i].serial).client = NoClient
      <4>1. PageInv /\ ReadUnknown(d)
        BY <1>7, <2>2 DEF RelayInv, HeaderInv
      <4>2. \E m \in 1..Len(Pages(d)) :
              /\ serialMap' =
                   LookedUp(serialMap, {Pages(d)[i].serial : i \in 1..m})
              /\ \A i \in 1..m :
                   Meaning(serialMap, Pages(d)[i].serial).client = NoClient
        BY <4>1, UnknownLooksUp, Zenon
      <4> QED
        BY <4>2, Zenon
    <3>2. 1 \in 1..Len(Pages(d)) /\ 1 \in 1..m
      BY <1>3, <3>1
    <3> QED
      BY <1>2, <3>1, <3>2, OwnersAreKnown
  <2> QED
    BY <2>1, <2>2
<1>8. ASSUME NEW e \in Conn, ReadPage(e), e # d
      PROVE  FALSE
  <2>1. PICK i \in 1..Len(Pages(e)) : TakePage(e, i)
    BY <1>8 DEF ReadPage
  <2> QED
    BY <1>1, <1>4, <1>8, <2>1 DEF TakePage
<1>9. ASSUME NEW e \in Conn, ReadPart(e)
      PROVE  FALSE
  BY <1>4, <1>9 DEF ReadPart
<1>10. ASSUME \/ \E r \in Client : Login(r) \/ SerialsFault(r)
              \/ \E r \in Client, ch \in Chan : Join(r, ch) \/ Part(r, ch)
              \/ \E r \in Client, e \in Conn : NewDataConnection(r, e)
       PROVE  FALSE
  BY <1>4, <1>10 DEF Login, SerialsFault, Join, Part, NewDataConnection,
                     pageVars
<1> QED
  BY <1>5, <1>6, <1>7, <1>8, <1>9, <1>10
     DEF Next, Clients, Reads, DeleteClient

\* What a client sends on its only connection is relayed as it is.
LEMMA SentInOrder ==
  ASSUME RelayInv, Next, NEW q \in Client, NEW d \in Conn,
         Takes(q, d), Owned(q) = {d}
  PROVE  /\ decoder'[d] \o kernel'[d] = Tail(Pages(d))
         /\ \A r \in Client :
              out'[r] = IF conn'[r] = NoConn \/ r \in closed' THEN <<>>
                        ELSE [i \in 1..Cardinality(Shared(q, r)) |->
                                Head(Pages(d))]
<1>1. ReadPage(d) /\ owner[d] = q
  BY OnlyReadPageTakes DEF Takes
<1>2. PICK i \in 1..Len(Pages(d)) :
        /\ TakesPage(d, i)
        /\ \/ TakesOrphan(d, i)
           \/ \E c \in Client, k \in Stream : TakesOwn(d, i, c, k)
  BY <1>1, ReadTakes
<1>3. /\ Pages(d) \in Seq(WholePages(d))
      /\ Len(Pages(d)) \in Nat
      /\ \A j \in 1..Len(Pages(d)) : Pages(d)[j] \in WholePages(d)
  BY ReadIsWhole DEF RelayInv, HeaderInv, PageInv
<1>4. i = 1
  <2>1. ASSUME i > 1 PROVE FALSE
    <3>1. 1 \in 1..(i - 1) /\ 1 \in 1..Len(Pages(d))
      BY <1>3, <2>1
    <3>2. Meaning(serialMap, Pages(d)[1].serial).client = NoClient
      BY <1>2, <3>1 DEF TakesPage, FirstKnown
    <3> QED
      BY <1>1, <3>1, <3>2, OwnersAreKnown
  <2> QED
    BY <1>3, <2>1
<1>5. PICK k \in Stream : TakesOwn(d, 1, q, k)
  <2>1. ~TakesOrphan(d, i)
    BY <1>1 DEF TakesOrphan
  <2>2. PICK c \in Client, k \in Stream : TakesOwn(d, i, c, k)
    BY <1>2, <2>1
  <2>3. c = q
    BY <1>1, <2>2 DEF TakesOwn
  <2> QED
    BY <1>4, <2>2, <2>3
<1>6. TakesPage(d, 1) /\ 1 \in 1..Len(Pages(d))
  BY <1>2, <1>4
<1>7. decoder'[d] \o kernel'[d] = Tail(Pages(d))
  <2>1. /\ kernel \in [Conn -> Seq(GoodPages)]
        /\ decoder \in [Conn -> Seq(GoodPages)]
    BY DEF RelayInv, HeaderInv, PageInv
  <2>2. PICK rest, left :
          /\ kernel' = [kernel EXCEPT ![d] = rest]
          /\ decoder' = [decoder EXCEPT ![d] = left]
          /\ left \o rest = SubSeq(Pages(d), 1 + 1, Len(Pages(d)))
    <3>1. TakePage(d, 1)
      BY <1>6 DEF TakesPage
    <3> DEFINE S == GoodPages
    <3>2. kernel[d] \in Seq(S) /\ decoder[d] \in Seq(S)
      BY <2>1
    <3> HIDE DEF S
    <3>3. \E rest \in Seq(S), left \in Seq(S) :
            /\ kernel' = [kernel EXCEPT ![d] = rest]
            /\ decoder' = [decoder EXCEPT ![d] = left]
            /\ left \o rest = SubSeq(Pages(d), 1 + 1, Len(Pages(d)))
      BY <1>6, <3>1, <3>2, TakeLeaves, Zenon
    <3> QED
      BY <3>3, Zenon
  <2>3. decoder'[d] \o kernel'[d] = SubSeq(Pages(d), 2, Len(Pages(d)))
    BY <2>1, <2>2
  <2>4. SubSeq(Pages(d), 2, Len(Pages(d))) = Tail(Pages(d))
    BY <1>3, <1>6
  <2> QED
    BY <2>3, <2>4
<1>8. conn'[q] = d
  BY <1>5, <1>6, OwnConn DEF Owned
<1>9. Broadcast(q, Head(Pages(d)))
  <2>1. PICK s \in CurrentPageSerials(q, d) :
          LET st == stream'[q][Meaning(MapAfter(d, 1), s).stream] IN
          IF Meaning(MapAfter(d, 1), s).client = NoClient
          THEN NothingSent /\ UNCHANGED fault
          ELSE IF st.at = NoConn THEN NothingSent /\ fault' = "wildPage"
          ELSE Broadcast(q, RawPage(st)) /\ UNCHANGED fault
    BY <1>5 DEF TakesOwn, ProcessClientData
  <2>2. /\ Meaning(MapAfter(d, 1), s) = Entry(q, k)
        /\ stream'[q][k].at = d
        /\ RawPage(stream'[q][k]) = Pages(d)[1]
    BY <1>5, <1>6, <1>8, OwnLookup
  <2>3. Head(Pages(d)) = Pages(d)[1]
    BY <1>3, <1>6
  <2> QED
    BY <2>1, <2>2, <2>3 DEF Entry
<1>10. ASSUME NEW r \in Client
       PROVE  out'[r] = IF conn'[r] = NoConn \/ r \in closed' THEN <<>>
                        ELSE [n \in 1..Cardinality(Shared(q, r)) |->
                                Head(Pages(d))]
  <2> DEFINE p == Head(Pages(d))
             hears == {c \in Client : Common(q, c) # {} /\ conn'[c] # NoConn}
             copies == [n \in 1..Cardinality(Common(q, r)) |-> p]
  <2>1. PICK F \in SUBSET hears :
          /\ closed \cap hears \subseteq F
          /\ closed' = closed \cup F
          /\ out'[r] = IF r \in hears \ F THEN copies ELSE <<>>
    BY <1>9 DEF Broadcast
  <2>2. Common(q, r) = {} => copies = <<>>
    BY FS_EmptySet
  <2> HIDE DEF copies
  <2>3. out'[r] = IF conn'[r] = NoConn \/ r \in closed' THEN <<>> ELSE copies
    <3>1. CASE r \in hears
      BY <2>1, <3>1
    <3>2. CASE r \notin hears
      BY <2>1, <2>2, <3>2
    <3> QED
      BY <3>1, <3>2
  <2> QED
    BY <2>3, HearsOnShared DEF copies
<1> QED
  BY <1>7, <1>10

\* ProcessClientData and BroadcastData (Channel.cpp:159-168) pass on what a
\* client sends on its only connection as it is, in order, one page a read,
\* once for each shared channel; and, however many connections a client has,
\* nobody is sent a page of a client with which it shares no channel.
THEOREM RelaysAsSent == Spec => RelayedAsSent
<1> DEFINE A ==
      /\ \A q \in Client, d \in Conn :
           Takes(q, d) /\ Owned(q) = {d} =>
             /\ decoder'[d] \o kernel'[d] = Tail(Pages(d))
             /\ \A r \in Client :
                  out'[r] = IF conn'[r] = NoConn \/ r \in closed' THEN <<>>
                            ELSE [i \in 1..Cardinality(Shared(q, r)) |->
                                    Head(Pages(d))]
      /\ \A r \in Client : \A i \in 1..Len(out'[r]) :
           \E q \in Client :
             Shared(q, r) # {} /\ \E k \in Stream : told[q][k] = out'[r][i].serial
<1>1. RelayInv /\ [Next]_vars => [A]_vars
  BY SentInOrder, SentIsHeard
<1> QED
  BY <1>1, RelayInvariant, PTL DEF Spec, RelayedAsSent
=============================================================================
