------------------------------- MODULE Relay --------------------------------
(***************************************************************************)
(* What becomes of the pages clients send: ReadDataConnection and          *)
(* ProcessClientData (Server_DataProcess.cpp:87-184), BroadcastData        *)
(* (Channel.cpp:159-168), SendData (Client.cpp:151-171), the serials a     *)
(* client is given when it logs in, and the two streams of each client.    *)
(*                                                                         *)
(* The page a read takes is not passed on itself.  ProcessClientData asks  *)
(* the client's own data connection for the serial of its last page, which *)
(* need not be the connection that was read, then the serial map for the   *)
(* stream of that serial, then the stream for the page it points to.       *)
(*                                                                         *)
(* Who may connect and how a connection ends is in DataConns; logging in,  *)
(* joining and leaving are here as far as they matter (ChatServer).  The   *)
(* peers put their own two serials on their pages and no others (DataConns *)
(* has those that do not).                                                 *)
(*                                                                         *)
(* Three steps are undefined in the code: the use of a freed client, that  *)
(* of a page pointer that was never set, and the increment of an erased    *)
(* iterator in DeleteClientSerials.  They set `fault', and the model stops.*)
(***************************************************************************)
EXTENDS SerialMap, OggStream, SequencesExt

CONSTANTS
  Chan,        \* channels
  Conn,        \* data connections
  NoPage,      \* no page has come out of a decoder yet
  Layout,      \* Layout[k]: the bodies of the pages of a stream k
  Senders,     \* bound: the clients that send on both streams
  Multi,       \* bound: the clients with more than one data connection
  MaxLogins    \* bound: logins

ASSUME LayoutAssumption == Layout \in [Stream -> Seq(Body)]
ASSUME ChanAssumption   == IsFiniteSet(Chan)
ASSUME ConnAssumption   == NoConn \notin Conn /\ IsFiniteSet(Conn)
ASSUME PageAssumption   ==
  NoPage \notin [serial : Nat, no : Nat, body : Body, torn : BOOLEAN]
ASSUME BoundAssumption  == Senders \cup Multi \subseteq Client /\ MaxLogins \in Nat

VARIABLES
  serialMap,   \* m_SerialMap
  handedOut,   \* history: the highest serial handed out
  told,        \* told[q][k]: the serials of message 008; 0 before the login
  sent,        \* sent[q][k]: pages q has sent of its stream k
  on,          \* on[ch]: the members of ch
  closed,      \* m_fConnectionClosed, set by a send that failed
  conn,        \* conn[q]: m_pDataConnection
  waiting,     \* m_UnassignedDataConnectionVector, in any order
  owner,       \* owner[d]: the client that opened d
  kernel,      \* kernel[d]: pages received, not read
  decoder,     \* decoder[d]: pages read, not taken out of the decoder
  current,     \* current[d]: m_OggPage of d's decoder
  stream,      \* stream[q][k]: m_pVideoStream and m_pAudioStream
  out,         \* out[r]: the pages the last step sent to r
  fault        \* the undefined behaviour reached, if any

serialVars == <<serialMap, handedOut, told>>
connVars   == <<conn, waiting, owner>>
pageVars   == <<kernel, decoder, current, stream>>
vars == <<serialVars, sent, on, closed, connVars, pageVars, out, fault>>

LoggedIn == {q \in Client : told[q]["video"] # 0}
Owned(q) == {d \in Conn : owner[d] = q}
Garbage  == 0          \* a serial that is nobody's
Silence  == [r \in Client |-> <<>>]
NotTold  == [k \in Stream |-> 0]

-----------------------------------------------------------------------------
(* Clients log in, join, leave and go.                                     *)

\* GetNewVideoSerial and GetNewAudioSerial.
Login(q) ==
  /\ q \notin LoggedIn
  /\ handedOut + 2 =< 2 * MaxLogins
  /\ \E v \in NewSerials(serialMap, handedOut) :
       LET m == SetEntry(serialMap, v, q, "video")
           n == IF v > handedOut THEN v ELSE handedOut IN
       \E a \in NewSerials(m, n) :
         /\ serialMap' = SetEntry(m, a, q, "audio")
         /\ handedOut' = IF a > n THEN a ELSE n
         /\ told' = [told EXCEPT ![q] = [video |-> v, audio |-> a]]
  /\ out' = Silence
  /\ UNCHANGED <<sent, on, closed, connVars, pageVars, fault>>

Join(q, ch) ==
  /\ q \in LoggedIn \ on[ch]
  /\ on' = [on EXCEPT ![ch] = @ \cup {q}]
  /\ out' = Silence
  /\ UNCHANGED <<serialVars, sent, closed, connVars, pageVars, fault>>

Part(q, ch) ==
  /\ q \in on[ch]
  /\ on' = [on EXCEPT ![ch] = @ \ {q}]
  /\ out' = Silence
  /\ UNCHANGED <<serialVars, sent, closed, connVars, pageVars, fault>>

\* The connection in ~CClient, and those nobody holds any more, are gone.
\* Connections that still wait stay, with what their peer has sent.
Forget(q) ==
  LET D == Owned(q) \ waiting IN
  /\ owner' = [d \in Conn |-> IF owner[d] = q THEN NoClient ELSE owner[d]]
  /\ kernel' = [d \in Conn |-> IF d \in D THEN <<>> ELSE kernel[d]]
  /\ decoder' = [d \in Conn |-> IF d \in D THEN <<>> ELSE decoder[d]]
  /\ current' = [d \in Conn |-> IF d \in D THEN NoPage ELSE current[d]]

\* DeleteClientSerials increments the iterator to the node it has erased.
SerialsFault(q) ==
  /\ SerialsOf(serialMap, q) # {}
  /\ fault' = "erasedIterator"
  /\ out' = Silence
  /\ UNCHANGED <<serialVars, sent, on, closed, connVars, pageVars>>

\* The whole of DeleteClient, where the increment finds the rest of the map.
TakeOut(q) ==
  /\ q \in LoggedIn
  /\ serialMap' \in DeleteClientSerials(serialMap, q)
  /\ told' = [told EXCEPT ![q] = NotTold]
  /\ sent' = [sent EXCEPT ![q] = NotTold]
  /\ on' = [ch \in Chan |-> on[ch] \ {q}]
  /\ closed' = closed \ {q}
  /\ conn' = [conn EXCEPT ![q] = NoConn]
  /\ stream' = [stream EXCEPT ![q] = [k \in Stream |-> NewStream]]
  /\ Forget(q)
  /\ out' = Silence
  /\ UNCHANGED <<handedOut, waiting, fault>>

DeleteClient(q) == q \in LoggedIn /\ (SerialsFault(q) \/ TakeOut(q))

-----------------------------------------------------------------------------
(* The peers' data connections, external.                                  *)

Open == waiting \cup {d \in Conn : owner[d] # NoClient}

\* The ports are told at the end of the login (message 011).
NewDataConnection(q, d) ==
  /\ q \in LoggedIn
  /\ d \notin Open
  /\ q \in Multi \/ Owned(q) = {}
  /\ waiting' = waiting \cup {d}
  /\ owner' = [owner EXCEPT ![d] = q]
  /\ out' = Silence
  /\ UNCHANGED <<serialVars, sent, on, closed, conn, pageVars, fault>>

PeerSendsPage(q, d, k) ==
  /\ q \in LoggedIn
  /\ d \in Owned(q)
  /\ sent[q][k] < Len(Layout[k])
  /\ q \in Senders \/ (k = "video" /\ sent[q][k] = 0)
  /\ LET no == sent[q][k] + 1
         p  == [serial |-> told[q][k], no |-> no, body |-> Layout[k][no],
                torn |-> FALSE] IN
     /\ kernel' = [kernel EXCEPT ![d] = Append(@, p)]
     /\ sent' = [sent EXCEPT ![q][k] = no]
  /\ out' = Silence
  /\ UNCHANGED <<serialVars, on, closed, connVars, decoder, current, stream,
                 fault>>

-----------------------------------------------------------------------------
(* Passing a page on.                                                      *)

Others(q, ch) == IF q \in on[ch] THEN on[ch] \ {q} ELSE {}

\* Variant: BroadcastData does not leave the sender out.
WithSender(q, r) == {ch \in Chan : q \in on[ch] /\ r \in on[ch]}

\* The channels in which r hears q.
Common(q, r) == {ch \in Chan : r \in Others(q, ch)}

\* Every channel of q sends p once to each other member, if that has a data
\* connection.  A send that fails, for the members F, marks the receiver.
Broadcast(q, p) ==
  LET hears == {r \in Client : Common(q, r) # {} /\ conn'[r] # NoConn} IN
  \E F \in SUBSET hears :
    /\ closed \cap hears \subseteq F
    /\ closed' = closed \cup F
    /\ out' = [r \in Client |->
                 IF r \in hears \ F
                 THEN [i \in 1..Cardinality(Common(q, r)) |-> p]
                 ELSE <<>>]

NothingSent == closed' = closed /\ out' = Silence

\* What ogg_page_serialno may read in the m_OggPage of q's connection: the
\* bytes of a torn page may be those of the next one.
SerialsRead(q, p) ==
  IF p.torn THEN {p.serial, Garbage} \cup {told[q][k] : k \in Stream}
            ELSE {p.serial}

\* The serials by which ProcessClientData may look for the stream.
CurrentPageSerials(q, d) == SerialsRead(q, current'[conn'[q]])

\* GetRawPage: what m_pOggPage of the stream st points to by now.
RawPage(st) == current'[st.at]

\* ProcessClientData, after a page of q was read on d; the lookups of the
\* read have left the map m.
ProcessClientData(q, d, m) ==
  \E s \in CurrentPageSerials(q, d) :
    LET st == stream'[q][Meaning(m, s).stream] IN
    /\ serialMap' = LookedUp(m, {s})
    /\ IF Meaning(m, s).client = NoClient THEN NothingSent /\ UNCHANGED fault
       ELSE IF st.at = NoConn THEN NothingSent /\ fault' = "wildPage"
       ELSE Broadcast(q, RawPage(st)) /\ UNCHANGED fault

-----------------------------------------------------------------------------
(* ReadDataConnection.                                                     *)

\* The connections Loop reads: unassigned ones and those of clients.
Read == waiting \cup ({conn[q] : q \in Client} \ {NoConn})

\* A recv that completes no page writes over the memory of the last one.
ReadPart(d) ==
  /\ d \in Read
  /\ owner[d] \in LoggedIn
  /\ decoder[d] = <<>>
  /\ current[d] # NoPage
  /\ ~current[d].torn
  /\ current' = [current EXCEPT ![d].torn = TRUE]
  /\ out' = Silence
  /\ UNCHANGED <<serialVars, sent, on, closed, connVars, kernel, decoder,
                 stream, fault>>

\* The pages on d, in the order they are read.
Pages(d) == decoder[d] \o kernel[d]

\* recv gives MAXDATAREAD bytes at most: after it the decoder has the pages
\* of d up to one of these.
Given(d) == Len(decoder[d])..Len(Pages(d))

\* Is page i the first one of a client?
FirstKnown(d, i) ==
  /\ Meaning(serialMap, Pages(d)[i].serial).client # NoClient
  /\ \A j \in 1..(i - 1) :
       Meaning(serialMap, Pages(d)[j].serial).client = NoClient

\* What is in the decoder is of clients that have gone: it is dropped, and
\* each of the serials gets an entry.
ReadUnknown(d) ==
  /\ d \in Read
  /\ \E m \in Given(d) \ {0} :
     /\ \A i \in 1..m : Meaning(serialMap, Pages(d)[i].serial).client = NoClient
     /\ serialMap' = LookedUp(serialMap, {Pages(d)[i].serial : i \in 1..m})
     /\ kernel' = [kernel EXCEPT ![d] = SubSeq(Pages(d), m + 1, Len(Pages(d)))]
     /\ decoder' = [decoder EXCEPT ![d] = <<>>]
     /\ current' = [current EXCEPT ![d] = Pages(d)[m]]
  /\ out' = Silence
  /\ UNCHANGED <<handedOut, told, sent, on, closed, connVars, stream, fault>>

\* Page i is taken out of the decoder, those before it are dropped, those
\* behind it wait for the next read, there or in the kernel.
TakePage(d, i) ==
  /\ \E m \in Given(d) :
     /\ i =< m
     /\ kernel' = [kernel EXCEPT ![d] = SubSeq(Pages(d), m + 1, Len(Pages(d)))]
     /\ decoder' = [decoder EXCEPT ![d] = SubSeq(Pages(d), i + 1, m)]
  /\ current' = [current EXCEPT ![d] = Pages(d)[i]]

\* Variant: the connection is not erased from the unassigned ones.
StaysUnassigned(d) == waiting

\* res >= 0: the connection has been assigned to a client (Server.cpp:180).
UnassignedWithout(d) == waiting \ {d}

ReadPage(d) ==
  /\ d \in Read
  /\ \E i \in 1..Len(Pages(d)) :
     /\ FirstKnown(d, i)
     /\ TakePage(d, i)
     /\ LET p == Pages(d)[i]
            e == serialMap[p.serial]
            q == e.client
            m == LookedUp(serialMap, {Pages(d)[j].serial : j \in 1..i}) IN
        IF q = Freed
        THEN /\ fault' = "freedClient"
             /\ serialMap' = m
             /\ NothingSent
             /\ UNCHANGED <<connVars, stream>>
        ELSE /\ conn' = [conn EXCEPT ![q] = IF @ = NoConn THEN d ELSE @]
             /\ waiting' = UnassignedWithout(d)
             /\ stream' = [stream EXCEPT ![q][e.stream] = FeedPage(@, d, p)]
             /\ ProcessClientData(q, d, m)
             /\ UNCHANGED owner
  /\ UNCHANGED <<handedOut, told, sent, on>>

-----------------------------------------------------------------------------
Init ==
  /\ serialMap = EmptyMap
  /\ handedOut = 0
  /\ told = [q \in Client |-> NotTold]
  /\ sent = [q \in Client |-> NotTold]
  /\ on = [ch \in Chan |-> {}]
  /\ closed = {}
  /\ conn = [q \in Client |-> NoConn]
  /\ waiting = {}
  /\ owner = [d \in Conn |-> NoClient]
  /\ kernel = [d \in Conn |-> <<>>]
  /\ decoder = [d \in Conn |-> <<>>]
  /\ current = [d \in Conn |-> NoPage]
  /\ stream = [q \in Client |-> [k \in Stream |-> NewStream]]
  /\ out = Silence
  /\ fault = "none"

Clients ==
  \/ \E q \in Client : Login(q) \/ DeleteClient(q)
  \/ \E q \in Client, ch \in Chan : Join(q, ch) \/ Part(q, ch)
  \/ \E q \in Client, d \in Conn : NewDataConnection(q, d)
  \/ \E q \in Client, d \in Conn, k \in Stream : PeerSendsPage(q, d, k)

Reads == \E d \in Conn : ReadPart(d) \/ ReadUnknown(d) \/ ReadPage(d)

Next == fault = "none" /\ (Clients \/ Reads)

Spec == Init /\ [][Next]_vars

-----------------------------------------------------------------------------
(* Properties.                                                             *)

PageType ==
  [serial : 1..handedOut, no : Nat, body : Body, torn : BOOLEAN]

\* Every variable keeps its type; a connection is unassigned, or a client's,
\* or lost, never two of these.
TypeOK ==
  /\ DOMAIN serialMap \subseteq 0..handedOut
  /\ \A s \in DOMAIN serialMap :
       serialMap[s] \in {NullEntry} \cup
         [client : Client \cup {Freed}, stream : Stream]
  /\ told \in [Client -> [Stream -> 0..handedOut]]
  /\ on \in [Chan -> SUBSET LoggedIn]
  /\ closed \subseteq LoggedIn
  /\ conn \in [Client -> Conn \cup {NoConn}]
  /\ owner \in [Conn -> LoggedIn \cup {NoClient}]
  /\ \A q \in Client :
       conn[q] # NoConn => owner[conn[q]] = q /\ conn[q] \notin waiting
  /\ kernel \in [Conn -> Seq(PageType)]
  /\ decoder \in [Conn -> Seq(PageType)]
  /\ current \in [Conn -> PageType \cup {NoPage}]
  /\ fault \in {"none", "freedClient", "wildPage", "erasedIterator"}

\* Serials are unique (README:54): for as long as a client is logged in, the
\* two it was told, and no others, mean it and its two streams.
SerialsAreTheClients ==
  \A q \in LoggedIn :
    /\ SerialsOf(serialMap, q) = {told[q][k] : k \in Stream}
    /\ \A k \in Stream : serialMap[told[q][k]] = Entry(q, k)

\* The header vector of a stream holds header pages only: the first ones of
\* the stream, with none left out between them.
HeadersAreHeaders ==
  \A q \in Client, k \in Stream :
    LET h == stream[q][k].headers IN
    \A i \in 1..Len(h) : h[i] = i /\ Layout[k][i] = "header"

\* What undefined behaviour takes: a page pointer is only followed before it
\* is set for a client with two connections, a freed client is only found
\* by a connection that has outlived it, and the erased iterator is only
\* met while somebody is logged in.
FaultCause ==
  /\ fault = "wildPage" => \E q \in Client : Cardinality(Owned(q)) > 1
  /\ fault = "freedClient" => \E d \in waiting : owner[d] = NoClient
  /\ fault = "erasedIterator" => LoggedIn # {}

\* The page the step takes out of connection d, of the client q, if any.
Takes(q, d) ==
  /\ owner[d] = q /\ owner'[d] = q
  /\ Len(decoder'[d] \o kernel'[d]) < Len(Pages(d))

\* The channels two clients have in common.
Shared(q, r) == {ch \in Chan : q # r /\ {q, r} \subseteq on[ch]}

\* What a client sends on its only data connection reaches the others on its
\* channels as it is, in the order sent, one page a read, once for each
\* channel they have in common; whoever has no data connection, or one that
\* fails, is passed over.  Nobody is sent a page of a client it does not hear.
RelayedAsSent ==
  [][/\ \A q \in Client, d \in Conn :
          Takes(q, d) /\ Owned(q) = {d} =>
            /\ decoder'[d] \o kernel'[d] = Tail(Pages(d))
            /\ \A r \in Client :
                 out'[r] = IF conn'[r] = NoConn \/ r \in closed' THEN <<>>
                           ELSE [i \in 1..Cardinality(Shared(q, r)) |->
                                   Head(Pages(d))]
     /\ \A r \in Client : \A i \in 1..Len(out'[r]) :
          \E q \in Client :
            Shared(q, r) # {} /\ \E k \in Stream : told[q][k] = out'[r][i].serial
    ]_vars

\* Client's incoming video and audio stream automatically sent to the
\* channels' members the client is on (README:60): what is sent on is the
\* page that has come in.
IncomingIsSent ==
  [][\A q \in Client, d \in Conn :
       Takes(q, d) => \A r \in Client, i \in 1..2 :
         i \in 1..Len(out'[r]) => out'[r][i] = Head(Pages(d))]_vars
=============================================================================
