----------------------------- MODULE DataConns ------------------------------
(***************************************************************************)
(* Data connections: NewDataConnection, the walk over the unassigned ones, *)
(* ReadDataConnection and what it does when a connection ends              *)
(* (Server_DataProcess.cpp, Server.cpp:156-215 and 269-280).               *)
(*                                                                         *)
(* A connection is unassigned until the first page on it tells, by its     *)
(* serial, which client it belongs to.  The code asks the serial map, and  *)
(* never who has opened the connection: peers may put others' serials on   *)
(* their pages (Mixers).  In place of its serial a page here names the     *)
(* client that was given the serial; a client that is not there any more   *)
(* has left none in the serial map, or one that leads to freed memory      *)
(* (stale).  A used address that is used again is in ChatServer and Relay. *)
(*                                                                         *)
(* One recv takes MAXDATAREAD bytes (Main.h:34) at most, which may be less *)
(* than a page and less than what has come; one page of a known client is  *)
(* taken out of the decoder, and the rest waits for the next read.         *)
(*                                                                         *)
(* Some steps are undefined in the code: an iterator incremented past the  *)
(* end or when erased, a method called on a null pointer, a null pointer   *)
(* left in m_ClientVector, the use of a freed client, and a connection     *)
(* freed under a client that shares it.  They set `fault', and the model   *)
(* stops.                                                                  *)
(*                                                                         *)
(* m_ClientVector is served in any order (ClientWalk has the walk).  The   *)
(* page goes on to channel members (BroadcastData, in Relay); where that   *)
(* send fails the receiver is dropped by the checks: DeleteClient here.    *)
(***************************************************************************)
EXTENDS Integers, Sequences, SequencesExt

CONSTANTS
  Client,       \* the clients
  Conn,         \* data connections; one that is closed may be opened again
  IP,           \* IP[q]: the address q connects from
  Resolved,     \* the addresses that gethostbyaddr finds a name for
  NoConn,       \* no data connection
  NoClient,     \* no client
  Mixers,       \* the peers that put others' serials on their pages
  Watched,      \* the connections the liveness property is about
  MaxPages      \* bound: MaxPages[d]: the pages of d not yet read

ASSUME IPAssumption      == DOMAIN IP = Client
ASSUME NoConnAssumption  == NoConn \notin Conn /\ NoClient \notin Client
ASSUME WatchedAssumption == Watched \subseteq Conn
ASSUME MixersAssumption  == Mixers \subseteq Client
ASSUME PagesAssumption   == MaxPages \in [Conn -> Nat]

VARIABLES
  vector,       \* m_ClientVector
  loggedIn,     \* clients logged in: their serials are in the serial map
  conn,         \* conn[q]: m_pDataConnection
  stale,        \* clients deleted of which a serial was left in the map
  mixed,        \* history: those who used another's serial, and the others
  unassigned,   \* m_UnassignedDataConnectionVector
  owner,        \* owner[d]: the client at the other end of d
  kernel,       \* kernel[d]: pages received, not read to their end
  decoder,      \* decoder[d]: pages read, not taken out of the decoder
  eof,          \* connections their peer has closed
  walk,         \* index of the walk over unassigned, 0 outside of it
  ready,        \* the connections select() found readable, for the walk
  fault         \* the undefined behaviour reached, if any

clientVars == <<vector, loggedIn, conn, stale>>
pageVars   == <<kernel, decoder>>
walkVars   == <<unassigned, walk, ready>>
vars == <<clientVars, mixed, owner, pageVars, eof, walkVars, fault>>

Members == ToSet(vector)
Waiting == ToSet(unassigned)
Open    == {d \in Conn : owner[d] # NoClient}

-----------------------------------------------------------------------------
(* The peers, external.                                                    *)

\* The pages on d, in the order they are read.
Pages(d) == decoder[d] \o kernel[d]

\* A serial of q is used on a connection r has opened: its own, or another's.
\* One that is not in m_ClientVector was there before, or was never.
PeerSendsPage(d, q) ==
  LET r == owner[d] IN
  /\ d \in Open \ eof
  /\ q = r \/ r \in Mixers
  /\ q \in loggedIn \/ q \notin Members
  /\ Len(Pages(d)) < MaxPages[d]
  /\ kernel' = [kernel EXCEPT ![d] = Append(@, q)]
  /\ mixed' = IF q = r THEN mixed ELSE mixed \cup {q, r}
  /\ UNCHANGED <<clientVars, owner, decoder, eof, walkVars, fault>>

PeerClosesData(d) ==
  /\ d \in Open \ eof
  /\ eof' = eof \cup {d}
  /\ UNCHANGED <<clientVars, mixed, owner, pageVars, walkVars, fault>>

-----------------------------------------------------------------------------
(* Clients come, log in and go (ChatServer); here as far as it matters.    *)

Fail(kind) ==
  /\ fault' = kind
  /\ UNCHANGED <<clientVars, mixed, owner, pageVars, eof, walkVars>>

Idle == walk = 0

\* One that comes back is another client, with other serials: nothing of
\* the one before is on its way or left in the serial map.
NewClientConnect(q) ==
  /\ Idle
  /\ q \notin Members \cup stale
  /\ \A d \in Conn : owner[d] # q /\ q \notin ToSet(Pages(d))
  /\ vector' = Append(vector, q)
  /\ mixed' = mixed \ {q}
  /\ UNCHANGED <<loggedIn, conn, stale, owner, pageVars, eof, walkVars, fault>>

Login(q) ==
  /\ Idle
  /\ q \in Members \ loggedIn
  /\ loggedIn' = loggedIn \cup {q}
  /\ UNCHANGED <<vector, conn, stale, mixed, owner, pageVars, eof, walkVars,
                 fault>>

\* The connections of D are closed and freed.
Free(D) ==
  /\ owner' = [d \in Conn |-> IF d \in D THEN NoClient ELSE owner[d]]
  /\ kernel' = [d \in Conn |-> IF d \in D THEN <<>> ELSE kernel[d]]
  /\ decoder' = [d \in Conn |-> IF d \in D THEN <<>> ELSE decoder[d]]
  /\ eof' = eof \ D

\* The connections ~CClient deletes.
HeldBy(q) == {d \in Conn : conn[q] = d}

\* Another client has the same connection: it is left with a freed one, and
\* the next round asks for its socket.
Shares(q) == \E r \in Client \ {q} : conn[r] \in HeldBy(q)

\* The outcomes of DeleteClientSerials that are not undefined: all of q's
\* serials are taken out, or one is passed over.
SerialsLeft(q) == IF q \in loggedIn THEN {stale, stale \cup {q}} ELSE {stale}

TakeOut(q) ==
  /\ \E i \in 1..Len(vector) : vector[i] = q /\ vector' = RemoveAt(vector, i)
  /\ loggedIn' = loggedIn \ {q}
  /\ conn' = [conn EXCEPT ![q] = NoConn]
  /\ stale' \in SerialsLeft(q)
  /\ Free(HeldBy(q))
  /\ UNCHANGED <<mixed, walkVars, fault>>

\* DeleteClient called with a variable of Loop's own: QUIT, a lost control
\* connection, a ping timeout, or a send that failed.  Of a client that has
\* serials it increments the iterator to the map node it has erased.
DeleteClient(q) ==
  /\ Idle
  /\ q \in Members
  /\ \/ q \in loggedIn /\ Fail("erasedIterator")
     \/ Shares(q) /\ Fail("freedConnection")
     \/ ~Shares(q) /\ TakeOut(q)

-----------------------------------------------------------------------------
(* NewDataConnection.                                                      *)

\* SetIP is only called for a client whose address has a name.
KnownIP(ip) == \E r \in loggedIn : IP[r] = ip /\ ip \in Resolved

\* Any other connection is closed again at once, and leaves nothing behind.
NewDataConnection(q, d) ==
  /\ Idle
  /\ q \in Members
  /\ d \notin Open
  /\ KnownIP(IP[q])
  /\ unassigned' = Append(unassigned, d)
  /\ owner' = [owner EXCEPT ![d] = q]
  /\ UNCHANGED <<clientVars, mixed, pageVars, eof, walk, ready, fault>>

-----------------------------------------------------------------------------
(* ReadDataConnection.                                                     *)

\* After recv the decoder has the pages of d up to one of these.  It may
\* give no page's end, or nothing and errno is EAGAIN: left over from
\* another recv, or because the answer of select() is stale.
Given(d) == Len(decoder[d])..Len(Pages(d))

\* GetClient finds a pointer for page i of d, the first one for which it does.
FirstKnown(d, i) ==
  /\ Pages(d)[i] \in loggedIn \cup stale
  /\ \A j \in 1..(i - 1) : Pages(d)[j] \notin loggedIn \cup stale

\* The read can get to a page of one of Q.
Finds(d, Q) == \E i \in 1..Len(Pages(d)) : FirstKnown(d, i) /\ Pages(d)[i] \in Q

\* What recv has not given, when the decoder has had m pages.
Rest(d, m) == SubSeq(Pages(d), m + 1, Len(Pages(d)))

\* Variant: the page's client is given the connection whatever it has.
AlwaysTake(d, q) == [conn EXCEPT ![q] = d]

\* The client the page names gets the connection, unless it has one.
TakeConnection(d, q) == IF conn[q] = NoConn THEN [conn EXCEPT ![q] = d] ELSE conn

\* What the read returns: 0 if it takes a page of a client, -2 if there is
\* none in the decoder.  Pages that belong to nobody are dropped.
Read(d, res) ==
  /\ \E m \in Given(d) :
       /\ kernel' = [kernel EXCEPT ![d] = Rest(d, m)]
       /\ \/ /\ res = 0
             /\ \E i \in 1..m :
                  /\ FirstKnown(d, i) /\ Pages(d)[i] \in loggedIn
                  /\ decoder' = [decoder EXCEPT ![d] = SubSeq(Pages(d), i + 1, m)]
                  /\ conn' = TakeConnection(d, Pages(d)[i])
          \/ /\ res = -2
             /\ \A i \in 1..m : Pages(d)[i] \notin loggedIn \cup stale
             /\ decoder' = [decoder EXCEPT ![d] = <<>>]
             /\ UNCHANGED conn
  /\ UNCHANGED <<vector, loggedIn, stale, mixed, owner, eof, fault>>

\* The serial of a page leads to a client that has been freed.
ReadFreed(d) == Finds(d, stale) /\ Fail("freedClient")

\* Is there a client before index i without a data connection?  The search
\* for the lost connection's client calls GetSocket through all of them.
NullBefore(i) == \E j \in 1..(i - 1) : conn[vector[j]] = NoConn

\* The end of a client's data connection.  DeleteClient is handed the slot of
\* m_ClientVector it erases: the next client moves into that slot and is
\* freed in the place of the one found, and a null pointer stays in the
\* vector.  If the one found is the last, the slot is behind the end, and so
\* is Loop's iterator.
DataClosed(d) ==
  \E i \in 1..Len(vector) :
    /\ conn[vector[i]] = d
    /\ \A j \in 1..(i - 1) : conn[vector[j]] # d
    /\ IF NullBefore(i) THEN Fail("nullConnection")
       ELSE IF i < Len(vector) THEN Fail("nullClient")
       ELSE Fail("pastTheEnd")

ServeData(q) ==
  /\ Idle
  /\ q \in Members
  /\ conn[q] # NoConn
  /\ LET d == conn[q] IN
     \/ /\ \E res \in {0, -2} : Read(d, res)
        /\ UNCHANGED walkVars
     \/ ReadFreed(d)
     \/ /\ kernel[d] = <<>>
        /\ d \in eof
        /\ DataClosed(d)

-----------------------------------------------------------------------------
(* The walk over the unassigned connections.                               *)

StartWalk ==
  /\ Idle
  /\ unassigned # <<>>
  /\ walk' = 1
  /\ ready' = {d \in Waiting : kernel[d] # <<>> \/ d \in eof}
  /\ UNCHANGED <<clientVars, mixed, unassigned, owner, pageVars, eof, fault>>

\* Variant: the loop tests for the end one connection late.
StepFromLate(i, n) ==
  IF i > n THEN walk' = 0 /\ ready' = {}
           ELSE walk' = i + 1 /\ UNCHANGED ready

\* Variant: one connection is looked at in a round.
OneEachRound(i, n) == walk' = 0 /\ ready' = {}

\* Loop's it++ from index i of a vector of n connections.
StepFrom(i, n) ==
  IF i >= n THEN walk' = 0 /\ ready' = {}
            ELSE walk' = i + 1 /\ UNCHANGED ready

\* Variant: the test for an empty vector is left out.
EraseFaultsAlways == walk = Len(unassigned)

\* erase( it ), and then the it++: the connection that moved into the slot
\* is passed over, and at the end of the vector the iterator leaves it.
\* A vector that gets empty ends the walk before the it++.
EraseFaults == walk = Len(unassigned) /\ Len(unassigned) > 1

\* Variant: the connection stays in the vector.
EraseNothing ==
  /\ unassigned' = unassigned
  /\ StepFrom(walk, Len(unassigned))

Erase ==
  /\ unassigned' = RemoveAt(unassigned, walk)
  /\ StepFrom(walk, Len(unassigned) - 1)

PassBy ==
  /\ walk > 0
  /\ unassigned[walk] \notin ready
  /\ StepFrom(walk, Len(unassigned))
  /\ UNCHANGED <<clientVars, mixed, unassigned, owner, pageVars, eof, fault>>

\* Variant: -2 is taken for an assignment.
Always(res) == TRUE

\* The connection has been assigned to a client, the code says of it then.
Assigned(res) == res >= 0

\* Bytes on an unassigned connection.
ReadUnassigned ==
  /\ walk > 0
  /\ LET d == unassigned[walk] IN
     /\ d \in ready
     /\ \/ ReadFreed(d)
        \/ Finds(d, loggedIn) /\ EraseFaults /\ Fail("pastTheEnd")
        \/ \E res \in {0, -2} :
             /\ Read(d, res)
             /\ IF Assigned(res)
                THEN ~EraseFaults /\ Erase
                ELSE StepFrom(walk, Len(unassigned)) /\ UNCHANGED unassigned

\* The end of an unassigned connection, which is no client's: the search
\* goes through all of m_ClientVector.
UnassignedClosed ==
  /\ walk > 0
  /\ LET d == unassigned[walk] IN
     /\ d \in ready
     /\ kernel[d] = <<>>
     /\ d \in eof
     /\ IF NullBefore(Len(vector) + 1) THEN Fail("nullConnection")
        ELSE IF EraseFaults THEN Fail("pastTheEnd")
        ELSE /\ Free({d})
             /\ Erase
             /\ UNCHANGED <<clientVars, mixed, fault>>

\* The socket is in er: closed without the search.
UnassignedError ==
  /\ walk > 0
  /\ IF EraseFaults THEN Fail("pastTheEnd")
     ELSE /\ Free({unassigned[walk]})
          /\ Erase
          /\ UNCHANGED <<clientVars, mixed, fault>>

-----------------------------------------------------------------------------
Init ==
  /\ vector = <<>>
  /\ loggedIn = {}
  /\ conn = [q \in Client |-> NoConn]
  /\ stale = {} /\ mixed = {}
  /\ unassigned = <<>>
  /\ owner = [d \in Conn |-> NoClient]
  /\ kernel = [d \in Conn |-> <<>>]
  /\ decoder = [d \in Conn |-> <<>>]
  /\ eof = {}
  /\ walk = 0
  /\ ready = {}
  /\ fault = "none"

Walk ==
  StartWalk \/ PassBy \/ ReadUnassigned \/ UnassignedClosed \/ UnassignedError

Loop ==
  \/ Walk
  \/ \E q \in Client : ServeData(q)

Clients ==
  \/ \E q \in Client : NewClientConnect(q) \/ Login(q) \/ DeleteClient(q)
  \/ \E q \in Client, d \in Conn : NewDataConnection(q, d) \/ PeerSendsPage(d, q)
  \/ \E d \in Conn : PeerClosesData(d)

Next == fault = "none" /\ (Loop \/ Clients)

Spec == Init /\ [][Next]_vars

\* The walk reads the end of a page on d, or what that leads to is undefined.
ReadsPage(d) ==
  /\ fault = "none"
  /\ ReadUnassigned
  /\ unassigned[walk] = d
  /\ Len(kernel'[d]) < Len(kernel[d]) \/ fault' # "none"

\* Every round of Loop walks over the unassigned connections.  Each recv on
\* a connection that has bytes takes some: a page ends with one of them.
FairSpec ==
  /\ Spec
  /\ WF_vars(fault = "none" /\ Walk)
  /\ \A d \in Watched : SF_vars(ReadsPage(d))

-----------------------------------------------------------------------------
(* Properties.                                                             *)

\* Every variable keeps its type, and the walk is at a connection.
TypeOK ==
  /\ vector \in Seq(Client) /\ IsInjective(vector)
  /\ loggedIn \subseteq Members
  /\ conn \in [Client -> Conn \cup {NoConn}]
  /\ stale \subseteq Client \ Members /\ mixed \subseteq Client
  /\ unassigned \in Seq(Conn) /\ IsInjective(unassigned)
  /\ owner \in [Conn -> Client \cup {NoClient}]
  /\ kernel \in [Conn -> Seq(Client)] /\ decoder \in [Conn -> Seq(Client)]
  /\ \A d \in Conn : Len(Pages(d)) \in 0..MaxPages[d]
  /\ eof \subseteq Open
  /\ walk \in 0..Len(unassigned)
  /\ ready \subseteq Conn
  /\ fault \in {"none", "pastTheEnd", "erasedIterator", "nullConnection",
                "nullClient", "freedClient", "freedConnection"}

\* The data connection of a client is open and no longer unassigned, so the
\* walk never closes it, and it is its own for as long as nobody has used
\* another's serial with it: the code goes by the serial of a page alone.
ConnIsOwn ==
  \A q \in Client : conn[q] # NoConn =>
    /\ q \in loggedIn
    /\ conn[q] \in Open \ Waiting
    /\ q \notin mixed => owner[conn[q]] = q

\* A connection that is taken out of the unassigned ones leaves its client
\* with a data connection, this one or an earlier one, unless another's
\* serial was on it.
ServedOrWaiting ==
  \A d \in Open \ Waiting :
    owner[d] \in Members \ mixed => conn[owner[d]] # NoConn

\* What undefined behaviour takes.  Past the end of a vector, or to a null
\* pointer: two unassigned connections at a time, or a connection that ends.
\* To a freed client: a connection that has outlived it, or serials that were
\* mixed.  To a freed connection: the latter.
\* The erased iterator takes a client that is logged in, and no more.
FaultCause ==
  /\ fault \in {"pastTheEnd", "nullConnection", "nullClient"} =>
       Len(unassigned) > 1 \/ eof # {}
  /\ fault = "freedClient" =>
       \E q \in stale : q \in mixed \/ \E d \in Conn : owner[d] = q
  /\ fault = "freedConnection" => \E q \in mixed : conn[q] # NoConn
  /\ fault = "erasedIterator" => loggedIn # {}

\* A client keeps its data connection until it is deleted.
KeepsConnection ==
  [][\A q \in Client : conn[q] # NoConn =>
        conn'[q] = conn[q] \/ q \notin ToSet(vector')]_vars

\* What has come on an unassigned connection is read, page by page, for as
\* long as it stays unassigned, although the walk passes over the connection
\* behind one it erases.  Connections are interchangeable: what holds of one
\* watched holds of all.
UnassignedIsRead ==
  \A d \in Watched :
    <>[](d \in Waiting /\ kernel[d] # <<>> /\ fault = "none") =>
      []<><<Len(kernel'[d]) < Len(kernel[d])>>_vars
=============================================================================
