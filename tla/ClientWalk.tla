----------------------------- MODULE ClientWalk -----------------------------
(***************************************************************************)
(* CServer::Loop and its walk over m_ClientVector (Server.cpp:66-304), for *)
(* the control connections, with what ReadClientMessage makes of recv.     *)
(*                                                                         *)
(* select() is asked once a round; the walk then serves the clients in     *)
(* vector order with that answer.  A client that is dropped makes the walk *)
(* start again at begin(), and the loop's it++ moves past the first client *)
(* at once: clients behind it are served a second time with the same,      *)
(* now stale, answer, and a first client not yet served is passed over.    *)
(*                                                                         *)
(* recv of a stale answer gives -1 and EAGAIN, which is not a reason to    *)
(* drop the client, and the -1 is added to the buffer position.  A later   *)
(* recv then writes in front of m_pReadBuf, into m_pAudioStream: `fault'.  *)
(* errno is not set by a recv that returns 0: it is what an earlier call,  *)
(* on whichever connection, has left, and so either value here.            *)
(*                                                                         *)
(* What the commands do is in ChatServer; a line is a QUIT (or anything    *)
(* else that drops its sender) or not.  The server has no password.        *)
(***************************************************************************)
EXTENDS Integers, Sequences, SequencesExt

CONSTANTS
  Client,       \* the clients, each known by its connection
  MaxPart,      \* bound: bytes of one unfinished line in a buffer
  Slow,         \* bound: the clients that send unfinished lines
  Urgent,       \* bound: the clients that may get into select()'s er set
  Watched       \* the clients the liveness properties are about

ASSUME MaxPartAssumption == MaxPart \in Nat
ASSUME BoundAssumption   == Slow \cup Urgent \cup Watched \subseteq Client

VARIABLES
  vector,       \* m_ClientVector
  rd,           \* the clients select() found readable
  er,           \* the clients select() found in an error state
  phase,        \* "select", or "read" and "check" of the client at `it'
  it,           \* index of the walk in vector
  arrived,      \* arrived[q]: what the kernel holds: "nothing", "part", "line"
  eof,          \* clients whose peer has closed the connection
  pos,          \* pos[q]: m_nReadBufPos
  visited,      \* history: the clients served in this round
  missed,       \* missed[q]: history, rounds in a row that passed over q
  fault         \* has a write before m_pReadBuf happened?

peerVars == <<arrived, eof>>
histVars == <<visited, missed>>
vars == <<vector, rd, er, phase, it, peerVars, pos, histVars, fault>>

Members == ToSet(vector)
Current == vector[it]

-----------------------------------------------------------------------------
(* The peers.                                                              *)

\* A peer sends one byte of an unfinished line, or a line to its end.
PeerSends(q) ==
  /\ q \in Members \ eof
  /\ arrived[q] = "nothing"
  /\ \E piece \in {"part", "line"} :
       /\ piece = "part" => q \in Slow /\ pos[q] < MaxPart
       /\ arrived' = [arrived EXCEPT ![q] = piece]
  /\ UNCHANGED <<vector, rd, er, phase, it, eof, pos, histVars, fault>>

\* ... or closes or resets the connection.
PeerCloses(q) ==
  /\ q \in Members \ eof
  /\ eof' = eof \cup {q}
  /\ UNCHANGED <<vector, rd, er, phase, it, arrived, pos, histVars,
                 fault>>

-----------------------------------------------------------------------------
(* One round: select, NewClientConnect, the walk.                          *)

Readable(q) == arrived[q] # "nothing" \/ q \in eof

\* select() answers for the clients it was asked about; a client accepted in
\* the same round is in the vector but not in rd.
Select ==
  /\ phase = "select"
  /\ rd' = {q \in Members : Readable(q)}
  /\ er' \in SUBSET (Members \cap Urgent)
  /\ vector' \in {vector} \cup {Append(vector, q) : q \in Client \ Members}
  /\ IF vector' = <<>> THEN phase' = "select" /\ it' = 0
                       ELSE phase' = "read" /\ it' = 1
  /\ UNCHANGED <<peerVars, pos, histVars, fault>>

\* Past the last client: the round is over.
EndOfRound ==
  /\ missed' = [q \in Client |->
                  IF q \in Members' \ (visited \cup {Current})
                  THEN missed[q] + 1 ELSE 0]
  /\ visited' = {}
  /\ phase' = "select"
  /\ it' = 0
  /\ rd' = {}
  /\ er' = {}

ServeNext(i) ==
  /\ phase' = "read"
  /\ it' = i
  /\ visited' = visited \cup {Current}
  /\ UNCHANGED <<rd, er, missed>>

\* Variant: the end of the vector is tested one client late.
GoOnTooFar(i) ==
  IF i =< Len(vector') + 1
  THEN ServeNext(i)
  ELSE EndOfRound

\* Variant: from the last client the walk goes back to the first.
GoRound(i) == ServeNext(IF i =< Len(vector') THEN i ELSE 1)

\* Variant: it is moved once more than the loop moves it.
GoOnTwice(i) ==
  IF i + 1 =< Len(vector')
  THEN ServeNext(i + 1)
  ELSE EndOfRound

\* The loop goes on at index i, or the round is over.
GoOn(i) ==
  IF i =< Len(vector')
  THEN ServeNext(i)
  ELSE EndOfRound

\* Variant: the walk starts again two clients behind begin().
FromThird(i) == 3

\* it = begin(), and the loop's it++.
AfterDrop(i) == 2

\* DeleteClient( pClient ), and what Loop does with the NULL it leaves.
Drop ==
  /\ vector' = RemoveAt(vector, it)
  /\ eof' = eof \ {Current}
  /\ arrived' = [arrived EXCEPT ![Current] = "nothing"]
  /\ pos' = [pos EXCEPT ![Current] = 0]
  /\ IF vector' = <<>> THEN EndOfRound ELSE GoOn(AfterDrop(it))

Reading == phase = "read"

\* The control socket is in er: dropped before anything is read.
ErrorDrop ==
  /\ Reading
  /\ Current \in er
  /\ Drop
  /\ UNCHANGED fault

NotReadable ==
  /\ Reading
  /\ Current \notin er \cup rd
  /\ phase' = "check"
  /\ UNCHANGED <<vector, rd, er, it, peerVars, pos, histVars, fault>>

\* Variant: recv is tried whatever select() said.
ReceivingAnyway == Reading /\ Current \notin er

Receiving == Reading /\ Current \in rd \ er

\* recv gives bytes.  At a negative position they overwrite m_pAudioStream;
\* a byte of an unfinished line stays in the buffer.
RecvBytes ==
  /\ Receiving
  /\ arrived[Current] # "nothing"
  /\ arrived' = [arrived EXCEPT ![Current] = "nothing"]
  /\ fault' = (pos[Current] < 0)
  /\ pos' = [pos EXCEPT ![Current] =
               IF arrived[Current] = "line" THEN 0 ELSE @ + 1]
  /\ phase' = "check"
  /\ UNCHANGED <<vector, rd, er, it, eof, histVars>>

\* The line is a QUIT, a wrong password, ...
RecvQuit ==
  /\ Receiving
  /\ arrived[Current] = "line"
  /\ fault' = (pos[Current] < 0)
  /\ Drop

\* recv gives 0, or -1 and, say, ECONNRESET: the client is dropped if errno
\* is not EAGAIN, and stays if an earlier call has left it there.
RecvClosed ==
  /\ Receiving
  /\ arrived[Current] = "nothing"
  /\ Current \in eof
  /\ \/ Drop
     \/ /\ phase' = "check"
        /\ UNCHANGED <<vector, rd, er, it, peerVars, pos, histVars>>
  /\ UNCHANGED fault

\* recv has nothing to give: -1, EAGAIN, and the -1 is added to the position.
RecvAgain ==
  /\ Receiving
  /\ arrived[Current] = "nothing"
  /\ Current \notin eof
  /\ pos' = [pos EXCEPT ![Current] = @ - 1]
  /\ phase' = "check"
  /\ UNCHANGED <<vector, rd, er, it, peerVars, histVars, fault>>

\* Variant: the checks are made only for clients that had nothing to read.
CheckedIfIdle(q) == q \notin rd

\* The checks are made for every client, read from or not.
Checked(q) == TRUE

\* CheckForConnectionStatus finds a ping unanswered or a send that failed.
CheckDrop ==
  /\ phase = "check"
  /\ Checked(Current)
  /\ Drop
  /\ UNCHANGED fault

CheckPassed ==
  /\ phase = "check"
  /\ UNCHANGED <<vector, peerVars, pos, fault>>
  /\ GoOn(it + 1)

-----------------------------------------------------------------------------
Init ==
  /\ vector = <<>>
  /\ rd = {}
  /\ er = {}
  /\ phase = "select"
  /\ it = 0
  /\ arrived = [q \in Client |-> "nothing"]
  /\ eof = {}
  /\ pos = [q \in Client |-> 0]
  /\ visited = {}
  /\ missed = [q \in Client |-> 0]
  /\ fault = FALSE

Peers == \E q \in Client : PeerSends(q) \/ PeerCloses(q)

Loop ==
  \/ Select \/ ErrorDrop \/ NotReadable \/ RecvBytes \/ RecvQuit
  \/ RecvClosed \/ RecvAgain \/ CheckDrop \/ CheckPassed

Next == ~fault /\ (Peers \/ Loop)

Spec == Init /\ [][Next]_vars

\* A peer that has closed answers no ping, so the checks of its client find
\* the ping unanswered in the end.
DropsTheLost(q) == ~fault /\ CheckDrop /\ Current = q /\ q \in eof

\* The loop runs on: select() waits for one second at most.
FairSpec ==
  /\ Spec
  /\ WF_vars(~fault /\ Loop)
  /\ \A q \in Client : SF_vars(DropsTheLost(q))

-----------------------------------------------------------------------------
(* Properties.                                                             *)

\* Every variable keeps its type; a client is in the vector once, and the
\* walk is inside the vector whenever it looks at a client.
TypeOK ==
  /\ vector \in Seq(Client) /\ IsInjective(vector)
  /\ rd \subseteq Client /\ er \subseteq Client /\ eof \subseteq Client
  /\ phase \in {"select", "read", "check"}
  /\ IF phase = "select" THEN it = 0 ELSE it \in 1..Len(vector)
  /\ arrived \in [Client -> {"nothing", "part", "line"}]
  /\ pos \in [Client -> Int]
  /\ visited \subseteq Client
  /\ missed \in [Client -> Nat]
  /\ fault \in BOOLEAN

\* Restarting at begin() + 1 leaves only one client behind: whoever the walk
\* has gone past has been served in this round, the first one excepted.
OnlyFirstPassedOver ==
  phase # "select" =>
    \A i \in 1..Len(vector) : i < it /\ vector[i] \notin visited => i = 1

\* Drops cannot starve a client: no client that stays is passed over in two
\* rounds in a row.
NeverMissedTwice == \A q \in Client : missed[q] =< 1

\* recv finds nothing to read only where the answer of select() is stale: at
\* a client that was served before in the same round.
StaleOnlyIfServedBefore ==
  [][\A q \in Client : pos'[q] < pos[q] /\ pos'[q] # 0 => q \in visited]_vars

\* A client whose peer has closed is removed in the end, even where an
\* EAGAIN left in errno keeps ReadClientMessage from dropping it.  What
\* holds of one watched client holds of all: they are interchangeable.
LostIsRemoved == \A q \in Watched : q \in eof ~> (q \notin eof \/ fault)

\* What a client has sent is read in the end.
InputIsRead ==
  \A q \in Watched : arrived[q] # "nothing" ~> (arrived[q] = "nothing" \/ fault)

\* Control data goes into m_pReadBuf (Client.h:71).
IntoReadBuf == \A q \in Client : pos[q] >= 0
=============================================================================
