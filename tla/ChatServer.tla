----------------------------- MODULE ChatServer -----------------------------
(***************************************************************************)
(* The control side of videopad-server: the client table, nicks, login,    *)
(* channels and the messages the commands send (Server_ClientProcess.cpp,  *)
(* Server_Commands.cpp, Channel.cpp, Server_NewClientConnection.cpp).      *)
(*                                                                         *)
(* The server is one thread, so a handler is one action.  CServer::Loop    *)
(* runs, for one client after the other, ReadClientMessage and then the    *)
(* two checks of Server.cpp:264-265; `serving' holds the client between    *)
(* the two.  Which client comes next is left open here (ClientWalk models  *)
(* the walk over m_ClientVector).  A signal may reload the configuration   *)
(* between two handlers, and the server password may come or go.           *)
(*                                                                         *)
(* A client is known by the address of its CClient object.  `delete' frees *)
(* the address and a later `new CClient' may get it again, so a pointer    *)
(* left behind in a channel either dangles or silently denotes a stranger. *)
(* A step that would dereference a freed or a null pointer sets `fault'    *)
(* and the model stops: what the process does next is no longer defined    *)
(* by the code.                                                            *)
(***************************************************************************)
EXTENDS Naturals

CONSTANTS
  Ptr,          \* addresses operator new may return for a CClient
  Nick,         \* nicks a client may ask for, each in one spelling
  Upper,        \* Upper[n]: the nick with case folded, what Compare looks at
  BadNick,      \* the nicks SetNick refuses (too long, invalid characters)
  NoNick,       \* the empty nick of a new client
  NoClient,     \* the null pointer
  FlagReaders,  \* addresses whose peers take the dot of `300 #c .nick' for a
                \* flag; the others read the line as the README writes it
  NumChannels   \* channel names are 1..NumChannels, in the order of the map

ASSUME NickAssumption     == NoNick \notin Nick /\ BadNick \subseteq Nick
ASSUME UpperAssumption    == DOMAIN Upper = Nick
ASSUME PtrAssumption      == NoClient \notin Ptr
ASSUME ReaderAssumption   == FlagReaders \subseteq Ptr
ASSUME ChannelAssumption  == NumChannels \in Nat

VARIABLES
  password,    \* is "server-password" set?
  live,        \* m_ClientVector, the clients that are allocated
  nick,        \* m_szNick
  passGiven,   \* clients with m_fPassGiven
  loggedIn,    \* clients with m_fLoggedin
  motdSent,    \* clients with m_fMOTDSent
  closed,      \* clients with m_fConnectionClosed
  gone,        \* clients whose peer has closed or reset the connection
  channelMap,  \* the keys of m_ChannelMap
  member,      \* member[c]: the pointers in m_ClientVector of channel c
  creator,     \* creator[c]: the one with '.' in m_FlagMap of channel c
  serving,     \* the client between ReadClientMessage and the checks
  out,         \* the messages the last step has sent
  stale,       \* addresses of which m_SerialMap holds a serial that was a
               \* deleted client's; if another logs in there, it is its own
  view,        \* view[p][c]: the nicks p has been told are on channel c
  skipped,     \* history: channels a DeleteClient has stepped over
  fault        \* the undefined behaviour reached, if any

connVars == <<password, nick, passGiven, loggedIn, motdSent>>
chanVars == <<channelMap, member, creator, skipped>>
vars == <<live, connVars, closed, gone, chanVars, stale, serving, out, view,
          fault>>

ChanName == 1..NumChannels
AnyNick  == Nick \cup {NoNick}
Code     == {"reply", "008", "300", "304", "305", "306", "500", "501", "701"}
Message  == [to : Ptr, code : Code, chan : 0..NumChannels,
             nick : AnyNick, new : AnyNick, dot : BOOLEAN]

-----------------------------------------------------------------------------
(* Messages, and what the peers make of them.                              *)

\* A line about channel c and nick n; `new' differs from n only in 306, and
\* `dot' says that a dot stands before the nick, as it may in 300.
Line(q, code, c, n) ==
  [to |-> q, code |-> code, chan |-> c, nick |-> n, new |-> n, dot |-> FALSE]

Rename(q, c, old, n) == [Line(q, "306", c, old) EXCEPT !.new = n]

\* "reply" stands for a line to the sender alone that no property is about.
Reply(p) == Line(p, "reply", 0, NoNick)

\* CChannel::SendMessage and SendMessage2: one line for each q of a set.
ToAll(S, code, c, n) == {Line(q, code, c, n) : q \in S}

\* The nicks on c as client q sees them after the lines msgs (README,
\* "Channel messages"): 300 adds a nick, 304 and 305 remove it, 306 renames
\* it, and q's own 305 means q is no longer on c.  A dotted name is no
\* client's nick (SetNick refuses the dot): a peer that knows of the flag
\* takes the dot off, any other has learnt nobody's nick from the line.
Hear(q, c, msgs) ==
  LET mine    == {m \in msgs : m.to = q /\ m.chan = c}
      left    == {m.nick : m \in {l \in mine : l.code \in {"304", "305"}}}
      joined  == {m.nick : m \in {l \in mine :
                    l.code = "300" /\ (l.dot => q \in FlagReaders)}}
      renamed == {m \in mine : m.code = "306"}
      kept    == view[q][c] \ {m.nick : m \in renamed}
      new     == {m.new : m \in {l \in renamed : l.nick \in view[q][c]}}
  IN  IF nick[q] \in left THEN {} ELSE (kept \cup new \cup joined) \ left

\* CClient::SendMessage: send() to a peer that is gone may fail, and then
\* marks the client closed; to any other peer it succeeds.
Send(msgs) ==
  /\ out' = msgs
  /\ \E failed \in SUBSET ({m.to : m \in msgs} \cap gone) :
       closed' = (closed \cup failed) \cap live'
  /\ view' = [q \in Ptr |-> [c \in ChanName |->
                IF q \in live' THEN Hear(q, c, msgs) ELSE {}]]

Fail(kind) ==
  /\ fault' = kind
  /\ out' = {}
  /\ UNCHANGED <<live, connVars, closed, gone, chanVars, stale, serving, view>>

Dangling(c) == member[c] \ live

-----------------------------------------------------------------------------
(* Leaving: CServer::DeleteClient and CChannel::DeleteClient.              *)

\* When the walk over m_ChannelMap empties a channel it erases it, restarts
\* at begin(), and the loop's it++ then moves past that first key.  Unless
\* the erased channel was the first, the key moved past has been visited;
\* if it was, the second key never is.
SteppedOver(p) ==
  {c \in channelMap :
     \E f \in channelMap :
        /\ f < c
        /\ member[f] = {p}
        /\ \A d \in channelMap \ {f} : c =< d}

\* Variant: a break after the first channel the client is found on.
VisitedFirst(p) ==
  {c \in channelMap : /\ p \in member[c]
                      /\ \A d \in channelMap : p \in member[d] => c =< d}

\* The channels p is found on by that walk.
Visited(p) == {c \in channelMap \ SteppedOver(p) : p \in member[c]}

\* The channels that become empty, and are erased, when p leaves those of S.
Emptied(p, S) == {c \in S : member[c] = {p}}

Leave(p, S) ==
  /\ member' = [c \in ChanName |-> IF c \in S THEN member[c] \ {p}
                                              ELSE member[c]]
  /\ creator' = [c \in ChanName |-> IF c \in S /\ creator[c] = p
                                     THEN NoClient ELSE creator[c]]
  /\ channelMap' = channelMap \ Emptied(p, S)

\* Variant: pClient passed by value, so that the caller keeps the pointer.
KeptPointer(p) == p

\* The caller's pClient after DeleteClient: passed by reference, set to NULL.
DroppedPointer(p) == NoClient

\* Has m_SerialMap a serial of the client at p?  The login gave it some, and
\* a client that had the address before may have left one.
HasSerials(p) == p \in loggedIn \cup stale

\* DeleteClientSerials erases a node of the map and then increments the
\* iterator to it, which is undefined.
SerialsFault(p) == HasSerials(p) /\ Fail("erasedIterator")

\* Where the increment finds the rest of the map, it may have passed over
\* serials of p.
SerialsMayStay(p) ==
  \/ stale' = stale \ {p}
  \/ HasSerials(p) /\ stale' = stale \cup {p}

\* The rest of DeleteClient: p is off the channels its walk finds it on, out
\* of the table and freed.
TakeOut(p) ==
  /\ Leave(p, Visited(p))
  /\ skipped' = (skipped \ Emptied(p, Visited(p)))
                  \cup {c \in SteppedOver(p) : p \in member[c]}
  /\ live' = live \ {p}
  /\ nick' = [nick EXCEPT ![p] = NoNick]
  /\ passGiven' = passGiven \ {p}
  /\ loggedIn' = loggedIn \ {p}
  /\ motdSent' = motdSent \ {p}
  /\ gone' = gone \ {p}
  /\ SerialsMayStay(p)
  /\ serving' = DroppedPointer(p)
  /\ UNCHANGED <<password, fault>>
  /\ Send(UNION {ToAll(member[c], "304", c, nick[p]) : c \in Visited(p)})

DeleteClient(p) ==
  IF \E c \in Visited(p) : Dangling(c) # {}
  THEN Fail("useAfterFree")
  ELSE SerialsFault(p) \/ TakeOut(p)

-----------------------------------------------------------------------------
(* CServer::NickChange, before and after login.                            *)

SameNick(m, n) == m # NoNick /\ Upper[m] = Upper[n]

\* Variant: == instead of Compare in the collision check.
NickTakenExactly(p, n) == \E q \in live : nick[q] = n

NickTaken(p, n) ==
  /\ ~SameNick(nick[p], n)
  /\ \E q \in live : SameNick(nick[q], n)

NickAccepted(p, n) == ~NickTaken(p, n) /\ nick[p] # n /\ n \notin BadNick

OnChannels(p) == {c \in channelMap : p \in member[c]}

NickLines(p, n) ==
  IF NickAccepted(p, n)
  THEN {Reply(p)} \cup UNION {{Rename(q, c, nick[p], n) : q \in member[c]} :
                               c \in OnChannels(p)}
  ELSE {Reply(p)}

SetNick(p, n) ==
  nick' = IF NickAccepted(p, n) THEN [nick EXCEPT ![p] = n] ELSE nick

NickFaults(p, n) ==
  NickAccepted(p, n) /\ \E c \in OnChannels(p) : Dangling(c) # {}

-----------------------------------------------------------------------------
(* Connections and the commands of a client that has not logged in.        *)

NewClientConnect(p) ==
  /\ serving = NoClient
  /\ p \notin live
  /\ live' = live \cup {p}
  /\ passGiven' = IF password THEN passGiven ELSE passGiven \cup {p}
  /\ UNCHANGED <<password, nick, loggedIn, motdSent, gone, chanVars, stale,
                 serving, fault>>
  /\ Send({Reply(p)})

\* OnSIGHUP: the new configuration has a password where the old one had
\* none, or the other way round.
Reload ==
  /\ password' = ~password
  /\ out' = {}
  /\ UNCHANGED <<live, nick, passGiven, loggedIn, motdSent, closed, gone,
                 chanVars, stale, serving, view, fault>>

\* External: the peer closes or resets its connection.
PeerGone(p) ==
  /\ p \in live \ gone
  /\ gone' = gone \cup {p}
  /\ out' = {}
  /\ UNCHANGED <<live, connVars, closed, chanVars, stale, serving, view, fault>>

\* Loop calls ReadClientMessage for p.
Reading(p) == serving = NoClient /\ p \in live

\* recv returns no bytes.
ReadNothing(p) == Reading(p) /\ p \in gone /\ DeleteClient(p)

\* QUIT, or select() found the control socket in an error state.
Quit(p) == Reading(p) /\ DeleteClient(p)

\* Variants: the nick, or the password, alone lets a client in.
HasNick(p) == nick'[p] # NoNick
HasPass(p) == p \in passGiven'

Admitted(p) == nick'[p] # NoNick /\ p \in passGiven'

\* The end of the login branch: a client with a nick and the password given
\* is sent its stream serials (008) and is logged in.
LoginTail(p, msgs) ==
  IF Admitted(p)
  THEN /\ loggedIn' = loggedIn \cup {p}
       /\ stale' = stale \ {p}
       /\ Send(msgs \cup {Line(p, "008", 0, NoNick)})
  ELSE /\ UNCHANGED <<loggedIn, stale>>
       /\ Send(msgs)

LoggingIn(p) == Reading(p) /\ p \notin loggedIn

PassOk(p) ==
  /\ LoggingIn(p)
  /\ passGiven' = passGiven \cup {p}
  /\ serving' = p
  /\ UNCHANGED <<password, live, nick, motdSent, gone, chanVars, fault>>
  /\ LoginTail(p, {})

PassWrong(p) == LoggingIn(p) /\ DeleteClient(p)

NickBeforeLogin(p, n) ==
  /\ LoggingIn(p)
  /\ IF NickFaults(p, n)
     THEN Fail("useAfterFree")
     ELSE /\ SetNick(p, n)
          /\ serving' = p
          /\ UNCHANGED <<password, live, passGiven, motdSent, gone, chanVars,
                         fault>>
          /\ LoginTail(p, NickLines(p, n))

\* Any other command, PONG aside.
OtherBeforeLogin(p) ==
  /\ LoggingIn(p)
  /\ serving' = p
  /\ UNCHANGED <<password, live, nick, passGiven, motdSent, gone, chanVars,
                 fault>>
  /\ LoginTail(p, {})

\* PONG, which only touches the ping clock, and the commands that send and
\* change nothing seen here: TAGLINE, REALNAME, NICK without a nick, MSG and
\* PRIVMSG without a text, and whatever is not a command.
Pong(p) ==
  /\ Reading(p)
  /\ serving' = p
  /\ UNCHANGED <<live, connVars, gone, chanVars, stale, fault>>
  /\ Send({})

-----------------------------------------------------------------------------
(* The commands of a client that has logged in.                            *)

Command(p) == Reading(p) /\ p \in loggedIn

\* AddClient: whoever comes to an empty channel is its creator.
CreatorAfter(p, c) == IF member[c] = {} THEN p ELSE creator[c]

\* SendNickList: the flag stands before the creator's nick.
ListLine(p, c, q, flagged) ==
  [Line(p, "300", c, nick[q]) EXCEPT !.dot = (q = flagged)]

\* The 300 that tells the others of a newcomer, then the nick list and the
\* channel's age (301) for p.
JoinLines(p, c) ==
  LET others == IF p \in member[c] THEN {} ELSE member[c] IN
  ToAll(others, "300", c, nick[p])
    \cup {ListLine(p, c, q, CreatorAfter(p, c)) : q \in member[c] \cup {p}}
    \cup {Reply(p)}

\* JOIN #c: create the channel if there is none, then CChannel::AddClient.
\* A client already on it is sent the nick list again.
Join(p, c) ==
  /\ Command(p)
  /\ IF Dangling(c) # {}
     THEN Fail("useAfterFree")
     ELSE /\ channelMap' = channelMap \cup {c}
          /\ member' = [member EXCEPT ![c] = @ \cup {p}]
          /\ creator' = [creator EXCEPT ![c] = CreatorAfter(p, c)]
          /\ serving' = p
          /\ UNCHANGED <<live, connVars, gone, skipped, stale, fault>>
          /\ Send(JoinLines(p, c))

\* Variant: the client is taken off the channel before the 305 is sent.
PartLinesLate(p, c) == ToAll(member[c] \ {p}, "305", c, nick[p])

PartLines(p, c) == ToAll(member[c], "305", c, nick[p])

\* PartChannel hands DeleteChannel a reference into the map's own node; once
\* that is erased, SAFE_DELETE reads and writes through it.
NodeFault(p, c) == Emptied(p, {c}) # {} /\ Fail("erasedNode")

\* PART #c: the name is looked up as it was typed, lower case or not, and
\* whether p is on the channel is not asked.
Part(p, c, lower) ==
  /\ Command(p)
  /\ IF c \in channelMap /\ lower
     THEN IF Dangling(c) # {}
          THEN Fail("useAfterFree")
          ELSE \/ NodeFault(p, c)
               \/ /\ Leave(p, {c})
                  /\ skipped' = skipped \ Emptied(p, {c})
                  /\ serving' = p
                  /\ UNCHANGED <<live, connVars, gone, stale, fault>>
                  /\ Send(PartLines(p, c))
     ELSE /\ serving' = p
          /\ UNCHANGED <<live, connVars, gone, chanVars, stale, fault>>
          /\ Send({Line(p, "701", c, nick[p])})

\* Variant: MSG without the IsOn test.
ChannelExists(p, c) == c \in channelMap

MaySpeak(p, c) == c \in channelMap /\ p \in member[c]

\* MSG #c :text, with errors 702 and 708.
Msg(p, c) ==
  /\ Command(p)
  /\ IF MaySpeak(p, c) /\ Dangling(c) \ {p} # {}
     THEN Fail("useAfterFree")
     ELSE /\ serving' = p
          /\ UNCHANGED <<live, connVars, gone, chanVars, stale, fault>>
          /\ IF MaySpeak(p, c)
             THEN Send(ToAll(member[c] \ {p}, "500", c, nick[p]))
             ELSE Send({Reply(p)})

\* PRIVMSG n :text, with error 703.
PrivMsg(p, n) ==
  /\ Command(p)
  /\ serving' = p
  /\ UNCHANGED <<live, connVars, gone, chanVars, stale, fault>>
  /\ \/ \E q \in live : /\ SameNick(nick[q], n)
                       /\ Send({Line(q, "501", 0, nick[p])})
     \/ /\ \A q \in live : ~SameNick(nick[q], n)
        /\ Send({Reply(p)})

NickAfterLogin(p, n) ==
  /\ Command(p)
  /\ IF NickFaults(p, n)
     THEN Fail("useAfterFree")
     ELSE /\ SetNick(p, n)
          /\ serving' = p
          /\ UNCHANGED <<password, live, passGiven, loggedIn, motdSent, gone,
                         chanVars, stale, fault>>
          /\ Send(NickLines(p, n))

\* WHOIS, CHANLIST and a JOIN of a malformed name: replies to p alone.
Query(p) ==
  /\ Command(p)
  /\ serving' = p
  /\ UNCHANGED <<live, connVars, gone, chanVars, stale, fault>>
  /\ Send({Reply(p)})

-----------------------------------------------------------------------------
(* The checks after ReadClientMessage, for the client just read or for one *)
(* that had nothing to read.                                               *)

Checking(p) == p \in live /\ serving \in {p, NoClient}

\* CheckForConnectionStatus drops p and sets pClient to NULL;
\* CheckForLoginTimeout is still called, and reads pClient->m_fLoggedin if
\* the server has a password.  The clock is left open: an unanswered ping
\* may time out at any moment.
DropInCheck(p) ==
  /\ Checking(p)
  /\ IF password /\ \A c \in Visited(p) : Dangling(c) = {}
     THEN SerialsFault(p) \/ Fail("nullPointer")
     ELSE DeleteClient(p)

ConnectionClosed(p) == p \in closed /\ DropInCheck(p)
LoginComplete(p)    == p \in loggedIn \ motdSent
PingTimeout(p)      == p \notin closed /\ ~LoginComplete(p) /\ DropInCheck(p)

\* SendMOTD and 009.
SendMOTD(p) ==
  /\ Checking(p)
  /\ p \notin closed
  /\ LoginComplete(p)
  /\ motdSent' = motdSent \cup {p}
  /\ serving' = NoClient
  /\ UNCHANGED <<password, live, nick, passGiven, loggedIn, gone, chanVars,
                 stale, fault>>
  /\ Send({Reply(p)})

\* Nothing is due, or a ping (503) is.
CheckPassed(p) ==
  /\ Checking(p)
  /\ p \notin closed
  /\ ~LoginComplete(p)
  /\ serving' = NoClient
  /\ UNCHANGED <<live, connVars, gone, chanVars, stale, fault>>
  /\ Send({}) \/ Send({Reply(p)})

\* 010 and DeleteClient.  (Where the ping of the same check has just failed,
\* the next check drops the client.)
LoginTimeout(p) ==
  /\ Checking(p)
  /\ p \notin closed
  /\ password
  /\ p \notin loggedIn
  /\ DeleteClient(p)

-----------------------------------------------------------------------------
Init ==
  /\ password \in BOOLEAN
  /\ live = {}
  /\ nick = [p \in Ptr |-> NoNick]
  /\ passGiven = {}
  /\ loggedIn = {}
  /\ motdSent = {}
  /\ closed = {}
  /\ gone = {}
  /\ channelMap = {}
  /\ member = [c \in ChanName |-> {}]
  /\ creator = [c \in ChanName |-> NoClient]
  /\ serving = NoClient
  /\ out = {}
  /\ view = [p \in Ptr |-> [c \in ChanName |-> {}]]
  /\ skipped = {}
  /\ stale = {}
  /\ fault = "none"

Connection(p) == NewClientConnect(p) \/ PeerGone(p) \/ ReadNothing(p)

LoginBranch(p) ==
  \/ PassOk(p) \/ PassWrong(p) \/ OtherBeforeLogin(p)
  \/ \E n \in Nick : NickBeforeLogin(p, n)

CommandBranch(p) ==
  \/ Query(p)
  \/ \E c \in ChanName : Join(p, c) \/ Msg(p, c)
  \/ \E c \in ChanName, lower \in BOOLEAN : Part(p, c, lower)
  \/ \E n \in Nick : PrivMsg(p, n) \/ NickAfterLogin(p, n)

Checks(p) ==
  \/ ConnectionClosed(p) \/ SendMOTD(p) \/ PingTimeout(p)
  \/ CheckPassed(p) \/ LoginTimeout(p)

Next ==
  /\ fault = "none"
  /\ \/ Reload
     \/ \E p \in Ptr :
       \/ Connection(p) \/ Quit(p) \/ Pong(p)
       \/ LoginBranch(p) \/ CommandBranch(p) \/ Checks(p)

Spec == Init /\ [][Next]_vars

-----------------------------------------------------------------------------
(* Properties.                                                             *)

\* Every variable keeps its type.
TypeOK ==
  /\ password \in BOOLEAN
  /\ live \subseteq Ptr
  /\ nick \in [Ptr -> AnyNick]
  /\ passGiven \subseteq live
  /\ loggedIn \subseteq live
  /\ motdSent \subseteq live
  /\ closed \subseteq live
  /\ gone \subseteq live
  /\ channelMap \subseteq ChanName
  /\ member \in [ChanName -> SUBSET Ptr]
  /\ creator \in [ChanName -> Ptr \cup {NoClient}]
  /\ serving \in live \cup {NoClient}
  /\ out \subseteq Message
  /\ view \in [Ptr -> [ChanName -> SUBSET AnyNick]]
  /\ skipped \subseteq ChanName
  /\ stale \subseteq Ptr
  /\ fault \in {"none", "useAfterFree", "nullPointer", "erasedNode", "erasedIterator"}

\* No two clients hold nicks that differ only in case, logged in or not, so
\* PRIVMSG and WHOIS, which take the first match in m_ClientVector, have one
\* (NickChange, Server_Commands.cpp:80).
NickUnique ==
  \A p, q \in live :
     nick[p] # NoNick /\ SameNick(nick[q], nick[p]) => p = q

\* A client is logged in exactly when it has a nick and has given the
\* password: nothing it sends before or after can take it from one side to
\* the other (the login branch, Server_ClientProcess.cpp:81-142).
LoginIffCredentials ==
  \A p \in live :
     p \in loggedIn <=> nick[p] # NoNick /\ p \in passGiven

\* A channel no DeleteClient has stepped over holds only logged-in clients
\* that are still allocated, and the map holds no empty channel (AddClient,
\* PartChannel, DeleteClient).
MembersAreLive ==
  /\ \A c \in ChanName \ skipped : member[c] \subseteq loggedIn
  /\ \A c \in ChanName : c \in channelMap <=> member[c] # {}

\* The creator's nick has the flag before it in every list of the channel.
Unnamed(p, c) == IF p \in FlagReaders THEN {} ELSE {creator[c]}

\* What a client has been told (300, 304, 305, 306) is what the server
\* holds: on a channel that was never stepped over, each connected member
\* knows exactly the nicks on it (but the creator's, if it does not know of
\* the flag), and nobody else believes to be on it.
ViewAgrees ==
  \A p \in live \ gone : \A c \in ChanName \ skipped :
     view[p][c] = IF p \in member[c]
                  THEN {nick[q] : q \in member[c] \ Unnamed(p, c)}
                  ELSE {}

\* Where the undefined behaviour of this part of the server comes from: a
\* freed client is only reached through a channel that was stepped over, a
\* null one only on a server with a password, the erased node of the channel
\* map only where a client is alone on a channel, and that of the serial map
\* only where a client has logged in or has left a serial.
FaultCause ==
  /\ fault = "useAfterFree" => skipped # {}
  /\ fault = "nullPointer" => password
  /\ fault = "erasedNode" => \E p \in loggedIn, c \in channelMap : member[c] = {p}
  /\ fault = "erasedIterator" => loggedIn \cup stale # {}

\* A channel message is only ever sent to clients whose own picture of the
\* channel lists the sender's nick, or who were sent it with the creator's
\* flag that they do not know of (MSG, Server_ClientProcess.cpp:169-201).
SpeakerIsKnown ==
  [][\A m \in out' : m.code = "500" /\ m.to \notin gone /\ m.chan \notin skipped
        => \/ m.nick \in view[m.to][m.chan]
           \/ \E q \in Unnamed(m.to, m.chan) \cap live : nick[q] = m.nick]_vars

\* The client table implements the directory: each name has one holder,
\* nobody is logged in without one, and a client that is logged in stays so
\* until it leaves, through reloads, renames and everybody else's commands.
Abstract == INSTANCE Directory WITH
  User <- Ptr, Name <- Nick, NoName <- NoNick, Same <- SameNick,
  users <- live, name <- nick, admitted <- loggedIn

IsDirectory == Abstract!Spec

\* README:102 has `300 [channel] [nick]': a peer that reads the line as it is
\* written there lists everybody else on the channel.
ListAsDocumented ==
  \A p \in live \ gone, c \in ChanName \ skipped :
     p \in member[c] => {nick[q] : q \in member[c] \ {p}} \subseteq view[p][c]
=============================================================================
