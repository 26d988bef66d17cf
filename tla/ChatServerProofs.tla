-------------------------- MODULE ChatServerProofs --------------------------
(***************************************************************************)
(* Proofs about ChatServer, for every set of addresses, nicks and          *)
(* channels: typing, unique nicks, login only with credentials, channels   *)
(* of live members, where undefined behaviour can come from, that what the *)
(* clients were told is what the server holds, and the refinement of       *)
(* Directory.                                                              *)
(***************************************************************************)
EXTENDS ChatServer, TLAPS

\* What a fresh address looks like: NewClientConnect relies on it.
FreeIsFresh == \A p \in Ptr \ live : nick[p] = NoNick

\* The inductive invariant, without the history of faults.
Core == FreeIsFresh /\ NickUnique /\ LoginIffCredentials /\ MembersAreLive
IInv == TypeOK /\ Core

\* The credentials of the clients, and the variables Core speaks of.
coreVars == <<live, nick, passGiven, loggedIn, chanVars>>

-----------------------------------------------------------------------------
(* Messages.                                                               *)

\* A line to an allocated client about a known nick is a message.
LEMMA LineType ==
  ASSUME NEW q \in Ptr, NEW code \in Code, NEW c \in 0..NumChannels,
         NEW n \in AnyNick
  PROVE  Line(q, code, c, n) \in Message
BY DEF Line, Message

\* A rename line is a message too.
LEMMA RenameType ==
  ASSUME NEW q \in Ptr, NEW c \in 0..NumChannels,
         NEW old \in AnyNick, NEW n \in AnyNick
  PROVE  Rename(q, c, old, n) \in Message
BY DEF Rename, Line, Message, Code

\* CChannel::SendMessage to a set of clients.
LEMMA ToAllType ==
  ASSUME NEW S \in SUBSET Ptr, NEW code \in Code, NEW c \in 0..NumChannels,
         NEW n \in AnyNick
  PROVE  ToAll(S, code, c, n) \subseteq Message
BY LineType DEF ToAll

\* And so is a line of a nick list, with the flag or without.
LEMMA ListLineType ==
  ASSUME NEW p \in Ptr, NEW c \in 0..NumChannels, NEW q, nick[q] \in AnyNick,
         NEW flagged
  PROVE  ListLine(p, c, q, flagged) \in Message
BY DEF ListLine, Line, Message, Code

LEMMA ReplyType ==
  ASSUME NEW p \in Ptr
  PROVE  {Reply(p)} \subseteq Message
BY LineType, ChannelAssumption DEF Reply, Code, AnyNick

\* A channel name is a legal value of the field chan.
LEMMA ChanIsCode == ChanName \subseteq 0..NumChannels
BY ChannelAssumption DEF ChanName

\* What Send leaves behind is well typed if what is sent is.
LEMMA SendType ==
  ASSUME TypeOK, NEW msgs \in SUBSET Message, live' \subseteq Ptr, Send(msgs)
  PROVE  /\ out' \subseteq Message
         /\ closed' \subseteq live'
         /\ view' \in [Ptr -> [ChanName -> SUBSET AnyNick]]
<1>1. ASSUME NEW q \in Ptr, NEW c \in ChanName
      PROVE  Hear(q, c, msgs) \subseteq AnyNick
  <2>1. view[q][c] \subseteq AnyNick
    BY <1>1 DEF TypeOK
  <2>2. \A m \in msgs : m.nick \in AnyNick /\ m.new \in AnyNick
    BY DEF Message
  <2>. QED  BY <2>1, <2>2 DEF Hear
<1>2. out' \subseteq Message /\ closed' \subseteq live'
  BY DEF Send
<1>3. view' = [q \in Ptr |-> [c \in ChanName |->
                 IF q \in live' THEN Hear(q, c, msgs) ELSE {}]]
  BY DEF Send
<1>. QED  BY <1>1, <1>2, <1>3

-----------------------------------------------------------------------------
(* Steps that leave clients, nicks and channels alone.                     *)

\* Such a step keeps Core.
LEMMA CoreUnchanged ==
  ASSUME Core, UNCHANGED coreVars
  PROVE  Core'
BY DEF Core, coreVars, chanVars, FreeIsFresh, NickUnique, LoginIffCredentials,
       MembersAreLive

\* A faulting step keeps everything but the mark of the fault.
LEMMA FailStep ==
  ASSUME IInv, NEW kind \in {"useAfterFree", "nullPointer", "erasedNode",
                                "erasedIterator"},
         Fail(kind)
  PROVE  IInv'
<1>1. UNCHANGED coreVars
  BY DEF Fail, coreVars, connVars
<1>2. TypeOK'
  BY DEF IInv, TypeOK, Fail, connVars, chanVars
<1>. QED  BY <1>1, <1>2, CoreUnchanged DEF IInv

\* The type of a step that only sends, reads the clock or sets serving.
LEMMA QuietType ==
  ASSUME TypeOK, NEW p \in live, NEW msgs \in SUBSET Message, Send(msgs),
         UNCHANGED <<live, connVars, gone, chanVars, stale, fault>>,
         serving' \in {p, NoClient}
  PROVE  TypeOK' /\ UNCHANGED coreVars
<1>1. live' \subseteq Ptr
  BY DEF TypeOK
<1>2. /\ out' \subseteq Message
      /\ closed' \subseteq live'
      /\ view' \in [Ptr -> [ChanName -> SUBSET AnyNick]]
  BY <1>1, SendType
<1>. QED  BY <1>2 DEF TypeOK, connVars, chanVars, coreVars

-----------------------------------------------------------------------------
(* One lemma for each group of handlers: IInv is kept.                     *)

\* A freed client is only found on a channel that was stepped over.
LEMMA DanglingIsSkipped ==
  ASSUME IInv, NEW c \in ChanName, Dangling(c) # {}
  PROVE  c \in skipped
BY DEF IInv, Core, TypeOK, MembersAreLive, Dangling

\* CServer::DeleteClient, whichever channels its walk finds.
LEMMA DeleteClientStep ==
  ASSUME IInv, NEW p \in live, DeleteClient(p)
  PROVE  IInv'
<1>1. CASE Fail("useAfterFree") \/ Fail("erasedIterator")
  BY <1>1, FailStep
<1>2. CASE TakeOut(p)
  <2> DEFINE msgs == UNION {ToAll(member[c], "304", c, nick[p]) :
                              c \in Visited(p)}
             V == Visited(p)
             E == Emptied(p, Visited(p))
             O == {c \in SteppedOver(p) : p \in member[c]}
  <2>1. /\ Leave(p, V)
        /\ skipped' = (skipped \ E) \cup O
        /\ live' = live \ {p}
        /\ nick' = [nick EXCEPT ![p] = NoNick]
        /\ passGiven' = passGiven \ {p}
        /\ loggedIn' = loggedIn \ {p}
        /\ motdSent' = motdSent \ {p}
        /\ gone' = gone \ {p}
        /\ serving' = NoClient
        /\ stale' \subseteq stale \cup {p}
        /\ UNCHANGED <<password, fault>>
        /\ Send(msgs)
    BY <1>2 DEF TakeOut, DroppedPointer, SerialsMayStay
  <2>2. /\ V \subseteq channelMap
        /\ E \subseteq V
        /\ O \subseteq channelMap
        /\ channelMap' = channelMap \ E
        /\ member' = [c \in ChanName |-> IF c \in V THEN member[c] \ {p}
                                                   ELSE member[c]]
        /\ \A c \in V : c \in E <=> member[c] = {p}
        /\ \A c \in channelMap : p \in member[c] => c \in V \cup O
        /\ creator' = [c \in ChanName |-> IF c \in V /\ creator[c] = p
                                          THEN NoClient ELSE creator[c]]
    BY <2>1 DEF Visited, Emptied, SteppedOver, Leave
  <2> HIDE DEF V, E, O
  <2>3. TypeOK'
    <3>1. msgs \subseteq Message
      <4>1. \A c \in Visited(p) :
              ToAll(member[c], "304", c, nick[p]) \subseteq Message
        BY ToAllType, ChanIsCode DEF IInv, TypeOK, Visited, Code
      <4>. QED  BY <4>1
    <3>2. /\ out' \subseteq Message
          /\ closed' \subseteq live'
          /\ view' \in [Ptr -> [ChanName -> SUBSET AnyNick]]
      BY <2>1, <3>1, SendType DEF IInv, TypeOK
    <3>3. nick' \in [Ptr -> AnyNick]
      BY <2>1 DEF IInv, TypeOK, AnyNick
    <3>4. /\ member' \in [ChanName -> SUBSET Ptr]
          /\ creator' \in [ChanName -> Ptr \cup {NoClient}]
          /\ channelMap' \subseteq ChanName
          /\ skipped' \subseteq ChanName
          /\ stale' \subseteq Ptr
      BY <2>1, <2>2 DEF IInv, TypeOK
    <3>. QED  BY <2>1, <3>2, <3>3, <3>4 DEF IInv, TypeOK
  <2>4. FreeIsFresh'
    BY <2>1 DEF IInv, TypeOK, Core, FreeIsFresh
  <2>5. NickUnique'
    BY <2>1 DEF IInv, TypeOK, Core, NickUnique, SameNick
  <2>6. LoginIffCredentials'
    BY <2>1 DEF IInv, TypeOK, Core, LoginIffCredentials
  <2>7. MembersAreLive'
    <3>1. ASSUME NEW c \in ChanName \ skipped'
          PROVE  member'[c] \subseteq loggedIn'
      <4>1. CASE c \in E
        BY <2>1, <2>2, <4>1 DEF IInv, TypeOK
      <4>2. CASE c \notin E
        <5>1. c \notin skipped /\ c \notin O
          BY <2>1, <3>1, <4>2
        <5>2. member[c] \subseteq loggedIn
          BY <3>1, <5>1 DEF IInv, Core, MembersAreLive
        <5>3. p \notin member'[c]
          BY <2>2, <3>1, <5>1 DEF IInv, Core, TypeOK, MembersAreLive
        <5>. QED  BY <2>1, <2>2, <3>1, <5>2, <5>3
      <4>. QED  BY <4>1, <4>2
    <3>2. ASSUME NEW c \in ChanName
          PROVE  c \in channelMap' <=> member'[c] # {}
      <4>1. c \in channelMap <=> member[c] # {}
        BY DEF IInv, Core, MembersAreLive
      <4>2. CASE c \in E
        <5>1. member[c] = {p} /\ member'[c] = member[c] \ {p}
          BY <2>2, <4>2
        <5>2. member'[c] = {}
          BY <5>1
        <5>. QED  BY <2>2, <4>2, <5>2
      <4>3. CASE c \in V \ E
        <5>1. /\ c \in channelMap /\ c \in channelMap'
              /\ member[c] # {} /\ member[c] # {p}
              /\ member'[c] = member[c] \ {p}
          BY <2>2, <4>1, <4>3
        <5>2. PICK q \in member[c] : q # p
          BY <5>1
        <5>. QED  BY <5>1, <5>2
      <4>4. CASE c \notin V
        BY <2>2, <4>1, <4>4
      <4>. QED  BY <4>2, <4>3, <4>4
    <3>. QED  BY <3>1, <3>2 DEF MembersAreLive
  <2>. QED  BY <2>3, <2>4, <2>5, <2>6, <2>7 DEF IInv, Core
<1>. QED  BY <1>1, <1>2 DEF DeleteClient, SerialsFault

\* NewClientConnect: the address may have been another client's.
LEMMA NewClientStep ==
  ASSUME IInv, NEW p \in Ptr, NewClientConnect(p)
  PROVE  IInv'
<1>1. {Reply(p)} \subseteq Message
  BY ReplyType
<1>2. live' \subseteq Ptr
  BY DEF NewClientConnect, IInv, TypeOK
<1>3. /\ out' \subseteq Message
      /\ closed' \subseteq live'
      /\ view' \in [Ptr -> [ChanName -> SUBSET AnyNick]]
  BY <1>1, <1>2, SendType DEF NewClientConnect, IInv
<1>4. TypeOK'
  BY <1>2, <1>3 DEF NewClientConnect, IInv, TypeOK, chanVars
<1>5. nick[p] = NoNick
  BY DEF NewClientConnect, IInv, Core, FreeIsFresh
<1>6. FreeIsFresh' /\ NickUnique'
  BY <1>5 DEF NewClientConnect, IInv, Core, TypeOK, FreeIsFresh,
              NickUnique, SameNick
<1>7. LoginIffCredentials'
  BY <1>5 DEF NewClientConnect, IInv, Core, TypeOK, LoginIffCredentials
<1>8. MembersAreLive'
  BY DEF NewClientConnect, IInv, Core, MembersAreLive, chanVars
<1>. QED  BY <1>4, <1>6, <1>7, <1>8 DEF IInv, Core

\* The lines NickChange sends are messages.
LEMMA NickLinesType ==
  ASSUME IInv, NEW p \in Ptr, NEW n \in Nick
  PROVE  NickLines(p, n) \subseteq Message
<1>1. {Reply(p)} \subseteq Message
  BY ReplyType
<1>2. ASSUME NEW c \in OnChannels(p)
      PROVE  {Rename(q, c, nick[p], n) : q \in member[c]} \subseteq Message
  <2>1. /\ c \in 0..NumChannels
        /\ member[c] \subseteq Ptr
        /\ nick[p] \in AnyNick /\ n \in AnyNick
    BY ChanIsCode DEF IInv, TypeOK, OnChannels, AnyNick
  <2>2. \A q \in member[c] : Rename(q, c, nick[p], n) \in Message
    BY <2>1, RenameType
  <2>. QED  BY <2>2
<1>. QED  BY <1>1, <1>2 DEF NickLines

\* NickChange keeps nicks unique and leaves nobody without one.
LEMMA SetNickStep ==
  ASSUME IInv, NEW p \in live, NEW n \in Nick, SetNick(p, n), UNCHANGED live
  PROVE  /\ nick' \in [Ptr -> AnyNick]
         /\ FreeIsFresh'
         /\ NickUnique'
         /\ \A q \in live : nick[q] # NoNick => nick'[q] # NoNick
         /\ \A q \in live \ {p} : nick'[q] = nick[q]
<1>1. p \in Ptr /\ n \in AnyNick /\ n # NoNick
  BY NickAssumption DEF IInv, TypeOK, AnyNick
<1>2. CASE ~NickAccepted(p, n)
  BY <1>2 DEF SetNick, IInv, TypeOK, Core, FreeIsFresh, NickUnique, SameNick
<1>3. CASE NickAccepted(p, n)
  <2>1. nick' = [nick EXCEPT ![p] = n]
    BY <1>3 DEF SetNick
  <2>2. /\ nick' \in [Ptr -> AnyNick]
        /\ FreeIsFresh'
        /\ \A q \in live : nick[q] # NoNick => nick'[q] # NoNick
        /\ \A q \in live \ {p} : nick'[q] = nick[q]
    BY <1>1, <2>1 DEF IInv, TypeOK, Core, FreeIsFresh
  <2>3. ~NickTaken(p, n)
    BY <1>3 DEF NickAccepted
  <2>4. ASSUME NEW q \in live, q # p, nick[q] # NoNick
        PROVE  Upper[nick[q]] # Upper[n]
    <3>1. CASE SameNick(nick[p], n)
      BY <2>4, <3>1 DEF IInv, Core, NickUnique, SameNick
    <3>2. CASE ~SameNick(nick[p], n)
      BY <2>3, <2>4, <3>2 DEF NickTaken, SameNick
    <3>. QED  BY <3>1, <3>2
  <2>5. NickUnique'
    <3>1. SUFFICES ASSUME NEW q \in live, NEW r \in live,
                          nick'[q] # NoNick, nick'[r] # NoNick,
                          Upper[nick'[r]] = Upper[nick'[q]]
                   PROVE  q = r
      BY DEF NickUnique, SameNick
    <3>2. CASE q # p /\ r # p
      BY <2>2, <3>1, <3>2 DEF IInv, Core, NickUnique, SameNick
    <3>3. nick'[p] = n
      BY <1>1, <2>1 DEF IInv, TypeOK
    <3>4. CASE q = p /\ r # p
      BY <2>2, <2>4, <3>1, <3>3, <3>4
    <3>5. CASE q # p /\ r = p
      BY <2>2, <2>4, <3>1, <3>3, <3>5
    <3>. QED  BY <3>2, <3>4, <3>5
  <2>. QED  BY <2>2, <2>5
<1>. QED  BY <1>2, <1>3

\* The type of a step that ends in LoginTail.
LEMMA LoginTailStep ==
  ASSUME IInv, NEW p \in live, p \notin loggedIn,
         NEW msgs \in SUBSET Message, LoginTail(p, msgs),
         nick' \in [Ptr -> AnyNick],
         passGiven' = passGiven \/ passGiven' = passGiven \cup {p},
         \A q \in live \ {p} : nick'[q] = nick[q],
         serving' = p,
         UNCHANGED <<password, live, motdSent, gone, chanVars, fault>>
  PROVE  /\ TypeOK'
         /\ LoginIffCredentials'
         /\ MembersAreLive'
<1>1. p \in Ptr
  BY DEF IInv, TypeOK
<1>2. PICK lines \in SUBSET Message : Send(lines)
  <2>1. {Line(p, "008", 0, NoNick)} \subseteq Message
    BY <1>1, LineType, ChannelAssumption DEF Code, AnyNick
  <2>. QED  BY <2>1 DEF LoginTail
<1>3. /\ out' \subseteq Message
      /\ closed' \subseteq live'
      /\ view' \in [Ptr -> [ChanName -> SUBSET AnyNick]]
  BY <1>2, SendType DEF IInv, TypeOK
<1>4. /\ loggedIn' = loggedIn \/ loggedIn' = loggedIn \cup {p}
      /\ stale' = stale \/ stale' = stale \ {p}
      /\ p \in loggedIn' <=> nick'[p] # NoNick /\ p \in passGiven'
  BY DEF LoginTail, Admitted
<1>5. TypeOK'
  BY <1>3, <1>4 DEF IInv, TypeOK, chanVars
<1>6. LoginIffCredentials'
  BY <1>4 DEF IInv, TypeOK, Core, LoginIffCredentials
<1>7. MembersAreLive'
  BY <1>4 DEF IInv, Core, MembersAreLive, chanVars
<1>. QED  BY <1>5, <1>6, <1>7

\* PASS, NICK and any other line of a client that has not logged in.
LEMMA LoginStep ==
  ASSUME IInv, NEW p \in Ptr,
         \/ PassOk(p) \/ OtherBeforeLogin(p)
         \/ \E n \in Nick : NickBeforeLogin(p, n)
  PROVE  IInv'
<1>1. p \in live /\ p \notin loggedIn
  BY DEF PassOk, OtherBeforeLogin, NickBeforeLogin, LoggingIn, Reading
<1>2. CASE PassOk(p) \/ OtherBeforeLogin(p)
  <2>1. /\ LoginTail(p, {})
        /\ passGiven' = passGiven \/ passGiven' = passGiven \cup {p}
        /\ serving' = p
        /\ UNCHANGED <<password, live, nick, motdSent, gone, chanVars, fault>>
    BY <1>2 DEF PassOk, OtherBeforeLogin
  <2>2. nick' \in [Ptr -> AnyNick]
    BY <2>1 DEF IInv, TypeOK
  <2>3. TypeOK' /\ LoginIffCredentials' /\ MembersAreLive'
    BY <1>1, <2>1, <2>2, LoginTailStep
  <2>4. FreeIsFresh' /\ NickUnique'
    BY <2>1 DEF IInv, Core, FreeIsFresh, NickUnique
  <2>. QED  BY <2>3, <2>4 DEF IInv, Core
<1>3. ASSUME NEW n \in Nick, NickBeforeLogin(p, n)
      PROVE  IInv'
  <2>1. CASE NickFaults(p, n)
    BY <1>3, <2>1, FailStep DEF NickBeforeLogin
  <2>2. CASE ~NickFaults(p, n)
    <3>1. /\ LoginTail(p, NickLines(p, n))
          /\ SetNick(p, n)
          /\ serving' = p
          /\ UNCHANGED <<password, live, passGiven, motdSent, gone, chanVars,
                         fault>>
      BY <1>3, <2>2 DEF NickBeforeLogin
    <3>2. /\ nick' \in [Ptr -> AnyNick]
          /\ FreeIsFresh'
          /\ NickUnique'
          /\ \A q \in live \ {p} : nick'[q] = nick[q]
      BY <1>1, <1>3, <3>1, SetNickStep
    <3>3. NickLines(p, n) \subseteq Message
      BY <1>3, NickLinesType
    <3>4. TypeOK' /\ LoginIffCredentials' /\ MembersAreLive'
      BY <1>1, <3>1, <3>2, <3>3, LoginTailStep
    <3>. QED  BY <3>2, <3>4 DEF IInv, Core
  <2>. QED  BY <2>1, <2>2
<1>. QED  BY <1>2, <1>3

\* NICK after login: a client that is logged in has a nick and keeps one.
LEMMA NickAfterLoginStep ==
  ASSUME IInv, NEW p \in Ptr, NEW n \in Nick, NickAfterLogin(p, n)
  PROVE  IInv'
<1>1. CASE NickFaults(p, n)
  BY <1>1, FailStep DEF NickAfterLogin
<1>2. CASE ~NickFaults(p, n)
  <2>1. /\ p \in live /\ p \in loggedIn
        /\ Send(NickLines(p, n))
        /\ SetNick(p, n)
        /\ serving' = p
        /\ UNCHANGED <<password, live, passGiven, loggedIn, motdSent, gone,
                       chanVars, stale, fault>>
    BY <1>2 DEF NickAfterLogin, Command, Reading
  <2>2. /\ nick' \in [Ptr -> AnyNick]
        /\ FreeIsFresh'
        /\ NickUnique'
        /\ \A q \in live : nick[q] # NoNick => nick'[q] # NoNick
        /\ \A q \in live \ {p} : nick'[q] = nick[q]
    BY <2>1, SetNickStep
  <2>3. NickLines(p, n) \subseteq Message
    BY NickLinesType
  <2>4. /\ out' \subseteq Message
        /\ closed' \subseteq live'
        /\ view' \in [Ptr -> [ChanName -> SUBSET AnyNick]]
    BY <2>1, <2>3, SendType DEF IInv, TypeOK
  <2>5. TypeOK'
    BY <2>1, <2>2, <2>4 DEF IInv, TypeOK, chanVars
  <2>6. LoginIffCredentials'
    BY <2>1, <2>2 DEF IInv, Core, LoginIffCredentials
  <2>7. MembersAreLive'
    BY <2>1 DEF IInv, Core, MembersAreLive, chanVars
  <2>. QED  BY <2>2, <2>5, <2>6, <2>7 DEF IInv, Core
<1>. QED  BY <1>1, <1>2

\* JOIN: only a client that is logged in becomes a member.
LEMMA JoinStep ==
  ASSUME IInv, NEW p \in Ptr, NEW c \in ChanName, Join(p, c)
  PROVE  IInv'
<1>1. CASE Dangling(c) # {}
  BY <1>1, FailStep DEF Join
<1>2. CASE Dangling(c) = {}
  <2>1. /\ p \in live /\ p \in loggedIn
        /\ channelMap' = channelMap \cup {c}
        /\ member' = [member EXCEPT ![c] = @ \cup {p}]
        /\ creator' = [creator EXCEPT ![c] = CreatorAfter(p, c)]
        /\ serving' = p
        /\ UNCHANGED <<live, connVars, gone, skipped, stale, fault>>
        /\ Send(JoinLines(p, c))
    BY <1>2 DEF Join, Command, Reading
  <2>2. JoinLines(p, c) \subseteq Message
    <3>1. /\ c \in 0..NumChannels
          /\ member[c] \subseteq Ptr
          /\ \A q \in Ptr : nick[q] \in AnyNick
          /\ "300" \in Code
      BY ChanIsCode DEF IInv, TypeOK, Code
    <3>2. {Reply(p)} \subseteq Message
      BY ReplyType
    <3>3. \A q \in member[c] \cup {p} :
            ListLine(p, c, q, CreatorAfter(p, c)) \in Message
      BY <3>1, ListLineType
    <3>4. \A S \in SUBSET Ptr : ToAll(S, "300", c, nick[p]) \subseteq Message
      BY <3>1, ToAllType
    <3>. QED  BY <3>1, <3>2, <3>3, <3>4 DEF JoinLines
  <2>3. /\ out' \subseteq Message
        /\ closed' \subseteq live'
        /\ view' \in [Ptr -> [ChanName -> SUBSET AnyNick]]
    BY <2>1, <2>2, SendType DEF IInv, TypeOK
  <2>4. TypeOK'
    <3>1. CreatorAfter(p, c) \in Ptr \cup {NoClient}
      BY DEF CreatorAfter, IInv, TypeOK
    <3>. QED  BY <2>1, <2>3, <3>1 DEF IInv, TypeOK, connVars
  <2>5. FreeIsFresh' /\ NickUnique' /\ LoginIffCredentials'
    BY <2>1 DEF IInv, Core, FreeIsFresh, NickUnique, LoginIffCredentials,
                connVars
  <2>6. MembersAreLive'
    BY <2>1 DEF IInv, TypeOK, Core, MembersAreLive, connVars
  <2>. QED  BY <2>4, <2>5, <2>6 DEF IInv, Core
<1>. QED  BY <1>1, <1>2

\* PART, by a member or not, of the name as typed.
LEMMA PartStep ==
  ASSUME IInv, NEW p \in Ptr, NEW c \in ChanName, NEW lower \in BOOLEAN,
         Part(p, c, lower)
  PROVE  IInv'
<1>1. p \in live
  BY DEF Part, Command, Reading
<1>2. nick[p] \in AnyNick /\ c \in 0..NumChannels /\ member[c] \subseteq Ptr
  BY ChanIsCode DEF IInv, TypeOK
<1>3. CASE Fail("useAfterFree") \/ Fail("erasedNode")
  BY <1>3, FailStep
<1>4. CASE /\ c \in channelMap /\ lower /\ Dangling(c) = {}
           /\ ~Fail("erasedNode")
  <2> DEFINE E == Emptied(p, {c})
  <2>1. /\ Leave(p, {c})
        /\ skipped' = skipped \ E
        /\ serving' = p
        /\ UNCHANGED <<live, connVars, gone, stale, fault>>
        /\ Send(PartLines(p, c))
    BY <1>4 DEF Part, NodeFault
  <2>2. /\ channelMap' = channelMap \ E
        /\ E \subseteq {c}
        /\ c \in E <=> member[c] = {p}
        /\ member' = [d \in ChanName |-> IF d \in {c} THEN member[d] \ {p}
                                                      ELSE member[d]]
        /\ creator' \in [ChanName -> Ptr \cup {NoClient}]
    BY <2>1 DEF Leave, Emptied, IInv, TypeOK
  <2> HIDE DEF E
  <2>3. /\ member'[c] = member[c] \ {p}
        /\ \A d \in ChanName \ {c} : member'[d] = member[d]
    BY <2>2
  <2>4. PartLines(p, c) \subseteq Message
    BY <1>2, ToAllType DEF PartLines, Code
  <2>5. /\ out' \subseteq Message
        /\ closed' \subseteq live'
        /\ view' \in [Ptr -> [ChanName -> SUBSET AnyNick]]
    BY <2>1, <2>4, SendType DEF IInv, TypeOK
  <2>6. TypeOK'
    BY <1>1, <2>1, <2>2, <2>5 DEF IInv, TypeOK, connVars
  <2>7. FreeIsFresh' /\ NickUnique' /\ LoginIffCredentials'
    BY <2>1 DEF IInv, Core, FreeIsFresh, NickUnique, LoginIffCredentials,
                connVars
  <2>8. MembersAreLive'
    <3>1. ASSUME NEW d \in ChanName \ skipped'
          PROVE  member'[d] \subseteq loggedIn'
      <4>1. CASE d \in E
        BY <2>2, <2>3, <4>1
      <4>2. CASE d \notin E
        BY <2>1, <2>3, <3>1, <4>2 DEF IInv, Core, MembersAreLive, connVars
      <4>. QED  BY <4>1, <4>2
    <3>2. ASSUME NEW d \in ChanName
          PROVE  d \in channelMap' <=> member'[d] # {}
      <4>1. d \in channelMap <=> member[d] # {}
        BY DEF IInv, Core, MembersAreLive
      <4>2. CASE d # c
        BY <2>2, <2>3, <4>1, <4>2
      <4>3. CASE d = c /\ member[c] = {p}
        <5>1. member'[c] = {}
          BY <2>3, <4>3
        <5>. QED  BY <2>2, <4>3, <5>1
      <4>4. CASE d = c /\ member[c] # {p}
        <5>1. PICK q \in member[c] : q # p
          BY <1>4, <4>1, <4>4
        <5>. QED  BY <1>4, <2>2, <2>3, <4>4, <5>1
      <4>. QED  BY <4>2, <4>3, <4>4
    <3>. QED  BY <3>1, <3>2 DEF MembersAreLive
  <2>. QED  BY <2>6, <2>7, <2>8 DEF IInv, Core
<1>5. CASE ~(c \in channelMap /\ lower)
  <2> DEFINE refusal == {Line(p, "701", c, nick[p])}
  <2>1. refusal \subseteq Message
    BY <1>2, LineType DEF Code
  <2>2. /\ serving' = p
        /\ UNCHANGED <<live, connVars, gone, chanVars, stale, fault>>
        /\ Send(refusal)
    BY <1>5 DEF Part
  <2>. QED  BY <1>1, <2>1, <2>2, QuietType, CoreUnchanged DEF IInv
<1>. QED  BY <1>3, <1>4, <1>5 DEF Part

\* PONG, MSG, PRIVMSG, WHOIS, CHANLIST, and the checks that find nothing due.
LEMMA QuietStep ==
  ASSUME IInv, NEW p \in Ptr,
         \/ Pong(p) \/ Query(p) \/ CheckPassed(p)
         \/ \E c \in ChanName : Msg(p, c)
         \/ \E n \in Nick : PrivMsg(p, n)
  PROVE  IInv'
<1>1. CASE \E c \in ChanName : MaySpeak(p, c) /\ Dangling(c) \ {p} # {}
                               /\ Msg(p, c)
  BY <1>1, FailStep DEF Msg
<1>2. CASE ~ \E c \in ChanName : MaySpeak(p, c) /\ Dangling(c) \ {p} # {}
                                 /\ Msg(p, c)
  <2>1. p \in live
    BY DEF Pong, Query, CheckPassed, Msg, PrivMsg, Command, Reading, Checking
  <2>2. /\ UNCHANGED <<live, connVars, gone, chanVars, stale, fault>>
        /\ serving' \in {p, NoClient}
    BY <1>2 DEF Pong, Query, CheckPassed, Msg, PrivMsg
  <2>3. {} \subseteq Message /\ {Reply(p)} \subseteq Message
    BY ReplyType
  <2>4. PICK msgs \in SUBSET Message : Send(msgs)
    <3>1. CASE Pong(p) \/ Query(p) \/ CheckPassed(p)
      BY <2>3, <3>1 DEF Pong, Query, CheckPassed
    <3>2. ASSUME NEW c \in ChanName, Msg(p, c)
          PROVE  \E msgs \in SUBSET Message : Send(msgs)
      <4>1. /\ c \in 0..NumChannels /\ nick[p] \in AnyNick
            /\ member[c] \ {p} \subseteq Ptr /\ "500" \in Code
        BY ChanIsCode DEF IInv, TypeOK, Code
      <4>2. ToAll(member[c] \ {p}, "500", c, nick[p]) \subseteq Message
        BY <4>1, ToAllType
      <4>. QED  BY <1>2, <2>3, <3>2, <4>2 DEF Msg
    <3>3. ASSUME NEW n \in Nick, PrivMsg(p, n)
          PROVE  \E msgs \in SUBSET Message : Send(msgs)
      <4>1. live \subseteq Ptr /\ nick[p] \in AnyNick
        BY DEF IInv, TypeOK
      <4>2. 0 \in 0..NumChannels
        BY ChannelAssumption
      <4>3. "501" \in Code
        BY DEF Code
      <4>4. \A q \in live : {Line(q, "501", 0, nick[p])} \subseteq Message
        BY <4>1, <4>2, <4>3, LineType
      <4>5. CASE \E q \in live : Send({Line(q, "501", 0, nick[p])})
        BY <4>4, <4>5
      <4>6. CASE Send({Reply(p)})
        BY <2>3, <4>6
      <4>. QED  BY <3>3, <4>5, <4>6 DEF PrivMsg
    <3>. QED  BY <3>1, <3>2, <3>3
  <2>. QED  BY <2>1, <2>2, <2>4, QuietType, CoreUnchanged DEF IInv
<1>. QED  BY <1>1, <1>2

\* SendMOTD, a reload and a peer that goes away touch nothing Core speaks of.
LEMMA AsideStep ==
  ASSUME IInv, NEW p \in Ptr, SendMOTD(p) \/ Reload \/ PeerGone(p)
  PROVE  IInv'
<1>1. UNCHANGED coreVars
  BY DEF SendMOTD, Reload, PeerGone, coreVars, chanVars, connVars
<1>2. CASE SendMOTD(p)
  <2>1. {Reply(p)} \subseteq Message
    BY ReplyType
  <2>2. /\ out' \subseteq Message
        /\ closed' \subseteq live'
        /\ view' \in [Ptr -> [ChanName -> SUBSET AnyNick]]
    BY <1>1, <1>2, <2>1, SendType DEF SendMOTD, IInv, TypeOK, coreVars
  <2>3. p \in live
    BY <1>2 DEF SendMOTD, Checking
  <2>4. TypeOK'
    BY <1>2, <2>2, <2>3 DEF SendMOTD, IInv, TypeOK, chanVars
  <2>. QED  BY <1>1, <2>4, CoreUnchanged DEF IInv
<1>3. CASE Reload \/ PeerGone(p)
  <2>1. TypeOK'
    BY <1>3 DEF Reload, PeerGone, IInv, TypeOK, chanVars, connVars
  <2>. QED  BY <1>1, <2>1, CoreUnchanged DEF IInv
<1>. QED  BY <1>2, <1>3

\* A client that is dropped, by whichever handler.
LEMMA DropStep ==
  ASSUME IInv, NEW p \in Ptr,
         \/ ReadNothing(p) \/ Quit(p) \/ PassWrong(p) \/ ConnectionClosed(p)
         \/ PingTimeout(p) \/ LoginTimeout(p)
  PROVE  IInv'
<1>1. p \in live
  BY DEF ReadNothing, Quit, PassWrong, ConnectionClosed, PingTimeout,
         LoginTimeout, DropInCheck, Checking, LoggingIn, Reading
<1>2. DeleteClient(p) \/ Fail("nullPointer") \/ Fail("erasedIterator")
  BY DEF ReadNothing, Quit, PassWrong, ConnectionClosed, PingTimeout,
         LoginTimeout, DropInCheck, SerialsFault
<1>. QED  BY <1>1, <1>2, DeleteClientStep, FailStep

-----------------------------------------------------------------------------
(* The theorems.                                                           *)

LEMMA InitIInv == Init => IInv
BY DEF Init, IInv, TypeOK, Core, FreeIsFresh, NickUnique, LoginIffCredentials,
       MembersAreLive, AnyNick

LEMMA NextIInv == IInv /\ [Next]_vars => IInv'
<1> SUFFICES ASSUME IInv, [Next]_vars PROVE IInv'
  OBVIOUS
<1>1. CASE Next
  <2>1. CASE Reload
    <3>1. CASE Ptr = {}
      BY <2>1, <3>1, CoreUnchanged
         DEF Reload, IInv, TypeOK, chanVars, connVars, coreVars
    <3>2. CASE Ptr # {}
      BY <2>1, <3>2, AsideStep
    <3>. QED  BY <3>1, <3>2
  <2>2. ASSUME NEW p \in Ptr,
               \/ Connection(p) \/ Quit(p) \/ Pong(p)
               \/ LoginBranch(p) \/ CommandBranch(p) \/ Checks(p)
        PROVE  IInv'
    <3>1. CASE Connection(p) \/ Quit(p) \/ Pong(p)
      BY <3>1, NewClientStep, AsideStep, DropStep, QuietStep DEF Connection
    <3>2. CASE LoginBranch(p)
      BY <3>2, LoginStep, DropStep DEF LoginBranch
    <3>3. CASE CommandBranch(p)
      BY <3>3, QuietStep, JoinStep, PartStep, NickAfterLoginStep
         DEF CommandBranch
    <3>4. CASE Checks(p)
      BY <3>4, DropStep, AsideStep, QuietStep DEF Checks
    <3>. QED  BY <2>2, <3>1, <3>2, <3>3, <3>4
  <2>. QED  BY <1>1, <2>1, <2>2 DEF Next
<1>2. CASE UNCHANGED vars
  <2>1. UNCHANGED coreVars
    BY <1>2 DEF vars, coreVars, connVars, chanVars
  <2>2. TypeOK'
    BY <1>2 DEF vars, connVars, chanVars, IInv, TypeOK
  <2>. QED  BY <2>1, <2>2, CoreUnchanged DEF IInv
<1>. QED  BY <1>1, <1>2

\* The inductive invariant holds in every reachable state.
THEOREM Inductive == Spec => []IInv
BY InitIInv, NextIInv, PTL DEF Spec

\* Every variable keeps its type, whatever clients send and whenever they go.
THEOREM TypeCorrect == Spec => []TypeOK
<1>1. IInv => TypeOK
  BY DEF IInv
<1>. QED  BY <1>1, Inductive, PTL

\* NickChange never lets two clients hold nicks that differ only in case.
THEOREM NicksAreUnique == Spec => []NickUnique
<1>1. IInv => NickUnique
  BY DEF IInv, Core
<1>. QED  BY <1>1, Inductive, PTL

\* A client is logged in exactly when it has a nick and gave the password.
THEOREM LoginNeedsCredentials == Spec => []LoginIffCredentials
<1>1. IInv => LoginIffCredentials
  BY DEF IInv, Core
<1>. QED  BY <1>1, Inductive, PTL

\* Channels DeleteClient did not step over hold logged-in clients only, and
\* no channel in the map is empty.
THEOREM ChannelsHoldMembers == Spec => []MembersAreLive
<1>1. IInv => MembersAreLive
  BY DEF IInv, Core
<1>. QED  BY <1>1, Inductive, PTL

-----------------------------------------------------------------------------
(* Where a fault can come from.                                            *)

\* A dangling pointer on some channel is the trace of a stepped-over one.
LEMMA UseAfterFree ==
  ASSUME IInv, NEW c \in ChanName, Dangling(c) # {}, Fail("useAfterFree")
  PROVE  FaultCause'
<1>1. c \in skipped
  BY DanglingIsSkipped
<1>. QED  BY <1>1 DEF Fail, FaultCause, chanVars

\* DeleteClientSerials erases something only if there are serials.
LEMMA ErasedIterator ==
  ASSUME NEW p \in Ptr, SerialsFault(p)
  PROVE  FaultCause'
<1>1. fault' = "erasedIterator" /\ p \in loggedIn' \cup stale'
  BY DEF SerialsFault, HasSerials, Fail, connVars
<1>. QED  BY <1>1 DEF FaultCause

\* DeleteChannel is called by PART only for a client that was alone.
LEMMA ErasedNode ==
  ASSUME NEW p \in loggedIn, NEW c \in channelMap, NodeFault(p, c)
  PROVE  FaultCause'
<1>1. /\ fault' = "erasedNode" /\ member'[c] = {p}
      /\ p \in loggedIn' /\ c \in channelMap'
  BY DEF NodeFault, Emptied, Fail, connVars, chanVars
<1>. QED  BY <1>1 DEF FaultCause

LEMMA DeleteClientFault ==
  ASSUME IInv, fault = "none", NEW p \in Ptr, DeleteClient(p)
  PROVE  FaultCause'
<1>1. CASE \E c \in Visited(p) : Dangling(c) # {}
  <2>1. Visited(p) \subseteq ChanName
    BY DEF Visited, IInv, TypeOK
  <2>. QED  BY <1>1, <2>1, UseAfterFree DEF DeleteClient
<1>2. CASE SerialsFault(p)
  BY <1>2, ErasedIterator
<1>3. CASE TakeOut(p)
  BY <1>3 DEF TakeOut, FaultCause
<1>. QED  BY <1>1, <1>2, <1>3 DEF DeleteClient

LEMMA NextFault ==
  ASSUME IInv, FaultCause, [Next]_vars
  PROVE  FaultCause'
<1>1. CASE UNCHANGED vars
  BY <1>1 DEF vars, connVars, chanVars, FaultCause
<1>2. CASE fault = "none" /\ fault' = fault
  BY <1>2 DEF FaultCause
<1>3. ASSUME fault = "none", fault' # fault,
             NEW p \in Ptr,
             \/ Connection(p) \/ Quit(p) \/ Pong(p)
             \/ LoginBranch(p) \/ CommandBranch(p) \/ Checks(p)
      PROVE  FaultCause'
  <2>1. CASE Connection(p) \/ Quit(p) \/ Pong(p)
    BY <1>3, <2>1, DeleteClientFault
       DEF Connection, Quit, Pong, NewClientConnect, PeerGone, ReadNothing
  <2>2. CASE LoginBranch(p)
    <3>1. ASSUME NEW n \in Nick, NickBeforeLogin(p, n)
          PROVE  FaultCause'
      <4>1. NickFaults(p, n) /\ Fail("useAfterFree")
        BY <1>3, <3>1 DEF NickBeforeLogin
      <4>2. PICK c \in channelMap : Dangling(c) # {}
        BY <4>1 DEF NickFaults, OnChannels
      <4>. QED  BY <4>1, <4>2, UseAfterFree DEF IInv, TypeOK
    <3>. QED  BY <1>3, <2>2, <3>1, DeleteClientFault
              DEF LoginBranch, PassOk, PassWrong, OtherBeforeLogin
  <2>3. CASE CommandBranch(p)
    <3>1. ASSUME NEW n \in Nick, NickAfterLogin(p, n)
          PROVE  FaultCause'
      <4>1. NickFaults(p, n) /\ Fail("useAfterFree")
        BY <1>3, <3>1 DEF NickAfterLogin
      <4>2. PICK c \in channelMap : Dangling(c) # {}
        BY <4>1 DEF NickFaults, OnChannels
      <4>. QED  BY <4>1, <4>2, UseAfterFree DEF IInv, TypeOK
    <3>2. ASSUME NEW c \in ChanName, Join(p, c) \/ Msg(p, c)
          PROVE  FaultCause'
      BY <1>3, <3>2, UseAfterFree DEF Join, Msg
    <3>3. ASSUME NEW c \in ChanName, NEW lower \in BOOLEAN, Part(p, c, lower)
          PROVE  FaultCause'
      <4>1. CASE Fail("useAfterFree") /\ Dangling(c) # {}
        BY <4>1, UseAfterFree
      <4>2. CASE c \in channelMap /\ NodeFault(p, c)
        <5>1. p \in loggedIn
          BY <3>3 DEF Part, Command
        <5>. QED  BY <4>2, <5>1, ErasedNode
      <4>3. CASE fault' = fault
        BY <1>3, <4>3
      <4>. QED  BY <3>3, <4>1, <4>2, <4>3 DEF Part
    <3>. QED  BY <1>3, <2>3, <3>1, <3>2, <3>3 DEF CommandBranch, Query, PrivMsg
  <2>4. CASE Checks(p)
    <3>1. ASSUME DropInCheck(p)
          PROVE  FaultCause'
      <4>1. CASE DeleteClient(p)
        BY <1>3, <4>1, DeleteClientFault
      <4>2. CASE password /\ Fail("nullPointer")
        BY <4>2 DEF Fail, FaultCause, connVars
      <4>3. CASE SerialsFault(p)
        BY <4>3, ErasedIterator
      <4>. QED  BY <3>1, <4>1, <4>2, <4>3 DEF DropInCheck
    <3>. QED  BY <1>3, <2>4, <3>1, DeleteClientFault
              DEF Checks, ConnectionClosed, PingTimeout, SendMOTD, CheckPassed,
                  LoginTimeout
  <2>. QED  BY <1>3, <2>1, <2>2, <2>3, <2>4
<1>. QED  BY <1>1, <1>2, <1>3 DEF Next, Reload

\* What undefined behaviour takes: a channel stepped over by the walk of
\* DeleteClient, a drop in CheckForConnectionStatus on a server with a
\* password, a PART by the last member of a channel, or the deletion of a
\* client with serials in the map.
THEOREM FaultsExplained == Spec => []FaultCause
<1>1. Init => FaultCause
  BY DEF Init, FaultCause
<1>. QED  BY <1>1, NextFault, Inductive, PTL DEF Spec

-----------------------------------------------------------------------------
(* What the clients are told.                                              *)

\* The pictures of one channel: those who are not on it, and freed
\* addresses, have an empty one; the members have the list of nicks, unless
\* the channel was stepped over.  The creator's flag goes with the creator.
ChannelViews(c) ==
  /\ creator[c] \in member[c] \cup {NoClient}
  /\ \A q \in Ptr : q \notin live \/ q \notin member[c] => view[q][c] = {}
  /\ c \notin skipped =>
       \A q \in member[c] :
         view[q][c] = {nick[r] : r \in member[c] \ Unnamed(q, c)}

ViewInv == \A c \in ChanName : ChannelViews(c)

\* The codes that change a picture.
ListCode == {"300", "304", "305", "306"}

\* The lines of msgs that q hears about c.
About(q, c, msgs) == {m \in msgs : m.to = q /\ m.chan = c}

\* The fields of the lines that are sent.
LEMMA LineFields ==
  ASSUME NEW q, NEW code, NEW c, NEW n, NEW old
  PROVE  /\ Line(q, code, c, n).to = q
         /\ Line(q, code, c, n).code = code
         /\ Line(q, code, c, n).chan = c
         /\ Line(q, code, c, n).nick = n
         /\ Rename(q, c, old, n).to = q
         /\ Rename(q, c, old, n).code = "306"
         /\ Rename(q, c, old, n).chan = c
         /\ Rename(q, c, old, n).nick = old
         /\ Rename(q, c, old, n).new = n
BY DEF Line, Rename

\* A picture does not change by lines with other codes.
LEMMA HearSilent ==
  ASSUME NEW q, NEW c, NEW msgs,
         \A m \in About(q, c, msgs) : m.code \notin ListCode
  PROVE  Hear(q, c, msgs) = view[q][c]
BY DEF Hear, About, ListCode

\* A line of a nick list.
LEMMA ListFields ==
  ASSUME NEW p, NEW c, NEW q, NEW flagged
  PROVE  /\ ListLine(p, c, q, flagged).to = p
         /\ ListLine(p, c, q, flagged).code = "300"
         /\ ListLine(p, c, q, flagged).chan = c
         /\ ListLine(p, c, q, flagged).nick = nick[q]
BY DEF ListLine, Line

\* Where the dot is.
LEMMA Dots ==
  ASSUME NEW p, NEW c, NEW q, NEW flagged
  PROVE  /\ ListLine(p, c, q, flagged).dot <=> q = flagged
         /\ \A code, n : ~Line(q, code, c, n).dot
BY DEF ListLine, Line

\* The lines about c in which q reads a name: not those with a dot, unless q
\* knows what the dot is.
Read(q, c, msgs) == {m \in About(q, c, msgs) : m.dot => q \in FlagReaders}

\* Lists of names (300) add those names.
LEMMA HearJoined ==
  ASSUME NEW q, NEW c, NEW msgs,
         \A m \in About(q, c, msgs) : m.code = "300"
  PROVE  Hear(q, c, msgs) = view[q][c] \cup {m.nick : m \in Read(q, c, msgs)}
<1> DEFINE mine   == {m \in msgs : m.to = q /\ m.chan = c}
           joined == {m.nick : m \in {l \in mine :
                        l.code = "300" /\ (l.dot => q \in FlagReaders)}}
<1>1. joined = {m.nick : m \in Read(q, c, msgs)}
  BY DEF About, Read
<1>2. \A m \in mine : m.code = "300"
  BY DEF About
<1>3. Hear(q, c, msgs) = view[q][c] \cup joined
  BY <1>2 DEF Hear
<1> QED
  BY <1>1, <1>3

\* A departure (304, 305) takes a name away, or all if it is one's own.
LEMMA HearLeft ==
  ASSUME NEW q, NEW c, NEW msgs, NEW n,
         \A m \in About(q, c, msgs) : m.code \in {"304", "305"} /\ m.nick = n,
         About(q, c, msgs) # {}
  PROVE  /\ nick[q] = n => Hear(q, c, msgs) = {}
         /\ nick[q] # n => Hear(q, c, msgs) = view[q][c] \ {n}
<1>1. \E m \in msgs : m.to = q /\ m.chan = c /\ m.code \in {"304", "305"}
                     /\ m.nick = n
  BY DEF About
<1>2. \A m \in msgs : m.to = q /\ m.chan = c =>
        m.code # "300" /\ m.code # "306" /\ m.nick = n
  BY DEF About
<1> QED
  BY <1>1, <1>2 DEF Hear

\* A change of nick (306) replaces a name, if it is there.
LEMMA HearRenamed ==
  ASSUME NEW q, NEW c, NEW msgs, NEW old, NEW n,
         \A m \in About(q, c, msgs) :
            m = Rename(q, c, old, n) \/ m.code = "008",
         Rename(q, c, old, n) \in msgs
  PROVE  Hear(q, c, msgs) = (view[q][c] \ {old})
                              \cup (IF old \in view[q][c] THEN {n} ELSE {})
<1>1. \A m \in msgs : m.to = q /\ m.chan = c =>
        m = Rename(q, c, old, n) \/ m.code = "008"
  BY DEF About
<1> QED
  BY <1>1, LineFields DEF Hear

\* What Send makes of one picture.
LEMMA SendViews ==
  ASSUME NEW msgs, Send(msgs), NEW c \in ChanName, NEW q \in Ptr
  PROVE  view'[q][c] = IF q \in live' THEN Hear(q, c, msgs) ELSE {}
BY DEF Send

\* A channel whose members stay, keep their nicks and hear nothing.
LEMMA SilentChannel ==
  ASSUME TypeOK, NEW c \in ChanName, ChannelViews(c), NEW msgs, Send(msgs),
         \A m \in msgs : m.chan = c => m.code \notin ListCode,
         member'[c] = member[c], creator'[c] = creator[c],
         c \notin skipped' => c \notin skipped /\ member[c] \subseteq live',
         \A r \in member[c] : c \notin skipped' => nick'[r] = nick[r]
  PROVE  ChannelViews(c)'
<1>1. \A q \in Ptr : Hear(q, c, msgs) = view[q][c]
  BY HearSilent DEF About
<1>2. ASSUME NEW q \in Ptr, q \notin live' \/ q \notin member[c]
      PROVE  view'[q][c] = {}
  BY <1>1, <1>2, SendViews DEF ChannelViews
<1>3. ASSUME c \notin skipped', NEW q \in member[c]
      PROVE  view'[q][c] = {nick'[r] : r \in member[c] \ Unnamed(q, c)}
  <2> DEFINE named == member[c] \ Unnamed(q, c)
  <2>1. q \in live' /\ q \in Ptr
    BY <1>3 DEF TypeOK
  <2>2. view[q][c] = {nick[r] : r \in named}
    BY <1>3 DEF ChannelViews
  <2>3. {nick[r] : r \in named} = {nick'[r] : r \in named}
    BY <1>3
  <2> QED
    BY <1>1, <2>1, <2>2, <2>3, SendViews
<1>4. \A q : Unnamed(q, c)' = Unnamed(q, c)
  BY DEF Unnamed
<1>5. (creator[c] \in member[c] \cup {NoClient})'
  BY DEF ChannelViews
<1> QED
  BY <1>2, <1>3, <1>4, <1>5 DEF ChannelViews

\* What the lists of a channel that was not stepped over rest on: its members
\* are clients with distinct nicks.
LEMMA MembersAreNamed ==
  ASSUME IInv, NEW c \in ChanName \ skipped
  PROVE  /\ member[c] \subseteq live
         /\ \A q \in member[c] : nick[q] # NoNick
         /\ \A q \in member[c] : \A r \in live : nick[q] = nick[r] => q = r
<1>1. member[c] \subseteq loggedIn /\ loggedIn \subseteq live
  BY DEF IInv, TypeOK, Core, MembersAreLive
<1>2. \A q \in loggedIn : nick[q] # NoNick
  BY <1>1 DEF IInv, Core, LoginIffCredentials
<1> QED
  BY <1>1, <1>2 DEF IInv, Core, NickUnique, SameNick

\* Steps that send nothing about any channel: everything but JOIN, PART, a
\* change of nick and a departure.
LEMMA SilentViews ==
  ASSUME IInv, ViewInv, NEW msgs, Send(msgs),
         \A m \in msgs : m.code \notin ListCode,
         UNCHANGED <<nick, chanVars>>, live \subseteq live'
  PROVE  ViewInv'
<1> SUFFICES ASSUME NEW c \in ChanName
             PROVE  ChannelViews(c)'
  BY DEF ViewInv
<1>1. /\ TypeOK /\ ChannelViews(c)
      /\ member'[c] = member[c] /\ skipped' = skipped
      /\ creator'[c] = creator[c]
  BY DEF IInv, ViewInv, chanVars
<1>2. c \notin skipped => member[c] \subseteq live
  BY MembersAreNamed
<1> QED
  BY <1>1, <1>2, SilentChannel

\* Steps that send nothing at all.
LEMMA SameViews ==
  ASSUME ViewInv, UNCHANGED <<live, nick, chanVars, view>>
  PROVE  ViewInv'
BY DEF ViewInv, ChannelViews, Unnamed, chanVars

\* JOIN: the newcomer gets the list, the others get the newcomer.
LEMMA JoinViews ==
  ASSUME IInv, ViewInv, NEW p \in Ptr, NEW c \in ChanName, Join(p, c)
  PROVE  ViewInv'
<1>1. CASE Dangling(c) # {}
  BY <1>1, SameViews DEF Join, Fail, connVars
<1>2. CASE Dangling(c) = {}
  <2> DEFINE msgs == JoinLines(p, c)
  <2>1. /\ member' = [member EXCEPT ![c] = @ \cup {p}]
        /\ creator' = [creator EXCEPT ![c] = CreatorAfter(p, c)]
        /\ UNCHANGED <<live, nick, skipped>>
        /\ Send(msgs)
        /\ p \in live
    BY <1>2 DEF Join, connVars, Command, Reading
  <2>2. /\ TypeOK
        /\ \A d \in ChanName : member[d] \in SUBSET Ptr
        /\ c # 0
    BY ChannelAssumption DEF IInv, TypeOK, ChanName
  <2>3. /\ member'[c] = member[c] \cup {p}
        /\ creator'[c] = CreatorAfter(p, c)
        /\ \A d \in ChanName \ {c} : /\ member'[d] = member[d]
                                     /\ creator'[d] = creator[d]
    BY <2>1, <2>2 DEF TypeOK
  <2> DEFINE named(q) == (member[c] \cup {p}) \ Unnamed(q, c)'
  <2>4. \A m \in msgs :
          \/ m.code \notin ListCode
          \/ m.code = "300" /\ m.chan = c
    BY LineFields, ListFields DEF JoinLines, ToAll, Reply, ListCode
  <2>5. ASSUME NEW q
        PROVE  /\ \A m \in About(q, c, msgs) : m.code = "300"
               /\ {m.nick : m \in Read(q, c, msgs)} =
                    IF q = p THEN {nick[r] : r \in named(p)}
                    ELSE IF p \notin member[c] /\ q \in member[c]
                         THEN {nick[p]} ELSE {}
    <3> DEFINE others == IF p \in member[c] THEN {} ELSE member[c]
               listed(r) == ListLine(p, c, r, CreatorAfter(p, c))
    <3>1. \A m : m \in About(q, c, msgs) <=>
            \/ q \in others /\ m = Line(q, "300", c, nick[p])
            \/ q = p /\ \E r \in member[c] \cup {p} : m = listed(r)
      <4>1. \A m : m \in msgs <=>
              \/ \E s \in others : m = Line(s, "300", c, nick[p])
              \/ \E r \in member[c] \cup {p} : m = listed(r)
              \/ m = Reply(p)
        BY DEF JoinLines, ToAll
      <4>2. Reply(p).chan # c
        BY <2>2, LineFields DEF Reply
      <4> HIDE DEF msgs, others
      <4>3. \A m : m \in About(q, c, msgs) <=>
              m \in msgs /\ m.to = q /\ m.chan = c
        BY DEF About
      <4>4. ASSUME NEW m \in msgs, m.to = q, m.chan = c
            PROVE  \/ q \in others /\ m = Line(q, "300", c, nick[p])
                   \/ q = p /\ \E r \in member[c] \cup {p} : m = listed(r)
        <5>1. CASE \E s \in others : m = Line(s, "300", c, nick[p])
          <6>1. PICK s \in others : m = Line(s, "300", c, nick[p])
            BY <5>1
          <6>2. Line(s, "300", c, nick[p]).to = s
            BY LineFields
          <6> QED
            BY <4>4, <6>1, <6>2
        <5>2. CASE \E r \in member[c] \cup {p} : m = listed(r)
          <6>1. PICK r \in member[c] \cup {p} : m = listed(r)
            BY <5>2
          <6>2. m.to = p
            BY <6>1, ListFields
          <6> QED
            BY <4>4, <6>1, <6>2
        <5> QED
          BY <4>1, <4>2, <4>4, <5>1, <5>2
      <4>5. ASSUME NEW m, q \in others, m = Line(q, "300", c, nick[p])
            PROVE  m \in About(q, c, msgs)
        <5>1. /\ Line(q, "300", c, nick[p]).to = q
              /\ Line(q, "300", c, nick[p]).chan = c
          BY LineFields
        <5> QED
          BY <4>1, <4>3, <4>5, <5>1
      <4>6. ASSUME NEW r \in member[c] \cup {p}, q = p
            PROVE  listed(r) \in About(q, c, msgs)
        BY <4>1, <4>3, <4>6, ListFields
      <4> QED
        BY <4>3, <4>4, <4>5, <4>6
    <3> HIDE DEF msgs
    <3>2. \A m \in About(q, c, msgs) : m.code = "300"
      BY <3>1, LineFields, ListFields
    <3>3. CASE q = p
      <4>1. \A r \in member[c] \cup {p} : r \in named(p) <=>
              (listed(r).dot => p \in FlagReaders)
        BY <2>3, Dots DEF Unnamed
      <4> HIDE DEF named
      <4>2. ASSUME NEW m \in Read(q, c, msgs)
            PROVE  m.nick \in {nick[r] : r \in named(p)}
        <5>1. m \in About(q, c, msgs) /\ (m.dot => p \in FlagReaders)
          BY <3>3 DEF Read
        <5>2. ASSUME q \in others, m = Line(q, "300", c, nick[p])
              PROVE  FALSE
          BY <3>3, <5>2
        <5>3. PICK r \in member[c] \cup {p} : m = listed(r)
          BY <3>1, <5>1, <5>2
        <5> QED
          BY <4>1, <5>1, <5>3, ListFields
      <4>3. ASSUME NEW r \in named(p)
            PROVE  nick[r] \in {m.nick : m \in Read(q, c, msgs)}
        <5>1. r \in member[c] \cup {p}
          BY DEF named
        <5>2. listed(r) \in Read(q, c, msgs)
          BY <3>1, <3>3, <4>1, <5>1 DEF Read
        <5> QED
          BY <5>2, ListFields
      <4> QED
        BY <3>2, <3>3, <4>2, <4>3
    <3>4. CASE q # p
      <4>1. \A m : m \in Read(q, c, msgs) <=>
              q \in others /\ m = Line(q, "300", c, nick[p])
        <5>1. \A m : m \in About(q, c, msgs) <=>
                q \in others /\ m = Line(q, "300", c, nick[p])
          BY <3>1, <3>4
        <5>2. ~Line(q, "300", c, nick[p]).dot
          BY Dots
        <5> HIDE DEF others, listed
        <5> QED
          BY <5>1, <5>2 DEF Read
      <4> QED
        BY <3>2, <3>4, <4>1, LineFields
    <3> QED
      BY <3>3, <3>4
  <2> HIDE DEF msgs
  <2>6. ASSUME NEW d \in ChanName \ {c}
        PROVE  ChannelViews(d)'
    <3>1. ChannelViews(d)
      BY DEF ViewInv
    <3>2. d \notin skipped => member[d] \subseteq live
      BY MembersAreNamed
    <3>3. \A m \in msgs : m.chan = d => m.code \notin ListCode
      BY <2>4
    <3> QED
      BY <2>1, <2>2, <2>3, <3>1, <3>2, <3>3, SilentChannel
  <2>7. ChannelViews(c)'
    <3>1. ChannelViews(c)
      BY DEF ViewInv
    <3>2. \A q \in Ptr : Hear(q, c, msgs) =
            view[q][c] \cup {m.nick : m \in Read(q, c, msgs)}
      BY <2>5, HearJoined
    <3>3. ASSUME NEW q \in Ptr, q \notin live' \/ q \notin member'[c]
          PROVE  view'[q][c] = {}
      <4>1. CASE q \notin live'
        BY <2>1, <4>1, SendViews
      <4>2. CASE q \notin member'[c]
        <5>1. q # p /\ q \notin member[c]
          BY <2>3, <4>2
        <5>2. Hear(q, c, msgs) = {}
          BY <2>5, <3>1, <3>2, <5>1 DEF ChannelViews
        <5> QED
          BY <2>1, <5>2, SendViews
      <4> QED
        BY <3>3, <4>1, <4>2
    <3>4. ASSUME c \notin skipped', NEW q \in member'[c]
          PROVE  view'[q][c] = {nick'[r] : r \in named(q)}
      <4>1. /\ c \in ChanName \ skipped
            /\ q \in Ptr
            /\ member[c] \subseteq live
        BY <2>1, <2>2, <2>3, <3>4, MembersAreNamed
      <4>2. q \in live'
        BY <2>1, <2>3, <3>4, <4>1
      <4>3. view'[q][c] = view[q][c] \cup {m.nick : m \in Read(q, c, msgs)}
        BY <2>1, <3>2, <4>1, <4>2, SendViews
      <4>4. CASE q \in member[c]
        <5>1. view[q][c] = {nick[r] : r \in member[c] \ Unnamed(q, c)}
          BY <3>1, <4>1, <4>4 DEF ChannelViews
        <5>2. Unnamed(q, c)' = Unnamed(q, c)
          BY <2>3, <4>4 DEF Unnamed, CreatorAfter
        <5>3. p \notin member[c] => p \notin Unnamed(q, c)
          BY <3>1, PtrAssumption DEF ChannelViews, Unnamed
        <5>4. view[q][c] \cup {m.nick : m \in Read(q, c, msgs)}
                = {nick[r] : r \in named(q)}
          <6>1. CASE p \in member[c]
            <7>1. named(q) = member[c] \ Unnamed(q, c)
              BY <5>2, <6>1
            <7> HIDE DEF named
            <7> QED
              BY <2>5, <4>4, <5>1, <6>1, <7>1
          <6>2. CASE p \notin member[c]
            <7>1. named(q) = (member[c] \ Unnamed(q, c)) \cup {p}
              BY <5>2, <5>3, <6>2
            <7> HIDE DEF named
            <7>2. q # p
              BY <4>4, <6>2
            <7>3. {m.nick : m \in Read(q, c, msgs)} = {nick[p]}
              BY <2>5, <4>4, <6>2, <7>2
            <7> QED
              BY <5>1, <7>1, <7>3
          <6> QED
            BY <6>1, <6>2
        <5> QED
          BY <2>1, <4>3, <5>4
      <4>5. CASE q \notin member[c]
        <5>1. q = p /\ view[q][c] = {}
          BY <2>3, <3>1, <3>4, <4>1, <4>5 DEF ChannelViews
        <5> HIDE DEF named
        <5> QED
          BY <2>1, <2>5, <4>3, <5>1
      <4> QED
        BY <4>4, <4>5
    <3>5. (creator[c] \in member[c] \cup {NoClient})'
      BY <2>3, <3>1 DEF ChannelViews, CreatorAfter
    <3>6. \A q : named(q) = (member[c] \ Unnamed(q, c))'
      BY <2>3
    <3> HIDE DEF named
    <3> QED
      BY <3>3, <3>4, <3>5, <3>6 DEF ChannelViews
  <2> QED
    BY <2>6, <2>7 DEF ViewInv
<1> QED
  BY <1>1, <1>2

\* A client that leaves one channel, where its departure is announced to all
\* members (code is 304 or 305).
LEMMA LeftChannel ==
  ASSUME IInv, NEW c \in ChanName, ChannelViews(c), NEW p \in live,
         NEW code \in {"304", "305"},
         NEW msgs, Send(msgs),
         \A m : (m \in msgs /\ m.chan = c)
                <=> m \in ToAll(member[c], code, c, nick[p]),
         member'[c] = member[c] \ {p},
         creator'[c] = (IF creator[c] = p THEN NoClient ELSE creator[c]),
         live \ {p} \subseteq live', live' \subseteq live,
         \A r \in Ptr \ {p} : nick'[r] = nick[r],
         c \notin skipped' => c \notin skipped \/ member[c] = {p},
         c \notin skipped => nick[p] # NoNick
  PROVE  ChannelViews(c)'
<1>1. member[c] \subseteq Ptr /\ live \subseteq Ptr
  BY DEF IInv, TypeOK
<1>2. ASSUME NEW q
      PROVE  About(q, c, msgs) =
               IF q \in member[c] THEN {Line(q, code, c, nick[p])} ELSE {}
  <2>1. ASSUME NEW m \in About(q, c, msgs)
        PROVE  q \in member[c] /\ m = Line(q, code, c, nick[p])
    <3>1. m \in ToAll(member[c], code, c, nick[p]) /\ m.to = q
      BY DEF About
    <3>2. PICK s \in member[c] : m = Line(s, code, c, nick[p])
      BY <3>1 DEF ToAll
    <3> QED
      BY <3>1, <3>2, LineFields
  <2>2. ASSUME q \in member[c]
        PROVE  Line(q, code, c, nick[p]) \in About(q, c, msgs)
    <3>1. Line(q, code, c, nick[p]) \in ToAll(member[c], code, c, nick[p])
      BY <2>2 DEF ToAll
    <3>2. Line(q, code, c, nick[p]) \in msgs
      BY <3>1
    <3> QED
      BY <3>2, LineFields DEF About
  <2> QED
    BY <2>1, <2>2
<1>3. ASSUME NEW q \in Ptr
      PROVE  Hear(q, c, msgs) = IF q \notin member[c] THEN view[q][c]
                                ELSE IF nick[q] = nick[p] THEN {}
                                ELSE view[q][c] \ {nick[p]}
  <2>1. CASE q \in member[c]
    <3>1. About(q, c, msgs) = {Line(q, code, c, nick[p])}
      BY <1>2, <2>1
    <3>2. \A m \in About(q, c, msgs) : m.code = code /\ m.nick = nick[p]
      BY <3>1, LineFields
    <3>3. /\ \A m \in About(q, c, msgs) :
               m.code \in {"304", "305"} /\ m.nick = nick[p]
          /\ About(q, c, msgs) # {}
      BY <3>1, <3>2
    <3>4. /\ nick[q] = nick[p] => Hear(q, c, msgs) = {}
          /\ nick[q] # nick[p] => Hear(q, c, msgs) = view[q][c] \ {nick[p]}
      BY <3>3, HearLeft, Zenon
    <3> QED
      BY <2>1, <3>4
  <2>2. CASE q \notin member[c]
    BY <1>2, <2>2, HearSilent
  <2> QED
    BY <2>1, <2>2
<1>4. ASSUME NEW q \in Ptr, q \notin live' \/ q \notin member'[c]
      PROVE  view'[q][c] = {}
  <2>1. CASE q \notin live'
    BY <2>1, SendViews
  <2>2. CASE q \in live' /\ q \notin member[c]
    BY <1>3, <2>2, SendViews DEF ChannelViews
  <2>3. CASE q = p /\ q \in member[c]
    BY <1>3, <2>3, SendViews
  <2> QED
    BY <1>4, <2>1, <2>2, <2>3
<1>5. ASSUME c \notin skipped', NEW q \in member'[c]
      PROVE  view'[q][c] = {nick'[r] : r \in member'[c] \ Unnamed(q, c)'}
  <2> DEFINE named == member[c] \ Unnamed(q, c)
  <2>1. q \in member[c] /\ q # p /\ c \notin skipped /\ q \in Ptr
    BY <1>1, <1>5
  <2>2. /\ member[c] \subseteq live
        /\ \A r \in member[c] : nick[r] = nick[p] => r = p
    BY <2>1, MembersAreNamed
  <2>3. view'[q][c] = view[q][c] \ {nick[p]}
    BY <1>3, <2>1, <2>2, SendViews
  <2>4. view[q][c] = {nick[r] : r \in named}
    BY <2>1 DEF ChannelViews
  <2>5. {nick[r] : r \in named} \ {nick[p]} = {nick[r] : r \in named \ {p}}
    BY <2>2
  <2>6. {nick[r] : r \in named \ {p}} = {nick'[r] : r \in named \ {p}}
    BY <1>1
  <2>7. named \ {p} = member'[c] \ Unnamed(q, c)'
    <3>1. NoClient \notin member[c]
      BY <1>1, PtrAssumption
    <3> QED
      BY <3>1 DEF Unnamed
  <2> HIDE DEF named
  <2> QED
    BY <2>3, <2>4, <2>5, <2>6, <2>7
<1>6. (creator[c] \in member[c] \cup {NoClient})'
  BY DEF ChannelViews
<1> QED
  BY <1>4, <1>5, <1>6 DEF ChannelViews

\* PART, of a member or of a client that is not on the channel.
LEMMA PartViews ==
  ASSUME IInv, ViewInv, NEW p \in Ptr, NEW c \in ChanName,
         NEW lower \in BOOLEAN, Part(p, c, lower)
  PROVE  ViewInv'
<1>1. CASE ~(c \in channelMap /\ lower)
  <2> DEFINE msgs == {Line(p, "701", c, nick[p])}
  <2>1. /\ Send(msgs)
        /\ UNCHANGED <<live, nick, chanVars>>
    BY <1>1 DEF Part, connVars
  <2>2. \A m \in msgs : m.code \notin ListCode
    BY LineFields DEF ListCode
  <2> HIDE DEF msgs
  <2> QED
    BY <2>1, <2>2, SilentViews
<1>2. CASE Fail("useAfterFree") \/ Fail("erasedNode")
  BY <1>2, SameViews DEF Fail, connVars
<1>3. CASE /\ c \in channelMap /\ lower
           /\ ~Fail("useAfterFree") /\ ~Fail("erasedNode")
  <2> DEFINE msgs == PartLines(p, c)
  <2>1. /\ Leave(p, {c})
        /\ skipped' = skipped \ Emptied(p, {c})
        /\ UNCHANGED <<live, nick>>
        /\ Send(msgs)
        /\ p \in live /\ p \in loggedIn
    BY <1>3 DEF Part, NodeFault, connVars, Command, Reading
  <2>2. \A m \in msgs : m.chan = c
    BY LineFields DEF PartLines, ToAll
  <2>3. msgs = ToAll(member[c], "305", c, nick[p])
    BY DEF PartLines
  <2> HIDE DEF msgs
  <2>4. nick[p] # NoNick
    BY <2>1 DEF IInv, Core, LoginIffCredentials
  <2>5. /\ member'[c] = member[c] \ {p}
        /\ creator'[c] = (IF creator[c] = p THEN NoClient ELSE creator[c])
        /\ \A d \in ChanName \ {c} : /\ member'[d] = member[d]
                                     /\ creator'[d] = creator[d]
    BY <2>1 DEF Leave
  <2>6. ASSUME NEW d \in ChanName \ {c}
        PROVE  ChannelViews(d)'
    <3>1. TypeOK /\ ChannelViews(d)
      BY DEF ViewInv, IInv
    <3>2. d \notin skipped => member[d] \subseteq live
      BY MembersAreNamed
    <3>3. d \notin skipped' => d \notin skipped
      BY <2>1 DEF Emptied
    <3>4. \A m \in msgs : m.chan = d => m.code \notin ListCode
      BY <2>2
    <3> QED
      BY <2>1, <2>5, <3>1, <3>2, <3>3, <3>4, SilentChannel
  <2>7. ChannelViews(c)'
    <3>1. ChannelViews(c)
      BY DEF ViewInv
    <3>2. \A m : (m \in msgs /\ m.chan = c)
                 <=> m \in ToAll(member[c], "305", c, nick[p])
      BY <2>2, <2>3
    <3>3. c \notin skipped' => c \notin skipped \/ member[c] = {p}
      BY <2>1 DEF Emptied
    <3>4. \A r \in Ptr \ {p} : nick'[r] = nick[r]
      BY <2>1
    <3>5. live \ {p} \subseteq live' /\ live' \subseteq live
      BY <2>1
    <3> QED
      BY <2>1, <2>4, <2>5, <3>1, <3>2, <3>3, <3>4, <3>5, LeftChannel
  <2> QED
    BY <2>6, <2>7 DEF ViewInv
<1> QED
  BY <1>1, <1>2, <1>3 DEF Part

\* DeleteClient: whatever its walk steps over, the channels that are left
\* unskipped have been told.
LEMMA DeleteViews ==
  ASSUME IInv, ViewInv, NEW p \in live, DeleteClient(p)
  PROVE  ViewInv'
<1>1. CASE Fail("useAfterFree") \/ Fail("erasedIterator")
  BY <1>1, SameViews DEF Fail, connVars
<1>2. CASE TakeOut(p)
  <2> DEFINE msgs == UNION {ToAll(member[c], "304", c, nick[p]) :
                              c \in Visited(p)}
             V == Visited(p)
             O == {c \in SteppedOver(p) : p \in member[c]}
  <2>1. /\ Leave(p, V)
        /\ skipped' = (skipped \ Emptied(p, V)) \cup O
        /\ live' = live \ {p}
        /\ nick' = [nick EXCEPT ![p] = NoNick]
        /\ Send(msgs)
    BY <1>2 DEF TakeOut
  <2>2. \A m : m \in msgs <=>
                 \E c \in V : m \in ToAll(member[c], "304", c, nick[p])
    OBVIOUS
  <2>3. /\ V \subseteq ChanName
        /\ \A c \in V : p \in member[c]
        /\ \A c \in ChanName : p \in member[c] => c \in V \cup O
    BY DEF Visited, IInv, TypeOK, Core, MembersAreLive
  <2> HIDE DEF msgs, V, O
  <2>4. \A c, m : m \in ToAll(member[c], "304", c, nick[p]) => m.chan = c
    BY LineFields DEF ToAll
  <2>5. \A r \in Ptr \ {p} : nick'[r] = nick[r]
    BY <2>1 DEF IInv, TypeOK
  <2>6. /\ \A c \in V :
             /\ member'[c] = member[c] \ {p}
             /\ creator'[c] = (IF creator[c] = p THEN NoClient ELSE creator[c])
        /\ \A c \in ChanName \ V : /\ member'[c] = member[c]
                                   /\ creator'[c] = creator[c]
    BY <2>1, <2>3 DEF Leave
  <2>7. \A c \in ChanName : c \notin skipped' =>
          /\ c \notin O
          /\ c \notin skipped \/ (c \in V /\ member[c] = {p})
    BY <2>1 DEF Emptied
  <2>8. ASSUME NEW c \in ChanName
        PROVE  ChannelViews(c)'
    <3>1. ChannelViews(c) /\ TypeOK
      BY DEF ViewInv, IInv
    <3>2. CASE c \in V
      <4>1. \A m : (m \in msgs /\ m.chan = c)
                   <=> m \in ToAll(member[c], "304", c, nick[p])
        BY <2>2, <2>4, <3>2
      <4>2. c \notin skipped => nick[p] # NoNick
        BY <2>3, <3>2, MembersAreNamed
      <4>3. c \notin skipped' => c \notin skipped \/ member[c] = {p}
        BY <2>7
      <4>4. live \ {p} \subseteq live' /\ live' \subseteq live
        BY <2>1
      <4>5. /\ member'[c] = member[c] \ {p}
            /\ creator'[c] = (IF creator[c] = p THEN NoClient ELSE creator[c])
        BY <2>6, <3>2
      <4>6. Send(msgs)
        BY <2>1
      <4> QED
        BY <2>5, <3>1, <4>1, <4>2, <4>3, <4>4, <4>5, <4>6, LeftChannel
    <3>3. CASE c \notin V
      <4>1. \A m \in msgs : m.chan = c => m.code \notin ListCode
        BY <2>2, <2>4, <3>3
      <4>2. ASSUME c \notin skipped'
            PROVE  c \notin skipped /\ member[c] \subseteq live'
        <5>1. c \notin skipped /\ p \notin member[c]
          BY <2>3, <2>7, <3>3, <4>2
        <5> QED
          BY <2>1, <5>1, MembersAreNamed
      <4>3. ASSUME c \notin skipped', NEW r \in member[c]
            PROVE  nick'[r] = nick[r]
        <5>1. r \in Ptr \ {p}
          BY <2>3, <2>7, <3>1, <3>3, <4>3 DEF TypeOK
        <5> QED
          BY <2>5, <5>1
      <4>4. member'[c] = member[c] /\ creator'[c] = creator[c]
        BY <2>6, <3>3
      <4> QED
        BY <2>1, <3>1, <4>1, <4>2, <4>3, <4>4, SilentChannel
    <3> QED
      BY <3>2, <3>3
  <2> QED
    BY <2>8 DEF ViewInv
<1> QED
  BY <1>1, <1>2 DEF DeleteClient, SerialsFault

\* NickChange: each member of each channel of the client is told.
LEMMA RenamedViews ==
  ASSUME IInv, ViewInv, NEW p \in live, NEW n \in Nick,
         NickAccepted(p, n), SetNick(p, n),
         UNCHANGED <<live, chanVars>>,
         NEW msgs, Send(msgs),
         \A m \in NickLines(p, n) : m \in msgs,
         \A m \in msgs : m \in NickLines(p, n) \/ m.code = "008"
  PROVE  ViewInv'
<1>1. /\ TypeOK /\ p \in Ptr
      /\ nick'[p] = n
      /\ \A r \in Ptr \ {p} : nick'[r] = nick[r]
      /\ member' = member /\ skipped' = skipped /\ creator' = creator
  BY DEF SetNick, IInv, TypeOK, AnyNick, chanVars
<1>2. ASSUME NEW m, NEW c \in ChanName, m.chan = c
      PROVE  m \in NickLines(p, n) <=>
               p \in member[c] /\ \E q \in member[c] :
                                    m = Rename(q, c, nick[p], n)
  <2>1. m \in NickLines(p, n) <=>
          \/ m = Reply(p)
          \/ \E d \in OnChannels(p) : \E q \in member[d] :
               m = Rename(q, d, nick[p], n)
    BY DEF NickLines
  <2>2. m # Reply(p)
    BY <1>2, ChannelAssumption, LineFields DEF Reply, ChanName
  <2>3. OnChannels(p) = {d \in ChanName : p \in member[d]}
    BY DEF OnChannels, IInv, TypeOK, Core, MembersAreLive
  <2>4. \A d, q : m = Rename(q, d, nick[p], n) => d = c
    BY <1>2, LineFields
  <2> QED
    BY <2>1, <2>2, <2>3, <2>4
<1>3. ASSUME NEW c \in ChanName, p \notin member[c]
      PROVE  ChannelViews(c)'
  <2>1. \A m \in msgs : m.chan = c => m.code \notin ListCode
    BY <1>2, <1>3 DEF ListCode
  <2>2. ChannelViews(c)
    BY DEF ViewInv
  <2>3. c \notin skipped => member[c] \subseteq live
    BY MembersAreNamed
  <2>4. \A r \in member[c] : nick'[r] = nick[r]
    BY <1>1, <1>3 DEF TypeOK
  <2> QED
    BY <1>1, <2>1, <2>2, <2>3, <2>4, SilentChannel
<1>4. ASSUME NEW c \in ChanName, p \in member[c]
      PROVE  ChannelViews(c)'
  <2>1. ChannelViews(c)
    BY DEF ViewInv
  <2>2. ASSUME NEW q \in Ptr \ member[c]
        PROVE  Hear(q, c, msgs) = view[q][c]
    <3>1. \A m \in msgs : m.to = q /\ m.chan = c => m.code \notin ListCode
      <4> SUFFICES ASSUME NEW m \in msgs, m.to = q, m.chan = c,
                          m.code # "008"
                   PROVE  FALSE
        BY DEF ListCode
      <4>1. PICK r \in member[c] : m = Rename(r, c, nick[p], n)
        BY <1>2
      <4> QED
        BY <2>2, <4>1, LineFields
    <3> QED
      BY <3>1, HearSilent DEF About
  <2>3. ASSUME c \notin skipped, NEW q \in member[c]
        PROVE  view'[q][c] = {nick'[r] : r \in member[c] \ Unnamed(q, c)}
    <3> DEFINE named == member[c] \ Unnamed(q, c)
    <3>1. /\ member[c] \subseteq live
          /\ \A r \in member[c] : nick[r] = nick[p] => r = p
      BY <1>4, <2>3, MembersAreNamed
    <3>2. view[q][c] = {nick[r] : r \in named}
      BY <2>1, <2>3 DEF ChannelViews
    <3> HIDE DEF named
    <3>3. Rename(q, c, nick[p], n) \in msgs
      <4>1. Rename(q, c, nick[p], n).chan = c
        BY LineFields
      <4> QED
        BY <1>2, <1>4, <2>3, <4>1
    <3>4. \A m \in About(q, c, msgs) :
            m = Rename(q, c, nick[p], n) \/ m.code = "008"
      BY <1>2, LineFields DEF About
    <3>5. Hear(q, c, msgs) =
            (view[q][c] \ {nick[p]})
              \cup (IF nick[p] \in view[q][c] THEN {n} ELSE {})
      BY <3>3, <3>4, HearRenamed
    <3>6. {nick'[r] : r \in named}
            = ({nick[r] : r \in named} \ {nick[p]})
                \cup (IF nick[p] \in {nick[r] : r \in named} THEN {n} ELSE {})
      <4>1. /\ named \subseteq member[c]
            /\ \A r \in named \ {p} : nick'[r] = nick[r]
        BY <1>1 DEF TypeOK, named
      <4>2. CASE p \in named
        BY <1>1, <3>1, <4>1, <4>2
      <4>3. CASE p \notin named
        <5>1. nick[p] \notin {nick[r] : r \in named}
          BY <3>1, <4>1, <4>3
        <5>2. {nick'[r] : r \in named} = {nick[r] : r \in named}
          BY <4>1, <4>3
        <5> QED
          BY <5>1, <5>2
      <4> QED
        BY <4>2, <4>3
    <3>7. q \in live' /\ q \in Ptr
      BY <2>3, <3>1 DEF IInv, TypeOK
    <3>8. view'[q][c] = {nick'[r] : r \in named}
      BY <3>2, <3>5, <3>6, <3>7, SendViews
    <3> QED
      BY <3>8 DEF named
  <2>4. ASSUME NEW q \in Ptr, q \notin live' \/ q \notin member'[c]
        PROVE  view'[q][c] = {}
    BY <1>1, <2>1, <2>2, <2>4, SendViews DEF ChannelViews
  <2>5. \A q : Unnamed(q, c)' = Unnamed(q, c)
    BY <1>1 DEF Unnamed
  <2>6. (creator[c] \in member[c] \cup {NoClient})'
    BY <1>1, <2>1 DEF ChannelViews
  <2> QED
    BY <1>1, <2>3, <2>4, <2>5, <2>6 DEF ChannelViews
<1> QED
  BY <1>3, <1>4 DEF ViewInv

\* NICK before and after login, and the login tail.
LEMMA NickViews ==
  ASSUME IInv, ViewInv, NEW p \in Ptr, NEW n \in Nick,
         NickBeforeLogin(p, n) \/ NickAfterLogin(p, n)
  PROVE  ViewInv'
<1>1. CASE NickFaults(p, n)
  BY <1>1, SameViews DEF NickBeforeLogin, NickAfterLogin, Fail, connVars
<1>2. CASE ~NickFaults(p, n)
  <2> DEFINE told == {Line(p, "008", 0, NoNick)}
  <2>1. /\ SetNick(p, n)
        /\ UNCHANGED <<live, chanVars>>
        /\ \/ Send(NickLines(p, n))
           \/ Send(NickLines(p, n) \cup told)
        /\ p \in live
    BY <1>2 DEF NickBeforeLogin, NickAfterLogin, LoginTail, LoggingIn,
                Command, Reading
  <2>2. \A m \in told : m.code = "008"
    BY LineFields
  <2> HIDE DEF told
  <2>3. PICK msgs : /\ Send(msgs)
                    /\ \A m \in NickLines(p, n) : m \in msgs
                    /\ \A m \in msgs : m \in NickLines(p, n) \/ m.code = "008"
    <3>1. CASE Send(NickLines(p, n))
      BY <3>1
    <3>2. CASE Send(NickLines(p, n) \cup told)
      <4>1. \A m \in NickLines(p, n) \cup told :
              m \in NickLines(p, n) \/ m.code = "008"
        BY <2>2
      <4> QED
        BY <3>2, <4>1
    <3> QED
      BY <2>1, <3>1, <3>2
  <2>4. CASE NickAccepted(p, n)
    BY <2>1, <2>3, <2>4, RenamedViews
  <2>5. CASE ~NickAccepted(p, n)
    <3>1. nick' = nick
      BY <2>1, <2>5 DEF SetNick
    <3>2. \A m \in msgs : m.code \notin ListCode
      <4>1. NickLines(p, n) = {Reply(p)}
        BY <2>5 DEF NickLines
      <4>2. Reply(p).code = "reply"
        BY LineFields DEF Reply
      <4> QED
        BY <2>3, <4>1, <4>2 DEF ListCode
    <3> QED
      BY <2>1, <2>3, <3>1, <3>2, SilentViews
  <2> QED
    BY <2>4, <2>5
<1> QED
  BY <1>1, <1>2

\* The handlers that say nothing about who is on a channel.
LEMMA QuietViews ==
  ASSUME IInv, ViewInv, NEW p \in Ptr,
         \/ NewClientConnect(p) \/ PassOk(p) \/ OtherBeforeLogin(p)
         \/ Pong(p) \/ Query(p) \/ SendMOTD(p) \/ CheckPassed(p)
         \/ \E c \in ChanName : Msg(p, c)
         \/ \E n \in Nick : PrivMsg(p, n)
  PROVE  ViewInv'
<1>1. /\ Reply(p).code = "reply"
      /\ \A q, c, n : /\ Line(q, "008", c, n).code = "008"
                      /\ Line(q, "500", c, n).code = "500"
                      /\ Line(q, "501", c, n).code = "501"
  BY LineFields DEF Reply
<1>2. CASE \E c \in ChanName : MaySpeak(p, c) /\ Dangling(c) \ {p} # {}
                               /\ Msg(p, c)
  BY <1>2, SameViews DEF Msg, Fail, connVars
<1>3. CASE ~ \E c \in ChanName : MaySpeak(p, c) /\ Dangling(c) \ {p} # {}
                                 /\ Msg(p, c)
  <2>1. UNCHANGED <<nick, chanVars>> /\ live \subseteq live'
    BY <1>3 DEF NewClientConnect, PassOk, OtherBeforeLogin, Pong, Query,
               SendMOTD, CheckPassed, Msg, PrivMsg, connVars
  <2>2. \E msgs : Send(msgs) /\ \A m \in msgs : m.code \notin ListCode
    <3>1. CASE Send({}) \/ Send({Reply(p)})
      BY <1>1, <3>1 DEF ListCode
    <3>2. CASE Send({} \cup {Line(p, "008", 0, NoNick)})
      BY <1>1, <3>2 DEF ListCode
    <3>3. ASSUME NEW q, NEW n, Send({Line(q, "501", 0, n)})
          PROVE  \E msgs : /\ Send(msgs)
                           /\ \A m \in msgs : m.code \notin ListCode
      BY <1>1, <3>3 DEF ListCode
    <3>4. ASSUME NEW S, NEW c, NEW n, Send(ToAll(S, "500", c, n))
          PROVE  \E msgs : /\ Send(msgs)
                           /\ \A m \in msgs : m.code \notin ListCode
      <4>1. \A m \in ToAll(S, "500", c, n) : m.code \notin ListCode
        BY <1>1 DEF ToAll, ListCode
      <4> QED
        BY <3>4, <4>1
    <3>5. CASE NewClientConnect(p) \/ Pong(p) \/ Query(p) \/ SendMOTD(p)
                 \/ CheckPassed(p)
      BY <3>1, <3>5 DEF NewClientConnect, Pong, Query, SendMOTD, CheckPassed
    <3>6. CASE PassOk(p) \/ OtherBeforeLogin(p)
      BY <3>1, <3>2, <3>6 DEF PassOk, OtherBeforeLogin, LoginTail
    <3>7. CASE \E c \in ChanName : Msg(p, c)
      BY <1>3, <3>1, <3>4, <3>7 DEF Msg
    <3>8. CASE \E n \in Nick : PrivMsg(p, n)
      BY <3>1, <3>3, <3>8 DEF PrivMsg
    <3> QED
      BY <3>5, <3>6, <3>7, <3>8
  <2> QED
    BY <2>1, <2>2, SilentViews
<1> QED
  BY <1>2, <1>3

\* Every way to leave.
LEMMA DropViews ==
  ASSUME IInv, ViewInv, NEW p \in Ptr,
         \/ ReadNothing(p) \/ Quit(p) \/ PassWrong(p) \/ ConnectionClosed(p)
         \/ PingTimeout(p) \/ LoginTimeout(p)
  PROVE  ViewInv'
<1>1. p \in live
  BY DEF ReadNothing, Quit, PassWrong, ConnectionClosed, PingTimeout,
         LoginTimeout, DropInCheck, Checking, LoggingIn, Reading
<1>2. DeleteClient(p) \/ Fail("nullPointer") \/ Fail("erasedIterator")
  BY DEF ReadNothing, Quit, PassWrong, ConnectionClosed, PingTimeout,
         LoginTimeout, DropInCheck, SerialsFault
<1>3. CASE Fail("nullPointer") \/ Fail("erasedIterator")
  BY <1>3, SameViews DEF Fail, connVars
<1> QED
  BY <1>1, <1>2, <1>3, DeleteViews

LEMMA NextViews ==
  ASSUME IInv, ViewInv, [Next]_vars
  PROVE  ViewInv'
<1>1. CASE UNCHANGED vars
  BY <1>1, SameViews DEF vars, connVars
<1>2. CASE Reload
  BY <1>2, SameViews DEF Reload
<1>3. ASSUME NEW p \in Ptr,
             \/ Connection(p) \/ Quit(p) \/ Pong(p)
             \/ LoginBranch(p) \/ CommandBranch(p) \/ Checks(p)
      PROVE  ViewInv'
  <2>1. CASE Connection(p) \/ Quit(p) \/ Pong(p)
    <3>1. CASE PeerGone(p)
      BY <3>1, SameViews DEF PeerGone, connVars
    <3> QED
      BY <2>1, <3>1, QuietViews, DropViews DEF Connection
  <2>2. CASE LoginBranch(p)
    BY <2>2, QuietViews, DropViews, NickViews DEF LoginBranch
  <2>3. CASE CommandBranch(p)
    BY <2>3, QuietViews, JoinViews, PartViews, NickViews DEF CommandBranch
  <2>4. CASE Checks(p)
    BY <2>4, QuietViews, DropViews DEF Checks
  <2> QED
    BY <1>3, <2>1, <2>2, <2>3, <2>4
<1> QED
  BY <1>1, <1>2, <1>3 DEF Next

LEMMA ViewsInductive == Spec => []ViewInv
<1>1. Init => ViewInv
  BY DEF Init, ViewInv, ChannelViews
<1> QED
  BY <1>1, NextViews, Inductive, PTL DEF Spec

\* Every client's lists, put together from the lines it was sent, are the
\* server's, but for the creator's nick where the dot before it is not known
\* to be a flag: through joins, parts, departures and changes of nick, and
\* for as long as no walk of DeleteClient steps over the channel.
THEOREM ListsAreRight == Spec => []ViewAgrees
<1>1. IInv /\ ViewInv => ViewAgrees
  BY DEF ViewInv, ChannelViews, ViewAgrees, IInv, TypeOK
<1> QED
  BY <1>1, Inductive, ViewsInductive, PTL

\* A 500 goes to the members of a channel its sender is on.
LEMMA SpeakerStep ==
  ASSUME IInv, Next, NEW m \in out', m.code = "500"
  PROVE  \E p \in Ptr, c \in ChanName : \E q \in member[c] :
           p \in member[c] /\ m = Line(q, "500", c, nick[p])
<1>1. PICK p \in Ptr :
        \/ Connection(p) \/ Quit(p) \/ Pong(p)
        \/ LoginBranch(p) \/ CommandBranch(p) \/ Checks(p)
  BY DEF Next, Reload
<1>2. out' # {} /\ \A kind : ~Fail(kind)
  BY DEF Fail
<1>3. /\ Reply(p).code # "500"
      /\ \A q, c, n, old : /\ Rename(q, c, old, n).code # "500"
                           /\ Line(q, "008", c, n).code # "500"
                           /\ Line(q, "501", c, n).code # "500"
                           /\ Line(q, "701", c, n).code # "500"
                           /\ Line(q, "300", c, n).code # "500"
                           /\ Line(q, "304", c, n).code # "500"
                           /\ Line(q, "305", c, n).code # "500"
      /\ \A c, q, flagged : ListLine(p, c, q, flagged).code # "500"
  BY LineFields, ListFields DEF Reply
<1>4. ~DeleteClient(p)
  <2> SUFFICES ASSUME DeleteClient(p)
               PROVE  FALSE
    OBVIOUS
  <2>1. m \in UNION {ToAll(member[c], "304", c, nick[p]) : c \in Visited(p)}
    BY <1>2 DEF DeleteClient, SerialsFault, TakeOut, Send
  <2>2. PICK c \in Visited(p) : m \in ToAll(member[c], "304", c, nick[p])
    BY <2>1
  <2> QED
    BY <1>3, <2>2 DEF ToAll
<1>5. ~(Connection(p) \/ Quit(p) \/ Pong(p))
  BY <1>2, <1>3, <1>4
     DEF Connection, Quit, Pong, NewClientConnect, PeerGone, ReadNothing, Send
<1>6. \A n : m \notin NickLines(p, n)
  BY <1>3 DEF NickLines
<1>7. ~LoginBranch(p)
  <2>1. ASSUME NEW msgs, LoginTail(p, msgs)
        PROVE  m \in msgs
    <3>1. out' = msgs \/ out' = msgs \cup {Line(p, "008", 0, NoNick)}
      BY <2>1 DEF LoginTail, Send
    <3>2. Line(p, "008", 0, NoNick).code # "500"
      BY <1>3
    <3> QED
      BY <3>1, <3>2
  <2>2. ~PassOk(p) /\ ~OtherBeforeLogin(p)
    BY <2>1 DEF PassOk, OtherBeforeLogin
  <2>3. ~ \E n \in Nick : NickBeforeLogin(p, n)
    BY <1>2, <1>6, <2>1 DEF NickBeforeLogin
  <2> QED
    BY <1>4, <2>2, <2>3 DEF LoginBranch, PassWrong
<1>8. ~Checks(p)
  BY <1>2, <1>3, <1>4
     DEF Checks, ConnectionClosed, PingTimeout, DropInCheck, SerialsFault,
         SendMOTD, CheckPassed, LoginTimeout, Send
<1>9. PICK c \in ChanName : Msg(p, c)
  <2>1. ~Query(p)
    BY <1>2, <1>3 DEF Query, Send
  <2>2. ~ \E c \in ChanName : Join(p, c)
    <3> SUFFICES ASSUME NEW c \in ChanName, Join(p, c)
                 PROVE  FALSE
      OBVIOUS
    <3>1. m \in JoinLines(p, c)
      BY <1>2 DEF Join, Send
    <3> QED
      BY <1>3, <3>1 DEF JoinLines, ToAll
  <2>3. ~ \E c \in ChanName, lower \in BOOLEAN : Part(p, c, lower)
    <3> SUFFICES ASSUME NEW c \in ChanName, NEW lower \in BOOLEAN,
                        Part(p, c, lower)
                 PROVE  FALSE
      OBVIOUS
    <3>1. m \in PartLines(p, c) \/ m = Line(p, "701", c, nick[p])
      BY <1>2 DEF Part, NodeFault, Send
    <3> QED
      BY <1>3, <3>1 DEF PartLines, ToAll
  <2>4. ~ \E n \in Nick : PrivMsg(p, n) \/ NickAfterLogin(p, n)
    <3>1. ASSUME NEW n \in Nick
          PROVE  ~PrivMsg(p, n)
      <4>1. \A q : ~Send({Line(q, "501", 0, nick[p])})
        BY <1>3 DEF Send
      <4>2. ~Send({Reply(p)})
        BY <1>3 DEF Send
      <4> QED
        BY <4>1, <4>2 DEF PrivMsg
    <3>2. ASSUME NEW n \in Nick
          PROVE  ~NickAfterLogin(p, n)
      BY <1>2, <1>6 DEF NickAfterLogin, Send
    <3> QED
      BY <3>1, <3>2
  <2> QED
    BY <1>1, <1>5, <1>7, <1>8, <2>1, <2>2, <2>3, <2>4 DEF CommandBranch
<1>10. MaySpeak(p, c) /\ out' = ToAll(member[c] \ {p}, "500", c, nick[p])
  BY <1>2, <1>3, <1>9 DEF Msg, Send
<1> QED
  BY <1>10 DEF MaySpeak, ToAll

\* No client is sent a line of talk by somebody it believes is not there,
\* unless it took the creator's flag for a part of the name.
THEOREM SpeakerIsListed == Spec => SpeakerIsKnown
<1> DEFINE Known == \A m \in out' :
                      m.code = "500" /\ m.to \notin gone
                          /\ m.chan \notin skipped
                        => \/ m.nick \in view[m.to][m.chan]
                           \/ \E q \in Unnamed(m.to, m.chan) \cap live :
                                nick[q] = m.nick
<1>1. ASSUME IInv, ViewInv, Next
      PROVE  Known
  <2> SUFFICES ASSUME NEW m \in out', m.code = "500", m.chan \notin skipped
               PROVE  \/ m.nick \in view[m.to][m.chan]
                      \/ \E q \in Unnamed(m.to, m.chan) \cap live :
                           nick[q] = m.nick
    OBVIOUS
  <2>1. PICK p \in Ptr, c \in ChanName :
          \E q \in member[c] : /\ p \in member[c]
                               /\ m = Line(q, "500", c, nick[p])
    BY <1>1, SpeakerStep
  <2>2. PICK q \in member[c] : /\ p \in member[c]
                               /\ m = Line(q, "500", c, nick[p])
    BY <2>1
  <2>3. m.to = q /\ m.chan = c /\ m.nick = nick[p]
    BY <2>2, LineFields
  <2>4. view[q][c] = {nick[r] : r \in member[c] \ Unnamed(q, c)}
    BY <1>1, <2>2, <2>3 DEF ViewInv, ChannelViews
  <2>5. p \in live
    BY <1>1, <2>2, <2>3, MembersAreNamed
  <2> QED
    BY <2>2, <2>3, <2>4, <2>5
<1>2. IInv /\ ViewInv /\ [Next]_vars => [Known]_vars
  BY <1>1
<1> QED
  BY <1>2, Inductive, ViewsInductive, PTL DEF Spec, SpeakerIsKnown

-----------------------------------------------------------------------------
(* The client table implements Directory: a step of ChatServer is a step   *)
(* of Directory or leaves clients, nicks and logins alone.                 *)
tableVars == <<live, nick, loggedIn>>

\* What a step has to be.
Listed == Abstract!Next \/ UNCHANGED tableVars

\* CServer::DeleteClient is a Leave.
LEMMA DeleteClientLeaves ==
  ASSUME NEW p \in live \cap Ptr, DeleteClient(p)
  PROVE  Listed
<1>1. CASE Fail("useAfterFree") \/ SerialsFault(p)
  BY <1>1 DEF SerialsFault, Fail, connVars, Listed, tableVars
<1>2. CASE TakeOut(p)
  <2>1. Abstract!Leave(p)
    BY <1>2 DEF TakeOut, Abstract!Leave
  <2>. QED  BY <2>1 DEF Listed, Abstract!Next
<1>. QED  BY <1>1, <1>2 DEF DeleteClient

\* A nick that NickChange accepts is free: either the collision check has
\* found nobody, or only the case changes and p holds it already.
LEMMA AcceptedIsFree ==
  ASSUME IInv, NEW p \in live, NEW n \in Nick, NickAccepted(p, n)
  PROVE  Abstract!Free(p, n)
<1> SUFFICES ASSUME NEW v \in live \ {p}, SameNick(nick[v], n)
             PROVE  FALSE
  BY DEF Abstract!Free
<1>1. SameNick(nick[p], n)
  BY DEF NickAccepted, NickTaken
<1>2. nick[p] # NoNick /\ SameNick(nick[v], nick[p])
  BY <1>1 DEF SameNick
<1>3. NickUnique
  BY DEF IInv, Core
<1>. QED  BY <1>2, <1>3 DEF NickUnique

\* NickChange and the login tail, together or alone, settle a client.
LEMMA Settles ==
  ASSUME IInv, NEW p \in live,
         \/ nick' = nick
         \/ \E n \in Nick : SetNick(p, n),
         \/ loggedIn' = loggedIn
         \/ Admitted(p) /\ loggedIn' = loggedIn \cup {p},
         live' = live
  PROVE  Listed
<1>1. \/ nick' = nick
      \/ \E n \in Nick : /\ Abstract!Free(p, n)
                         /\ nick' = [nick EXCEPT ![p] = n]
  BY AcceptedIsFree DEF SetNick
<1>2. \/ loggedIn' = loggedIn
      \/ nick'[p] # NoNick /\ loggedIn' = loggedIn \cup {p}
  BY DEF Admitted
<1>3. Abstract!Settle(p)
  BY <1>1, <1>2 DEF Abstract!Settle
<1>4. p \in Ptr
  BY DEF IInv, TypeOK
<1>. QED  BY <1>3, <1>4 DEF Listed, Abstract!Next

-----------------------------------------------------------------------------
(* One lemma for each group of handlers.                                   *)

\* Every handler that may drop its client.
LEMMA DropListed ==
  ASSUME NEW p \in Ptr,
         \/ ReadNothing(p) \/ Quit(p) \/ PassWrong(p) \/ ConnectionClosed(p)
         \/ PingTimeout(p) \/ LoginTimeout(p)
  PROVE  Listed
<1>1. p \in live
  BY DEF ReadNothing, Quit, PassWrong, ConnectionClosed, PingTimeout,
         LoginTimeout, DropInCheck, Checking, LoggingIn, Reading
<1>2. DeleteClient(p) \/ Fail("nullPointer") \/ SerialsFault(p)
  BY DEF ReadNothing, Quit, PassWrong, ConnectionClosed, PingTimeout,
         LoginTimeout, DropInCheck
<1>3. CASE Fail("nullPointer") \/ SerialsFault(p)
  BY <1>3 DEF SerialsFault, Fail, connVars, Listed, tableVars
<1>. QED  BY <1>1, <1>2, <1>3, DeleteClientLeaves

\* The login branch.
LEMMA LoginListed ==
  ASSUME IInv, NEW p \in Ptr,
         \/ PassOk(p) \/ OtherBeforeLogin(p)
         \/ \E n \in Nick : NickBeforeLogin(p, n)
  PROVE  Listed
<1>1. p \in live
  BY DEF PassOk, OtherBeforeLogin, NickBeforeLogin, LoggingIn, Reading
<1>2. CASE PassOk(p) \/ OtherBeforeLogin(p)
  <2>1. live' = live /\ nick' = nick
    BY <1>2 DEF PassOk, OtherBeforeLogin
  <2>2. \/ loggedIn' = loggedIn
        \/ Admitted(p) /\ loggedIn' = loggedIn \cup {p}
    BY <1>2 DEF PassOk, OtherBeforeLogin, LoginTail
  <2>. QED  BY <1>1, <2>1, <2>2, Settles
<1>3. ASSUME NEW n \in Nick, NickBeforeLogin(p, n)
      PROVE  Listed
  <2>1. CASE NickFaults(p, n)
    BY <1>3, <2>1 DEF NickBeforeLogin, Fail, connVars, Listed, tableVars
  <2>2. CASE ~NickFaults(p, n)
    <3>1. live' = live /\ SetNick(p, n)
      BY <1>3, <2>2 DEF NickBeforeLogin
    <3>2. \/ loggedIn' = loggedIn
          \/ Admitted(p) /\ loggedIn' = loggedIn \cup {p}
      BY <1>3, <2>2 DEF NickBeforeLogin, LoginTail
    <3>. QED  BY <1>1, <3>1, <3>2, Settles
  <2>. QED  BY <2>1, <2>2
<1>. QED  BY <1>2, <1>3

\* NICK of a client that is logged in.
LEMMA NickListed ==
  ASSUME IInv, NEW p \in Ptr, NEW n \in Nick, NickAfterLogin(p, n)
  PROVE  Listed
<1>1. CASE NickFaults(p, n)
  BY <1>1 DEF NickAfterLogin, Fail, connVars, Listed, tableVars
<1>2. CASE ~NickFaults(p, n)
  <2>1. /\ p \in live
        /\ SetNick(p, n)
        /\ live' = live
        /\ loggedIn' = loggedIn
    BY <1>2 DEF NickAfterLogin, Command, Reading
  <2>. QED  BY <2>1, Settles
<1>. QED  BY <1>1, <1>2

\* The handlers that leave the client table alone.
LEMMA QuietListed ==
  ASSUME NEW p \in Ptr,
         \/ PeerGone(p) \/ Pong(p) \/ Query(p) \/ SendMOTD(p) \/ CheckPassed(p)
         \/ \E c \in ChanName : Join(p, c) \/ Msg(p, c)
         \/ \E c \in ChanName, lower \in BOOLEAN : Part(p, c, lower)
         \/ \E n \in Nick : PrivMsg(p, n)
  PROVE  Listed
BY DEF PeerGone, Pong, Query, SendMOTD, CheckPassed, Join, Msg, Part, PrivMsg,
       NodeFault, Fail, connVars, Listed, tableVars

-----------------------------------------------------------------------------
\* Every step of the server is a step of the directory or none at all.
LEMMA NextListed == IInv /\ [Next]_vars => [Abstract!Next]_tableVars
<1> SUFFICES ASSUME IInv, [Next]_vars PROVE Listed
  BY DEF Listed
<1>1. CASE UNCHANGED vars
  BY <1>1 DEF vars, connVars, Listed, tableVars
<1>2. CASE Reload
  BY <1>2 DEF Reload, Listed, tableVars
<1>3. ASSUME NEW p \in Ptr,
             \/ Connection(p) \/ Quit(p) \/ Pong(p)
             \/ LoginBranch(p) \/ CommandBranch(p) \/ Checks(p)
      PROVE  Listed
  <2>1. CASE NewClientConnect(p)
    <3>1. Abstract!Arrive(p)
      BY <2>1 DEF NewClientConnect, Abstract!Arrive
    <3>. QED  BY <3>1 DEF Listed, Abstract!Next
  <2>2. CASE ReadNothing(p) \/ PeerGone(p) \/ Quit(p) \/ Pong(p)
    BY <2>2, DropListed, QuietListed
  <2>3. CASE LoginBranch(p)
    BY <2>3, DropListed, LoginListed DEF LoginBranch
  <2>4. CASE CommandBranch(p)
    BY <2>4, QuietListed, NickListed DEF CommandBranch
  <2>5. CASE Checks(p)
    BY <2>5, DropListed, QuietListed DEF Checks
  <2>. QED  BY <1>3, <2>1, <2>2, <2>3, <2>4, <2>5 DEF Connection
<1>. QED  BY <1>1, <1>2, <1>3 DEF Next

\* The client table implements the directory.
THEOREM ServerIsDirectory == Spec => IsDirectory
<1>1. Init => Abstract!Init
  BY DEF Init, Abstract!Init
<1>2. IInv /\ [Next]_vars => [Abstract!Next]_Abstract!vars
  BY NextListed DEF tableVars, Abstract!vars
<1>. QED  BY <1>1, <1>2, Inductive, PTL DEF Spec, IsDirectory, Abstract!Spec
=============================================================================
