# videopad-server in TLA+

videopad-server is a chat server with audio and video: clients log in on a
control connection, join channels and talk line by line; over a second, data
connection each client sends an Ogg stream that the server passes on to the
channels the client is on.  One process, one thread, one `select()` loop.

This directory holds TLA+ modules that model the server's core, TLC
configurations that check them on small instances, and theorems about them
with proofs for TLAPS.  Paths such as `Server.cpp` are under `src/src/`;
`README:n` is the server's own README.

* Model-check: `tlc -config ChatServer.cfg MCChatServer.tla` (and so for each run below).
* Prove: `tlapm ChatServerProofs.tla`, and `DeleteWalkProofs`, `ClientWalkProofs`,
  `ControlBufferProofs`, `KeepaliveProofs`, `DataConnsProofs`, `RelayProofs` and
  `SettingsProofs`.
* `PROJECT.json` maps each definition to the lines it models, and lists runs,
  mutations of the model that each property must catch, hazards and theorems.


## 1. The system

### Components

| Component | Code | State | Operations |
|---|---|---|---|
| main loop | `Server.cpp` `CServer::Loop` | the descriptor sets of `select()`, the iterators of two walks | one round: ask `select()`, accept, walk over the unassigned data connections, walk over the clients |
| client table and login | `Server_NewClientConnection.cpp`, `Server_ClientProcess.cpp`, `Client.cpp` | `m_ClientVector`; per client nick, `m_fPassGiven`, `m_fLoggedin`, `m_fMOTDSent`, `m_fConnectionClosed` | accept, PASS, NICK, login tail, SendMOTD, DeleteClient |
| commands and channels | `Server_Commands.cpp`, `Channel.cpp` | `m_ChannelMap`, each channel's client list | JOIN, PART, MSG, PRIVMSG, NICK, WHOIS, CHANLIST, QUIT |
| line framing | `ReadClientMessage`, `MyString.cpp` | `m_pReadBuf`, `m_nReadBufPos` | recv, message or not, Tokenize |
| pings and timeouts | `CheckForConnectionStatus`, `CheckForLoginTimeout` | `m_tLastPingTime`, `m_fPingSent`, the time of connecting | PONG, ping, ping timeout, login timeout |
| data connections | `Server_DataProcess.cpp`, `DataConnection.cpp`, `OggDecoder.cpp` | `m_UnassignedDataConnectionVector`, `m_pDataConnection` of each client, the decoder's buffer | accept, assign, read, close |
| serial mapper | `SerialMapper.cpp` | serial -> (client, stream) | new serials at login, lookup, removal |
| relay | `OggStream.cpp`, `Channel.cpp` `BroadcastData`, `Client.cpp` `SendData` | header pages, initialized flag, a pointer to the last page per stream | FeedPage, ProcessClientData, BroadcastData |
| settings | `SettingsFile.cpp`, `Main.cpp` | the map of settings | LoadConfig, Get, GetInt, SIGHUP |
| listeners, logger, arguments, strings | `TCPListener.cpp`, `UDPListener.cpp`, `Logger.cpp`, `ArgParser.cpp`, `MyString.cpp` | sockets, the log file | start-up, output, Compare, Tokenize |

### How they interact

`Loop` calls everything.  In a round it asks `select()` once, accepts at most
one control and one data connection, walks over the unassigned data
connections, and then over the clients: for each it may drop it for a socket
error, `ReadClientMessage`, `CheckForConnectionStatus`, `CheckForLoginTimeout`
and `ReadDataConnection`.  Handlers run to their end; nothing else runs in
the process but signal handlers, and SIGHUP reloads the settings in its
handler.  Components share pointers: a client is a `CClient*` in
`m_ClientVector`, in the client list of every channel it is on and in the
serial map; `DeleteClient` must find all of them.  A dropped client is told to
the caller by setting a reference parameter to NULL.

### What is hard

* **Containers that change while they are walked.**  `DeleteClient` walks the
  channel map and erases from it; the loop walks `m_ClientVector` and
  `DeleteClient` erases from it; the walk over unassigned connections erases
  as it goes.  Two of the three restart at `begin()` and then do the `it++`
  of the `for`.
* **Answers that get stale.**  `select()`'s answer is used again after a
  restart; `errno` is read after a `recv` that does not set it; `pClient` is
  used after the call that may have set it to NULL.
* **Distributed pictures.**  Each client keeps the nick lists of its channels
  from the lines it is sent, and from nothing else.
* **Two ways to the same page.**  The page just read is passed on by asking
  the client's own data connection for *its* current serial, the serial map for
  the stream and the stream for a pointer into some connection's decoder.
* **A signal handler in the same data.**  SIGHUP clears and refills the map of
  settings while `Get` may be between two looks into it.
* **Lines on a byte stream.**  TCP cuts and joins lines as it likes.
* **Clocks looked at irregularly**, with `<` on whole seconds.
* **Partial failure.**  A `send` to one member of a channel may fail in the
  middle of a broadcast.

`PROJECT.json` lists each of these at its line, with the properties about it.


## 2. The modules

| Module | What it is | Composes | Run by | Proved in |
|---|---|---|---|---|
| `ChatServer` | client table, login, nicks, channels, what each client is told | instance of `Directory` | `MCChatServer` | `ChatServerProofs` |
| `Directory` | abstract: who is connected and under which name | | through `IsDirectory` | `ChatServerProofs` |
| `DeleteWalk` | the iterator of `DeleteClient`, step by step | instance of `ChatServer` | `MCDeleteWalk` | `DeleteWalkProofs` |
| `ClientWalk` | `select()` and the walk over the clients | | itself | `ClientWalkProofs` |
| `ControlBuffer` | from bytes to commands | | `MCControlBuffer` | `ControlBufferProofs` |
| `Tokenizer` | `Tokenize`, as an operator, and what it is for | | `MCControlBuffer` (assumption) | `ControlBufferProofs` |
| `Keepalive` | the clocks of one client | | `MCKeepalive` | `KeepaliveProofs` |
| `DataConns` | data connections: accept, assign, read, close | | `MCDataConns` | `DataConnsProofs` |
| `SerialMap` | the serial mapper, as operators on a map | | through `Relay` | `RelayProofs` |
| `OggStream` | one stream: header pages and the pointer to a page | | through `Relay` | `RelayProofs` |
| `Relay` | what becomes of the pages that are read | extends `SerialMap`, `OggStream` | `MCRelay` | `RelayProofs` |
| `Settings` | the settings file, `Get`, `GetInt` and SIGHUP | | `MCSettings` | `SettingsProofs` |

### How state and actions correspond to the code

The server has one thread, so a handler is one action; where one handler
takes several steps of interest it has a module of its own.

**ChatServer.**  `live` is `m_ClientVector`; a client is the *address* of its
`CClient` and may be used again after it is freed, so a pointer left in a
channel dangles and later silently means a stranger.  `channelMap` and
`member` are `m_ChannelMap` and the client lists.  `serving` holds the client
between `ReadClientMessage` and the checks of `Server.cpp:264-265`.  `out` is
what the step has sent; `view[p][c]` is what client `p` makes of it, by the
README's rules for 300, 304, 305 and 306.  `SendNickList` puts a dot before the
creator's nick (`creator`, from `m_FlagMap`), of which the README does not tell.  A peer of
`FlagReaders` takes it for a flag.  Any other reads the line as it is written there:
`.ann` is no client's nick, as SetNick refuses the dot, and no other message ever
names it, so the line tells such a peer of nobody; `view` has no entry for it.  One action per command, for the
branch before login and the one after it; `DeleteClient` includes the 304s,
the walk over the channels, the removal from the vector and the NULL that
stays with the caller.  A step that goes through a freed or a null pointer
sets `fault`, after which nothing is said about the process.  Two undefined steps
come with every ordinary use: the PART of a last member (`NodeFault`: `DeleteChannel` works
through a reference into the map node it erases) and the deletion of a client that has
serials (`SerialsFault`: `DeleteClientSerials` increments the erased iterator).
There the model has both, the fault and the step as it goes on where the freed node
still reads as it was; `stale` keeps the addresses of which a serial may have been
passed over.  Abstracted: reply texts (one `reply`), tag lines, real names, hosts, the
operator flag (nothing sets it); quit texts; which malformed nick is
malformed (`BadNick`).  Case of nicks is kept (`Upper`), because `Compare`
folds it and `==` does not.

**DeleteWalk.**  `it` is the iterator over the map, `Resume` the `it =
begin()` followed by `it++`.  ChatServer uses the closed forms `SteppedOver`,
`Visited` and `Emptied` in one step; this module shows that the iterator does
just that, by instantiating ChatServer over the map as it was before.

**ClientWalk.**  `vector`, `it`, `rd` and `er` as in `Loop`; `phase` is where
in the body the loop is.  Peers may send, or close, between any two steps.
`errno` after a `recv` of 0 may be anything that an earlier call has left.
`pos` is `m_nReadBufPos`, which a stale `recv` lowers by one.

**ControlBuffer.**  A byte is known by its line and by being the first or last
of it; `Complete` is the test for end of line or a full buffer.  All of a
message is one command: `CommandLine` is the line of its first byte.  What a
single message is cut into has no state: `Tokenizer` has the loop as a recursive
function of the number of characters read.  `FoundAgain` says that Tokenize finds again
what a peer writes, `CutWell` what any message is cut into.  Both are proved for
every message; `MCControlBuffer` assumes them besides, so that TLC evaluates them,
for up to two words of two characters and a text, with any of the separators
(`TokensAreWords`), and for every message of up to five characters (`TokensAreCut`).

**Keepalive.**  Whole seconds; a *look* is one pass of the loop body over the
client, `Lag` the longest time between two.  Of the lines that arrive between
two looks only the first is obeyed (this is ControlBuffer's result).

**DataConns.**  The code assigns a connection by the serial of a page, and compares
neither sender nor address.  So a page here names the client its serial was given
to, and a peer of `Mixers` may put any client's on its pages, of those who are
logged in, who have gone or who are yet to come.  `owner` is who opened the
connection; nothing but the peers and the properties look at it.  `mixed` is the history of who has
used another's serial and of whose was used.  `stale` are deleted clients of
which a serial was left in the map (`SerialsLeft`): a page with it leads to freed memory
(`ReadFreed`).  `kernel[d]` and `decoder[d]` are the pages before and behind `recv`.
One `recv` takes at most `MAXDATAREAD` bytes, 5000, so it brings any number of the pages
that have come to their end (`Given`), none as well, and leaves the rest; each read takes one
page of a client out of the decoder.  The slot `DeleteClient( *it )` is handed
(`Server_DataProcess.cpp:102`) makes every end of a held data connection an
undefined step: `DataClosed` says which.  So does the deletion of a client
that has serials, and of one whose connection another client shares, which is then left
with a freed one (`Shares`).  A connection refused by `NewDataConnection` is closed
at once and changes nothing.  Abstracted: the order of the walk over the clients
(ClientWalk has it), the streams and sending the page on (Relay has them), the
reuse of an address (ChatServer and Relay), and what `OggDecoderWrote( -1 )` does
in libogg after an EAGAIN.

**Relay.**  `serialMap` is `m_SerialMap` from the first to the last login,
with the entries that lookups insert, and with `Freed` in place of the pointer
where `DeleteClientSerials` may have passed over one of a client's two serials.
`current[d]` is the `m_OggPage` of a decoder: all pointers to pages lead to
one of these, so a page is never copied but into the header vector.  One action
`ReadPage` is `ReadDataConnection` to its end: after a `recv` that may bring a part of what
has come (`Given`) it takes the first page of a
known client out of the decoder, drops those before it, assigns the connection,
feeds the stream, and does `ProcessClientData` with `BroadcastData` and every
`SendData`, of which any may fail.  A `recv` that completes no page makes the
last one `torn`: `ogg_sync_buffer` may have moved or overwritten the memory, and
its serial may read as anything.  `out` is what the step sent to whom.  A page is
its serial, its number and what libogg reports of its packets: a granule
position of -1 for every packet but the last that ends on the page, no packet
for a part of one or behind a hole, and page 0 as the first one expected after
`ogg_stream_init`.  These are facts of libogg, external to the repository.
`DeleteClient` of a client with serials may end in the fault `erasedIterator`
(`SerialsFault`) or go on.  The peers put their own serials on their pages: what serials
of others do to who holds which connection is in DataConns.
Abstracted: the walk over the connections and how they end, which is DataConns;
channel creation and order, which is ChatServer; that `rand()` gives a number
again that a client that has gone once had.

**Settings.**  Lines are sequences of characters, `Char`, of which five matter
to the code; `MCSettings` has these and three others.  `LoadLine` is one turn of the
loop, `Turns` the state after each, as a recursive function; `LinesRead` are the lines
it gets to, of which one longer than `Limit` is the last that counts, and `hung`
says that the loop is then never left.  `path` is found once and kept.  `Get` is
three steps, one look into the map each, with `OnSIGHUP` possible between any
two; a handler inside of a look is undefined (`fault`), as is freeing the string
`getenv` returned.  The administrator may replace the file at any time.  Nobody
calls `Set` and `SaveConfig`; what the latter writes is modelled because
LoadConfig should read it back.  There is no separate type invariant:
`SettingsAreTheFile` says exactly which map there is.


## 3. The runs

Passing runs:

| Run | Bounds | What it shows |
|---|---|---|
| `chat` | 2 addresses, one of a flag reader, 2 channels, 4 nicks: 2 spellings of one name, another name, and one that is refused | The type invariant. `NickUnique`: two clients never hold nicks that differ in case only. `LoginIffCredentials`: logged in is having a nick and having given the password, whatever the order, and with reloads in between. `IsDirectory`: refinement of `Directory`. `MembersAreLive`: a channel holds logged-in clients, unless `DeleteClient` has stepped over it. `FaultCause`: a freed client is reached only through such a channel, a null one only with a server password, an erased node of the channel map only where a client is alone on a channel, one of the serial map only where a client has logged in. `ViewAgrees`: what a client was told is what the server holds, but for the creator where the dot is not known. `SpeakerIsKnown`: a 500 goes only to those whose list has the sender, with the same exception. |
| `delete_walk` | 2 clients, every map of up to 5 channels | `WalkAgrees` (the closed forms are right), `OneSteppedOver` (at most one channel is left behind, and only when the client was alone on the first), `WalkEnds`. |
| `client_walk` | 3 clients, one of which may send half a line, one is watched by the liveness properties; fair | A restart passes over the first client at most (`OnlyFirstPassedOver`), nobody twice in a row (`NeverMissedTwice`), and `recv` finds nothing only at a client served before in the round (`StaleOnlyIfServedBefore`). `LostIsRemoved`: a client whose peer has gone leaves, even if errno says EAGAIN each time. `InputIsRead`: drops of others starve nobody. |
| `framing` | 4 lines of up to 6 bytes, buffer of 4 | `RoomLeft`: `recv` is never asked for 0 bytes. `MidLineOnlyIfCut`, `ObeyedInOrder`: what can become a command, and in which order. `ObeyedAtOnce`: a peer that waits for each line to be read has all obeyed. |
| `keepalive` | ping 3 s, timeout 2 s, login 4 s, Lag 2 s, 24 s | `SilentIsDropped`: after `PingInterval + Timeout + 3 * Lag` seconds (less by one is violated: the bound is tight). `AnsweredIsKept`, `LoginDeadline`. |
| `data` | 2 clients behind one address, which may mix serials, 2 connections of 2 pages; fair | The type invariant. `ConnIsOwn`: a client's connection is open, no longer unassigned, and its own unless somebody has used another's serial with it. `KeepsConnection`: it is assigned once and kept. `ServedOrWaiting`: whoever has opened a connection that was taken out of the unassigned ones has one, with the same exception. `FaultCause`: what undefined steps take. `UnassignedIsRead`: what has come on an unassigned connection is read for as long as it is unassigned, although the walk passes over the connection behind one it erases. |
| `relay` | 2 clients, 2 channels, 2 connections, a video stream of 2 pages and an audio stream of 1, 3 logins | The type invariant. `SerialsAreTheClients`: the two serials a client was told, and no others, lead to it. `HeadersAreHeaders`: the header vector holds the first pages of the stream, all of them headers. `RelayedAsSent`: a page on a client's only connection goes, as it is and in order, to every member of every channel the client is on, but not to itself; nobody gets a page of a client it shares no channel with. `FaultCause`: what undefined steps take. |
| `settings` | every line of up to 4 characters, after a section line and before a pair; 4 files that take each other's place in 3 directories | `SettingsAreTheFile`: the map is what the last file loaded says, by a definition that does not go through the loop; nothing of an older file is left. `GetIsCurrent`: an answer was right at some time during the call, or is the empty value `operator[]` inserted. `SavedIsLoaded`: a saved file loads as what was saved, unless a section name has grown too long by its brackets. |

Runs that must end in a violation; each is a statement of the code's own
comments, or of the README, that the code does not keep:

| Run | Statement | What happens |
|---|---|---|
| `chat_flags` | README:102, "300 [channel] [nick]" | The first client on a channel is its creator, and whoever comes later is sent `300 #c .ann`: a list in which `ann` is missing. |
| `client_walk_buf` | "each control data received from the client goes into m_pReadBuf" | A client served twice in a round: `recv` returns -1, the position becomes -1, and the next bytes go in front of the buffer. |
| `framing_lost` | "after a line is completed ... it'll be processed" | Two lines in one `recv`: the second becomes parameters of the first. |
| `relay_incoming` | "sending incoming ogg page to all the channels the sender client is on" | A client opens a second connection and sends a page on it: the server feeds it to its stream, but then asks the first connection for its last page, and sends that one once more. |

Other things the models hold that the reader of the code may want to know,
without a run of their own:

* `ChatServer!SteppedOver`: a client alone on `#a` and also on `#b` quits: `#a` is
  erased, the iterator restarts behind `#b`, and the freed client stays a member of
  `#b`, where the code says "deleting client from channels it is on"
  (`Server_ClientProcess.cpp:293`).  `MembersAreLive` and `FaultCause` except the
  channels stepped over, `skipped`, and no others.
* `ChatServer!DropInCheck`: with a password set, every client dropped by
  `CheckForConnectionStatus` leads to a null pointer in
  `CheckForLoginTimeout` (`Server.cpp:264-265`; `FaultCause` bounds it).
* `ChatServer!Part`: whether the client is on the channel is not asked, so a
  stranger's nick can be announced to have left (305), where README:129 has
  701; and a name typed in upper case is refused to a member, as PART alone does
  not fold it.
* `ChatServer!LoginTail` and `SendMOTD`: 008 comes before the MOTD,
  README:46-48 has it after.
* `DataConns!KnownIP`: a client whose address has no reverse name never gets a
  data connection (`SetIP` is only called with one).
* `Relay!ReadPage` and `FaultCause`: with two connections a client can lead the
  server to a page pointer that was never set; and a connection that outlives its
  client can lead to the freed client if the erased iterator has passed over
  one of its serials.
* `OggStream!FirstGranule`: a page with several header packets, as libtheora
  writes them, or with a part of one, does not count as a header page, and the
  stream counts as initialized from there on.  Nothing reads the header vector:
  stored headers are never sent to those who join later.
* `Settings!LoadConfig`: `--config-path` with a relative path and daemon mode:
  `Daemonize` changes to `/`, so a reload does not find the file and keeps the
  old settings (`Places` has the file move away from `arg`).
* `Settings!FetchValue`: a key that a reload takes away between two looks
  is answered with an empty string, 0 for GetInt, and counts as set until the next
  reload.
* `DataConns!EraseFaults`: assigning the last of several unassigned
  connections moves the iterator past the end.
* `DataConns!TakeConnection`: a client is given the connection its serial comes on, from
  whatever address; README:52-53 has "using the client's IP address and it's
  streams' serials".  `ConnIsOwn` and `ServedOrWaiting` except whoever is in `mixed`.
* `DataConns!Assigned`: where the client of a page has a connection, a second one leaves
  the unassigned ones all the same (`Server.cpp:182` says "the connection has been
  assigned to a client") and is nobody's: it is neither read, closed nor freed any more,
  and what else has come on it stays unread.  `UnassignedIsRead` ends there.
* `DataConns!Read`: of pages that arrive together one is taken per `recv`, the others
  wait for more data.
* `DataConns!Shares`: a peer that puts the serials of two clients on one connection gives
  it to both, if they have none; the first of the two to leave frees it under the other.
* `ChatServer!NodeFault` and `SerialsFault`: the PART of every last member and the
  deletion of every client that has logged in are undefined steps.  With common
  libraries both mostly go on, which is why the models have that outcome too.

### Bounds, and why they are enough

* *chat*: all rules are about pairs (two nicks, two members, a channel and the
  one behind it).  A restart of the walk needs an erased first channel and a
  second one; address reuse needs one freed address and one holder; a collision
  of nicks needs two spellings of one name.  Five channels are for the walk alone
  (`delete_walk`), where the position of the erased channel matters.
* *client_walk*: a stale answer needs a client at index 2 that was served, one
  behind it that is dropped, and one in front to be passed over: three.
  `Slow` and `Watched` keep the state space small: one client sends half lines,
  and the liveness properties are about one client, which may be any.
* *framing*: a line can be shorter than, as long as and longer than the
  buffer; four lines let a cut one, two joined ones and a later one follow each other.
* *keepalive*: the clock stops at 24 s, twice the longest stay (11 s) and
  more; the theorems have no such bound.
* *relay*: an owner with two connections and a receiver; a third login is a
  client that comes back.  Two channels in common are two copies of a page.  A
  stream of a header page, a page of several headers and another stream with a
  header reach every value of `FirstGranule`; a part of a packet has the effect
  of the hole two connections can make.  `relay_incoming` has a third connection,
  as the receiver needs one of its own.
* *settings*: four characters hold an equals sign, a key, a value and a space
  at any place, a section name with a space, or a name that its brackets make too
  long; 4 stands for the 498 of the code.  The four edited files contain each key in
  one, the other or both sections and one line that is too long.
* *data*: two clients, of which either may use the other's serial or only its own;
  of two connections one can be shared, lost, freed or passed over while the other
  waits.  Two pages are one to take and one to leave.  An unassigned connection moves
  forward in the vector only, so one in front of it is enough for it to be passed over.

Interchangeable, and used as symmetry sets, are the two spellings of a name in *chat* and
*chat_flags*, and connections and channels in *relay*; no run with liveness has symmetry.
In *chat*, states that differ only in `out`, the messages last sent, are one
(`VIEW WithoutOut`): no action and no invariant but a conjunct of `TypeOK` reads it, and
action properties are checked on every step.  Deadlock is not checked: a model stops at
`fault`, when its peers have all gone silent, or at its bounds, none of which is a
deadlock of the server, whose loop always runs on.

### Fairness

`ClientWalk`: weak fairness of `Loop` - `select()` waits a second at most, so a
round always follows.  Strong fairness of dropping a client whose peer has closed
(`DropsTheLost`): such a peer answers no ping, and `Keepalive` proves that a
client from which no PONG comes is dropped by the check in bounded time.
Nothing is assumed of peers.

`DataConns`: weak fairness of the walk, which is part of every round, and strong
fairness of reading a page's end on the watched connection (`ReadsPage`): each
`recv` on a connection that has bytes takes some of them, and a page, 65307 bytes
at most, ends with the fourteenth at the latest, so reading it again and again
reads its end.  That the connection is looked at again and again, although
others are erased in front of it, is what the run shows.

`Keepalive` has no fairness: `Lag` takes its place, as time cannot pass without
looks.  All of this supposes that `send()` and
`gethostbyaddr()` return: the sockets are blocking, so a peer that does not
read can stop the whole server.  This is an assumption, listed as a hazard.


## 4. The proofs

Every safety property of the passing runs is proved for all values of the
constants, and so are the refinement of `Directory` and what `Tokenize` is for.
The assumptions are those of the modules, and all of them are facts about how an
instance is written down or about memory:

* a null pointer is no client, no address and no connection (`PtrAssumption`,
  `PointerAssumption`, `NoConnAssumption`, `ConnAssumption`), and no page is the
  page that has never come (`PageAssumption`); the empty nick is no nick;
* times, numbers of channels, lines and pages are natural numbers, and the buffer
  holds more than one byte (`SizeAssumption`; 1024 in the code);
* the peers that know of the flag, that mix serials, and those watched, are some of the peers
  (`ReaderAssumption`, `MixersAssumption`, `WatchedAssumption`);
* a stream is a sequence of page bodies (`LayoutAssumption`);
* a file is a sequence of texts, and so are the names that are asked for
  (`FilesAssumption`, `WantedAssumption`); the signs the code looks for are among
  the characters (`CharAssumption`);
* there are finitely many data connections and channels, where they are counted.

Nothing is assumed of how many clients, nicks, channels, connections, serials,
lines or pages there are, nor of the intervals.

**ChatServerProofs.**  `TypeCorrect`, `NicksAreUnique`,
`LoginNeedsCredentials`, `ChannelsHoldMembers`, `FaultsExplained`.  The invariant is

    IInv = TypeOK /\ FreeIsFresh /\ NickUnique /\ LoginIffCredentials /\ MembersAreLive

`FreeIsFresh` (a free address has no nick) is the strengthening: without it a
new client at a used address could start with its predecessor's nick, and
neither `NickUnique` nor `LoginIffCredentials` would be kept by
`NewClientConnect`.  There is one lemma per handler; messages are shown well
typed once, in `SendType` and `LineType`; handlers that touch nothing the
invariant speaks of share `CoreUnchanged`.  The hard case is `DeleteClientStep`:
that members outside `skipped` stay logged in after a walk that steps over
channels.  `FaultsExplained` follows from `DanglingIsSkipped`: a member that is
not allocated is on a channel in `skipped`.  The other three of its conditions are those of the steps
that set the fault; together they say that no other step sets one.

`ListsAreRight == Spec => []ViewAgrees`: what a client was told is what the server
holds, for any `FlagReaders`.  A part of `ChannelViews` is that the creator of a
channel is one of its members or nobody: a newcomer is never the creator but on an empty
channel, so no list ever loses a name that was in it.  `ViewAgrees` is not inductive.  `ViewInv` adds that a client
that is not on a channel, or that has been freed, has an empty picture of it, on the
channels that were stepped over as well: an address is used again, and its next
client starts with what its predecessor's picture has been left as.  It drops
the condition that the client has not hung up: the picture of whoever has hung up
follows the lines all the same, until the client is deleted.
`HearJoined`, `HearLeft` and `HearRenamed` say what one
line does to one picture; `JoinViews`, `PartViews`, `DeleteViews` and `NickViews` put
the lines of a handler together.  Pictures are sets of nicks, so that a member's leaving
takes away one name and no other is `NickUnique` (`LeftChannel`), and that a change of
nick replaces one name is `NickUnique` of the state after it as well
(`RenamedViews`).  `SpeakerIsListed == Spec => SpeakerIsKnown` is the
same invariant before a step that sends a 500, with the same exception for the
creator.

`ServerIsDirectory == Spec => IsDirectory`: a step simulation under `IInv`.  A new
connection is `Arrive`, every way to `DeleteClient` is `Leave`, NICK, PASS and the login
tail are `Settle`, and the rest stutters.  The point is `AcceptedIsFree`: NickChange
skips its collision test where the new nick is the client's own in another
spelling, and only `NickUnique` of the state before makes the name free then.

**DeleteWalkProofs.**  `OneStepIsTheWalk`, `OneChannelMissed`: for
maps of any size the iterator does what ChatServer writes down in one step.  The
walk ends in no particular number of steps and its iterator moves back, when
it restarts at `begin()`; so the invariant does not say which keys it has
passed.  It says that a visit is all that happens to a channel (`Visits`), that
visits go up the keys and that the keys before the iterator on which the client is
found are visited (`InOrder`), and that the key to be stepped over is never the
iterator's (`PassesOver`).  A restart comes back to the first key that is left, and the
one point where it matters is `EraseStep`: if the erased channel was the
first, `Resume` passes over the second for good, and if not, it passes over the
first, which has been dealt with before.  That a set of keys has a least one
is `HasLeast`, from the library's well-founded induction.

**ClientWalkProofs.**  `WalkTypeCorrect`, `OnlyTheFirstIsPassedOver`,
`NobodyIsMissedTwice`, `StaleAfterServedOnly`: for any number of clients, any pattern
of drops and any length of half lines.  What `NeverMissedTwice` needs is a memory across
rounds: whoever was missed in the last one is the first of the vector when
the next begins, and has been served, is being served or has left as soon as that
one goes on (`MissedIsFirst`).  `AnswerIsFresh`, that the answer of `select()` holds
for every client not served yet, is what makes a stale one a matter of second visits.

**ControlBufferProofs.**  `RecvHasRoom`, `PatientPeerObeyed`, `CommandsBeginLines`,
`CommandsKeepOrder`: for any size of the buffer, any lines and any way TCP cuts
them.  The invariant is about one sequence, `Stream`, the bytes in the buffer
and then those in the kernel: lines follow each other in it without a hole (`InOrder`), it
ends where the peer is (`EndsWithPeer`), it starts in the middle of a line only
behind a message that filled the buffer (`CutBefore`), and what has been obeyed
lies before it (`ObeyedBefore`).  `PatienceHelps` adds that a peer that waits for each
line to be read has one line in it at a time.  Each step is reduced to what it does
to `Stream`: it grows by a byte, or it loses a prefix.

**KeepaliveProofs.**  `TypeCorrect`, `SilentPeersLeave`, `AnswersCount`, `LoginInTime`,
for all intervals, lags and passwords.  The invariant has four parts.  `Clocks`:
looks are at most `Lag` apart, and while no ping is out the clock runs from the
last PONG.  `Checked`: how far the last look can be behind the last PONG;
`Grace` accounts for the one look that sends the MOTD and checks nothing.
`Deadline`: the same for logging in.  `Answers`: an answer or a login that has not
taken effect waits to be read, and no check comes between.

**DataConnsProofs.**  `ConnsTypeCorrect`, `ConnectionIsOwn`, `NobodyUnserved`,
`FaultsHaveACause`, `ConnectionIsKept`: for any number of clients, connections and
pages, and any `Mixers`.  `ConnIsOwn` and `ServedOrWaiting` are inductive with the
types and three facts.  `PagesNamed`: a page on a connection names the client that has
opened it, or both of them are in `mixed`; as the code goes by pages alone, this is
all that ties a connection to its peer.  `PagesFit` bounds the pages before and
behind `recv` together: each bound alone is lost when `recv` moves pages from one
to the other.  `WaitingAreOpen`: what is in the vector of unassigned connections is
open, so a connection that is accepted is in it once, and `erase` takes all there
is of it.  A freed client is reached by the name of one in `stale`; by `PagesNamed`
its connection has outlived it, or it is in `mixed`.

**RelayProofs.**  `SerialsAreUnique`, from `PointerAssumption` alone: for any
number of clients, connections and channels and any `Layout`.  `SerialInv`
adds to `SerialsAreTheClients` what is known of a client that is not logged
in: no serial in the map is its own, for its next login would leave it with three.
`LookupKeeps`: what the lookups of pages insert belongs to nobody and changes no
entry.  `DeleteKeeps` goes through every outcome of the erased iterator that is no fault: none
leaves the client a serial, and none takes one from anybody else.

`HeadersAreTheFirstPages == Spec => []HeadersAreHeaders` needs `LayoutAssumption`
(streams are sequences of page bodies) besides.  `HeaderInv` is `SerialInv` with
three parts.  `ToldInv`: a client has been told two serials that were handed out,
or none.  `PageInv`: a page in a kernel buffer or a decoder, of a client that is
still there, is the page of that number of its stream (`GoodPages`).
`StreamInv`: the header vector is the first pages of the stream, all of them
headers, and a stream that is not initialized expects the page behind them; this
is what `FirstGranule` tells a hole by, and without it a page behind a hole could be
stored.  `FeedIsGood` is the argument for one page.  `ReadFeedsRight` is
where the serial map comes in: the stream a read feeds is the one the page is of,
because told serials are unique.  `PagesStayGood` is why a login cannot make
a waiting page of a client that has gone one of its own.

`RelaysAsSent == Spec => RelayedAsSent`, `UndefinedOnlyThen == Spec => []FaultCause`
and `TypeCorrect` rest on `RelayInv`.  The code never compares who opened a connection
with whose page comes on it, and looks everything up by serial; that the two
agree is the invariant.  `PagesOf(d)` are the pages with a serial of the client that
opened `d`, or of nobody who is there if it has gone; only such pages are on `d`
(`PagesOK`), a client's page pointers lead to connections of its own on which a page
has come (`PointersOK`), and a connection that is closed holds nothing for the
next one (`IdleOK`).  This rests on peers that
send their own serials (`PeerSendsPage`); DataConns has what holds without it.
`PagesKept` is the argument: a login hands out serials above all
that are on their way, and `DeleteClient` makes the client's connections
nobody's at once with its serials.  Under it a read has two cases and no third
(`ReadTakes`): the page is of the client that opened the connection, or both that
client and the page's have gone.  The second one is the use of a freed client, on a
connection that waits and has no owner.  In the first one, if the connection read is
the one the client holds, the serial of its last page is that of the page just
read, and the stream found points to it (`OwnLookup`): the page goes on as it came,
and the pointer is set.  An unset pointer therefore takes a second
connection (`TwoOwned`).  Whatever connection it was, the page sent is found by a
pointer of a stream of the client, so it is the client's own: that is the second
half of `RelayedAsSent` (`SentIsHeard`).

**Tokenize**, in ControlBufferProofs.  `AnyMessageIsCutWell` is an invariant of the
loop (`CutSoFar`): the tokens so far are words, the first one begins the message, and no
word has ended behind `nLastSpacePos`.  `WordsAreFoundAgain` goes word by
word: if the line begins with the first n words, then with the word that is still open
pushed the tokens are these n words (`FoundUpTo`, `Done`).  One more word is a run of
spaces, which pushes exactly once (`GapPushes`), and a run of other characters, during
which nothing happens (`NothingHappens`); a colon stops the loop, and what is left
out behind the text is the end of line that was written (`EndIs`).

**SettingsProofs.**  `FileCorrect`, `GetCorrect`, `SavedCorrect`, for every file of lines
of any length over any characters.  They rest on two theorems without a state.

`LoadIsMeaning`: the loop of `LoadConfig` makes of a file what `Meaning` says,
a definition by positions in the lines that trims nothing and remembers nothing.  First
one line (`EveryLine`): it is nothing to the loop and has no section or pair, or it names
a section, or it is a key with a value, and loop and definition find the same ones.
The places where trimming stops are the first and the last character that is no
space, and there is only one way to split a line at its first equals sign (`PairOnce`).
Then the lines up to n (`MapAfter`): the section the loop is in is the one
opened last (`OpenIs`), and a pair is put over one of a line before (`OnePut`).

`RoundTrip`: what `SaveConfig` writes, `LoadConfig` reads back, if the section
names are short enough.  It holds of maps such as a file can give (`GoodMap`: names and
values are not empty and neither begin nor end with a space, no bracket closes inside of
a section's name, no key has an equals sign or begins like a comment or a section), and
`SaidIsGood` says that whatever was loaded is such a map.  The file written has each
section with all its keys behind its heading (`Holds`) and nothing else (`Regular`); then
each line is read by itself, and the file means the map.

With these the invariant is

    SettingsInv = TypeOK /\ WholeFile /\ RightSeen /\ NotYetAsked /\ GetIsCurrent

`WholeFile` is `SettingsAreTheFile` during a Get as well, when `operator[]` may have
inserted empty values, and says besides that no line of the file loaded was too
long.  `RightSeen`: for as long as a question goes on, the right answer of this moment
is among those seen, so a reload between two looks adds one.  `NotYetAsked`:
nobody asks before `main` has loaded the settings.  The last look of a Get
returns what is in the map, which is the right answer of this moment, or the
empty value that this look has just inserted.

**Induction.**  The library's induction theorems take an operator as a parameter, which
the installed provers cannot instantiate.  What a recursive function computes is
shown here by `Climb`: if a set of numbers holds 0 and with n also n + 1, it holds all,
for else there would be a least one it lacks (`HasLeast`, from the library's
well-founded minimum, a theorem about sets).  That the recursive function exists is
`Iterates`.

**Only model-checked.**  Liveness (`WalkEnds`, `LostIsRemoved`, `InputIsRead`,
`UnassignedIsRead`): it needs `ENABLED` and fairness, which the prover cannot handle.
The runs that end in a violation prove nothing beyond the behaviour they show.


## 5. What is not modelled, and the plan

Not modelled, by choice: listeners, logger and argument parser (sequential
start-up and I/O); the UDP socket (asked about, never read); reply texts and
layout; the contents of audio and video; the operator flag, which nothing sets;
where SaveConfig would write (nobody calls it); an `accept` that fails (its -1
goes into an unsigned int and then into `FD_SET`, outside of the set); descriptors beyond `FD_SETSIZE`; calls that block (`send`,
`gethostbyaddr`), which the fairness and `Lag` assume to return.

Order of work; all of it is done but the last two, proofs included:

1. `ChatServer`, `Directory` and their proofs: the heart of the server.
2. `DeleteWalk`: what ChatServer takes for granted of the iterator.
3. `ClientWalk`: the loop that ChatServer leaves open.
4. `ControlBuffer`, `Keepalive` and proofs: what becomes a command, and when a client is dropped.
5. `DataConns`: the second kind of connection.
6. `SerialMap`, `OggStream`, `Relay` and first proofs: what DataConns takes for granted
   of serials, and what becomes of a page.
7. `Settings`: the file, the questions and the signal handler.
8. `Tokenizer`: what a message is cut into.
9. An abstract specification of the relay: what a member receives is a
   subsequence of what a sender with one connection has sent.
10. A failed `accept`, and connections without a timeout up to the limit of `select()`.

Left to prove: the refinement of the abstract relay (9), whose step is the order that
`RelayedAsSent` states.
