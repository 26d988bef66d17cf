----------------------------- MODULE DeleteWalk -----------------------------
(***************************************************************************)
(* The walk over m_ChannelMap in CServer::DeleteClient, one iteration a    *)
(* step (Server_ClientProcess.cpp:293-314).  ChatServer does the whole     *)
(* walk in one step, with closed forms for the channels it finds and the   *)
(* channels it erases; here those forms are checked against the iterator.  *)
(***************************************************************************)
EXTENDS FiniteSetsExt, Naturals

CONSTANTS
  Ptr,          \* client addresses
  p,            \* the client that is deleted
  NumChannels   \* channel names are 1..NumChannels, in the order of the map

ASSUME WalkAssumption == p \in Ptr /\ NumChannels \in Nat

VARIABLES
  channelMap,   \* the keys of m_ChannelMap
  member,       \* member[c]: the pointers in m_ClientVector of channel c
  it,           \* the key the iterator is at, or End
  channelMap0,  \* history: the map before the walk
  member0       \* history: the members before the walk

vars == <<channelMap, member, it, channelMap0, member0>>
before == <<channelMap0, member0>>

ChanName == 1..NumChannels
End      == NumChannels + 1

-----------------------------------------------------------------------------
\* begin() of a map with the keys K, and the key after c.
Begin(K)   == IF K = {} THEN End ELSE Min(K)
After(c, K) == Begin({d \in K : d > c})

\* Variant: an iterator that is not moved.
SameKey(c, K) == c

\* The loop's it++.
Onward(c, K) == After(c, K)

\* Variant: the walk goes on behind the erased channel.
ResumeAfter(c, K) == After(c, K)

\* Variant: the walk ends at the first channel it erases.
BreakOnErase(c, K) == End

\* it = begin() where the channel was erased, and then the loop's it++.
Resume(c, K) == After(Begin(K), K)

\* A channel p is not on.
PassBy ==
  /\ it # End
  /\ p \notin member[it]
  /\ it' = Onward(it, channelMap)
  /\ UNCHANGED <<channelMap, member, before>>

\* A channel p is on: 304 to its members, CChannel::DeleteClient, and
\* DeleteChannel if nobody is left.
Visit ==
  /\ it # End
  /\ p \in member[it]
  /\ member' = [member EXCEPT ![it] = @ \ {p}]
  /\ IF member[it] = {p}
     THEN /\ channelMap' = channelMap \ {it}
          /\ it' = IF channelMap' = {} THEN End ELSE Resume(it, channelMap')
     ELSE /\ channelMap' = channelMap
          /\ it' = Onward(it, channelMap)
  /\ UNCHANGED before

Init ==
  /\ channelMap \in SUBSET ChanName
  /\ member \in [ChanName -> SUBSET Ptr]
  /\ \A c \in ChanName : c \in channelMap <=> member[c] # {}
  /\ it = Begin(channelMap)
  /\ channelMap0 = channelMap
  /\ member0 = member

Next == PassBy \/ Visit

Spec == Init /\ [][Next]_vars /\ WF_vars(Next)

-----------------------------------------------------------------------------
\* ChatServer, looking at the map as it was before the walk.
Whole == INSTANCE ChatServer WITH
  channelMap <- channelMap0, member <- member0, live <- Ptr,
  FlagReaders <- {}, creator <- 0, stale <- {}, Nick <- {}, Upper <- [n \in {} |-> n], BadNick <- {}, NoNick <- 0,
  NoClient <- 0, password <- FALSE, nick <- 0, passGiven <- {},
  loggedIn <- {}, motdSent <- {}, closed <- {}, gone <- {}, serving <- 0,
  out <- {}, view <- 0, skipped <- {}, fault <- "none"

found == Whole!Visited(p)

\* What ChatServer!DeleteClient does to the channels in one step is what the
\* iterator has done when the walk is over: the same channels are left, the
\* same are erased and the same are stepped over.
WalkAgrees ==
  it = End =>
    /\ channelMap = channelMap0 \ Whole!Emptied(p, found)
    /\ \A c \in ChanName :
         member[c] = IF c \in found THEN member0[c] \ {p} ELSE member0[c]

\* At most one channel is stepped over, and only if the client was the last
\* on the first one.
OneSteppedOver ==
  it = End =>
    LET left == {c \in ChanName : p \in member[c]} IN
    /\ Cardinality(left) =< 1
    /\ left # {} => member0[Min(channelMap0)] = {p}

\* The restarts do not keep the walk going forever.
WalkEnds == <>(it = End)
=============================================================================
