----------------------------- MODULE SerialMap ------------------------------
(***************************************************************************)
(* CSerialMapper (SerialMapper.cpp): which client and which of its two     *)
(* streams a page's serial number means.                                   *)
(*                                                                         *)
(* A serial map is a function from the serials in m_SerialMap to entries.  *)
(* rand() may give a number that is in the map, or one that nobody has     *)
(* had; that it gives the number of a client that has gone is left out.    *)
(***************************************************************************)
EXTENDS Integers, FiniteSets

CONSTANTS
  Client,     \* the clients
  NoClient,   \* a null pointer
  Freed       \* a pointer to a client that has been deleted

ASSUME PointerAssumption == NoClient \notin Client /\ Freed \notin Client

Stream == {"video", "audio"}

Entry(q, k) == [client |-> q, stream |-> k]

\* What operator[] puts into the map for a serial it does not find.
NullEntry == [client |-> NoClient, stream |-> "none"]

EmptyMap == [s \in {} |-> NullEntry]

\* The serials of q in map m.
SerialsOf(m, q) == {s \in DOMAIN m : m[s].client = q}

\* rand(), when the serials up to n have been handed out.
Rand(m, n) == DOMAIN m \cup {n + 1}

\* Variant: whatever rand() gives is taken.
UncheckedSerials(m, n) == Rand(m, n)

\* The serials the loop ends with: those not in the map.
NewSerials(m, n) == {r \in Rand(m, n) : r \notin DOMAIN m}

\* m_SerialMap[r] = (q, its stream k).
SetEntry(m, r, q, k) ==
  [s \in DOMAIN m \cup {r} |-> IF s = r THEN Entry(q, k) ELSE m[s]]

\* GetClient and GetOggStream, for the serials S: lookups that insert.
LookedUp(m, S) ==
  [s \in DOMAIN m \cup S |-> IF s \in DOMAIN m THEN m[s] ELSE NullEntry]

\* What the map means by serial s.
Meaning(m, s) == IF s \in DOMAIN m THEN m[s] ELSE NullEntry

\* The map without the serials G; those that q has left point to freed memory.
Without(m, q, G) ==
  [s \in DOMAIN m \ G |->
     IF m[s].client = q THEN Entry(Freed, m[s].stream) ELSE m[s]]

\* The maps DeleteClientSerials can leave.  It erases the first serial it
\* meets and then increments the erased iterator.  That is undefined, at
\* every deletion of a client that has serials: whoever calls it has to
\* allow for a fault, too.  Where the increment does find the rest of the
\* map, it goes on to the second serial or passes it over.
DeleteClientSerials(m, q) ==
  {Without(m, q, G) :
     G \in {S \in SUBSET SerialsOf(m, q) :
              SerialsOf(m, q) = {} \/ S # {}}}
=============================================================================
