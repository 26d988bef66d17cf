----------------------------- MODULE OggStream ------------------------------
(***************************************************************************)
(* COggStream (OggStream.cpp): what the server keeps of one stream.  The   *)
(* page itself stays where the decoder has it: m_pOggPage points to the    *)
(* m_OggPage of the data connection the page was read on.                  *)
(*                                                                         *)
(* A page is known by its number in the stream and by what libogg makes of *)
(* its packets: "header" is one whole packet with granule position 0;      *)
(* "headers" is several, of which all but the last have position -1;       *)
(* "part" holds no end of a packet; "data" has another position.           *)
(***************************************************************************)
EXTENDS Integers, Sequences

CONSTANT NoConn       \* a pointer m_pOggPage that was never set

Body == {"header", "headers", "part", "data"}

NewStream ==
  [at          |-> NoConn,  \* m_pOggPage
   initialized |-> FALSE,   \* m_fInitialized
   next        |-> 1,       \* the page number libogg expects
   headers     |-> <<>>]    \* m_HeaderVector: the numbers of the pages

\* Variant: the position is not preset, and no packet looks like a header.
GranuleNotPreset(st, p) ==
  IF p.no # st.next \/ p.body \in {"header", "part"} THEN 0 ELSE -1

\* The granule position ogg_stream_packetout reports for the first packet of
\* page p, or 1, as the caller preset it, where it finds no packet: only a
\* part of one, or a hole before the page.
FirstGranule(st, p) ==
  IF p.no # st.next \/ p.body = "part" THEN 1
  ELSE IF p.body = "header" THEN 0 ELSE -1

\* Variant: only a stream that is initialized takes the page.
FeedPageLate(st, d, p) ==
  IF st.initialized THEN [st EXCEPT !.at = d]
  ELSE IF FirstGranule(st, p) = 0
  THEN [st EXCEPT !.next = p.no + 1, !.headers = Append(@, p.no)]
  ELSE [st EXCEPT !.next = p.no + 1, !.initialized = TRUE]

\* FeedPage, of a page in the decoder of connection d.
FeedPage(st, d, p) ==
  IF st.initialized THEN [st EXCEPT !.at = d]
  ELSE IF FirstGranule(st, p) = 0
  THEN [st EXCEPT !.at = d, !.next = p.no + 1, !.headers = Append(@, p.no)]
  ELSE [st EXCEPT !.at = d, !.next = p.no + 1, !.initialized = TRUE]
=============================================================================
