--------------------------- MODULE ControlBuffer ----------------------------
(***************************************************************************)
(* From bytes to commands: m_pReadBuf of one client, ReadClientMessage and *)
(* the splitting of ProcessClientMessage (Server_ClientProcess.cpp:25-79,  *)
(* MyString.cpp:20-72).                                                    *)
(*                                                                         *)
(* recv fills the buffer behind what is there.  When the last byte is an   *)
(* end of line, or the buffer is full, all of it is one message: the first *)
(* word is the command, whatever lines follow are among its parameters or  *)
(* text.  A byte is known by its line and by being the first or the last   *)
(* of it.  Lines are not empty.  (That select() may be stale and recv then *)
(* returns -1 is in ClientWalk.)                                           *)
(***************************************************************************)
EXTENDS Integers, Sequences, SequencesExt

CONSTANTS
  Size,         \* MAXMESSAGELENGTH
  MaxLine,      \* bound: bytes of a line, its end included
  MaxLines      \* bound: lines the peer sends

ASSUME SizeAssumption   == Size \in Nat /\ Size > 1
ASSUME BoundsAssumption == MaxLine \in Nat /\ MaxLine > 1 /\ MaxLines \in Nat

VARIABLES
  sent,         \* the bytes of each line the peer has sent, the last one open
  open,         \* is the last line unfinished?
  kernel,       \* bytes received by the kernel
  buf,          \* m_pReadBuf up to m_nReadBufPos
  obeyed,       \* history: the lines whose command was obeyed, in order
  cut,          \* history: did the last message fill the buffer?
  patient       \* history: was each line sent when the last one was read?

vars == <<sent, open, kernel, buf, obeyed, cut, patient>>

Byte(line, first, end) == [line |-> line, first |-> first, end |-> end]

-----------------------------------------------------------------------------
(* The peer.                                                               *)

StartLine ==
  /\ ~open
  /\ Len(sent) < MaxLines
  /\ patient' = (patient /\ kernel = <<>> /\ buf = <<>>)
  /\ sent' = Append(sent, 1)
  /\ open' = TRUE
  /\ kernel' = Append(kernel, Byte(Len(sent) + 1, TRUE, FALSE))
  /\ UNCHANGED <<buf, obeyed, cut>>

ContinueLine ==
  /\ open
  /\ Last(sent) < MaxLine
  /\ sent' = [sent EXCEPT ![Len(sent)] = @ + 1]
  /\ \E end \in BOOLEAN :
       /\ Last(sent) = MaxLine - 1 => end
       /\ open' = ~end
       /\ kernel' = Append(kernel, Byte(Len(sent), FALSE, end))
  /\ UNCHANGED <<buf, obeyed, cut, patient>>

-----------------------------------------------------------------------------
(* ReadClientMessage.                                                      *)

\* What recv returns: all there is, as far as there is room.
Taken == SubSeq(kernel, 1, Min({Len(kernel), Size - Len(buf)}))

\* Variants: the buffer is taken for full one byte late; a message needs no
\* end of line; the byte behind the last one, a zero, is tested for one.
FullLate(b) == Last(b).end \/ Len(b) = Size + 1
AnyBytes(b) == TRUE
NeverEnds(b) == Len(b) = Size

\* Is the buffer a message?
Complete(b) == Last(b).end \/ Len(b) = Size

\* Variant: the position is not set back.
LeftBehind(b) == b

\* The buffer after a message.
AfterMessage(b) == <<>>

\* The line whose first word is the command of the message.
CommandLine(b) == Head(b).line

ReadClientMessage ==
  LET b == buf \o Taken IN
  /\ kernel # <<>>
  /\ kernel' = SubSeq(kernel, Len(Taken) + 1, Len(kernel))
  /\ IF Complete(b)
     THEN /\ obeyed' = Append(obeyed, CommandLine(b))
          /\ buf' = AfterMessage(b)
          /\ cut' = (Len(b) = Size)
     ELSE /\ buf' = b
          /\ UNCHANGED <<obeyed, cut>>
  /\ UNCHANGED <<sent, open, patient>>

-----------------------------------------------------------------------------
Init ==
  /\ sent = <<>>
  /\ open = FALSE
  /\ kernel = <<>>
  /\ buf = <<>>
  /\ obeyed = <<>>
  /\ cut = FALSE
  /\ patient = TRUE

Next == StartLine \/ ContinueLine \/ ReadClientMessage

Spec == Init /\ [][Next]_vars

-----------------------------------------------------------------------------
(* Properties.                                                             *)

\* The lines sent to their end and without a byte among those of bytes.
Past(bytes) ==
  {i \in 1..Len(sent) :
     /\ i = Len(sent) => ~open
     /\ \A j \in 1..Len(bytes) : bytes[j].line # i}

\* recv always has room for a byte: with none it would return 0, and the
\* client would be taken for lost (ReadClientMessage).
RoomLeft == Len(buf) < Size

\* The middle of a line is taken for a command only behind a message that
\* filled the buffer.
MidLineOnlyIfCut ==
  [][Len(obeyed') > Len(obeyed) => Head(buf \o kernel).first \/ cut]_vars

\* Commands are obeyed in the order they were sent in, and a line is obeyed
\* twice only where it was cut.
ObeyedInOrder ==
  [][\A i \in 1..Len(obeyed) :
        Len(obeyed') > Len(obeyed) =>
          \/ obeyed[i] < Last(obeyed')
          \/ cut /\ obeyed[i] = Last(obeyed')]_vars

\* A peer that waits with each line until the last one is read has every
\* line obeyed as soon as its end is read, however recv cuts it.
ObeyedAtOnce == patient => \A i \in Past(kernel) : i \in ToSet(obeyed)

\* After a line is completed (ended with \n) it'll be processed
\* (Client.h:73): no line is dropped from the buffer without that.
NoLineLost == \A i \in Past(buf \o kernel) : i \in ToSet(obeyed)
=============================================================================
