-------------------------- MODULE KeepaliveProofs ---------------------------
(***************************************************************************)
(* The timing of Keepalive for every value of the intervals: how long a    *)
(* silent peer stays, how long a client may take to log in, and that an    *)
(* answered ping does not time out.                                        *)
(*                                                                         *)
(* The argument for the first: between two looks pass at most Lag seconds, *)
(* and every look but one checks the clock; the one that does not sends    *)
(* the MOTD.  Grace is the delay that one has caused so far.               *)
(***************************************************************************)
EXTENDS Keepalive, TLAPS

\* The MOTD is sent once, in place of a check.
Grace == IF motdSent THEN Lag ELSE 0

\* The latest second at which a ping goes out to a peer heard at `heard'.
PingBy == heard + PingInterval + Lag + Grace

\* Looks are no further apart than Lag; while no ping is out the clock runs
\* from the last PONG, and the last look has found it in time or has sent
\* the MOTD.
Clocks ==
  /\ looked =< now /\ now =< looked + Lag
  /\ heard =< looked
  /\ phase # "loop" => now = looked
  /\ ~pingSent => lastPing = heard
  /\ pingSent => lastPing =< PingBy

\* How far the last look can be behind the last PONG; a look that has not
\* checked the clock yet adds a Lag.
Checked ==
  dropped = "no" =>
    LET due  == IF pingSent THEN PingBy + Timeout
                            ELSE heard + PingInterval + Grace
        wait == IF phase = "statusCheck" THEN Lag ELSE 0
    IN  looked =< due + wait

\* A client that is not logged in has passed every login check so far.
Deadline ==
  Password /\ dropped = "no" /\ ~loggedIn =>
    looked =< LoginWait + (IF phase = "loop" THEN 0 ELSE Lag)

\* An answer and a login that have not taken effect are waiting to be read,
\* and no check comes before that.
Answers ==
  /\ answered /\ pingSent => phase = "loop" /\ inbox = "PONG"
  /\ dropped = "pingTimeout" => ~answered
  /\ loginGiven /\ ~loggedIn => phase = "loop" /\ inbox = "login"
  /\ dropped = "loginTimeout" => ~loginGiven

IInv == TypeOK /\ Clocks /\ Checked /\ Deadline /\ Answers

USE TimesAssumption, PasswordAssumption
-----------------------------------------------------------------------------
\* The parts of the invariant hold when the client connects.
LEMMA InitIInv == Init => IInv
<1> SUFFICES ASSUME Init PROVE IInv
  OBVIOUS
<1> USE DEF Init
<1>1. TypeOK
  BY DEF TypeOK
<1>2. Clocks /\ Checked
  BY DEF Clocks, Checked, Grace, PingBy
<1>3. Deadline /\ Answers
  BY DEF Deadline, Answers
<1> QED
  BY <1>1, <1>2, <1>3 DEF IInv

\* The types are kept by every step.
LEMMA TypeStep == TypeOK /\ [Next]_vars => TypeOK'
<1> SUFFICES ASSUME TypeOK, [Next]_vars PROVE TypeOK'
  OBVIOUS
<1> USE DEF TypeOK
<1>1. CASE Tick
  BY <1>1 DEF Tick, clock, account, history
<1>2. ASSUME NEW line \in Line, PeerSends(line) PROVE TypeOK'
  BY <1>2 DEF PeerSends, Line, clock, account
<1>3. CASE Look
  BY <1>3 DEF Look, ReadPong, ReadLogin, ReadOther, PongFlag, PongTime,
              clock, account, Line
<1>4. CASE StatusCheck
  BY <1>4 DEF StatusCheck, SendMOTD, SendPing, PingTimeout, NothingDue,
              StatusPassed, clock, account, history
<1>5. CASE LoginCheck
  BY <1>5 DEF LoginCheck, clock, account, history
<1>6. CASE UNCHANGED vars
  BY <1>6 DEF vars, clock, account, history
<1> QED
  BY <1>1, <1>2, <1>3, <1>4, <1>5, <1>6 DEF Next

\* The invariant about times is kept by every step.
LEMMA TimeStep ==
  TypeOK /\ Clocks /\ Checked /\ Deadline /\ [Next]_vars
    => Clocks' /\ Checked' /\ Deadline'
<1> SUFFICES ASSUME TypeOK, Clocks, Checked, Deadline, [Next]_vars
             PROVE  Clocks' /\ Checked' /\ Deadline'
  OBVIOUS
<1> USE DEF TypeOK, Clocks, Checked, Deadline, Grace, PingBy
<1>1. CASE dropped = "no" /\ Tick
  BY <1>1 DEF Tick, clock, account, history
<1>2. ASSUME NEW line \in Line, PeerSends(line)
      PROVE  Clocks' /\ Checked' /\ Deadline'
  BY <1>2 DEF PeerSends, clock, account
<1>3. CASE dropped = "no" /\ Look
  <2> USE <1>3 DEF Look
  <2>1. CASE ReadPong
    BY <2>1 DEF ReadPong, PongFlag, PongTime, account
  <2>2. CASE ReadLogin
    BY <2>2 DEF ReadLogin, clock
  <2>3. CASE ReadOther
    BY <2>3 DEF ReadOther, clock, account
  <2> QED
    BY <2>1, <2>2, <2>3
<1>4. CASE dropped = "no" /\ StatusCheck
  <2> USE <1>4 DEF StatusCheck, Over, LoginComplete
  <2>1. CASE SendMOTD
    BY <2>1 DEF SendMOTD, StatusPassed, clock, history
  <2>2. CASE SendPing
    BY <2>2 DEF SendPing, StatusPassed, account
  <2>3. CASE PingTimeout
    BY <2>3 DEF PingTimeout, clock, account, history
  <2>4. CASE NothingDue
    BY <2>4 DEF NothingDue, StatusPassed, clock, account, history
  <2> QED
    BY <2>1, <2>2, <2>3, <2>4
<1>5. CASE dropped = "no" /\ LoginCheck
  BY <1>5 DEF LoginCheck, LoginOver, clock, account, history
<1>6. CASE UNCHANGED vars
  BY <1>6 DEF vars, clock, account, history
<1> QED
  BY <1>1, <1>2, <1>3, <1>4, <1>5, <1>6 DEF Next

\* The invariant about answers is kept by every step.
LEMMA AnswerStep == TypeOK /\ Answers /\ [Next]_vars => Answers'
<1> SUFFICES ASSUME TypeOK, Answers, [Next]_vars PROVE Answers'
  OBVIOUS
<1> USE DEF TypeOK, Answers
<1>1. CASE dropped = "no" /\ Tick
  BY <1>1 DEF Tick, clock, account, history
<1>2. ASSUME dropped = "no", NEW line \in Line, PeerSends(line) PROVE Answers'
  BY <1>2 DEF PeerSends, clock, account, Line
<1>3. CASE dropped = "no" /\ Look
  BY <1>3 DEF Look, ReadPong, ReadLogin, ReadOther, PongFlag, clock, account
<1>4. CASE dropped = "no" /\ StatusCheck
  BY <1>4 DEF StatusCheck, SendMOTD, SendPing, PingTimeout, NothingDue,
              StatusPassed, clock, account, history
<1>5. CASE dropped = "no" /\ LoginCheck
  BY <1>5 DEF LoginCheck, LoginOver, clock, account, history
<1>6. CASE UNCHANGED vars
  BY <1>6 DEF vars, clock, account, history
<1> QED
  BY <1>1, <1>2, <1>3, <1>4, <1>5, <1>6 DEF Next

\* IInv is an invariant.
THEOREM Inductive == Spec => []IInv
<1>1. IInv /\ [Next]_vars => IInv'
  BY TypeStep, TimeStep, AnswerStep DEF IInv
<1> QED
  BY InitIInv, <1>1, PTL DEF Spec

-----------------------------------------------------------------------------
\* Every variable keeps its type, for all intervals.
THEOREM TypeCorrect == Spec => []TypeOK
<1>1. IInv => TypeOK
  BY DEF IInv
<1> QED
  BY Inductive, <1>1, PTL

\* A silent peer is dropped after a ping interval, a timeout and three looks
\* at the latest, whatever the intervals are (CheckForConnectionStatus).
THEOREM SilentPeersLeave == Spec => []SilentIsDropped
<1>1. IInv => SilentIsDropped
  BY DEF IInv, TypeOK, Clocks, Checked, Grace, PingBy, SilentIsDropped
<1> QED
  BY Inductive, <1>1, PTL

\* A ping whose answer came alone does not time out, however late it came.
THEOREM AnswersCount == Spec => []AnsweredIsKept
<1>1. IInv => AnsweredIsKept
  BY DEF IInv, Answers, AnsweredIsKept
<1> QED
  BY Inductive, <1>1, PTL

\* A client logs in within the login timeout or is dropped, and only then
\* (CheckForLoginTimeout).
THEOREM LoginInTime == Spec => []LoginDeadline
<1>1. IInv => LoginDeadline
  BY DEF IInv, TypeOK, Clocks, Deadline, Answers, LoginDeadline
<1> QED
  BY Inductive, <1>1, PTL
=============================================================================
