----------------------------- MODULE Keepalive ------------------------------
(***************************************************************************)
(* The clocks of one client: pings, the ping timeout and the login timeout *)
(* (Server_ClientProcess.cpp:333-380 and the PONG branches 110-115 and     *)
(* 262-267).                                                               *)
(*                                                                         *)
(* Time is time(NULL), in seconds; the client connects at second 0.  The   *)
(* loop looks at the client again and again, never more than Lag seconds   *)
(* apart: select() waits for a second at most, and the walk passes over a  *)
(* client in at most one round (ClientWalk).  A look is a ReadClientMessage*)
(* and then the two checks; no time passes in it.                          *)
(*                                                                         *)
(* Of the lines that one recv returns only the first is obeyed             *)
(* (ControlBuffer); the others are lost, and what they said does not count *)
(* as an answer or a login.                                                *)
(***************************************************************************)
EXTENDS Integers

CONSTANTS
  PingInterval, \* "ping-interval"
  Timeout,      \* "timeout-interval"
  LoginWait,    \* "login-timeout"
  Password,     \* is "server-password" set?
  Lag,          \* the longest time between two looks at the client
  MaxTime       \* bound: the clock stops here

ASSUME TimesAssumption ==
  /\ PingInterval \in Nat /\ Timeout \in Nat /\ LoginWait \in Nat
  /\ Lag \in Nat /\ MaxTime \in Nat
ASSUME PasswordAssumption == Password \in BOOLEAN

VARIABLES
  now,          \* time( NULL )
  lastPing,     \* m_tLastPingTime
  pingSent,     \* m_fPingSent
  loggedIn,     \* m_fLoggedin
  motdSent,     \* m_fMOTDSent
  phase,        \* "loop", or the check that comes next
  dropped,      \* "no", or the timeout the client was dropped for
  inbox,        \* the first line that waits to be read
  looked,       \* history: when the loop last looked at the client
  heard,        \* history: when the last PONG was read
  answered,     \* history: a PONG came alone since the last ping
  loginGiven    \* history: all that logging in takes came alone

Line == {"PONG", "login", "other"}

clock   == <<lastPing, pingSent>>
account == <<loggedIn, motdSent>>
history == <<looked, heard, answered, loginGiven>>
vars == <<now, clock, account, phase, dropped, inbox, history>>

-----------------------------------------------------------------------------
(* The world: time and the peer.                                           *)

Tick ==
  /\ phase = "loop"
  /\ now < MaxTime
  /\ now - looked < Lag
  /\ now' = now + 1
  /\ UNCHANGED <<clock, account, phase, dropped, inbox, history>>

\* A line that arrives behind another is never obeyed.
PeerSends(line) ==
  /\ phase = "loop"
  /\ IF inbox = "none"
     THEN /\ inbox' = line
          /\ answered' = (answered \/ line = "PONG")
          /\ loginGiven' = (loginGiven \/ line = "login")
     ELSE UNCHANGED <<inbox, answered, loginGiven>>
  /\ UNCHANGED <<now, clock, account, phase, dropped, looked, heard>>

-----------------------------------------------------------------------------
(* A look: ReadClientMessage, CheckForConnectionStatus, CheckForLoginTimeout *)

\* Variants: a clock set to "never"; SetPingSent left out.
NeverPinged == -1
PingKept == pingSent

PongTime == now
PongFlag == FALSE

\* PONG, before login or after it.
ReadPong ==
  /\ inbox = "PONG"
  /\ pingSent' = PongFlag
  /\ lastPing' = PongTime
  /\ heard' = now
  /\ UNCHANGED <<account, answered, loginGiven>>

\* NICK and PASS: the end of the login branch.
ReadLogin ==
  /\ inbox = "login"
  /\ loggedIn' = TRUE
  /\ UNCHANGED <<clock, motdSent, heard, answered, loginGiven>>

\* Nothing to read, or a line that touches no clock.
ReadOther ==
  /\ inbox \in {"none", "other"}
  /\ UNCHANGED <<clock, account, heard, answered, loginGiven>>

Look ==
  /\ phase = "loop"
  /\ ReadPong \/ ReadLogin \/ ReadOther
  /\ inbox' = "none"
  /\ looked' = now
  /\ phase' = "statusCheck"
  /\ UNCHANGED <<now, dropped>>

\* Variant: the login tail is done in every check.
LoginCompleteAlways == loggedIn

LoginComplete == loggedIn /\ ~motdSent

\* `interval' seconds have passed, and one more.
Over(interval) == lastPing + interval < now

StatusPassed == phase' = "loginCheck" /\ UNCHANGED dropped

\* SendMOTD: the rest of CheckForConnectionStatus waits for the next look.
SendMOTD ==
  /\ LoginComplete
  /\ motdSent' = TRUE
  /\ StatusPassed
  /\ UNCHANGED <<clock, loggedIn, history>>

\* 503.
SendPing ==
  /\ ~LoginComplete
  /\ ~pingSent /\ Over(PingInterval)
  /\ pingSent' = TRUE
  /\ lastPing' = now
  /\ answered' = FALSE
  /\ StatusPassed
  /\ UNCHANGED <<account, looked, heard, loginGiven>>

\* The drop ends the client; on a server with a password the next check then
\* goes through a null pointer (ChatServer).
PingTimeout ==
  /\ ~LoginComplete
  /\ pingSent /\ Over(Timeout)
  /\ dropped' = "pingTimeout"
  /\ phase' = "loop"
  /\ UNCHANGED <<clock, account, history>>

NothingDue ==
  /\ ~LoginComplete
  /\ ~Over(IF pingSent THEN Timeout ELSE PingInterval)
  /\ StatusPassed
  /\ UNCHANGED <<clock, account, history>>

StatusCheck ==
  /\ phase = "statusCheck"
  /\ SendMOTD \/ SendPing \/ PingTimeout \/ NothingDue
  /\ UNCHANGED <<now, inbox>>

\* Variant: the deadline holds whether the client is logged in or not.
LoginOverForAll == Password /\ now > LoginWait

LoginOver == Password /\ ~loggedIn /\ now > LoginWait

LoginCheck ==
  /\ phase = "loginCheck"
  /\ dropped' = IF LoginOver THEN "loginTimeout" ELSE dropped
  /\ phase' = "loop"
  /\ UNCHANGED <<now, clock, account, inbox, history>>

-----------------------------------------------------------------------------
Init ==
  /\ now = 0
  /\ lastPing = 0
  /\ pingSent = FALSE
  /\ loggedIn = FALSE
  /\ motdSent = FALSE
  /\ phase = "loop"
  /\ dropped = "no"
  /\ inbox = "none"
  /\ looked = 0
  /\ heard = 0
  /\ answered = FALSE
  /\ loginGiven = FALSE

Next ==
  /\ dropped = "no"
  /\ \/ Tick
     \/ \E line \in Line : PeerSends(line)
     \/ Look \/ StatusCheck \/ LoginCheck

Spec == Init /\ [][Next]_vars

-----------------------------------------------------------------------------
(* Properties.                                                             *)

\* Every variable keeps its type.
TypeOK ==
  /\ now \in Nat /\ lastPing \in Nat /\ looked \in Nat /\ heard \in Nat
  /\ pingSent \in BOOLEAN /\ answered \in BOOLEAN /\ loginGiven \in BOOLEAN
  /\ loggedIn \in BOOLEAN /\ motdSent \in BOOLEAN
  /\ phase \in {"loop", "statusCheck", "loginCheck"}
  /\ dropped \in {"no", "pingTimeout", "loginTimeout"}
  /\ inbox \in Line \cup {"none"}

\* A peer that stays silent is dropped in time: what a ping, its timeout and
\* three looks take is the longest a client lasts without a PONG, the look
\* that sends the MOTD in place of checking the clock included
\* (CheckForConnectionStatus).
SilentIsDropped ==
  dropped = "no" => now - heard =< PingInterval + Timeout + 3 * Lag

\* A client that answers its ping, however late, while it is still there is
\* not dropped for a ping timeout: the answer is read before the clock is
\* checked.  (An answer that arrives behind another line is lost.)
AnsweredIsKept == dropped = "pingTimeout" => ~answered

\* Nobody stays for longer than the login timeout without logging in, and
\* who has sent nick and password in that time is not dropped for it.
LoginDeadline ==
  /\ Password /\ dropped = "no" /\ ~loggedIn => now =< LoginWait + Lag
  /\ dropped = "loginTimeout" => ~loginGiven

=============================================================================
