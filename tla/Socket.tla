-------------------------------- MODULE Socket --------------------------------
(***************************************************************************)
(* The client and the server of lab04, the TCP connection between them,    *)
(* and the signals that tell the client what to send.                      *)
(*                                                                         *)
(* A handler only stores in message_to_send, at any point of the client's  *)
(* loop; the loop reads that variable twice per turn and clears it at the  *)
(* end.  The bytes of a message travel as two halves, so that a read() may *)
(* get less than what one write() sent.                                    *)
(*                                                                         *)
(* TCP and the signals are outside the repository: bytes arrive once and   *)
(* in order; once the peer has closed, a write is lost (and resets the     *)
(* connection) or fails, and a read gives 0 or fails.                      *)
(***************************************************************************)
EXTENDS Naturals, Sequences

CONSTANTS MaxSignals   \* bound: signals the client ever gets

ASSUME MaxSignalsAssumption == MaxSignals \in Nat

BONJOUR == "Bonjour"
AUREVOIR == "Aurevoir"
COMPTEUR == "Compteur"
QUITTER == "Quitter"
Text == {BONJOUR, AUREVOIR, COMPTEUR, QUITTER}
Msg == {"none", "GREETING", "COUNTING", "QUITING"}

\* The server always writes its whole buffer, as long as the client's.
BUFFER_LEN == 2

VARIABLES
  whole,      \* the network: every read gets all the bytes that are sent
  hoisted,    \* the build: the idle loop keeps message_to_send in a register
  behind,     \* the build: what lies behind receiveBuff on the client's stack
  clientPc,
  message_to_send,
  greetings,
  running,
  sendBuff,   \* of the client
  serverPc,
  counter,
  reply,      \* sendBuff of the server: what it answers, the counter it gives
  connected,
  toServer,   \* bytes in flight, in halves
  toClient,
  reset,      \* the connection is reset
  signals,    \* how many signals came
  lastRead,   \* the bytes of the client's last read()
  asked       \* how many times the client wrote COMPTEUR

build == <<whole, hoisted, behind>>
client == <<clientPc, greetings, running, sendBuff, lastRead, asked>>
server == <<serverPc, counter, reply>>
net == <<connected, toServer, toClient, reset>>
vars == <<build, client, server, net, message_to_send, signals>>

Reply == [to : Text \cup {"Error"}, count : 0..MaxSignals]

Halves(m) == <<[of |-> m, half |-> 1], [of |-> m, half |-> 2]>>
HalfOf(M) == [of : M, half : {1, 2}]

TypeOK ==
  /\ whole \in BOOLEAN /\ hoisted \in BOOLEAN
  /\ behind \in {"unused", "greetings", "running"}
  /\ clientPc \in {"setup", "connect", "top", "spin", "write", "answer",
                   "read", "done"}
  /\ message_to_send \in Msg
  /\ greetings \in BOOLEAN /\ running \in BOOLEAN
  /\ sendBuff \in Text \cup {"empty"}
  /\ serverPc \in {"setup", "accept", "read", "write", "done"}
  /\ counter \in 0..MaxSignals
  /\ reply \in Reply
  /\ connected \in BOOLEAN /\ reset \in BOOLEAN
  /\ toServer \in Seq(HalfOf(Text))
  /\ toClient \in Seq(HalfOf(Reply))
  /\ lastRead \in Seq(HalfOf(Reply))
  /\ signals \in 0..MaxSignals
  /\ asked \in 0..MaxSignals

Init ==
  /\ whole \in BOOLEAN /\ hoisted \in BOOLEAN
  /\ behind \in {"unused", "greetings", "running"}
  /\ clientPc = "setup"
  /\ message_to_send = "none"
  /\ greetings = TRUE /\ running = TRUE
  /\ sendBuff = "empty"
  /\ serverPc = "setup"
  /\ counter = 0
  /\ reply = [to |-> "Error", count |-> 0]
  /\ connected = FALSE /\ reset = FALSE
  /\ toServer = <<>> /\ toClient = <<>> /\ lastRead = <<>>
  /\ signals = 0 /\ asked = 0

ClientClosed == connected /\ clientPc = "done"
ServerClosed == serverPc = "done"

\* The connection is reset by a write to a closed end, or because an end was
\* closed with bytes unread.
ResetByServer == ServerClosed /\ (reset \/ toServer # <<>>)
ResetByClient == ClientClosed /\ (reset \/ toClient # <<>>)

\* How many halves a read() of a buffer for cap halves may get of a stream.
ReadSize(stream, cap) ==
  LET most == IF Len(stream) < cap THEN Len(stream) ELSE cap
  IN IF most = 0 THEN {} ELSE IF whole THEN {most} ELSE 1..most

-----------------------------------------------------------------------------
(* The client *)

\* The handlers: SIGUSR1, SIGUSR2 and SIGINT.
Signal(msg) ==
  /\ clientPc \notin {"setup", "done"}
  /\ signals < MaxSignals
  /\ message_to_send' = msg
  /\ signals' = signals + 1
  /\ UNCHANGED <<build, client, server, net>>

\* main() of the client, up to the calls of signal().
InstallHandlers ==
  /\ clientPc = "setup"
  /\ clientPc' = "connect"
  /\ UNCHANGED <<build, greetings, running, sendBuff, lastRead, asked,
                 server, net, message_to_send, signals>>

Connect ==
  /\ clientPc = "connect"
  /\ serverPc # "setup" /\ ~ServerClosed
  /\ clientPc' = "top"
  /\ connected' = TRUE
  /\ UNCHANGED <<build, greetings, running, sendBuff, lastRead, asked,
                 server, toServer, toClient, reset, message_to_send, signals>>

\* handle_error(): nobody listens, or the network fails.
ConnectError ==
  /\ clientPc = "connect"
  /\ clientPc' = "done"
  /\ UNCHANGED <<build, greetings, running, sendBuff, lastRead, asked,
                 server, net, message_to_send, signals>>

\* The text the first switch puts in sendBuff.
TextFor(msg) ==
  IF msg = "GREETING" THEN (IF greetings THEN BONJOUR ELSE AUREVOIR)
  ELSE IF msg = "COUNTING" THEN COMPTEUR ELSE QUITTER

\* The first switch.
Prepare ==
  /\ clientPc = "top"
  /\ message_to_send # "none"
  /\ sendBuff' = TextFor(message_to_send)
  /\ greetings' = IF message_to_send = "GREETING" THEN ~greetings ELSE greetings
  /\ lastRead' = <<>>
  /\ clientPc' = "write"
  /\ UNCHANGED <<build, running, asked, server, net, message_to_send,
                 signals>>

\* message_to_send is not volatile and the idle loop calls nothing: a compiler
\* may read it once.
Spin ==
  /\ hoisted
  /\ clientPc = "top"
  /\ message_to_send = "none"
  /\ clientPc' = "spin"
  /\ UNCHANGED <<build, greetings, running, sendBuff, lastRead, asked,
                 server, net, message_to_send, signals>>

Write ==
  /\ clientPc = "write"
  /\ ~reset
  /\ IF ServerClosed THEN reset' = TRUE /\ UNCHANGED toServer
     ELSE toServer' = toServer \o Halves(sendBuff) /\ UNCHANGED reset
  /\ asked' = IF sendBuff = COMPTEUR THEN asked + 1 ELSE asked
  /\ clientPc' = "answer"
  /\ UNCHANGED <<build, greetings, running, sendBuff, lastRead, server,
                 connected, toClient, message_to_send, signals>>

WriteError ==
  /\ clientPc = "write"
  /\ ResetByServer
  /\ clientPc' = "done"
  /\ UNCHANGED <<build, greetings, running, sendBuff, lastRead, asked,
                 server, net, message_to_send, signals>>

\* Mutant: the second switch has no case COUNTING.
OnlyGreetings(msg) == msg = "GREETING"

\* The second switch reads a reply after these.
HasReply(msg) == msg \in {"GREETING", "COUNTING"}

\* The second switch, on the value message_to_send has by now.
AnswerExpected ==
  /\ clientPc = "answer"
  /\ HasReply(message_to_send)
  /\ clientPc' = "read"
  /\ UNCHANGED <<build, greetings, running, sendBuff, lastRead, asked,
                 server, net, message_to_send, signals>>

NoAnswer ==
  /\ clientPc = "answer"
  /\ ~HasReply(message_to_send)
  /\ running' = (message_to_send # "QUITING")
  /\ message_to_send' = "none"
  /\ clientPc' = IF running' THEN "top" ELSE "done"
  /\ UNCHANGED <<build, greetings, sendBuff, lastRead, asked, server, net,
                 signals>>

\* The end of a turn: message_to_send = 0, and the test of the loop.
EndTurn ==
  /\ message_to_send' = "none"
  /\ clientPc' = IF running' THEN "top" ELSE "done"

\* receiveBuff[n] = 0 clears the byte behind the buffer when n = BUFFER_LEN.
TerminateString(n) ==
  /\ greetings' = (greetings /\ ~(n = BUFFER_LEN /\ behind = "greetings"))
  /\ running' = (running /\ ~(n = BUFFER_LEN /\ behind = "running"))

Read ==
  /\ clientPc = "read"
  /\ \E n \in ReadSize(toClient, BUFFER_LEN) :
       /\ lastRead' = SubSeq(toClient, 1, n)
       /\ toClient' = SubSeq(toClient, n + 1, Len(toClient))
       /\ TerminateString(n)
  /\ EndTurn
  /\ UNCHANGED <<build, sendBuff, asked, server, connected, toServer, reset,
                 signals>>

\* read() gives 0: the client prints an empty line and goes on.
ReadEof ==
  /\ clientPc = "read"
  /\ ServerClosed /\ toClient = <<>> /\ ~reset
  /\ lastRead' = <<>>
  /\ TerminateString(0)
  /\ EndTurn
  /\ UNCHANGED <<build, sendBuff, asked, server, net, signals>>

ReadError ==
  /\ clientPc = "read"
  /\ ResetByServer
  /\ running' = FALSE
  /\ EndTurn
  /\ UNCHANGED <<build, greetings, sendBuff, lastRead, asked, server, net,
                 signals>>

-----------------------------------------------------------------------------
(* The server *)

\* socket(), bind() and listen().
Listen ==
  /\ serverPc = "setup"
  /\ serverPc' = "accept"
  /\ UNCHANGED <<build, client, counter, reply, net, message_to_send, signals>>

Accept ==
  /\ serverPc = "accept"
  /\ connected
  /\ serverPc' = "read"
  /\ UNCHANGED <<build, client, counter, reply, net, message_to_send, signals>>

\* handle_error() before the connection, or accept() fails.
ServerSetupError ==
  /\ serverPc \in {"setup", "accept"}
  /\ serverPc' = "done"
  /\ UNCHANGED <<build, client, counter, reply, net, message_to_send, signals>>

\* strcmp(receiveBuff, text) == 0
Is(received, text) == received = Halves(text)

\* Mutant: the counter moves before the message is looked at.
CountsAll(received) == counter + 1

\* ++counter, for COMPTEUR only.
NextCount(received) == IF Is(received, COMPTEUR) THEN counter + 1 ELSE counter

\* Mutant: nothing is answered to a message that is not known.
IgnoreUnknown(received) ==
  IF Is(received, QUITTER) THEN "done"
  ELSE IF \E t \in Text : Is(received, t) THEN "write" ELSE "read"

\* Everything but QUITTER is answered, if only with "Error".
AfterRead(received) == IF Is(received, QUITTER) THEN "done" ELSE "write"

ReplyTo(received) ==
  [to |-> IF \E t \in Text : Is(received, t) THEN Head(received).of ELSE "Error",
   count |-> IF Is(received, COMPTEUR) THEN NextCount(received) ELSE 0]

\* What follows a read() of the server.
Process(received) ==
  /\ counter' = NextCount(received)
  /\ reply' = IF Is(received, QUITTER) THEN reply ELSE ReplyTo(received)
  /\ serverPc' = AfterRead(received)
  /\ UNCHANGED <<build, client, message_to_send, signals, connected, toClient,
                 reset>>

ServerRead ==
  /\ serverPc = "read"
  /\ \E n \in ReadSize(toServer, Len(toServer)) :
       /\ toServer' = SubSeq(toServer, n + 1, Len(toServer))
       /\ Process(SubSeq(toServer, 1, n))

\* read() gives 0: the server takes it for an unknown message.
ServerReadEof ==
  /\ serverPc = "read"
  /\ ClientClosed /\ toServer = <<>> /\ ~reset
  /\ Process(<<>>)
  /\ UNCHANGED toServer

ServerReadError ==
  /\ serverPc = "read"
  /\ ResetByClient
  /\ serverPc' = "done"
  /\ UNCHANGED <<build, client, counter, reply, net, message_to_send, signals>>

ServerWrite ==
  /\ serverPc = "write"
  /\ ~reset
  /\ IF ClientClosed THEN reset' = TRUE /\ UNCHANGED toClient
     ELSE toClient' = toClient \o Halves(reply) /\ UNCHANGED reset
  /\ serverPc' = "read"
  /\ UNCHANGED <<build, client, counter, reply, connected, toServer,
                 message_to_send, signals>>

ServerWriteError ==
  /\ serverPc = "write"
  /\ ResetByClient
  /\ serverPc' = "done"
  /\ UNCHANGED <<build, client, counter, reply, net, message_to_send, signals>>

-----------------------------------------------------------------------------

ClientStep ==
  \/ InstallHandlers \/ Connect \/ ConnectError \/ Prepare \/ Spin \/ Write
  \/ WriteError \/ AnswerExpected \/ NoAnswer \/ Read \/ ReadEof \/ ReadError

ServerStep ==
  \/ Listen \/ Accept \/ ServerSetupError \/ ServerRead \/ ServerReadEof
  \/ ServerReadError \/ ServerWrite \/ ServerWriteError

Next ==
  \/ ClientStep
  \/ ServerStep
  \/ \E msg \in Msg \ {"none"} : Signal(msg)

\* Two processes that the system schedules, and a network that delivers.
Spec == Init /\ [][Next]_vars /\ WF_vars(ClientStep) /\ WF_vars(ServerStep)

-----------------------------------------------------------------------------
(* Properties *)

\* As long as reads are not cut short, what the client prints answers what it
\* sent: the reply names its message, and the counter is the number of times
\* the client asked for it, whatever signals came meanwhile.
RepliesMatch ==
  whole /\ lastRead # <<>> =>
    lastRead = Halves([to |-> sendBuff,
                       count |-> IF sendBuff = COMPTEUR THEN asked ELSE 0])

\* The client never stays in read(): the server answers everything it does
\* not know how to answer with "Error", or closes.
ReadReturns == clientPc = "read" ~> clientPc # "read"

\* The server ends once the client is gone, QUITTER received or not.
ServerEnds == ClientClosed ~> ServerClosed

=============================================================================
