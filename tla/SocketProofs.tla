---------------------------- MODULE SocketProofs -----------------------------
(***************************************************************************)
(* Proofs about Socket.tla, for every number of signals.                   *)
(***************************************************************************)
EXTENDS Socket, TLAPS, FiniteSetTheorems, SequenceTheorems


\* A message that came with a signal is still to be sent.
Pending ==
  \/ clientPc \in {"connect", "top", "spin"} /\ message_to_send # "none"
  \/ clientPc = "write"

\* Each COMPTEUR sent, and the message still to be sent, has a signal of its
\* own: message_to_send is cleared at the end of every turn.
SignalInv == asked + (IF Pending THEN 1 ELSE 0) <= signals

\* The places in a stream where a COMPTEUR starts.
Starts(stream) == {i \in 1..Len(stream) : stream[i] = Halves(COMPTEUR)[1]}

\* The server has counted, or may still count, no COMPTEUR that was not sent,
\* however the bytes are cut.
CountInv == counter + Cardinality(Starts(toServer)) <= asked

\* What the client holds while it sends and waits for the answer.
ClientInv ==
  /\ clientPc = "setup" => message_to_send = "none"
  /\ clientPc \in {"write", "answer", "read"} =>
       sendBuff \in Text /\ message_to_send # "none" /\ lastRead = <<>>

\* The answer to what the client sent last.
RightAnswer == [to |-> sendBuff,
                count |-> IF sendBuff = COMPTEUR THEN asked ELSE 0]

\* The server has ended; it answers nothing any more.
Gone == serverPc = "done" /\ toClient = <<>>

\* Nothing is in flight, and the counters of the two sides agree.
Quiet ==
  /\ serverPc \notin {"write", "done"}
  /\ toServer = <<>> /\ toClient = <<>> /\ counter = asked

\* The message is on its way, or waits for accept() or read().
Sent ==
  /\ serverPc \notin {"write", "done"}
  /\ toServer = Halves(sendBuff) /\ toClient = <<>>
  /\ counter + (IF sendBuff = COMPTEUR THEN 1 ELSE 0) = asked

\* The server has read the message and prepared the answer.
Answering ==
  /\ serverPc = "write"
  /\ toServer = <<>> /\ toClient = <<>> /\ counter = asked
  /\ reply = RightAnswer

\* The answer is on its way.
Answered ==
  /\ serverPc = "read"
  /\ toServer = <<>> /\ toClient = Halves(RightAnswer) /\ counter = asked

\* As long as reads are whole, one message is under way, and it is the last
\* one sent or the answer to it; until the client ends.
Conversation ==
  whole =>
    /\ clientPc \in {"setup", "connect", "top", "spin", "write"} =>
         Gone \/ Quiet
    /\ clientPc \in {"answer", "read"} =>
         Gone \/ Sent \/ Answering \/ Answered

\* The inductive invariant.
Inv == /\ TypeOK
       /\ SignalInv
       /\ CountInv
       /\ ClientInv
       /\ Conversation
       /\ RepliesMatch

\* What a read() takes from a stream, and what it leaves.
LEMMA Splits ==
  ASSUME NEW T, NEW stream \in Seq(T), NEW n \in 1..Len(stream)
  PROVE  /\ SubSeq(stream, 1, n) \in Seq(T)
         /\ Len(SubSeq(stream, 1, n)) = n
         /\ \A i \in 1..n : SubSeq(stream, 1, n)[i] = stream[i]
         /\ SubSeq(stream, n + 1, Len(stream)) \in Seq(T)
         /\ Len(SubSeq(stream, n + 1, Len(stream))) = Len(stream) - n
         /\ \A i \in 1..(Len(stream) - n) :
              SubSeq(stream, n + 1, Len(stream))[i] = stream[i + n]
<1>1. Len(stream) \in Nat
  OBVIOUS
<1>2. /\ SubSeq(stream, 1, n) \in Seq(T)
      /\ Len(SubSeq(stream, 1, n)) = n
      /\ \A i \in 1..n : SubSeq(stream, 1, n)[i] = stream[i]
  BY <1>1
<1>3. /\ SubSeq(stream, n + 1, Len(stream)) \in Seq(T)
      /\ Len(SubSeq(stream, n + 1, Len(stream))) = Len(stream) - n
      /\ \A i \in 1..(Len(stream) - n) :
           SubSeq(stream, n + 1, Len(stream))[i] = stream[i + n]
  BY <1>1
<1> QED
  BY <1>2, <1>3

\* The two halves of a message.
LEMMA HalvesOf ==
  ASSUME NEW M, NEW m \in M
  PROVE  /\ Halves(m) \in Seq(HalfOf(M))
         /\ Len(Halves(m)) = 2
         /\ Halves(m)[1] = [of |-> m, half |-> 1]
         /\ Halves(m)[2] = [of |-> m, half |-> 2]
         /\ Head(Halves(m)).of = m
BY DEF Halves, HalfOf

\* What a write() adds to a stream.
LEMMA Sends ==
  ASSUME NEW M, NEW stream \in Seq(HalfOf(M)), NEW m \in M
  PROVE  /\ stream \o Halves(m) \in Seq(HalfOf(M))
         /\ Len(stream \o Halves(m)) = Len(stream) + 2
         /\ \A i \in 1..Len(stream) : (stream \o Halves(m))[i] = stream[i]
         /\ (stream \o Halves(m))[Len(stream) + 1] = Halves(m)[1]
         /\ (stream \o Halves(m))[Len(stream) + 2] = Halves(m)[2]
<1> DEFINE two == Halves(m)
           new == stream \o two
<1>1. two \in Seq(HalfOf(M)) /\ Len(two) = 2
  BY HalvesOf
<1> HIDE DEF two
<1>2. /\ new \in Seq(HalfOf(M)) /\ Len(new) = Len(stream) + 2
      /\ \A i \in 1..(Len(stream) + 2) :
           new[i] = IF i <= Len(stream) THEN stream[i] ELSE two[i - Len(stream)]
  BY <1>1, ConcatProperties
<1>3. Len(stream) \in Nat
  OBVIOUS
<1> HIDE DEF new
<1>4. \A i \in 1..Len(stream) : new[i] = stream[i]
  BY <1>2, <1>3
<1>5. new[Len(stream) + 1] = two[1] /\ new[Len(stream) + 2] = two[2]
  BY <1>2, <1>3
<1> QED
  BY <1>2, <1>4, <1>5 DEF two, new

\* A message written adds a start of COMPTEUR if it is one.
LEMMA StartsOfSent ==
  ASSUME NEW stream \in Seq(HalfOf(Text)), NEW m \in Text
  PROVE  /\ IsFiniteSet(Starts(stream))
         /\ Cardinality(Starts(stream)) \in Nat
         /\ Cardinality(Starts(stream \o Halves(m))) =
              Cardinality(Starts(stream)) + (IF m = COMPTEUR THEN 1 ELSE 0)
<1> DEFINE new == stream \o Halves(m)
<1>1. /\ Len(stream) \in Nat
      /\ Len(new) = Len(stream) + 2
      /\ \A i \in 1..Len(stream) : new[i] = stream[i]
      /\ new[Len(stream) + 1] = Halves(m)[1]
      /\ new[Len(stream) + 2] = Halves(m)[2]
  BY Sends
<1>2. /\ Halves(m)[2] # Halves(COMPTEUR)[1]
      /\ Halves(m)[1] = Halves(COMPTEUR)[1] <=> m = COMPTEUR
  BY DEF Halves
<1> HIDE DEF new
<1>3. \A i \in 1..Len(new) :
        i \in 1..Len(stream) \/ i = Len(stream) + 1 \/ i = Len(stream) + 2
  BY <1>1
<1>4. 1..Len(stream) \subseteq 1..Len(new) /\ Len(stream) + 1 \in 1..Len(new)
      /\ Len(stream) + 1 \notin 1..Len(stream)
  BY <1>1
<1>5. IsFiniteSet(Starts(stream)) /\ Cardinality(Starts(stream)) \in Nat
  <2>1. IsFiniteSet(1..Len(stream))
    BY <1>1, FS_Interval
  <2>2. Starts(stream) \in SUBSET (1..Len(stream))
    BY DEF Starts
  <2> QED
    BY <2>1, <2>2, FS_Subset, FS_CardinalityType
<1>6. CASE m = COMPTEUR
  <2>1. Starts(new) = Starts(stream) \cup {Len(stream) + 1}
    BY <1>1, <1>2, <1>3, <1>4, <1>6 DEF Starts
  <2>2. Len(stream) + 1 \notin Starts(stream)
    BY <1>4 DEF Starts
  <2> QED
    BY <1>5, <1>6, <2>1, <2>2, FS_AddElement DEF new
<1>7. CASE m # COMPTEUR
  <2>1. Starts(new) = Starts(stream)
    BY <1>1, <1>2, <1>3, <1>4, <1>7 DEF Starts
  <2> QED
    BY <1>5, <1>7, <2>1 DEF new
<1> QED
  BY <1>5, <1>6, <1>7

\* A read() that gives exactly COMPTEUR takes one of its starts away; none
\* adds one.
LEMMA StartsOfRest ==
  ASSUME NEW stream \in Seq(HalfOf(Text)), NEW n \in 1..Len(stream)
  PROVE  LET chunk == SubSeq(stream, 1, n)
             rest == SubSeq(stream, n + 1, Len(stream))
         IN Cardinality(Starts(rest))
              + (IF chunk = Halves(COMPTEUR) THEN 1 ELSE 0)
              <= Cardinality(Starts(stream))
<1> DEFINE chunk == SubSeq(stream, 1, n)
           rest == SubSeq(stream, n + 1, Len(stream))
<1>1. /\ \A i \in 1..n : chunk[i] = stream[i]
      /\ rest \in Seq(HalfOf(Text))
      /\ Len(rest) = Len(stream) - n
      /\ \A i \in 1..(Len(stream) - n) : rest[i] = stream[i + n]
  BY Splits
<1>2. Len(stream) \in Nat /\ n \in Nat
  OBVIOUS
<1> HIDE DEF chunk, rest
<1> DEFINE S == Starts(stream)
           R == Starts(rest)
<1>3. IsFiniteSet(S) /\ Cardinality(S) \in Nat
  BY StartsOfSent DEF Text
<1>4. \A i \in R : i + n \in S /\ i + n > n
  BY <1>1, <1>2 DEF Starts
<1>5. chunk = Halves(COMPTEUR) => 1 \in S
  BY <1>1, <1>2 DEF Starts
<1> DEFINE T == IF chunk = Halves(COMPTEUR) THEN S \ {1} ELSE S
           f == [i \in R |-> i + n]
<1>6. R \subseteq Nat
  BY <1>1 DEF Starts
<1>7. \A i \in R : f[i] \in T
  BY <1>2, <1>4, <1>6
<1>8. \A i, j \in R : f[i] = f[j] => i = j
  BY <1>2, <1>6
<1>9. f \in Injection(R, T)
  BY <1>7, <1>8 DEF Injection, IsInjective
<1>10. /\ IsFiniteSet(T)
       /\ Cardinality(T) = IF chunk = Halves(COMPTEUR) THEN Cardinality(S) - 1
                           ELSE Cardinality(S)
  BY <1>3, <1>5, FS_RemoveElement
<1> HIDE DEF f, T
<1>11. IsFiniteSet(R) /\ Cardinality(R) <= Cardinality(T)
  BY <1>9, <1>10, FS_Injection
<1>12. Cardinality(R) \in Nat
  BY <1>11, FS_CardinalityType
<1>13. Cardinality(R) + (IF chunk = Halves(COMPTEUR) THEN 1 ELSE 0)
         <= Cardinality(S)
  BY <1>3, <1>10, <1>11, <1>12
<1> QED
  BY <1>13 DEF chunk, rest

\* A message read whole leaves nothing.
LEMMA ReadsWhole ==
  ASSUME NEW M, NEW m \in M
  PROVE  /\ SubSeq(Halves(m), 1, 2) = Halves(m)
         /\ SubSeq(Halves(m), 3, Len(Halves(m))) = <<>>
<1>1. Halves(m) \in Seq(HalfOf(M)) /\ Len(Halves(m)) = 2
  BY HalvesOf
<1> DEFINE two == Halves(m)
<1> HIDE DEF two
<1>2. two \in Seq(HalfOf(M)) /\ Len(two) = 2
  BY <1>1 DEF two
<1>3. SubSeq(two, 1, 2) = two
  BY <1>2, SubSeqFull
<1>4. SubSeq(two, 3, Len(two)) = <<>>
  <2>1. 2 \in 1..Len(two) /\ 2 + 1 = 3
    BY <1>2
  <2>2. /\ SubSeq(two, 2 + 1, Len(two)) \in Seq(HalfOf(M))
        /\ Len(SubSeq(two, 2 + 1, Len(two))) = 0
    BY <1>2, <2>1, Splits
  <2> QED
    BY <2>1, <2>2, EmptySeq
<1> QED
  BY <1>3, <1>4 DEF two

\* Two messages with the same bytes are the same.
LEMMA Distinct ==
  ASSUME NEW m, NEW t, Halves(m) = Halves(t)
  PROVE  m = t
<1>1. Halves(m)[1].of = Halves(t)[1].of
  OBVIOUS
<1> QED
  BY <1>1 DEF Halves

\* The inductive invariant holds at the start.
LEMMA InitInv == Init => Inv
<1> SUFFICES ASSUME Init PROVE Inv
  OBVIOUS
<1>1. TypeOK
  <2>1. [to |-> "Error", count |-> 0] \in Reply
    BY MaxSignalsAssumption DEF Reply
  <2>2. 0 \in 0..MaxSignals
    BY MaxSignalsAssumption
  <2>3. /\ toServer \in Seq(HalfOf(Text))
        /\ toClient \in Seq(HalfOf(Reply))
        /\ lastRead \in Seq(HalfOf(Reply))
    BY DEF Init
  <2>4. /\ whole \in BOOLEAN /\ hoisted \in BOOLEAN
        /\ greetings \in BOOLEAN /\ running \in BOOLEAN
        /\ connected \in BOOLEAN /\ reset \in BOOLEAN
    BY DEF Init
  <2>5. /\ behind \in {"unused", "greetings", "running"}
        /\ clientPc = "setup" /\ serverPc = "setup"
        /\ message_to_send \in Msg /\ sendBuff = "empty"
        /\ counter = 0 /\ signals = 0 /\ asked = 0
        /\ reply = [to |-> "Error", count |-> 0]
    BY DEF Init, Msg
  <2> QED
    BY <2>1, <2>2, <2>3, <2>4, <2>5 DEF TypeOK
<1>2. CountInv
  <2>1. Starts(toServer) = {}
    BY DEF Init, Starts
  <2>2. Cardinality(Starts(toServer)) = 0
    BY <2>1, FS_EmptySet
  <2>3. counter = 0 /\ asked = 0
    BY DEF Init
  <2> QED
    BY <2>2, <2>3 DEF CountInv
<1>3. SignalInv /\ ClientInv /\ Conversation /\ RepliesMatch
  BY DEF Init, SignalInv, Pending, ClientInv, Conversation, Quiet, RepliesMatch
<1> QED
  BY <1>1, <1>2, <1>3 DEF Inv

\* A handler that runs between any two steps of the client keeps the
\* invariant: it only changes message_to_send.
LEMMA SignalKeeps ==
  ASSUME Inv, NEW msg \in Msg \ {"none"}, Signal(msg)
  PROVE  Inv'
<1> USE DEF Inv, Signal, build, client, server, net
<1>1. TypeOK'
  <2>1. /\ UNCHANGED <<build, client, server, net>>
        /\ message_to_send' \in Msg
        /\ signals' = signals + 1 /\ signals < MaxSignals
    BY DEF Signal
  <2>2. signals' \in 0..MaxSignals
    BY <2>1, MaxSignalsAssumption DEF TypeOK
  <2> QED
    BY <2>1, <2>2 DEF TypeOK
<1>2. SignalInv'
  BY DEF TypeOK, SignalInv, Pending
<1>3. CountInv'
  BY DEF CountInv
<1>4. ClientInv'
  BY DEF ClientInv
<1>5. Conversation'
  BY DEF Conversation, Gone, Quiet, Sent, Answering, Answered, RightAnswer
<1>6. RepliesMatch'
  BY DEF RepliesMatch
<1> QED
  BY <1>1, <1>2, <1>3, <1>4, <1>5, <1>6

\* The first switch always sends one of the four texts.
LEMMA TextForIsText ==
  ASSUME NEW msg \in Msg
  PROVE  TextFor(msg) \in Text
BY DEF TextFor, Text

\* Every step of the client keeps the invariant.
LEMMA ClientKeeps ==
  ASSUME Inv, ClientStep
  PROVE  Inv'
<1> USE DEF Inv, build, client, server, net
<1> USE DEF Conversation, Gone, Quiet, Sent, Answering, Answered, RightAnswer
<1>1. CASE InstallHandlers
  BY <1>1 DEF InstallHandlers, TypeOK, SignalInv, Pending, CountInv, ClientInv,
              RepliesMatch
<1>2. CASE Connect
  BY <1>2 DEF Connect, TypeOK, SignalInv, Pending, CountInv, ClientInv,
              RepliesMatch
<1>3. CASE ConnectError
  BY <1>3 DEF ConnectError, TypeOK, SignalInv, Pending, CountInv, ClientInv,
              RepliesMatch
<1>4. CASE Prepare
  <2>1. TextFor(message_to_send) \in Text
    BY <1>4, TextForIsText DEF TypeOK
  <2>2. TypeOK'
    <3>1. greetings' \in BOOLEAN
      BY <1>4 DEF Prepare, TypeOK
    <3> QED
      BY <1>4, <2>1, <3>1 DEF Prepare, TypeOK
  <2>3. SignalInv' /\ CountInv' /\ ClientInv' /\ RepliesMatch'
    BY <1>4, <2>1
    DEF Prepare, SignalInv, Pending, CountInv, ClientInv, RepliesMatch
  <2>4. Conversation'
    BY <1>4 DEF Prepare
  <2> QED
    BY <2>2, <2>3, <2>4
<1>5. CASE Spin
  BY <1>5 DEF Spin, TypeOK, SignalInv, Pending, CountInv, ClientInv,
              RepliesMatch
<1>6. CASE Write
  <2>1. sendBuff \in Text /\ message_to_send # "none" /\ lastRead = <<>>
    BY <1>6 DEF Write, ClientInv
  <2>2. /\ toServer \in Seq(HalfOf(Text))
        /\ toServer \o Halves(sendBuff) \in Seq(HalfOf(Text))
        /\ IsFiniteSet(Starts(toServer)) /\ Cardinality(Starts(toServer)) \in Nat
        /\ Cardinality(Starts(toServer \o Halves(sendBuff))) =
             Cardinality(Starts(toServer))
               + (IF sendBuff = COMPTEUR THEN 1 ELSE 0)
    BY <2>1, Sends, StartsOfSent DEF TypeOK
  <2>3. SignalInv' /\ asked' \in 0..MaxSignals
    <3>1. /\ clientPc = "write" /\ clientPc' = "answer"
          /\ asked' \in {asked, asked + 1} /\ signals' = signals
      BY <1>6 DEF Write
    <3>2. asked \in Nat /\ signals \in 0..MaxSignals /\ asked + 1 <= signals
      BY <3>1 DEF TypeOK, SignalInv, Pending
    <3>3. asked' \in 0..MaxSignals /\ asked' <= signals'
      BY <3>1, <3>2, MaxSignalsAssumption
    <3>4. ~ Pending'
      BY <3>1 DEF Pending
    <3>5. asked' + 0 <= signals'
      BY <3>3
    <3> QED
      BY <3>3, <3>4, <3>5 DEF SignalInv
  <2>4. TypeOK'
    BY <1>6, <2>2, <2>3 DEF Write, TypeOK
  <2>5. CountInv'
    <3>1. /\ counter \in Nat /\ asked \in Nat
          /\ counter + Cardinality(Starts(toServer)) <= asked
      BY DEF TypeOK, CountInv
    <3>2. /\ counter' = counter
          /\ asked' = asked + (IF sendBuff = COMPTEUR THEN 1 ELSE 0)
          /\ \/ toServer' = toServer
             \/ toServer' = toServer \o Halves(sendBuff)
      BY <1>6, <3>1 DEF Write
    <3>3. \/ Cardinality(Starts(toServer')) = Cardinality(Starts(toServer))
          \/ Cardinality(Starts(toServer')) =
               Cardinality(Starts(toServer))
                 + (IF sendBuff = COMPTEUR THEN 1 ELSE 0)
      BY <2>2, <3>2
    <3>4. counter' + Cardinality(Starts(toServer')) <= asked'
      BY <2>2, <3>1, <3>2, <3>3
    <3> QED
      BY <3>4 DEF CountInv, Starts
  <2>6. ClientInv' /\ RepliesMatch'
    BY <1>6, <2>1 DEF Write, ClientInv, RepliesMatch
  <2>7. Conversation'
    <3>1. Halves(sendBuff) \in Seq(HalfOf(Text))
      BY <2>1, HalvesOf
    <3>2. <<>> \o Halves(sendBuff) = Halves(sendBuff)
      BY <3>1, ConcatEmptySeq
    <3>3. /\ clientPc = "write" /\ clientPc' = "answer"
          /\ whole' = whole /\ sendBuff' = sendBuff /\ toClient' = toClient
          /\ serverPc' = serverPc /\ counter' = counter
          /\ asked' = asked + (IF sendBuff = COMPTEUR THEN 1 ELSE 0)
          /\ serverPc # "done" => toServer' = toServer \o Halves(sendBuff)
      BY <1>6 DEF Write, ServerClosed, TypeOK
    <3>4. counter \in Nat
      BY DEF TypeOK
    <3>5. CASE Gone
      BY <3>3, <3>5
    <3>6. CASE Quiet
      BY <3>2, <3>3, <3>4, <3>6
    <3> QED
      BY <3>3, <3>5, <3>6
  <2> QED
    BY <2>3, <2>4, <2>5, <2>6, <2>7
<1>7. CASE WriteError
  BY <1>7 DEF WriteError, TypeOK, SignalInv, Pending, CountInv, ClientInv,
              RepliesMatch
<1>8. CASE AnswerExpected
  BY <1>8 DEF AnswerExpected, TypeOK, SignalInv, Pending, CountInv, ClientInv,
              RepliesMatch
<1>9. CASE NoAnswer
  <2>1. message_to_send = "QUITING"
    BY <1>9 DEF NoAnswer, HasReply, TypeOK, ClientInv, Msg
  <2>2. clientPc' = "done"
    BY <1>9, <2>1 DEF NoAnswer
  <2> QED
    BY <1>9, <2>2
    DEF NoAnswer, TypeOK, Msg, SignalInv, Pending, CountInv, ClientInv,
        RepliesMatch
<1>10. CASE Read
  <2>1. PICK n \in ReadSize(toClient, BUFFER_LEN) :
          /\ lastRead' = SubSeq(toClient, 1, n)
          /\ toClient' = SubSeq(toClient, n + 1, Len(toClient))
          /\ TerminateString(n)
    BY <1>10 DEF Read
  <2>2. toClient \in Seq(HalfOf(Reply)) /\ Len(toClient) \in Nat
    BY DEF TypeOK
  <2>3. n \in 1..Len(toClient)
    BY <2>2 DEF ReadSize, BUFFER_LEN
  <2>4. lastRead' \in Seq(HalfOf(Reply)) /\ toClient' \in Seq(HalfOf(Reply))
    BY <2>1, <2>2, <2>3, Splits
  <2>5. greetings' \in BOOLEAN /\ running' \in BOOLEAN
    BY <2>1 DEF TerminateString, TypeOK
  <2>6. /\ message_to_send' = "none" /\ clientPc' \in {"top", "done"}
        /\ UNCHANGED <<build, sendBuff, asked, server, connected, toServer,
                       reset, signals>>
        /\ clientPc = "read"
    BY <1>10, <2>5 DEF Read, EndTurn
  <2>7. TypeOK'
    BY <2>4, <2>5, <2>6 DEF TypeOK, Msg
  <2>8. SignalInv' /\ CountInv' /\ ClientInv'
    BY <2>6 DEF TypeOK, SignalInv, Pending, CountInv, ClientInv
  <2>9. ASSUME whole
        PROVE  lastRead' = Halves(RightAnswer) /\ Quiet'
    <3>1. toClient # <<>>
      BY <2>2, <2>3
    <3>2. Answered
      BY <2>6, <2>9, <3>1
    <3>3. toClient = Halves(RightAnswer) /\ Len(toClient) = 2
      BY <3>2 DEF Halves
    <3>4. n = 2
      BY <2>9, <3>3 DEF ReadSize, BUFFER_LEN
    <3>5. lastRead' = Halves(RightAnswer) /\ toClient' = <<>>
      <4>1. /\ SubSeq(Halves(RightAnswer), 1, 2) = Halves(RightAnswer)
            /\ SubSeq(Halves(RightAnswer), 3, Len(Halves(RightAnswer))) = <<>>
        BY ReadsWhole
      <4>2. n + 1 = 3
        BY <3>4
      <4> HIDE DEF RightAnswer
      <4> QED
        BY <2>1, <3>3, <3>4, <4>1, <4>2
    <3> QED
      BY <2>6, <3>2, <3>5
  <2>10. Conversation' /\ RepliesMatch'
    BY <2>6, <2>9 DEF RepliesMatch
  <2> QED
    BY <2>7, <2>8, <2>10
<1>11. CASE ReadEof
  <2>1. greetings' \in BOOLEAN /\ running' \in BOOLEAN
    BY <1>11 DEF ReadEof, TerminateString, TypeOK
  <2>2. TypeOK'
    BY <1>11, <2>1 DEF ReadEof, EndTurn, TypeOK, Msg
  <2>3. SignalInv' /\ CountInv' /\ ClientInv' /\ RepliesMatch'
    BY <1>11
    DEF ReadEof, EndTurn, TypeOK, SignalInv, Pending, CountInv, ClientInv,
        RepliesMatch
  <2>4. Conversation'
    BY <1>11 DEF ReadEof, EndTurn, ServerClosed
  <2> QED
    BY <2>2, <2>3, <2>4
<1>12. CASE ReadError
  BY <1>12
  DEF ReadError, EndTurn, TypeOK, Msg, SignalInv, Pending, CountInv, ClientInv,
      RepliesMatch
<1> QED
  BY <1>1, <1>2, <1>3, <1>4, <1>5, <1>6, <1>7, <1>8, <1>9, <1>10, <1>11, <1>12
  DEF ClientStep

\* What the server answers, and what it counts, after a read().
LEMMA Replies ==
  ASSUME NEW received, counter \in Nat
  PROVE  /\ \A t \in Text : Is(received, t) => ReplyTo(received).to = t
         /\ ReplyTo(received).to \in Text \cup {"Error"}
         /\ ReplyTo(received).count =
              IF Is(received, COMPTEUR) THEN counter + 1 ELSE 0
         /\ ReplyTo(received) = [to |-> ReplyTo(received).to,
                                 count |-> ReplyTo(received).count]
         /\ NextCount(received) =
              counter + (IF received = Halves(COMPTEUR) THEN 1 ELSE 0)
<1>1. ASSUME NEW t \in Text, Is(received, t)
      PROVE  Head(received).of = t
  BY <1>1, HalvesOf DEF Is
<1>2. ReplyTo(received).to = IF \E t \in Text : Is(received, t)
                             THEN Head(received).of ELSE "Error"
  BY DEF ReplyTo
<1>3. ReplyTo(received).count =
        IF Is(received, COMPTEUR) THEN counter + 1 ELSE 0
  BY DEF ReplyTo, NextCount
<1>4. ReplyTo(received) = [to |-> ReplyTo(received).to,
                           count |-> ReplyTo(received).count]
  BY DEF ReplyTo
<1> QED
  BY <1>1, <1>2, <1>3, <1>4 DEF NextCount, Is

\* What follows a read() of the server keeps the types, if the message read
\* was one that was sent.
LEMMA ProcessKeeps ==
  ASSUME TypeOK, NEW received, Process(received),
         counter + (IF received = Halves(COMPTEUR) THEN 1 ELSE 0) <= asked
  PROVE  /\ counter' = counter + (IF received = Halves(COMPTEUR) THEN 1 ELSE 0)
         /\ counter' \in 0..MaxSignals
         /\ reply' \in Reply
         /\ serverPc' \in {"write", "done"}
<1>1. counter' = counter + (IF received = Halves(COMPTEUR) THEN 1 ELSE 0)
  BY Replies DEF Process, TypeOK
<1>2. counter \in Nat /\ asked \in 0..MaxSignals
  BY DEF TypeOK
<1>3. counter' \in 0..MaxSignals
  BY <1>1, <1>2, MaxSignalsAssumption
<1>4. ReplyTo(received).count \in 0..MaxSignals
  BY <1>1, <1>2, <1>3, MaxSignalsAssumption, Replies DEF Is
<1>5. ReplyTo(received) \in Reply
  BY <1>2, <1>4, Replies DEF Reply
<1> QED
  BY <1>1, <1>3, <1>5 DEF Process, AfterRead, TypeOK

\* Every step of the server keeps the invariant.
LEMMA ServerKeeps ==
  ASSUME Inv, ServerStep
  PROVE  Inv'
<1>1. UNCHANGED <<build, client, message_to_send, signals>>
  BY DEF ServerStep, Listen, Accept, ServerSetupError, ServerRead,
         ServerReadEof, ServerReadError, ServerWrite, ServerWriteError, Process
<1>2. SignalInv' /\ ClientInv' /\ RepliesMatch'
  BY <1>1 DEF Inv, build, client, SignalInv, Pending, ClientInv, RepliesMatch
<1>3. CASE \/ Listen \/ Accept \/ ServerSetupError
           \/ ServerReadError \/ ServerWriteError
  <2>1. /\ UNCHANGED <<counter, reply, connected, toServer, toClient, reset>>
        /\ \/ serverPc' = "done"
           \/ /\ serverPc \in {"setup", "accept"}
              /\ serverPc' \in {"accept", "read"}
    BY <1>3 DEF Listen, Accept, ServerSetupError, ServerReadError,
                ServerWriteError, net
  <2>2. serverPc' = "done" =>
          clientPc = "done" \/ serverPc \in {"setup", "accept"}
    BY <1>3 DEF Listen, Accept, ServerSetupError, ServerReadError,
                ServerWriteError, ResetByClient, ClientClosed
  <2>3. TypeOK'
    BY <1>1, <2>1 DEF Inv, TypeOK, build, client
  <2>4. CountInv'
    BY <1>1, <2>1 DEF Inv, CountInv, Starts, client
  <2>5. Conversation'
    BY <1>1, <2>1, <2>2 DEF Inv, Conversation, Gone, Quiet, Sent, Answering,
                            Answered, RightAnswer, build, client
  <2> QED
    BY <1>2, <2>3, <2>4, <2>5 DEF Inv
<1>4. CASE ServerRead
  <2>1. PICK n \in ReadSize(toServer, Len(toServer)) :
          /\ toServer' = SubSeq(toServer, n + 1, Len(toServer))
          /\ Process(SubSeq(toServer, 1, n))
    BY <1>4 DEF ServerRead
  <2>2. toServer \in Seq(HalfOf(Text)) /\ Len(toServer) \in Nat
    BY DEF Inv, TypeOK
  <2>3. n \in 1..Len(toServer) /\ whole => n = Len(toServer)
    BY <2>2 DEF ReadSize
  <2>4. n \in 1..Len(toServer)
    BY <2>2 DEF ReadSize
  <2> DEFINE received == SubSeq(toServer, 1, n)
  <2>5. toServer' \in Seq(HalfOf(Text))
    BY <2>1, <2>2, <2>4, Splits
  <2>6. Cardinality(Starts(toServer'))
          + (IF received = Halves(COMPTEUR) THEN 1 ELSE 0)
          <= Cardinality(Starts(toServer))
    BY <2>1, <2>2, <2>4, StartsOfRest
  <2>7. /\ Cardinality(Starts(toServer)) \in Nat
        /\ Cardinality(Starts(toServer')) \in Nat
    BY <2>2, <2>5, StartsOfSent DEF Text
  <2>8. /\ counter \in Nat /\ asked \in Nat
        /\ counter + Cardinality(Starts(toServer)) <= asked
    BY DEF Inv, TypeOK, CountInv
  <2> HIDE DEF received
  <2>9. counter + (IF received = Halves(COMPTEUR) THEN 1 ELSE 0) <= asked
    BY <2>6, <2>7, <2>8
  <2>10. /\ counter' = counter + (IF received = Halves(COMPTEUR) THEN 1 ELSE 0)
         /\ counter' \in 0..MaxSignals
         /\ reply' \in Reply
         /\ serverPc' \in {"write", "done"}
    BY <2>1, <2>9, ProcessKeeps DEF Inv, received
  <2>11. UNCHANGED <<connected, toClient, reset>>
    BY <2>1 DEF Process
  <2>12. TypeOK'
    BY <1>1, <2>5, <2>10, <2>11 DEF Inv, TypeOK, build, client
  <2>13. CountInv'
    <3>1. counter' + Cardinality(Starts(toServer')) <= asked
      BY <2>6, <2>7, <2>8, <2>10
    <3> QED
      BY <1>1, <3>1 DEF CountInv, Starts, client
  <2>14. Conversation'
    <3>1. serverPc = "read" /\ toServer # <<>>
      BY <1>4, <2>2, <2>4 DEF ServerRead
    <3>2. CASE ~ (whole /\ clientPc \in {"answer", "read"})
      BY <1>1, <3>1, <3>2 DEF Inv, Conversation, Gone, Quiet, build, client
    <3>3. CASE whole /\ clientPc \in {"answer", "read"}
      <4>1. Sent
        BY <3>1, <3>3 DEF Inv, Conversation, Gone, Answering, Answered
      <4>2. sendBuff \in Text
        BY <3>3 DEF Inv, ClientInv
      <4>3. n = 2
        BY <2>2, <2>3, <2>4, <3>3, <4>1 DEF Sent, Halves
      <4>4. received = Halves(sendBuff) /\ toServer' = <<>>
        <5>1. /\ SubSeq(Halves(sendBuff), 1, 2) = Halves(sendBuff)
              /\ SubSeq(Halves(sendBuff), 3, Len(Halves(sendBuff))) = <<>>
          BY <4>2, ReadsWhole
        <5>2. n + 1 = 3 /\ toServer = Halves(sendBuff)
          BY <4>1, <4>3 DEF Sent
        <5> QED
          BY <2>1, <4>3, <5>1, <5>2 DEF received
      <4>5. \A t \in Text : Is(received, t) <=> t = sendBuff
        BY <4>4, Distinct DEF Is
      <4>6. COMPTEUR \in Text /\ QUITTER \in Text
        BY DEF Text
      <4>7. counter' = asked
        <5>1. received = Halves(COMPTEUR) <=> sendBuff = COMPTEUR
          BY <4>4, Distinct
        <5> QED
          BY <2>8, <2>10, <4>1, <5>1 DEF Sent
      <4>8. CASE sendBuff = QUITTER
        <5>1. serverPc' = "done"
          BY <2>1, <4>5, <4>6, <4>8 DEF Process, AfterRead, received
        <5> QED
          BY <1>1, <2>11, <3>3, <4>1, <5>1
          DEF Conversation, Gone, Sent, build, client
      <4>9. CASE sendBuff # QUITTER
        <5>1. serverPc' = "write" /\ reply' = ReplyTo(received)
          BY <2>1, <4>5, <4>6, <4>9 DEF Process, AfterRead, received
        <5>2. /\ ReplyTo(received).to = sendBuff
              /\ ReplyTo(received).count =
                   IF sendBuff = COMPTEUR THEN counter + 1 ELSE 0
              /\ ReplyTo(received) = [to |-> ReplyTo(received).to,
                                      count |-> ReplyTo(received).count]
          BY <2>8, <4>2, <4>5, <4>6, Replies
        <5>3. sendBuff = COMPTEUR => counter + 1 = asked
          BY <4>1 DEF Sent
        <5>4. reply' = [to |-> sendBuff,
                        count |-> IF sendBuff = COMPTEUR THEN asked ELSE 0]
          BY <5>1, <5>2, <5>3
        <5> QED
          BY <1>1, <2>11, <3>3, <4>1, <4>4, <4>7, <5>1, <5>4
          DEF Conversation, Sent, Answering, RightAnswer, build, client
      <4> QED
        BY <4>8, <4>9
    <3> QED
      BY <3>2, <3>3
  <2> QED
    BY <1>2, <2>12, <2>13, <2>14 DEF Inv
<1>5. CASE ServerReadEof
  <2>1. Process(<<>>) /\ clientPc = "done" /\ toServer' = toServer
    BY <1>5 DEF ServerReadEof, ClientClosed
  <2>2. <<>> # Halves(COMPTEUR)
    BY DEF Halves
  <2>3. counter \in Nat /\ asked \in Nat /\ counter <= asked
    <3>1. Cardinality(Starts(toServer)) \in Nat
      BY StartsOfSent DEF Inv, TypeOK, Text
    <3> QED
      BY <3>1 DEF Inv, TypeOK, CountInv
  <2>4. /\ counter' = counter /\ counter' \in 0..MaxSignals
        /\ reply' \in Reply
        /\ serverPc' \in {"write", "done"}
    <3>1. counter + (IF <<>> = Halves(COMPTEUR) THEN 1 ELSE 0) = counter
      BY <2>2, <2>3
    <3> QED
      BY <2>1, <2>3, <3>1, ProcessKeeps DEF Inv
  <2>5. UNCHANGED <<connected, toClient, reset>>
    BY <2>1 DEF Process
  <2>6. TypeOK'
    BY <1>1, <2>1, <2>4, <2>5 DEF Inv, TypeOK, build, client
  <2>7. CountInv'
    BY <1>1, <2>1, <2>4 DEF Inv, CountInv, Starts, client
  <2>8. Conversation'
    BY <1>1, <2>1 DEF Conversation, client
  <2> QED
    BY <1>2, <2>6, <2>7, <2>8 DEF Inv
<1>6. CASE ServerWrite
  <2>1. /\ serverPc = "write" /\ serverPc' = "read"
        /\ UNCHANGED <<counter, reply, connected, toServer>>
        /\ IF ClientClosed THEN reset' = TRUE /\ UNCHANGED toClient
           ELSE toClient' = toClient \o Halves(reply) /\ UNCHANGED reset
    BY <1>6 DEF ServerWrite
  <2>2. toClient \o Halves(reply) \in Seq(HalfOf(Reply))
    BY Sends DEF Inv, TypeOK
  <2>3. TypeOK'
    <3>1. toClient' \in Seq(HalfOf(Reply))
      BY <2>1, <2>2 DEF Inv, TypeOK
    <3>2. reset' \in BOOLEAN
      BY <2>1 DEF Inv, TypeOK
    <3> QED
      BY <1>1, <2>1, <3>1, <3>2 DEF Inv, TypeOK, build, client
  <2>4. CountInv'
    BY <1>1, <2>1 DEF Inv, CountInv, Starts, client
  <2>5. Conversation'
    <3>1. CASE ~ (whole /\ clientPc \in {"answer", "read"})
      BY <1>1, <2>1, <3>1 DEF Inv, Conversation, Gone, Quiet, build, client
    <3>2. CASE whole /\ clientPc \in {"answer", "read"}
      <4>1. Answering
        BY <2>1, <3>2 DEF Inv, Conversation, Gone, Sent, Answered
      <4>2. toClient' = <<>> \o Halves(reply)
        BY <2>1, <3>2, <4>1 DEF ClientClosed, Answering
      <4>3. toClient' = Halves(reply)
        <5>1. Halves(reply) \in Seq(HalfOf(Reply))
          BY HalvesOf DEF Inv, TypeOK
        <5> QED
          BY <4>2, <5>1, ConcatEmptySeq
      <4> QED
        BY <1>1, <2>1, <3>2, <4>1, <4>3
        DEF Conversation, Answering, Answered, RightAnswer, build, client
    <3> QED
      BY <3>1, <3>2
  <2> QED
    BY <1>2, <2>3, <2>4, <2>5 DEF Inv
<1> QED
  BY <1>3, <1>4, <1>5, <1>6 DEF ServerStep

\* Every step keeps the inductive invariant.
LEMMA NextInv == Inv /\ [Next]_vars => Inv'
<1> SUFFICES ASSUME Inv, [Next]_vars PROVE Inv'
  OBVIOUS
<1>1. CASE UNCHANGED vars
  BY <1>1 DEF vars, build, client, server, net, Inv, TypeOK, SignalInv,
              Pending, CountInv, Starts, ClientInv, Conversation, Gone, Quiet,
              Sent, Answering, Answered, RightAnswer, RepliesMatch
<1> QED
  BY <1>1, ClientKeeps, ServerKeeps, SignalKeeps DEF Next

\* The inductive invariant holds in every behaviour, for every number of
\* signals.
THEOREM InvHolds == Spec => []Inv
<1>1. Init => Inv
  BY InitInv
<1>2. Inv /\ [Next]_vars => Inv'
  BY NextInv
<1> QED
  BY <1>1, <1>2, PTL DEF Spec

\* Every variable of client, server and connection keeps its type; in
\* particular the counter, wherever the reads cut the bytes, stays in its range.
THEOREM TypeCorrect == Spec => []TypeOK
<1>1. Inv => TypeOK
  BY DEF Inv
<1> QED
  BY <1>1, InvHolds, PTL

\* Unless a read is cut short, what the client prints is the answer to what it
\* sent, with the number of times it asked for the counter: however many
\* signals come, and wherever in its loop each one changes message_to_send.
THEOREM RepliesAreMatched == Spec => []RepliesMatch
<1>1. Inv => RepliesMatch
  BY DEF Inv
<1> QED
  BY <1>1, InvHolds, PTL

\* However the bytes are cut, the server's ++counter never runs ahead of the
\* client's requests, nor these of the signals.
THEOREM CounterSound == Spec => [](counter <= asked /\ asked <= signals)
<1>1. ASSUME Inv PROVE counter <= asked /\ asked <= signals
  <2>1. Cardinality(Starts(toServer)) \in Nat
    BY <1>1, StartsOfSent DEF Inv, TypeOK, Text
  <2>2. counter \in Nat /\ asked \in Nat /\ signals \in Nat
    BY <1>1 DEF Inv, TypeOK
  <2>3. counter <= asked
    BY <1>1, <2>1, <2>2 DEF Inv, CountInv
  <2>4. asked <= signals
    BY <1>1, <2>2 DEF Inv, SignalInv
  <2> QED
    BY <2>3, <2>4
<1> QED
  BY <1>1, InvHolds, PTL

=============================================================================
