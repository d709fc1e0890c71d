------------------------- MODULE PacketReaderProofs -------------------------
(***************************************************************************)
(* Proofs about what arrives from a peer. First about PacketReader, for    *)
(* every size of the length field, every set of packet sizes and every     *)
(* number of packets: the observer gets what the peer sent, and the reader *)
(* knows where it is in the stream. Then about Mixer, for any calls and    *)
(* lengths of queues: which frames of audio are sent to whom. Last about   *)
(* Calls, for any nodes and calls: the two ends of a call agree.           *)
(*                                                                         *)
(* The inductive invariant says what the code keeps in mind between two    *)
(* reads: performRead is on the stack at most once, the packets lie in the *)
(* stream one after the other, and expected, inPacket and the bytes read   *)
(* agree with the number of packets handed over.                           *)
(***************************************************************************)
EXTENDS PacketReader, Mixer, Calls, SequenceLemmas, FiniteSetTheorems, TLAPS

\* performRead is never active twice, and only within readLoop.
CallsInv == /\ callStack \in {<<>>, <<"loop">>, <<"events">>}
            /\ reading <=> callStack # <<>>
            /\ phase # "events" => callStack = <<>>

\* The packets of the stream.
StreamInv ==
    /\ \A i \in 1..Len(sent) : /\ sent[i].from = EndOfPackets(i - 1) + HeaderSize
                               /\ sent[i].size \in PacketSizes
    /\ \A i, j \in 1..Len(sent) : i < j => EndOf(sent[i]) < sent[j].from
    /\ arrived <= EndOfPackets(Len(sent))

\* What has been handed over while the connection is good.
HandedInv ==
    /\ Len(handed) <= Len(sent)
    /\ \A i \in 1..Len(handed) : handed[i] = sent[i]

\* Between packets.
BetweenPackets ==
    /\ packet.expected = 0
    /\ packet.size = 0
    /\ callStack # <<"events">>
    /\ consumed = EndOfPackets(Len(handed))

\* In a packet, which may have been read past its end.
InPacket ==
    /\ packet.expected > 0
    /\ packet.inPacket # packet.expected
    /\ packet.inPacket = packet.size
    /\ callStack # <<"events">>
    /\ Len(handed) < Len(sent)
    /\ packet.expected = sent[Len(handed) + 1].size
    /\ consumed = sent[Len(handed) + 1].from + packet.size
    /\ packet.size > 0 => packet.from = sent[Len(handed) + 1].from

\* The observer has taken a packet and its events are being processed.
PacketTaken ==
    /\ packet.expected > 0
    /\ packet.inPacket = packet.expected
    /\ callStack = <<"events">>
    /\ consumed = EndOfPackets(Len(handed))

ConnectionInv ==
    IF socket = "aborted"
    THEN /\ consumed = arrived
         /\ callStack # <<"events">>
         /\ DeliveredInOrder
    ELSE /\ HandedInv
         /\ BetweenPackets \/ InPacket \/ PacketTaken

Inv == TypeOK /\ CallsInv /\ StreamInv /\ ConnectionInv

-----------------------------------------------------------------------------
(* The stack of calls has at most one element.                             *)

\* What the operators on the stack of calls do to the three stacks there
\* are: performRead is called, runs events, returns to its loop, returns.
LEMMA CallsLemma ==
    /\ Append(<<>>, "loop") = <<"loop">>
    /\ Last(<<"loop">>) = "loop"
    /\ Last(<<"events">>) = "events"
    /\ Front(<<"loop">>) = <<>>
    /\ [<<"loop">> EXCEPT ![Len(<<"loop">>)] = "events"] = <<"events">>
    /\ [<<"events">> EXCEPT ![Len(<<"events">>)] = "loop"] = <<"loop">>
    /\ <<"loop">> # <<>> /\ <<"events">> # <<>> /\ <<"loop">> # <<"events">>
<1>1. Append(<<>>, "loop") = <<"loop">>
  OBVIOUS
<1>2. Last(<<"loop">>) = "loop" /\ Last(<<"events">>) = "events"
  BY DEF Last
<1>3. Front(<<"loop">>) = <<>>
  BY DEF Front
<1>4. [<<"loop">> EXCEPT ![Len(<<"loop">>)] = "events"] = <<"events">>
  OBVIOUS
<1>5. [<<"events">> EXCEPT ![Len(<<"events">>)] = "loop"] = <<"loop">>
  OBVIOUS
<1>6. <<"loop">> # <<>> /\ <<"events">> # <<>> /\ <<"loop">> # <<"events">>
  OBVIOUS
<1>7. QED
  BY <1>1, <1>2, <1>3, <1>4, <1>5, <1>6

\* What there is to know of a packet in a sequence of packets, and of the
\* end of the first n packets of the stream.
LEMMA FrameTypes ==
  ASSUME NEW s \in Seq(Frame), NEW i \in 1..Len(s)
  PROVE  s[i].from \in Nat /\ s[i].size \in Nat /\ EndOf(s[i]) \in Nat
<1>1. s[i] \in Frame
  OBVIOUS
<1>2. QED
  BY <1>1 DEF Frame, EndOf

\* The first n packets of the stream end somewhere.
LEMMA EndTypes ==
  ASSUME sent \in Seq(Frame), NEW n \in 0..Len(sent)
  PROVE  EndOfPackets(n) \in Nat
BY FrameTypes DEF EndOfPackets

\* Initially nothing has been sent or read.
LEMMA InitInv == Init => Inv
<1> SUFFICES ASSUME Init PROVE Inv
  OBVIOUS
<1> USE DEF Init
<1>1. TypeOK
  <2>1. <<>> \in Seq(Frame) /\ <<>> \in Seq({"loop", "events"})
    OBVIOUS
  <2>2. NoPacket \in Packet
    BY DEF Packet, NoPacket
  <2>3. needsToRun \in BOOLEAN /\ reading \in BOOLEAN
    OBVIOUS
  <2>4. 0 \in 0..0
    OBVIOUS
  <2>5. QED
    BY <2>1, <2>2, <2>3, <2>4, Zenon DEF TypeOK
<1>2. CallsInv
  BY DEF CallsInv
<1>3. StreamInv
  BY DEF StreamInv, EndOfPackets
<1>4. ConnectionInv
  BY CallsLemma DEF ConnectionInv, HandedInv, BetweenPackets, NoPacket, EndOfPackets
<1>5. QED
  BY <1>1, <1>2, <1>3, <1>4 DEF Inv

-----------------------------------------------------------------------------
(* Steps outside performRead.                                              *)

\* The peer writes a packet: it lies behind all the others.
LEMMA WritePacketInv ==
  ASSUME Inv, NEW size \in PacketSizes, WritePacket(size)
  PROVE  Inv'
<1> DEFINE n     == Len(sent)
           frame == [from |-> EndOfPackets(n) + HeaderSize, size |-> size]
<1> USE SizeAssumption
<1>1. sent \in Seq(Frame) /\ n \in Nat /\ Len(handed) \in Nat
  BY DEF Inv, TypeOK
<1>2. EndOfPackets(n) \in Nat
  BY <1>1, EndTypes
<1>3. frame \in Frame /\ frame.from = EndOfPackets(n) + HeaderSize /\ frame.size = size
  BY <1>2 DEF Frame
<1>4. sent' = Append(sent, frame)
  BY DEF WritePacket
<1>5. Len(sent') = n + 1 /\ sent'[n + 1] = frame /\ \A i \in 1..n : sent'[i] = sent[i]
  BY <1>1, <1>3, <1>4
<1>6. \A i \in 0..n : EndOfPackets(i)' = EndOfPackets(i)
  BY <1>1, <1>5 DEF EndOfPackets
<1>7. EndOfPackets(Len(sent))' = EndOfPackets(n) + HeaderSize + size
  <2>1. EndOfPackets(Len(sent))' = EndOf(sent'[n + 1])
    BY <1>1, <1>5 DEF EndOfPackets
  <2>2. EndOf(frame) = EndOfPackets(n) + HeaderSize + size
    BY <1>3 DEF EndOf
  <2>3. QED
    BY <1>5, <2>1, <2>2
<1>8. TypeOK'
  BY <1>1, <1>3, <1>4 DEF Inv, TypeOK, WritePacket, readerVars
<1>9. CallsInv'
  BY DEF Inv, CallsInv, WritePacket, readerVars
<1>10. StreamInv'
  <2>1. ASSUME NEW i \in 1..Len(sent')
        PROVE  sent'[i].from = EndOfPackets(i - 1)' + HeaderSize /\ sent'[i].size \in PacketSizes
    <3>1. CASE i \in 1..n
      BY <1>1, <1>5, <1>6, <3>1 DEF Inv, StreamInv
    <3>2. CASE i = n + 1
      BY <1>1, <1>3, <1>5, <1>6, <3>2
    <3>3. QED
      BY <1>1, <1>5, <2>1, <3>1, <3>2
  <2>2. ASSUME NEW i \in 1..n
        PROVE  EndOf(sent[i]) <= EndOfPackets(n)
    <3>1. CASE i = n
      BY <1>1, <1>2, <3>1 DEF EndOfPackets
    <3>2. CASE i < n
      <4>1. n \in 1..n /\ EndOf(sent[i]) < sent[n].from
        BY <1>1, <3>2 DEF Inv, StreamInv
      <4>2. EndOf(sent[i]) \in Nat /\ sent[n].from \in Nat /\ sent[n].size \in Nat
        BY <1>1, <4>1, FrameTypes
      <4>3. EndOfPackets(n) = sent[n].from + sent[n].size
        BY <1>1, <4>1 DEF EndOfPackets, EndOf
      <4>4. QED
        BY <4>1, <4>2, <4>3
    <3>3. QED
      BY <1>1, <3>1, <3>2
  <2>3. ASSUME NEW i \in 1..Len(sent'), NEW j \in 1..Len(sent'), i < j
        PROVE  EndOf(sent'[i]) < sent'[j].from
    <3>1. CASE j \in 1..n
      BY <1>1, <1>5, <2>3, <3>1 DEF Inv, StreamInv
    <3>2. CASE j = n + 1
      <4>1. i \in 1..n
        BY <1>1, <2>3, <3>2
      <4>2. EndOf(sent[i]) \in Nat
        BY <1>1, <4>1, FrameTypes
      <4>3. QED
        BY <1>2, <1>3, <1>5, <2>2, <3>2, <4>1, <4>2
    <3>3. j \in 1..n \/ j = n + 1
      BY <1>1, <1>5, <2>3
    <3>4. QED
      BY <3>1, <3>2, <3>3
  <2>4. arrived' <= EndOfPackets(Len(sent))'
    <3>1. arrived \in Nat /\ arrived <= EndOfPackets(n) /\ arrived' = arrived
      BY DEF Inv, TypeOK, StreamInv, WritePacket
    <3>2. QED
      BY <1>2, <1>7, <3>1
  <2>5. QED
    BY <2>1, <2>3, <2>4 DEF StreamInv
<1>11. ConnectionInv'
  <2>1. UNCHANGED <<consumed, socket, readerVars>> /\ socket # "aborted"
    BY DEF WritePacket
  <2>2. HandedInv
    BY <2>1 DEF Inv, ConnectionInv
  <2>3. HandedInv'
    BY <1>1, <1>5, <2>1, <2>2 DEF HandedInv, readerVars
  <2>4. EndOfPackets(Len(handed))' = EndOfPackets(Len(handed))
    BY <1>1, <1>6, <2>1, <2>2 DEF HandedInv, readerVars
  <2>5. ASSUME BetweenPackets PROVE BetweenPackets'
    BY <2>1, <2>4, <2>5 DEF BetweenPackets, readerVars
  <2>6. ASSUME InPacket PROVE InPacket'
    BY <1>1, <1>5, <2>1, <2>6 DEF InPacket, readerVars
  <2>7. ASSUME PacketTaken PROVE PacketTaken'
    BY <2>1, <2>4, <2>7 DEF PacketTaken, readerVars
  <2>8. QED
    BY <2>1, <2>3, <2>5, <2>6, <2>7 DEF Inv, ConnectionInv
<1>12. QED
  BY <1>8, <1>9, <1>10, <1>11 DEF Inv

\* More bytes arrive: performRead is called, but never within itself.
LEMMA ArriveInv ==
  ASSUME Inv, NEW n \in Nat, Arrive(n)
  PROVE  Inv'
<1>1. callStack' \in {<<>>, <<"loop">>, <<"events">>} /\ (reading' <=> callStack' # <<>>)
  BY CallsLemma DEF Inv, CallsInv, Arrive, ReadyRead
<1>2. TypeOK'
  <2>1. callStack' \in Seq({"loop", "events"}) /\ reading' \in BOOLEAN
    <3>1. reading' \in BOOLEAN
      BY DEF Inv, TypeOK, Arrive, ReadyRead
    <3>2. /\ <<>> \in Seq({"loop", "events"})
          /\ <<"loop">> \in Seq({"loop", "events"})
          /\ <<"events">> \in Seq({"loop", "events"})
      OBVIOUS
    <3>3. QED
      BY <1>1, <3>1, <3>2
  <2>2. QED
    BY <2>1 DEF Inv, TypeOK, Arrive
<1>3. CallsInv'
  <2>1. phase' # "events" => callStack' = <<>>
    BY DEF Inv, CallsInv, TypeOK, Arrive, ReadyRead, ProcessesEvents
  <2>2. QED
    BY <1>1, <2>1 DEF CallsInv
<1>4. StreamInv'
  BY DEF Inv, StreamInv, Arrive, EndOfPackets
<1>5. ConnectionInv'
  <2>1. callStack = <<"events">> <=> callStack' = <<"events">>
    BY CallsLemma DEF Inv, CallsInv, Arrive, ReadyRead
  <2>2. socket # "aborted" /\ UNCHANGED <<sent, consumed, socket, packet, handed>>
    BY DEF Arrive
  <2>3. EndOfPackets(Len(handed))' = EndOfPackets(Len(handed))
    BY <2>2 DEF EndOfPackets
  <2>4. QED
    BY <2>1, <2>2, <2>3
       DEF Inv, ConnectionInv, HandedInv, BetweenPackets, InPacket, PacketTaken
<1>6. QED
  BY <1>2, <1>3, <1>4, <1>5 DEF Inv

\* Steps that touch neither the reader nor the stream: the connection is
\* closed, or goes on, and only an abort throws bytes away.
LEMMA QuietStepInv ==
  ASSUME Inv, TypeOK', UNCHANGED <<sent, consumed, readerVars>>,
         phase' # "events" => callStack = <<>>,
         \/ UNCHANGED <<arrived, socket>>
         \/ UNCHANGED arrived /\ socket # "aborted" /\ socket' = "disconnected"
         \/ arrived' = consumed /\ socket' = "aborted" /\ callStack = <<>>
  PROVE  Inv'
<1> USE DEF readerVars
<1>1. CallsInv'
  BY DEF Inv, CallsInv
<1>2. \A i : EndOfPackets(i)' = EndOfPackets(i)
  BY DEF EndOfPackets
<1>3. StreamInv'
  <2>1. arrived' <= EndOfPackets(Len(sent))
    <3>1. CASE arrived' = arrived
      BY <3>1 DEF Inv, StreamInv
    <3>2. CASE arrived' = consumed
      <4>1. EndOfPackets(Len(sent)) \in Nat
        BY EndTypes DEF Inv, TypeOK
      <4>2. QED
        BY <3>2, <4>1 DEF Inv, TypeOK, StreamInv
    <3>3. QED
      BY <3>1, <3>2
  <2>2. QED
    BY <1>2, <2>1 DEF Inv, StreamInv
<1>4. ConnectionInv'
  <2>1. CASE UNCHANGED <<arrived, socket>>
    BY <1>2, <2>1 DEF Inv, ConnectionInv, HandedInv, BetweenPackets, InPacket,
                      PacketTaken, DeliveredInOrder
  <2>2. CASE UNCHANGED arrived /\ socket # "aborted" /\ socket' = "disconnected"
    BY <1>2, <2>2 DEF Inv, ConnectionInv, HandedInv, BetweenPackets, InPacket, PacketTaken
  <2>3. CASE arrived' = consumed /\ socket' = "aborted" /\ callStack = <<>>
    <3>1. DeliveredInOrder'
      <4>1. CASE socket = "aborted"
        BY <2>3, <4>1 DEF Inv, ConnectionInv, DeliveredInOrder
      <4>2. CASE socket # "aborted"
        BY <2>3, <4>2 DEF Inv, TypeOK, ConnectionInv, HandedInv, DeliveredInOrder
      <4>3. QED
        BY <4>1, <4>2
    <3>2. QED
      BY <2>3, <3>1, CallsLemma DEF ConnectionInv
  <2>4. QED
    BY <2>1, <2>2, <2>3
<1>5. QED
  BY <1>1, <1>3, <1>4 DEF Inv

-----------------------------------------------------------------------------
(* Steps of performRead.                                                   *)

\* The length read in a turn that reads one is that of the packet after the
\* last one handed over.
LEMMA HeaderLemma ==
  ASSUME Inv, socket # "aborted", ReadsHeader, NEW header \in HeaderValues
  PROVE  /\ Len(handed) < Len(sent)
         /\ header = sent[Len(handed) + 1].size
         /\ consumed + HeaderSize = sent[Len(handed) + 1].from
<1> DEFINE k == Len(handed)
           n == Len(sent)
<1>1. /\ sent \in Seq(Frame) /\ k \in Nat /\ n \in Nat
      /\ HeaderSize \in Nat \ {0} /\ arrived \in Nat /\ consumed \in Nat
  BY SizeAssumption DEF Inv, TypeOK
<1>2. BetweenPackets /\ k <= n
  BY DEF Inv, ConnectionInv, HandedInv, ReadsHeader, InPacket, PacketTaken
<1>3. consumed = EndOfPackets(k) /\ arrived - consumed >= HeaderSize
  BY <1>2 DEF BetweenPackets, ReadsHeader, Available
<1>4. arrived <= EndOfPackets(n) /\ EndOfPackets(n) \in Nat
  BY <1>1, EndTypes DEF Inv, StreamInv
<1>5. k < n
  <2>1. k # n
    BY <1>1, <1>3, <1>4
  <2>2. QED
    BY <1>1, <1>2, <2>1
<1>6. k + 1 \in 1..n
  BY <1>1, <1>5
<1>7. sent[k + 1].from = consumed + HeaderSize
  <2>1. sent[k + 1].from = EndOfPackets((k + 1) - 1) + HeaderSize
    BY <1>6 DEF Inv, StreamInv
  <2>2. (k + 1) - 1 = k
    BY <1>1
  <2>3. QED
    BY <1>3, <2>1, <2>2
<1>8. ASSUME NEW i \in 1..n, sent[i].from = consumed + HeaderSize
      PROVE  i = k + 1
  <2>1. /\ sent[i].from \in Nat /\ EndOf(sent[i]) \in Nat /\ sent[i].from <= EndOf(sent[i])
        /\ sent[k + 1].from \in Nat /\ EndOf(sent[k + 1]) \in Nat
        /\ sent[k + 1].from <= EndOf(sent[k + 1])
    <3>1. ASSUME NEW j \in 1..n
          PROVE  sent[j].from \in Nat /\ EndOf(sent[j]) \in Nat /\ sent[j].from <= EndOf(sent[j])
      <4>1. sent[j].from \in Nat /\ sent[j].size \in Nat
        BY <1>1, FrameTypes
      <4>2. QED
        BY <4>1 DEF EndOf
    <3>2. QED
      BY <1>6, <3>1
  <2>2. ~(i < k + 1)
    <3>1. i < k + 1 => EndOf(sent[i]) < sent[k + 1].from
      BY <1>6, <1>8 DEF Inv, StreamInv
    <3>2. QED
      BY <1>7, <1>8, <2>1, <3>1
  <2>3. ~(k + 1 < i)
    <3>1. k + 1 < i => EndOf(sent[k + 1]) < sent[i].from
      BY <1>6, <1>8 DEF Inv, StreamInv
    <3>2. QED
      BY <1>7, <1>8, <2>1, <3>1
  <2>4. QED
    BY <1>1, <2>2, <2>3
<1>9. header = sent[k + 1].size
  <2>1. k + 1 \in {i \in 1..n : sent[i].from = consumed + HeaderSize}
    BY <1>6, <1>7
  <2>2. HeaderValues = {sent[i].size : i \in {j \in 1..n : sent[j].from = consumed + HeaderSize}}
    BY <2>1 DEF HeaderValues
  <2>3. QED
    BY <1>8, <2>2
<1>10. QED
  BY <1>5, <1>7, <1>9

\* performRead returns, its stack is empty again.
LEMMA StopReadingInv == Inv /\ StopReading => Inv'
<1> SUFFICES ASSUME Inv, StopReading PROVE Inv'
  OBVIOUS
<1>1. callStack = <<"loop">> /\ callStack' = <<>> /\ reading' = FALSE
  BY CallsLemma DEF Inv, CallsInv, StopReading
<1>2. UNCHANGED <<sent, arrived, consumed, socket, phase, needsToRun, packet, received, handed,
                  patience>>
  BY DEF StopReading, streamVars
<1>3. \A i : EndOfPackets(i)' = EndOfPackets(i)
  BY <1>2 DEF EndOfPackets
<1>4. TypeOK'
  <2>1. <<>> \in Seq({"loop", "events"})
    OBVIOUS
  <2>2. QED
    BY <1>1, <1>2, <2>1 DEF Inv, TypeOK
<1>5. CallsInv'
  BY <1>1 DEF CallsInv
<1>6. StreamInv'
  BY <1>2, <1>3 DEF Inv, StreamInv
<1>7. ConnectionInv'
  <2>1. callStack # <<"events">> /\ callStack' # <<"events">>
    BY <1>1, CallsLemma
  <2>2. QED
    BY <1>2, <1>3, <2>1 DEF Inv, ConnectionInv, HandedInv, BetweenPackets, InPacket,
                            PacketTaken, DeliveredInOrder
<1>8. QED
  BY <1>4, <1>5, <1>6, <1>7 DEF Inv

\* The packet has been handled and is forgotten.
LEMMA PacketHandledInv == Inv /\ PacketHandled => Inv'
<1> SUFFICES ASSUME Inv, PacketHandled PROVE Inv'
  OBVIOUS
<1>1. callStack = <<"events">> /\ callStack' = <<"loop">> /\ UNCHANGED reading
  BY CallsLemma DEF Inv, CallsInv, PacketHandled
<1>2. UNCHANGED <<sent, arrived, consumed, socket, phase, needsToRun, handed>>
  BY DEF PacketHandled, streamVars
<1>3. \A i : EndOfPackets(i)' = EndOfPackets(i)
  BY <1>2 DEF EndOfPackets
<1>4. packet' \in Packet /\ packet'.expected = 0 /\ packet'.size = 0
  <2>1. packet \in Packet
    BY DEF Inv, TypeOK
  <2>2. QED
    BY <2>1 DEF PacketHandled, Cleared, Packet
<1>5. TypeOK'
  <2>1. <<"loop">> \in Seq({"loop", "events"})
    OBVIOUS
  <2>2. patience' \in Nat /\ received' \in Nat
    BY DEF Inv, TypeOK, PacketHandled
  <2>3. QED
    BY <1>1, <1>2, <1>4, <2>1, <2>2 DEF Inv, TypeOK
<1>6. CallsInv'
  BY <1>1, <1>2, CallsLemma DEF Inv, CallsInv
<1>7. StreamInv'
  BY <1>2, <1>3 DEF Inv, StreamInv
<1>8. ConnectionInv'
  <2>1. socket # "aborted" /\ HandedInv /\ PacketTaken
    BY <1>1 DEF Inv, ConnectionInv, BetweenPackets, InPacket
  <2>2. HandedInv'
    BY <1>2, <2>1 DEF HandedInv
  <2>3. BetweenPackets'
    BY <1>1, <1>2, <1>3, <1>4, <2>1, CallsLemma DEF BetweenPackets, PacketTaken
  <2>4. QED
    BY <1>2, <2>1, <2>2, <2>3 DEF ConnectionInv
<1>9. QED
  BY <1>5, <1>6, <1>7, <1>8 DEF Inv

\* The number of bytes performRead takes is a number, at most what there is,
\* and reaches the packet's end if the packet is not over already and more
\* bytes than the packet has are there.
LEMMA BytesToReadLemma ==
  ASSUME NEW p \in Packet, NEW available \in Nat
  PROVE  /\ BytesToRead(p, available) \in 0..available
         /\ p.expected <= p.inPacket => BytesToRead(p, available) = 0
BY DEF BytesToRead, Packet

\* What taking count bytes at a position does to a packet.
LEMMA AfterBytesLemma ==
  ASSUME NEW p \in Packet, NEW position \in Nat, NEW count \in Nat
  PROVE  /\ AfterBytes(p, position, count) \in Packet
         /\ AfterBytes(p, position, count).expected = p.expected
         /\ AfterBytes(p, position, count).inPacket = p.inPacket + count
         /\ AfterBytes(p, position, count).size = p.size + count
         /\ AfterBytes(p, position, count).from
              = IF p.size = 0 /\ count > 0 THEN position ELSE p.from
<1>1. p.inPacket \in Nat /\ p.from \in Nat /\ p.size \in Nat
  BY DEF Packet
<1> DEFINE from == IF p.size = 0 /\ count > 0 THEN position ELSE p.from
           in   == p.inPacket + count
           size == p.size + count
           q    == [p EXCEPT !.inPacket = in, !.from = from, !.size = size]
<1>2. from \in Nat /\ in \in Nat /\ size \in Nat
  BY <1>1
<1>3. AfterBytes(p, position, count) = q
  BY DEF AfterBytes
<1> HIDE DEF from, in, size
<1>4. q \in Packet /\ q.expected = p.expected /\ q.inPacket = in /\ q.size = size /\ q.from = from
  BY <1>2 DEF Packet
<1> HIDE DEF q
<1>5. QED
  BY <1>3, <1>4 DEF from, in, size

\* A turn of performRead hands over the packet the stream has next, or
\* nothing, or an empty packet that is refused.
LEMMA ReadTurnInv == Inv /\ ReadTurn => Inv'
<1> SUFFICES ASSUME Inv, ReadTurn PROVE Inv'
  OBVIOUS
<1> USE SizeAssumption
<1> DEFINE k == Len(handed)
<1>1. callStack = <<"loop">> /\ UNCHANGED <<sent, phase, reading>>
  BY CallsLemma DEF Inv, CallsInv, ReadTurn
<1>2. /\ sent \in Seq(Frame) /\ handed \in Seq(Frame) /\ k \in Nat /\ Len(sent) \in Nat
      /\ arrived \in Nat /\ consumed \in Nat /\ consumed < arrived
      /\ packet \in Packet /\ packet.expected \in Nat /\ packet.inPacket \in Nat
      /\ packet.from \in Nat /\ packet.size \in Nat
      /\ HeaderSize \in Nat \ {0} /\ MinMessage \in Nat \ {0}
  BY DEF Inv, TypeOK, Packet, ReadTurn, Available
<1>3. socket # "aborted" /\ HandedInv /\ (BetweenPackets \/ InPacket)
  BY <1>1, <1>2, CallsLemma DEF Inv, ConnectionInv, PacketTaken
<1>4. PICK header \in HeaderValues :
        LET opened   == AfterHeader(header)
            position == PositionAfterHeader
            count    == BytesToRead(opened, arrived - position)
            filled   == AfterBytes(opened, position, count)
        IN /\ consumed' = position + count
           /\ IF Complete(filled)
              THEN HandOver(filled)
              ELSE /\ packet' = filled
                   /\ patience' = IF count > 0 THEN 0 ELSE patience
                   /\ UNCHANGED <<arrived, socket, needsToRun, callStack, received, handed>>
  BY DEF ReadTurn
<1> DEFINE opened   == AfterHeader(header)
           position == PositionAfterHeader
           count    == BytesToRead(opened, arrived - position)
           filled   == AfterBytes(opened, position, count)
\* The position and the packet after the length has been read, if it is read.
<1>5. ReadsHeader =>
        /\ k < Len(sent)
        /\ header = sent[k + 1].size
        /\ position = sent[k + 1].from
        /\ position = consumed + HeaderSize /\ position <= arrived
        /\ opened = [packet EXCEPT !.expected = header, !.inPacket = 0]
        /\ packet.size = 0
  BY <1>2, <1>3, HeaderLemma DEF PositionAfterHeader, AfterHeader, ReadsHeader, Available
<1>6. ~ReadsHeader => position = consumed /\ opened = packet
  BY DEF PositionAfterHeader, AfterHeader
<1> HIDE DEF opened, position
<1>7. \A i \in 1..Len(sent) : sent[i].from \in Nat /\ sent[i].size \in Nat \ {0}
  <2>1. ASSUME NEW i \in 1..Len(sent)
        PROVE  sent[i].from \in Nat /\ sent[i].size \in Nat \ {0}
    <3>1. sent[i].size \in PacketSizes
      BY <2>1 DEF Inv, StreamInv
    <3>2. QED
      BY <1>2, <3>1, FrameTypes
  <2>2. QED
    BY <2>1
<1>8. /\ opened \in Packet /\ position \in Nat /\ position <= arrived
      /\ opened.expected \in Nat /\ opened.inPacket \in Nat /\ opened.size = packet.size
      /\ opened.from = packet.from
  <2>1. CASE ReadsHeader
    <3>1. k + 1 \in 1..Len(sent)
      BY <1>2, <1>5, <2>1
    <3>2. header \in Nat /\ position \in Nat
      BY <1>2, <1>5, <1>7, <2>1, <3>1
    <3>3. packet \in Packet /\ opened = [packet EXCEPT !.expected = header, !.inPacket = 0]
      BY <1>2, <1>5, <2>1
    <3>4. /\ opened \in Packet /\ opened.expected = header /\ opened.inPacket = 0
          /\ opened.size = packet.size /\ opened.from = packet.from
      BY <3>2, <3>3 DEF Packet
    <3>5. QED
      BY <1>5, <2>1, <3>2, <3>4
  <2>2. CASE ~ReadsHeader
    BY <1>2, <1>6, <2>2
  <2>3. QED
    BY <2>1, <2>2
<1>9. /\ count \in Nat /\ position + count <= arrived
      /\ opened.expected <= opened.inPacket => count = 0
  <2>1. arrived - position \in Nat
    BY <1>2, <1>8
  <2>2. /\ count \in 0..(arrived - position)
        /\ opened.expected <= opened.inPacket => count = 0
    BY <1>8, <2>1, BytesToReadLemma
  <2>3. QED
    BY <1>2, <1>8, <2>1, <2>2
<1> HIDE DEF count
<1>10. /\ filled \in Packet
       /\ filled.expected = opened.expected
       /\ filled.inPacket = opened.inPacket + count
       /\ filled.size = packet.size + count
       /\ filled.from = IF packet.size = 0 /\ count > 0 THEN position ELSE packet.from
  <2>1. opened \in Packet /\ position \in Nat /\ count \in Nat
    BY <1>8, <1>9
  <2>2. /\ AfterBytes(opened, position, count) \in Packet
        /\ AfterBytes(opened, position, count).expected = opened.expected
        /\ AfterBytes(opened, position, count).inPacket = opened.inPacket + count
        /\ AfterBytes(opened, position, count).size = opened.size + count
        /\ AfterBytes(opened, position, count).from
             = IF opened.size = 0 /\ count > 0 THEN position ELSE opened.from
    BY <2>1, AfterBytesLemma, Zenon
  <2>3. QED
    BY <1>8, <2>2
<1> HIDE DEF filled
\* In a packet: what has been read since its length is what it holds.
<1>11. ASSUME opened.expected > 0
       PROVE  /\ k < Len(sent)
              /\ filled.expected = sent[k + 1].size
              /\ filled.inPacket = filled.size
              /\ position + count = sent[k + 1].from + filled.size
              /\ filled.size > 0 => filled.from = sent[k + 1].from
  <2>1. CASE ReadsHeader
    <3>1. opened.expected = header /\ opened.inPacket = 0
      <4>1. k + 1 \in 1..Len(sent)
        BY <1>2, <1>5, <2>1
      <4>2. header \in Nat
        BY <1>5, <1>7, <2>1, <4>1
      <4>3. packet \in Packet /\ opened = [packet EXCEPT !.expected = header, !.inPacket = 0]
        BY <1>2, <1>5, <2>1
      <4>4. QED
        BY <4>2, <4>3 DEF Packet
    <3>2. QED
      BY <1>5, <1>9, <1>10, <2>1, <3>1
  <2>2. CASE ~ReadsHeader
    <3>1. InPacket /\ k + 1 \in 1..Len(sent)
      BY <1>2, <1>3, <1>6, <1>11, <2>2 DEF BetweenPackets, InPacket
    <3>2. sent[k + 1].from \in Nat
      BY <1>7, <3>1
    <3>3. /\ k < Len(sent) /\ packet.expected = sent[k + 1].size
          /\ packet.inPacket = packet.size /\ consumed = sent[k + 1].from + packet.size
          /\ packet.size > 0 => packet.from = sent[k + 1].from
      BY <3>1 DEF InPacket
    <3>4. position = consumed /\ opened = packet
      BY <1>6, <2>2
    <3>5. /\ filled.expected = packet.expected /\ filled.inPacket = packet.inPacket + count
          /\ filled.size = packet.size + count
          /\ filled.from = IF packet.size = 0 /\ count > 0 THEN consumed ELSE packet.from
      BY <1>10, <3>4
    <3>6. count \in Nat /\ packet.size \in Nat /\ consumed \in Nat
      BY <1>2, <1>9
    <3> HIDE DEF k
    <3>7. position + count = sent[k + 1].from + filled.size
      BY <3>2, <3>3, <3>4, <3>5, <3>6
    <3>8. filled.size > 0 => filled.from = sent[k + 1].from
      BY <3>2, <3>3, <3>5, <3>6
    <3>9. QED
      BY <3>3, <3>5, <3>7, <3>8
  <2>3. QED
    BY <2>1, <2>2
\* Between packets: nothing is read and nothing is held.
<1>12. ASSUME ~(opened.expected > 0)
       PROVE  /\ ~ReadsHeader /\ BetweenPackets /\ count = 0
              /\ filled.expected = 0 /\ filled.size = 0
              /\ filled.inPacket = packet.inPacket
  <2>1. ~ReadsHeader
    <3>1. SUFFICES ASSUME ReadsHeader PROVE FALSE
      OBVIOUS
    <3>2. k + 1 \in 1..Len(sent)
      BY <1>2, <1>5, <3>1
    <3>3. header \in Nat \ {0}
      BY <1>5, <1>7, <3>1, <3>2
    <3>4. opened.expected = header
      <4>1. packet \in Packet /\ opened = [packet EXCEPT !.expected = header, !.inPacket = 0]
        BY <1>2, <1>5, <3>1
      <4>2. QED
        BY <3>3, <4>1 DEF Packet
    <3>5. QED
      BY <1>12, <3>3, <3>4
  <2>2. BetweenPackets
    BY <1>3, <1>6, <1>12, <2>1 DEF InPacket
  <2>3. QED
    BY <1>2, <1>6, <1>9, <1>10, <2>1, <2>2 DEF BetweenPackets
<1>13. \A i : EndOfPackets(i)' = EndOfPackets(i)
  BY <1>1 DEF EndOfPackets
<1>14. consumed' = position + count
  BY <1>4 DEF opened, position, count
<1>15. CASE ~Complete(filled)
  <2>1. /\ packet' = filled
        /\ patience' = IF count > 0 THEN 0 ELSE patience
        /\ UNCHANGED <<arrived, socket, needsToRun, callStack, received, handed>>
    BY <1>4, <1>15 DEF opened, position, count, filled
  <2>2. TypeOK'
    BY <1>1, <1>2, <1>8, <1>9, <1>10, <1>14, <2>1 DEF Inv, TypeOK
  <2>3. CallsInv' /\ StreamInv'
    BY <1>1, <1>13, <2>1 DEF Inv, CallsInv, StreamInv
  <2>4. HandedInv'
    BY <1>1, <1>3, <2>1 DEF HandedInv
  <2>5. CASE opened.expected > 0
    <3>1. InPacket'
      BY <1>1, <1>8, <1>10, <1>11, <1>14, <1>15, <2>1, <2>5, CallsLemma DEF InPacket, Complete
    <3>2. QED
      BY <1>3, <2>1, <2>2, <2>3, <2>4, <3>1 DEF Inv, ConnectionInv
  <2>6. CASE ~(opened.expected > 0)
    <3>1. consumed' = consumed
      BY <1>2, <1>6, <1>12, <1>14, <2>6
    <3>2. BetweenPackets'
      BY <1>1, <1>12, <1>13, <2>1, <2>6, <3>1 DEF BetweenPackets
    <3>3. QED
      BY <1>3, <2>1, <2>2, <2>3, <2>4, <3>2 DEF Inv, ConnectionInv
  <2>7. QED
    BY <2>5, <2>6
<1>10a. CASE Complete(filled)
  <2> DEFINE frame == [from |-> filled.from, size |-> filled.size]
  <2>1. HandOver(filled)
    BY <1>4, <1>10a DEF opened, position, count, filled
  <2>2. /\ frame \in Frame /\ handed' = Append(handed, frame)
        /\ handed' \in Seq(Frame) /\ Len(handed') = k + 1
        /\ handed'[k + 1] = frame /\ \A i \in 1..k : handed'[i] = handed[i]
    <3>1. frame \in Frame
      BY <1>10 DEF Frame, Packet
    <3>2. handed' = Append(handed, frame)
      BY <2>1 DEF HandOver
    <3>3. QED
      BY <1>2, <3>1, <3>2
  \* The packet is the next one of the stream, or it is empty.
  <2>3. opened.expected > 0 =>
          /\ k + 1 <= Len(sent) /\ frame = sent[k + 1]
          /\ consumed' = EndOfPackets(k + 1)
    <3>1. ASSUME opened.expected > 0
          PROVE  /\ k + 1 <= Len(sent) /\ frame = sent[k + 1]
                 /\ consumed' = EndOfPackets(k + 1)
      <4>1. k + 1 \in 1..Len(sent)
        BY <1>2, <1>11, <3>1
      <4>2. sent[k + 1] \in Frame
        BY <1>2, <4>1
      <4>3. filled.size = sent[k + 1].size /\ filled.size > 0
        BY <1>7, <1>11, <1>10a, <3>1, <4>1 DEF Complete
      <4>4. filled.from = sent[k + 1].from
        BY <1>11, <3>1, <4>3
      <4>5. frame = sent[k + 1]
        BY <4>2, <4>3, <4>4 DEF Frame
      <4>6. consumed' = EndOfPackets(k + 1)
        BY <1>2, <1>11, <1>14, <3>1, <4>3 DEF EndOfPackets, EndOf
      <4>7. QED
        BY <1>2, <4>1, <4>5, <4>6
    <3>2. QED
      BY <3>1
  <2>4. CASE /\ filled.size >= MinMessage
             /\ packet' = filled
             /\ callStack' = [callStack EXCEPT ![Len(callStack)] = "events"]
             /\ UNCHANGED <<arrived, socket, needsToRun, patience, received>>
    <3>1. opened.expected > 0
      BY <1>2, <1>12, <2>4
    <3>2. callStack' = <<"events">>
      BY <1>1, <2>4, CallsLemma
    <3>3. TypeOK'
      <4>1. <<"events">> \in Seq({"loop", "events"})
        OBVIOUS
      <4>2. consumed' \in 0..arrived'
        BY <1>2, <1>8, <1>9, <1>14, <2>4
      <4>3. QED
        BY <1>1, <1>10, <2>2, <2>4, <3>2, <4>1, <4>2 DEF Inv, TypeOK
    <3>4. CallsInv' /\ StreamInv'
      BY <1>1, <1>13, <2>4, <3>2, CallsLemma DEF Inv, CallsInv, StreamInv
    <3>5. HandedInv'
      BY <1>1, <1>2, <1>3, <2>2, <2>3, <3>1 DEF HandedInv
    <3>6. PacketTaken'
      <4>1. consumed' = EndOfPackets(Len(handed))'
        BY <1>1, <2>2, <2>3, <3>1 DEF EndOfPackets
      <4>2. packet'.expected > 0 /\ packet'.inPacket = packet'.expected
        BY <1>10, <1>10a, <2>4, <3>1 DEF Complete
      <4>3. QED
        BY <3>2, <4>1, <4>2 DEF PacketTaken
    <3>7. QED
      BY <1>3, <2>4, <3>3, <3>4, <3>5, <3>6 DEF Inv, ConnectionInv
  <2>5. CASE /\ Abort
             /\ arrived' = consumed'
             /\ packet' = Cleared(filled)
             /\ patience' = 0
             /\ received' = received + 1
             /\ UNCHANGED callStack
    <3>1. consumed' \in Nat /\ consumed' <= arrived
      BY <1>2, <1>8, <1>9, <1>14
    <3>2. Cleared(filled) \in Packet
      BY <1>10 DEF Cleared, Packet
    <3>3. TypeOK'
      <4>1. consumed' \in 0..arrived' /\ arrived' \in Nat
        BY <2>5, <3>1
      <4>2. received' \in Nat /\ patience' \in Nat /\ packet' \in Packet
        BY <2>5, <3>2 DEF Inv, TypeOK
      <4>3. needsToRun' \in BOOLEAN
        BY <2>5 DEF Abort
      <4>4. QED
        BY <1>1, <2>2, <2>5, <4>1, <4>2, <4>3 DEF Inv, TypeOK, Abort
    <3>4. CallsInv' /\ StreamInv'
      <4>1. EndOfPackets(Len(sent)) \in Nat
        BY <1>2, EndTypes
      <4>2. arrived' <= EndOfPackets(Len(sent))
        BY <1>2, <2>5, <3>1, <4>1 DEF Inv, StreamInv
      <4>3. QED
        BY <1>1, <1>13, <2>5, <4>2 DEF Inv, CallsInv, StreamInv
    <3>5. ConnectionInv'
      <4>1. DeliveredInOrder'
        <5>1. ASSUME NEW i \in 1..(k + 1)
              PROVE  \/ i <= Len(sent) /\ handed'[i] = sent[i]
                     \/ handed'[i].size = 0 /\ i = k + 1
          <6>1. CASE i \in 1..k
            BY <1>2, <1>3, <2>2, <6>1 DEF HandedInv
          <6>2. CASE i = k + 1 /\ opened.expected > 0
            BY <2>2, <2>3, <6>2
          <6>3. CASE i = k + 1 /\ ~(opened.expected > 0)
            BY <1>12, <2>2, <6>3
          <6>4. QED
            BY <1>2, <6>1, <6>2, <6>3
        <5>2. QED
          BY <1>1, <2>2, <2>5, <5>1 DEF DeliveredInOrder, Abort
      <4>2. QED
        BY <1>1, <2>5, <4>1, CallsLemma DEF ConnectionInv, Abort
    <3>6. QED
      BY <3>3, <3>4, <3>5 DEF Inv
  <2>6. QED
    BY <2>1, <2>4, <2>5 DEF HandOver
<1>17. QED
  BY <1>15, <1>10a

-----------------------------------------------------------------------------
(* The theorems.                                                           *)

\* Every step keeps the invariant.
LEMMA NextInv == Inv /\ [Next]_vars => Inv'
<1> SUFFICES ASSUME Inv, [Next]_vars PROVE Inv'
  OBVIOUS
<1>1. ASSUME NEW size \in PacketSizes, WritePacket(size) PROVE Inv'
  BY <1>1, WritePacketInv
<1>2. ASSUME NEW n \in 1..(EndOfPackets(Len(sent)) - arrived), Arrive(n) PROVE Inv'
  <2>1. Len(sent) \in Nat /\ sent \in Seq(Frame) /\ arrived \in Nat
    BY DEF Inv, TypeOK
  <2>2. EndOfPackets(Len(sent)) \in Nat
    BY <2>1, EndTypes
  <2>3. n \in Nat
    BY <2>1, <2>2
  <2>4. QED
    BY <1>2, <2>3, ArriveInv
<1>3. CASE ReadTurn
  BY <1>3, ReadTurnInv
<1>4. CASE PacketHandled
  BY <1>4, PacketHandledInv
<1>5. CASE StopReading
  BY <1>5, StopReadingInv
<1>6. CASE StartReadLoop
  <2>1. UNCHANGED <<sent, arrived, consumed, socket, needsToRun, patience>>
    BY <1>6 DEF StartReadLoop, streamVars
  <2>2. UNCHANGED readerVars /\ phase' \in {"events", "done"} /\ callStack = <<>>
    BY <1>6 DEF StartReadLoop, Inv, CallsInv
  <2>3. TypeOK'
    BY <2>1, <2>2 DEF Inv, TypeOK, readerVars
  <2>4. QED
    BY <2>1, <2>2, <2>3, QuietStepInv
<1>7. CASE LoopTurn
  <2>1. UNCHANGED <<sent, consumed, readerVars>> /\ callStack = <<>>
    BY <1>7 DEF LoopTurn
  <2>2. \/ UNCHANGED <<arrived, socket, needsToRun>>
        \/ arrived' = consumed /\ socket' = "aborted" /\ needsToRun' = FALSE
    BY <1>7 DEF LoopTurn, Abort
  <2>3. phase' \in {"events", "done"} /\ patience' \in Nat
    BY <1>7 DEF LoopTurn, TurnsWaited, Inv, TypeOK
  <2>4. TypeOK'
    <3>1. CASE UNCHANGED <<arrived, socket, needsToRun>>
      BY <2>1, <2>3, <3>1 DEF Inv, TypeOK, readerVars
    <3>2. CASE arrived' = consumed /\ socket' = "aborted" /\ needsToRun' = FALSE
      <4>1. consumed \in Nat /\ needsToRun' \in BOOLEAN
        <5>1. consumed \in Nat
          BY DEF Inv, TypeOK
        <5>2. needsToRun' \in BOOLEAN
          BY <3>2
        <5>3. QED
          BY <5>1, <5>2
      <4>2. consumed' \in 0..arrived' /\ arrived' \in Nat
        BY <2>1, <3>2, <4>1
      <4>3. QED
        BY <2>1, <2>3, <3>2, <4>1, <4>2 DEF Inv, TypeOK, readerVars
    <3>3. QED
      BY <2>2, <3>1, <3>2
  <2>5. QED
    BY <2>1, <2>2, <2>4, QuietStepInv
<1>8. CASE HandshakeTimesOut
  <2>1. /\ UNCHANGED <<sent, arrived, consumed, readerVars, patience>> /\ callStack = <<>>
        /\ arrived = 0 /\ phase' = "done" /\ socket' = "aborted" /\ needsToRun' = FALSE
    BY <1>8 DEF HandshakeTimesOut, Abort, Inv, CallsInv
  <2>2. TypeOK'
    <3>1. needsToRun' \in BOOLEAN
      BY <2>1
    <3>2. QED
      BY <2>1, <3>1 DEF Inv, TypeOK, readerVars
  <2>3. arrived' = consumed
    BY <2>1 DEF Inv, TypeOK
  <2>4. QED
    BY <2>1, <2>2, <2>3, QuietStepInv
<1>9. CASE PeerDisconnects
  <2>1. /\ UNCHANGED <<sent, arrived, consumed, phase, readerVars, patience>>
        /\ socket # "aborted" /\ socket' = "disconnected" /\ needsToRun' = FALSE
    BY <1>9 DEF PeerDisconnects
  <2>2. TypeOK' /\ (phase' # "events" => callStack = <<>>)
    <3>1. needsToRun' \in BOOLEAN
      BY <2>1
    <3>2. QED
      BY <2>1, <3>1 DEF Inv, TypeOK, CallsInv, readerVars
  <2>3. QED
    BY <2>1, <2>2, QuietStepInv
<1>10. CASE AskedToClose
  <2>1. /\ UNCHANGED <<sent, arrived, consumed, socket, phase, readerVars, patience>>
        /\ needsToRun' = FALSE
    BY <1>10 DEF AskedToClose, streamVars
  <2>2. TypeOK' /\ (phase' # "events" => callStack = <<>>)
    <3>1. needsToRun' \in BOOLEAN
      BY <2>1
    <3>2. QED
      BY <2>1, <3>1 DEF Inv, TypeOK, CallsInv, readerVars
  <2>3. QED
    BY <2>1, <2>2, QuietStepInv
<1>11. CASE UNCHANGED vars
  <2>1. UNCHANGED <<sent, arrived, consumed, socket, phase, readerVars, needsToRun, patience>>
    BY <1>11 DEF vars, streamVars
  <2>2. TypeOK' /\ (phase' # "events" => callStack = <<>>)
    BY <2>1 DEF Inv, TypeOK, CallsInv, readerVars
  <2>3. QED
    BY <2>1, <2>2, QuietStepInv
<1>12. QED
  BY <1>1, <1>2, <1>3, <1>4, <1>5, <1>6, <1>7, <1>8, <1>9, <1>10, <1>11
     DEF Next, ThreadStep

\* The invariant holds always.
THEOREM InvAlways == Spec => []Inv
BY InitInv, NextInv, PTL DEF Spec

\* The variables have their types, and no byte is read that has not arrived.
THEOREM TypeCorrect == Spec => []TypeOK
<1>1. Inv => TypeOK
  BY DEF Inv
<1>2. QED
  BY <1>1, InvAlways, PTL

\* performRead hands the peer's packets to the observer, whole and in order,
\* whatever the sizes, however the stream is cut and whatever arrives while
\* a packet is being handled; the one exception is an empty packet, and
\* then the connection is aborted.
THEOREM PacketsAreDeliveredInOrder == Spec => []DeliveredInOrder
<1>1. Inv => DeliveredInOrder
  <2> SUFFICES ASSUME Inv PROVE DeliveredInOrder
    OBVIOUS
  <2>1. CASE socket = "aborted"
    BY <2>1 DEF Inv, ConnectionInv
  <2>2. CASE socket # "aborted"
    BY <2>2 DEF Inv, TypeOK, ConnectionInv, HandedInv, DeliveredInOrder
  <2>3. QED
    BY <2>1, <2>2
<1>2. QED
  BY <1>1, InvAlways, PTL

\* The reader always knows where in the stream it is.
THEOREM FramingIsKept == Spec => []FramingKept
<1>1. Inv => FramingKept
  BY DEF Inv, ConnectionInv, HandedInv, BetweenPackets, InPacket, PacketTaken, FramingKept
<1>2. QED
  BY <1>1, InvAlways, PTL

-----------------------------------------------------------------------------
(***************************************************************************)
(* The audio of the calls (Mixer). A queue outlives its stream, and the    *)
(* streams behind it move up: what matters is whose frames may be in the   *)
(* queue at an index. Only the first may hold frames of this node, which   *)
(* were left there by a microphone that is gone or are of one that is      *)
(* there; and while there is none nothing is mixed.                        *)
(***************************************************************************)
HasMicrophone(s) == s # <<>> /\ s[1].node = Self
Origins(s, i) ==
    (IF i \in 1 .. Len(s) THEN {s[i].node} ELSE {})
      \cup (IF i = 1 /\ ~HasMicrophone(s) THEN {Self} ELSE {})
FramesOf(s, i) == {f \in AudioFrame : f.from \in Origins(s, i)}
StreamsOK(s) == s \in Seq(Stream) /\ \A i \in 2 .. Len(s) : s[i].node # Self
QueuesOK(s, b) ==
    /\ b \in Seq(Seq(AudioFrame)) /\ Len(s) <= Len(b)
    /\ \A i \in 1 .. Len(b) : b[i] \in Seq(FramesOf(s, i))
MixerInv == /\ MixerTypeOK /\ StreamsOK(mixedStreams) /\ QueuesOK(mixedStreams, buffers)
            /\ NobodyHearsThemselves

\* The greatest of numbers up to some number.
LEMMA MaxUpTo ==
    ASSUME NEW n \in Nat, NEW T, T \subseteq 1 .. n, T # {}
    PROVE  Max(T) \in T /\ \A i \in T : i <= Max(T)
<1> DEFINE U == {n - i : i \in T}
<1>1. U \subseteq Nat /\ U # {}
  <2>1. \A i \in T : n - i \in Nat
    OBVIOUS
  <2>2. QED
    BY <2>1
<1>2. PICK m \in U : \A k \in U : m <= k
  BY <1>1, LeastNumber
<1>3. PICK i \in T : m = n - i
  BY <1>2
<1>4. \A j \in T : i >= j
  <2>1. SUFFICES ASSUME NEW j \in T PROVE i >= j
    OBVIOUS
  <2>2. n - j \in U
    OBVIOUS
  <2>3. m <= n - j
    BY <1>2, <2>2
  <2>4. QED
    BY <1>3, <2>3
<1> HIDE DEF U
<1>5. \E x \in T : \A y \in T : x >= y
  BY <1>4
<1>6. Max(T) \in T /\ \A y \in T : Max(T) >= y
  BY <1>5, Zenon DEF Max
<1>7. QED
  BY <1>6

LEMMA MinOfNumbers ==
    ASSUME NEW T, T \subseteq Nat, T # {}
    PROVE  Min(T) \in T
<1>1. \E x \in T : \A y \in T : x =< y
  BY LeastNumber
<1>2. QED
  BY <1>1, Zenon DEF Min

\* One of the numbers of a set up to n has the greatest value.
LEMMA GreatestValue ==
    ASSUME NEW n \in Nat, NEW W, W \subseteq 1 .. n, W # {}, NEW v,
           \A i \in W : v[i] \in Nat
    PROVE  \E i \in W : \A j \in W : v[j] <= v[i]
<1> DEFINE Greatest(k) == \E i \in W : i <= k /\ \A j \in W : j <= k => v[j] <= v[i]
           T == {k \in 0 .. n : (\E i \in W : i <= k) => Greatest(k)}
<1>1. 0 \in T
  OBVIOUS
<1>2. ASSUME NEW k \in 1 .. n, k - 1 \in T PROVE k \in T
  <2>1. SUFFICES ASSUME NEW i0 \in W, i0 <= k PROVE Greatest(k)
    OBVIOUS
  <2>2. CASE k \notin W
    <3>1. \A j \in W : j <= k <=> j <= k - 1
      BY <2>2
    <3>2. Greatest(k - 1)
      BY <1>2, <2>1, <3>1
    <3>3. QED
      BY <3>1, <3>2
  <2>3. CASE k \in W /\ \A j \in W : j > k - 1
    <3>1. \A j \in W : j <= k => j = k
      BY <2>3
    <3>2. QED
      BY <2>3, <3>1
  <2>4. CASE k \in W /\ \E j \in W : j <= k - 1
    <3>1. PICK i \in W : i <= k - 1 /\ \A j \in W : j <= k - 1 => v[j] <= v[i]
      BY <1>2, <2>4
    <3>2. v[i] \in Nat /\ v[k] \in Nat /\ \A j \in W : j <= k => j = k \/ j <= k - 1
      BY <2>4
    <3>3. CASE v[k] <= v[i]
      <4>1. \A j \in W : j <= k => v[j] <= v[i]
        BY <3>1, <3>2, <3>3
      <4>2. QED
        BY <3>1, <4>1
    <3>4. CASE v[i] <= v[k]
      <4>1. \A j \in W : j <= k => v[j] <= v[k]
        BY <3>1, <3>2, <3>4
      <4>2. QED
        BY <2>4, <4>1
    <3>5. QED
      BY <3>2, <3>3, <3>4
  <2>5. QED
    BY <2>2, <2>3, <2>4
<1> HIDE DEF T
<1>3. n \in T
  BY <1>1, <1>2, UpToInduction
<1>4. \E i \in W : i <= n
  <2>1. PICK i : i \in W
    OBVIOUS
  <2>2. QED
    BY <2>1
<1>5. Greatest(n)
  BY <1>3, <1>4 DEF T
<1>6. QED
  BY <1>5

LEMMA QueueTypes ==
    ASSUME NEW s, NEW b, QueuesOK(s, b), NEW i \in 1 .. Len(b)
    PROVE  /\ Len(s) \in Nat => Len(s) \in 0 .. Len(b)
           /\ b[i] \in Seq(FramesOf(s, i))
           /\ b[i] # <<>> => Head(b[i]) \in FramesOf(s, i) /\ Tail(b[i]) \in Seq(FramesOf(s, i))
<1>1. b[i] \in Seq(FramesOf(s, i)) /\ Len(b) \in Nat
  BY DEF QueuesOK
<1>2. b[i] # <<>> => Head(b[i]) \in FramesOf(s, i) /\ Tail(b[i]) \in Seq(FramesOf(s, i))
  BY <1>1, HeadTailProperties
<1>3. QED
  BY <1>1, <1>2 DEF QueuesOK

\* With queues for these streams at the indexes of other queues, all are.
LEMMA QueuesKept ==
    ASSUME NEW s, NEW b, QueuesOK(s, b), NEW b2,
           b2 = [i \in 1 .. Len(b) |-> b2[i]],
           \A i \in 1 .. Len(b) : b2[i] \in Seq(FramesOf(s, i))
    PROVE  QueuesOK(s, b2) /\ Len(b2) = Len(b)
<1>1. Len(b) \in Nat
  BY DEF QueuesOK
<1>2. \A i : FramesOf(s, i) \subseteq AudioFrame
  BY DEF FramesOf
<1>3. \A i \in 1 .. Len(b) : b2[i] \in Seq(AudioFrame)
  <2>1. SUFFICES ASSUME NEW i \in 1 .. Len(b) PROVE b2[i] \in Seq(AudioFrame)
    OBVIOUS
  <2>2. QED
    BY <1>2, <2>1, SeqMonotonic
<1>4. b2 \in [1 .. Len(b) -> Seq(AudioFrame)]
  BY <1>3
<1>5. b2 \in Seq(Seq(AudioFrame)) /\ Len(b2) = Len(b)
  BY <1>1, <1>4
<1>6. QED
  BY <1>5 DEF QueuesOK

\* A frame at the head of a queue is from whom its stream is from, where the
\* microphone is in the mixer.
LEMMA HeadIsStreams ==
    ASSUME NEW s, StreamsOK(s), HasMicrophone(s), NEW b, QueuesOK(s, b), NEW i \in Waiting(b)
    PROVE  /\ i \in 1 .. Len(s)
           /\ Head(b[i]).from = s[i].node
           /\ Head(b[i]).from = Self <=> i = 1
           /\ Head(b[i]) \in AudioFrame
<1>1. i \in 1 .. Len(b) /\ b[i] # <<>>
  BY DEF Waiting, QueuesOK
<1>2. Head(b[i]) \in FramesOf(s, i)
  BY <1>1, QueueTypes
<1>3. i \in 1 .. Len(s) /\ Head(b[i]).from = s[i].node /\ Head(b[i]) \in AudioFrame
  BY <1>2 DEF FramesOf, Origins
<1>4. s[i].node = Self <=> i = 1
  BY <1>3 DEF StreamsOK, HasMicrophone
<1>5. QED
  BY <1>3, <1>4

LEMMA VolumesAreNumbers ==
    ASSUME NEW f \in AudioFrame PROVE f.volume \in Nat
<1>1. f.volume \in UNION Range(Volumes)
  BY DEF AudioFrame
<1>2. \A n \in Peers \cup {Self} : Volumes[n] \subseteq Nat
  BY MixerAssumption
<1>3. QED
  BY <1>1, <1>2, MixerAssumption DEF Range

Mixes(b) == (\E i \in Waiting(b) : Head(b[i]).from = Self) /\ Cardinality(Waiting(b)) > 1
Emitted(s, b) ==
    UNION {{[to |-> p.node, from |-> Head(b[i]).from] :
               i \in GetsOf(p, Loudest(b), SecondLoudest(b))} : p \in ToSet(s)}

\* Both frames that are mixed are at the heads of queues.
LEMMA LoudestWait ==
    ASSUME NEW b, b \in Seq(Seq(AudioFrame)), Cardinality(Waiting(b)) > 1
    PROVE  /\ Loudest(b) \in Waiting(b)
           /\ SecondLoudest(b) \in Waiting(b) \ {Loudest(b)}
<1> DEFINE W == Waiting(b)
           v == [i \in W |-> Level(b, i)]
           others == W \ {Loudest(b)}
<1>1. W \subseteq 1 .. Len(b) /\ Len(b) \in Nat
  BY DEF Waiting
<1>2. \A i \in W : v[i] \in Nat
  <2>1. SUFFICES ASSUME NEW i \in W PROVE v[i] \in Nat
    OBVIOUS
  <2>2. b[i] \in Seq(AudioFrame) /\ b[i] # <<>>
    BY <1>1 DEF Waiting
  <2>3. Head(b[i]) \in AudioFrame
    BY <2>2, HeadTailProperties
  <2>4. QED
    BY <2>3, VolumesAreNumbers DEF Level
<1>3. IsFiniteSet(W)
  <2>1. IsFiniteSet(1 .. Len(b))
    BY <1>1, FS_Interval
  <2>2. QED
    BY <1>1, <2>1, FS_Subset
<1>4. W # {}
  <2>1. SUFFICES ASSUME W = {} PROVE FALSE
    OBVIOUS
  <2>2. Cardinality(W) = 0
    BY <2>1, FS_EmptySet, Zenon
  <2>3. QED
    BY <2>2
<1>5. Loudest(b) \in W
  <2> DEFINE T == {i \in W : \A j \in W : Level(b, j) <= Level(b, i)}
  <2>1. PICK i \in W : \A j \in W : v[j] <= v[i]
    BY <1>1, <1>2, <1>4, GreatestValue
  <2>2. i \in T
    BY <2>1
  <2>3. T \subseteq Nat
    BY <1>1
  <2> HIDE DEF v
  <2>4. Min(T) \in T
    BY <2>2, <2>3, MinOfNumbers
  <2>5. QED
    BY <2>4 DEF Loudest
<1>6. others # {}
  <2>1. SUFFICES ASSUME W = {Loudest(b)} PROVE FALSE
    BY <1>5
  <2>2. Cardinality(W) = 1
    BY <2>1, FS_Singleton, Zenon
  <2>3. QED
    BY <2>2
<1>7. SecondLoudest(b) \in others
  <2> DEFINE T == {i \in others : \A j \in others : Level(b, j) <= Level(b, i)}
  <2>0. others \subseteq 1 .. Len(b) /\ \A i \in others : v[i] \in Nat
    BY <1>1, <1>2
  <2>1. PICK i \in others : \A j \in others : v[j] <= v[i]
    BY <1>1, <1>6, <2>0, GreatestValue
  <2>2. i \in T
    BY <2>1
  <2>3. T \subseteq 1 .. Len(b)
    BY <1>1
  <2> HIDE DEF v
  <2>4. Max(T) \in T
    BY <1>1, <2>2, <2>3, MaxUpTo
  <2>5. QED
    BY <2>4 DEF SecondLoudest
<1>8. QED
  BY <1>5, <1>7

\* What is mixed from the heads of the queues has no echo in it.
LEMMA EmittedIsNoEcho ==
    ASSUME NEW s, StreamsOK(s), s = mixedStreams, HasMicrophone(s),
           NEW b, QueuesOK(s, b), Mixes(b)
    PROVE  /\ Emitted(s, b) \subseteq [to : Peers \cup {Self}, from : Peers \cup {Self}]
           /\ \A h \in Emitted(s, b) : h.to # h.from
<1> DEFINE first == Loudest(b)
           second == SecondLoudest(b)
<1>1. first \in Waiting(b) /\ second \in Waiting(b) /\ first # second
  BY LoudestWait DEF Mixes, QueuesOK
<1>2. /\ first \in 1 .. Len(s) /\ second \in 1 .. Len(s)
      /\ Head(b[first]).from = s[first].node /\ Head(b[second]).from = s[second].node
      /\ Head(b[first]).from = Self <=> first = 1
      /\ Head(b[second]).from = Self <=> second = 1
      /\ Head(b[first]) \in AudioFrame /\ Head(b[second]) \in AudioFrame
  BY <1>1, HeadIsStreams
<1> HIDE DEF first, second
<1>3. SUFFICES ASSUME NEW p \in ToSet(s), NEW i \in GetsOf(p, first, second)
               PROVE  /\ p.node \in Peers \cup {Self}
                      /\ Head(b[i]).from \in Peers \cup {Self}
                      /\ p.node # Head(b[i]).from
  BY DEF Emitted, first, second
<1>4. p.node \in Peers \cup {Self}
  <2>1. PICK j \in 1 .. Len(s) : p = s[j]
    BY DEF StreamsOK, ToSet
  <2>2. s[j] \in Stream
    BY DEF StreamsOK
  <2>3. QED
    BY <2>1, <2>2 DEF Stream
<1>5. i \in {first, second}
  BY DEF GetsOf
<1>6. Head(b[i]).from \in Peers \cup {Self}
  BY <1>2, <1>5 DEF AudioFrame
<1>7. p.node # Head(b[i]).from
  <2>1. CASE p.node # s[first].node
    <3>1. i = first
      BY <2>1 DEF GetsOf
    <3>2. QED
      BY <1>2, <2>1, <3>1
  <2>2. CASE p.node = s[first].node
    <3>1. i = second /\ (p.node = Self \/ p.node # s[second].node)
      BY <2>2 DEF GetsOf
    <3>2. QED
      BY <1>1, <1>2, <2>2, <3>1
  <2>3. QED
    BY <2>1, <2>2
<1>8. QED
  BY <1>4, <1>6, <1>7

\* One turn of the mixer.
LEMMA MixedOnceKeeps ==
    ASSUME NEW s, StreamsOK(s), s = mixedStreams, HasMicrophone(s),
           NEW m, m = [buffers |-> m.buffers, heard |-> m.heard],
           QueuesOK(s, m.buffers),
           m.heard \subseteq [to : Peers \cup {Self}, from : Peers \cup {Self}],
           \A h \in m.heard : h.to # h.from
    PROVE  LET t == MixedOnce(m) IN
           /\ t = [buffers |-> t.buffers, heard |-> t.heard]
           /\ QueuesOK(s, t.buffers) /\ Len(t.buffers) = Len(m.buffers)
           /\ t.heard \subseteq [to : Peers \cup {Self}, from : Peers \cup {Self}]
           /\ \A h \in t.heard : h.to # h.from
           /\ IF Mixes(m.buffers) THEN Len(t.buffers[1]) < Len(m.buffers[1]) ELSE t = m
<1> DEFINE b == m.buffers
           b2 == [i \in DOMAIN b |-> IF b[i] = <<>> THEN <<>> ELSE Tail(b[i])]
           t == MixedOnce(m)
<1>1. t = IF Mixes(b) THEN [buffers |-> b2, heard |-> m.heard \cup Emitted(s, b)] ELSE m
  BY Zenon DEF MixedOnce, Mixes, Emitted
<1>2. DOMAIN b = 1 .. Len(b) /\ Len(b) \in Nat
  BY DEF QueuesOK
<1>3. QueuesOK(s, b2) /\ Len(b2) = Len(b)
  <2>1. \A i \in 1 .. Len(b) : b2[i] \in Seq(FramesOf(s, i))
    <3>1. SUFFICES ASSUME NEW i \in 1 .. Len(b) PROVE b2[i] \in Seq(FramesOf(s, i))
      OBVIOUS
    <3>2. b[i] # <<>> => Tail(b[i]) \in Seq(FramesOf(s, i))
      BY QueueTypes
    <3>3. <<>> \in Seq(FramesOf(s, i))
      OBVIOUS
    <3>4. b2[i] = IF b[i] = <<>> THEN <<>> ELSE Tail(b[i])
      BY <1>2
    <3>5. QED
      BY <3>2, <3>3, <3>4
  <2>2. b2 = [i \in 1 .. Len(b) |-> b2[i]]
    BY <1>2
  <2> HIDE DEF b2
  <2>3. QED
    BY <2>1, <2>2, QueuesKept
<1>4. ASSUME Mixes(b) PROVE Len(b2[1]) < Len(b[1])
  <2>1. PICK i \in Waiting(b) : Head(b[i]).from = Self
    BY <1>4 DEF Mixes
  <2>2. i = 1
    BY <2>1, HeadIsStreams
  <2>3. 1 \in 1 .. Len(b) /\ b[1] # <<>>
    BY <1>2, <2>2 DEF Waiting
  <2>4. b[1] \in Seq(FramesOf(s, 1)) /\ b2[1] = Tail(b[1])
    BY <1>2, <2>3, QueueTypes
  <2>5. QED
    BY <2>3, <2>4, HeadTailProperties
<1>5. Mixes(b) => /\ Emitted(s, b) \subseteq [to : Peers \cup {Self}, from : Peers \cup {Self}]
                  /\ \A h \in Emitted(s, b) : h.to # h.from
  BY EmittedIsNoEcho
<1> HIDE DEF b2, t
<1>6. CASE Mixes(b)
  <2>1. t = [buffers |-> b2, heard |-> m.heard \cup Emitted(s, b)]
    BY <1>1, <1>6
  <2>2. t.buffers = b2 /\ t.heard = m.heard \cup Emitted(s, b)
    BY <2>1
  <2>3. QED
    BY <1>3, <1>4, <1>5, <1>6, <2>1, <2>2 DEF t
<1>7. CASE ~Mixes(b)
  <2>1. t = m
    BY <1>1, <1>7
  <2>2. QED
    BY <1>7, <2>1 DEF t
<1>8. QED
  BY <1>6, <1>7

\* The turns of the mixer, for any function of that recursion.
IsMixed(g, b, n) ==
    g = [k \in 0 .. n |-> IF k = 0 THEN [buffers |-> b, heard |-> {}] ELSE MixedOnce(g[k - 1])]
LEMMA MixedExists ==
    ASSUME NEW b, NEW n \in Nat
    PROVE  \E g : IsMixed(g, b, n)
<1> DEFINE T == {k \in 0 .. n : \E g : IsMixed(g, b, k)}
           base == [buffers |-> b, heard |-> {}]
<1>1. 0 \in T
  <2>1. IsMixed([k \in 0 .. 0 |-> base], b, 0)
    BY DEF IsMixed
  <2>2. QED
    BY <2>1
<1> HIDE DEF base
<1>2. ASSUME NEW i \in 1 .. n, i - 1 \in T PROVE i \in T
  <2>1. PICK g : IsMixed(g, b, i - 1)
    BY <1>2
  <2> DEFINE v == MixedOnce(g[i - 1])
             h == [k \in 0 .. i |-> IF k = i THEN v ELSE g[k]]
  <2>2. h[i] = v /\ \A k \in 0 .. (i - 1) : h[k] = g[k]
    OBVIOUS
  <2>3. \A k \in 0 .. (i - 1) : g[k] = IF k = 0 THEN base ELSE MixedOnce(g[k - 1])
    BY <2>1, Zenon DEF IsMixed, base
  <2>4. h = [k \in 0 .. i |-> h[k]]
    OBVIOUS
  <2> HIDE DEF h
  <2>5. h[0] = base /\ g[i - 1] = h[i - 1]
    BY <2>2, <2>3
  <2>6. ASSUME NEW k \in 1 .. i PROVE h[k] = MixedOnce(h[k - 1])
    <3>1. CASE k = i
      BY <2>2, <2>5, <3>1
    <3>2. CASE k # i
      <4>1. k \in 0 .. (i - 1) /\ k - 1 \in 0 .. (i - 1) /\ k # 0
        BY <3>2
      <4>2. QED
        BY <2>2, <2>3, <4>1
    <3>3. QED BY <3>1, <3>2
  <2> DEFINE r == [k \in 0 .. i |-> IF k = 0 THEN base ELSE MixedOnce(h[k - 1])]
  <2>7. \A k \in 0 .. i : h[k] = r[k]
    BY <2>5, <2>6
  <2>8. h = r
    BY <2>4, <2>7
  <2>9. IsMixed(h, b, i)
    BY <2>8, Zenon DEF IsMixed, base
  <2>10. QED BY <2>9
<1> HIDE DEF T
<1>3. n \in T
  BY <1>1, <1>2, UpToInduction
<1>4. QED
  BY <1>3 DEF T

\* What mixing makes of the queues, in one of its two ways: no echo, and the
\* first queue, the microphone's, is shorter, or nothing waited beside it.
Mixed(s, b, m) ==
    /\ QueuesOK(s, m.buffers) /\ Len(m.buffers) = Len(b)
    /\ m.heard \subseteq [to : Peers \cup {Self}, from : Peers \cup {Self}]
    /\ \A h \in m.heard : h.to # h.from
    /\ Len(m.buffers[1]) < Len(b[1]) \/ (m.buffers = b /\ ~Mixes(b))

LEMMA MixingTurns ==
    ASSUME NEW s, StreamsOK(s), s = mixedStreams, HasMicrophone(s),
           NEW b, QueuesOK(s, b), NEW n \in Nat \ {0}, NEW g, IsMixed(g, b, n)
    PROVE  Mixed(s, b, g[n])
<1> DEFINE base == [buffers |-> b, heard |-> {}]
           OK(m) == /\ m = [buffers |-> m.buffers, heard |-> m.heard]
                    /\ QueuesOK(s, m.buffers) /\ Len(m.buffers) = Len(b)
                    /\ m.heard \subseteq [to : Peers \cup {Self}, from : Peers \cup {Self}]
                    /\ \A h \in m.heard : h.to # h.from
           T == {k \in 0 .. n : /\ OK(g[k])
                               /\ \/ Len(g[k].buffers[1]) < Len(b[1])
                                  \/ g[k].buffers = b /\ (k = 0 \/ ~Mixes(b))}
<1>1. g[0] = base /\ \A k \in 1 .. n : g[k] = MixedOnce(g[k - 1])
  <2>1. \A k \in 0 .. n : g[k] = IF k = 0 THEN base ELSE MixedOnce(g[k - 1])
    BY Zenon DEF IsMixed
  <2> HIDE DEF base
  <2>2. QED
    BY <2>1
<1>2. OK(base) /\ base.buffers = b
  OBVIOUS
<1> HIDE DEF base
<1>3. 0 \in T
  BY <1>1, <1>2
<1>4. ASSUME NEW k \in 1 .. n, k - 1 \in T PROVE k \in T
  <2> DEFINE m == g[k - 1]
             t == g[k]
  <2>1. /\ m = [buffers |-> m.buffers, heard |-> m.heard]
        /\ QueuesOK(s, m.buffers) /\ Len(m.buffers) = Len(b)
        /\ m.heard \subseteq [to : Peers \cup {Self}, from : Peers \cup {Self}]
        /\ \A h \in m.heard : h.to # h.from
        /\ Len(m.buffers[1]) < Len(b[1]) \/ (m.buffers = b /\ (k - 1 = 0 \/ ~Mixes(b)))
    BY <1>4
  <2>2. t = MixedOnce(m)
    BY <1>1
  <2> HIDE DEF m, t, T, OK
  <2>3. /\ t = [buffers |-> t.buffers, heard |-> t.heard]
        /\ QueuesOK(s, t.buffers) /\ Len(t.buffers) = Len(m.buffers)
        /\ t.heard \subseteq [to : Peers \cup {Self}, from : Peers \cup {Self}]
        /\ \A h \in t.heard : h.to # h.from
        /\ IF Mixes(m.buffers) THEN Len(t.buffers[1]) < Len(m.buffers[1]) ELSE t = m
    BY <2>1, <2>2, MixedOnceKeeps
  <2>4. OK(t)
    BY <2>1, <2>3 DEF OK
  <2>5. 1 \in 1 .. Len(m.buffers) /\ 1 \in 1 .. Len(b) /\ 1 \in 1 .. Len(t.buffers)
    BY <2>1, <2>3 DEF HasMicrophone, QueuesOK, StreamsOK
  <2>6. Len(m.buffers[1]) \in Nat /\ Len(b[1]) \in Nat /\ Len(t.buffers[1]) \in Nat
    BY <2>1, <2>3, <2>5, QueueTypes, LenProperties
  <2>7. \/ Len(t.buffers[1]) < Len(b[1])
        \/ t.buffers = b /\ ~Mixes(b)
    BY <2>1, <2>3, <2>6
  <2>8. QED
    BY <2>4, <2>7 DEF T, t
<1> HIDE DEF T
<1>5. n \in T
  BY <1>3, <1>4, UpToInduction
<1>6. QED
  BY <1>5 DEF T, Mixed

\* When one call has all the audio, everything that waits is taken.
LEMMA PassedOnMixes ==
    ASSUME NEW s, StreamsOK(s), s = mixedStreams, HasMicrophone(s), OneToOne,
           NEW b, QueuesOK(s, b), b[1] # <<>>
    PROVE  Mixed(s, b, PassedOn(b))
<1> DEFINE b2 == [i \in DOMAIN b |-> IF i \in DOMAIN mixedStreams THEN <<>> ELSE b[i]]
           out(i) == {[to |-> mixedStreams[3 - i].node, from |-> f.from] : f \in ToSet(b[i])}
           h2 == UNION {out(i) : i \in 1 .. 2}
           m == PassedOn(b)
<1>1. m.buffers = b2 /\ m.heard = h2
  BY DEF PassedOn
<1>2. /\ DOMAIN b = 1 .. Len(b) /\ Len(b) \in Nat /\ Len(s) <= Len(b)
      /\ Len(s) = 2 /\ DOMAIN mixedStreams = 1 .. 2
      /\ s[1].node = Self /\ s[2].node # Self /\ s[2] \in Stream
  <2>1. DOMAIN b = 1 .. Len(b) /\ Len(b) \in Nat /\ Len(s) <= Len(b)
    BY DEF QueuesOK
  <2>2. Len(s) = 2
    BY DEF OneToOne
  <2>3. DOMAIN mixedStreams = 1 .. 2 /\ s[2].node # Self /\ s[2] \in Stream
    BY <2>2 DEF StreamsOK
  <2>4. QED
    BY <2>1, <2>2, <2>3 DEF HasMicrophone
<1>3. QueuesOK(s, b2) /\ Len(b2) = Len(b)
  <2>1. \A i \in 1 .. Len(b) : b2[i] \in Seq(FramesOf(s, i))
    <3>1. SUFFICES ASSUME NEW i \in 1 .. Len(b) PROVE b2[i] \in Seq(FramesOf(s, i))
      OBVIOUS
    <3>2. b[i] \in Seq(FramesOf(s, i)) /\ <<>> \in Seq(FramesOf(s, i))
      BY QueueTypes
    <3>3. QED
      BY <1>2, <3>2
  <2>2. b2 = [i \in 1 .. Len(b) |-> b2[i]]
    BY <1>2
  <2> HIDE DEF b2
  <2>3. QED
    BY <2>1, <2>2, QueuesKept
<1>4. ASSUME NEW i \in 1 .. 2, NEW h \in out(i)
      PROVE  /\ h \in [to : Peers \cup {Self}, from : Peers \cup {Self}]
             /\ h.to # h.from
  <2>1. PICK f \in ToSet(b[i]) : h = [to |-> s[3 - i].node, from |-> f.from]
    BY <1>4
  <2>2. i \in 1 .. Len(b)
    BY <1>2
  <2>3. b[i] \in Seq(FramesOf(s, i))
    BY <2>2, QueueTypes
  <2>4. PICK k \in 1 .. Len(b[i]) : f = b[i][k]
    BY <2>3 DEF ToSet
  <2>5. f \in FramesOf(s, i)
    BY <2>3, <2>4
  <2>6. f.from = s[i].node
    BY <1>2, <2>5 DEF FramesOf, Origins
  <2>7. s[2].node \in Peers \cup {Self}
    BY <1>2 DEF Stream
  <2>8. /\ (i = 1 /\ 3 - i = 2) \/ (i = 2 /\ 3 - i = 1)
    OBVIOUS
  <2>9. QED
    BY <1>2, <2>1, <2>6, <2>7, <2>8
<1>5. Len(b2[1]) < Len(b[1])
  <2>1. b[1] \in Seq(FramesOf(s, 1)) /\ b2[1] = <<>>
    BY <1>2, QueueTypes
  <2>2. Len(b[1]) > 0
    BY <2>1
  <2>3. QED
    BY <2>1, <2>2
<1> HIDE DEF b2, out, m
<1>6. h2 \subseteq [to : Peers \cup {Self}, from : Peers \cup {Self}] /\ \A h \in h2 : h.to # h.from
  BY <1>4
<1>7. QED
  BY <1>1, <1>3, <1>5, <1>6 DEF Mixed, m

\* The queue at the end of which a frame of the microphone is put is the
\* first; the longest is as long at least.
LEMMA SurplusIs ==
    ASSUME NEW s, NEW b, QueuesOK(s, b), 1 \in 1 .. Len(b)
    PROVE  /\ Surplus(b) \in Nat
           /\ Len(b[1]) > KPreferredBufferLen => Surplus(b) > 0
<1> DEFINE lens == {Len(b[i]) : i \in DOMAIN b}
           longest == Max(lens)
<1>1. DOMAIN b = 1 .. Len(b) /\ Len(b) \in Nat /\ KPreferredBufferLen \in Nat
  BY MixerAssumption DEF QueuesOK
<1>2. \A i \in 1 .. Len(b) : Len(b[i]) \in Nat
  BY QueueTypes, LenProperties
<1>3. longest \in Nat /\ longest >= Len(b[1])
  <2> DEFINE v == [i \in 1 .. Len(b) |-> Len(b[i])]
             W == 1 .. Len(b)
  <2>1. \A i \in W : v[i] \in Nat
    BY <1>2
  <2>2. PICK i \in W : \A j \in W : v[j] <= v[i]
    BY <1>1, <2>1, GreatestValue
  <2>3. lens = {v[j] : j \in W}
    BY <1>1
  <2>4. v[i] \in lens /\ \A y \in lens : v[i] >= y
    BY <2>1, <2>2, <2>3
  <2> HIDE DEF lens
  <2>5. longest \in lens /\ \A y \in lens : longest >= y
    BY <2>4, Zenon DEF Max
  <2>6. v[1] \in lens /\ v[1] = Len(b[1])
    BY <2>3
  <2>7. longest \in Nat
    BY <2>1, <2>3, <2>5
  <2>8. QED
    BY <2>5, <2>6, <2>7
<1>4. Surplus(b) = IF longest > KPreferredBufferLen THEN longest - KPreferredBufferLen ELSE 0
  BY Zenon DEF Surplus
<1> HIDE DEF longest
<1>5. Len(b[1]) \in Nat
  BY <1>2
<1>6. QED
  BY <1>1, <1>3, <1>4, <1>5

LEMMA TryMixed ==
    ASSUME StreamsOK(mixedStreams), HasMicrophone(mixedStreams),
           NEW b, QueuesOK(mixedStreams, b), b[1] # <<>>, TryMixFrames(b)
    PROVE  \/ Mixed(mixedStreams, b, [buffers |-> buffers', heard |-> heard'])
           \/ buffers' = b /\ heard' = {} /\ Surplus(b) = 0
<1> DEFINE n == Surplus(b)
           g == CHOOSE g : g = [k \in 0 .. n |->
                   IF k = 0 THEN [buffers |-> b, heard |-> {}] ELSE MixedOnce(g[k - 1])]
           r == IF OneToOne THEN PassedOn(b) ELSE g[n]
<1>1. buffers' = r.buffers /\ heard' = r.heard
  BY Zenon DEF TryMixFrames
<1>2. 1 \in 1 .. Len(b)
  BY DEF QueuesOK, StreamsOK, HasMicrophone
<1>3. n \in Nat
  BY <1>2, SurplusIs
<1> HIDE DEF n
<1>4. IsMixed(g, b, n)
  <2>1. \E f : f = [k \in 0 .. n |->
                   IF k = 0 THEN [buffers |-> b, heard |-> {}] ELSE MixedOnce(f[k - 1])]
    <3>1. PICK f : IsMixed(f, b, n)
      BY <1>3, MixedExists
    <3>2. QED
      BY <3>1, Zenon DEF IsMixed
  <2>2. QED
    BY <2>1, Zenon DEF IsMixed
<1> HIDE DEF g
<1>5. CASE OneToOne
  <2>1. Mixed(mixedStreams, b, PassedOn(b))
    BY <1>5, PassedOnMixes
  <2>2. QED
    BY <1>1, <1>5, <2>1 DEF Mixed
<1>6. CASE ~OneToOne /\ n # 0
  <2>1. Mixed(mixedStreams, b, g[n])
    BY <1>3, <1>4, <1>6, MixingTurns
  <2>2. QED
    BY <1>1, <1>6, <2>1 DEF Mixed
<1>7. CASE ~OneToOne /\ n = 0
  <2>1. g[0] = [buffers |-> b, heard |-> {}]
    <3>1. \A k \in 0 .. n : g[k] = IF k = 0 THEN [buffers |-> b, heard |-> {}]
                                           ELSE MixedOnce(g[k - 1])
      BY <1>4, Zenon DEF IsMixed
    <3>2. QED
      BY <1>7, <3>1
  <2>2. QED
    BY <1>1, <1>7, <2>1 DEF n
<1>8. QED
  BY <1>5, <1>6, <1>7

\* The microphone is the first stream or none.
LEMMA MicrophoneIsFirst ==
    ASSUME MixerInv
    PROVE  /\ IndexesOf(Self) = IF HasMicrophone(mixedStreams) THEN {1} ELSE {}
           /\ HasMicrophone(mixedStreams) => MicrophoneQueue = buffers[1]
           /\ ~HasMicrophone(mixedStreams) => MicrophoneQueue = <<>>
<1>1. \A i \in DOMAIN mixedStreams : mixedStreams[i].node = Self => i = 1
  BY DEF MixerInv, StreamsOK
<1>2. IndexesOf(Self) = IF HasMicrophone(mixedStreams) THEN {1} ELSE {}
  BY <1>1 DEF MixerInv, StreamsOK, IndexesOf, HasMicrophone
<1>3. Max({1}) = 1
  BY MaxUpTo
<1>4. QED
  BY <1>2, <1>3 DEF MicrophoneQueue

MicrophoneIs == MicrophoneQueue = IF HasMicrophone(mixedStreams) THEN buffers[1] ELSE <<>>
LEMMA MicrophoneFound == MixerInv => MicrophoneIs
BY MicrophoneIsFirst DEF MicrophoneIs

LEMMA CapturedKeeps ==
    ASSUME MixerInv, InsertCapturedAudioFrame
    PROVE  /\ MixerInv'
           /\ ~MicrophoneFull /\ MicrophoneFull' => ~PeersWaiting'
<1>1. HasMicrophone(mixedStreams) /\ IndexesOf(Self) = {1} /\ Max({1}) = 1
  BY MicrophoneIsFirst, MaxUpTo DEF InsertCapturedAudioFrame
<1>2. PICK volume \in Volumes[Self] :
        /\ Len(buffers[1]) < KMaxBufferLen
        /\ TryMixFrames([buffers EXCEPT ![1] =
                Append(@, [from |-> Self, seq |-> 0, volume |-> volume])])
  BY <1>1, Zenon DEF InsertCapturedAudioFrame
<1> DEFINE f == [from |-> Self, seq |-> 0, volume |-> volume]
           b == [buffers EXCEPT ![1] = Append(@, f)]
<1>3. StreamsOK(mixedStreams) /\ QueuesOK(mixedStreams, buffers) /\ UNCHANGED <<mixedStreams, callsOpened>>
  BY DEF MixerInv, InsertCapturedAudioFrame
<1>4. 1 \in 1 .. Len(buffers) /\ 1 \in 1 .. Len(mixedStreams)
  BY <1>1, <1>3 DEF QueuesOK, StreamsOK, HasMicrophone
<1>5. f \in FramesOf(mixedStreams, 1)
  <2>1. volume \in UNION Range(Volumes) /\ 0 \in 0 .. MaxSeq
    BY MixerAssumption DEF Range
  <2>2. f \in AudioFrame
    BY <2>1 DEF AudioFrame
  <2>3. Self \in Origins(mixedStreams, 1)
    BY <1>1, <1>4 DEF Origins, HasMicrophone
  <2>4. QED
    BY <2>2, <2>3 DEF FramesOf
<1> HIDE DEF f
<1>6. /\ QueuesOK(mixedStreams, b) /\ Len(b) = Len(buffers)
      /\ b[1] = Append(buffers[1], f) /\ b[1] # <<>>
      /\ \A i \in 2 .. Len(buffers) : b[i] = buffers[i]
  <2>1. buffers \in Seq(Seq(AudioFrame))
    BY <1>3 DEF QueuesOK
  <2>2. b[1] = Append(buffers[1], f) /\ \A i \in 2 .. Len(buffers) : b[i] = buffers[i]
    BY <1>4, <2>1
  <2>3. b = [i \in 1 .. Len(buffers) |-> b[i]]
    <3>1. DOMAIN buffers = 1 .. Len(buffers)
      BY <2>1
    <3>2. b = [i \in DOMAIN buffers |-> b[i]]
      OBVIOUS
    <3>3. QED
      BY <3>1, <3>2
  <2>4. buffers[1] \in Seq(FramesOf(mixedStreams, 1))
    BY <1>3, <1>4, QueueTypes
  <2>5. b[1] \in Seq(FramesOf(mixedStreams, 1)) /\ b[1] # <<>>
    BY <1>5, <2>2, <2>4, AppendProperties
  <2>6. \A i \in 1 .. Len(buffers) : b[i] \in Seq(FramesOf(mixedStreams, i))
    BY <1>3, <2>2, <2>5 DEF QueuesOK
  <2> HIDE DEF b
  <2>7. QED
    BY <1>3, <2>2, <2>3, <2>5, <2>6, QueuesKept
<1>7. TryMixFrames(b)
  BY <1>2 DEF f
<1> HIDE DEF b
<1>8. \/ Mixed(mixedStreams, b, [buffers |-> buffers', heard |-> heard'])
      \/ buffers' = b /\ heard' = {} /\ Surplus(b) = 0
  BY <1>1, <1>3, <1>6, <1>7, TryMixed
<1>9. /\ QueuesOK(mixedStreams, buffers') /\ Len(buffers') = Len(b)
      /\ heard' \subseteq [to : Peers \cup {Self}, from : Peers \cup {Self}]
      /\ \A h \in heard' : h.to # h.from
  BY <1>6, <1>8 DEF Mixed
<1>10. MixerInv'
  BY <1>3, <1>9 DEF MixerInv, MixerTypeOK, StreamsOK, QueuesOK, NobodyHearsThemselves, Stream,
                  AudioFrame, Peers
<1>11. ~MicrophoneFull /\ MicrophoneFull' => ~PeersWaiting'
  <2>1. SUFFICES ASSUME ~MicrophoneFull, MicrophoneFull', PeersWaiting' PROVE FALSE
    OBVIOUS
  <2>2. MicrophoneQueue = buffers[1] /\ MicrophoneQueue' = buffers'[1]
    BY <1>1, <1>3, <1>10, MicrophoneIsFirst DEF MixerInv, IndexesOf, MicrophoneQueue
  <2>3. Len(buffers'[1]) = KMaxBufferLen /\ KMaxBufferLen \in Nat /\ KPreferredBufferLen \in Nat
        /\ KPreferredBufferLen < KMaxBufferLen
    BY <2>1, <2>2, MixerAssumption DEF MicrophoneFull
  <2>4. buffers[1] \in Seq(FramesOf(mixedStreams, 1))
    BY <1>3, <1>4, QueueTypes
  <2>5. Len(b[1]) = Len(buffers[1]) + 1
    BY <1>5, <1>6, <2>4, AppendProperties
  <2>6. Len(buffers[1]) \in Nat /\ Len(b[1]) <= KMaxBufferLen
    BY <1>2, <2>3, <2>4, <2>5
  <2>7. CASE Surplus(b) = 0 /\ buffers' = b
    <3>1. Len(b[1]) > KPreferredBufferLen
      BY <2>3, <2>7
    <3>2. Surplus(b) > 0
      BY <1>3, <1>4, <1>6, <3>1, SurplusIs
    <3>3. QED
      BY <2>7, <3>2
  <2>8. CASE Mixed(mixedStreams, b, [buffers |-> buffers', heard |-> heard'])
    <3>1. ~(Len(buffers'[1]) < Len(b[1]))
      BY <2>3, <2>5, <2>6
    <3>2. buffers' = b /\ ~Mixes(b)
      BY <2>8, <3>1 DEF Mixed
    <3>3. PICK i \in DOMAIN mixedStreams : ~(mixedStreams[i].node = Self) /\ b[i] # <<>>
      BY <1>3, <2>1, <3>2 DEF PeersWaiting, IsLocal
    <3>4. i # 1 /\ i \in 1 .. Len(b)
      BY <1>1, <1>3, <1>6, <3>3 DEF HasMicrophone, StreamsOK, QueuesOK
    <3>5. {1, i} \subseteq Waiting(b) /\ Waiting(b) \subseteq 1 .. Len(b)
      BY <1>4, <1>6, <3>3, <3>4 DEF Waiting, QueuesOK
    <3>6. Cardinality({1, i}) = 2 /\ IsFiniteSet({1, i})
      <4>1. IsFiniteSet({1}) /\ Cardinality({1}) = 1
        BY FS_Singleton
      <4>2. i \notin {1} /\ {1} \cup {i} = {1, i}
        BY <3>4
      <4>3. IsFiniteSet({1} \cup {i}) /\ Cardinality({1} \cup {i}) = 1 + 1
        BY <4>1, <4>2, FS_AddElement, Zenon
      <4>4. QED
        BY <4>2, <4>3
    <3>7. IsFiniteSet(Waiting(b))
      <4>1. IsFiniteSet(1 .. Len(b))
        <5>1. 1 \in Int /\ Len(b) \in Int
          BY <1>6 DEF QueuesOK
        <5>2. QED
          BY <5>1, FS_Interval, Zenon
      <4>2. QED
        BY <3>5, <4>1, FS_Subset
    <3>8. Cardinality(Waiting(b)) >= 2 /\ Cardinality(Waiting(b)) \in Nat
      BY <3>5, <3>6, <3>7, FS_Subset, FS_CardinalityType, Zenon
    <3>9. Head(b[1]).from = Self
      BY <1>1, <1>3, <1>6, <3>5, HeadIsStreams
    <3>10. Mixes(b)
      BY <3>5, <3>8, <3>9 DEF Mixes
    <3>11. QED
      BY <3>2, <3>10
  <2>9. QED
    BY <1>8, <2>7, <2>8
<1>12. QED
  BY <1>10, <1>11

\* Frames that belong to fewer may belong to more.
LEMMA FramesGrow ==
    ASSUME NEW s, NEW t, NEW i, NEW j, Origins(s, i) \subseteq Origins(t, j),
           NEW q \in Seq(FramesOf(s, i))
    PROVE  q \in Seq(FramesOf(t, j))
<1>1. FramesOf(s, i) \subseteq FramesOf(t, j)
  BY DEF FramesOf
<1>2. QED
  BY <1>1, SeqMonotonic

LEMMA InsertedFrame ==
    ASSUME NEW F, F \subseteq AudioFrame, NEW q \in Seq(F), NEW f \in F,
           NEW seen \in 0 .. MaxSeq
    PROVE  Inserted(q, f, seen).queue \in Seq(F) /\ Inserted(q, f, seen).seen \in 0 .. MaxSeq
<1>1. f.seq \in 0 .. MaxSeq /\ \A i \in 1 .. Len(q) : q[i].seq \in 0 .. MaxSeq
  <2>1. \A g \in F : g.seq \in 0 .. MaxSeq
    BY DEF AudioFrame
  <2>2. QED
    BY <2>1
<1>2. <<f>> \in Seq(F) /\ Append(q, f) \in Seq(F) /\ <<f>> \o q \in Seq(F)
  BY ConcatProperties, AppendProperties
<1>3. CASE seen = 0 \/ f.seq = seen + 1 \/ q = <<>>
  <2>1. Inserted(q, f, seen) = [queue |-> Append(q, f), seen |-> f.seq]
    BY <1>3, Zenon DEF Inserted
  <2>2. QED
    BY <1>1, <1>2, <2>1
<1>4. CASE ~(seen = 0 \/ f.seq = seen + 1 \/ q = <<>>)
  <2>1. Inserted(q, f, seen) =
             IF f.seq < Head(q).seq THEN [queue |-> <<f>> \o q, seen |-> Last(q).seq]
             ELSE IF Last(q).seq < f.seq THEN [queue |-> Append(q, f), seen |-> seen]
             ELSE IF Gaps(q, f.seq) = {} THEN [queue |-> q, seen |-> seen]
             ELSE [queue |-> InsertAt(q, Max(Gaps(q, f.seq)), f), seen |-> Last(q).seq]
    BY <1>4, Zenon DEF Inserted
  <2>2. Len(q) \in 1 .. Len(q) /\ Last(q).seq \in 0 .. MaxSeq
    BY <1>1, <1>4, LenProperties, EmptySeq DEF Last
  <2>3. ASSUME Gaps(q, f.seq) # {} PROVE InsertAt(q, Max(Gaps(q, f.seq)), f) \in Seq(F)
    <3> DEFINE i == Max(Gaps(q, f.seq))
    <3>1. Gaps(q, f.seq) \subseteq 1 .. Len(q) /\ Gaps(q, f.seq) \subseteq 2 .. Len(q)
      BY DEF Gaps
    <3>2. i \in 2 .. Len(q)
      BY <2>3, <3>1, MaxUpTo, LenProperties
    <3> HIDE DEF i
    <3>3. SubSeq(q, 1, i - 1) \in Seq(F) /\ SubSeq(q, i, Len(q)) \in Seq(F)
      BY <3>2, SubSeqProperties
    <3>4. SubSeq(q, 1, i - 1) \o <<f>> \in Seq(F)
      BY <1>2, <3>3, ConcatProperties
    <3>5. SubSeq(q, 1, i - 1) \o <<f>> \o SubSeq(q, i, Len(q)) \in Seq(F)
      BY <3>3, <3>4, ConcatProperties
    <3>6. QED
      BY <3>5 DEF InsertAt, i
  <2>4. QED
    BY <1>2, <2>1, <2>2, <2>3
<1>5. QED
  BY <1>3, <1>4

\* A frame of a peer goes to a queue of that peer's.
LEMMA ReceivedKeeps ==
    ASSUME MixerInv, NEW n \in Peers, InsertReceivedAudioFrame(n)
    PROVE  MixerInv' /\ (MicrophoneFull' => MicrophoneFull)
<1> DEFINE i == Max(IndexesOf(n))
<1>1. PICK seq \in 1 .. MaxSeq, volume \in Volumes[n] :
        LET after == Inserted(buffers[i], [from |-> n, seq |-> seq, volume |-> volume],
                              mixedStreams[i].seen)
        IN  /\ Len(buffers[i]) < KMaxBufferLen
            /\ buffers' = [buffers EXCEPT ![i] = after.queue]
            /\ mixedStreams' = [mixedStreams EXCEPT ![i].seen = after.seen]
  BY Zenon DEF InsertReceivedAudioFrame
<1>2. /\ IndexesOf(n) # {} /\ heard' = {} /\ callsOpened' = callsOpened
      /\ StreamsOK(mixedStreams) /\ QueuesOK(mixedStreams, buffers) /\ MixerTypeOK
  BY DEF InsertReceivedAudioFrame, MixerInv
<1>3. /\ DOMAIN mixedStreams = 1 .. Len(mixedStreams) /\ DOMAIN buffers = 1 .. Len(buffers)
      /\ Len(mixedStreams) \in Nat /\ Len(buffers) \in Nat /\ Len(mixedStreams) <= Len(buffers)
      /\ mixedStreams \in Seq(Stream)
  BY <1>2 DEF StreamsOK, QueuesOK
<1>4. i \in IndexesOf(n)
  <2>1. IndexesOf(n) \subseteq 1 .. Len(mixedStreams)
    BY <1>3 DEF IndexesOf
  <2>2. QED
    BY <1>2, <1>3, <2>1, MaxUpTo
<1> HIDE DEF i
<1>5. i \in 1 .. Len(mixedStreams) /\ i \in 1 .. Len(buffers) /\ mixedStreams[i].node = n /\ n # Self
  BY <1>3, <1>4, MixerAssumption DEF IndexesOf
<1> DEFINE f == [from |-> n, seq |-> seq, volume |-> volume]
           after == Inserted(buffers[i], f, mixedStreams[i].seen)
<1>6. f \in FramesOf(mixedStreams, i)
  <2>1. volume \in UNION Range(Volumes) /\ seq \in 0 .. MaxSeq
    <3>1. n \in DOMAIN Volumes
      BY MixerAssumption
    <3>2. seq \in 0 .. MaxSeq
      BY MixerAssumption
    <3>3. QED
      BY <3>1, <3>2 DEF Range
  <2>2. f \in AudioFrame
    BY <2>1 DEF AudioFrame
  <2>3. n \in Origins(mixedStreams, i)
    BY <1>5 DEF Origins
  <2>4. QED
    BY <2>2, <2>3 DEF FramesOf
<1>7. after.queue \in Seq(FramesOf(mixedStreams, i)) /\ after.seen \in 0 .. MaxSeq
  <2>1. buffers[i] \in Seq(FramesOf(mixedStreams, i)) /\ FramesOf(mixedStreams, i) \subseteq AudioFrame
    BY <1>2, <1>5, QueueTypes DEF FramesOf
  <2>2. mixedStreams[i] \in Stream
    BY <1>3, <1>5
  <2>3. mixedStreams[i].seen \in 0 .. MaxSeq
    BY <2>2 DEF Stream
  <2> HIDE DEF f
  <2>4. QED
    BY <1>6, <2>1, <2>3, InsertedFrame
<1>8. /\ buffers' = [buffers EXCEPT ![i] = after.queue]
      /\ mixedStreams' = [mixedStreams EXCEPT ![i].seen = after.seen]
  BY <1>1
<1> HIDE DEF f, after
<1>9. /\ DOMAIN mixedStreams' = 1 .. Len(mixedStreams) /\ Len(mixedStreams') = Len(mixedStreams)
      /\ \A j \in 1 .. Len(mixedStreams) : mixedStreams'[j].node = mixedStreams[j].node /\ mixedStreams'[j] \in Stream
      /\ mixedStreams' \in Seq(Stream)
  <2>1. \A j \in 1 .. Len(mixedStreams) : mixedStreams[j] \in Stream
    BY <1>3
  <2>2. \A j \in 1 .. Len(mixedStreams) : mixedStreams'[j].node = mixedStreams[j].node /\ mixedStreams'[j] \in Stream
    BY <1>3, <1>5, <1>7, <1>8, <2>1 DEF Stream
  <2>3. mixedStreams' = [j \in 1 .. Len(mixedStreams) |-> mixedStreams'[j]]
    BY <1>3, <1>8
  <2>4. QED
    BY <1>3, <2>2, <2>3
<1>10. StreamsOK(mixedStreams')
  BY <1>2, <1>9 DEF StreamsOK
<1>11. \A j : Origins(mixedStreams', j) = Origins(mixedStreams, j)
  BY <1>3, <1>9 DEF Origins, HasMicrophone
<1>12. QueuesOK(mixedStreams, buffers') /\ Len(buffers') = Len(buffers)
  <2>1. \A j \in 1 .. Len(buffers) : buffers[j] \in Seq(FramesOf(mixedStreams, j))
    BY <1>2 DEF QueuesOK
  <2>2. \A j \in 1 .. Len(buffers) : buffers'[j] \in Seq(FramesOf(mixedStreams, j))
    BY <1>3, <1>5, <1>7, <1>8, <2>1
  <2>3. buffers' = [j \in 1 .. Len(buffers) |-> buffers'[j]]
    BY <1>3, <1>8
  <2>4. QED
    BY <1>2, <2>2, <2>3, QueuesKept
<1>13. QueuesOK(mixedStreams', buffers')
  <2>1. \A j : FramesOf(mixedStreams', j) = FramesOf(mixedStreams, j)
    BY <1>11 DEF FramesOf
  <2>2. QED
    BY <1>9, <1>12, <2>1 DEF QueuesOK
<1>14. MixerInv'
  BY <1>2, <1>10, <1>13 DEF MixerInv, MixerTypeOK, StreamsOK, QueuesOK, NobodyHearsThemselves
<1>15. MicrophoneFull' => MicrophoneFull
  <2>1. HasMicrophone(mixedStreams') = HasMicrophone(mixedStreams)
    BY <1>3, <1>9, <1>10, <1>2 DEF HasMicrophone, StreamsOK
  <2>2. MicrophoneQueue' = IF HasMicrophone(mixedStreams') THEN buffers'[1] ELSE <<>>
    <3>1. MicrophoneIs'
      BY <1>14, MicrophoneFound, PTL
    <3>2. QED
      BY <3>1 DEF MicrophoneIs
  <2>3. MicrophoneQueue = IF HasMicrophone(mixedStreams) THEN buffers[1] ELSE <<>>
    BY MicrophoneIsFirst
  <2>4. HasMicrophone(mixedStreams) => i # 1
    BY <1>5 DEF HasMicrophone
  <2>5. HasMicrophone(mixedStreams) => buffers'[1] = buffers[1]
    BY <1>3, <1>8, <2>4
  <2>6. QED
    BY <2>1, <2>2, <2>3, <2>5 DEF MicrophoneFull
<1>10a. QED
  BY <1>14, <1>15

\* Streams are added at the end, with a queue at the end for each, and the
\* microphone with the first one only.
LEMMA WithStreamIs ==
    ASSUME StreamsOK(mixedStreams), NEW c \in MixedCalls,
           \A i \in DOMAIN mixedStreams : mixedStreams[i].call # c \/ IsLocal(i)
    PROVE  LET peer == [call |-> c, node |-> PeerOf[c], seen |-> 0]
               own == [call |-> c, node |-> Self, seen |-> 0] IN
           /\ WithStream(mixedStreams, c, PeerOf[c]) = Append(mixedStreams, peer)
           /\ mixedStreams = <<>> =>
                WithStream(WithStream(mixedStreams, c, Self), c, PeerOf[c]) = Append(<<own>>, peer)
<1> DEFINE peer == [call |-> c, node |-> PeerOf[c], seen |-> 0]
           own == [call |-> c, node |-> Self, seen |-> 0]
<1>1. PeerOf[c] \in Peers /\ PeerOf[c] # Self
  BY MixerAssumption DEF Peers
<1>2. WithStream(mixedStreams, c, PeerOf[c]) = Append(mixedStreams, peer)
  BY <1>1 DEF WithStream, IsLocal
<1>3. ASSUME mixedStreams = <<>>
      PROVE  WithStream(WithStream(mixedStreams, c, Self), c, PeerOf[c]) = Append(<<own>>, peer)
  <2>1. WithStream(<<>>, c, Self) = <<own>>
    <3>1. DOMAIN <<>> = {}
      OBVIOUS
    <3>2. WithStream(<<>>, c, Self) = Append(<<>>, own)
      BY <3>1 DEF WithStream
    <3>3. QED
      BY <3>2
  <2>2. ~\E i \in DOMAIN <<own>> : <<own>>[i].call = c
                                   /\ (<<own>>[i].node = Self <=> PeerOf[c] = Self)
    <3>1. DOMAIN <<own>> = {1} /\ <<own>>[1].node = Self
      OBVIOUS
    <3>2. QED
      BY <1>1, <3>1
  <2>3. WithStream(<<own>>, c, PeerOf[c]) = Append(<<own>>, peer)
    BY <2>2, Zenon DEF WithStream
  <2>4. QED
    BY <1>3, <2>1, <2>3
<1>4. QED
  BY <1>2, <1>3

LEMMA OpenKeeps ==
    ASSUME MixerInv, NEW c \in MixedCalls, Open(c)
    PROVE  /\ MixerInv'
           /\ ~MicrophoneFull /\ MicrophoneFull' => ~PeersWaiting'
<1> DEFINE peer == [call |-> c, node |-> PeerOf[c], seen |-> 0]
           own == [call |-> c, node |-> Self, seen |-> 0]
<1>1. PICK first \in (IF mixedStreams = <<>> THEN BOOLEAN ELSE {FALSE}) :
        LET s == WithStream(IF first THEN WithStream(mixedStreams, c, Self) ELSE mixedStreams,
                            c, PeerOf[c])
        IN  /\ mixedStreams' = s
            /\ buffers' = buffers \o [i \in 1 .. Len(s) - Len(mixedStreams) |-> <<>>]
            /\ heard' = {}
  BY Zenon DEF Open, AddCall
<1>2. /\ StreamsOK(mixedStreams) /\ QueuesOK(mixedStreams, buffers) /\ MixerTypeOK
      /\ mixedStreams \in Seq(Stream) /\ Len(mixedStreams) \in Nat /\ Len(buffers) \in Nat
      /\ Len(mixedStreams) <= Len(buffers)
      /\ callsOpened \in 0 .. MaxOpened /\ callsOpened < MaxOpened /\ callsOpened' = callsOpened + 1
  BY DEF MixerInv, StreamsOK, QueuesOK, Open, MixerTypeOK
<1>3. /\ WithStream(mixedStreams, c, PeerOf[c]) = Append(mixedStreams, peer)
      /\ mixedStreams = <<>> =>
           WithStream(WithStream(mixedStreams, c, Self), c, PeerOf[c]) = Append(<<own>>, peer)
  BY <1>2, WithStreamIs DEF Open
<1>4. peer \in Stream /\ own \in Stream /\ peer.node # Self
  BY MixerAssumption DEF Stream, Peers
<1>5. \/ mixedStreams' = Append(mixedStreams, peer)
      \/ mixedStreams = <<>> /\ mixedStreams' = Append(<<own>>, peer)
  BY <1>1, <1>3
<1>6. own.node = Self
  OBVIOUS
<1> HIDE DEF peer, own
<1> DEFINE more == Len(mixedStreams') - Len(mixedStreams)
           new == [i \in 1 .. more |-> <<>>]
<1>7. /\ mixedStreams' \in Seq(Stream) /\ Len(mixedStreams') \in Nat /\ more \in {1, 2}
      /\ \A i \in 1 .. Len(mixedStreams) : mixedStreams'[i] = mixedStreams[i]
      /\ \A i \in 2 .. Len(mixedStreams') : i > Len(mixedStreams) => mixedStreams'[i].node # Self
      /\ HasMicrophone(mixedStreams) <=> mixedStreams # <<>> /\ HasMicrophone(mixedStreams')
  <2>1. CASE mixedStreams' = Append(mixedStreams, peer)
    <3>1. /\ mixedStreams' \in Seq(Stream) /\ Len(mixedStreams') = Len(mixedStreams) + 1
          /\ \A i \in 1 .. Len(mixedStreams) : mixedStreams'[i] = mixedStreams[i]
          /\ mixedStreams'[Len(mixedStreams) + 1] = peer
      BY <1>2, <1>4, <2>1, AppendProperties
    <3>2. mixedStreams # <<>> => Len(mixedStreams) >= 1
      BY <1>2
    <3>3. QED
      BY <1>2, <1>4, <3>1, <3>2 DEF HasMicrophone
  <2>2. CASE mixedStreams = <<>> /\ mixedStreams' = Append(<<own>>, peer)
    <3> DEFINE one == <<own>>
    <3>0. one \in Seq(Stream) /\ Len(one) = 1 /\ Len(mixedStreams) = 0
      BY <1>4, <2>2
    <3> HIDE DEF one
    <3>1. /\ Len(mixedStreams) = 0 /\ Len(mixedStreams') = 2
          /\ mixedStreams' \in Seq(Stream) /\ mixedStreams'[2] = peer
      BY <1>4, <2>2, <3>0, AppendProperties DEF one
    <3>2. QED
      BY <1>4, <2>2, <3>1 DEF HasMicrophone
  <2>3. QED
    BY <1>5, <2>1, <2>2
<1>8. StreamsOK(mixedStreams')
  BY <1>2, <1>7 DEF StreamsOK
<1>9. buffers' = buffers \o new /\ heard' = {}
  BY <1>1
<1>10. /\ buffers' \in Seq(Seq(AudioFrame)) /\ Len(buffers') = Len(buffers) + more
       /\ \A i \in 1 .. (Len(buffers) + more) :
            buffers'[i] = IF i <= Len(buffers) THEN buffers[i] ELSE <<>>
  <2>1. new \in Seq(Seq(AudioFrame)) /\ Len(new) = more /\ \A i \in 1 .. more : new[i] = <<>>
    BY <1>7
  <2>2. buffers \in Seq(Seq(AudioFrame))
    BY <1>2 DEF QueuesOK
  <2> HIDE DEF new, more
  <2>3. /\ buffers \o new \in Seq(Seq(AudioFrame)) /\ Len(buffers \o new) = Len(buffers) + Len(new)
        /\ \A i \in 1 .. (Len(buffers) + Len(new)) :
             (buffers \o new)[i] = IF i <= Len(buffers) THEN buffers[i] ELSE new[i - Len(buffers)]
    BY <2>1, <2>2, ConcatProperties
  <2>4. \A i \in 1 .. (Len(buffers) + more) : ~(i <= Len(buffers)) => new[i - Len(buffers)] = <<>>
    BY <1>2, <1>7, <2>1
  <2>5. QED
    BY <1>9, <2>1, <2>3, <2>4
<1>10a. Len(mixedStreams') = Len(mixedStreams) + more
  BY <1>2, <1>7
<1> HIDE DEF new, more
<1>11. \A i \in 1 .. Len(buffers) : Origins(mixedStreams, i) \subseteq Origins(mixedStreams', i)
  <2>1. SUFFICES ASSUME NEW i \in 1 .. Len(buffers)
                 PROVE  Origins(mixedStreams, i) \subseteq Origins(mixedStreams', i)
    OBVIOUS
  <2>2. i \in 1 .. Len(mixedStreams) => i \in 1 .. Len(mixedStreams') /\ mixedStreams'[i] = mixedStreams[i]
    BY <1>2, <1>7, <1>10a
  <2>3. CASE mixedStreams # <<>>
    BY <1>7, <2>2, <2>3 DEF Origins
  <2>4. CASE mixedStreams = <<>>
    <3>1. Len(mixedStreams) = 0 /\ Origins(mixedStreams, i) \subseteq IF i = 1 THEN {Self} ELSE {}
      BY <2>4 DEF Origins
    <3>2. 1 \in 1 .. Len(mixedStreams')
      BY <1>7, <1>10a, <3>1
    <3>3. Self \in Origins(mixedStreams', 1)
      BY <3>2 DEF Origins, HasMicrophone
    <3>4. QED
      BY <3>1, <3>3
  <2>5. QED
    BY <2>3, <2>4
<1>12. QueuesOK(mixedStreams', buffers')
  <2>1. \A i \in 1 .. Len(buffers') : buffers'[i] \in Seq(FramesOf(mixedStreams', i))
    <3>1. SUFFICES ASSUME NEW i \in 1 .. Len(buffers')
                   PROVE  buffers'[i] \in Seq(FramesOf(mixedStreams', i))
      OBVIOUS
    <3>2. CASE i <= Len(buffers)
      <4>1. i \in 1 .. Len(buffers) /\ buffers'[i] = buffers[i]
        BY <1>2, <1>7, <1>10, <1>10a, <3>2
      <4>2. buffers[i] \in Seq(FramesOf(mixedStreams, i))
        BY <1>2, <4>1, QueueTypes
      <4>3. QED
        BY <1>11, <4>1, <4>2, FramesGrow
    <3>3. CASE ~(i <= Len(buffers))
      <4>1. buffers'[i] = <<>>
        BY <1>2, <1>7, <1>10, <1>10a, <3>3
      <4>2. QED
        BY <4>1
    <3>4. QED
      BY <3>2, <3>3
  <2>2. Len(mixedStreams') <= Len(buffers')
    BY <1>2, <1>7, <1>10, <1>10a
  <2>3. QED
    BY <1>10, <2>1, <2>2 DEF QueuesOK
<1>13. MixerInv'
  <2>1. callsOpened' \in 0 .. MaxOpened
    BY <1>2, MixerAssumption
  <2>2. QED
    BY <1>7, <1>8, <1>9, <1>12, <2>1 DEF MixerInv, MixerTypeOK, QueuesOK, NobodyHearsThemselves
<1>14. ~MicrophoneFull /\ MicrophoneFull' => ~PeersWaiting'
  <2>1. SUFFICES ASSUME ~MicrophoneFull, MicrophoneFull' PROVE ~PeersWaiting'
    OBVIOUS
  <2>2. MicrophoneQueue = IF HasMicrophone(mixedStreams) THEN buffers[1] ELSE <<>>
    BY MicrophoneFound DEF MicrophoneIs
  <2>3. MicrophoneQueue' = IF HasMicrophone(mixedStreams') THEN buffers'[1] ELSE <<>>
    <3>1. MicrophoneIs'
      BY <1>13, MicrophoneFound, PTL
    <3>2. QED
      BY <3>1 DEF MicrophoneIs
  <2>4. HasMicrophone(mixedStreams')
    BY <2>1, <2>3, MixerAssumption DEF MicrophoneFull
  <2>5. mixedStreams = <<>>
    <3>1. SUFFICES ASSUME mixedStreams # <<>> PROVE FALSE
      OBVIOUS
    <3>2. HasMicrophone(mixedStreams) /\ 1 \in 1 .. Len(buffers)
      BY <1>2, <1>7, <2>4, <3>1
    <3>3. buffers'[1] = buffers[1]
      BY <1>2, <1>7, <1>10, <1>10a, <3>2
    <3>4. QED
      BY <2>1, <2>2, <2>3, <2>4, <3>2, <3>3 DEF MicrophoneFull
  <2>6. ASSUME NEW i \in 1 .. Len(mixedStreams'), ~(mixedStreams'[i].node = Self) PROVE buffers'[i] = <<>>
    <3>1. i \in 2 .. Len(mixedStreams') /\ i \in 2 .. Len(buffers')
      <4>1. i # 1
        BY <2>4, <2>6 DEF HasMicrophone
      <4>2. Len(mixedStreams') <= Len(buffers') /\ Len(buffers') \in Nat /\ Len(mixedStreams') \in Nat
        BY <1>2, <1>7, <1>10, <1>10a
      <4>3. QED
        BY <2>6, <4>1, <4>2
    <3>2. CASE i <= Len(buffers)
      <4>1. i \in 1 .. Len(buffers) /\ buffers'[i] = buffers[i]
        BY <1>2, <1>7, <1>10, <1>10a, <3>1, <3>2
      <4>2. buffers[i] \in Seq(FramesOf(mixedStreams, i)) /\ FramesOf(mixedStreams, i) = {}
        BY <1>2, <2>5, <3>1, <4>1, QueueTypes DEF FramesOf, Origins
      <4>3. QED
        BY <4>1, <4>2
    <3>3. CASE ~(i <= Len(buffers))
      BY <1>2, <1>7, <1>10, <1>10a, <3>1, <3>3
    <3>4. QED
      BY <3>2, <3>3
  <2>7. QED
    BY <1>7, <2>6 DEF PeersWaiting, IsLocal
<1>15. QED
  BY <1>13, <1>14

\* What a queue may hold at the index to which it moves when a stream goes.
LEMMA OriginsMove ==
    ASSUME NEW s, StreamsOK(s), NEW i \in 1 .. Len(s), s[i].node # Self, NEW t,
           LET left == RemoveAt(s, i) IN
               t = IF Len(left) = 1 /\ left[1].node = Self THEN <<>> ELSE left,
           NEW j \in Nat \ {0}
    PROVE  Origins(s, IF j < i THEN j ELSE j + 1) \subseteq Origins(t, j)
<1> DEFINE left == RemoveAt(s, i)
           o == IF j < i THEN j ELSE j + 1
<1>1. /\ s \in Seq(Stream) /\ Len(s) \in Nat
      /\ left \in Seq(Stream) /\ Len(left) = Len(s) - 1
      /\ \A k \in 1 .. (Len(s) - 1) : left[k] = IF k < i THEN s[k] ELSE s[k + 1]
  BY RemoveAtProperties, RemoveAtEntries DEF StreamsOK
<1>2. t = IF Len(left) = 1 /\ left[1].node = Self THEN <<>> ELSE left
  OBVIOUS
<1> HIDE DEF left
<1>3. \A k \in 2 .. Len(s) : s[k].node # Self
  BY DEF StreamsOK
<1>4. o = 1 <=> j = 1 /\ i # 1
  OBVIOUS
<1>5. HasMicrophone(t) => HasMicrophone(s) /\ i # 1 /\ t = left
  <2>1. SUFFICES ASSUME HasMicrophone(t) PROVE HasMicrophone(s) /\ i # 1 /\ t = left
    OBVIOUS
  <2>2. t = left /\ left # <<>>
    BY <1>2, <2>1 DEF HasMicrophone
  <2>3. Len(left) >= 1
    BY <1>1, <2>2
  <2>4. left[1] = IF 1 < i THEN s[1] ELSE s[2]
    BY <1>1, <2>3
  <2>5. left[1].node = Self
    BY <2>1, <2>2 DEF HasMicrophone
  <2>6. i # 1
    BY <1>1, <1>3, <2>3, <2>4, <2>5
  <2>7. QED
    BY <1>1, <2>2, <2>4, <2>5, <2>6 DEF HasMicrophone
<1>6. ASSUME o \in 1 .. Len(s) PROVE s[o].node \in Origins(t, j)
  <2>1. j \in 1 .. (Len(s) - 1) /\ left[j] = s[o]
    BY <1>1, <1>6
  <2>2. CASE t = left
    <3>1. j \in 1 .. Len(t)
      BY <1>1, <2>1, <2>2
    <3>2. QED
      BY <2>1, <2>2, <3>1 DEF Origins
  <2>3. CASE t # left
    <3>1. t = <<>> /\ Len(left) = 1 /\ left[1].node = Self
      BY <1>2, <2>3
    <3>2. j = 1
      <4>1. Len(s) - 1 = 1
        BY <1>1, <3>1
      <4>2. j \in 1 .. 1
        BY <2>1, <4>1
      <4>3. QED
        BY <4>2
    <3>3. Self \in Origins(t, 1)
      BY <3>1 DEF Origins, HasMicrophone
    <3>4. QED
      BY <2>1, <3>1, <3>2, <3>3
  <2>4. QED
    BY <2>2, <2>3
<1>7. ASSUME o = 1, ~HasMicrophone(s) PROVE Self \in Origins(t, j)
  BY <1>4, <1>5, <1>7 DEF Origins
<1> HIDE DEF o
<1>8. Origins(s, o) \subseteq Origins(t, j)
  BY <1>6, <1>7 DEF Origins
<1>9. QED
  BY <1>8 DEF o

LEMMA RemoveKeeps ==
    ASSUME MixerInv, NEW c \in MixedCalls, RemoveCall(c)
    PROVE  MixerInv' /\ (MicrophoneFull' => MicrophoneFull)
<1> DEFINE those == {j \in DOMAIN mixedStreams : mixedStreams[j].call = c /\ ~IsLocal(j)}
           i == Max(those)
           left == RemoveAt(mixedStreams, i)
<1>1. /\ StreamsOK(mixedStreams) /\ QueuesOK(mixedStreams, buffers) /\ MixerTypeOK
      /\ mixedStreams \in Seq(Stream) /\ Len(mixedStreams) \in Nat /\ Len(buffers) \in Nat
      /\ Len(mixedStreams) <= Len(buffers) /\ buffers \in Seq(Seq(AudioFrame))
  BY DEF MixerInv, StreamsOK, QueuesOK
<1>2. those \subseteq 1 .. Len(mixedStreams) /\ those # {}
  <2>1. \E j \in DOMAIN mixedStreams : mixedStreams[j].call = c /\ ~IsLocal(j)
    BY DEF RemoveCall
  <2>2. DOMAIN mixedStreams = 1 .. Len(mixedStreams)
    BY <1>1
  <2>3. QED
    BY <2>1, <2>2
<1>3. i \in those
  BY <1>1, <1>2, MaxUpTo
<1>4. /\ mixedStreams' = IF Len(left) = 1 /\ left[1].node = Self THEN <<>> ELSE left
      /\ buffers' = RemoveAt(buffers, i) /\ heard' = {} /\ callsOpened' = callsOpened
  BY DEF RemoveCall
<1>5. i \in 1 .. Len(mixedStreams) /\ i \in 1 .. Len(buffers) /\ mixedStreams[i].node # Self
  BY <1>1, <1>2, <1>3 DEF IsLocal
<1> HIDE DEF i, those
<1>6. /\ left \in Seq(Stream) /\ Len(left) = Len(mixedStreams) - 1
      /\ \A k \in 1 .. (Len(mixedStreams) - 1) :
            left[k] = IF k < i THEN mixedStreams[k] ELSE mixedStreams[k + 1]
  BY <1>1, <1>5, RemoveAtProperties, RemoveAtEntries
<1>7. /\ buffers' \in Seq(Seq(AudioFrame)) /\ Len(buffers') = Len(buffers) - 1
      /\ \A k \in 1 .. (Len(buffers) - 1) :
            buffers'[k] = buffers[IF k < i THEN k ELSE k + 1]
  <2>1. \A k \in 1 .. (Len(buffers) - 1) :
            RemoveAt(buffers, i)[k] = IF k < i THEN buffers[k] ELSE buffers[k + 1]
    BY <1>1, <1>5, RemoveAtEntries
  <2>2. RemoveAt(buffers, i) \in Seq(Seq(AudioFrame)) /\ Len(RemoveAt(buffers, i)) = Len(buffers) - 1
    BY <1>1, <1>5, RemoveAtProperties
  <2>3. buffers' = RemoveAt(buffers, i)
    BY <1>4
  <2> HIDE DEF left
  <2>4. QED
    BY <2>1, <2>2, <2>3
<1>8. \A j \in Nat \ {0} : Origins(mixedStreams, IF j < i THEN j ELSE j + 1) \subseteq Origins(mixedStreams', j)
  BY <1>1, <1>4, <1>5, OriginsMove
<1>9. StreamsOK(mixedStreams') /\ Len(mixedStreams') <= Len(buffers')
  <2> HIDE DEF left
  <2>1. \A k \in 2 .. Len(mixedStreams) : mixedStreams[k].node # Self
    BY <1>1 DEF StreamsOK
  <2>2. \A k \in 2 .. Len(left) : left[k].node # Self
    <3>1. SUFFICES ASSUME NEW k \in 2 .. Len(left) PROVE left[k].node # Self
      OBVIOUS
    <3>2. k \in 1 .. (Len(mixedStreams) - 1) /\ k \in 2 .. Len(mixedStreams) /\ k + 1 \in 2 .. Len(mixedStreams)
      BY <1>1, <1>6
    <3>3. left[k] = IF k < i THEN mixedStreams[k] ELSE mixedStreams[k + 1]
      BY <1>6, <3>2
    <3>4. QED
      BY <2>1, <3>2, <3>3
  <2>3. CASE mixedStreams' = left
    BY <1>1, <1>6, <1>7, <2>2, <2>3 DEF StreamsOK
  <2>4. CASE mixedStreams' = <<>>
    <3>1. Len(mixedStreams') = 0 /\ mixedStreams' \in Seq(Stream)
      BY <2>4
    <3>2. QED
      BY <1>1, <1>5, <1>7, <3>1 DEF StreamsOK
  <2>5. QED
    BY <1>4, <2>3, <2>4
<1>10. QueuesOK(mixedStreams', buffers')
  <2>1. ASSUME NEW j \in 1 .. Len(buffers') PROVE buffers'[j] \in Seq(FramesOf(mixedStreams', j))
    <3> DEFINE o == IF j < i THEN j ELSE j + 1
    <3>1. j \in 1 .. (Len(buffers) - 1) /\ j \in Nat \ {0} /\ o \in 1 .. Len(buffers)
      BY <1>1, <1>5, <1>7
    <3>2. buffers'[j] = buffers[o] /\ Origins(mixedStreams, o) \subseteq Origins(mixedStreams', j)
      BY <1>7, <1>8, <3>1
    <3> HIDE DEF o
    <3>3. buffers[o] \in Seq(FramesOf(mixedStreams, o))
      BY <1>1, <3>1, QueueTypes
    <3>4. QED
      BY <3>2, <3>3, FramesGrow
  <2>2. QED
    BY <1>7, <1>9, <2>1 DEF QueuesOK
<1>11. MixerInv'
  BY <1>1, <1>4, <1>9, <1>10 DEF MixerInv, MixerTypeOK, StreamsOK, QueuesOK, NobodyHearsThemselves
<1>12. MicrophoneFull' => MicrophoneFull
  <2>1. MicrophoneQueue = IF HasMicrophone(mixedStreams) THEN buffers[1] ELSE <<>>
    BY MicrophoneFound DEF MicrophoneIs
  <2>2. MicrophoneQueue' = IF HasMicrophone(mixedStreams') THEN buffers'[1] ELSE <<>>
    <3>1. MicrophoneIs'
      BY <1>11, MicrophoneFound, PTL
    <3>2. QED
      BY <3>1 DEF MicrophoneIs
  <2>3. ASSUME MicrophoneFull' PROVE MicrophoneFull
    <3>1. HasMicrophone(mixedStreams')
      BY <2>2, <2>3, MixerAssumption DEF MicrophoneFull
    <3>2. mixedStreams' = left /\ left # <<>> /\ left[1].node = Self
      BY <1>4, <3>1 DEF HasMicrophone
    <3> HIDE DEF left
    <3>3. Len(left) >= 1
      BY <1>6, <3>2
    <3>4. left[1] = IF 1 < i THEN mixedStreams[1] ELSE mixedStreams[2]
      BY <1>6, <3>3
    <3>5. 1 < i /\ mixedStreams[1].node = Self
      BY <1>1, <1>5, <1>6, <3>2, <3>3, <3>4 DEF StreamsOK
    <3>6. HasMicrophone(mixedStreams)
      BY <1>1, <1>5, <3>5 DEF HasMicrophone
    <3>7. buffers'[1] = buffers[1]
      <4>1. 1 \in 1 .. (Len(buffers) - 1)
        BY <1>1, <1>5, <3>5
      <4>2. buffers'[1] = buffers[IF 1 < i THEN 1 ELSE 1 + 1]
        BY <1>7, <4>1
      <4>3. QED
        BY <3>5, <4>2
    <3>8. QED
      BY <2>1, <2>2, <2>3, <3>1, <3>6, <3>7 DEF MicrophoneFull
  <2>4. QED
    BY <2>3
<1>13. QED
  BY <1>11, <1>12

LEMMA MixerStarts == MixerInit => MixerInv
<1>1. SUFFICES ASSUME MixerInit PROVE MixerInv
  OBVIOUS
<1>2. mixedStreams = <<>> /\ buffers = <<>> /\ heard = {} /\ callsOpened = 0 /\ MaxOpened \in Nat
  BY <1>1, MixerAssumption DEF MixerInit
<1>3. \A S : <<>> \in Seq(S) /\ Len(<<>>) = 0
  OBVIOUS
<1>4. QED
  BY <1>2, <1>3 DEF MixerInv, MixerTypeOK, StreamsOK, QueuesOK, NobodyHearsThemselves

LEMMA MixerStep ==
    MixerInv /\ [MixerNext]_mixerVars =>
        MixerInv' /\ (~MicrophoneFull /\ MicrophoneFull' => ~PeersWaiting')
<1>1. SUFFICES ASSUME MixerInv, [MixerNext]_mixerVars
               PROVE  MixerInv' /\ (~MicrophoneFull /\ MicrophoneFull' => ~PeersWaiting')
  OBVIOUS
<1>2. ASSUME NEW c \in MixedCalls, Open(c)
      PROVE  MixerInv' /\ (~MicrophoneFull /\ MicrophoneFull' => ~PeersWaiting')
  BY <1>1, <1>2, OpenKeeps
<1>3. ASSUME NEW c \in MixedCalls, RemoveCall(c)
      PROVE  MixerInv' /\ (~MicrophoneFull /\ MicrophoneFull' => ~PeersWaiting')
  BY <1>1, <1>3, RemoveKeeps
<1>4. ASSUME NEW n \in Peers, InsertReceivedAudioFrame(n)
      PROVE  MixerInv' /\ (~MicrophoneFull /\ MicrophoneFull' => ~PeersWaiting')
  BY <1>1, <1>4, ReceivedKeeps
<1>5. ASSUME InsertCapturedAudioFrame
      PROVE  MixerInv' /\ (~MicrophoneFull /\ MicrophoneFull' => ~PeersWaiting')
  BY <1>1, <1>5, CapturedKeeps
<1>6. ASSUME UNCHANGED mixerVars
      PROVE  MixerInv' /\ (~MicrophoneFull /\ MicrophoneFull' => ~PeersWaiting')
  <2>1. MixerInv'
    BY <1>1, <1>6 DEF mixerVars, MixerInv, MixerTypeOK, StreamsOK, QueuesOK, NobodyHearsThemselves
  <2>2. MicrophoneFull' <=> MicrophoneFull
    BY <1>6 DEF mixerVars, MicrophoneFull, MicrophoneQueue, IndexesOf
  <2>3. QED
    BY <2>1, <2>2
<1>7. QED
  BY <1>1, <1>2, <1>3, <1>4, <1>5, <1>6 DEF MixerNext

\* audiomixer.cpp:346: "here nobody should hear echo of own voice". A frame is
\* never sent back to the node where it was captured, for any calls, peers and
\* lengths of the queues, though queues outlive their streams.
THEOREM NobodyEverHearsThemselves ==
    MixerSpec => []NobodyHearsThemselves
<1>1. MixerInit => MixerInv
  BY MixerStarts
<1>2. MixerInv /\ [MixerNext]_mixerVars => MixerInv'
  BY MixerStep
<1>3. MixerInv => NobodyHearsThemselves
  BY DEF MixerInv
<1>4. QED
  BY <1>1, <1>2, <1>3, PTL DEF MixerSpec

\* AudioMixer::insertCapturedAudioFrame and tryMixFrames: the microphone's
\* queue never gets full while a frame of a peer waits to be mixed with it.
THEOREM QueueFillsInSilenceOnly ==
    MixerSpec => FillsInSilenceOnly
<1>1. MixerInit => MixerInv
  BY MixerStarts
<1>2. MixerInv /\ [MixerNext]_mixerVars => MixerInv'
  BY MixerStep
<1>3. MixerInv /\ [MixerNext]_mixerVars =>
        [~MicrophoneFull /\ MicrophoneFull' => ~PeersWaiting']_mixerVars
  BY MixerStep
<1>4. QED
  BY <1>1, <1>2, <1>3, PTL DEF MixerSpec, FillsInSilenceOnly

(***************************************************************************)
(* The two ends of a call (Calls). What is said about a call at one end is *)
(* its inbox, the entries of pending about it, followed by what is on its  *)
(* way: the messages the other end has sent. u and v stand for the two, O  *)
(* for the entries that offer or accept the call and N for those that end  *)
(* it. The inductive invariant CallsIInv has a part about the shape of the *)
(* state, CallsStructure, and one for each call. EndInv says that an end   *)
(* that has lost its connection will give up the call, LinkInv that as     *)
(* long as the ends differ a message or a report is under way that makes   *)
(* them agree. EndsAgree alone says nothing of a state with something      *)
(* under way, so that it is not inductive.                                 *)
(***************************************************************************)

\* Of the inbox u and what is on its way to it, v: an entry of S is in one of them.
Coming(u, v, S) == (\E i \in DOMAIN u : u[i] \in S) \/ (\E j \in DOMAIN v : v[j] \in S)
\* Every entry of O is followed by one of N.
Answered(u, v, O, N) ==
    /\ \A i \in DOMAIN u : u[i] \in O =>
         (\E k \in DOMAIN u : k > i /\ u[k] \in N) \/ (\E j \in DOMAIN v : v[j] \in N)
    /\ \A i \in DOMAIN v : v[i] \in O => \E k \in DOMAIN v : k > i /\ v[k] \in N
\* x is in the sequence s.
Holds(s, x) == \E k \in DOMAIN s : s[k] = x
\* The queue of events e reports the loss of p after an event of the inbox.
Stale(e, p) == \E k, l \in DOMAIN e : k < l /\ e[k] = "process" /\ e[l] = p
\* What of the inbox u, with the events e, is not overtaken by such a report.
Kept(u, e, p) == IF Stale(e, p) THEN <<>> ELSE u

\* Taking the first entry of the inbox, as processCallData does.
LEMMA TakenFromInbox ==
    ASSUME NEW M, NEW u \in Seq(M), NEW v \in Seq(M), NEW O, NEW N, O \cap N = {}, u # <<>>
    PROVE  /\ \A S : Coming(u, v, S) <=> Head(u) \in S \/ Coming(Tail(u), v, S)
           /\ Answered(u, v, O, N) => Answered(Tail(u), v, O, N)
           /\ Answered(u, v, O, N) /\ Head(u) \in O => Coming(Tail(u), v, N)
           /\ ~Answered(u, v, O, N) /\ Head(u) \notin O => ~Answered(Tail(u), v, O, N)
<1> DEFINE t == Tail(u)
<1>1. /\ Len(u) \in Nat \ {0} /\ DOMAIN u = 1 .. Len(u) /\ Head(u) = u[1]
      /\ DOMAIN t = 1 .. (Len(u) - 1) /\ \A i \in 1 .. (Len(u) - 1) : t[i] = u[i + 1]
  BY HeadTailProperties, LenProperties
<1> HIDE DEF t
<1>2. \A i \in DOMAIN u : i = 1 \/ (i - 1 \in DOMAIN t /\ t[i - 1] = u[i])
  BY <1>1
<1>3. \A i \in DOMAIN t : i + 1 \in DOMAIN u /\ t[i] = u[i + 1] /\ i \in Nat \ {0}
  BY <1>1
<1>4. 1 \in DOMAIN u /\ u[1] = Head(u) /\ \A i \in DOMAIN u : i \in Nat
  BY <1>1
<1>5. \A S : (\E i \in DOMAIN u : u[i] \in S) <=> Head(u) \in S \/ \E i \in DOMAIN t : t[i] \in S
  BY <1>2, <1>3, <1>4
<1>6. \A i \in DOMAIN t : (\E k \in DOMAIN u : k > i + 1 /\ u[k] \in N) <=>
                          (\E k \in DOMAIN t : k > i /\ t[k] \in N)
  <2>1. SUFFICES ASSUME NEW i \in DOMAIN t
                 PROVE  (\E k \in DOMAIN u : k > i + 1 /\ u[k] \in N) <=>
                        (\E k \in DOMAIN t : k > i /\ t[k] \in N)
    OBVIOUS
  <2>2. ASSUME NEW k \in DOMAIN u, k > i + 1, u[k] \in N PROVE k - 1 \in DOMAIN t /\ k - 1 > i /\ t[k - 1] \in N
    BY <1>2, <1>3, <1>4, <2>1, <2>2
  <2>3. ASSUME NEW k \in DOMAIN t, k > i, t[k] \in N PROVE k + 1 \in DOMAIN u /\ k + 1 > i + 1 /\ u[k + 1] \in N
    BY <1>3, <2>1, <2>3
  <2>4. QED
    BY <2>2, <2>3
<1>7. Answered(u, v, O, N) => Answered(t, v, O, N)
  BY <1>3, <1>6 DEF Answered
<1>8. Answered(u, v, O, N) /\ Head(u) \in O => Coming(t, v, N)
  BY <1>4, <1>5 DEF Answered, Coming
<1>9. Answered(t, v, O, N) /\ Head(u) \notin O => Answered(u, v, O, N)
  <2>1. SUFFICES ASSUME Answered(t, v, O, N), Head(u) \notin O, NEW i \in DOMAIN u, u[i] \in O
                 PROVE  (\E k \in DOMAIN u : k > i /\ u[k] \in N) \/ (\E j \in DOMAIN v : v[j] \in N)
    BY DEF Answered
  <2>2. i # 1 /\ i - 1 \in DOMAIN t /\ t[i - 1] \in O /\ (i - 1) + 1 = i
    BY <1>2, <1>4, <2>1
  <2>3. (\E k \in DOMAIN t : k > i - 1 /\ t[k] \in N) \/ (\E j \in DOMAIN v : v[j] \in N)
    BY <2>1, <2>2 DEF Answered
  <2>4. QED
    BY <1>6, <2>2, <2>3
<1>10. QED
  BY <1>5, <1>7, <1>8, <1>9 DEF Coming, t

\* Sending a message to the inbox.
LEMMA SentToInbox ==
    ASSUME NEW M, NEW u \in Seq(M), NEW v \in Seq(M), NEW m \in M, NEW O, NEW N, O \cap N = {}
    PROVE  /\ \A S : Coming(u, Append(v, m), S) <=> Coming(u, v, S) \/ m \in S
           /\ m \in N => Answered(u, Append(v, m), O, N)
           /\ m \notin O /\ Answered(u, v, O, N) => Answered(u, Append(v, m), O, N)
           /\ m \in O => ~Answered(u, Append(v, m), O, N)
           /\ m \notin N /\ ~Answered(u, v, O, N) => ~Answered(u, Append(v, m), O, N)
<1> DEFINE w == Append(v, m)
           n == Len(v)
<1>1. /\ n \in Nat /\ DOMAIN v = 1 .. n /\ DOMAIN w = 1 .. (n + 1)
      /\ \A i \in 1 .. n : w[i] = v[i]
      /\ w[n + 1] = m
  BY AppendProperties, LenProperties
<1> HIDE DEF w, n
<1>2. /\ n + 1 \in DOMAIN w /\ \A i \in DOMAIN v : i \in DOMAIN w /\ w[i] = v[i] /\ n + 1 > i
      /\ \A i \in DOMAIN w : i \in DOMAIN v \/ i = n + 1
      /\ \A k \in DOMAIN w : ~(k > n + 1)
  BY <1>1
<1>3. \A S : (\E j \in DOMAIN w : w[j] \in S) <=> (\E j \in DOMAIN v : v[j] \in S) \/ m \in S
  BY <1>1, <1>2
<1>4. m \in N => Answered(u, w, O, N)
  BY <1>1, <1>2, <1>3 DEF Answered
<1>5. m \notin O /\ Answered(u, v, O, N) => Answered(u, w, O, N)
  BY <1>1, <1>2, <1>3 DEF Answered
<1>6. m \in O => ~Answered(u, w, O, N)
  BY <1>1, <1>2 DEF Answered
<1>7. m \notin N /\ Answered(u, w, O, N) => Answered(u, v, O, N)
  <2>1. SUFFICES ASSUME m \notin N, Answered(u, w, O, N) PROVE Answered(u, v, O, N)
    OBVIOUS
  <2>2. \A i \in DOMAIN v : v[i] \in O => \E k \in DOMAIN v : k > i /\ v[k] \in N
    BY <1>1, <1>2, <2>1 DEF Answered
  <2>3. QED
    BY <1>3, <2>1, <2>2 DEF Answered
<1>8. QED
  BY <1>3, <1>4, <1>5, <1>6, <1>7 DEF Coming, w

\* Entries put behind those that wait, among which there are no Ok ones.
LEMMA AddedToInbox ==
    ASSUME NEW M, NEW u \in Seq(M), NEW v \in Seq(M), NEW w \in Seq(M), NEW O, NEW N,
           \A i \in DOMAIN w : w[i] \notin O
    PROVE  /\ \A S : Coming(u \o w, v, S) <=> Coming(u, v, S) \/ \E i \in DOMAIN w : w[i] \in S
           /\ \A S : (\E i \in DOMAIN u : u[i] \in S) => \E i \in DOMAIN (u \o w) : (u \o w)[i] \in S
           /\ Answered(u, v, O, N) => Answered(u \o w, v, O, N)
           /\ (\A i \in DOMAIN w : w[i] \notin N) /\ ~Answered(u, v, O, N) =>
                ~Answered(u \o w, v, O, N)
           /\ (\A i \in DOMAIN u : u[i] \notin O) => \A i \in DOMAIN (u \o w) : (u \o w)[i] \notin O
<1> DEFINE t == u \o w
<1>1. /\ Len(u) \in Nat /\ Len(w) \in Nat /\ DOMAIN u = 1 .. Len(u) /\ DOMAIN w = 1 .. Len(w)
      /\ DOMAIN t = 1 .. (Len(u) + Len(w))
      /\ \A i \in 1 .. (Len(u) + Len(w)) : t[i] = IF i <= Len(u) THEN u[i] ELSE w[i - Len(u)]
  BY ConcatProperties, LenProperties
<1> HIDE DEF t
<1>2. \A i \in DOMAIN u : i \in DOMAIN t /\ t[i] = u[i] /\ i \in Nat
  BY <1>1
<1>3. \A i \in DOMAIN w : Len(u) + i \in DOMAIN t /\ t[Len(u) + i] = w[i] /\ i \in Nat \ {0}
  BY <1>1
<1>4. \A i \in DOMAIN t : i \in Nat /\
        (i \in DOMAIN u \/ (i - Len(u) \in DOMAIN w /\ t[i] = w[i - Len(u)]))
  BY <1>1
<1>5. \A S : (\E i \in DOMAIN t : t[i] \in S) <=>
             (\E i \in DOMAIN u : u[i] \in S) \/ \E i \in DOMAIN w : w[i] \in S
  BY <1>2, <1>3, <1>4
<1>6. Answered(u, v, O, N) => Answered(t, v, O, N)
  BY <1>2, <1>4 DEF Answered
<1>7. (\A i \in DOMAIN w : w[i] \notin N) /\ Answered(t, v, O, N) => Answered(u, v, O, N)
  BY <1>2, <1>4 DEF Answered
<1>8. QED
  BY <1>2, <1>4, <1>5, <1>6, <1>7 DEF Coming, t

\* The same of the inbox t that comes of it, as one fact.
BehindOthers(u, v, w, O, N, t) ==
    /\ \A S : Coming(u, v, S) => Coming(t, v, S)
    /\ \A S : (\E i \in DOMAIN u : u[i] \in S) => \E i \in DOMAIN t : t[i] \in S
    /\ Answered(u, v, O, N) => Answered(t, v, O, N)
    /\ (\A i \in DOMAIN w : w[i] \notin N) /\ ~Answered(u, v, O, N) => ~Answered(t, v, O, N)
    /\ (\A i \in DOMAIN u : u[i] \notin O) => \A i \in DOMAIN t : t[i] \notin O

\* Entries put behind those that wait leave what the inbox promises.
LEMMA PutBehindOthers ==
    ASSUME NEW M, NEW u \in Seq(M), NEW v \in Seq(M), NEW w \in Seq(M), NEW O, NEW N,
           \A i \in DOMAIN w : w[i] \notin O, NEW t, t = u \o w
    PROVE  BehindOthers(u, v, w, O, N, t)
<1>1. /\ Len(u) \in Nat /\ Len(w) \in Nat /\ DOMAIN u = 1 .. Len(u) /\ DOMAIN w = 1 .. Len(w)
      /\ DOMAIN t = 1 .. (Len(u) + Len(w))
      /\ \A i \in 1 .. (Len(u) + Len(w)) : t[i] = IF i <= Len(u) THEN u[i] ELSE w[i - Len(u)]
  BY ConcatProperties, LenProperties
<1>2. \A i \in DOMAIN u : i \in DOMAIN t /\ t[i] = u[i] /\ i \in Nat
  BY <1>1
<1>3. \A i \in DOMAIN t : i \in Nat /\
        (i \in DOMAIN u \/ (i - Len(u) \in DOMAIN w /\ t[i] = w[i - Len(u)]))
  BY <1>1
<1>4. \A S : (\E i \in DOMAIN u : u[i] \in S) => \E i \in DOMAIN t : t[i] \in S
  BY <1>2
<1>5. \A S : Coming(u, v, S) => Coming(t, v, S)
  BY <1>4 DEF Coming
<1>6. Answered(u, v, O, N) => Answered(t, v, O, N)
  BY <1>2, <1>3 DEF Answered
<1>7. (\A i \in DOMAIN w : w[i] \notin N) /\ Answered(t, v, O, N) => Answered(u, v, O, N)
  BY <1>2, <1>3 DEF Answered
<1>8. (\A i \in DOMAIN u : u[i] \notin O) => \A i \in DOMAIN t : t[i] \notin O
  BY <1>2, <1>3
<1>9. QED
  BY <1>4, <1>5, <1>6, <1>7, <1>8 DEF BehindOthers

\* An entry goes from the way to those that wait.
LEMMA MovedInInbox ==
    ASSUME NEW M, NEW u \in Seq(M), NEW v \in Seq(M), v # <<>>, NEW O, NEW N
    PROVE  /\ \A S : Coming(Append(u, Head(v)), Tail(v), S) <=> Coming(u, v, S)
           /\ Answered(u, v, O, N) => Answered(Append(u, Head(v)), Tail(v), O, N)
           /\ ~Answered(u, v, O, N) => ~Answered(Append(u, Head(v)), Tail(v), O, N)
           /\ Answered(<<>>, v, O, N) => Answered(<<>>, Tail(v), O, N)
           /\ \A S : (\E i \in DOMAIN u : u[i] \in S) =>
                \E i \in DOMAIN Append(u, Head(v)) : Append(u, Head(v))[i] \in S
<1> DEFINE t == Append(u, Head(v))
           w == Tail(v)
           n == Len(u)
<1>1. /\ n \in Nat /\ DOMAIN u = 1 .. n /\ DOMAIN t = 1 .. (n + 1)
      /\ \A i \in 1 .. n : t[i] = u[i]
      /\ t[n + 1] = v[1]
  BY HeadTailProperties, AppendProperties, LenProperties
<1>2. /\ Len(v) \in Nat \ {0} /\ DOMAIN v = 1 .. Len(v)
      /\ DOMAIN w = 1 .. (Len(v) - 1) /\ \A i \in 1 .. (Len(v) - 1) : w[i] = v[i + 1]
  BY HeadTailProperties, LenProperties
<1> HIDE DEF t, w, n
<1>3. /\ \A i \in DOMAIN u : i \in DOMAIN t /\ t[i] = u[i] /\ n + 1 > i /\ i \in Nat
      /\ n + 1 \in DOMAIN t
      /\ \A i \in DOMAIN t : i \in DOMAIN u \/ i = n + 1
      /\ \A i \in DOMAIN t : ~(i > n + 1)
  BY <1>1
<1>4. /\ 1 \in DOMAIN v
      /\ \A i \in DOMAIN v : i \in Nat /\ (i = 1 \/ (i > 1 /\ i - 1 \in DOMAIN w /\ w[i - 1] = v[i]))
      /\ \A i \in DOMAIN w : i + 1 \in DOMAIN v /\ w[i] = v[i + 1] /\ i \in Nat /\ i + 1 > 1
  BY <1>2
<1>5. \A S : (\E i \in DOMAIN v : v[i] \in S) <=> v[1] \in S \/ \E i \in DOMAIN w : w[i] \in S
  BY <1>4
<1>6. \A S : (\E i \in DOMAIN t : t[i] \in S) <=> v[1] \in S \/ \E i \in DOMAIN u : u[i] \in S
  BY <1>1, <1>3
<1>7. (\E k \in DOMAIN v : k > 1 /\ v[k] \in N) <=> \E k \in DOMAIN w : w[k] \in N
  BY <1>4
<1>8. \A i \in DOMAIN w : (\E k \in DOMAIN v : k > i + 1 /\ v[k] \in N) <=>
                          \E k \in DOMAIN w : k > i /\ w[k] \in N
  <2>1. SUFFICES ASSUME NEW i \in DOMAIN w
                 PROVE  (\E k \in DOMAIN v : k > i + 1 /\ v[k] \in N) <=>
                        \E k \in DOMAIN w : k > i /\ w[k] \in N
    OBVIOUS
  <2>2. ASSUME NEW k \in DOMAIN v, k > i + 1, v[k] \in N
        PROVE  k - 1 \in DOMAIN w /\ k - 1 > i /\ w[k - 1] \in N
    BY <1>4, <2>1, <2>2
  <2>3. ASSUME NEW k \in DOMAIN w, k > i, w[k] \in N
        PROVE  k + 1 \in DOMAIN v /\ k + 1 > i + 1 /\ v[k + 1] \in N
    BY <1>4, <2>1, <2>3
  <2>4. QED
    BY <2>2, <2>3
<1>9. (\A i \in DOMAIN v : v[i] \in O => \E k \in DOMAIN v : k > i /\ v[k] \in N) <=>
        /\ v[1] \in O => \E k \in DOMAIN w : w[k] \in N
        /\ \A i \in DOMAIN w : w[i] \in O => \E k \in DOMAIN w : k > i /\ w[k] \in N
  <2>1. ASSUME NEW i \in DOMAIN w,
               v[i + 1] \in O => \E k \in DOMAIN v : k > i + 1 /\ v[k] \in N
        PROVE  w[i] \in O => \E k \in DOMAIN w : k > i /\ w[k] \in N
    BY <1>4, <1>8, <2>1
  <2>2. ASSUME NEW i \in DOMAIN v, i # 1,
               w[i - 1] \in O => \E k \in DOMAIN w : k > i - 1 /\ w[k] \in N
        PROVE  v[i] \in O => \E k \in DOMAIN v : k > i /\ v[k] \in N
    <3>1. i - 1 \in DOMAIN w /\ w[i - 1] = v[i] /\ (i - 1) + 1 = i
      BY <1>4, <2>2
    <3>2. QED
      BY <1>8, <2>2, <3>1
  <2>3. QED
    BY <1>4, <1>7, <2>1, <2>2
<1>10. (\A i \in DOMAIN t : t[i] \in O =>
           (\E k \in DOMAIN t : k > i /\ t[k] \in N) \/ (\E j \in DOMAIN w : w[j] \in N)) <=>
        /\ \A i \in DOMAIN u : u[i] \in O =>
             (\E k \in DOMAIN u : k > i /\ u[k] \in N) \/ (\E j \in DOMAIN v : v[j] \in N)
        /\ v[1] \in O => \E k \in DOMAIN w : w[k] \in N
  <2>1. \A i \in DOMAIN u : (\E k \in DOMAIN t : k > i /\ t[k] \in N) <=>
                            (\E k \in DOMAIN u : k > i /\ u[k] \in N) \/ v[1] \in N
    BY <1>1, <1>3
  <2>2. ~\E k \in DOMAIN t : k > n + 1 /\ t[k] \in N
    BY <1>3
  <2>3. QED
    BY <1>1, <1>3, <1>5, <2>1, <2>2
<1>11. Answered(t, w, O, N) <=> Answered(u, v, O, N)
  BY <1>9, <1>10 DEF Answered
<1>12. Answered(<<>>, v, O, N) => Answered(<<>>, w, O, N)
  BY <1>9 DEF Answered
<1>13. QED
  BY <1>5, <1>6, <1>11, <1>12 DEF Coming, t, w

\* The first event is handled.
LEMMA EventTaken ==
    ASSUME NEW E, NEW e \in Seq(E), e # <<>>
    PROVE  /\ \A y : Holds(e, y) <=> Head(e) = y \/ Holds(Tail(e), y)
           /\ \A p : Stale(Tail(e), p) => Stale(e, p)
           /\ \A p : Head(e) # "process" /\ Stale(e, p) => Stale(Tail(e), p)
<1> DEFINE t == Tail(e)
<1>1. /\ Len(e) \in Nat \ {0} /\ DOMAIN e = 1 .. Len(e) /\ Head(e) = e[1]
      /\ DOMAIN t = 1 .. (Len(e) - 1) /\ \A i \in 1 .. (Len(e) - 1) : t[i] = e[i + 1]
  BY HeadTailProperties, LenProperties
<1> HIDE DEF t
<1>2. /\ 1 \in DOMAIN e /\ Head(e) = e[1]
      /\ \A i \in DOMAIN e : i \in Nat /\ (i = 1 \/ (i - 1 \in DOMAIN t /\ t[i - 1] = e[i]))
      /\ \A i \in DOMAIN t : i \in Nat /\ i + 1 \in DOMAIN e /\ t[i] = e[i + 1]
  BY <1>1
<1>3. \A y : Holds(e, y) <=> Head(e) = y \/ Holds(t, y)
  <2>1. ASSUME NEW y, Holds(e, y) PROVE Head(e) = y \/ Holds(t, y)
    <3>1. PICK i \in DOMAIN e : e[i] = y
      BY <2>1 DEF Holds
    <3>2. CASE i = 1
      BY <1>2, <3>1, <3>2
    <3>3. CASE i # 1
      BY <1>2, <3>1, <3>3 DEF Holds
    <3>4. QED
      BY <3>2, <3>3
  <2>2. ASSUME NEW y, Head(e) = y \/ Holds(t, y) PROVE Holds(e, y)
    <3>1. CASE Head(e) = y
      BY <1>2, <3>1 DEF Holds
    <3>2. CASE Holds(t, y)
      BY <1>2, <3>2 DEF Holds
    <3>3. QED
      BY <2>2, <3>1, <3>2
  <2>3. QED
    BY <2>1, <2>2
<1>4. ASSUME NEW p, Stale(t, p) PROVE Stale(e, p)
  <2>1. PICK k, l \in DOMAIN t : k < l /\ t[k] = "process" /\ t[l] = p
    BY <1>4 DEF Stale
  <2>2. k + 1 \in DOMAIN e /\ l + 1 \in DOMAIN e /\ k + 1 < l + 1
        /\ e[k + 1] = "process" /\ e[l + 1] = p
    BY <1>2, <2>1
  <2>3. QED
    BY <2>2 DEF Stale
<1>5. ASSUME NEW p, Head(e) # "process", Stale(e, p) PROVE Stale(t, p)
  <2>1. PICK k, l \in DOMAIN e : k < l /\ e[k] = "process" /\ e[l] = p
    BY <1>5 DEF Stale
  <2>2. k # 1 /\ l # 1
    BY <1>1, <1>5, <2>1
  <2>3. k - 1 \in DOMAIN t /\ l - 1 \in DOMAIN t /\ k - 1 < l - 1
        /\ t[k - 1] = "process" /\ t[l - 1] = p
    BY <1>2, <2>1, <2>2
  <2>4. QED
    BY <2>3 DEF Stale
<1>6. QED
  BY <1>3, <1>4, <1>5 DEF t

\* An event is queued.
LEMMA EventAdded ==
    ASSUME NEW E, NEW e \in Seq(E), NEW x \in E
    PROVE  /\ \A y : Holds(Append(e, x), y) <=> Holds(e, y) \/ x = y
           /\ \A p : x # p => (Stale(Append(e, x), p) <=> Stale(e, p))
           /\ Holds(e, "process") => Stale(Append(e, x), x)
<1> DEFINE t == Append(e, x)
           n == Len(e)
<1>1. /\ n \in Nat /\ DOMAIN e = 1 .. n /\ DOMAIN t = 1 .. (n + 1)
      /\ \A i \in 1 .. n : t[i] = e[i]
      /\ t[n + 1] = x
  BY AppendProperties, LenProperties
<1> HIDE DEF t, n
<1>2. /\ n + 1 \in DOMAIN t /\ t[n + 1] = x
      /\ \A i \in DOMAIN e : i \in DOMAIN t /\ t[i] = e[i] /\ i < n + 1
      /\ \A i \in DOMAIN t : i \in DOMAIN e \/ i = n + 1
      /\ \A i \in DOMAIN t : ~(n + 1 < i)
  BY <1>1
<1>3. \A y : Holds(t, y) <=> Holds(e, y) \/ x = y
  BY <1>2 DEF Holds
<1>4. \A p : x # p => (Stale(t, p) <=> Stale(e, p))
  BY <1>2 DEF Stale
<1>5. Holds(e, "process") => Stale(t, x)
  BY <1>2 DEF Stale, Holds
<1>6. QED
  BY <1>3, <1>4, <1>5 DEF t

\* Several calls of processCallData are queued.
LEMMA EventsAdded ==
    ASSUME NEW E, NEW e \in Seq(E), NEW w \in Seq(E), \A i \in DOMAIN w : w[i] = "process"
    PROVE  /\ \A y : Holds(e, y) => Holds(e \o w, y)
           /\ \A p : p # "process" => (Stale(e \o w, p) <=> Stale(e, p))
           /\ w # <<>> => Holds(e \o w, "process")
<1> DEFINE t == e \o w
<1>1. /\ Len(e) \in Nat /\ Len(w) \in Nat /\ DOMAIN e = 1 .. Len(e) /\ DOMAIN w = 1 .. Len(w)
      /\ DOMAIN t = 1 .. (Len(e) + Len(w))
      /\ \A i \in 1 .. (Len(e) + Len(w)) : t[i] = IF i <= Len(e) THEN e[i] ELSE w[i - Len(e)]
      /\ w # <<>> => Len(w) # 0
  BY ConcatProperties, LenProperties, EmptySeq
<1> HIDE DEF t
<1>2. /\ \A i \in DOMAIN e : i \in DOMAIN t /\ t[i] = e[i]
      /\ \A i \in DOMAIN t : i \in DOMAIN e \/ t[i] = "process"
  BY <1>1
<1>3. \A y : Holds(e, y) => Holds(t, y)
  BY <1>2 DEF Holds
<1>4. \A p : p # "process" => (Stale(t, p) <=> Stale(e, p))
  <2>1. SUFFICES ASSUME NEW p, p # "process" PROVE Stale(t, p) <=> Stale(e, p)
    OBVIOUS
  <2>2. ASSUME Stale(t, p) PROVE Stale(e, p)
    <3>1. PICK k, l \in DOMAIN t : k < l /\ t[k] = "process" /\ t[l] = p
      BY <2>2 DEF Stale
    <3>2. l \in DOMAIN e
      BY <1>2, <2>1, <3>1
    <3>3. k \in DOMAIN e
      BY <1>1, <3>1, <3>2
    <3>4. QED
      BY <1>2, <3>1, <3>2, <3>3 DEF Stale
  <2>3. Stale(e, p) => Stale(t, p)
    BY <1>2 DEF Stale
  <2>4. QED
    BY <2>2, <2>3
<1>5. w # <<>> => Holds(t, "process")
  <2>1. SUFFICES ASSUME w # <<>> PROVE Holds(t, "process")
    OBVIOUS
  <2>2. Len(e) + 1 \in DOMAIN t /\ t[Len(e) + 1] = "process"
    BY <1>1, <2>1
  <2>3. QED
    BY <2>2 DEF Holds
<1>6. QED
  BY <1>3, <1>4, <1>5 DEF t

-----------------------------------------------------------------------------
\* The two nodes of a call.
Parties(c) == {Caller[c], Callee[c]}
\* The entries an inbox may hold: only the caller gets one of its own, when it places the
\* call, with no key.
ForNode(n) ==
    {m \in Message : /\ n \in Parties(m.call) /\ m.from \in Parties(m.call)
                     /\ m.from = n => n = Caller[m.call] /\ m.ok /\ m.key = "none"}
\* The messages p sends to n.
Between(p, n) == {m \in Message : m.from = p /\ p \in Parties(m.call) /\ n = Peer(p, m.call)}
\* A call as n may keep it: the caller's is never Incoming, the callee's never Initial, and
\* the callee opens it with a key only.
CallAt(n, c) ==
    {k \in Call : /\ k.state \in (IF n = Caller[c] THEN {"Initial", "Open"} ELSE {"Incoming", "Open"})
                  /\ n = Callee[c] /\ k.state = "Open" => k.key # "none"}
\* What holds whatever is under way: the inboxes hold what may be sent to them, the lists
\* are finite, and an inbox with entries has an event that processes them.
CallsStructure ==
    /\ CallsTypeOK
    /\ \A n \in Nodes : pending[n] \in Seq(ForNode(n))
    /\ \A p, n \in Nodes : wire[<<p, n>>] \in Seq(Between(p, n))
    /\ \A n \in Nodes : IsFiniteSet(OnGoing(n))
    /\ \A n \in Nodes : \A c \in OnGoing(n) : n \in Parties(c) /\ calls[n][c] \in CallAt(n, c)
    /\ \A n \in Nodes : pending[n] # <<>> => Holds(events[n], "process")

\* A call has two parties, each the peer of the other.
LEMMA PartiesAre ==
    ASSUME NEW c \in CallIds
    PROVE  /\ Caller[c] \in Nodes /\ Callee[c] \in Nodes /\ Caller[c] # Callee[c]
           /\ Peer(Caller[c], c) = Callee[c] /\ Peer(Callee[c], c) = Caller[c]
           /\ \A n \in Parties(c) : n \in Nodes /\ Peer(n, c) \in Parties(c) /\ Peer(n, c) # n
                                    /\ Peer(Peer(n, c), c) = n
           /\ \A n \in Parties(c) : \A m \in Parties(c) : m = n \/ m = Peer(n, c)
<1>1. Caller[c] \in Nodes /\ Callee[c] \in Nodes /\ Caller[c] # Callee[c]
  BY PartiesAssumption
<1>2. QED
  BY <1>1 DEF Parties, Peer

\* The event of an inbox is not taken for the report of a node.
LEMMA NodesAreNotProcess == \A n \in Nodes : n # "process"
  BY PartiesAssumption

\* What asJSon writes about a call.
LEMMA MessageIs ==
    ASSUME NEW c \in CallIds, NEW n \in Parties(c), NEW call \in Call
    PROVE  /\ AsMessage(n, c, call) \in Between(n, Peer(n, c))
           /\ AsMessage(n, c, call) \in Message
           /\ AsMessage(n, c, call).call = c /\ AsMessage(n, c, call).from = n
           /\ AsMessage(n, c, call).ok = call.ok
           /\ AsMessage(n, c, call).key = IF call.key = "key" THEN "key" ELSE "none"
<1>1. n \in Nodes
  BY PartiesAre
<1>2. call.ok \in BOOLEAN
  BY DEF Call
<1>3. QED
  BY <1>1, <1>2 DEF AsMessage, Message, Between

\* What the other ends may see once a message was sent, or was not.
LEMMA SentIs ==
    ASSUME CallsStructure, NEW c \in CallIds, NEW n \in Parties(c), NEW call \in Call
    PROVE  LET w == SentToRemote(n, c, call) IN
           /\ w \in [Nodes \X Nodes -> Seq(Message)]
           /\ \A x, y \in Nodes : w[<<x, y>>] \in Seq(Between(x, y))
           /\ \A x, y \in Nodes :
                w[<<x, y>>] = IF x = n /\ y = Peer(n, c) /\ y \in connected[n]
                              THEN Append(wire[<<x, y>>], AsMessage(n, c, call))
                              ELSE wire[<<x, y>>]
<1> DEFINE w == SentToRemote(n, c, call)
           p == Peer(n, c)
           m == AsMessage(n, c, call)
<1>1. n \in Nodes /\ p \in Nodes /\ n # p
  BY PartiesAre
<1>2. wire \in [Nodes \X Nodes -> Seq(Message)] /\ \A x, y \in Nodes : wire[<<x, y>>] \in Seq(Between(x, y))
  BY DEF CallsStructure, CallsTypeOK
<1>3. m \in Message /\ m \in Between(n, p)
  BY MessageIs
<1> HIDE DEF m, p
<1>4. /\ Append(wire[<<n, p>>], m) \in Seq(Message)
      /\ Append(wire[<<n, p>>], m) \in Seq(Between(n, p))
  BY <1>1, <1>2, <1>3, AppendProperties
<1>5. w = IF p \in connected[n] THEN [wire EXCEPT ![<<n, p>>] = Append(@, m)] ELSE wire
  BY DEF SentToRemote, p, m
<1> HIDE DEF w
<1>6. w \in [Nodes \X Nodes -> Seq(Message)]
  BY <1>1, <1>2, <1>4, <1>5
<1>7. \A x, y \in Nodes :
        w[<<x, y>>] = IF x = n /\ y = p /\ y \in connected[n]
                      THEN Append(wire[<<x, y>>], m) ELSE wire[<<x, y>>]
  <2>1. SUFFICES ASSUME NEW x \in Nodes, NEW y \in Nodes
                 PROVE w[<<x, y>>] = IF x = n /\ y = p /\ y \in connected[n]
                                     THEN Append(wire[<<x, y>>], m) ELSE wire[<<x, y>>]
    OBVIOUS
  <2>2. <<x, y>> \in Nodes \X Nodes /\ (<<x, y>> = <<n, p>> <=> x = n /\ y = p)
    BY <2>1
  <2>3. QED
    BY <1>2, <1>5, <2>2
<1>8. \A x, y \in Nodes : w[<<x, y>>] \in Seq(Between(x, y))
  BY <1>2, <1>4, <1>7
<1>9. QED
  BY <1>6, <1>7, <1>8 DEF w, p, m

\* The lists of calls a node may have.
CallLists == UNION {[S -> Call] : S \in SUBSET CallIds}

\* What is known of one node's list.
LEMMA ListsAre ==
    ASSUME CallsStructure, NEW n \in Nodes
    PROVE  /\ calls \in [Nodes -> CallLists] /\ OnGoing(n) \subseteq CallIds
           /\ calls[n] \in [OnGoing(n) -> Call] /\ IsFiniteSet(OnGoing(n))
           /\ \A c \in OnGoing(n) : n \in Parties(c) /\ calls[n][c] \in CallAt(n, c) /\ calls[n][c] \in Call
<1>1. calls \in [Nodes -> CallLists]
  BY DEF CallsStructure, CallsTypeOK, CallLists
<1>2. PICK S \in SUBSET CallIds : calls[n] \in [S -> Call]
  BY <1>1 DEF CallLists
<1>3. OnGoing(n) = S
  BY <1>2 DEF OnGoing
<1>4. QED
  BY <1>1, <1>2, <1>3 DEF CallsStructure

\* A list of calls that one node gets, by the calls in it.
CallsFine(cs) ==
    /\ cs \in [Nodes -> CallLists]
    /\ \A n \in Nodes : IsFiniteSet(DOMAIN cs[n])
    /\ \A n \in Nodes : \A c \in DOMAIN cs[n] : n \in Parties(c) /\ cs[n][c] \in CallAt(n, c)

\* A node's list of calls replaced by another one.
LEMMA ListChanged ==
    ASSUME CallsStructure, NEW n \in Nodes, NEW S, S \subseteq CallIds, IsFiniteSet(S),
           NEW list \in [S -> Call],
           \A c \in S : n \in Parties(c) /\ list[c] \in CallAt(n, c)
    PROVE  CallsFine([calls EXCEPT ![n] = list])
<1> DEFINE cs == [calls EXCEPT ![n] = list]
<1>1. calls \in [Nodes -> CallLists] /\ list \in CallLists
  BY ListsAre DEF CallLists
<1>2. cs \in [Nodes -> CallLists] /\ cs[n] = list /\ \A x \in Nodes : x # n => cs[x] = calls[x]
  BY <1>1
<1> HIDE DEF cs
<1>3. \A x \in Nodes : IsFiniteSet(DOMAIN cs[x])
  BY <1>2, ListsAre DEF OnGoing
<1>4. \A x \in Nodes : \A c \in DOMAIN cs[x] : x \in Parties(c) /\ cs[x][c] \in CallAt(x, c)
  BY <1>2, ListsAre DEF OnGoing
<1>5. QED
  BY <1>2, <1>3, <1>4 DEF CallsFine, cs

\* addCallToArray adds or replaces one call and leaves the others alone.
LEMMA WithIsFine ==
    ASSUME CallsStructure, NEW c \in CallIds, NEW n \in Parties(c), NEW call \in CallAt(n, c)
    PROVE  LET cs == With(n, c, call) IN
           /\ CallsFine(cs)
           /\ DOMAIN cs[n] = OnGoing(n) \cup {c} /\ cs[n][c] = call
           /\ \A d \in OnGoing(n) : d # c => cs[n][d] = calls[n][d]
           /\ \A x \in Nodes : x # n => cs[x] = calls[x]
<1> DEFINE S == OnGoing(n) \cup {c}
           list == [d \in S |-> IF d = c THEN call ELSE calls[n][d]]
<1>1. n \in Nodes
  BY PartiesAre
<1>2. S \subseteq CallIds /\ IsFiniteSet(S) /\ list \in [S -> Call]
  BY <1>1, ListsAre, FS_AddElement DEF CallAt
<1>3. \A d \in S : n \in Parties(d) /\ list[d] \in CallAt(n, d)
  BY <1>1, ListsAre
<1>4. CallsFine([calls EXCEPT ![n] = list])
  BY <1>1, <1>2, <1>3, ListChanged
<1>5. With(n, c, call) = [calls EXCEPT ![n] = list]
  BY DEF With
<1>6. calls \in [Nodes -> CallLists]
  BY <1>1, ListsAre
<1>7. QED
  BY <1>1, <1>4, <1>5, <1>6

\* removeCallFromArray removes one call and leaves the others alone.
LEMMA WithoutIsFine ==
    ASSUME CallsStructure, NEW c \in CallIds, NEW n \in Nodes, RemoveCallFromArray(n, c)
    PROVE  /\ CallsFine(calls') /\ audio' \subseteq Nodes
           /\ DOMAIN calls'[n] = OnGoing(n) \ {c}
           /\ \A d \in OnGoing(n) : d # c => calls'[n][d] = calls[n][d]
           /\ \A x \in Nodes : x # n => calls'[x] = calls[x]
<1> DEFINE S == OnGoing(n) \ {c}
           list == [d \in S |-> calls[n][d]]
<1>1. S \subseteq CallIds /\ IsFiniteSet(S) /\ list \in [S -> Call]
  BY ListsAre, FS_Subset
<1>2. \A d \in S : n \in Parties(d) /\ list[d] \in CallAt(n, d)
  BY ListsAre
<1>3. CallsFine([calls EXCEPT ![n] = list])
  BY <1>1, <1>2, ListChanged
<1>4. calls' = [calls EXCEPT ![n] = list]
  BY DEF RemoveCallFromArray
<1>5. calls \in [Nodes -> CallLists]
  BY ListsAre
<1>6. audio' \subseteq Nodes
  BY DEF RemoveCallFromArray, SetupAudio, CallsStructure, CallsTypeOK
<1>7. QED
  BY <1>3, <1>4, <1>5, <1>6

\* The streams stay what they are when one is inserted or removed.
LEMMA StreamsAre ==
    ASSUME CallsStructure, NEW n \in Nodes, NEW c \in CallIds
    PROVE  /\ AddCallToMixer(n, c) \in [Nodes -> SUBSET (CallIds \X {"mic", "peer"})]
           /\ RemoveCallFromMixer(n, c) \in [Nodes -> SUBSET (CallIds \X {"mic", "peer"})]
<1>1. streams \in [Nodes -> SUBSET (CallIds \X {"mic", "peer"})]
  BY DEF CallsStructure, CallsTypeOK
<1>2. /\ InsertStream(streams[n], c, "mic") \in SUBSET (CallIds \X {"mic", "peer"})
      /\ InsertStream(streams[n], c, "peer") \in SUBSET (CallIds \X {"mic", "peer"})
      /\ InsertStream(InsertStream(streams[n], c, "mic"), c, "peer") \in SUBSET (CallIds \X {"mic", "peer"})
      /\ RemoveStream(streams[n], c) \in SUBSET (CallIds \X {"mic", "peer"})
  BY <1>1 DEF InsertStream, RemoveStream
<1>3. AddCallToMixer(n, c) \in [Nodes -> SUBSET (CallIds \X {"mic", "peer"})]
  BY <1>1, <1>2 DEF AddCallToMixer
<1>4. RemoveCallFromMixer(n, c) \in [Nodes -> SUBSET (CallIds \X {"mic", "peer"})]
  BY <1>1, <1>2 DEF RemoveCallFromMixer
<1>5. QED
  BY <1>3, <1>4

\* What processCallData does with an entry.
Handles(n, m) ==
    \/ CallEnds(n, m) \/ CallIsAnswered(n, m) \/ NewOutgoingCall(n, m)
    \/ CallIsRefused(n, m) \/ NewIncomingCall(n, m) \/ Ignored(n, m)

\* Every message is on its way between the parties of its call.
WireFine(w) ==
    /\ w \in [Nodes \X Nodes -> Seq(Message)]
    /\ \A p, n \in Nodes : w[<<p, n>>] \in Seq(Between(p, n))
\* The streams in the nodes' mixers.
StreamLists == [Nodes -> SUBSET (CallIds \X {"mic", "peer"})]

\* What CallsStructure says, variable by variable.
LEMMA StructureParts ==
    ASSUME CallsStructure
    PROVE  /\ CallsFine(calls) /\ WireFine(wire) /\ streams \in StreamLists
           /\ audio \subseteq Nodes /\ excused \subseteq CallIds
           /\ pending \in [Nodes -> Seq(Message)]
           /\ \A n \in Nodes : pending[n] \in Seq(ForNode(n))
           /\ events \in [Nodes -> Seq(Nodes \cup {"process"})]
           /\ connected \in [Nodes -> SUBSET Nodes]
           /\ busy \subseteq Nodes /\ drops \in 0 .. MaxDrops /\ acts \in 0 .. MaxActs
           /\ started \subseteq CallIds /\ accepted \subseteq CallIds
           /\ ended \subseteq Nodes \X CallIds
<1>1. CallsFine(calls)
  BY DEF CallsFine, CallsStructure, CallsTypeOK, CallLists, OnGoing
<1>2. QED
  BY <1>1 DEF CallsStructure, CallsTypeOK, WireFine, StreamLists

\* What processCallData does with an entry, in each of its cases.
LEMMA HandlingIsFine ==
    ASSUME CallsStructure, NEW n \in Nodes, NEW m \in ForNode(n), Handles(n, m)
    PROVE  /\ CallsFine(calls') /\ WireFine(wire') /\ streams' \in StreamLists
           /\ audio' \subseteq Nodes /\ excused' \subseteq CallIds
<1> DEFINE Fine == /\ CallsFine(calls') /\ WireFine(wire') /\ streams' \in StreamLists
                   /\ audio' \subseteq Nodes /\ excused' \subseteq CallIds
<1>1. /\ m.call \in CallIds /\ n \in Parties(m.call) /\ m.ok \in BOOLEAN
      /\ m.key \in {"none", "key"}
  BY DEF ForNode, Message
<1>2. /\ CallsFine(calls) /\ WireFine(wire) /\ streams \in StreamLists
      /\ audio \subseteq Nodes /\ excused \subseteq CallIds
  BY StructureParts
<1>3. m.call \in OnGoing(n) => calls[n][m.call] \in CallAt(n, m.call) /\ calls[n][m.call] \in Call
  BY ListsAre
<1>4. CASE CallEnds(n, m)
  <2> DEFINE closed == [calls[n][m.call] EXCEPT !.ok = FALSE]
  <2>1. closed \in Call
    BY <1>3, <1>4 DEF CallEnds, Call
  <2>2. wire' = SentToRemote(n, m.call, closed)
    BY <1>4 DEF CallEnds
  <2> HIDE DEF closed
  <2>3. WireFine(wire')
    BY <1>1, <2>1, <2>2, SentIs DEF WireFine
  <2>4. CallsFine(calls') /\ audio' \subseteq Nodes
    BY <1>1, <1>4, WithoutIsFine DEF CallEnds
  <2>5. streams' \in StreamLists /\ excused' = excused
    BY <1>1, <1>4, StreamsAre DEF CallEnds, StreamLists
  <2>6. QED
    BY <1>2, <2>3, <2>4, <2>5
<1>5. CASE CallIsAnswered(n, m)
  <2> DEFINE call == [calls[n][m.call] EXCEPT !.state = "Open"]
  <2>1. call \in CallAt(n, m.call)
    <3>1. m.call \in OnGoing(n) /\ calls[n][m.call].state = "Initial"
      BY <1>5 DEF CallIsAnswered
    <3>2. n = Caller[m.call] /\ n # Callee[m.call]
      BY <1>1, <1>3, <3>1, PartiesAre DEF CallAt, Parties
    <3>3. call \in Call /\ call.state = "Open"
      BY <1>3, <3>1 DEF Call, States
    <3> HIDE DEF call
    <3>4. QED
      BY <3>2, <3>3 DEF CallAt
  <2>2. /\ calls' = With(n, m.call, call) /\ SetupAudio(n, call.ok)
        /\ streams' \in {AddCallToMixer(n, m.call), streams}
        /\ wire' = wire /\ excused' = excused
    BY <1>5 DEF CallIsAnswered, BecomeOpen
  <2> HIDE DEF call
  <2>3. CallsFine(calls')
    BY <1>1, <2>1, <2>2, WithIsFine
  <2>4. audio' \subseteq Nodes /\ streams' \in StreamLists
    BY <1>1, <1>2, <2>2, StreamsAre DEF SetupAudio, StreamLists
  <2>5. QED
    BY <1>2, <2>2, <2>3, <2>4
<1>6. CASE NewOutgoingCall(n, m)
  <2> DEFINE call == [state |-> "Initial", ok |-> m.ok, key |-> m.key]
  <2>1. call \in Call /\ call.state = "Initial"
    BY <1>1 DEF Call, States, Keys
  <2>1a. n = Caller[m.call] /\ n # Callee[m.call]
    BY <1>1, <1>6, PartiesAre DEF NewOutgoingCall
  <2>1b. call \in CallAt(n, m.call)
    BY <2>1, <2>1a DEF CallAt
  <2>2. /\ calls' = With(n, m.call, call) /\ wire' = SentToRemote(n, m.call, call)
        /\ streams' = streams /\ audio' = audio
        /\ excused' \subseteq excused \cup {m.call}
    BY <1>6 DEF NewOutgoingCall
  <2> HIDE DEF call
  <2>3. CallsFine(calls')
    BY <1>1, <2>1b, <2>2, WithIsFine
  <2>4. WireFine(wire')
    BY <1>1, <2>1, <2>2, SentIs DEF WireFine
  <2>5. QED
    BY <1>1, <1>2, <2>2, <2>3, <2>4
<1>7. CASE CallIsRefused(n, m)
  <2> DEFINE call == [state |-> "Initial", ok |-> FALSE, key |-> m.key]
  <2>1. call \in Call
    BY <1>1 DEF Call, States, Keys
  <2>2. wire' = SentToRemote(n, m.call, call) /\ UNCHANGED <<calls, audio, streams, excused>>
    BY <1>7 DEF CallIsRefused
  <2> HIDE DEF call
  <2>3. WireFine(wire')
    BY <1>1, <2>1, <2>2, SentIs DEF WireFine
  <2>4. QED
    BY <1>2, <2>2, <2>3
<1>8. CASE NewIncomingCall(n, m)
  <2> DEFINE call == [state |-> "Incoming", ok |-> m.ok, key |-> m.key]
  <2>1. call \in Call /\ call.state = "Incoming"
    BY <1>1 DEF Call, States, Keys
  <2>2. n # Caller[m.call]
    BY <1>8 DEF NewIncomingCall
  <2>3. call \in CallAt(n, m.call)
    BY <2>1, <2>2 DEF CallAt
  <2>4. calls' = With(n, m.call, call) /\ UNCHANGED <<wire, audio, streams, excused>>
    BY <1>8 DEF NewIncomingCall
  <2> HIDE DEF call
  <2>5. CallsFine(calls')
    BY <1>1, <2>3, <2>4, WithIsFine
  <2>6. QED
    BY <1>2, <2>4, <2>5
<1>9. CASE Ignored(n, m)
  BY <1>2, <1>9 DEF Ignored
<1>10. QED
  BY <1>4, <1>5, <1>6, <1>7, <1>8, <1>9 DEF Handles

\* The parts together are the invariant again.
LEMMA StructureFromParts ==
    ASSUME CallsFine(calls'), WireFine(wire'), streams' \in StreamLists,
           audio' \subseteq Nodes, excused' \subseteq CallIds,
           pending' \in [Nodes -> Seq(Message)],
           \A n \in Nodes : pending'[n] \in Seq(ForNode(n)),
           events' \in [Nodes -> Seq(Nodes \cup {"process"})],
           \A n \in Nodes : pending'[n] # <<>> => Holds(events'[n], "process"),
           connected' \in [Nodes -> SUBSET Nodes],
           busy' \subseteq Nodes, drops' \in 0 .. MaxDrops, acts' \in 0 .. MaxActs,
           started' \subseteq CallIds, accepted' \subseteq CallIds,
           ended' \subseteq Nodes \X CallIds
    PROVE  CallsStructure'
<1>1. CallsTypeOK'
  BY DEF CallsTypeOK, CallsFine, WireFine, StreamLists, CallLists
<1>2. QED
  BY <1>1 DEF CallsStructure, CallsFine, WireFine, OnGoing

\* Changes of the entries that wait at one node.
LEMMA PendingChanged ==
    ASSUME CallsStructure, NEW n \in Nodes, NEW s \in Seq(ForNode(n))
    PROVE  LET q == [pending EXCEPT ![n] = s] IN
           /\ q \in [Nodes -> Seq(Message)] /\ \A x \in Nodes : q[x] \in Seq(ForNode(x))
           /\ q[n] = s /\ \A x \in Nodes : x # n => q[x] = pending[x]
<1>1. pending \in [Nodes -> Seq(Message)] /\ \A x \in Nodes : pending[x] \in Seq(ForNode(x))
  BY StructureParts
<1>2. s \in Seq(Message)
  <2>1. ForNode(n) \subseteq Message
    BY DEF ForNode
  <2>2. QED
    BY <2>1, SeqMonotonic
<1>3. QED
  BY <1>1, <1>2

\* One node's events replaced.
LEMMA EventsChanged ==
    ASSUME CallsStructure, NEW n \in Nodes, NEW s \in Seq(Nodes \cup {"process"})
    PROVE  LET q == [events EXCEPT ![n] = s] IN
           /\ q \in [Nodes -> Seq(Nodes \cup {"process"})]
           /\ q[n] = s /\ \A x \in Nodes : x # n => q[x] = events[x]
  BY StructureParts

\* A step of processCallData keeps the structure.
LEMMA HandlingKeepsStructure ==
    ASSUME CallsStructure, NEW n \in Nodes, ProcessCallData(n)
    PROVE  CallsStructure' /\ Head(pending[n]) \in ForNode(n) /\ Handles(n, Head(pending[n]))
<1> DEFINE m == Head(pending[n])
<1>1. /\ events[n] # <<>> /\ Head(events[n]) = "process" /\ pending[n] # <<>>
      /\ pending' = [pending EXCEPT ![n] = Tail(@)]
      /\ IF Len(pending[n]) = 1 THEN busy' = busy \ {n} /\ Finished(n)
         ELSE busy' = busy \cup {n} /\ UNCHANGED events
      /\ Handles(n, m)
      /\ UNCHANGED <<connected, drops, acts, started, accepted, ended>>
  BY DEF ProcessCallData, Handles
<1>2. /\ pending[n] \in Seq(ForNode(n)) /\ events[n] \in Seq(Nodes \cup {"process"})
      /\ pending \in [Nodes -> Seq(Message)] /\ events \in [Nodes -> Seq(Nodes \cup {"process"})]
      /\ busy \subseteq Nodes
  BY StructureParts
<1>3. /\ m \in ForNode(n) /\ Tail(pending[n]) \in Seq(ForNode(n))
      /\ Len(Tail(pending[n])) = Len(pending[n]) - 1 /\ Len(pending[n]) \in Nat
      /\ Tail(events[n]) \in Seq(Nodes \cup {"process"})
  BY <1>1, <1>2, HeadTailProperties
<1> HIDE DEF m
<1>4. /\ CallsFine(calls') /\ WireFine(wire') /\ streams' \in StreamLists
      /\ audio' \subseteq Nodes /\ excused' \subseteq CallIds
  BY <1>1, <1>3, HandlingIsFine
<1>5. /\ pending' \in [Nodes -> Seq(Message)] /\ \A x \in Nodes : pending'[x] \in Seq(ForNode(x))
      /\ pending'[n] = Tail(pending[n]) /\ \A x \in Nodes : x # n => pending'[x] = pending[x]
  BY <1>1, <1>3, PendingChanged
<1>6. /\ events' \in [Nodes -> Seq(Nodes \cup {"process"})]
      /\ \A x \in Nodes : x # n => events'[x] = events[x]
      /\ Len(pending[n]) # 1 => events'[n] = events[n]
  <2>1. CASE Len(pending[n]) = 1
    <3>1. events' = [events EXCEPT ![n] = Tail(events[n])]
      BY <1>1, <2>1 DEF Finished
    <3>2. QED
      BY <1>3, <2>1, <3>1, EventsChanged
  <2>2. CASE Len(pending[n]) # 1
    <3>1. events' = events
      BY <1>1, <2>2
    <3>2. QED
      BY <1>2, <3>1
  <2>3. QED
    BY <2>1, <2>2
<1>7. busy' \subseteq Nodes
  BY <1>1, <1>2
<1>8. \A x \in Nodes : pending'[x] # <<>> => Holds(events'[x], "process")
  <2>1. Len(pending[n]) = 1 => Tail(pending[n]) = <<>>
    <3>1. Len(pending[n]) = 1 => Len(Tail(pending[n])) = 0
      BY <1>3
    <3>2. QED
      BY <1>3, <3>1, EmptySeq
  <2>2. Holds(events[n], "process") /\ \A x \in Nodes : pending[x] # <<>> => Holds(events[x], "process")
    BY <1>1 DEF CallsStructure
  <2>3. pending'[n] # <<>> => Holds(events'[n], "process")
    BY <1>5, <1>6, <2>1, <2>2
  <2>4. ASSUME NEW x \in Nodes, x # n PROVE pending'[x] # <<>> => Holds(events'[x], "process")
    <3>1. pending'[x] = pending[x] /\ events'[x] = events[x]
      BY <1>5, <1>6, <2>4
    <3>2. QED
      BY <2>2, <3>1
  <2>5. QED
    BY <2>3, <2>4
<1>9. CallsStructure'
  BY <1>1, <1>4, <1>5, <1>6, <1>7, <1>8, StructureParts, StructureFromParts
<1>10. QED
  BY <1>1, <1>3, <1>9 DEF m

\* An entry and the event that goes with it (insertCallStatusData).
LEMMA InsertIsFine ==
    ASSUME CallsStructure, NEW n \in Nodes, NEW m \in ForNode(n), Insert(n, m)
    PROVE  /\ pending' \in [Nodes -> Seq(Message)]
           /\ \A x \in Nodes : pending'[x] \in Seq(ForNode(x))
           /\ events' \in [Nodes -> Seq(Nodes \cup {"process"})]
           /\ pending'[n] = Append(pending[n], m) /\ events'[n] = Append(events[n], "process")
           /\ \A x \in Nodes : x # n => pending'[x] = pending[x] /\ events'[x] = events[x]
           /\ \A x \in Nodes : pending'[x] # <<>> => Holds(events'[x], "process")
<1>1. pending[n] \in Seq(ForNode(n)) /\ events[n] \in Seq(Nodes \cup {"process"})
  BY StructureParts
<1>2. Append(pending[n], m) \in Seq(ForNode(n)) /\ Append(events[n], "process") \in Seq(Nodes \cup {"process"})
  BY <1>1, AppendProperties
<1>3. /\ pending' = [pending EXCEPT ![n] = Append(pending[n], m)]
      /\ events' = [events EXCEPT ![n] = Append(events[n], "process")]
  BY DEF Insert
<1>4. /\ pending' \in [Nodes -> Seq(Message)] /\ \A x \in Nodes : pending'[x] \in Seq(ForNode(x))
      /\ pending'[n] = Append(pending[n], m) /\ \A x \in Nodes : x # n => pending'[x] = pending[x]
  BY <1>2, <1>3, PendingChanged
<1>5. /\ events' \in [Nodes -> Seq(Nodes \cup {"process"})]
      /\ events'[n] = Append(events[n], "process") /\ \A x \in Nodes : x # n => events'[x] = events[x]
  BY <1>2, <1>3, EventsChanged
<1>6. Holds(events'[n], "process")
  BY <1>1, <1>5, EventAdded
<1>7. QED
  BY <1>4, <1>5, <1>6 DEF CallsStructure

\* So do the operator's steps and a call of processCallData that finds nothing.
LEMMA OthersKeepStructure ==
    ASSUME CallsStructure, NEW n \in Nodes
    PROVE  /\ NothingPending(n) => CallsStructure'
           /\ \A c \in CallIds : StartCall(n, c) \/ AcceptCall(n, c) \/ CloseCall(n, c) => CallsStructure'
<1>1. ASSUME NothingPending(n) PROVE CallsStructure'
  <2>1. /\ events[n] # <<>> /\ pending[n] = <<>> /\ events' = [events EXCEPT ![n] = Tail(events[n])]
        /\ UNCHANGED <<engineVars, netVars, historyVars>>
    BY <1>1 DEF NothingPending, Finished
  <2>2. Tail(events[n]) \in Seq(Nodes \cup {"process"})
    BY <2>1, StructureParts, HeadTailProperties
  <2>3. /\ events' \in [Nodes -> Seq(Nodes \cup {"process"})]
        /\ \A x \in Nodes : x # n => events'[x] = events[x]
    BY <2>1, <2>2, EventsChanged
  <2>4. \A x \in Nodes : pending'[x] # <<>> => Holds(events'[x], "process")
    BY <2>1, <2>3 DEF engineVars, CallsStructure
  <2>5. QED
    BY <2>1, <2>3, <2>4, StructureParts, StructureFromParts DEF engineVars, netVars, historyVars
<1>2. ASSUME NEW c \in CallIds, StartCall(n, c) PROVE CallsStructure'
  <2> DEFINE m == [call |-> c, ok |-> TRUE, key |-> "none", from |-> n]
  <2>1. /\ n = Caller[c] /\ started' = started \cup {c} /\ Insert(n, m)
        /\ acts < MaxActs /\ acts' = acts + 1
        /\ UNCHANGED <<calls, busy, audio, streams, netVars, accepted, ended, excused>>
    BY <1>2 DEF StartCall, Act
  <2>2. m \in ForNode(n)
    BY <2>1 DEF ForNode, Message, Parties
  <2> HIDE DEF m
  <2>3. acts' \in 0 .. MaxActs
    BY <2>1, StructureParts, BoundsAssumption
  <2>4. started' \subseteq CallIds
    BY <2>1, StructureParts
  <2>5. QED
    BY <2>1, <2>2, <2>3, <2>4, InsertIsFine, StructureParts, StructureFromParts DEF netVars
<1>3. ASSUME NEW c \in CallIds, AcceptCall(n, c) PROVE CallsStructure'
  <2>1. /\ c \in OnGoing(n) /\ calls[n][c].state = "Incoming" /\ acts < MaxActs /\ acts' = acts + 1
        /\ accepted' = accepted \cup {c}
        /\ UNCHANGED <<pending, busy, events, connected, drops, started, ended, excused>>
    BY <1>3 DEF AcceptCall, Act
  <2>2. PICK k \in (IF calls[n][c].key = "none" THEN {"key", "nulkey"} ELSE {calls[n][c].key}) :
           LET call == [state |-> "Open", ok |-> TRUE, key |-> k]
           IN  /\ BecomeOpen(n, c, call)
               /\ wire' = SentToRemote(n, c, call)
    BY <1>3, Zenon DEF AcceptCall
  <2> DEFINE call == [state |-> "Open", ok |-> TRUE, key |-> k]
  <2>3. n \in Parties(c) /\ calls[n][c] \in CallAt(n, c) /\ calls[n][c] \in Call
    BY <2>1, ListsAre
  <2>4. k \in Keys /\ k # "none"
    BY <2>2, <2>3 DEF Call, Keys
  <2>5. call \in Call /\ call.state = "Open" /\ call.key # "none"
    BY <2>4 DEF Call, States
  <2>6. /\ calls' = With(n, c, call) /\ SetupAudio(n, call.ok)
        /\ streams' \in {AddCallToMixer(n, c), streams}
        /\ wire' = SentToRemote(n, c, call)
    BY <2>2 DEF BecomeOpen
  <2> HIDE DEF call
  <2>7. call \in CallAt(n, c)
    BY <2>5 DEF CallAt
  <2>8. CallsFine(calls')
    BY <2>3, <2>6, <2>7, WithIsFine
  <2>9. WireFine(wire')
    BY <2>3, <2>5, <2>6, SentIs DEF WireFine
  <2>10. audio' \subseteq Nodes /\ streams' \in StreamLists
    BY <2>6, StreamsAre, StructureParts DEF SetupAudio, StreamLists
  <2>11. acts' \in 0 .. MaxActs /\ accepted' \subseteq CallIds
    BY <2>1, StructureParts, BoundsAssumption
  <2>12. QED
    BY <2>1, <2>8, <2>9, <2>10, <2>11, StructureParts, StructureFromParts DEF CallsStructure
<1>4. ASSUME NEW c \in CallIds, CloseCall(n, c) PROVE CallsStructure'
  <2> DEFINE call == [calls[n][c] EXCEPT !.ok = FALSE]
  <2>1. /\ c \in OnGoing(n) /\ acts < MaxActs /\ acts' = acts + 1
        /\ wire' = SentToRemote(n, c, call)
        /\ streams' = RemoveCallFromMixer(n, c)
        /\ RemoveCallFromArray(n, c)
        /\ ended' = ended \cup {<<n, c>>}
        /\ UNCHANGED <<pending, busy, events, connected, drops, started, accepted, excused>>
    BY <1>4 DEF CloseCall, Act
  <2>2. n \in Parties(c) /\ calls[n][c] \in Call
    BY <2>1, ListsAre
  <2>3. call \in Call
    BY <2>2 DEF Call
  <2> HIDE DEF call
  <2>4. WireFine(wire')
    BY <2>1, <2>2, <2>3, SentIs DEF WireFine
  <2>5. CallsFine(calls') /\ audio' \subseteq Nodes /\ streams' \in StreamLists
    BY <2>1, WithoutIsFine, StreamsAre DEF StreamLists
  <2>6. acts' \in 0 .. MaxActs /\ ended' \subseteq Nodes \X CallIds
    BY <2>1, StructureParts, BoundsAssumption
  <2>7. QED
    BY <2>1, <2>4, <2>5, <2>6, StructureParts, StructureFromParts DEF CallsStructure
<1>5. QED
  BY <1>1, <1>2, <1>3, <1>4

\* So do the connections: a message that arrives, a connection lost, noticed or made.
LEMMA NetKeepsStructure ==
    ASSUME CallsStructure, NEW n \in Nodes, NEW p \in Nodes
    PROVE  /\ Receive(n, p) => CallsStructure' /\ Head(wire[<<p, n>>]) \in ForNode(n)
           /\ Drop(n, p) \/ Notice(n, p) => CallsStructure'
           /\ Connect(n, p) => CallsStructure'
<1> USE DEF WireFine
<1>1. ASSUME Receive(n, p) PROVE CallsStructure' /\ Head(wire[<<p, n>>]) \in ForNode(n)
  <2> DEFINE m == Head(wire[<<p, n>>])
  <2>1. /\ wire[<<p, n>>] # <<>> /\ wire' = [wire EXCEPT ![<<p, n>>] = Tail(wire[<<p, n>>])]
        /\ Insert(n, m)
        /\ UNCHANGED <<calls, busy, audio, streams, connected, drops, historyVars>>
    BY <1>1 DEF Receive
  <2>2. wire[<<p, n>>] \in Seq(Between(p, n)) /\ wire[<<p, n>>] \in Seq(Message)
    BY StructureParts
  <2>3. /\ m \in Between(p, n) /\ Tail(wire[<<p, n>>]) \in Seq(Between(p, n))
        /\ Tail(wire[<<p, n>>]) \in Seq(Message)
    BY <2>1, <2>2, HeadTailProperties
  <2>4. m \in ForNode(n)
    <3>1. /\ m \in Message /\ m.call \in CallIds /\ m.from = p /\ p \in Parties(m.call)
          /\ n = Peer(p, m.call)
      BY <2>3 DEF Between, Message
    <3>2. n \in Parties(m.call) /\ n # p
      BY <3>1, PartiesAre
    <3>3. QED
      BY <3>1, <3>2 DEF ForNode
  <2> HIDE DEF m
  <2>5. WireFine(wire')
    BY <2>1, <2>3, StructureParts
  <2>6. QED
    BY <2>1, <2>4, <2>5, InsertIsFine, StructureParts, StructureFromParts DEF historyVars, m
<1>2. ASSUME EndCloses(n, p), drops' \in 0 .. MaxDrops PROVE CallsStructure'
  <2>1. /\ connected' = [connected EXCEPT ![n] = @ \ {p}]
        /\ events' = [events EXCEPT ![n] = Append(events[n], p)]
        /\ wire' = [wire EXCEPT ![<<p, n>>] = <<>>]
        /\ UNCHANGED <<engineVars, historyVars>>
    BY <1>2 DEF EndCloses
  <2>2. events[n] \in Seq(Nodes \cup {"process"})
    BY StructureParts
  <2>3. Append(events[n], p) \in Seq(Nodes \cup {"process"})
    BY <2>2, AppendProperties
  <2>4. /\ events' \in [Nodes -> Seq(Nodes \cup {"process"})]
        /\ events'[n] = Append(events[n], p) /\ \A x \in Nodes : x # n => events'[x] = events[x]
    BY <2>1, <2>3, EventsChanged
  <2>5. \A x \in Nodes : pending'[x] # <<>> => Holds(events'[x], "process")
    <3>1. Holds(events[n], "process") => Holds(events'[n], "process")
      BY <2>2, <2>4, EventAdded
    <3>2. \A x \in Nodes : pending[x] # <<>> => Holds(events[x], "process")
      BY DEF CallsStructure
    <3>3. ASSUME NEW x \in Nodes PROVE pending[x] # <<>> => Holds(events'[x], "process")
      BY <2>4, <3>1, <3>2, <3>3
    <3>4. QED
      BY <2>1, <3>3 DEF engineVars
  <2>6. connected' \in [Nodes -> SUBSET Nodes]
    BY <2>1, StructureParts
  <2>7. WireFine(wire')
    <3>1. <<>> \in Seq(Message) /\ <<>> \in Seq(Between(p, n))
      BY EmptySeq
    <3>2. QED
      BY <2>1, <3>1, StructureParts
  <2>8. QED
    BY <1>2, <2>1, <2>4, <2>5, <2>6, <2>7, StructureParts, StructureFromParts
       DEF engineVars, historyVars
<1>3. ASSUME Drop(n, p) \/ Notice(n, p) PROVE CallsStructure'
  <2>1. EndCloses(n, p)
    BY <1>3 DEF Drop, Notice
  <2>2. drops' \in 0 .. MaxDrops
    BY <1>3, StructureParts, BoundsAssumption DEF Drop, Notice
  <2>3. QED
    BY <1>2, <2>1, <2>2
<1>4. ASSUME Connect(n, p) PROVE CallsStructure'
  <2>1. /\ connected' = [connected EXCEPT ![n] = @ \cup {p}, ![p] = @ \cup {n}]
        /\ wire' = [wire EXCEPT ![<<n, p>>] = <<>>, ![<<p, n>>] = <<>>]
        /\ UNCHANGED <<engineVars, events, drops, historyVars>>
    BY <1>4 DEF Connect
  <2>2. connected' \in [Nodes -> SUBSET Nodes]
    BY <2>1, StructureParts
  <2>3. WireFine(wire')
    <3>1. \A S : <<>> \in Seq(S)
      BY EmptySeq
    <3>2. wire \in [Nodes \X Nodes -> Seq(Message)] /\ \A x, y \in Nodes : wire[<<x, y>>] \in Seq(Between(x, y))
      BY StructureParts
    <3>3. wire' \in [Nodes \X Nodes -> Seq(Message)]
      BY <2>1, <3>1, <3>2
    <3>4. \A x, y \in Nodes : wire'[<<x, y>>] = wire[<<x, y>>] \/ wire'[<<x, y>>] = <<>>
      BY <2>1, <3>2
    <3>5. QED
      BY <3>1, <3>2, <3>3, <3>4
  <2>4. \A x \in Nodes : pending'[x] # <<>> => Holds(events'[x], "process")
    BY <2>1 DEF engineVars, CallsStructure
  <2>5. QED
    BY <2>1, <2>2, <2>3, <2>4, StructureParts, StructureFromParts DEF engineVars, historyVars
<1>5. QED
  BY <1>1, <1>3, <1>4

\* The entries a lost connection puts into the queue, in any order.
EndedBy(n, p, order) ==
    [i \in DOMAIN order |-> [AsMessage(n, order[i], calls[n][order[i]]) EXCEPT !.ok = FALSE, !.from = p]]
\* A call of processCallData for each.
ProcessedOnce(order) == [i \in DOMAIN order |-> "process"]
\* The calls of n with p.
CallsWith(n, p) == {c \in OnGoing(n) : Peer(n, c) = p}

\* An order of a finite set names its elements.
LEMMA OrderIs ==
    ASSUME NEW S, IsFiniteSet(S), NEW order \in SetToSeqs(S)
    PROVE  /\ order \in Seq(S) /\ \A c \in S : \E i \in DOMAIN order : order[i] = c
<1> DEFINE D == 1 .. Cardinality(S)
<1>1. Cardinality(S) \in Nat
  BY FS_CardinalityType
<1>2. order \in [D -> S] /\ \A i, j \in D : i # j => order[i] # order[j]
  BY DEF SetToSeqs
<1>3. order \in Seq(S)
  BY <1>1, <1>2
<1>4. IsFiniteSet(D) /\ Cardinality(D) = Cardinality(S)
  BY <1>1, FS_Interval
<1>5. order \in Injection(D, S)
  BY <1>2 DEF Injection, IsInjective
<1>6. order \in Surjection(D, S)
  BY <1>4, <1>5, FS_Injection
<1>7. QED
  BY <1>2, <1>3, <1>6 DEF Surjection

\* A report that a connection is gone, which is again, or which is not.
ReportIsLate(n, p) ==
    /\ p \in connected[n] /\ excused' = excused \cup CallsWith(n, p)
    /\ Finished(n) /\ UNCHANGED <<calls, pending>>
\* And when it has not.
ReportCounts(n, p, order) ==
    /\ p \notin connected[n]
    /\ calls' = [calls EXCEPT ![n] =
         [c \in OnGoing(n) |-> [calls[n][c] EXCEPT !.ok = @ /\ c \notin CallsWith(n, p)]]]
    /\ pending' = [pending EXCEPT ![n] = @ \o EndedBy(n, p, order)]
    /\ events' = [events EXCEPT ![n] = Tail(@) \o ProcessedOnce(order)]
    /\ UNCHANGED excused

\* One of the two happens.
LEMMA ReportIs ==
    ASSUME CallsStructure, NEW n \in Nodes, NodeConnectionAttemptStatus(n)
    PROVE  \E p \in Nodes :
             /\ events[n] # <<>> /\ Head(events[n]) = p /\ p # "process"
             /\ UNCHANGED <<busy, audio, streams, netVars, acts, started, accepted, ended>>
             /\ ReportIsLate(n, p) \/ \E order \in SetToSeqs(CallsWith(n, p)) : ReportCounts(n, p, order)
<1> DEFINE p == Head(events[n])
           lost == {c \in OnGoing(n) : Peer(n, c) = p}
<1>1. events[n] # <<>> /\ p # "process"
      /\ UNCHANGED <<busy, audio, streams, netVars, acts, started, accepted, ended>>
  BY DEF NodeConnectionAttemptStatus
<1>2. p \in Nodes
  BY <1>1, StructureParts, HeadTailProperties
<1>3. lost = CallsWith(n, p)
  BY DEF CallsWith
<1>4. CASE p \in connected[n]
  <2>1. excused' = excused \cup lost /\ Finished(n) /\ UNCHANGED <<calls, pending>>
    BY <1>4 DEF NodeConnectionAttemptStatus
  <2>2. QED
    BY <1>1, <1>2, <1>3, <1>4, <2>1 DEF ReportIsLate
<1>5. CASE p \notin connected[n]
  <2>1. \E order \in SetToSeqs(lost) :
              /\ calls' = [calls EXCEPT ![n] =
                   [c \in OnGoing(n) |-> [calls[n][c] EXCEPT
                      !.ok = @ /\ c \notin lost]]]
              /\ pending' = [pending EXCEPT ![n] = @ \o
                   [i \in DOMAIN order |->
                      [AsMessage(n, order[i], calls[n][order[i]]) EXCEPT
                         !.ok = FALSE, !.from = p]]]
              /\ events' = [events EXCEPT ![n] =
                   Tail(@) \o [i \in DOMAIN order |-> "process"]]
              /\ UNCHANGED excused
    BY <1>5, Zenon DEF NodeConnectionAttemptStatus
  <2>2. PICK order \in SetToSeqs(lost) : ReportCounts(n, p, order)
    BY <1>3, <1>5, <2>1 DEF ReportCounts, EndedBy, ProcessedOnce
  <2>3. QED
    BY <1>1, <1>2, <1>3, <2>2
<1>6. QED
  BY <1>4, <1>5

\* The entries a report puts into the queue are about the node's calls with
\* the lost peer, all of them, and end each.
LEMMA EndedByIs ==
    ASSUME CallsStructure, NEW n \in Nodes, NEW p \in Nodes, NEW order \in SetToSeqs(CallsWith(n, p))
    PROVE  /\ EndedBy(n, p, order) \in Seq(ForNode(n)) /\ EndedBy(n, p, order) \in Seq(Message)
           /\ ProcessedOnce(order) \in Seq(Nodes \cup {"process"})
           /\ DOMAIN EndedBy(n, p, order) = DOMAIN ProcessedOnce(order)
           /\ EndedBy(n, p, order) # <<>> => ProcessedOnce(order) # <<>>
           /\ \A i \in DOMAIN ProcessedOnce(order) : ProcessedOnce(order)[i] = "process"
           /\ \A i \in DOMAIN EndedBy(n, p, order) :
                /\ EndedBy(n, p, order)[i].call \in CallsWith(n, p)
                /\ EndedBy(n, p, order)[i].from = p /\ ~EndedBy(n, p, order)[i].ok
           /\ \A c \in CallsWith(n, p) : \E i \in DOMAIN EndedBy(n, p, order) :
                EndedBy(n, p, order)[i].call = c
<1> DEFINE w == EndedBy(n, p, order)
           e == ProcessedOnce(order)
<1>1. IsFiniteSet(CallsWith(n, p)) /\ CallsWith(n, p) \subseteq OnGoing(n)
  BY ListsAre, FS_Subset DEF CallsWith
<1>2. order \in Seq(CallsWith(n, p)) /\ \A c \in CallsWith(n, p) : \E i \in DOMAIN order : order[i] = c
  BY <1>1, OrderIs
<1>3. Len(order) \in Nat /\ DOMAIN order = 1 .. Len(order) /\ \A i \in DOMAIN order : order[i] \in CallsWith(n, p)
  BY <1>2, LenProperties, ElementOfSeq
<1>4. ASSUME NEW i \in DOMAIN order
      PROVE  /\ w[i] \in ForNode(n) /\ w[i] \in Message /\ w[i].call = order[i]
             /\ w[i].from = p /\ ~w[i].ok
  <2> DEFINE c == order[i]
             m == AsMessage(n, c, calls[n][c])
  <2>1. c \in CallIds /\ n \in Parties(c) /\ calls[n][c] \in Call /\ Peer(n, c) = p
    BY <1>1, <1>3, <1>4, ListsAre DEF CallsWith
  <2>2. m \in Message /\ m.call = c
    BY <2>1, MessageIs
  <2>3. w[i] = [m EXCEPT !.ok = FALSE, !.from = p]
    BY <1>4 DEF EndedBy
  <2>4. p \in Parties(c) /\ p # n
    BY <2>1, PartiesAre
  <2> HIDE DEF c, m
  <2>5. w[i] \in Message /\ w[i].call = c /\ w[i].from = p /\ ~w[i].ok
    BY <2>2, <2>3 DEF Message
  <2>6. w[i] \in ForNode(n)
    BY <2>1, <2>4, <2>5 DEF ForNode
  <2>7. QED
    BY <2>5, <2>6 DEF c
<1>5. DOMAIN w = DOMAIN order /\ DOMAIN e = DOMAIN order
  BY DEF EndedBy, ProcessedOnce
<1>6. w \in Seq(ForNode(n)) /\ w \in Seq(Message)
  <2>1. w \in [1 .. Len(order) -> ForNode(n)] /\ w \in [1 .. Len(order) -> Message]
    BY <1>3, <1>4 DEF EndedBy
  <2> HIDE DEF w
  <2>2. QED
    BY <1>3, <2>1
<1>7. e \in Seq(Nodes \cup {"process"})
  <2>1. e \in [1 .. Len(order) -> Nodes \cup {"process"}]
    BY <1>3 DEF ProcessedOnce
  <2> HIDE DEF e
  <2>2. QED
    BY <1>3, <2>1
<1>8. w # <<>> => e # <<>>
  <2>1. SUFFICES ASSUME e = <<>> PROVE w = <<>>
    OBVIOUS
  <2>2. Len(w) = 0
    BY <1>5, <1>6, <2>1, LenProperties
  <2> HIDE DEF w
  <2>3. QED
    BY <1>6, <2>2, EmptySeq
<1>8a. \A i \in DOMAIN e : e[i] = "process"
  BY DEF ProcessedOnce
<1> HIDE DEF w, e
<1>9. ASSUME NEW c \in CallsWith(n, p) PROVE \E i \in DOMAIN w : w[i].call = c
  <2>1. PICK i \in DOMAIN order : order[i] = c
    BY <1>2
  <2>2. i \in DOMAIN w /\ w[i].call = c
    BY <1>4, <1>5, <2>1
  <2>3. QED
    BY <2>2
<1>10. \A i \in DOMAIN w : w[i].call \in CallsWith(n, p) /\ w[i].from = p /\ ~w[i].ok
  BY <1>3, <1>4, <1>5
<1>11. QED
  BY <1>5, <1>6, <1>7, <1>8, <1>8a, <1>9, <1>10 DEF w, e

\* The part of this that concerns the structure.
LEMMA EndedByFits ==
    ASSUME CallsStructure, NEW n \in Nodes, NEW p \in Nodes, NEW order \in SetToSeqs(CallsWith(n, p))
    PROVE  /\ EndedBy(n, p, order) \in Seq(ForNode(n))
           /\ ProcessedOnce(order) \in Seq(Nodes \cup {"process"})
           /\ EndedBy(n, p, order) # <<>> => ProcessedOnce(order) # <<>>
           /\ \A i \in DOMAIN ProcessedOnce(order) : ProcessedOnce(order)[i] = "process"
  BY EndedByIs

\* nodeConnectionAttemptStatus keeps the structure.
LEMMA ReportKeepsStructure ==
    ASSUME CallsStructure, NEW n \in Nodes, NodeConnectionAttemptStatus(n)
    PROVE  CallsStructure'
<1>1. PICK p \in Nodes :
             /\ events[n] # <<>> /\ Head(events[n]) = p /\ p # "process"
             /\ UNCHANGED <<busy, audio, streams, netVars, acts, started, accepted, ended>>
             /\ ReportIsLate(n, p) \/ \E order \in SetToSeqs(CallsWith(n, p)) : ReportCounts(n, p, order)
  BY ReportIs
<1>2. /\ events[n] \in Seq(Nodes \cup {"process"}) /\ Tail(events[n]) \in Seq(Nodes \cup {"process"})
      /\ Holds(events[n], "process") => Holds(Tail(events[n]), "process")
  BY <1>1, StructureParts, HeadTailProperties, EventTaken
<1>3. \A x \in Nodes : pending[x] # <<>> => Holds(events[x], "process")
  BY DEF CallsStructure
<1>4. CASE ReportIsLate(n, p)
  <2>1. events' = [events EXCEPT ![n] = Tail(events[n])]
    BY <1>4 DEF ReportIsLate, Finished
  <2>2. /\ events' \in [Nodes -> Seq(Nodes \cup {"process"})]
        /\ events'[n] = Tail(events[n]) /\ \A x \in Nodes : x # n => events'[x] = events[x]
    BY <1>2, <2>1, EventsChanged
  <2>3. \A x \in Nodes : pending'[x] # <<>> => Holds(events'[x], "process")
    BY <1>2, <1>3, <1>4, <2>2 DEF ReportIsLate
  <2>4. excused' \subseteq CallIds
    BY <1>4, ListsAre, StructureParts DEF ReportIsLate, CallsWith
  <2>5. QED
    BY <1>1, <1>4, <2>2, <2>3, <2>4, StructureParts, StructureFromParts DEF ReportIsLate, netVars
<1>5. ASSUME NEW order \in SetToSeqs(CallsWith(n, p)), ReportCounts(n, p, order) PROVE CallsStructure'
  <2> DEFINE w == EndedBy(n, p, order)
             e == ProcessedOnce(order)
             list == [c \in OnGoing(n) |-> [calls[n][c] EXCEPT !.ok = @ /\ c \notin CallsWith(n, p)]]
  <2>1. /\ calls' = [calls EXCEPT ![n] = list]
        /\ pending' = [pending EXCEPT ![n] = pending[n] \o w]
        /\ events' = [events EXCEPT ![n] = Tail(events[n]) \o e]
        /\ UNCHANGED excused
    BY <1>5 DEF ReportCounts
  <2>2. /\ w \in Seq(ForNode(n)) /\ e \in Seq(Nodes \cup {"process"}) /\ (w # <<>> => e # <<>>)
        /\ \A i \in DOMAIN e : e[i] = "process"
    BY EndedByFits
  <2>3. CallsFine(calls')
    <3>1. ASSUME NEW c \in OnGoing(n) PROVE list[c] \in Call /\ n \in Parties(c) /\ list[c] \in CallAt(n, c)
      <4>1. calls[n][c] \in Call /\ calls[n][c] \in CallAt(n, c) /\ n \in Parties(c)
        BY <3>1, ListsAre
      <4>2. list[c] = [calls[n][c] EXCEPT !.ok = @ /\ c \notin CallsWith(n, p)]
        BY <3>1
      <4> HIDE DEF list
      <4>3. list[c] \in Call /\ list[c].state = calls[n][c].state /\ list[c].key = calls[n][c].key
        BY <4>1, <4>2 DEF Call
      <4>4. QED
        BY <4>1, <4>3 DEF CallAt
    <3>2. list \in [OnGoing(n) -> Call]
      BY <3>1
    <3> HIDE DEF list
    <3>3. QED
      BY <2>1, <3>1, <3>2, ListsAre, ListChanged
  <2> HIDE DEF w, e
  <2>4. pending[n] \o w \in Seq(ForNode(n)) /\ Tail(events[n]) \o e \in Seq(Nodes \cup {"process"})
    BY <1>2, <2>2, StructureParts, ConcatProperties
  <2>5. /\ pending' \in [Nodes -> Seq(Message)] /\ \A x \in Nodes : pending'[x] \in Seq(ForNode(x))
        /\ pending'[n] = pending[n] \o w /\ \A x \in Nodes : x # n => pending'[x] = pending[x]
    BY <2>1, <2>4, PendingChanged
  <2>6. /\ events' \in [Nodes -> Seq(Nodes \cup {"process"})]
        /\ events'[n] = Tail(events[n]) \o e /\ \A x \in Nodes : x # n => events'[x] = events[x]
    BY <2>1, <2>4, EventsChanged
  <2>7. pending'[n] # <<>> => Holds(events'[n], "process")
    <3>1. CASE pending[n] # <<>>
      <4>1. Holds(Tail(events[n]), "process")
        BY <1>2, <1>3, <3>1
      <4>2. QED
        BY <1>2, <2>2, <2>6, <4>1, EventsAdded
    <3>2. CASE pending[n] = <<>> /\ w # <<>>
      BY <1>2, <2>2, <2>6, <3>2, EventsAdded
    <3>3. CASE pending[n] = <<>> /\ w = <<>>
      BY <2>2, <2>5, <3>3, ConcatEmptySeq
    <3>4. QED
      BY <3>1, <3>2, <3>3
  <2>8. \A x \in Nodes : pending'[x] # <<>> => Holds(events'[x], "process")
    BY <1>3, <2>5, <2>6, <2>7
  <2>9. QED
    BY <1>1, <2>1, <2>3, <2>5, <2>6, <2>8, StructureParts, StructureFromParts DEF netVars
<1>6. QED
  BY <1>1, <1>4, <1>5

\* The structure holds initially.
LEMMA CallsStructureInitially == CallsInit => CallsStructure
<1> SUFFICES ASSUME CallsInit PROVE CallsStructure
  OBVIOUS
<1> DEFINE none == [c \in {} |-> [state |-> "Initial", ok |-> TRUE, key |-> "none"]]
<1>1. none \in [{} -> Call] /\ DOMAIN none = {}
  OBVIOUS
<1>2. calls = [n \in Nodes |-> none] /\ pending = [n \in Nodes |-> <<>>]
      /\ wire = [l \in Nodes \X Nodes |-> <<>>] /\ events = [n \in Nodes |-> <<>>]
  BY DEF CallsInit
<1>3. none \in UNION {[S -> Call] : S \in SUBSET CallIds}
  BY <1>1
<1> HIDE DEF none
<1>4. \A S : <<>> \in Seq(S)
  BY EmptySeq
<1>5. CallsTypeOK
  BY <1>2, <1>3, <1>4, BoundsAssumption DEF CallsInit, CallsTypeOK
<1>6. \A n \in Nodes : OnGoing(n) = {} /\ pending[n] = <<>>
  BY <1>1, <1>2 DEF OnGoing
<1>7. \A p, n \in Nodes : wire[<<p, n>>] = <<>>
  BY <1>2
<1>8. IsFiniteSet({})
  BY FS_EmptySet
<1>9. QED
  BY <1>4, <1>5, <1>6, <1>7, <1>8 DEF CallsStructure

\* Every step keeps it.
LEMMA StepKeepsStructure ==
    ASSUME CallsStructure, [CallsNext]_callsVars
    PROVE  CallsStructure'
<1>1. CASE UNCHANGED callsVars
  BY <1>1 DEF callsVars, CallsStructure, CallsTypeOK, OnGoing, Holds
<1>2. ASSUME NEW n \in Nodes, ProcessCallData(n) \/ NothingPending(n) \/ NodeConnectionAttemptStatus(n)
      PROVE  CallsStructure'
  BY <1>2, HandlingKeepsStructure, OthersKeepStructure, ReportKeepsStructure
<1>3. ASSUME NEW n \in Nodes, NEW c \in CallIds, StartCall(n, c) \/ AcceptCall(n, c) \/ CloseCall(n, c)
      PROVE  CallsStructure'
  BY <1>3, OthersKeepStructure
<1>4. ASSUME NEW n \in Nodes, NEW p \in Nodes, Receive(n, p) \/ Drop(n, p) \/ Notice(n, p) \/ Connect(n, p)
      PROVE  CallsStructure'
  BY <1>4, NetKeepsStructure
<1>5. QED
  BY <1>1, <1>2, <1>3, <1>4 DEF CallsNext

-----------------------------------------------------------------------------
\* What one end of a call sees of it: the entries about it from the other end,
\* those that go on and those that end it.
EntriesFor(n, c) == {m \in Message : m.call = c /\ m.from = Peer(n, c)}
\* Those that offer or accept the call.
Oks(n, c) == {m \in EntriesFor(n, c) : m.ok}
\* Those that refuse or end it.
Nos(n, c) == {m \in EntriesFor(n, c) : ~m.ok}
\* Those with a key: the call is accepted.
Keyed(n, c) == {m \in Oks(n, c) : m.key = "key"}
\* What is on its way to n from the other end of c.
Way(n, c) == wire[<<Peer(n, c), n>>]
\* The inbox of n, unless a report of the peer's loss will undo what it says.
Heeded(n, c) == Kept(pending[n], events[n], Peer(n, c))

\* Whether n has a connection to the other end, the call, the call open.
Linked(n, c) == Peer(n, c) \in connected[n]
Has(n, c) == c \in OnGoing(n)
IsOpen(n, c) == c \in OnGoing(n) /\ calls[n][c].state = "Open"
\* Whether n has still to handle that the other end was lost.
ReportWaits(n, c) == Holds(events[n], Peer(n, c))
\* Whether an end of the call, or a key for it, is in the inbox or on its way.
NoComes(n, c) == Coming(pending[n], Way(n, c), Nos(n, c))
KeyComes(n, c) == Coming(pending[n], Way(n, c), Keyed(n, c))
\* Whether an end of the call is in the inbox.
NoWaits(n, c) == \E i \in DOMAIN pending[n] : pending[n][i] \in Nos(n, c)
\* Whether an entry of the inbox may open the call, or start it, for good.
OkKept(n, c) == \E i \in DOMAIN Heeded(n, c) : Heeded(n, c)[i] \in Oks(n, c)
\* No offer or acceptance that comes to n is the last word about the call.
AllAnswered(n, c) == Answered(Heeded(n, c), Way(n, c), Oks(n, c), Nos(n, c))
\* One is, or one in the inbox.
Unanswered(n, c) == ~Answered(pending[n], Way(n, c), Oks(n, c), Nos(n, c))
\* Whether the key begins with a NUL byte, which a reader takes for none.
NulKey(n, c) == calls[n][c].key = "nulkey"

\* One end, without a connection to the other: nothing in the inbox will start or open the
\* call for good, and if n has the call then the report of the loss or the end that follows
\* from it waits.
EndInv(n, c) ==
    /\ ~Linked(n, c) => ~OkKept(n, c)
    /\ ~Linked(n, c) /\ Has(n, c) /\ ~ReportWaits(n, c) => NoWaits(n, c)
\* Two ends with a connection. If the caller a has no call, each offer to the callee b is
\* followed by its end, and b, if it has the call, will hear so. If a has the call and b has
\* not, b's end of it is coming to a or the offer is coming to b. As long as b has not
\* accepted, no acceptance comes to a that is not followed by an end. If only one of them
\* has the call open, an end comes to it or the key, unless it begins with NUL, comes to a.
LinkInv(c) ==
    LET a == Caller[c]  b == Callee[c]
    IN  /\ ~Has(a, c) => AllAnswered(b, c)
        /\ ~ReportWaits(b, c) /\ ~Has(a, c) /\ Has(b, c) => NoComes(b, c)
        /\ ~ReportWaits(a, c) /\ Has(a, c) /\ ~Has(b, c) => NoComes(a, c) \/ Unanswered(b, c)
        /\ ~IsOpen(b, c) => AllAnswered(a, c)
        /\ ~ReportWaits(a, c) /\ IsOpen(a, c) => IsOpen(b, c) \/ NoComes(a, c)
        /\ ~ReportWaits(b, c) /\ IsOpen(b, c) =>
             IsOpen(a, c) \/ NoComes(b, c) \/ KeyComes(a, c) \/ NulKey(b, c)
\* What holds of each call that no late report has excused.
CallInv(c) ==
    /\ \A n \in Parties(c) : EndInv(n, c)
    /\ (\A n \in Parties(c) : Linked(n, c)) => LinkInv(c)

\* How the entries about a call at one of its ends may change without a
\* change of the call: nothing that is promised gets lost.
Undisturbed(n, c) ==
    /\ OkKept(n, c)' => OkKept(n, c) \/ Linked(n, c)'
    /\ AllAnswered(n, c) => AllAnswered(n, c)'
    /\ ~Has(n, c) /\ Unanswered(n, c) => Unanswered(n, c)'
    /\ NoComes(n, c) => NoComes(n, c)'
    /\ KeyComes(n, c) => KeyComes(n, c)'
    /\ NoWaits(n, c) => NoWaits(n, c)'
    /\ Has(n, c) /\ ReportWaits(n, c) =>
         ReportWaits(n, c)' \/ (~Linked(n, c)' /\ NoWaits(n, c)')
\* The call at one end is as it was.
SameCall(n, c) ==
    /\ Has(n, c)' <=> Has(n, c)
    /\ IsOpen(n, c)' <=> IsOpen(n, c)
    /\ IsOpen(n, c) => (NulKey(n, c)' <=> NulKey(n, c))
\* The connection at one end is as it was.
SameLink(n, c) == Linked(n, c)' <=> Linked(n, c)

\* Then CallInv is kept.
LEMMA CallKept ==
    ASSUME NEW c \in CallIds, CallInv(c),
           \A n \in Parties(c) : Undisturbed(n, c) /\ SameCall(n, c) /\ SameLink(n, c)
    PROVE  CallInv(c)'
<1> DEFINE a == Caller[c]
           b == Callee[c]
<1>1. a \in Parties(c) /\ b \in Parties(c) /\ \A n \in Parties(c) : n = a \/ n = b
  BY DEF Parties
<1>2. \A n \in Parties(c) : EndInv(n, c)'
  BY DEF CallInv, EndInv, Undisturbed, SameCall, SameLink
<1>3. ASSUME \A n \in Parties(c) : Linked(n, c)' PROVE LinkInv(c)'
  <2>1. LinkInv(c)
    BY <1>3 DEF CallInv, SameLink
  <2>2. Undisturbed(a, c) /\ SameCall(a, c) /\ Undisturbed(b, c) /\ SameCall(b, c)
    BY <1>1
  <2>3. IsOpen(a, c) => Has(a, c)
    BY DEF IsOpen, Has
  <2>4. IsOpen(b, c) => Has(b, c)
    BY DEF IsOpen, Has
  <2>5. \A n \in Parties(c) : Has(n, c) /\ ReportWaits(n, c) => ReportWaits(n, c)'
    BY <1>3 DEF Undisturbed
  <2>6. /\ Has(a, c) /\ ReportWaits(a, c) => ReportWaits(a, c)'
        /\ Has(b, c) /\ ReportWaits(b, c) => ReportWaits(b, c)'
    BY <1>1, <2>5
  <2>7. QED
    BY <2>1, <2>2, <2>3, <2>4, <2>6 DEF LinkInv, Undisturbed, SameCall
<1>4. QED
  BY <1>2, <1>3 DEF CallInv, Parties

\* One end is without the call, now or from now on; the other is told.
LEMMA CallGone ==
    ASSUME NEW c \in CallIds, CallInv(c), NEW n \in Parties(c), NEW q, q = Peer(n, c),
           ~Has(n, c)', \A x \in Parties(c) : SameLink(x, c),
           OkKept(n, c)' => OkKept(n, c), AllAnswered(n, c) => AllAnswered(n, c)',
           SameCall(q, c), OkKept(q, c)' => OkKept(q, c), NoWaits(q, c) => NoWaits(q, c)',
           ReportWaits(q, c) => ReportWaits(q, c)',
           Linked(n, c) => NoComes(q, c)' /\ AllAnswered(q, c)'
    PROVE  CallInv(c)'
<1> DEFINE a == Caller[c]
           b == Callee[c]
<1>1. /\ \A x \in Parties(c) : x = n \/ x = q
      /\ q \in Parties(c) /\ ((n = a /\ q = b) \/ (n = b /\ q = a))
  BY PartiesAre DEF Parties
<1>2. ~IsOpen(n, c)'
  BY DEF IsOpen, Has
<1>3. EndInv(n, c)' /\ EndInv(q, c)'
  <2>1. EndInv(n, c) /\ EndInv(q, c) /\ SameLink(n, c) /\ SameLink(q, c)
    BY <1>1 DEF CallInv
  <2>2. EndInv(n, c)'
    BY <2>1 DEF EndInv, SameLink
  <2>3. EndInv(q, c)'
    BY <2>1 DEF EndInv, SameLink, SameCall
  <2>4. QED
    BY <2>2, <2>3
<1>4. ASSUME \A x \in Parties(c) : Linked(x, c)' PROVE LinkInv(c)'
  <2>1. LinkInv(c) /\ NoComes(q, c)' /\ AllAnswered(q, c)'
    BY <1>4 DEF CallInv, SameLink
  <2>2. CASE n = a /\ q = b
    BY <1>2, <2>1, <2>2 DEF LinkInv, SameCall
  <2>3. CASE n = b /\ q = a
    BY <1>2, <2>1, <2>3 DEF LinkInv, SameCall
  <2>4. QED
    BY <1>1, <2>2, <2>3
<1>5. QED
  BY <1>1, <1>3, <1>4 DEF CallInv, Parties

\* To which of these sets an entry belongs.
LEMMA EntriesAre ==
    ASSUME NEW n, NEW c
    PROVE  /\ Oks(n, c) \cap Nos(n, c) = {} /\ Keyed(n, c) \subseteq Oks(n, c)
           /\ \A m \in Message : m.call # c \/ m.from # Peer(n, c) =>
                m \notin Oks(n, c) /\ m \notin Nos(n, c) /\ m \notin Keyed(n, c)
           /\ \A m \in Message : m.call = c /\ m.from = Peer(n, c) =>
                /\ m.ok => m \in Oks(n, c) /\ m \notin Nos(n, c)
                /\ ~m.ok => m \in Nos(n, c) /\ m \notin Oks(n, c)
                /\ m.ok /\ m.key = "key" => m \in Keyed(n, c)
                /\ m.key # "key" => m \notin Keyed(n, c)
  BY DEF EntriesFor, Oks, Nos, Keyed

\* What is known of the entries for one end of a call.
LEMMA InboxIs ==
    ASSUME CallsStructure, NEW c \in CallIds, NEW n \in Parties(c)
    PROVE  /\ n \in Nodes /\ Peer(n, c) \in Nodes /\ Peer(n, c) # n /\ Peer(n, c) # "process"
           /\ pending[n] \in Seq(Message) /\ Way(n, c) \in Seq(Message)
           /\ events[n] \in Seq(Nodes \cup {"process"})
           /\ pending[n] # <<>> => Holds(events[n], "process")
           /\ Oks(n, c) \cap Nos(n, c) = {} /\ Keyed(n, c) \subseteq Oks(n, c)
<1>1. n \in Nodes /\ Peer(n, c) \in Nodes /\ Peer(n, c) # n /\ Peer(n, c) # "process"
  BY PartiesAre, NodesAreNotProcess
<1>2. /\ pending[n] \in Seq(Message) /\ events[n] \in Seq(Nodes \cup {"process"})
      /\ pending[n] # <<>> => Holds(events[n], "process")
  BY <1>1, StructureParts DEF CallsStructure
<1>3. Way(n, c) \in Seq(Message)
  BY <1>1, StructureParts DEF WireFine, Way
<1>4. QED
  BY <1>1, <1>2, <1>3, EntriesAre

\* The inbox of an end: nothing happened to it.
LEMMA InboxSame ==
    ASSUME NEW n, NEW c,
           pending'[n] = pending[n], events'[n] = events[n], Way(n, c)' = Way(n, c)
    PROVE  /\ OkKept(n, c)' <=> OkKept(n, c)
           /\ AllAnswered(n, c)' <=> AllAnswered(n, c)
           /\ Unanswered(n, c)' <=> Unanswered(n, c)
           /\ NoComes(n, c)' <=> NoComes(n, c)
           /\ KeyComes(n, c)' <=> KeyComes(n, c)
           /\ NoWaits(n, c)' <=> NoWaits(n, c)
           /\ ReportWaits(n, c)' <=> ReportWaits(n, c)
           /\ Undisturbed(n, c)
<1>1. Heeded(n, c)' = Heeded(n, c)
  BY DEF Heeded
<1>2. QED
  BY <1>1 DEF OkKept, AllAnswered, Unanswered, NoComes, KeyComes, NoWaits, ReportWaits, Undisturbed

\* What an end knows after the entry m was taken from its queue, and after
\* the message m was sent to it.
TakenFrom(n, c, m) ==
    /\ OkKept(n, c)' => OkKept(n, c)
    /\ AllAnswered(n, c) => AllAnswered(n, c)'
    /\ ReportWaits(n, c) => ReportWaits(n, c)'
    /\ m \notin Nos(n, c) => (NoComes(n, c) => NoComes(n, c)') /\ (NoWaits(n, c) => NoWaits(n, c)')
    /\ m \notin Keyed(n, c) /\ KeyComes(n, c) => KeyComes(n, c)'
    /\ m \notin Oks(n, c) /\ Unanswered(n, c) => Unanswered(n, c)'
    /\ m \in Oks(n, c) /\ ~ReportWaits(n, c)' =>
         OkKept(n, c) /\ (AllAnswered(n, c) => NoComes(n, c)')
\* What m, sent to n, changes of what is known about c.
SentTo(n, c, m) ==
    /\ OkKept(n, c)' <=> OkKept(n, c)
    /\ NoWaits(n, c)' <=> NoWaits(n, c)
    /\ ReportWaits(n, c)' <=> ReportWaits(n, c)
    /\ NoComes(n, c) => NoComes(n, c)'
    /\ KeyComes(n, c) => KeyComes(n, c)'
    /\ m \in Nos(n, c) => NoComes(n, c)' /\ AllAnswered(n, c)'
    /\ m \notin Oks(n, c) /\ AllAnswered(n, c) => AllAnswered(n, c)'
    /\ m \in Oks(n, c) => Unanswered(n, c)'
    /\ m \notin Nos(n, c) /\ Unanswered(n, c) => Unanswered(n, c)'
    /\ m \in Keyed(n, c) => KeyComes(n, c)'

\* The first entry has been taken, and the event with the last one.
LEMMA EntryTaken ==
    ASSUME CallsStructure, NEW c \in CallIds, NEW n \in Parties(c), NEW m,
           pending[n] # <<>>, m = Head(pending[n]), pending'[n] = Tail(pending[n]),
           Way(n, c)' = Way(n, c),
           \/ events'[n] = events[n]
           \/ /\ Tail(pending[n]) = <<>> /\ events[n] # <<>> /\ Head(events[n]) = "process"
              /\ events'[n] = Tail(events[n])
    PROVE  TakenFrom(n, c, m)
<1> DEFINE u == pending[n]
           v == Way(n, c)
           e == events[n]
           p == Peer(n, c)
           O == Oks(n, c)
           N == Nos(n, c)
<1>1. /\ p # "process" /\ u \in Seq(Message) /\ v \in Seq(Message)
      /\ e \in Seq(Nodes \cup {"process"}) /\ O \cap N = {}
  BY InboxIs
<1>2. /\ \A S : Coming(u, v, S) <=> m \in S \/ Coming(Tail(u), v, S)
      /\ Answered(u, v, O, N) => Answered(Tail(u), v, O, N)
      /\ Answered(u, v, O, N) /\ m \in O => Coming(Tail(u), v, N)
      /\ ~Answered(u, v, O, N) /\ m \notin O => ~Answered(Tail(u), v, O, N)
  BY <1>1, TakenFromInbox
<1>3. /\ DOMAIN Tail(u) = 1 .. (Len(u) - 1) /\ DOMAIN u = 1 .. Len(u) /\ Len(u) \in Nat \ {0}
      /\ \A i \in 1 .. (Len(u) - 1) : Tail(u)[i] = u[i + 1]
      /\ m = u[1]
  BY <1>1, HeadTailProperties, LenProperties
<1>4. /\ \A i \in DOMAIN u : i = 1 \/ (i - 1 \in DOMAIN Tail(u) /\ Tail(u)[i - 1] = u[i])
      /\ \A i \in DOMAIN Tail(u) : i + 1 \in DOMAIN u /\ Tail(u)[i] = u[i + 1]
      /\ 1 \in DOMAIN u
  BY <1>3
<1>5. /\ Holds(events'[n], p) <=> Holds(e, p)
      /\ Stale(e, p) => Stale(events'[n], p) \/ Tail(u) = <<>>
      /\ Stale(events'[n], p) => Stale(e, p)
  BY <1>1, EventTaken
<1>6. Stale(e, p) => Holds(e, p)
  BY DEF Stale, Holds
<1>7. /\ Heeded(n, c) = IF Stale(e, p) THEN <<>> ELSE u
      /\ Heeded(n, c)' = IF Stale(e, p) THEN <<>> ELSE Tail(u)
  BY <1>5 DEF Heeded, Kept
<1>8. OkKept(n, c)' => OkKept(n, c)
  <2>1. CASE Stale(e, p)
    BY <1>7, <2>1 DEF OkKept
  <2>2. CASE ~Stale(e, p)
    <3>1. Heeded(n, c) = u /\ Heeded(n, c)' = Tail(u)
      BY <1>7, <2>2
    <3> HIDE DEF u
    <3>2. QED
      BY <1>4, <3>1 DEF OkKept
  <2>3. QED
    BY <2>1, <2>2
<1>9. AllAnswered(n, c) => AllAnswered(n, c)'
  BY <1>2, <1>7 DEF AllAnswered
<1>10. ReportWaits(n, c)' <=> ReportWaits(n, c)
  BY <1>5 DEF ReportWaits
<1>11. m \notin N /\ NoWaits(n, c) => NoWaits(n, c)'
  BY <1>3, <1>4 DEF NoWaits
<1>12. /\ m \notin N /\ NoComes(n, c) => NoComes(n, c)'
       /\ m \notin Keyed(n, c) /\ KeyComes(n, c) => KeyComes(n, c)'
       /\ m \notin O /\ Unanswered(n, c) => Unanswered(n, c)'
  BY <1>2 DEF NoComes, KeyComes, Unanswered
<1>13. ASSUME m \in O, ~ReportWaits(n, c)' PROVE OkKept(n, c) /\ (AllAnswered(n, c) => NoComes(n, c)')
  <2>1. Heeded(n, c) = u
    BY <1>6, <1>7, <1>10, <1>13 DEF ReportWaits
  <2>2. OkKept(n, c)
    BY <1>3, <1>4, <1>13, <2>1 DEF OkKept
  <2>3. AllAnswered(n, c) => NoComes(n, c)'
    BY <1>2, <1>13, <2>1 DEF AllAnswered, NoComes
  <2>4. QED
    BY <2>2, <2>3
<1>14. QED
  BY <1>8, <1>9, <1>10, <1>11, <1>12, <1>13 DEF TakenFrom

\* The other end has sent a message.
LEMMA MessageSent ==
    ASSUME CallsStructure, NEW c \in CallIds, NEW n \in Parties(c), NEW m \in Message,
           pending'[n] = pending[n], events'[n] = events[n], Way(n, c)' = Append(Way(n, c), m)
    PROVE  SentTo(n, c, m)
<1> DEFINE u == pending[n]
           v == Way(n, c)
           O == Oks(n, c)
           N == Nos(n, c)
           f == Heeded(n, c)
<1>1. u \in Seq(Message) /\ v \in Seq(Message) /\ O \cap N = {}
  BY InboxIs
<1>2. f \in Seq(Message)
  BY <1>1, EmptySeq DEF Heeded, Kept
<1>3. /\ \A S : Coming(u, Append(v, m), S) <=> Coming(u, v, S) \/ m \in S
      /\ m \in O => ~Answered(u, Append(v, m), O, N)
      /\ m \notin N /\ ~Answered(u, v, O, N) => ~Answered(u, Append(v, m), O, N)
  BY <1>1, SentToInbox
<1>4. /\ m \in N => Answered(f, Append(v, m), O, N)
      /\ m \notin O /\ Answered(f, v, O, N) => Answered(f, Append(v, m), O, N)
  <2> HIDE DEF f
  <2>1. QED
    BY <1>1, <1>2, SentToInbox
<1>5. Heeded(n, c)' = f
  BY DEF Heeded
<1>6. QED
  BY <1>3, <1>4, <1>5
     DEF SentTo, OkKept, NoWaits, ReportWaits, NoComes, KeyComes, AllAnswered, Unanswered

\* An event about somebody else is queued.
LEMMA EventQueued ==
    ASSUME NEW e \in Seq(Nodes \cup {"process"}), NEW x \in Nodes \cup {"process"}, NEW p, p # x
    PROVE  /\ Stale(Append(e, x), p) <=> Stale(e, p)
           /\ Holds(Append(e, x), p) <=> Holds(e, p)
  BY EventAdded

\* An event about somebody else is handled.
LEMMA EventHandled ==
    ASSUME NEW e \in Seq(Nodes \cup {"process"}), e # <<>>, NEW p
    PROVE  /\ Head(e) # "process" => (Stale(Tail(e), p) <=> Stale(e, p))
           /\ Head(e) # p => (Holds(Tail(e), p) <=> Holds(e, p))
  BY EventTaken

\* An entry in neither of the two sets changes nothing.
LEMMA EntryAdded ==
    ASSUME NEW M, NEW u \in Seq(M), NEW v \in Seq(M), NEW O, NEW N, NEW m \in M,
           m \notin O, m \notin N
    PROVE  /\ \A S : Coming(u, v, S) => Coming(Append(u, m), v, S)
           /\ \A S : (\E i \in DOMAIN u : u[i] \in S) => \E i \in DOMAIN Append(u, m) : Append(u, m)[i] \in S
           /\ Answered(u, v, O, N) => Answered(Append(u, m), v, O, N)
           /\ ~Answered(u, v, O, N) => ~Answered(Append(u, m), v, O, N)
           /\ (\A i \in DOMAIN u : u[i] \notin O) => \A i \in DOMAIN Append(u, m) : Append(u, m)[i] \notin O
<1> DEFINE w == <<m>>
           t == u \o w
<1>1. Append(u, m) = t /\ w \in Seq(M) /\ DOMAIN w = {1} /\ w[1] = m
  BY AppendIsConcat
<1> HIDE DEF w
<1>2. (\A i \in DOMAIN w : w[i] \notin O) /\ \A i \in DOMAIN w : w[i] \notin N
  BY <1>1
<1>3. /\ \A S : Coming(t, v, S) <=> Coming(u, v, S) \/ \E i \in DOMAIN w : w[i] \in S
      /\ \A S : (\E i \in DOMAIN u : u[i] \in S) => \E i \in DOMAIN t : t[i] \in S
  BY <1>1, <1>2, AddedToInbox
<1>4. /\ Answered(u, v, O, N) => Answered(t, v, O, N)
      /\ ~Answered(u, v, O, N) => ~Answered(t, v, O, N)
  BY <1>1, <1>2, AddedToInbox
<1>5. (\A i \in DOMAIN u : u[i] \notin O) => \A i \in DOMAIN t : t[i] \notin O
  BY <1>1, <1>2, AddedToInbox
<1> HIDE DEF t
<1>6. QED
  BY <1>1, <1>3, <1>4, <1>5

\* Entries about other calls, or the node's own request, are put into the
\* queue, each with its event.
LEMMA EntryInserted ==
    ASSUME CallsStructure, NEW c \in CallIds, NEW n \in Parties(c), NEW m \in Message,
           m \notin Oks(n, c), m \notin Nos(n, c),
           pending'[n] = Append(pending[n], m), events'[n] = Append(events[n], "process"),
           Way(n, c)' = Way(n, c)
    PROVE  Undisturbed(n, c)
<1> DEFINE u == pending[n]
           v == Way(n, c)
           e == events[n]
           p == Peer(n, c)
           O == Oks(n, c)
           N == Nos(n, c)
<1>1. /\ p # "process" /\ u \in Seq(Message) /\ v \in Seq(Message)
      /\ e \in Seq(Nodes \cup {"process"})
  BY InboxIs
<1>2. m \notin O /\ m \notin N
  OBVIOUS
<1>3. \A S : Coming(u, v, S) => Coming(Append(u, m), v, S)
  <2> HIDE DEF u, v, O, N
  <2>1. QED
    BY <1>1, <1>2, EntryAdded
<1>3a. \A S : (\E i \in DOMAIN u : u[i] \in S) => \E i \in DOMAIN Append(u, m) : Append(u, m)[i] \in S
  <2> HIDE DEF u, v, O, N
  <2>1. QED
    BY <1>1, <1>2, EntryAdded
<1>3b. /\ Answered(u, v, O, N) => Answered(Append(u, m), v, O, N)
       /\ ~Answered(u, v, O, N) => ~Answered(Append(u, m), v, O, N)
  <2> HIDE DEF u, v, O, N
  <2>1. QED
    BY <1>1, <1>2, EntryAdded
<1>3c. (\A i \in DOMAIN u : u[i] \notin O) => \A i \in DOMAIN Append(u, m) : Append(u, m)[i] \notin O
  <2> HIDE DEF u, v, O, N
  <2>1. QED
    BY <1>1, <1>2, EntryAdded
<1>4. /\ Stale(events'[n], p) <=> Stale(e, p)
      /\ Holds(e, p) => Holds(events'[n], p)
  <2>1. /\ Stale(Append(e, "process"), p) <=> Stale(e, p)
        /\ Holds(Append(e, "process"), p) <=> Holds(e, p)
    BY <1>1, EventQueued
  <2>2. QED
    BY <2>1, Zenon
<1>5. /\ Heeded(n, c) = IF Stale(e, p) THEN <<>> ELSE u
      /\ Heeded(n, c)' = IF Stale(e, p) THEN <<>> ELSE Append(u, m)
  BY <1>4 DEF Heeded, Kept
<1>8. OkKept(n, c)' => OkKept(n, c)
  BY <1>3c, <1>5 DEF OkKept
<1>9. AllAnswered(n, c) => AllAnswered(n, c)'
  <2>1. CASE Stale(e, p)
    BY <1>5, <2>1 DEF AllAnswered
  <2>2. CASE ~Stale(e, p)
    <3>1. Heeded(n, c) = u /\ Heeded(n, c)' = Append(u, m)
      BY <1>5, <2>2
    <3>2. QED
      BY <1>3b, <3>1, Zenon DEF AllAnswered
  <2>3. QED
    BY <2>1, <2>2
<1>10. NoWaits(n, c) => NoWaits(n, c)'
  BY <1>3a, Zenon DEF NoWaits
<1>11. /\ NoComes(n, c) => NoComes(n, c)'
       /\ KeyComes(n, c) => KeyComes(n, c)'
       /\ Unanswered(n, c) => Unanswered(n, c)'
  BY <1>3, <1>3b, Zenon DEF NoComes, KeyComes, Unanswered
<1>12. ReportWaits(n, c) => ReportWaits(n, c)'
  BY <1>4 DEF ReportWaits
<1>13. QED
  BY <1>8, <1>9, <1>10, <1>11, <1>12 DEF Undisturbed

\* A message that was on its way is put into the queue.
LEMMA EntryMoved ==
    ASSUME CallsStructure, NEW c \in CallIds, NEW n \in Parties(c), Way(n, c) # <<>>, Linked(n, c)',
           pending'[n] = Append(pending[n], Head(Way(n, c))),
           events'[n] = Append(events[n], "process"), Way(n, c)' = Tail(Way(n, c))
    PROVE  Undisturbed(n, c)
<1> DEFINE u == pending[n]
           v == Way(n, c)
           e == events[n]
           p == Peer(n, c)
           O == Oks(n, c)
           N == Nos(n, c)
           t == Append(u, Head(v))
<1>1. /\ p # "process" /\ u \in Seq(Message) /\ v \in Seq(Message)
      /\ e \in Seq(Nodes \cup {"process"})
  BY InboxIs
<1>2. /\ \A S : Coming(t, Tail(v), S) <=> Coming(u, v, S)
      /\ Answered(u, v, O, N) => Answered(t, Tail(v), O, N)
      /\ ~Answered(u, v, O, N) => ~Answered(t, Tail(v), O, N)
      /\ Answered(<<>>, v, O, N) => Answered(<<>>, Tail(v), O, N)
      /\ \A S : (\E i \in DOMAIN u : u[i] \in S) => \E i \in DOMAIN t : t[i] \in S
  BY <1>1, MovedInInbox
<1>3. /\ Stale(events'[n], p) <=> Stale(e, p)
      /\ Holds(e, p) => Holds(events'[n], p)
  BY <1>1, EventAdded
<1>4. AllAnswered(n, c) => AllAnswered(n, c)'
  BY <1>2, <1>3 DEF AllAnswered, Heeded, Kept
<1>5. QED
  BY <1>2, <1>3, <1>4
     DEF Undisturbed, Unanswered, NoComes, KeyComes, NoWaits, ReportWaits

\* An event that says nothing about the other end is queued or handled.
LEMMA EventPassed ==
    ASSUME CallsStructure, NEW c \in CallIds, NEW n \in Parties(c),
           pending'[n] = pending[n], Way(n, c)' = Way(n, c),
           \/ \E x \in Nodes : x # Peer(n, c) /\ events'[n] = Append(events[n], x)
           \/ /\ events[n] # <<>> /\ events'[n] = Tail(events[n])
              /\ \/ pending[n] = <<>> /\ Head(events[n]) = "process"
                 \/ Head(events[n]) # "process" /\ (Has(n, c) => Head(events[n]) # Peer(n, c))
    PROVE  Undisturbed(n, c)
<1> DEFINE e == events[n]
           p == Peer(n, c)
<1>1. p # "process" /\ e \in Seq(Nodes \cup {"process"})
  BY InboxIs
<1>2. ASSUME NEW x \in Nodes, x # p, events'[n] = Append(e, x)
      PROVE  (Stale(events'[n], p) <=> Stale(e, p)) /\ (Holds(e, p) => Holds(events'[n], p))
  BY <1>1, <1>2, EventQueued
<1>3. ASSUME e # <<>>, events'[n] = Tail(e),
             \/ pending[n] = <<>> /\ Head(e) = "process"
             \/ Head(e) # "process" /\ (Has(n, c) => Head(e) # p)
      PROVE  /\ pending[n] # <<>> => (Stale(events'[n], p) <=> Stale(e, p))
             /\ Has(n, c) /\ Holds(e, p) => Holds(events'[n], p)
  BY <1>1, <1>3, EventHandled
<1>4. Heeded(n, c)' = Heeded(n, c) /\ (Has(n, c) /\ Holds(e, p) => Holds(events'[n], p))
  BY <1>2, <1>3 DEF Heeded, Kept
<1>5. QED
  BY <1>4
     DEF Undisturbed, OkKept, AllAnswered, Unanswered, NoComes, KeyComes, NoWaits, ReportWaits

\* The connection to the other end has gone: what waited before the report
\* of it will not be believed.
LEMMA EndGone ==
    ASSUME CallsStructure, NEW c \in CallIds, NEW n \in Parties(c),
           pending'[n] = pending[n], events'[n] = Append(events[n], Peer(n, c))
    PROVE  ~OkKept(n, c)' /\ ReportWaits(n, c)'
<1> DEFINE e == events[n]
           p == Peer(n, c)
<1>1. /\ e \in Seq(Nodes \cup {"process"}) /\ p \in Nodes
      /\ pending[n] # <<>> => Holds(e, "process")
  BY InboxIs
<1>2. /\ Holds(events'[n], p)
      /\ pending[n] # <<>> => Stale(events'[n], p)
  BY <1>1, EventAdded
<1>3. Heeded(n, c)' = <<>>
  BY <1>2 DEF Heeded, Kept
<1>4. QED
  BY <1>2, <1>3 DEF OkKept, ReportWaits

\* A call with the same state and key.
LEMMA CallSame ==
    ASSUME NEW n, NEW c, c \in DOMAIN calls'[n] <=> c \in OnGoing(n),
           c \in OnGoing(n) =>
             calls'[n][c].state = calls[n][c].state /\ calls'[n][c].key = calls[n][c].key
    PROVE  SameCall(n, c)
  BY DEF SameCall, Has, IsOpen, NulKey, OnGoing

\* What a message sent by n does to the way to each end of each call.
LEMMA WaySent ==
    ASSUME CallsStructure, NEW d \in CallIds, NEW n \in Parties(d), NEW call \in Call,
           wire' = SentToRemote(n, d, call), NEW c \in CallIds, NEW x \in Parties(c)
    PROVE  /\ Peer(x, c) = n /\ x = Peer(n, d) /\ x \in connected[n] =>
                Way(x, c)' = Append(Way(x, c), AsMessage(n, d, call))
           /\ ~(Peer(x, c) = n /\ x = Peer(n, d) /\ x \in connected[n]) => Way(x, c)' = Way(x, c)
<1>1. x \in Nodes /\ Peer(x, c) \in Nodes
  BY PartiesAre
<1> DEFINE p == Peer(x, c)
           q == Peer(n, d)
           m == AsMessage(n, d, call)
<1>2. wire'[<<p, x>>] = IF p = n /\ x = q /\ x \in connected[n]
                        THEN Append(wire[<<p, x>>], m) ELSE wire[<<p, x>>]
  BY <1>1, SentIs
<1> HIDE DEF m, p, q
<1>3. /\ p = n /\ x = q /\ x \in connected[n] => wire'[<<p, x>>] = Append(wire[<<p, x>>], m)
      /\ ~(p = n /\ x = q /\ x \in connected[n]) => wire'[<<p, x>>] = wire[<<p, x>>]
  <2>1. ASSUME p = n /\ x = q /\ x \in connected[n] PROVE wire'[<<p, x>>] = Append(wire[<<p, x>>], m)
    BY <1>2, <2>1, Zenon
  <2>2. ASSUME ~(p = n /\ x = q /\ x \in connected[n]) PROVE wire'[<<p, x>>] = wire[<<p, x>>]
    BY <1>2, <2>2, Zenon
  <2>3. QED
    BY <2>1, <2>2, Zenon
<1>4. QED
  BY <1>3, Zenon DEF Way, p, q, m

\* A message about another call changes nothing for this one.
LEMMA OtherSent ==
    ASSUME CallsStructure, NEW d \in CallIds, NEW n \in Parties(d), NEW call \in Call,
           wire' = SentToRemote(n, d, call), NEW c \in CallIds, c # d, NEW x \in Parties(c),
           pending'[x] = pending[x], events'[x] = events[x]
    PROVE  Undisturbed(x, c)
<1> DEFINE m == AsMessage(n, d, call)
<1>1. m \in Message /\ m.call = d
  BY MessageIs
<1>2. CASE Way(x, c)' = Way(x, c)
  BY <1>2, InboxSame
<1>3. CASE Way(x, c)' = Append(Way(x, c), m)
  <2> HIDE DEF m
  <2>1. m \notin Oks(x, c) /\ m \notin Nos(x, c)
    BY <1>1, EntriesAre
  <2>2. QED
    BY <1>1, <1>3, <2>1, MessageSent DEF SentTo, Undisturbed
<1>4. QED
  BY <1>2, <1>3, WaySent

\* The same for a message about the call, at the end that sends it.
LEMMA OwnSent ==
    ASSUME CallsStructure, NEW d \in CallIds, NEW n \in Parties(d), NEW call \in Call,
           wire' = SentToRemote(n, d, call), NEW c \in CallIds, n \in Parties(c)
    PROVE  Way(n, c)' = Way(n, c)
<1>1. Peer(n, d) # n
  BY PartiesAre
<1>2. QED
  BY <1>1, WaySent

\* What handling an entry does, whatever the entry says.
LEMMA HandlingEffects ==
    ASSUME CallsStructure, NEW n \in Nodes, NEW m \in ForNode(n), Handles(n, m)
    PROVE  /\ wire' = wire \/ \E call \in Call : wire' = SentToRemote(n, m.call, call)
           /\ \A c \in CallIds : c # m.call => SameCall(n, c)
           /\ \A x \in Nodes : \A c : x # n => SameCall(x, c)
           /\ excused \subseteq excused'
<1>1. /\ m.call \in CallIds /\ n \in Parties(m.call) /\ m.ok \in BOOLEAN
      /\ m.key \in {"none", "key"}
  BY DEF ForNode, Message
<1>2. m.call \in OnGoing(n) => calls[n][m.call] \in CallAt(n, m.call) /\ calls[n][m.call] \in Call
  BY ListsAre
<1>3. wire' = wire \/ \E call \in Call : wire' = SentToRemote(n, m.call, call)
  <2>1. CASE CallEnds(n, m)
    <3> DEFINE closed == [calls[n][m.call] EXCEPT !.ok = FALSE]
    <3>1. closed \in Call /\ wire' = SentToRemote(n, m.call, closed)
      BY <1>2, <2>1 DEF CallEnds, Call
    <3> HIDE DEF closed
    <3>2. QED
      BY <3>1
  <2>2. CASE NewOutgoingCall(n, m) \/ CallIsRefused(n, m)
    <3>1. PICK ok \in BOOLEAN : wire' = SentToRemote(n, m.call, [state |-> "Initial", ok |-> ok, key |-> m.key])
      BY <1>1, <2>2, Zenon DEF NewOutgoingCall, CallIsRefused
    <3> DEFINE call == [state |-> "Initial", ok |-> ok, key |-> m.key]
    <3>2. call \in Call
      BY <1>1 DEF Call, States, Keys
    <3>3. QED
      BY <3>1, <3>2
  <2>3. CASE CallIsAnswered(n, m) \/ NewIncomingCall(n, m) \/ Ignored(n, m)
    BY <2>3 DEF CallIsAnswered, NewIncomingCall, Ignored
  <2>4. QED
    BY <2>1, <2>2, <2>3 DEF Handles
<1>4. excused \subseteq excused'
  BY DEF Handles, CallEnds, CallIsAnswered, NewOutgoingCall, CallIsRefused, NewIncomingCall, Ignored
<1> DEFINE Same == /\ \A c \in CallIds : c # m.call => SameCall(n, c)
                   /\ \A x \in Nodes : \A c : x # n => SameCall(x, c)
<1>5. CASE CallEnds(n, m)
  <2>1. RemoveCallFromArray(n, m.call)
    BY <1>5 DEF CallEnds
  <2>2. /\ DOMAIN calls'[n] = OnGoing(n) \ {m.call}
        /\ \A d \in OnGoing(n) : d # m.call => calls'[n][d] = calls[n][d]
        /\ \A x \in Nodes : x # n => calls'[x] = calls[x]
    BY <1>1, <2>1, WithoutIsFine
  <2>3. Same
    BY <2>2, CallSame DEF OnGoing
  <2>4. QED
    BY <1>3, <1>4, <2>3
<1>6. ASSUME NEW call \in CallAt(n, m.call), calls' = With(n, m.call, call) PROVE Same
  <2>1. /\ DOMAIN calls'[n] = OnGoing(n) \cup {m.call}
        /\ \A d \in OnGoing(n) : d # m.call => calls'[n][d] = calls[n][d]
        /\ \A x \in Nodes : x # n => calls'[x] = calls[x]
    BY <1>1, <1>6, WithIsFine
  <2>2. QED
    BY <2>1, CallSame DEF OnGoing
<1>7. CASE calls' = calls
  BY <1>3, <1>4, <1>7, CallSame DEF OnGoing
<1>8. CASE CallIsAnswered(n, m)
  <2> DEFINE call == [calls[n][m.call] EXCEPT !.state = "Open"]
  <2>1. /\ m.call \in OnGoing(n) /\ calls[n][m.call].state = "Initial"
        /\ calls' = With(n, m.call, call)
    BY <1>8 DEF CallIsAnswered, BecomeOpen
  <2>2. n # Callee[m.call]
    BY <1>1, <1>2, <2>1, PartiesAre DEF CallAt, Parties
  <2>3. call \in Call
    BY <1>2, <2>1 DEF Call, States
  <2> HIDE DEF call
  <2>4. call \in CallAt(n, m.call)
    <3>1. call.state = "Open"
      BY <1>2, <2>1 DEF Call, call
    <3>2. n = Caller[m.call]
      BY <1>1, <2>2 DEF Parties
    <3>3. QED
      BY <2>2, <2>3, <3>1, <3>2 DEF CallAt
  <2>5. QED
    BY <1>3, <1>4, <1>6, <2>1, <2>4
<1>9. CASE NewOutgoingCall(n, m)
  <2> DEFINE call == [state |-> "Initial", ok |-> m.ok, key |-> m.key]
  <2>1. call \in Call /\ call.state = "Initial"
    BY <1>1 DEF Call, States, Keys
  <2>2. n = Caller[m.call] /\ calls' = With(n, m.call, call)
    BY <1>9 DEF NewOutgoingCall
  <2> HIDE DEF call
  <2>3. call \in CallAt(n, m.call)
    BY <2>1, <2>2 DEF CallAt
  <2>4. QED
    BY <1>3, <1>4, <1>6, <2>2, <2>3
<1>10. CASE NewIncomingCall(n, m)
  <2> DEFINE call == [state |-> "Incoming", ok |-> m.ok, key |-> m.key]
  <2>1. call \in Call /\ call.state = "Incoming"
    BY <1>1 DEF Call, States, Keys
  <2>2. n # Caller[m.call] /\ calls' = With(n, m.call, call)
    BY <1>10 DEF NewIncomingCall
  <2> HIDE DEF call
  <2>3. call \in CallAt(n, m.call)
    BY <2>1, <2>2 DEF CallAt
  <2>4. QED
    BY <1>3, <1>4, <1>6, <2>2, <2>3
<1>11. CASE CallIsRefused(n, m) \/ Ignored(n, m)
  BY <1>7, <1>11 DEF CallIsRefused, Ignored
<1>12. QED
  BY <1>5, <1>8, <1>9, <1>10, <1>11 DEF Handles

\* What a step of processCallData leaves alone, and where its entry is from.
LEMMA HandlingIs ==
    ASSUME CallsStructure, NEW n \in Nodes, ProcessCallData(n), NEW m, m = Head(pending[n])
    PROVE  /\ m \in ForNode(n) /\ Handles(n, m)
           /\ pending[n] # <<>> /\ pending'[n] = Tail(pending[n])
           /\ \/ events'[n] = events[n]
              \/ /\ Tail(pending[n]) = <<>> /\ events[n] # <<>> /\ Head(events[n]) = "process"
                 /\ events'[n] = Tail(events[n])
           /\ \A x \in Nodes : x # n => pending'[x] = pending[x] /\ events'[x] = events[x]
           /\ connected' = connected
<1>1. /\ events[n] # <<>> /\ Head(events[n]) = "process" /\ pending[n] # <<>>
      /\ pending' = [pending EXCEPT ![n] = Tail(@)]
      /\ IF Len(pending[n]) = 1 THEN Finished(n) ELSE UNCHANGED events
      /\ connected' = connected
  BY DEF ProcessCallData
<1>2. m \in ForNode(n) /\ Handles(n, m)
  BY HandlingKeepsStructure
<1>3. /\ pending \in [Nodes -> Seq(Message)] /\ events \in [Nodes -> Seq(Nodes \cup {"process"})]
  BY StructureParts
<1>4. pending'[n] = Tail(pending[n]) /\ \A x \in Nodes : x # n => pending'[x] = pending[x]
  BY <1>1, <1>3
<1>5. /\ \A x \in Nodes : x # n => events'[x] = events[x]
      /\ IF Len(pending[n]) = 1 THEN events'[n] = Tail(events[n]) ELSE events'[n] = events[n]
  BY <1>1, <1>3 DEF Finished
<1>6. Len(pending[n]) = 1 => Tail(pending[n]) = <<>>
  <2>1. pending[n] \in Seq(Message)
    BY <1>3
  <2>2. Len(pending[n]) = 1 => Tail(pending[n]) \in Seq(Message) /\ Len(Tail(pending[n])) = 0
    BY <1>1, <2>1, HeadTailProperties
  <2>3. QED
    BY <2>2, EmptySeq
<1>7. QED
  BY <1>1, <1>2, <1>4, <1>5, <1>6

\* What is known of an entry.
LEMMA EntryIs ==
    ASSUME NEW n \in Nodes, NEW m \in ForNode(n)
    PROVE  /\ m \in Message /\ m.call \in CallIds /\ n \in Parties(m.call) /\ IsValid(n, m.call, m.from)
           /\ m.ok \in BOOLEAN /\ m.key \in {"none", "key"}
           /\ m.from = n \/ m.from = Peer(n, m.call)
           /\ m.from = n => n = Caller[m.call] /\ m.ok /\ m.key = "none"
<1>1. /\ m \in Message /\ m.call \in CallIds /\ n \in Parties(m.call) /\ m.from \in Parties(m.call)
      /\ m.ok \in BOOLEAN /\ m.key \in {"none", "key"}
      /\ m.from = n => n = Caller[m.call] /\ m.ok /\ m.key = "none"
  BY DEF ForNode, Message
<1>2. m.from = n \/ m.from = Peer(n, m.call)
  BY <1>1, PartiesAre
<1>3. QED
  BY <1>1, <1>2 DEF IsValid, Parties

\* processCallData takes one entry from the inbox.
LEMMA HandlingTakes ==
    ASSUME CallsStructure, NEW n \in Nodes, ProcessCallData(n), NEW m, m = Head(pending[n]),
           NEW c \in CallIds, n \in Parties(c)
    PROVE  TakenFrom(n, c, m)
<1>1. m \in ForNode(n) /\ Handles(n, m)
  BY HandlingIs
<1>2. m.call \in CallIds /\ n \in Parties(m.call)
  BY <1>1, EntryIs
<1>3. Way(n, c)' = Way(n, c)
  <2>1. CASE wire' = wire
    BY <2>1 DEF Way
  <2>2. ASSUME NEW call \in Call, wire' = SentToRemote(n, m.call, call) PROVE Way(n, c)' = Way(n, c)
    BY <1>2, <2>2, OwnSent
  <2>3. QED
    BY <1>1, <2>1, <2>2, HandlingEffects
<1>4. QED
  BY <1>3, HandlingIs, EntryTaken

\* It leaves the invariant of the other calls alone.
LEMMA HandlingKeepsOthers ==
    ASSUME CallsStructure, NEW n \in Nodes, ProcessCallData(n), NEW m, m = Head(pending[n]),
           NEW c \in CallIds, c # m.call, CallInv(c)
    PROVE  CallInv(c)'
<1>1. m \in ForNode(n) /\ Handles(n, m) /\ connected' = connected
  BY HandlingIs
<1>2. m \in Message /\ m.call \in CallIds /\ n \in Parties(m.call)
  BY <1>1, EntryIs
<1>3. ASSUME NEW x \in Parties(c) PROVE Undisturbed(x, c) /\ SameCall(x, c) /\ SameLink(x, c)
  <2>1. x \in Nodes
    BY PartiesAre
  <2>2. SameLink(x, c)
    BY <1>1 DEF SameLink, Linked
  <2>3. SameCall(x, c)
    BY <1>1, <2>1, HandlingEffects
  <2>4. CASE x = n
    <3>1. m \notin Oks(n, c) /\ m \notin Nos(n, c) /\ m \notin Keyed(n, c)
      BY <1>2, EntriesAre
    <3>2. TakenFrom(n, c, m)
      BY <2>4, HandlingTakes
    <3>3. QED
      BY <2>2, <2>3, <2>4, <3>1, <3>2 DEF TakenFrom, Undisturbed
  <2>5. CASE x # n
    <3>1. pending'[x] = pending[x] /\ events'[x] = events[x]
      BY <2>1, <2>5, HandlingIs
    <3>2. CASE wire' = wire
      <4>1. Way(x, c)' = Way(x, c)
        BY <3>2 DEF Way
      <4>2. QED
        BY <2>2, <2>3, <3>1, <4>1, InboxSame
    <3>3. ASSUME NEW call \in Call, wire' = SentToRemote(n, m.call, call) PROVE Undisturbed(x, c)
      BY <1>2, <3>1, <3>3, OtherSent
    <3>4. QED
      BY <1>1, <2>2, <2>3, <3>2, <3>3, HandlingEffects
  <2>6. QED
    BY <2>4, <2>5
<1>4. QED
  BY <1>3, CallKept

\* What the other end of a call knows once a message about it was sent, or
\* was not as there is no connection.
LEMMA PeerHears ==
    ASSUME CallsStructure, NEW c \in CallIds, NEW n \in Parties(c), NEW call \in Call,
           wire' = SentToRemote(n, c, call), NEW q, q = Peer(n, c),
           pending'[q] = pending[q], events'[q] = events[q], NEW m, m = AsMessage(n, c, call)
    PROVE  /\ OkKept(q, c)' <=> OkKept(q, c)
           /\ NoWaits(q, c)' <=> NoWaits(q, c)
           /\ ReportWaits(q, c)' <=> ReportWaits(q, c)
           /\ NoComes(q, c) => NoComes(q, c)'
           /\ KeyComes(q, c) => KeyComes(q, c)'
           /\ Linked(n, c) => SentTo(q, c, m)
           /\ call.ok => m \in Oks(q, c) /\ m \notin Nos(q, c)
           /\ ~call.ok => m \in Nos(q, c) /\ m \notin Oks(q, c)
           /\ call.ok /\ call.key = "key" => m \in Keyed(q, c)
<1>1. q \in Parties(c) /\ Peer(q, c) = n /\ q \in Nodes
  BY PartiesAre
<1>2. m \in Message /\ m.call = c /\ m.from = n /\ m.ok = call.ok
      /\ m.key = IF call.key = "key" THEN "key" ELSE "none"
  BY MessageIs
<1>3. /\ call.ok => m \in Oks(q, c) /\ m \notin Nos(q, c)
      /\ ~call.ok => m \in Nos(q, c) /\ m \notin Oks(q, c)
      /\ call.ok /\ call.key = "key" => m \in Keyed(q, c)
  BY <1>1, <1>2, EntriesAre
<1>4. CASE Linked(n, c)
  <2>1. Way(q, c)' = Append(Way(q, c), m)
    <3>1. q \in connected[n]
      BY <1>4 DEF Linked
    <3>2. Way(q, c)' = Append(Way(q, c), AsMessage(n, c, call))
      BY <1>1, <3>1, WaySent, Zenon
    <3>3. QED
      BY <3>2, Zenon
  <2>2. SentTo(q, c, m)
    BY <1>1, <1>2, <2>1, MessageSent, Zenon
  <2>3. QED
    BY <1>3, <2>2 DEF SentTo
<1>5. CASE ~Linked(n, c)
  <2>1. Way(q, c)' = Way(q, c)
    BY <1>1, <1>5, WaySent DEF Linked
  <2>2. QED
    BY <1>3, <1>5, <2>1, InboxSame
<1>6. QED
  BY <1>4, <1>5

\* An end that drops its call and tells the other one keeps the invariant.
LEMMA GoneIsTold ==
    ASSUME CallsStructure, NEW c \in CallIds, NEW n \in Parties(c), CallInv(c),
           NEW call \in Call, ~call.ok, wire' = SentToRemote(n, c, call), NEW q, q = Peer(n, c),
           pending'[q] = pending[q], events'[q] = events[q], connected' = connected,
           ~Has(n, c)', SameCall(q, c),
           OkKept(n, c)' => OkKept(n, c), AllAnswered(n, c) => AllAnswered(n, c)'
    PROVE  CallInv(c)'
<1> DEFINE m == AsMessage(n, c, call)
<1>1. /\ OkKept(q, c)' <=> OkKept(q, c)
      /\ NoWaits(q, c)' <=> NoWaits(q, c)
      /\ ReportWaits(q, c)' <=> ReportWaits(q, c)
      /\ Linked(n, c) => SentTo(q, c, m)
      /\ m \in Nos(q, c)
  BY PeerHears
<1> HIDE DEF m
<1>2. Linked(n, c) => NoComes(q, c)' /\ AllAnswered(q, c)'
  BY <1>1 DEF SentTo
<1>3. \A x \in Parties(c) : SameLink(x, c)
  BY DEF SameLink, Linked
<1>4. QED
  BY <1>1, <1>2, <1>3, CallGone

\* The entry is about this call.
LEMMA CallEndsKeeps ==
    ASSUME CallsStructure, NEW n \in Nodes, ProcessCallData(n), NEW m, m = Head(pending[n]),
           NEW c \in CallIds, c = m.call, CallInv(c), CallEnds(n, m) \/ CallIsRefused(n, m)
    PROVE  CallInv(c)'
<1> DEFINE q == Peer(n, c)
<1>1. m \in ForNode(n) /\ Handles(n, m) /\ connected' = connected
  BY HandlingIs
<1>2. n \in Parties(c) /\ q \in Nodes /\ q # n /\ m.key \in {"none", "key"}
  BY <1>1, EntryIs, PartiesAre
<1>3. pending'[q] = pending[q] /\ events'[q] = events[q] /\ SameCall(q, c)
  BY <1>1, <1>2, HandlingIs, HandlingEffects
<1>4. TakenFrom(n, c, m)
  BY <1>2, HandlingTakes
<1>5. \E call \in Call : ~call.ok /\ wire' = SentToRemote(n, c, call)
  <2>1. CASE CallEnds(n, m)
    <3> DEFINE closed == [calls[n][c] EXCEPT !.ok = FALSE]
    <3>1. calls[n][c] \in Call
      BY <2>1, ListsAre DEF CallEnds
    <3>2. closed \in Call /\ ~closed.ok /\ wire' = SentToRemote(n, c, closed)
      BY <2>1, <3>1 DEF CallEnds, Call
    <3> HIDE DEF closed
    <3>3. QED
      BY <3>2
  <2>2. CASE CallIsRefused(n, m)
    <3> DEFINE call == [state |-> "Initial", ok |-> FALSE, key |-> m.key]
    <3>1. call \in Call /\ ~call.ok /\ wire' = SentToRemote(n, c, call)
      BY <1>2, <2>2 DEF CallIsRefused, Call, States, Keys
    <3> HIDE DEF call
    <3>2. QED
      BY <3>1
  <2>3. QED
    BY <2>1, <2>2
<1>6. ~Has(n, c)'
  <2>1. CASE CallEnds(n, m)
    BY <1>2, <2>1, WithoutIsFine DEF CallEnds, Has, OnGoing
  <2>2. CASE CallIsRefused(n, m)
    BY <2>2 DEF CallIsRefused, Has, OnGoing
  <2>3. QED
    BY <2>1, <2>2
<1>7. QED
  BY <1>1, <1>2, <1>3, <1>4, <1>5, <1>6, GoneIsTold DEF TakenFrom

\* The callee's key has come, and the caller's call opens.
LEMMA CallIsAnsweredKeeps ==
    ASSUME CallsStructure, NEW n \in Nodes, ProcessCallData(n), NEW m, m = Head(pending[n]),
           NEW c \in CallIds, c = m.call, CallInv(c), CallIsAnswered(n, m)
    PROVE  CallInv(c)'
<1> DEFINE q == Callee[c]
<1>1. m \in ForNode(n) /\ Handles(n, m) /\ connected' = connected
  BY HandlingIs
<1>2. /\ n \in Parties(c) /\ m.ok /\ m.key = "key" /\ m.from = Peer(n, c) /\ m \in Message
      /\ c \in OnGoing(n) /\ calls[n][c].state = "Initial"
      /\ calls' = With(n, c, [calls[n][c] EXCEPT !.state = "Open"]) /\ wire' = wire
  <2>1. /\ c \in OnGoing(n) /\ IsValid(n, c, m.from) /\ m.ok /\ m.key # "none"
        /\ calls[n][c].state = "Initial" /\ wire' = wire
        /\ calls' = With(n, c, [calls[n][c] EXCEPT !.state = "Open"])
    BY DEF CallIsAnswered, BecomeOpen
  <2>2. /\ m \in Message /\ n \in Parties(c) /\ m.key \in {"none", "key"}
        /\ m.from = n \/ m.from = Peer(n, c)
        /\ m.from = n => m.key = "none"
    BY <1>1, EntryIs
  <2>3. m.key = "key" /\ m.from = Peer(n, c)
    BY <2>1, <2>2
  <2>4. QED
    BY <2>1, <2>2, <2>3
<1>3. calls[n][c] \in CallAt(n, c) /\ calls[n][c] \in Call
  BY <1>2, ListsAre
<1>4. n = Caller[c] /\ q = Peer(n, c) /\ q \in Parties(c) /\ q \in Nodes /\ q # n
      /\ Peer(q, c) = n /\ \A x \in Parties(c) : x = n \/ x = q
  BY <1>2, <1>3, PartiesAre DEF CallAt, Parties
<1>5. m \in Oks(n, c) /\ m \notin Nos(n, c)
  BY <1>2, EntriesAre
<1>6. TakenFrom(n, c, m)
  BY <1>2, HandlingTakes
<1>7. SameCall(q, c) /\ pending'[q] = pending[q] /\ events'[q] = events[q] /\ Way(q, c)' = Way(q, c)
  <2>1. SameCall(q, c)
    BY <1>1, <1>4, HandlingEffects
  <2>2. pending'[q] = pending[q] /\ events'[q] = events[q]
    BY <1>4, HandlingIs
  <2>3. Way(q, c)' = Way(q, c)
    BY <1>2 DEF Way, Peer
  <2>4. QED
    BY <2>1, <2>2, <2>3
<1>8. Has(n, c) /\ Has(n, c)' /\ IsOpen(n, c)'
  <2>1. DOMAIN calls'[n] = OnGoing(n) \cup {c} /\ calls'[n][c].state = "Open"
    <3> DEFINE call == [calls[n][c] EXCEPT !.state = "Open"]
    <3>1. call \in CallAt(n, c)
      <4>1. call \in Call /\ call.state = "Open"
        BY <1>3 DEF Call, States
      <4> HIDE DEF call
      <4>2. QED
        BY <1>4, <4>1 DEF CallAt
    <3>2. call.state = "Open"
      BY <1>3 DEF Call
    <3>3. calls' = With(n, c, call)
      BY <1>2
    <3> HIDE DEF call
    <3>4. n \in Parties(c)
      BY <1>2
    <3>5. /\ DOMAIN With(n, c, call)[n] = OnGoing(n) \cup {c}
          /\ With(n, c, call)[n][c] = call
      BY <3>1, <3>4, WithIsFine
    <3>6. QED
      BY <3>2, <3>3, <3>5
  <2>2. QED
    BY <1>2, <2>1 DEF Has, IsOpen, OnGoing
<1>9. \A x \in Parties(c) : SameLink(x, c)
  BY <1>1 DEF SameLink, Linked
<1>10. EndInv(n, c)' /\ EndInv(q, c)'
  <2>1. EndInv(n, c) /\ EndInv(q, c) /\ SameLink(n, c) /\ SameLink(q, c)
    BY <1>2, <1>4, <1>9 DEF CallInv
  <2>2. EndInv(n, c)'
    BY <1>5, <1>6, <1>8, <2>1 DEF EndInv, SameLink, TakenFrom
  <2>3. EndInv(q, c)'
    BY <1>7, <2>1, InboxSame DEF EndInv, SameLink, SameCall
  <2>4. QED
    BY <2>2, <2>3
<1>11. ASSUME \A x \in Parties(c) : Linked(x, c)' PROVE LinkInv(c)'
  <2>1. LinkInv(c)
    BY <1>9, <1>11 DEF CallInv, SameLink
  <2>3. /\ OkKept(q, c)' <=> OkKept(q, c)
        /\ AllAnswered(q, c)' <=> AllAnswered(q, c)
        /\ Unanswered(q, c)' <=> Unanswered(q, c)
        /\ NoComes(q, c)' <=> NoComes(q, c)
        /\ ReportWaits(q, c)' <=> ReportWaits(q, c)
    BY <1>7, InboxSame
  <2>4. QED
    BY <1>4, <1>5, <1>6, <1>7, <1>8, <2>1, <2>3 DEF LinkInv, TakenFrom, SameCall
<1>12. QED
  BY <1>4, <1>10, <1>11 DEF CallInv, Parties

\* The two ends n and q of the call the entry m is about, as n takes m.
TakenAt(n, q, c, m) ==
    /\ m \in ForNode(n) /\ n \in Parties(c) /\ q \in Parties(c) /\ q \in Nodes /\ Peer(q, c) = n
    /\ \A x \in Parties(c) : x = n \/ x = q
    /\ (n = Caller[c] /\ q = Callee[c]) \/ (n = Callee[c] /\ q = Caller[c])
    /\ pending'[q] = pending[q] /\ events'[q] = events[q]
    /\ TakenFrom(n, c, m) /\ SameCall(q, c)
    /\ SameLink(n, c) /\ SameLink(q, c)

\* This is what a step of processCallData gives.
LEMMA OwnEntry ==
    ASSUME CallsStructure, NEW n \in Nodes, ProcessCallData(n), NEW m, m = Head(pending[n]),
           NEW c \in CallIds, c = m.call, NEW q, q = Peer(n, c)
    PROVE  TakenAt(n, q, c, m)
<1>1. m \in ForNode(n) /\ Handles(n, m) /\ connected' = connected
  BY HandlingIs
<1>2. n \in Parties(c)
  BY <1>1, EntryIs
<1>3. /\ q \in Parties(c) /\ q \in Nodes /\ q # n /\ Peer(q, c) = n
      /\ \A x \in Parties(c) : x = n \/ x = q
      /\ (n = Caller[c] /\ q = Callee[c]) \/ (n = Callee[c] /\ q = Caller[c])
  BY <1>2, PartiesAre DEF Parties
<1>4. TakenFrom(n, c, m)
  BY <1>2, HandlingTakes
<1>5. SameCall(q, c) /\ pending'[q] = pending[q] /\ events'[q] = events[q]
  BY <1>1, <1>3, HandlingIs, HandlingEffects
<1>6. QED
  BY <1>1, <1>2, <1>3, <1>4, <1>5 DEF TakenAt, SameLink, Linked

\* The invariant of a call from that of its ends, when links stay as they are.
LEMMA CallFromEnds ==
    ASSUME NEW c \in CallIds, CallInv(c), NEW n, NEW q, n \in Parties(c), q \in Parties(c),
           \A x \in Parties(c) : x = n \/ x = q,
           SameLink(n, c), SameLink(q, c),
           EndInv(n, c) => EndInv(n, c)', EndInv(q, c) => EndInv(q, c)',
           Linked(n, c) /\ Linked(q, c) /\ LinkInv(c) => LinkInv(c)'
    PROVE  CallInv(c)'
<1>1. EndInv(n, c)' /\ EndInv(q, c)'
  BY DEF CallInv
<1>2. ASSUME \A x \in Parties(c) : Linked(x, c)' PROVE LinkInv(c)'
  <2>1. Linked(n, c) /\ Linked(q, c)
    BY <1>2 DEF SameLink
  <2>2. \A x \in Parties(c) : Linked(x, c)
    BY <2>1
  <2>3. QED
    BY <2>1, <2>2 DEF CallInv
<1>3. QED
  BY <1>1, <1>2 DEF CallInv, Parties

\* The caller's own entry places the call: its offer goes to the callee.
LEMMA NewOutgoingKeeps ==
    ASSUME CallsStructure, NEW n \in Nodes, ProcessCallData(n), NEW m, m = Head(pending[n]),
           NEW c \in CallIds, c = m.call, CallInv(c), NewOutgoingCall(n, m), c \notin excused'
    PROVE  CallInv(c)'
<1> DEFINE q == Peer(n, c)
           call == [state |-> "Initial", ok |-> m.ok, key |-> m.key]
<1>1. /\ m \in ForNode(n) /\ n \in Parties(c) /\ q \in Parties(c) /\ q \in Nodes /\ Peer(q, c) = n
      /\ \A x \in Parties(c) : x = n \/ x = q
      /\ (n = Caller[c] /\ q = Callee[c]) \/ (n = Callee[c] /\ q = Caller[c])
      /\ pending'[q] = pending[q] /\ events'[q] = events[q]
      /\ TakenFrom(n, c, m) /\ SameCall(q, c)
      /\ SameLink(n, c) /\ SameLink(q, c)
  <2>1. TakenAt(n, q, c, m)
    BY OwnEntry
  <2> HIDE DEF q
  <2>2. QED
    BY <2>1, Zenon DEF TakenAt
<1>2. /\ c \notin OnGoing(n) /\ m.ok /\ n = Caller[c] /\ Callee[c] \in connected[n]
      /\ calls' = With(n, c, call) /\ wire' = SentToRemote(n, c, call)
  BY DEF NewOutgoingCall
<1>3. n = Caller[c] /\ q = Callee[c] /\ Linked(n, c)
  <2>1. n = Caller[c] /\ Callee[c] \in connected[n]
    BY <1>2
  <2>2. Peer(n, c) = Callee[c]
    BY <2>1, PartiesAre
  <2>3. QED
    BY <2>1, <2>2 DEF Linked
<1>4. call \in Call /\ call.ok /\ call.state = "Initial"
  <2>1. m.key \in {"none", "key"} /\ m.ok \in BOOLEAN
    BY <1>1, EntryIs
  <2>2. QED
    BY <1>2, <2>1 DEF Call, States, Keys
<1> HIDE DEF call, q
<1>5. Has(n, c)' /\ ~IsOpen(n, c)'
  <2>1. call \in CallAt(n, c)
    BY <1>1, <1>3, <1>4, PartiesAre DEF CallAt
  <2>2. n \in Parties(c) /\ calls' = With(n, c, call) /\ call.state = "Initial"
    BY <1>1, <1>2, <1>4
  <2>3. DOMAIN calls'[n] = OnGoing(n) \cup {c} /\ calls'[n][c].state = "Initial"
    BY <2>1, <2>2, WithIsFine
  <2>4. QED
    BY <2>3 DEF Has, IsOpen, OnGoing
<1> DEFINE s == AsMessage(n, c, call)
<1>6. /\ OkKept(q, c)' <=> OkKept(q, c)
      /\ NoWaits(q, c)' <=> NoWaits(q, c)
      /\ ReportWaits(q, c)' <=> ReportWaits(q, c)
      /\ SentTo(q, c, s) /\ s \in Oks(q, c)
  BY <1>1, <1>2, <1>3, <1>4, PeerHears DEF q
<1> HIDE DEF s
<1>7. EndInv(n, c)' /\ (EndInv(q, c) => EndInv(q, c)')
  <2>1. EndInv(n, c)'
    BY <1>1, <1>3 DEF EndInv, SameLink
  <2>2. EndInv(q, c) => EndInv(q, c)'
    BY <1>1, <1>6 DEF EndInv, SameLink, SameCall
  <2>3. QED
    BY <2>1, <2>2
<1>8. ~Has(n, c)
  BY <1>2 DEF Has
<1>9. IsOpen(q, c) => Has(q, c)
  BY DEF IsOpen, Has
<1>10. LinkInv(c) => LinkInv(c)'
  BY <1>1, <1>3, <1>5, <1>6, <1>8, <1>9 DEF LinkInv, TakenFrom, SentTo, SameCall
<1>11. QED
  BY <1>1, <1>7, <1>10, CallFromEnds

\* The offer comes to the callee, who has no such call yet.
LEMMA NewIncomingKeeps ==
    ASSUME CallsStructure, NEW n \in Nodes, ProcessCallData(n), NEW m, m = Head(pending[n]),
           NEW c \in CallIds, c = m.call, CallInv(c), NewIncomingCall(n, m)
    PROVE  CallInv(c)'
<1> DEFINE q == Peer(n, c)
           call == [state |-> "Incoming", ok |-> m.ok, key |-> m.key]
<1>1. /\ m \in ForNode(n) /\ n \in Parties(c) /\ q \in Parties(c) /\ q \in Nodes /\ Peer(q, c) = n
      /\ \A x \in Parties(c) : x = n \/ x = q
      /\ (n = Caller[c] /\ q = Callee[c]) \/ (n = Callee[c] /\ q = Caller[c])
      /\ pending'[q] = pending[q] /\ events'[q] = events[q]
      /\ TakenFrom(n, c, m) /\ SameCall(q, c)
      /\ SameLink(n, c) /\ SameLink(q, c)
  <2>1. TakenAt(n, q, c, m)
    BY OwnEntry
  <2> HIDE DEF q
  <2>2. QED
    BY <2>1, Zenon DEF TakenAt
<1>2. /\ c \notin OnGoing(n) /\ m.ok /\ n # Caller[c]
      /\ calls' = With(n, c, call) /\ wire' = wire
  BY DEF NewIncomingCall
<1>3. n = Callee[c] /\ q = Caller[c]
  BY <1>1, <1>2
<1>4. call \in Call /\ call.state = "Incoming"
  <2>1. m.key \in {"none", "key"} /\ m.ok \in BOOLEAN
    BY <1>1, EntryIs
  <2>2. QED
    BY <2>1 DEF Call, States, Keys
<1>5. m \in Oks(n, c) /\ m \notin Nos(n, c)
  <2>1. m \in Message /\ (m.from = n \/ m.from = Peer(n, c)) /\ (m.from = n => n = Caller[c])
    BY <1>1, EntryIs
  <2>2. QED
    BY <1>2, <2>1, EntriesAre
<1> HIDE DEF call, q
<1>6. Has(n, c)' /\ ~IsOpen(n, c)'
  <2>1. call \in CallAt(n, c)
    BY <1>2, <1>4 DEF CallAt
  <2>2. n \in Parties(c) /\ calls' = With(n, c, call) /\ call.state = "Incoming"
    BY <1>1, <1>2, <1>4
  <2>3. DOMAIN calls'[n] = OnGoing(n) \cup {c} /\ calls'[n][c].state = "Incoming"
    BY <2>1, <2>2, WithIsFine
  <2>4. QED
    BY <2>3 DEF Has, IsOpen, OnGoing
<1>7. ~Has(n, c) /\ ~IsOpen(n, c)
  BY <1>2 DEF Has, IsOpen
<1>8. /\ OkKept(q, c)' <=> OkKept(q, c)
      /\ AllAnswered(q, c)' <=> AllAnswered(q, c)
      /\ NoComes(q, c)' <=> NoComes(q, c)
      /\ NoWaits(q, c)' <=> NoWaits(q, c)
      /\ ReportWaits(q, c)' <=> ReportWaits(q, c)
  <2>1. Way(q, c)' = Way(q, c)
    BY <1>2 DEF Way
  <2>2. QED
    BY <1>1, <2>1, InboxSame
<1>9. (EndInv(n, c) => EndInv(n, c)') /\ (EndInv(q, c) => EndInv(q, c)')
  <2>1. EndInv(n, c) => EndInv(n, c)'
    BY <1>1, <1>5 DEF EndInv, SameLink, TakenFrom
  <2>2. EndInv(q, c) => EndInv(q, c)'
    BY <1>1, <1>8 DEF EndInv, SameLink, SameCall
  <2>3. QED
    BY <2>1, <2>2
<1>10. LinkInv(c) => LinkInv(c)'
  BY <1>1, <1>3, <1>5, <1>6, <1>7, <1>8 DEF LinkInv, TakenFrom, SameCall
<1>11. QED
  BY <1>1, <1>9, <1>10, CallFromEnds

\* An entry that processCallData ignores.
LEMMA IgnoredKeeps ==
    ASSUME CallsStructure, NEW n \in Nodes, ProcessCallData(n), NEW m, m = Head(pending[n]),
           NEW c \in CallIds, c = m.call, CallInv(c), Ignored(n, m)
    PROVE  CallInv(c)'
<1> DEFINE q == Peer(n, c)
<1>1. /\ m \in ForNode(n) /\ n \in Parties(c) /\ q \in Parties(c) /\ q \in Nodes /\ Peer(q, c) = n
      /\ \A x \in Parties(c) : x = n \/ x = q
      /\ (n = Caller[c] /\ q = Callee[c]) \/ (n = Callee[c] /\ q = Caller[c])
      /\ pending'[q] = pending[q] /\ events'[q] = events[q]
      /\ TakenFrom(n, c, m) /\ SameCall(q, c)
      /\ SameLink(n, c) /\ SameLink(q, c)
  <2>1. TakenAt(n, q, c, m)
    BY OwnEntry
  <2> HIDE DEF q
  <2>2. QED
    BY <2>1, Zenon DEF TakenAt
<1> HIDE DEF q
<1>2. calls' = calls /\ wire' = wire
  BY DEF Ignored
<1>3. SameCall(n, c)
  BY <1>2, CallSame DEF OnGoing
<1>4. /\ OkKept(q, c)' <=> OkKept(q, c)
      /\ AllAnswered(q, c)' <=> AllAnswered(q, c)
      /\ Unanswered(q, c)' <=> Unanswered(q, c)
      /\ NoComes(q, c)' <=> NoComes(q, c)
      /\ KeyComes(q, c)' <=> KeyComes(q, c)
      /\ NoWaits(q, c)' <=> NoWaits(q, c)
      /\ ReportWaits(q, c)' <=> ReportWaits(q, c)
  <2>1. Way(q, c)' = Way(q, c)
    BY <1>2 DEF Way
  <2>2. QED
    BY <1>1, <2>1, InboxSame
<1>5. /\ m \in Message /\ IsValid(n, c, m.from) /\ m.ok \in BOOLEAN
      /\ m.from = n \/ m.from = Peer(n, c)
      /\ m.from = n => n = Caller[c] /\ m.ok /\ m.key = "none"
  BY <1>1, EntryIs
<1>6. \/ Has(n, c) /\ m.ok /\ (IsOpen(n, c) \/ n # Caller[c] \/ m.key = "none")
      \/ ~Has(n, c) /\ ~m.ok
      \/ ~Has(n, c) /\ n = Caller[c]
  <2>1. CASE c \in OnGoing(n) /\ m.ok /\ (calls[n][c].state # "Initial" \/ m.key = "none")
    <3>1. calls[n][c] \in CallAt(n, c)
      BY <1>1, <2>1, ListsAre
    <3>2. QED
      BY <2>1, <3>1 DEF CallAt, Has, IsOpen
  <2>2. QED
    BY <1>5, <2>1 DEF Ignored, Has
<1>7. /\ m.ok => m \notin Nos(n, c)
      /\ ~m.ok => m \notin Oks(n, c) /\ m \notin Keyed(n, c) /\ m \in Nos(n, c)
      /\ m.key = "none" => m \notin Keyed(n, c)
  <2>1. m.from = n => m.from # Peer(n, c)
    BY <1>1, PartiesAre
  <2>2. CASE m.from = n
    BY <1>5, <2>1, <2>2, EntriesAre
  <2>3. CASE m.from = Peer(n, c)
    <3>1. m \in Oks(n, c) => m \notin Nos(n, c)
      BY EntriesAre
    <3>2. QED
      BY <1>5, <2>3, <3>1, EntriesAre
  <2>4. QED
    BY <1>5, <2>2, <2>3
<1>8. (IsOpen(n, c) => Has(n, c)) /\ (IsOpen(q, c) => Has(q, c))
  BY DEF IsOpen, Has
<1>9. (EndInv(n, c) => EndInv(n, c)') /\ (EndInv(q, c) => EndInv(q, c)')
  <2>1. EndInv(n, c) => EndInv(n, c)'
    BY <1>1, <1>3, <1>6, <1>7 DEF EndInv, SameLink, TakenFrom, SameCall
  <2>2. EndInv(q, c) => EndInv(q, c)'
    BY <1>1, <1>4 DEF EndInv, SameLink, SameCall
  <2>3. QED
    BY <2>1, <2>2
<1>10. LinkInv(c) => LinkInv(c)'
  BY <1>1, <1>3, <1>4, <1>6, <1>7, <1>8 DEF LinkInv, TakenFrom, SameCall
<1>11. QED
  BY <1>1, <1>9, <1>10, CallFromEnds

\* All cases of processCallData together.
LEMMA HandlingKeepsCalls ==
    ASSUME CallsStructure, NEW n \in Nodes, ProcessCallData(n),
           NEW c \in CallIds, c \notin excused', CallInv(c)
    PROVE  CallInv(c)'
<1> DEFINE m == Head(pending[n])
<1>1. Handles(n, m)
  BY HandlingIs
<1>2. CASE c # m.call
  BY <1>2, HandlingKeepsOthers
<1>3. CASE c = m.call
  BY <1>1, <1>3, CallEndsKeeps, CallIsAnsweredKeeps, NewOutgoingKeeps, NewIncomingKeeps,
     IgnoredKeeps DEF Handles
<1>4. QED
  BY <1>2, <1>3

\* Nothing is sent or arrives.
LEMMA WaysKept == ASSUME wire' = wire, NEW x, NEW c PROVE Way(x, c)' = Way(x, c)
  BY DEF Way

\* The operator starts a call: an entry of its own goes to the inbox.
LEMMA StartKeepsCalls ==
    ASSUME CallsStructure, NEW n \in Nodes, NEW d \in CallIds, StartCall(n, d),
           NEW c \in CallIds, CallInv(c)
    PROVE  CallInv(c)'
<1> DEFINE m == [call |-> d, ok |-> TRUE, key |-> "none", from |-> n]
<1>1. /\ n = Caller[d] /\ Insert(n, m)
      /\ UNCHANGED <<calls, busy, audio, streams, netVars, accepted, ended, excused>>
  BY DEF StartCall
<1>2. m \in ForNode(n) /\ m \in Message /\ m.from = n
  BY <1>1 DEF ForNode, Message, Parties
<1> HIDE DEF m
<1>3. /\ pending'[n] = Append(pending[n], m) /\ events'[n] = Append(events[n], "process")
      /\ \A x \in Nodes : x # n => pending'[x] = pending[x] /\ events'[x] = events[x]
  BY <1>1, <1>2, InsertIsFine
<1>4. calls' = calls /\ wire' = wire /\ connected' = connected
  BY <1>1 DEF netVars
<1>5. ASSUME NEW x \in Parties(c) PROVE Undisturbed(x, c) /\ SameCall(x, c) /\ SameLink(x, c)
  <2>1. x \in Nodes /\ Peer(x, c) # x
    BY PartiesAre
  <2>2. SameLink(x, c) /\ SameCall(x, c)
    BY <1>4, CallSame DEF SameLink, Linked, OnGoing
  <2>3. Way(x, c)' = Way(x, c)
    BY <1>4, WaysKept
  <2>4. CASE x = n
    <3>1. m \notin Oks(x, c) /\ m \notin Nos(x, c)
      BY <1>2, <2>1, <2>4, EntriesAre
    <3>2. pending'[x] = Append(pending[x], m) /\ events'[x] = Append(events[x], "process")
      BY <1>3, <2>4, Zenon
    <3>3. QED
      BY <1>2, <2>2, <2>3, <3>1, <3>2, EntryInserted, Zenon
  <2>5. CASE x # n
    BY <1>3, <2>1, <2>2, <2>3, <2>5, InboxSame
  <2>6. QED
    BY <2>4, <2>5
<1>6. QED
  BY <1>5, CallKept

\* A call of processCallData finds nothing.
LEMMA NothingPendingKeepsCalls ==
    ASSUME CallsStructure, NEW n \in Nodes, NothingPending(n), NEW c \in CallIds, CallInv(c)
    PROVE  CallInv(c)'
<1>1. /\ events[n] # <<>> /\ Head(events[n]) = "process" /\ pending[n] = <<>>
      /\ events' = [events EXCEPT ![n] = Tail(@)]
      /\ calls' = calls /\ wire' = wire /\ connected' = connected /\ pending' = pending
  BY DEF NothingPending, Finished, engineVars, netVars
<1>2. events'[n] = Tail(events[n]) /\ \A x \in Nodes : x # n => events'[x] = events[x]
  BY <1>1, StructureParts
<1>3. ASSUME NEW x \in Parties(c) PROVE Undisturbed(x, c) /\ SameCall(x, c) /\ SameLink(x, c)
  <2>1. x \in Nodes
    BY PartiesAre
  <2>2. SameLink(x, c) /\ SameCall(x, c)
    BY <1>1, CallSame DEF SameLink, Linked, OnGoing
  <2>3. Way(x, c)' = Way(x, c)
    BY <1>1, WaysKept
  <2>4. CASE x = n
    BY <1>1, <1>2, <2>2, <2>3, <2>4, EventPassed
  <2>5. CASE x # n
    BY <1>1, <1>2, <2>1, <2>2, <2>3, <2>5, InboxSame
  <2>6. QED
    BY <2>4, <2>5
<1>4. QED
  BY <1>3, CallKept

\* What the operator does to one call says nothing about another.
LEMMA OtherCallKept ==
    ASSUME CallsStructure, NEW d \in CallIds, NEW n \in Parties(d), NEW call \in Call,
           wire' = SentToRemote(n, d, call), UNCHANGED <<pending, events, connected>>,
           NEW c \in CallIds, c # d, CallInv(c), \A x \in Parties(c) : SameCall(x, c)
    PROVE  CallInv(c)'
<1>1. ASSUME NEW x \in Parties(c) PROVE Undisturbed(x, c) /\ SameLink(x, c)
  BY OtherSent DEF SameLink, Linked
<1>2. QED
  BY <1>1, CallKept

\* closeCall tells the peer that the call is over.
LEMMA CloseKeepsCalls ==
    ASSUME CallsStructure, NEW n \in Nodes, NEW d \in CallIds, CloseCall(n, d),
           NEW c \in CallIds, CallInv(c)
    PROVE  CallInv(c)'
<1> DEFINE call == [calls[n][d] EXCEPT !.ok = FALSE]
<1>1. /\ d \in OnGoing(n) /\ wire' = SentToRemote(n, d, call)
      /\ RemoveCallFromArray(n, d)
      /\ UNCHANGED <<pending, events, connected>>
  BY DEF CloseCall
<1>2. n \in Parties(d) /\ calls[n][d] \in Call
  BY <1>1, ListsAre
<1>3. call \in Call /\ ~call.ok
  BY <1>2 DEF Call
<1> HIDE DEF call
<1>4. /\ DOMAIN calls'[n] = OnGoing(n) \ {d}
      /\ \A b \in OnGoing(n) : b # d => calls'[n][b] = calls[n][b]
      /\ \A x \in Nodes : x # n => calls'[x] = calls[x]
  BY <1>1, WithoutIsFine
<1>5. \A x \in Nodes : x # n \/ c # d => SameCall(x, c)
  BY <1>4, CallSame DEF OnGoing
<1>6. CASE c # d
  <2>1. \A x \in Parties(c) : SameCall(x, c)
    BY <1>5, <1>6, PartiesAre
  <2>2. QED
    BY <1>1, <1>2, <1>3, <1>6, <2>1, OtherCallKept
<1>7. CASE c = d
  <2> DEFINE q == Peer(n, c)
  <2>1. q \in Nodes /\ q # n /\ n \in Parties(c)
    BY <1>2, <1>7, PartiesAre
  <2>2. SameCall(q, c) /\ ~Has(n, c)'
    BY <1>4, <1>5, <1>7, <2>1 DEF Has, OnGoing
  <2>3. Way(n, c)' = Way(n, c)
    BY <1>1, <1>2, <1>3, <1>7, OwnSent
  <2>4. (OkKept(n, c)' => OkKept(n, c)) /\ (AllAnswered(n, c) => AllAnswered(n, c)')
    BY <1>1, <2>3, InboxSame
  <2>5. QED
    BY <1>1, <1>2, <1>3, <1>7, <2>1, <2>2, <2>4, GoneIsTold
<1>8. QED
  BY <1>6, <1>7

\* acceptCall opens the call and sends the caller the key.
LEMMA AcceptKeepsCalls ==
    ASSUME CallsStructure, NEW n \in Nodes, NEW d \in CallIds, AcceptCall(n, d),
           NEW c \in CallIds, CallInv(c)
    PROVE  CallInv(c)'
<1>1. /\ d \in OnGoing(n) /\ calls[n][d].state = "Incoming"
      /\ UNCHANGED <<pending, events, connected>>
  BY DEF AcceptCall
<1>2. PICK k \in (IF calls[n][d].key = "none" THEN {"key", "nulkey"} ELSE {calls[n][d].key}) :
         LET call == [state |-> "Open", ok |-> TRUE, key |-> k]
         IN  /\ BecomeOpen(n, d, call)
             /\ wire' = SentToRemote(n, d, call)
  BY Zenon DEF AcceptCall
<1> DEFINE call == [state |-> "Open", ok |-> TRUE, key |-> k]
<1>3. n \in Parties(d) /\ calls[n][d] \in CallAt(n, d) /\ calls[n][d] \in Call
  BY <1>1, ListsAre
<1>4. n = Callee[d]
  BY <1>1, <1>3 DEF CallAt, Parties
<1>5. k \in {"key", "nulkey"}
  BY <1>2, <1>3 DEF Call, Keys
<1>6. call \in Call /\ call.state = "Open" /\ call.ok /\ call.key = k
  BY <1>5 DEF Call, States, Keys
<1>7. calls' = With(n, d, call) /\ wire' = SentToRemote(n, d, call)
  BY <1>2 DEF BecomeOpen
<1> HIDE DEF call
<1>8. call \in CallAt(n, d)
  BY <1>4, <1>5, <1>6, PartiesAre DEF CallAt
<1>9. /\ DOMAIN calls'[n] = OnGoing(n) \cup {d} /\ calls'[n][d] = call
      /\ \A b \in OnGoing(n) : b # d => calls'[n][b] = calls[n][b]
      /\ \A x \in Nodes : x # n => calls'[x] = calls[x]
  BY <1>3, <1>7, <1>8, WithIsFine
<1>10. \A x \in Nodes : x # n \/ c # d => SameCall(x, c)
  BY <1>9, CallSame DEF OnGoing
<1>11. CASE c # d
  <2>1. \A x \in Parties(c) : SameCall(x, c)
    BY <1>10, <1>11, PartiesAre
  <2>2. QED
    BY <1>1, <1>3, <1>6, <1>7, <1>11, <2>1, OtherCallKept
<1>12. CASE c = d
  <2> DEFINE a == Caller[c]
             s == AsMessage(n, c, call)
  <2>1. /\ n = Callee[c] /\ n \in Parties(c) /\ a \in Nodes /\ a # n /\ a = Peer(n, c)
        /\ a \in Parties(c) /\ \A x \in Parties(c) : x = n \/ x = a
    BY <1>3, <1>4, <1>12, PartiesAre DEF Parties
  <2>2. SameCall(a, c)
    BY <1>10, <2>1
  <2>3. SameLink(n, c) /\ SameLink(a, c)
    BY <1>1 DEF SameLink, Linked
  <2>4. Way(n, c)' = Way(n, c)
    BY <1>3, <1>6, <1>7, <1>12, OwnSent
  <2>5. /\ OkKept(n, c)' <=> OkKept(n, c)
        /\ AllAnswered(n, c)' <=> AllAnswered(n, c)
        /\ Unanswered(n, c)' <=> Unanswered(n, c)
        /\ NoComes(n, c)' <=> NoComes(n, c)
        /\ NoWaits(n, c)' <=> NoWaits(n, c)
        /\ ReportWaits(n, c)' <=> ReportWaits(n, c)
    BY <1>1, <2>4, InboxSame
  <2>6. /\ OkKept(a, c)' <=> OkKept(a, c)
        /\ NoWaits(a, c)' <=> NoWaits(a, c)
        /\ ReportWaits(a, c)' <=> ReportWaits(a, c)
        /\ NoComes(a, c) => NoComes(a, c)'
        /\ Linked(n, c) => SentTo(a, c, s)
        /\ call.key = "key" => s \in Keyed(a, c)
    BY <1>1, <1>3, <1>6, <1>7, <1>12, <2>1, PeerHears
  <2> HIDE DEF s, a
  <2>7. Has(n, c) /\ Has(n, c)' /\ IsOpen(n, c)' /\ (k = "nulkey" => NulKey(n, c)')
    BY <1>1, <1>6, <1>9, <1>12 DEF Has, IsOpen, NulKey, OnGoing
  <2>8. EndInv(n, c) => EndInv(n, c)'
    BY <2>3, <2>5, <2>7 DEF EndInv, SameLink
  <2>9. EndInv(a, c) => EndInv(a, c)'
    BY <2>2, <2>3, <2>6 DEF EndInv, SameLink, SameCall
  <2>10. ASSUME Linked(n, c), LinkInv(c) PROVE LinkInv(c)'
    <3>1. SentTo(a, c, s) /\ (k = "key" => s \in Keyed(a, c))
      BY <1>6, <2>6, <2>10
    <3>2. /\ k = "key" => KeyComes(a, c)'
          /\ NoComes(a, c) => NoComes(a, c)'
          /\ ReportWaits(a, c)' <=> ReportWaits(a, c)
      BY <3>1 DEF SentTo
    <3>3. KeyComes(a, c)' \/ NulKey(n, c)'
      BY <1>5, <2>7, <3>2
    <3>4. a = Caller[c] /\ n = Callee[c]
      BY <2>1 DEF a
    <3>5. QED
      BY <2>2, <2>5, <2>7, <2>10, <3>2, <3>3, <3>4 DEF LinkInv, SameCall
  <2>11. QED
    BY <2>1, <2>3, <2>8, <2>9, <2>10, CallFromEnds
<1>13. QED
  BY <1>11, <1>12

\* A message arrives: it moves from the connection to the inbox.
LEMMA ReceiveKeepsCalls ==
    ASSUME CallsStructure, NEW n \in Nodes, NEW p \in Nodes, Receive(n, p),
           NEW c \in CallIds, CallInv(c)
    PROVE  CallInv(c)'
<1> DEFINE m == Head(wire[<<p, n>>])
<1>1. /\ p \in connected[n] /\ wire[<<p, n>>] # <<>>
      /\ wire' = [wire EXCEPT ![<<p, n>>] = Tail(wire[<<p, n>>])]
      /\ Insert(n, m) /\ calls' = calls /\ connected' = connected
  BY DEF Receive
<1>2. m \in ForNode(n) /\ m \in Message /\ m.from = p
  <2>1. m \in ForNode(n)
    BY NetKeepsStructure
  <2>2. wire[<<p, n>>] \in Seq(Between(p, n))
    BY StructureParts DEF WireFine
  <2>3. m \in Between(p, n)
    BY <1>1, <2>2, HeadTailProperties
  <2> HIDE DEF m
  <2>4. QED
    BY <2>1, <2>3 DEF Between
<1> HIDE DEF m
<1>3. /\ pending'[n] = Append(pending[n], m) /\ events'[n] = Append(events[n], "process")
      /\ \A x \in Nodes : x # n => pending'[x] = pending[x] /\ events'[x] = events[x]
  BY <1>1, <1>2, InsertIsFine
<1>4. /\ wire'[<<p, n>>] = Tail(wire[<<p, n>>])
      /\ \A x, y \in Nodes : x # p \/ y # n => wire'[<<x, y>>] = wire[<<x, y>>]
  <2>1. wire \in [Nodes \X Nodes -> Seq(Message)]
    BY StructureParts DEF WireFine
  <2>2. wire'[<<p, n>>] = Tail(wire[<<p, n>>])
    BY <1>1, <2>1
  <2>3. ASSUME NEW x \in Nodes, NEW y \in Nodes, x # p \/ y # n PROVE wire'[<<x, y>>] = wire[<<x, y>>]
    BY <1>1, <2>1, <2>3
  <2>4. QED
    BY <2>2, <2>3
<1>5. ASSUME NEW x \in Parties(c) PROVE Undisturbed(x, c) /\ SameCall(x, c) /\ SameLink(x, c)
  <2>1. x \in Nodes /\ Peer(x, c) \in Nodes
    BY PartiesAre
  <2>2. SameLink(x, c) /\ SameCall(x, c)
    BY <1>1, CallSame DEF SameLink, Linked, OnGoing
  <2>3. CASE x = n /\ Peer(x, c) = p
    <3>1. Way(x, c) = wire[<<p, n>>] /\ Way(x, c)' = Tail(wire[<<p, n>>])
      BY <1>4, <2>3, Zenon DEF Way
    <3>2. m = Head(Way(x, c)) /\ Way(x, c)' = Tail(Way(x, c)) /\ Way(x, c) # <<>>
      BY <1>1, <3>1, Zenon DEF m
    <3>3. Linked(x, c)'
      BY <1>1, <2>3 DEF Linked
    <3>4. pending'[x] = Append(pending[x], Head(Way(x, c))) /\ events'[x] = Append(events[x], "process")
      BY <1>3, <2>3, <3>2, Zenon
    <3>5. QED
      BY <2>2, <3>2, <3>3, <3>4, EntryMoved, Zenon
  <2>4. CASE x = n /\ Peer(x, c) # p
    <3>1. m \notin Oks(x, c) /\ m \notin Nos(x, c)
      BY <1>2, <2>4, EntriesAre
    <3>2. pending'[x] = Append(pending[x], m) /\ events'[x] = Append(events[x], "process")
      BY <1>3, <2>4, Zenon
    <3>3. Way(x, c)' = Way(x, c)
      BY <1>4, <2>1, <2>4, Zenon DEF Way
    <3>4. QED
      BY <1>2, <2>2, <3>1, <3>2, <3>3, EntryInserted, Zenon
  <2>5. CASE x # n
    <3>1. Way(x, c)' = Way(x, c)
      BY <1>4, <2>1, <2>5, Zenon DEF Way
    <3>2. QED
      BY <1>3, <2>1, <2>2, <2>5, <3>1, InboxSame
  <2>6. QED
    BY <2>3, <2>4, <2>5
<1>6. QED
  BY <1>5, CallKept

\* One end finds its connection lost and queues the report.
LEMMA EndClosesKeepsCalls ==
    ASSUME CallsStructure, NEW n \in Nodes, NEW p \in Nodes, EndCloses(n, p),
           NEW c \in CallIds, CallInv(c)
    PROVE  CallInv(c)'
<1>1. /\ connected' = [connected EXCEPT ![n] = @ \ {p}]
      /\ events' = [events EXCEPT ![n] = Append(@, p)]
      /\ wire' = [wire EXCEPT ![<<p, n>>] = <<>>]
      /\ pending' = pending /\ calls' = calls
  BY DEF EndCloses, engineVars
<1>2. /\ events'[n] = Append(events[n], p) /\ \A x \in Nodes : x # n => events'[x] = events[x]
      /\ p \notin connected'[n] /\ \A x \in Nodes : x # n => connected'[x] = connected[x]
      /\ \A x \in Nodes : x # p => (x \in connected'[n] <=> x \in connected[n])
  BY <1>1, StructureParts
<1>3. \A x, y \in Nodes : x # p \/ y # n => wire'[<<x, y>>] = wire[<<x, y>>]
  <2>1. wire \in [Nodes \X Nodes -> Seq(Message)]
    BY StructureParts DEF WireFine
  <2>2. ASSUME NEW x \in Nodes, NEW y \in Nodes, x # p \/ y # n PROVE wire'[<<x, y>>] = wire[<<x, y>>]
    BY <1>1, <2>1, <2>2
  <2>3. QED
    BY <2>2
<1>4. ASSUME NEW x \in Parties(c)
      PROVE  /\ SameCall(x, c) /\ x \in Nodes /\ Peer(x, c) \in Nodes
             /\ ~(x = n /\ Peer(x, c) = p) => Undisturbed(x, c) /\ SameLink(x, c)
  <2>1. x \in Nodes /\ Peer(x, c) \in Nodes
    BY PartiesAre
  <2>2. SameCall(x, c)
    BY <1>1, CallSame DEF OnGoing
  <2>3. ASSUME ~(x = n /\ Peer(x, c) = p) PROVE Way(x, c)' = Way(x, c) /\ SameLink(x, c)
    BY <1>2, <1>3, <2>1, <2>3 DEF Way, SameLink, Linked
  <2>4. CASE x = n /\ Peer(x, c) # p
    <3>1. events'[x] = Append(events[x], p) /\ pending'[x] = pending[x]
      BY <1>1, <1>2, <2>4, Zenon
    <3>2. Undisturbed(x, c)
      BY <2>3, <2>4, <3>1, EventPassed, Zenon
    <3>3. QED
      BY <2>1, <2>2, <2>3, <2>4, <3>2
  <2>5. CASE x # n
    BY <1>1, <1>2, <2>1, <2>2, <2>3, <2>5, InboxSame
  <2>6. QED
    BY <2>1, <2>2, <2>4, <2>5
<1>5. CASE n \in Parties(c) /\ Peer(n, c) = p
  <2>1. /\ p \in Parties(c) /\ p # n /\ \A x \in Parties(c) : x = n \/ x = p
    BY <1>5, PartiesAre
  <2>2. ~OkKept(n, c)' /\ ReportWaits(n, c)'
    <3>1. events'[n] = Append(events[n], Peer(n, c)) /\ pending'[n] = pending[n]
      BY <1>1, <1>2, <1>5, Zenon
    <3>2. QED
      BY <1>5, <3>1, EndGone, Zenon
  <2>3. ~Linked(n, c)'
    BY <1>2, <1>5 DEF Linked
  <2>4. EndInv(n, c)'
    BY <2>2 DEF EndInv
  <2>5. EndInv(p, c)'
    <3>1. Undisturbed(p, c) /\ SameLink(p, c) /\ SameCall(p, c) /\ EndInv(p, c)
      BY <1>4, <2>1 DEF CallInv
    <3>2. QED
      BY <3>1 DEF EndInv, Undisturbed, SameLink, SameCall
  <2>6. \A x \in Parties(c) : EndInv(x, c)'
    BY <2>1, <2>4, <2>5
  <2>7. QED
    BY <1>5, <2>3, <2>6 DEF CallInv, Parties
<1>6. CASE ~(n \in Parties(c) /\ Peer(n, c) = p)
  BY <1>4, <1>6, CallKept
<1>7. QED
  BY <1>5, <1>6

\* What a new connection has carried so far.
LEMMA FreshLink ==
    ASSUME NEW c \in CallIds, \A n \in Parties(c) : EndInv(n, c) /\ ~Linked(n, c),
           \A n \in Parties(c) : /\ SameCall(n, c) /\ Way(n, c)' = <<>>
                                 /\ pending'[n] = pending[n] /\ events'[n] = events[n]
    PROVE  LinkInv(c)'
<1>1. ASSUME NEW n \in Parties(c)
      PROVE  AllAnswered(n, c)' /\ (Has(n, c)' /\ ~ReportWaits(n, c)' => NoComes(n, c)')
  <2>1. Heeded(n, c)' = Heeded(n, c)
    BY DEF Heeded
  <2>2. ~OkKept(n, c)
    BY DEF EndInv
  <2>3. AllAnswered(n, c)'
    <3>1. Way(n, c)' = <<>>
      OBVIOUS
    <3>2. \A i \in DOMAIN Heeded(n, c) : Heeded(n, c)[i] \notin Oks(n, c)
      BY <2>2 DEF OkKept
    <3>3. Answered(Heeded(n, c), <<>>, Oks(n, c), Nos(n, c))
      BY <3>2 DEF Answered
    <3>4. QED
      BY <2>1, <3>1, <3>3, Zenon DEF AllAnswered
  <2>4. Has(n, c) /\ ~ReportWaits(n, c) => NoWaits(n, c)
    BY DEF EndInv
  <2>5. NoWaits(n, c) => NoComes(n, c)'
    BY DEF NoWaits, NoComes, Coming
  <2>6. ReportWaits(n, c)' <=> ReportWaits(n, c)
    BY DEF ReportWaits
  <2>7. QED
    BY <2>3, <2>4, <2>5, <2>6 DEF SameCall
<1>2. Caller[c] \in Parties(c) /\ Callee[c] \in Parties(c)
  BY DEF Parties
<1>3. \A n \in Parties(c) : IsOpen(n, c)' => Has(n, c)'
  BY DEF IsOpen, Has
<1>4. QED
  BY <1>1, <1>2, <1>3 DEF LinkInv

\* A connection is made between nodes that had none.
LEMMA ConnectKeepsCalls ==
    ASSUME CallsStructure, NEW n \in Nodes, NEW p \in Nodes, Connect(n, p),
           NEW c \in CallIds, CallInv(c)
    PROVE  CallInv(c)'
<1>1. /\ p \notin connected[n] /\ n \notin connected[p]
      /\ connected' = [connected EXCEPT ![n] = @ \cup {p}, ![p] = @ \cup {n}]
      /\ wire' = [wire EXCEPT ![<<n, p>>] = <<>>, ![<<p, n>>] = <<>>]
      /\ events' = events /\ pending' = pending /\ calls' = calls
  BY DEF Connect, engineVars
<1>2. \A x, y \in Nodes : /\ {x, y} = {n, p} => wire'[<<x, y>>] = <<>> /\ y \in connected'[x]
                          /\ {x, y} # {n, p} => /\ wire'[<<x, y>>] = wire[<<x, y>>]
                                                /\ y \in connected'[x] <=> y \in connected[x]
  <2>1. wire \in [Nodes \X Nodes -> Seq(Message)] /\ connected \in [Nodes -> SUBSET Nodes]
    BY StructureParts DEF WireFine
  <2>2. ASSUME NEW x \in Nodes, NEW y \in Nodes
        PROVE  /\ (x = n /\ y = p) \/ (x = p /\ y = n) => wire'[<<x, y>>] = <<>> /\ y \in connected'[x]
               /\ ~((x = n /\ y = p) \/ (x = p /\ y = n)) =>
                    /\ wire'[<<x, y>>] = wire[<<x, y>>]
                    /\ y \in connected'[x] <=> y \in connected[x]
    <3>1. wire'[<<x, y>>] = IF (x = n /\ y = p) \/ (x = p /\ y = n) THEN <<>> ELSE wire[<<x, y>>]
      BY <1>1, <2>1
    <3>2. connected'[x] = (IF x = n THEN connected[x] \cup {p} ELSE connected[x])
                          \cup (IF x = p THEN {n} ELSE {})
      BY <1>1, <2>1
    <3>3. QED
      BY <3>1, <3>2
  <2>3. ASSUME NEW x \in Nodes, NEW y \in Nodes
        PROVE  {x, y} = {n, p} <=> (x = n /\ y = p) \/ (x = p /\ y = n)
    OBVIOUS
  <2>4. QED
    BY <2>2, <2>3
<1>3. ASSUME NEW x \in Parties(c)
      PROVE  /\ x \in Nodes /\ Peer(x, c) \in Nodes /\ Parties(c) = {x, Peer(x, c)} /\ SameCall(x, c)
             /\ pending'[x] = pending[x] /\ events'[x] = events[x]
  <2>1. x \in Nodes /\ Peer(x, c) \in Nodes /\ Parties(c) = {x, Peer(x, c)}
    BY PartiesAre DEF Parties
  <2>2. QED
    BY <1>1, <2>1, CallSame DEF OnGoing
<1>4. CASE Parties(c) = {n, p}
  <2>1. ASSUME NEW x \in Parties(c)
        PROVE  Linked(x, c)' /\ Way(x, c)' = <<>> /\ EndInv(x, c) /\ ~Linked(x, c)
    <3>1. x \in Nodes /\ Peer(x, c) \in Nodes /\ {x, Peer(x, c)} = {n, p}
      BY <1>3, <1>4
    <3>2. Linked(x, c)' /\ Way(x, c)' = <<>>
      BY <1>2, <3>1 DEF Linked, Way
    <3>3. ~Linked(x, c)
      BY <1>1, <3>1 DEF Linked
    <3>4. QED
      BY <3>2, <3>3 DEF CallInv
  <2>2. LinkInv(c)'
    BY <1>3, <2>1, FreshLink
  <2>3. \A x \in Parties(c) : EndInv(x, c)'
    BY <2>1 DEF EndInv
  <2>4. QED
    BY <2>2, <2>3 DEF CallInv, Parties
<1>5. CASE Parties(c) # {n, p}
  <2>1. ASSUME NEW x \in Parties(c) PROVE Undisturbed(x, c) /\ SameCall(x, c) /\ SameLink(x, c)
    <3>1. x \in Nodes /\ Peer(x, c) \in Nodes /\ {x, Peer(x, c)} # {n, p} /\ {Peer(x, c), x} # {n, p}
      BY <1>3, <1>5
    <3>2. Way(x, c)' = Way(x, c) /\ SameLink(x, c)
      BY <1>2, <3>1 DEF Way, SameLink, Linked
    <3>3. QED
      BY <1>3, <3>2, InboxSame
  <2>2. QED
    BY <2>1, CallKept
<1>6. QED
  BY <1>4, <1>5

\* The report of a lost connection ends the calls with the peer that is gone.
LEMMA ReportDisturbsNothing ==
    ASSUME CallsStructure, NEW n \in Nodes, NEW p \in Nodes,
           events[n] # <<>>, Head(events[n]) = p, wire' = wire, connected' = connected,
           NEW order \in SetToSeqs(CallsWith(n, p)), p \notin connected[n],
           NEW w, w = EndedBy(n, p, order), NEW e, e = ProcessedOnce(order),
           pending'[n] = pending[n] \o w, events'[n] = Tail(events[n]) \o e,
           NEW c \in CallIds, n \in Parties(c)
    PROVE  Undisturbed(n, c)
<1> DEFINE u == pending[n]
           v == Way(n, c)
           q == Peer(n, c)
           O == Oks(n, c)
           N == Nos(n, c)
           t == u \o w
           d == Tail(events[n]) \o e
<1>1. /\ q # "process" /\ u \in Seq(Message) /\ v \in Seq(Message)
      /\ events[n] \in Seq(Nodes \cup {"process"})
  BY InboxIs
<1>2. /\ w \in Seq(Message) /\ e \in Seq(Nodes \cup {"process"})
      /\ \A i \in DOMAIN e : e[i] = "process"
      /\ \A i \in DOMAIN w : w[i].call \in CallsWith(n, p) /\ w[i].from = p /\ ~w[i].ok
      /\ \A b \in CallsWith(n, p) : \E i \in DOMAIN w : w[i].call = b
  <2> DEFINE x == EndedBy(n, p, order)
             y == ProcessedOnce(order)
  <2>1. x \in Seq(Message) /\ y \in Seq(Nodes \cup {"process"})
    BY EndedByIs
  <2>2. \A i \in DOMAIN y : y[i] = "process"
    BY EndedByIs
  <2>3. \A i \in DOMAIN x : x[i].call \in CallsWith(n, p) /\ x[i].from = p /\ ~x[i].ok
    BY EndedByIs
  <2>4. \A b \in CallsWith(n, p) : \E i \in DOMAIN x : x[i].call = b
    BY EndedByIs
  <2>5. QED
    BY <2>1, <2>2, <2>3, <2>4, Zenon
<1>3. \A i \in DOMAIN w : w[i] \in Message
  BY <1>2, ElementOfSeq
<1>4. \A i \in DOMAIN w : w[i] \notin O
  BY <1>2 DEF Oks
<1>5. ~Has(n, c) => \A i \in DOMAIN w : w[i] \notin N
  <2>1. SUFFICES ASSUME ~Has(n, c), NEW i \in DOMAIN w, w[i] \in N PROVE FALSE
    OBVIOUS
  <2>2. w[i].call = c /\ w[i].call \in CallsWith(n, p)
    BY <1>2, <2>1 DEF Nos, EntriesFor
  <2>3. QED
    BY <2>1, <2>2 DEF CallsWith, Has
<1>6. c \in CallsWith(n, p) => \E i \in DOMAIN w : w[i] \in N
  <2>1. SUFFICES ASSUME c \in CallsWith(n, p) PROVE \E i \in DOMAIN w : w[i] \in N
    OBVIOUS
  <2>2. PICK i \in DOMAIN w : w[i].call = c
    BY <1>2, <2>1
  <2>3. w[i] \in Message /\ w[i].from = Peer(n, c) /\ ~w[i].ok
    BY <1>2, <1>3, <2>1 DEF CallsWith
  <2>4. QED
    BY <2>2, <2>3 DEF Nos, EntriesFor
<1>7. /\ pending'[n] = t /\ events'[n] = d /\ Way(n, c)' = v
  BY WaysKept
<1> HIDE DEF O, N, u, v, q
<1>8. /\ \A S : Coming(u, v, S) => Coming(t, v, S)
      /\ \A S : (\E i \in DOMAIN u : u[i] \in S) => \E i \in DOMAIN t : t[i] \in S
      /\ Answered(u, v, O, N) => Answered(t, v, O, N)
      /\ (\A i \in DOMAIN w : w[i] \notin N) /\ ~Answered(u, v, O, N) => ~Answered(t, v, O, N)
      /\ (\A i \in DOMAIN u : u[i] \notin O) => \A i \in DOMAIN t : t[i] \notin O
  <2>1. /\ u \in Seq(Message) /\ v \in Seq(Message) /\ w \in Seq(Message)
        /\ \A i \in DOMAIN w : w[i] \notin O
    BY <1>1, <1>2, <1>4
  <2>2. t = u \o w
    OBVIOUS
  <2> HIDE DEF t
  <2>3. BehindOthers(u, v, w, O, N, t)
    BY <2>1, <2>2, PutBehindOthers
  <2>4. QED
    BY <2>3 DEF BehindOthers
<1>9. c \in CallsWith(n, p) => \E i \in DOMAIN t : t[i] \in N
  <2>1. SUFFICES ASSUME NEW i \in DOMAIN w, w[i] \in N PROVE \E j \in DOMAIN t : t[j] \in N
    BY <1>6
  <2>2. /\ Len(u) \in Nat /\ Len(w) \in Nat /\ DOMAIN w = 1 .. Len(w)
        /\ DOMAIN t = 1 .. (Len(u) + Len(w))
        /\ \A j \in 1 .. (Len(u) + Len(w)) : t[j] = IF j <= Len(u) THEN u[j] ELSE w[j - Len(u)]
    BY <1>1, <1>2, ConcatProperties, LenProperties
  <2>3. Len(u) + i \in DOMAIN t /\ t[Len(u) + i] = w[i]
    BY <2>1, <2>2
  <2>4. QED
    BY <2>1, <2>3
<1>10. /\ Stale(d, q) <=> Stale(events[n], q)
       /\ q # p /\ Holds(events[n], q) => Holds(d, q)
  <2> DEFINE h == Tail(events[n])
  <2>1. h \in Seq(Nodes \cup {"process"})
    BY <1>1, HeadTailProperties
  <2>2. Stale(h, q) <=> Stale(events[n], q)
    BY <1>1, EventHandled, NodesAreNotProcess
  <2>3. q # p => (Holds(h, q) <=> Holds(events[n], q))
    BY <1>1, EventHandled
  <2> HIDE DEF h
  <2>4. Stale(h \o e, q) <=> Stale(h, q)
    BY <1>1, <1>2, <2>1, EventsAdded
  <2>5. Holds(h, q) => Holds(h \o e, q)
    BY <1>2, <2>1, EventsAdded
  <2>6. QED
    BY <2>2, <2>3, <2>4, <2>5 DEF h
<1> HIDE DEF t, d
<1>11. /\ Heeded(n, c) = IF Stale(events[n], q) THEN <<>> ELSE u
       /\ Heeded(n, c)' = IF Stale(events[n], q) THEN <<>> ELSE t
  BY <1>7, <1>10 DEF Heeded, Kept, q, u
<1>12. OkKept(n, c)' => OkKept(n, c)
  BY <1>8, <1>11 DEF OkKept, O
<1>13. AllAnswered(n, c) => AllAnswered(n, c)'
  <2>1. CASE Stale(events[n], q)
    BY <1>7, <1>11, <2>1 DEF AllAnswered, v
  <2>2. CASE ~Stale(events[n], q)
    <3>1. Heeded(n, c) = u /\ Heeded(n, c)' = t
      BY <1>11, <2>2
    <3>2. QED
      BY <1>7, <1>8, <3>1, Zenon DEF AllAnswered, v, O, N
  <2>3. QED
    BY <2>1, <2>2
<1>14. ~Has(n, c) /\ Unanswered(n, c) => Unanswered(n, c)'
  BY <1>5, <1>7, <1>8 DEF Unanswered, O, N, u, v
<1>15. /\ NoComes(n, c) => NoComes(n, c)'
       /\ KeyComes(n, c) => KeyComes(n, c)'
  BY <1>7, <1>8 DEF NoComes, KeyComes, O, N, u, v
<1>16. NoWaits(n, c) => NoWaits(n, c)'
  BY <1>7, <1>8 DEF NoWaits, N, u
<1>17. Has(n, c) /\ ReportWaits(n, c) => ReportWaits(n, c)' \/ (~Linked(n, c)' /\ NoWaits(n, c)')
  <2>1. SUFFICES ASSUME Has(n, c), ReportWaits(n, c)
                 PROVE  ReportWaits(n, c)' \/ (~Linked(n, c)' /\ NoWaits(n, c)')
    OBVIOUS
  <2>2. CASE q = p
    <3>1. c \in CallsWith(n, p)
      BY <2>1, <2>2 DEF CallsWith, Has, q
    <3>2. NoWaits(n, c)'
      BY <1>7, <1>9, <3>1 DEF NoWaits, N
    <3>3. ~Linked(n, c)'
      BY <2>2 DEF Linked, q
    <3>4. QED
      BY <3>2, <3>3
  <2>3. CASE q # p
    BY <1>7, <1>10, <2>1, <2>3 DEF ReportWaits, q
  <2>4. QED
    BY <2>2, <2>3
<1>18. QED
  BY <1>12, <1>13, <1>14, <1>15, <1>16, <1>17 DEF Undisturbed

\* nodeConnectionAttemptStatus ends the calls with the lost node, or excuses them.
LEMMA ReportKeepsCalls ==
    ASSUME CallsStructure, NEW n \in Nodes, NodeConnectionAttemptStatus(n),
           NEW c \in CallIds, c \notin excused', CallInv(c)
    PROVE  CallInv(c)'
<1>1. PICK p \in Nodes :
             /\ events[n] # <<>> /\ Head(events[n]) = p /\ p # "process"
             /\ UNCHANGED <<busy, audio, streams, netVars, acts, started, accepted, ended>>
             /\ ReportIsLate(n, p) \/ \E order \in SetToSeqs(CallsWith(n, p)) : ReportCounts(n, p, order)
  BY ReportIs
<1>2. wire' = wire /\ connected' = connected
  BY <1>1 DEF netVars
<1>3. /\ pending \in [Nodes -> Seq(Message)] /\ events \in [Nodes -> Seq(Nodes \cup {"process"})]
      /\ calls \in [Nodes -> CallLists]
  BY StructureParts, ListsAre
<1>4. CASE ReportIsLate(n, p)
  <2>1. /\ events'[n] = Tail(events[n]) /\ \A x \in Nodes : x # n => events'[x] = events[x]
        /\ pending' = pending /\ calls' = calls /\ excused' = excused \cup CallsWith(n, p)
    BY <1>3, <1>4 DEF ReportIsLate, Finished
  <2>2. ASSUME NEW x \in Parties(c) PROVE Undisturbed(x, c) /\ SameCall(x, c) /\ SameLink(x, c)
    <3>1. x \in Nodes
      BY PartiesAre
    <3>2. Way(x, c)' = Way(x, c) /\ SameLink(x, c)
      BY <1>2, WaysKept DEF SameLink, Linked
    <3>3. SameCall(x, c)
      BY <2>1, CallSame DEF OnGoing
    <3>4. CASE x = n
      <4>1. Has(x, c) => Head(events[x]) # Peer(x, c)
        BY <1>1, <2>1, <3>4 DEF Has, CallsWith
      <4>2. QED
        BY <1>1, <2>1, <3>2, <3>3, <3>4, <4>1, EventPassed
    <3>5. CASE x # n
      BY <2>1, <3>1, <3>2, <3>3, <3>5, InboxSame
    <3>6. QED
      BY <3>4, <3>5
  <2>3. QED
    BY <2>2, CallKept
<1>5. ASSUME NEW order \in SetToSeqs(CallsWith(n, p)), ReportCounts(n, p, order) PROVE CallInv(c)'
  <2> DEFINE w == EndedBy(n, p, order)
             e == ProcessedOnce(order)
             list == [b \in OnGoing(n) |-> [calls[n][b] EXCEPT !.ok = @ /\ b \notin CallsWith(n, p)]]
  <2>1. /\ calls' = [calls EXCEPT ![n] = list]
        /\ pending' = [pending EXCEPT ![n] = @ \o w]
        /\ events' = [events EXCEPT ![n] = Tail(@) \o e]
        /\ p \notin connected[n]
    BY <1>5 DEF ReportCounts
  <2> HIDE DEF w, e
  <2>2. /\ pending'[n] = pending[n] \o w /\ \A x \in Nodes : x # n => pending'[x] = pending[x]
        /\ events'[n] = Tail(events[n]) \o e /\ \A x \in Nodes : x # n => events'[x] = events[x]
        /\ calls'[n] = list /\ \A x \in Nodes : x # n => calls'[x] = calls[x]
    BY <1>3, <2>1
  <2>3. ASSUME NEW b \in OnGoing(n)
        PROVE  list[b].state = calls[n][b].state /\ list[b].key = calls[n][b].key
    <3>1. calls[n][b] \in Call
      BY <2>3, ListsAre
    <3>2. QED
      BY <2>3, <3>1 DEF Call
  <2>4. DOMAIN list = OnGoing(n)
    OBVIOUS
  <2> HIDE DEF list
  <2>5. SameCall(n, c)
    BY <2>2, <2>3, <2>4, CallSame
  <2>6. ASSUME NEW x \in Parties(c) PROVE Undisturbed(x, c) /\ SameCall(x, c) /\ SameLink(x, c)
    <3>1. x \in Nodes
      BY PartiesAre
    <3>2. Way(x, c)' = Way(x, c) /\ SameLink(x, c)
      BY <1>2, WaysKept DEF SameLink, Linked
    <3>3. CASE x = n
      <4>1. Undisturbed(n, c)
        <5>1. w = EndedBy(n, p, order) /\ e = ProcessedOnce(order)
          BY DEF w, e
        <5>2. n \in Parties(c) /\ events[n] # <<>> /\ Head(events[n]) = p /\ p \notin connected[n]
          BY <1>1, <2>1, <3>3
        <5>3. pending'[n] = pending[n] \o w /\ events'[n] = Tail(events[n]) \o e
          BY <2>2
        <5>4. QED
          BY <1>2, <5>1, <5>2, <5>3, ReportDisturbsNothing, Zenon
      <4>2. QED
        BY <2>5, <3>2, <3>3, <4>1
    <3>4. CASE x # n
      <4>1. SameCall(x, c)
        BY <2>2, <3>1, <3>4, CallSame DEF OnGoing
      <4>2. QED
        BY <2>2, <3>1, <3>2, <3>4, <4>1, InboxSame
    <3>5. QED
      BY <3>3, <3>4
  <2>7. QED
    BY <2>6, CallKept
<1>6. QED
  BY <1>1, <1>4, <1>5

\* The inductive invariant.
CallsIInv == CallsStructure /\ \A c \in CallIds \ excused : CallInv(c)

\* It holds initially, when there are no calls.
LEMMA CallsIInvInitially == CallsInit => CallsIInv
<1> SUFFICES ASSUME CallsInit PROVE CallsIInv
  OBVIOUS
<1>1. CallsStructure
  BY CallsStructureInitially
<1>2. ASSUME NEW c \in CallIds, NEW n \in Parties(c)
      PROVE  ~Has(n, c) /\ ~OkKept(n, c) /\ ~Linked(n, c)
  <2>1. n \in Nodes
    BY PartiesAre
  <2>2. pending[n] = <<>> /\ connected[n] = {} /\ DOMAIN calls[n] = {}
    BY <2>1 DEF CallsInit
  <2>3. Heeded(n, c) = <<>>
    BY <2>2 DEF Heeded, Kept
  <2>4. QED
    BY <2>2, <2>3 DEF Has, OnGoing, OkKept, Linked
<1>3. ASSUME NEW c \in CallIds PROVE CallInv(c)
  <2>1. Caller[c] \in Parties(c)
    BY DEF Parties
  <2>2. QED
    BY <1>2, <2>1 DEF CallInv, EndInv
<1>4. QED
  BY <1>1, <1>3 DEF CallsIInv

\* Every step keeps the invariant of each call that is not excused.
LEMMA StepKeepsCalls ==
    ASSUME CallsStructure, [CallsNext]_callsVars, NEW c \in CallIds, c \notin excused', CallInv(c)
    PROVE  CallInv(c)'
<1>1. CASE UNCHANGED callsVars
  <2>1. ASSUME NEW n \in Parties(c) PROVE Undisturbed(n, c) /\ SameCall(n, c) /\ SameLink(n, c)
    <3>1. /\ pending'[n] = pending[n] /\ events'[n] = events[n] /\ wire' = wire
          /\ calls' = calls /\ connected' = connected
      BY <1>1 DEF callsVars
    <3>2. QED
      BY <3>1, InboxSame, WaysKept, CallSame DEF SameLink, Linked, OnGoing
  <2>2. QED
    BY <2>1, CallKept
<1>2. ASSUME NEW n \in Nodes, ProcessCallData(n) \/ NothingPending(n) \/ NodeConnectionAttemptStatus(n)
      PROVE  CallInv(c)'
  BY <1>2, HandlingKeepsCalls, NothingPendingKeepsCalls, ReportKeepsCalls
<1>3. ASSUME NEW n \in Nodes, NEW d \in CallIds, StartCall(n, d) \/ AcceptCall(n, d) \/ CloseCall(n, d)
      PROVE  CallInv(c)'
  BY <1>3, StartKeepsCalls, AcceptKeepsCalls, CloseKeepsCalls
<1>4. ASSUME NEW n \in Nodes, NEW p \in Nodes, Receive(n, p) \/ Drop(n, p) \/ Notice(n, p) \/ Connect(n, p)
      PROVE  CallInv(c)'
  BY <1>4, ReceiveKeepsCalls, EndClosesKeepsCalls, ConnectKeepsCalls DEF Drop, Notice
<1>5. QED
  BY <1>1, <1>2, <1>3, <1>4 DEF CallsNext

\* A call once excused remains so.
LEMMA ExcusedStays == ASSUME CallsStructure, [CallsNext]_callsVars PROVE excused \subseteq excused'
<1>1. ASSUME NEW n \in Nodes, ProcessCallData(n) PROVE excused \subseteq excused'
  BY <1>1, HandlingIs, HandlingEffects
<1>2. ASSUME NEW n \in Nodes, NodeConnectionAttemptStatus(n) PROVE excused \subseteq excused'
  BY <1>2 DEF NodeConnectionAttemptStatus
<1>3. QED
  BY <1>1, <1>2 DEF CallsNext, callsVars, NothingPending, StartCall, AcceptCall, CloseCall,
     Receive, Drop, Notice, EndCloses, Connect, historyVars

\* With nothing under way no entry is left to come, and the invariant of a
\* call says that its ends agree.
LEMMA SettledEndsAgree == CallsIInv => EndsAgree
<1> SUFFICES ASSUME CallsIInv, NEW c \in started \ excused, Settled(c)
             PROVE  LET a == calls[Caller[c]]  b == calls[Callee[c]]
                    IN  /\ c \in DOMAIN a <=> c \in DOMAIN b
                        /\ c \in DOMAIN a /\ b[c].key # "nulkey" =>
                             (a[c].state = "Open" <=> b[c].state = "Open")
  BY DEF EndsAgree
<1> DEFINE a == Caller[c]
           b == Callee[c]
<1>1. c \in CallIds /\ CallsStructure /\ CallInv(c)
  BY StructureParts DEF CallsIInv
<1>2. \A n \in Parties(c) : n = a \/ n = b
  BY DEF Parties
<1>3. ASSUME NEW n \in Parties(c)
      PROVE  /\ Linked(n, c) /\ ~ReportWaits(n, c) /\ ~NoComes(n, c) /\ ~KeyComes(n, c)
             /\ ~Unanswered(n, c)
  <2>1. Peer(a, c) = b /\ Peer(b, c) = a /\ n \in Nodes
    BY <1>1, PartiesAre
  <2>2. events[n] = <<>> /\ Way(n, c) = <<>> /\ Linked(n, c)
    BY <1>2, <2>1 DEF Settled, Way, Linked
  <2>3. \A x : ~Holds(events[n], x)
    BY <2>2 DEF Holds
  <2>4. pending[n] = <<>>
    BY <1>1, <2>1, <2>3 DEF CallsStructure
  <2>5. QED
    BY <2>2, <2>3, <2>4 DEF ReportWaits, NoComes, KeyComes, Unanswered, Coming, Answered
<1>4. LinkInv(c)
  BY <1>1, <1>3 DEF CallInv
<1>5. a \in Parties(c) /\ b \in Parties(c)
  BY DEF Parties
<1>6. /\ Has(a, c) <=> Has(b, c)
      /\ IsOpen(a, c) => IsOpen(b, c)
      /\ IsOpen(b, c) => IsOpen(a, c) \/ NulKey(b, c)
  BY <1>3, <1>4, <1>5 DEF LinkInv
<1>7. QED
  BY <1>6 DEF Has, IsOpen, NulKey, OnGoing

\* When nothing is under way between two nodes that are connected, both have a
\* call or neither has, and it is open at both or at neither, though each of them
\* places, accepts and closes calls on its own (setupNewOutgoingCall, acceptCall,
\* closeCall), messages and reports of lost connections wait in the inbox and the
\* event queue until processCallData and nodeConnectionAttemptStatus see to them,
\* and connections come and go with what they carry: for any nodes and calls, any
\* number of the operators' actions and of lost connections.
THEOREM BothEndsAgree == CallsSpec => []EndsAgree
<1>1. CallsInit => CallsIInv
  BY CallsIInvInitially
<1>2. CallsIInv /\ [CallsNext]_callsVars => CallsIInv'
  <2>1. SUFFICES ASSUME CallsIInv, [CallsNext]_callsVars PROVE CallsIInv'
    OBVIOUS
  <2>2. CallsStructure'
    BY <2>1, StepKeepsStructure DEF CallsIInv
  <2>3. ASSUME NEW c \in CallIds, c \notin excused' PROVE CallInv(c)'
    <3>1. CallInv(c)
      BY <2>1, <2>3, ExcusedStays DEF CallsIInv
    <3>2. QED
      BY <2>1, <2>3, <3>1, StepKeepsCalls DEF CallsIInv
  <2>4. QED
    BY <2>2, <2>3 DEF CallsIInv
<1>3. QED
  BY <1>1, <1>2, SettledEndsAgree, PTL DEF CallsSpec
=============================================================================
