---------------------------- MODULE PacketReader ----------------------------
(***************************************************************************)
(* How a connection of classified-ads cuts the byte stream of its TLS      *)
(* socket into protocol packets: Connection::performRead, the slot that    *)
(* reads, and Connection::readLoop, the loop around it that runs the event *)
(* loop of the connection's thread and gives up stalled reads              *)
(* (net/connection.cpp).                                                   *)
(*                                                                         *)
(* A packet travels as its length and its bytes. Bytes arrive in pieces    *)
(* cut anywhere, and only while the receiving thread processes its events: *)
(* from readLoop, or from within performRead after a packet has been       *)
(* handed to the observer. In the second case the readyRead signal finds   *)
(* performRead on the call stack already; callStack is that stack.         *)
(*                                                                         *)
(* A byte is known by its offset in the stream and a packet by the offset  *)
(* of its first byte and its size.                                         *)
(***************************************************************************)
EXTENDS Naturals, Sequences, SequencesExt

CONSTANTS
    HeaderSize,     \* sizeof(quint32), the length in front of each packet
    PacketSizes,    \* sizes of the packets the peer sends
    MinMessage,     \* ProtocolMessageParser refuses shorter messages
    MaxPatience,    \* 1000 turns of readLoop, 500 seconds
    MaxPackets      \* bound: packets sent

ASSUME SizeAssumption == /\ HeaderSize \in Nat \ {0}
                         /\ MinMessage \in Nat \ {0}
                         /\ MaxPatience \in Nat
                         /\ MaxPackets \in Nat
                         /\ PacketSizes \subseteq Nat \ {0}
ASSUME MessageAssumption == \A size \in PacketSizes : size >= MinMessage

VARIABLES
    sent,        \* packets the peer has written to the stream
    arrived,     \* bytes that have reached the socket's read buffer
    consumed,    \* bytes that have been read from it
    socket,      \* "connected", "disconnected" by the peer or "aborted" here
    phase,       \* run(): handshake, in readLoop's processEvents, or done
    needsToRun,  \* iNeedsToRun
    callStack,   \* active performRead: in its "loop" or in processEvents
    reading,     \* iIsAlreadyReading
    packet,      \* iBytesExpectedInPacketBeingRead, iBytesInPacketBeingRead
                 \*   and iBytesRead
    patience,    \* iInvocationsSinceLastByteReceived
    received,    \* iNumberOfPacketsReceived
    handed       \* history: what dataReceived was called with

streamVars == <<sent, arrived, consumed, socket>>
readerVars == <<callStack, reading, packet, received, handed>>
vars == <<streamVars, phase, needsToRun, readerVars, patience>>

\* A packet: offset of its first byte and its size.
Frame == [from : Nat, size : Nat]
Packet == [expected : Nat, inPacket : Nat, from : Nat, size : Nat]
NoPacket == [expected |-> 0, inPacket |-> 0, from |-> 0, size |-> 0]

TypeOK ==
    /\ sent \in Seq(Frame)
    /\ arrived \in Nat
    /\ consumed \in 0..arrived
    /\ socket \in {"connected", "disconnected", "aborted"}
    /\ phase \in {"handshake", "events", "done"}
    /\ needsToRun \in BOOLEAN
    /\ callStack \in Seq({"loop", "events"})
    /\ reading \in BOOLEAN
    /\ packet \in Packet
    /\ patience \in Nat
    /\ received \in Nat
    /\ handed \in Seq(Frame)

Init ==
    /\ sent = <<>> /\ arrived = 0 /\ consumed = 0 /\ socket = "connected"
    /\ phase = "handshake" /\ needsToRun = TRUE
    /\ callStack = <<>> /\ reading = FALSE /\ packet = NoPacket
    /\ patience = 0 /\ received = 0 /\ handed = <<>>

-----------------------------------------------------------------------------
(* The stream.                                                             *)

EndOf(frame) == frame.from + frame.size

\* Bytes in the stream when n packets are written.
EndOfPackets(n) == IF n = 0 THEN 0 ELSE EndOf(sent[n])

\* The peer's readLoop writes a length and as many bytes.
WritePacket(size) ==
    /\ socket = "connected"
    /\ Len(sent) < MaxPackets
    /\ sent' = Append(sent, [from |-> EndOfPackets(Len(sent)) + HeaderSize, size |-> size])
    /\ UNCHANGED <<arrived, consumed, socket, phase, needsToRun, readerVars, patience>>

Available == arrived - consumed

Abort ==
    /\ socket' = "aborted"
    /\ needsToRun' = FALSE

ProcessesEvents ==
    IF callStack = <<>> THEN phase \in {"handshake", "events"} ELSE Last(callStack) = "events"

-----------------------------------------------------------------------------
(* Connection::performRead.                                                *)

ReadyRead_Unguarded ==
    /\ reading' = TRUE
    /\ callStack' = Append(callStack, "loop")

\* Entry: a call within a call returns at once.
ReadyRead ==
    IF reading
    THEN UNCHANGED <<callStack, reading>>
    ELSE /\ reading' = TRUE
         /\ callStack' = Append(callStack, "loop")

\* The socket has decrypted n more bytes. The slot that reads them is
\* connected when readLoop starts, so in the handshake nobody hears of it.
Arrive(n) ==
    /\ ProcessesEvents
    /\ socket = "connected"
    /\ arrived + n <= EndOfPackets(Len(sent))
    /\ arrived' = arrived + n
    /\ IF phase = "handshake" THEN UNCHANGED <<callStack, reading>> ELSE ReadyRead
    /\ UNCHANGED <<sent, consumed, socket, phase, needsToRun, packet, received,
                   handed, patience>>

\* The length is read where no packet is being read and all of it is there.
ReadsHeader == /\ packet.expected = 0
               /\ packet.size = 0
               /\ Available >= HeaderSize

\* The length in front of a packet; between packets, whatever is there.
HeaderValues ==
    LET packets == {i \in 1..Len(sent) : sent[i].from = consumed + HeaderSize}
    IN IF ~ReadsHeader THEN {0}
       ELSE IF packets # {} THEN {sent[i].size : i \in packets}
       ELSE PacketSizes \cup {0}

AfterHeader(header) ==
    IF ReadsHeader THEN [packet EXCEPT !.expected = header, !.inPacket = 0] ELSE packet


PositionAfterHeader == IF ReadsHeader THEN consumed + HeaderSize ELSE consumed


\* How many of the available bytes are taken into p.
BytesToRead(p, available) ==
    IF p.expected > p.inPacket
    THEN IF available > p.expected THEN p.expected - p.inPacket ELSE available
    ELSE 0

AfterBytes(p, position, count) ==
    [p EXCEPT !.inPacket = p.inPacket + count,
              !.from = IF p.size = 0 /\ count > 0 THEN position ELSE p.from,
              !.size = p.size + count]


Complete(p) == p.expected = p.inPacket

\* The packet is over: iBytesInPacketBeingRead keeps its value.
Cleared(p) == [p EXCEPT !.expected = 0, !.from = 0, !.size = 0]

\* performRead's "one total packet": the observer takes it and events are
\* processed, or it refuses and the connection is aborted.
HandOver(p) ==
    /\ handed' = Append(handed, [from |-> p.from, size |-> p.size])
    /\ \/ /\ p.size >= MinMessage
          /\ packet' = p
          /\ callStack' = [callStack EXCEPT ![Len(callStack)] = "events"]
          /\ UNCHANGED <<arrived, socket, needsToRun, patience, received>>
       \/ /\ Abort
          /\ arrived' = consumed'
          /\ packet' = Cleared(p)
          /\ patience' = 0
          /\ received' = received + 1
          /\ UNCHANGED callStack

\* One turn of the loop in performRead while bytes are available.
ReadTurn ==
    /\ callStack # <<>>
    /\ Last(callStack) = "loop"
    /\ Available > 0
    /\ \E header \in HeaderValues :
         LET opened   == AfterHeader(header)
             position == PositionAfterHeader
             count    == BytesToRead(opened, arrived - position)
             filled   == AfterBytes(opened, position, count)
         IN /\ consumed' = position + count
            /\ IF Complete(filled)
               THEN HandOver(filled)
               ELSE /\ packet' = filled
                    /\ patience' = IF count > 0 THEN 0 ELSE patience
                    /\ UNCHANGED <<arrived, socket, needsToRun, callStack, received, handed>>
    /\ UNCHANGED <<sent, phase, reading>>

\* processEvents returns to performRead, which is done with the packet.
PacketHandled ==
    /\ callStack # <<>>
    /\ Last(callStack) = "events"
    /\ callStack' = [callStack EXCEPT ![Len(callStack)] = "loop"]
    /\ packet' = Cleared(packet)
    /\ patience' = 0
    /\ received' = received + 1
    /\ UNCHANGED <<streamVars, phase, needsToRun, reading, handed>>

\* Nothing more to read: performRead returns.
StopReading ==
    /\ callStack # <<>>
    /\ Last(callStack) = "loop"
    /\ Available = 0
    /\ callStack' = Front(callStack)
    /\ reading' = FALSE
    /\ UNCHANGED <<streamVars, phase, needsToRun, packet, received, handed, patience>>

-----------------------------------------------------------------------------
(* Connection::run and Connection::readLoop.                               *)

StaysInLoop_WhileConnected == socket = "connected"

StaysInLoop == needsToRun /\ socket = "connected"

\* Handshake done: readLoop starts and readyRead is connected.
StartReadLoop ==
    /\ phase = "handshake"
    /\ phase' = IF StaysInLoop THEN "events" ELSE "done"
    /\ UNCHANGED <<streamVars, needsToRun, readerVars, patience>>

\* Ten seconds passed without a handshake.
HandshakeTimesOut ==
    /\ phase = "handshake"
    /\ arrived = 0
    /\ phase' = "done"
    /\ Abort
    /\ UNCHANGED <<sent, arrived, consumed, readerVars, patience>>

PacketIsPending == packet.expected > 0 /\ packet.expected > packet.size

TurnsWaited_WithBytes ==
    IF PacketIsPending /\ packet.size > 0 THEN patience + 1 ELSE patience

TurnsWaited == IF PacketIsPending THEN patience + 1 ELSE patience

\* readLoop after its processEvents: count the turn of a pending read, give
\* up or go on to the next turn.
LoopTurn ==
    /\ phase = "events"
    /\ callStack = <<>>
    /\ patience' = TurnsWaited
    /\ IF TurnsWaited > MaxPatience
       THEN /\ phase' = "done"
            /\ IF needsToRun
               THEN Abort /\ arrived' = consumed
               ELSE UNCHANGED <<arrived, socket, needsToRun>>
       ELSE /\ phase' = IF StaysInLoop THEN "events" ELSE "done"
            /\ UNCHANGED <<arrived, socket, needsToRun>>
    /\ UNCHANGED <<sent, consumed, readerVars>>

\* socketError or disconnected, delivered as an event.
PeerDisconnects ==
    /\ ProcessesEvents
    /\ socket = "connected"
    /\ socket' = "disconnected"
    /\ needsToRun' = FALSE
    /\ UNCHANGED <<sent, arrived, consumed, phase, readerVars, patience>>

\* Another thread asks the connection to close: shutdown, a dead or a
\* double connection, too many connections.
AskedToClose ==
    /\ phase # "done"
    /\ needsToRun
    /\ needsToRun' = FALSE
    /\ UNCHANGED <<streamVars, phase, readerVars, patience>>

\* The steps of the connection's own thread.
ThreadStep == \/ ReadTurn \/ PacketHandled \/ StopReading
              \/ StartReadLoop \/ LoopTurn

Next ==
    \/ \E size \in PacketSizes : WritePacket(size)
    \/ \E n \in 1..(EndOfPackets(Len(sent)) - arrived) : Arrive(n)
    \/ ThreadStep
    \/ HandshakeTimesOut
    \/ PeerDisconnects
    \/ AskedToClose

Spec == Init /\ [][Next]_vars

\* The thread runs; the peer, the network and the other threads need not do
\* anything.
FairSpec == Spec /\ WF_vars(ThreadStep)

-----------------------------------------------------------------------------
(* Properties.                                                             *)

\* What the observer gets, in the order it gets it, is what the peer sent:
\* no packet is cut short, joined with the next one, lost, repeated or
\* handed over out of order, however the stream is cut and although events
\* are processed, and more bytes arrive, while a packet is being handled.
\* The exception is the empty packet before the first one, which the parser
\* refuses: the connection is aborted then.
DeliveredInOrder ==
    \A i \in 1..Len(handed) :
        \/ i <= Len(sent) /\ handed[i] = sent[i]
        \/ handed[i].size = 0 /\ socket = "aborted" /\ i = Len(handed)

\* The reader knows where it is in the stream: between packets the next
\* bytes are a length, within a packet it has the packet's own length and
\* the bytes read since are the packet's. A wrong position would make it
\* take payload for a length.
FramingKept ==
    socket # "aborted" =>
        /\ packet.expected = 0 =>
             /\ Len(handed) <= Len(sent)
             /\ consumed = EndOfPackets(Len(handed))
        /\ packet.expected > 0 /\ packet.expected # packet.inPacket =>
             /\ Len(handed) < Len(sent)
             /\ packet.expected = sent[Len(handed) + 1].size
             /\ consumed = sent[Len(handed) + 1].from + packet.size

\* The reader can make no progress in the turn it is in and never leaves it:
\* it holds more bytes than the packet has, or part of a length.
Spinning ==
    /\ callStack # <<>>
    /\ Last(callStack) = "loop"
    /\ Available > 0
    /\ \/ packet.expected > 0 /\ packet.inPacket > packet.expected
       \/ packet.expected = 0 /\ packet.inPacket > 0 /\ Available < HeaderSize

\* A packet of which some part does not come is not waited for for ever:
\* the rest comes, or the connection gives up, unless the read has gone past
\* the packet's end.
PendingReadEnds ==
    PacketIsPending ~> (~PacketIsPending \/ phase = "done")

\* A connection told to close leaves its loop, unless the reader spins.
ClosesUnlessSpinning == ~needsToRun ~> (phase = "done" \/ Spinning)

\* connection.h on the counter of a pending read: "if it reaches high number
\* (a sign of stalled download) do drop connection to that peer".
StalledReadIsDropped ==
    (packet.size > 0) ~> (packet.size = 0 \/ phase = "done")

=============================================================================
