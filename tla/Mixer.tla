------------------------------- MODULE Mixer -------------------------------
(***************************************************************************)
(* The audio of the calls at one node: AudioMixer (call/audiomixer.cpp),   *)
(* fed by the microphone (call/audiosource.cpp) and by what the peers send *)
(* (VoiceCallEngine::insertCallData, call/audiodecoder.cpp).               *)
(*                                                                         *)
(* Every stream that is mixed has a queue of frames at the same index in   *)
(* another list.  A frame of the microphone is what sets the mixer going;  *)
(* what leaves it goes to the loudspeaker and to the peers.  Everything    *)
(* happens with the lock of the datamodel held.                            *)
(***************************************************************************)
EXTENDS Naturals, Sequences, FiniteSets, SequencesExt, FiniteSetsExt

CONSTANTS MixedCalls,            \* calls that may be open
          PeerOf,                \* callPeerFingerPrint of each
          Self,                  \* this node: KNullHash in the streams
          Volumes,               \* average levels of frames, by where they are from
          KPreferredBufferLen,   \* queues shorter than this wait
          KMaxBufferLen,         \* longer ones take no frame
          MaxSeq,                \* bound: sequence numbers of a peer
          MaxOpened              \* bound: calls opened

Peers == {PeerOf[c] : c \in MixedCalls}

ASSUME MixerAssumption ==
    /\ Self \notin Peers
    /\ Volumes \in [Peers \cup {Self} -> SUBSET Nat]
    /\ {KPreferredBufferLen, KMaxBufferLen, MaxSeq, MaxOpened} \subseteq Nat
    /\ KPreferredBufferLen < KMaxBufferLen

VARIABLES mixedStreams,   \* iStreams
          buffers,        \* iAudioDataBuffer
          callsOpened,    \* how many calls were opened
          heard           \* what the last step emitted: whose frames to whom

mixerVars == <<mixedStreams, buffers, callsOpened, heard>>

\* The microphone's frames come in order, their numbers tell nothing: 0.
AudioFrame == [from : Peers \cup {Self}, seq : 0 .. MaxSeq, volume : UNION Range(Volumes)]
Stream == [call : MixedCalls, node : Peers \cup {Self}, seen : 0 .. MaxSeq]

MixerTypeOK ==
    /\ mixedStreams \in Seq(Stream)
    /\ buffers \in Seq(Seq(AudioFrame)) /\ Len(mixedStreams) <= Len(buffers)
    /\ callsOpened \in 0 .. MaxOpened
    /\ heard \subseteq [to : Peers \cup {Self}, from : Peers \cup {Self}]

-----------------------------------------------------------------------------
\* insertStream and removeStream, called when a call opens and when it ends.

IndexesOf(n) == {i \in DOMAIN mixedStreams : mixedStreams[i].node = n}
IsLocal(i) == mixedStreams[i].node = Self

\* The list of streams with one more, unless it is in there.
WithStream(s, c, n) ==
    IF \E i \in DOMAIN s : s[i].call = c /\ (s[i].node = Self <=> n = Self)
    THEN s ELSE Append(s, [call |-> c, node |-> n, seen |-> 0])

\* addCallToMixer: the microphone comes with the first row of the list of
\* calls. With a stream in the mixer there is another row; without one there
\* may be, of a call that is not open.
AddCall(c) ==
    \E first \in (IF mixedStreams = <<>> THEN BOOLEAN ELSE {FALSE}) :
        LET s == WithStream(IF first THEN WithStream(mixedStreams, c, Self) ELSE mixedStreams,
                            c, PeerOf[c])
        IN  /\ mixedStreams' = s
            /\ buffers' = buffers \o [i \in 1 .. Len(s) - Len(mixedStreams) |-> <<>>]
            /\ heard' = {}

\* A plausible bug: the stream goes and its queue stays.
RemoveCall_QueueStays(c) ==
    LET i == Max({j \in DOMAIN mixedStreams : mixedStreams[j].call = c /\ ~IsLocal(j)})
        left == RemoveAt(mixedStreams, i)
    IN  /\ \E j \in DOMAIN mixedStreams : mixedStreams[j].call = c /\ ~IsLocal(j)
        /\ mixedStreams' = IF Len(left) = 1 /\ left[1].node = Self THEN <<>> ELSE left
        /\ heard' = {}
        /\ UNCHANGED <<buffers, callsOpened>>

\* The microphone that is left alone is taken from the streams, but its queue
\* is not: it is there for the next stream that gets the index.
RemoveCall(c) ==
    LET i == Max({j \in DOMAIN mixedStreams : mixedStreams[j].call = c /\ ~IsLocal(j)})
        left == RemoveAt(mixedStreams, i)
    IN  /\ \E j \in DOMAIN mixedStreams : mixedStreams[j].call = c /\ ~IsLocal(j)
        /\ mixedStreams' = IF Len(left) = 1 /\ left[1].node = Self THEN <<>> ELSE left
        /\ buffers' = RemoveAt(buffers, i)
        /\ heard' = {}
        /\ UNCHANGED callsOpened

-----------------------------------------------------------------------------
\* doInsertAudioFrame: the place of a frame in a queue, by its number.

\* Frames between which one with this number belongs.
Gaps(q, seq) == {i \in 2 .. Len(q) : q[i - 1].seq < seq /\ seq < q[i].seq}

\* The queue with the frame and the greatest number seen. A frame for the tail
\* of the queue does not count as seen.
Inserted(q, f, seen) ==
    CASE seen = 0 \/ f.seq = seen + 1 \/ q = <<>> ->
             [queue |-> Append(q, f), seen |-> f.seq]
      [] OTHER ->
             IF f.seq < Head(q).seq THEN [queue |-> <<f>> \o q, seen |-> Last(q).seq]
             ELSE IF Last(q).seq < f.seq THEN [queue |-> Append(q, f), seen |-> seen]
             ELSE IF Gaps(q, f.seq) = {} THEN [queue |-> q, seen |-> seen]
             ELSE [queue |-> InsertAt(q, Max(Gaps(q, f.seq)), f), seen |-> Last(q).seq]

\* insertReceivedAudioFrame: frames of a peer, in any order, some never and some
\* twice ("suspectible to droppage,re-ordering and multiplication"). They go to
\* its last stream, whichever call they are of.
InsertReceivedAudioFrame(n) ==
    /\ IndexesOf(n) # {}
    /\ \E seq \in 1 .. MaxSeq, volume \in Volumes[n] :
        LET i == Max(IndexesOf(n))
            after == Inserted(buffers[i], [from |-> n, seq |-> seq, volume |-> volume],
                              mixedStreams[i].seen)
        IN  /\ Len(buffers[i]) < KMaxBufferLen
            /\ buffers' = [buffers EXCEPT ![i] = after.queue]
            /\ mixedStreams' = [mixedStreams EXCEPT ![i].seen = after.seen]
    /\ heard' = {}
    /\ UNCHANGED callsOpened

-----------------------------------------------------------------------------
\* tryMixFrames.

\* One call and nothing to mix (configureMixedStreams): all that waits passes.
OneToOne == Len(mixedStreams) = 2 /\ \E i, j \in 1 .. 2 : IsLocal(i) /\ ~IsLocal(j)

PassedOn(bufs) ==
    [buffers |-> [i \in DOMAIN bufs |-> IF i \in DOMAIN mixedStreams THEN <<>> ELSE bufs[i]],
     heard |-> UNION {{[to |-> mixedStreams[3 - i].node, from |-> f.from] : f \in ToSet(bufs[i])} :
                         i \in 1 .. 2}]

Waiting(bufs) == {i \in DOMAIN bufs : bufs[i] # <<>>}
Level(bufs, i) == Head(bufs[i]).volume

\* The first of the loudest, and the last of the loudest among the others.
Loudest(bufs) ==
    Min({i \in Waiting(bufs) : \A j \in Waiting(bufs) : Level(bufs, j) <= Level(bufs, i)})
SecondLoudest(bufs) ==
    LET others == Waiting(bufs) \ {Loudest(bufs)}
    IN  Max({i \in others : \A j \in others : Level(bufs, j) <= Level(bufs, i)})

\* The loudest frame goes to everybody but its originator, who gets the second.
GetsOf(s, first, second) ==
    IF s.node # mixedStreams[first].node THEN {first}
    ELSE IF s.node = Self \/ s.node # mixedStreams[second].node THEN {second} ELSE {}

\* A plausible bug: mixing waits for a frame of every stream.
MixedOnce_OfAll(m) ==
    LET bufs == m.buffers
        first == Loudest(bufs)
        second == SecondLoudest(bufs)
    IN  IF /\ \E i \in Waiting(bufs) : Head(bufs[i]).from = Self
           /\ Waiting(bufs) = DOMAIN mixedStreams
        THEN [buffers |-> [i \in DOMAIN bufs |-> IF bufs[i] = <<>> THEN <<>> ELSE Tail(bufs[i])],
              heard |-> m.heard \cup
                  UNION {{[to |-> s.node, from |-> Head(bufs[i]).from] :
                             i \in GetsOf(s, first, second)} : s \in ToSet(mixedStreams)}]
        ELSE m

\* One frame of each queue, if the microphone's is among them and another.
MixedOnce(m) ==
    LET bufs == m.buffers
        first == Loudest(bufs)
        second == SecondLoudest(bufs)
    IN  IF /\ \E i \in Waiting(bufs) : Head(bufs[i]).from = Self
           /\ Cardinality(Waiting(bufs)) > 1
        THEN [buffers |-> [i \in DOMAIN bufs |-> IF bufs[i] = <<>> THEN <<>> ELSE Tail(bufs[i])],
              heard |-> m.heard \cup
                  UNION {{[to |-> s.node, from |-> Head(bufs[i]).from] :
                             i \in GetsOf(s, first, second)} : s \in ToSet(mixedStreams)}]
        ELSE m

\* The longest queue says how many frames are taken from each.
Surplus(bufs) ==
    LET longest == Max({Len(bufs[i]) : i \in DOMAIN bufs})
    IN  IF longest > KPreferredBufferLen THEN longest - KPreferredBufferLen ELSE 0

TryMixFrames(bufs) ==
    LET mixed[k \in 0 .. Surplus(bufs)] ==
            IF k = 0 THEN [buffers |-> bufs, heard |-> {}] ELSE MixedOnce(mixed[k - 1])
        result == IF OneToOne THEN PassedOn(bufs) ELSE mixed[Surplus(bufs)]
    IN  buffers' = result.buffers /\ heard' = result.heard

\* insertCapturedAudioFrame: only a frame that finds room sets the mixer going.
InsertCapturedAudioFrame ==
    /\ IndexesOf(Self) # {}
    /\ LET i == Max(IndexesOf(Self))
       IN  /\ Len(buffers[i]) < KMaxBufferLen
           /\ \E volume \in Volumes[Self] :
                TryMixFrames([buffers EXCEPT ![i] =
                    Append(@, [from |-> Self, seq |-> 0, volume |-> volume])])
    /\ UNCHANGED <<mixedStreams, callsOpened>>

-----------------------------------------------------------------------------
MixerInit ==
    /\ mixedStreams = <<>> /\ buffers = <<>> /\ heard = {} /\ callsOpened = 0

Open(c) ==
    /\ \A i \in DOMAIN mixedStreams : mixedStreams[i].call # c \/ IsLocal(i)
    /\ callsOpened < MaxOpened /\ callsOpened' = callsOpened + 1
    /\ AddCall(c)

MixerNext ==
    \/ \E c \in MixedCalls : Open(c) \/ RemoveCall(c)
    \/ \E n \in Peers : InsertReceivedAudioFrame(n)
    \/ InsertCapturedAudioFrame

MixerSpec == MixerInit /\ [][MixerNext]_mixerVars

-----------------------------------------------------------------------------
\* audiomixer.cpp:346: "here nobody should hear echo of own voice": no frame
\* goes back to where it was captured, whatever calls came and went before.
NobodyHearsThemselves == \A h \in heard : h.to # h.from

\* The queue of the microphone.
MicrophoneQueue == IF IndexesOf(Self) = {} THEN <<>> ELSE buffers[Max(IndexesOf(Self))]
MicrophoneFull == Len(MicrophoneQueue) = KMaxBufferLen
PeersWaiting == \E i \in DOMAIN mixedStreams : ~IsLocal(i) /\ buffers[i] # <<>>

\* The mixer falls behind the microphone only when no peer has sent anything:
\* its queue does not get full while a frame waits to be mixed with it.
FillsInSilenceOnly == [][~MicrophoneFull /\ MicrophoneFull' => ~PeersWaiting']_mixerVars

\* audiomixer.h:40: with one stream of each kind "input type 2 becomes output
\* type 1 and that's it": with one call, the frames of the peer are heard while
\* the microphone works. The code does not keep it: where the queue of the
\* microphone is full nothing is mixed any more.
OneToOneIsHeard ==
    OneToOne /\ PeersWaiting ~> ~OneToOne \/ ~PeersWaiting
FairMixerSpec == MixerSpec /\ WF_mixerVars(InsertCapturedAudioFrame)

\* audiomixer.cpp:139: a packet in wrong order is put "into queue into right
\* position". The code does not keep it: with 3 and 5 in the queue, 4 goes to
\* the tail.
QueuesAreOrdered ==
    \A i \in DOMAIN mixedStreams : IsLocal(i) \/
        \A j \in 2 .. Len(buffers[i]) : buffers[i][j - 1].seq <= buffers[i][j].seq
=============================================================================
