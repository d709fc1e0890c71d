------------------------------- MODULE Calls -------------------------------
(***************************************************************************)
(* Voice calls: VoiceCallEngine (net/voicecallengine.cpp) at every node,   *)
(* the streams in its AudioMixer (call/audiomixer.cpp), the VoiceCall that *)
(* goes over the wire (datamodel/voicecall.cpp) and the connections the    *)
(* messages take.                                                          *)
(*                                                                         *)
(* All handlers of an engine run in the main thread.  What arrives from    *)
(* the network, from the operator who places a call and from connections   *)
(* that close is queued in iCallDataPendingProcessing; processCallData     *)
(* empties that queue with the lock held.                                  *)
(***************************************************************************)
EXTENDS Naturals, Sequences, FiniteSets, SequencesExt

CONSTANTS Nodes,       \* the nodes
          CallIds,     \* values of iCallId, chosen by rand() at the caller
          Caller,      \* iOriginatingNode of each call
          Callee,      \* iDestinationNode of each call
          MaxDrops,    \* bound: how often an end of a connection closes
          MaxActs      \* bound: how often operators place, accept or close a call

ASSUME PartiesAssumption ==
  /\ Caller \in [CallIds -> Nodes]
  /\ Callee \in [CallIds -> Nodes]
  /\ \A c \in CallIds : Caller[c] # Callee[c]
  /\ "process" \notin Nodes
ASSUME BoundsAssumption == MaxDrops \in Nat /\ MaxActs \in Nat

VARIABLES calls,       \* iOnGoingCalls: for each node its calls by id
          pending,     \* iCallDataPendingProcessing of each node
          busy,        \* nodes inside the loop of processCallData
          events,      \* queued calls of the engine's slots, oldest first:
                       \* processCallData, or the peer of a connection that
                       \* closed for nodeConnectionAttemptStatus
          connected,   \* peers each node has an open connection to
          wire,        \* call messages on their way from one node to another
          audio,       \* nodes whose iAudioSource and iAudioPlayer exist
          streams,     \* iStreams of each node's mixer
          drops, acts,
          \* What happened, for the properties only.
          started,     \* calls placed
          accepted,    \* calls the operator of the callee has accepted
          ended,       \* <<node, call>>: closed by the operator there
          excused      \* calls with a report missed or a request not sent

engineVars == <<calls, pending, busy, audio, streams>>
netVars == <<connected, wire, drops>>
historyVars == <<acts, started, accepted, ended, excused>>
callsVars == <<calls, pending, busy, events, connected, wire, audio, streams,
           drops, acts, started, accepted, ended, excused>>

States == {"Initial", "Incoming", "Open"}
\* iSymmetricAESKey: empty, one that survives the conversion to JSON, or one
\* whose first byte is NUL.
Keys == {"none", "key", "nulkey"}
Call == [state : States, ok : BOOLEAN, key : Keys]
Message == [call : CallIds, ok : BOOLEAN, key : {"none", "key"}, from : Nodes]

CallsTypeOK ==
  /\ calls \in [Nodes -> UNION {[S -> Call] : S \in SUBSET CallIds}]
  /\ pending \in [Nodes -> Seq(Message)]
  /\ busy \subseteq Nodes
  /\ events \in [Nodes -> Seq(Nodes \cup {"process"})]
  /\ connected \in [Nodes -> SUBSET Nodes]
  /\ wire \in [Nodes \X Nodes -> Seq(Message)]
  /\ audio \subseteq Nodes
  /\ streams \in [Nodes -> SUBSET (CallIds \X {"mic", "peer"})]
  /\ drops \in 0..MaxDrops /\ acts \in 0..MaxActs
  /\ started \subseteq CallIds /\ accepted \subseteq CallIds
  /\ ended \subseteq Nodes \X CallIds /\ excused \subseteq CallIds

----------------------------------------------------------------------------
\* What the engine's handlers share.

OnGoing(n) == DOMAIN calls[n]
\* callPeerFingerPrint
Peer(n, c) == IF Caller[c] = n THEN Callee[c] ELSE Caller[c]

\* checkForNodeValidity
IsValid(n, c, from) ==
  \/ n = Caller[c] /\ n = from
  \/ from \in {Caller[c], Callee[c]}

\* VoiceCall::asJSon gives the key as a C string: it ends at its first NUL.
AsMessage(n, c, call) ==
  [call |-> c, ok |-> call.ok, from |-> n,
   key |-> IF call.key = "key" THEN "key" ELSE "none"]

\* sendCallStatusUpdateToRemote: only when there is a connection.
SentToRemote(n, c, call) ==
  IF Peer(n, c) \in connected[n]
  THEN [wire EXCEPT ![<<n, Peer(n, c)>>] = Append(@, AsMessage(n, c, call))]
  ELSE wire

With(n, c, call) ==
  [calls EXCEPT ![n] = [d \in OnGoing(n) \cup {c} |->
                          IF d = c THEN call ELSE calls[n][d]]]

\* AudioMixer::insertStream and removeStream on the streams of one mixer: a
\* microphone that would be left alone goes too (configureMixedStreams).
InsertStream(s, c, kind) == s \cup {<<c, kind>>}
RemoveStream(s, c) ==
  LET left == s \ {<<c, "peer">>}
  IN  IF \E e \in left : e[2] = "peer" THEN left ELSE {}

\* addCallToMixer: the microphone comes with the first call of the list.
AddCallToMixer(n, c) ==
  LET first == Cardinality(OnGoing(n)) = 1
  IN  [streams EXCEPT ![n] =
         InsertStream(IF first THEN InsertStream(@, c, "mic") ELSE @, c, "peer")]
RemoveCallFromMixer(n, c) ==
  IF n \in audio THEN [streams EXCEPT ![n] = RemoveStream(@, c)] ELSE streams

\* setupLocalAudioCapture and setupAudioOutput: started for a call that goes
\* on, torn down for one that does not.
SetupAudio(n, goesOn) == audio' = IF goesOn THEN audio \cup {n} ELSE audio \ {n}

\* removeCallFromArray: with the last call of the list the audio is torn down.
RemoveCallFromArray(n, c) ==
  /\ calls' = [calls EXCEPT ![n] = [d \in OnGoing(n) \ {c} |-> calls[n][d]]]
  /\ IF OnGoing(n) = {c} THEN SetupAudio(n, FALSE) ELSE UNCHANGED audio

\* A call becomes Open. Nothing is added to a mixer whose source was torn down.
BecomeOpen(n, c, call) ==
  /\ calls' = With(n, c, call)
  /\ SetupAudio(n, call.ok)
  /\ streams' = IF call.ok THEN AddCallToMixer(n, c) ELSE streams

----------------------------------------------------------------------------
\* processCallData, one entry of the queue.

\* A plausible bug: the peer is not told that its message arrived.
CallEnds_NoReply(n, m) ==
  /\ m.call \in OnGoing(n) /\ IsValid(n, m.call, m.from) /\ ~m.ok
  /\ streams' = RemoveCallFromMixer(n, m.call)
  /\ RemoveCallFromArray(n, m.call)
  /\ UNCHANGED <<wire, excused>>

\* The peer, or the connection to it, has ended a call in the list.  The state
\* observers are told is read from the entry after it was deleted.
CallEnds(n, m) ==
  LET closed == [calls[n][m.call] EXCEPT !.ok = FALSE]
  IN  /\ m.call \in OnGoing(n) /\ IsValid(n, m.call, m.from) /\ ~m.ok
      /\ wire' = SentToRemote(n, m.call, closed)
      /\ streams' = RemoveCallFromMixer(n, m.call)
      /\ RemoveCallFromArray(n, m.call)
      /\ UNCHANGED excused

\* Our call was answered.
CallIsAnswered(n, m) ==
  /\ m.call \in OnGoing(n) /\ IsValid(n, m.call, m.from) /\ m.ok
  /\ calls[n][m.call].state = "Initial" /\ m.key # "none"
  /\ BecomeOpen(n, m.call, [calls[n][m.call] EXCEPT !.state = "Open"])
  /\ UNCHANGED <<wire, excused>>

\* setupNewOutgoingCall: one call for each peer; the request is sent only if
\* there is a connection, and never later.
NewOutgoingCall(n, m) ==
  LET peer == Callee[m.call]
      call == [state |-> "Initial", ok |-> m.ok, key |-> m.key]
  IN  /\ m.call \notin OnGoing(n) /\ m.ok /\ IsValid(n, m.call, m.from)
      /\ n = Caller[m.call]
      /\ \A d \in OnGoing(n) : Peer(n, d) # peer
      /\ calls' = With(n, m.call, call)
      /\ wire' = SentToRemote(n, m.call, call)
      /\ excused' = IF peer \in connected[n] THEN excused
                    ELSE excused \cup {m.call}
      /\ UNCHANGED <<audio, streams>>

\* The CallAcceptanceSetting or the trust tree refuses the call, or nobody
\* uses the node: either may change at any time.
CallIsRefused(n, m) ==
  /\ m.call \notin OnGoing(n) /\ m.ok /\ IsValid(n, m.call, m.from)
  /\ n # Caller[m.call]
  /\ wire' = SentToRemote(n, m.call,
               [state |-> "Initial", ok |-> FALSE, key |-> m.key])
  /\ UNCHANGED <<calls, audio, streams, excused>>

\* setupNewIncomingCall
NewIncomingCall(n, m) ==
  /\ m.call \notin OnGoing(n) /\ m.ok /\ IsValid(n, m.call, m.from)
  /\ n # Caller[m.call]
  /\ calls' = With(n, m.call, [state |-> "Incoming", ok |-> m.ok, key |-> m.key])
  /\ UNCHANGED <<wire, audio, streams, excused>>

\* Entries that change nothing.
Ignored(n, m) ==
  /\ \/ m.call \in OnGoing(n) /\ m.ok
        /\ (calls[n][m.call].state # "Initial" \/ m.key = "none")
     \/ m.call \in OnGoing(n) /\ ~IsValid(n, m.call, m.from)
     \/ m.call \notin OnGoing(n) /\ ~m.ok
     \/ m.call \notin OnGoing(n) /\ ~IsValid(n, m.call, m.from)
     \/ /\ m.call \notin OnGoing(n) /\ n = Caller[m.call]
        /\ \E d \in OnGoing(n) : Peer(n, d) = Callee[m.call]
  /\ UNCHANGED <<calls, wire, audio, streams, excused>>

Finished(n) == events' = [events EXCEPT ![n] = Tail(@)]
ProcessCallData(n) ==
  /\ events[n] # <<>> /\ Head(events[n]) = "process" /\ pending[n] # <<>>
  /\ pending' = [pending EXCEPT ![n] = Tail(@)]
  /\ IF Len(pending[n]) = 1 THEN busy' = busy \ {n} /\ Finished(n)
     ELSE busy' = busy \cup {n} /\ UNCHANGED events
  /\ LET m == Head(pending[n])
     IN  \/ CallEnds(n, m)
         \/ CallIsAnswered(n, m)
         \/ NewOutgoingCall(n, m)
         \/ CallIsRefused(n, m)
         \/ NewIncomingCall(n, m)
         \/ Ignored(n, m)
  /\ UNCHANGED <<connected, drops, acts, started, accepted, ended>>
\* An earlier call has emptied the queue.
NothingPending(n) ==
  /\ events[n] # <<>> /\ Head(events[n]) = "process" /\ pending[n] = <<>>
  /\ Finished(n)
  /\ UNCHANGED <<engineVars, netVars, historyVars>>

----------------------------------------------------------------------------
\* The operator.

Act == acts < MaxActs /\ acts' = acts + 1

\* insertCallStatusData
Insert(n, m) ==
  /\ pending' = [pending EXCEPT ![n] = Append(@, m)]
  /\ events' = [events EXCEPT ![n] = Append(@, "process")]

\* Controller::userInterfaceAction, VoiceCallToNode: a call with a new id.
StartCall(n, c) ==
  /\ n \notin busy /\ n = Caller[c] /\ c \notin started /\ Act
  /\ started' = started \cup {c}
  /\ Insert(n, [call |-> c, ok |-> TRUE, key |-> "none", from |-> n])
  /\ UNCHANGED <<calls, busy, audio, streams, netVars, accepted, ended, excused>>

\* acceptCall: the key is made here unless the call has one.
AcceptCall(n, c) ==
  /\ n \notin busy /\ c \in OnGoing(n) /\ calls[n][c].state = "Incoming"
  /\ Act
  /\ accepted' = accepted \cup {c}
  /\ \E k \in (IF calls[n][c].key = "none" THEN {"key", "nulkey"}
               ELSE {calls[n][c].key}) :
       LET call == [state |-> "Open", ok |-> TRUE, key |-> k]
       IN  /\ BecomeOpen(n, c, call)
           /\ wire' = SentToRemote(n, c, call)
  /\ UNCHANGED <<pending, busy, events, connected, drops, started, ended,
                 excused>>

\* A plausible bug: the list is changed and nobody told.
CloseCall_Silent(n, c) ==
  /\ n \notin busy /\ c \in OnGoing(n) /\ Act
  /\ streams' = RemoveCallFromMixer(n, c)
  /\ RemoveCallFromArray(n, c)
  /\ ended' = ended \cup {<<n, c>>}
  /\ UNCHANGED <<pending, busy, events, connected, wire, drops, started,
                 accepted, excused>>

\* closeCall
CloseCall(n, c) ==
  /\ n \notin busy /\ c \in OnGoing(n) /\ Act
  /\ wire' = SentToRemote(n, c, [calls[n][c] EXCEPT !.ok = FALSE])
  /\ streams' = RemoveCallFromMixer(n, c)
  /\ RemoveCallFromArray(n, c)
  /\ ended' = ended \cup {<<n, c>>}
  /\ UNCHANGED <<pending, busy, events, connected, drops, started,
                 accepted, excused>>

----------------------------------------------------------------------------
\* The connections.

\* ProtocolMessageParser::parseVoiceCall and insertCallStatusData.
Receive(n, p) ==
  /\ n \notin busy /\ p \in connected[n] /\ wire[<<p, n>>] # <<>>
  /\ wire' = [wire EXCEPT ![<<p, n>>] = Tail(@)]
  /\ Insert(n, Head(wire[<<p, n>>]))
  /\ UNCHANGED <<calls, busy, audio, streams, connected, drops,
                 historyVars>>

\* One end of a connection closes, by itself or as the other end has gone;
\* what is on its way to this end is lost, and the listener reports Closing.
EndCloses(n, p) ==
  /\ p \in connected[n]
  /\ connected' = [connected EXCEPT ![n] = @ \ {p}]
  /\ events' = [events EXCEPT ![n] = Append(@, p)]
  /\ wire' = [wire EXCEPT ![<<p, n>>] = <<>>]
  /\ UNCHANGED <<engineVars, historyVars>>
Drop(n, p) ==
  /\ n \in connected[p]
  /\ drops < MaxDrops /\ drops' = drops + 1
  /\ EndCloses(n, p)
Notice(n, p) == n \notin connected[p] /\ EndCloses(n, p) /\ UNCHANGED drops

\* Connections between other nodes play no part.
Connect(n, p) ==
  /\ p \notin connected[n] /\ n \notin connected[p]
  /\ \E c \in CallIds : n = Caller[c] /\ p = Callee[c]
  /\ connected' = [connected EXCEPT ![n] = @ \cup {p}, ![p] = @ \cup {n}]
  /\ wire' = [wire EXCEPT ![<<n, p>>] = <<>>, ![<<p, n>>] = <<>>]
  /\ UNCHANGED <<engineVars, events, drops, historyVars>>

\* nodeConnectionAttemptStatus: the report counts only if the peer is not
\* connected again; each call with it is queued as ended.
NodeConnectionAttemptStatus(n) ==
  /\ n \notin busy /\ events[n] # <<>> /\ Head(events[n]) # "process"
  /\ LET p == Head(events[n])
         lost == {c \in OnGoing(n) : Peer(n, c) = p}
     IN  IF p \in connected[n]
         THEN /\ excused' = excused \cup lost
              /\ Finished(n)
              /\ UNCHANGED <<calls, pending>>
         ELSE \E order \in SetToSeqs(lost) :
              /\ calls' = [calls EXCEPT ![n] =
                   [c \in OnGoing(n) |-> [calls[n][c] EXCEPT
                      !.ok = @ /\ c \notin lost]]]
              /\ pending' = [pending EXCEPT ![n] = @ \o
                   [i \in DOMAIN order |->
                      [AsMessage(n, order[i], calls[n][order[i]]) EXCEPT
                         !.ok = FALSE, !.from = p]]]
              /\ events' = [events EXCEPT ![n] =
                   Tail(@) \o [i \in DOMAIN order |-> "process"]]
              /\ UNCHANGED excused
  /\ UNCHANGED <<busy, audio, streams, netVars, acts, started,
                 accepted, ended>>

----------------------------------------------------------------------------
CallsInit ==
  /\ calls = [n \in Nodes |-> [c \in {} |-> [state |-> "Initial", ok |-> TRUE,
                                             key |-> "none"]]]
  /\ pending = [n \in Nodes |-> <<>>]
  /\ busy = {} /\ audio = {}
  /\ events = [n \in Nodes |-> <<>>]
  /\ connected = [n \in Nodes |-> {}]
  /\ wire = [l \in Nodes \X Nodes |-> <<>>]
  /\ streams = [n \in Nodes |-> {}]
  /\ drops = 0 /\ acts = 0
  /\ started = {} /\ accepted = {} /\ ended = {} /\ excused = {}

CallsNext ==
  \/ \E n \in Nodes : \/ ProcessCallData(n) \/ NothingPending(n)
                     \/ NodeConnectionAttemptStatus(n)
  \/ \E n \in Nodes, c \in CallIds :
       StartCall(n, c) \/ AcceptCall(n, c) \/ CloseCall(n, c)
  \/ \E n, p \in Nodes :
       Receive(n, p) \/ Drop(n, p) \/ Notice(n, p) \/ Connect(n, p)

CallsSpec == CallsInit /\ [][CallsNext]_callsVars

\* The main thread goes on handling events, connections deliver what was sent
\* or turn out to be gone.  Operators and new connections owe nothing.
Fairness ==
  /\ \A n \in Nodes :
       WF_callsVars(ProcessCallData(n) \/ NothingPending(n)
                 \/ NodeConnectionAttemptStatus(n))
  /\ \A n, p \in Nodes : WF_callsVars(Receive(n, p)) /\ WF_callsVars(Notice(n, p))
FairCallsSpec == CallsSpec /\ Fairness

----------------------------------------------------------------------------
\* Properties.

\* Nobody is connected to a callee who has not accepted: a call is open, at
\* either end, only after the operator of the callee accepted it.
OpenMeansAccepted ==
  \A n \in Nodes : \A c \in OnGoing(n) :
    calls[n][c].state = "Open" => c \in accepted

\* The mixer has a stream from the peer of each open call and of no other, and
\* microphone and loudspeaker are released with the last call of the list.
MixerFollowsCalls ==
  \A n \in Nodes :
    /\ {c \in CallIds : <<c, "peer">> \in streams[n]}
         = {c \in OnGoing(n) : calls[n][c].state = "Open"}
    /\ n \in audio => OnGoing(n) # {}
    /\ streams[n] # {} => n \in audio

\* Nothing about a call is under way between its ends.
Settled(c) ==
  LET a == Caller[c]  b == Callee[c]
  IN  /\ a \in connected[b] /\ b \in connected[a]
      /\ wire[<<a, b>>] = <<>> /\ wire[<<b, a>>] = <<>>
      /\ events[a] = <<>> /\ events[b] = <<>>
\* When nothing is under way both ends agree: both have the call or neither,
\* and if it is open it is open at both.  Excused are a call whose request was
\* never sent, one whose lost connection was back before the engine handled
\* the report, and one whose key starts with a NUL byte, which the caller
\* takes for no answer.
EndsAgree ==
  \A c \in started \ excused : Settled(c) =>
    LET a == calls[Caller[c]]  b == calls[Callee[c]]
    IN  /\ c \in DOMAIN a <=> c \in DOMAIN b
        /\ c \in DOMAIN a /\ b[c].key # "nulkey" =>
             (a[c].state = "Open" <=> b[c].state = "Open")

\* A call that one operator has closed ends at both ends for good.
HangUpEnds ==
  \A c \in CallIds :
    <>[]((\E n \in Nodes : <<n, c>> \in ended) =>
           c \in excused \/ \A n \in Nodes : c \notin OnGoing(n))

\* closeCall "terminates ongoing call": the call does not come back.
ClosedStaysClosed ==
  [][\A n \in Nodes : \A c \in CallIds :
       <<n, c>> \in ended => (c \in OnGoing(n)' => c \in OnGoing(n))]_callsVars

\* The microphone of a node is in the mixer whenever a call is open there.
OpenCallIsHeard ==
  \A n \in Nodes :
    (\E c \in OnGoing(n) : calls[n][c].state = "Open") =>
    \E c \in CallIds : <<c, "mic">> \in streams[n]
=============================================================================
