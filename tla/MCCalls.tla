------------------------------ MODULE MCCalls ------------------------------
(***************************************************************************)
(* Two nodes that may call each other at the same time (Calls), and the    *)
(* mixer of a node that talks to two others (Mixer). In a behaviour one of *)
(* the two is at work.                                                     *)
(***************************************************************************)
EXTENDS Calls, Mixer, TLC

CONSTANTS alice, bob, toBob, toAlice, carol, toCarol

MCCaller == toBob :> alice @@ toAlice :> bob
MCCallee == toBob :> bob @@ toAlice :> alice

MCPeerOf == toBob :> bob @@ toCarol :> carol
MCVolumes == alice :> {0} @@ bob :> {0, 1} @@ carol :> {0, 1}

VARIABLE part   \* what is at work

allVars == <<callsVars, mixerVars, part>>

BothInit == CallsInit /\ MixerInit /\ part \in {"calls", "audio"}
CallStep(A) == part = "calls" /\ A /\ UNCHANGED <<mixerVars, part>>
AudioStep(A) == part = "audio" /\ A /\ UNCHANGED <<callsVars, part>>
BothNext == CallStep(CallsNext) \/ AudioStep(MixerNext)

\* The fairness of Calls; the mixer has none.
BothSpec ==
    /\ BothInit /\ [][BothNext]_allVars
    /\ \A n \in Nodes :
         WF_allVars(CallStep(ProcessCallData(n) \/ NothingPending(n)
                               \/ NodeConnectionAttemptStatus(n)))
    /\ \A n, p \in Nodes :
         WF_allVars(CallStep(Receive(n, p))) /\ WF_allVars(CallStep(Notice(n, p)))
AudioSpec == BothInit /\ [][BothNext]_allVars
             /\ WF_allVars(AudioStep(InsertCapturedAudioFrame))

BothTypeOK == CallsTypeOK /\ MixerTypeOK
=============================================================================
