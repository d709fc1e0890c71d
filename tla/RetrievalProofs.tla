--------------------------- MODULE RetrievalProofs ---------------------------
(***************************************************************************)
(* Proofs about Retrieval, for any content, offers, nodes, lists of        *)
(* candidates and numbers of requests and connections: nothing that was    *)
(* asked for is forgotten, and the dialog never waits in vain.             *)
(*                                                                         *)
(* Both say that an item is in Wanted, and both are needed of a step that  *)
(* takes an item out of it: it takes the item out of owed as well, and     *)
(* closes the dialog if that waits for it. So the invariant is their       *)
(* conjunction with the types of the variables Wanted is made of.          *)
(***************************************************************************)
EXTENDS Retrieval, SequenceLemmas, TLAPS

WorkTypeOK ==
    /\ downloadQueue \in Seq(Work)
    /\ current \in Work
    /\ owed \subseteq Items

IInv == WorkTypeOK /\ NoneForgotten /\ DialogIsWorkedFor

LEMMA InitIInv == Init => IInv
<1>1. SUFFICES ASSUME Init PROVE IInv
  OBVIOUS
<1>2. downloadQueue \in Seq(Work)
  BY <1>1, EmptySeq DEF Init
<1>3. Nothing \in Work
  BY DEF Nothing, Work, States
<1>4. QED
  BY <1>1, <1>2, <1>3 DEF Init, IInv, WorkTypeOK, NoneForgotten, DialogIsWorkedFor

\* A step after which the items in gone are fetched no longer: nobody may be owed
\* them then, nor the dialog wait for one of them.
LEMMA StillWanted ==
    ASSUME IInv, WorkTypeOK', NEW gone,
           Wanted \ ({NoItem} \cup gone) \subseteq Wanted',
           owed' \subseteq owed \ gone,
           dialog' => dialog /\ waitedFor' = waitedFor /\ waitedFor \notin gone
    PROVE  IInv'
BY RetrievalAssumption DEF IInv, WorkTypeOK, NoneForgotten, DialogIsWorkedFor

-----------------------------------------------------------------------------
\* Work that pushes in front puts the item in work back (startRetrieving).
LEMMA StartKeepsWanted ==
    ASSUME WorkTypeOK, NEW item \in Items, NEW dest \in Nodes \cup {NoNode},
           NEW isPriorityWork \in BOOLEAN, StartRetrieving(item, dest, isPriorityWork)
    PROVE  /\ downloadQueue' \in Seq(Work) /\ current' \in Work
           /\ Wanted \cup {item} \subseteq Wanted'
<1> DEFINE new == [item |-> item, dest |-> dest, state |-> "NewRequest"]
           isAlreadyInQueue == \E w \in ToSet(downloadQueue) : w.item = item
<1>1. new \in Work /\ new.item = item
  BY DEF Work, States
<1>2. downloadQueue \in Seq(Work) /\ current \in Work
  BY DEF WorkTypeOK
<1>3. CASE ~isAlreadyInQueue /\ ~isPriorityWork
  <2>1. downloadQueue' = Append(downloadQueue, new) /\ current' = current
    BY <1>3 DEF StartRetrieving
  <2> HIDE DEF new
  <2>2. /\ downloadQueue' \in Seq(Work)
        /\ ToSet(downloadQueue') = ToSet(downloadQueue) \cup {new}
    BY <1>1, <1>2, <2>1, AppendMembers
  <2>3. QED
    BY <1>1, <1>2, <2>1, <2>2 DEF Wanted
<1>4. CASE isPriorityWork /\ current.item # item
  <2>1. /\ downloadQueue' = <<new, current>> \o downloadQueue
        /\ current' = [current EXCEPT !.item = NoItem]
    BY <1>4 DEF StartRetrieving
  <2>2. current' \in Work
    BY <1>2, <2>1 DEF Work
  <2> HIDE DEF new
  <2>3. <<new, current>> \in Seq(Work) /\ ToSet(<<new, current>>) = {new, current}
    BY <1>1, <1>2, PairMembers
  <2>4. /\ downloadQueue' \in Seq(Work)
        /\ ToSet(downloadQueue') = {new, current} \cup ToSet(downloadQueue)
    <3> DEFINE pair == <<new, current>>
    <3>1. pair \in Seq(Work) /\ downloadQueue' = pair \o downloadQueue
      BY <2>1, <2>3
    <3> HIDE DEF pair
    <3>2. ToSet(downloadQueue') = ToSet(pair) \cup ToSet(downloadQueue)
      BY <1>2, <3>1, ConcatMembers
    <3>3. downloadQueue' \in Seq(Work)
      BY <1>2, <3>1, ConcatMembers
    <3>4. QED
      BY <2>3, <3>2, <3>3 DEF pair
  <2>5. QED
    BY <1>1, <2>2, <2>4 DEF Wanted
<1>5. CASE ~(~isAlreadyInQueue /\ ~isPriorityWork) /\ ~(isPriorityWork /\ current.item # item)
  <2>1. UNCHANGED <<downloadQueue, current>>
    BY <1>5 DEF StartRetrieving
  <2>2. item \in Wanted
    BY <1>5 DEF Wanted
  <2>3. QED
    BY <1>2, <2>1, <2>2 DEF Wanted
<1>6. QED
  BY <1>3, <1>4, <1>5

LEMMA UserPreserves ==
    ASSUME IInv, NEW o \in Offers, UserInterfaceAction(o)
    PROVE  IInv'
<1>1. /\ o.item \in Items /\ o.dest \in Nodes \cup {NoNode} /\ o.background \in BOOLEAN
      /\ o.item # NoItem
  BY RetrievalAssumption
<1>2. /\ StartRetrieving(o.item, o.dest, o.background)
      /\ waitedFor' = o.item /\ owed' = owed \cup {o.item}
  BY DEF UserInterfaceAction, StartRetrievingContent
<1>3. /\ downloadQueue' \in Seq(Work) /\ current' \in Work
      /\ Wanted \cup {o.item} \subseteq Wanted'
  BY <1>1, <1>2, StartKeepsWanted DEF IInv
<1>4. WorkTypeOK'
  BY <1>1, <1>2, <1>3 DEF IInv, WorkTypeOK
<1>5. NoneForgotten'
  BY <1>2, <1>3 DEF IInv, NoneForgotten
<1>6. DialogIsWorkedFor'
  BY <1>1, <1>2, <1>3 DEF DialogIsWorkedFor
<1>7. QED
  BY <1>4, <1>5, <1>6 DEF IInv

\* The next item is taken from the queue; it is in work then.
LEMMA TakePreserves ==
    ASSUME IInv, TakeNothing \/ BeginRetrieval
    PROVE  IInv'
<1> DEFINE work == Head(downloadQueue)
<1>1. /\ Idle /\ downloadQueue # <<>> /\ downloadQueue' = Tail(downloadQueue)
      /\ \E state \in States : current' = [work EXCEPT !.state = state]
      /\ UNCHANGED <<owed, dialog, waitedFor>>
  BY DEF TakeNothing, BeginRetrieval, dialogVars, States
<1>2. /\ work \in Work /\ downloadQueue' \in Seq(Work)
      /\ ToSet(downloadQueue) = {work} \cup ToSet(downloadQueue')
  BY <1>1, TailMembers DEF IInv, WorkTypeOK
<1> HIDE DEF work
<1>3. current' \in Work /\ current'.item = work.item
  BY <1>1, <1>2 DEF Work
<1>4. WorkTypeOK'
  BY <1>1, <1>2, <1>3 DEF IInv, WorkTypeOK
<1>5. Wanted \ {NoItem} \subseteq Wanted'
  BY <1>1, <1>2, <1>3 DEF Wanted, Idle
<1>6. QED
  BY <1>1, <1>4, <1>5, StillWanted

\* The steps in between leave the item what it is.
LEMMA SameWork ==
    ASSUME IInv, downloadQueue' = downloadQueue, owed' = owed,
           current' \in Work, current'.item = current.item,
           dialog' => dialog, waitedFor' = waitedFor
    PROVE  IInv'
<1>1. WorkTypeOK' /\ Wanted' = Wanted
  BY DEF IInv, WorkTypeOK, Wanted
<1>2. QED
  BY <1>1, StillWanted

LEMMA StagePreserves ==
    ASSUME IInv, AskNodesAfterHash \/ AskEverybody \/ CheckNodes
    PROVE  IInv'
<1>1. /\ UNCHANGED <<downloadQueue, owed, dialog, waitedFor>>
      /\ current' = current \/ \E state \in States : current' = [current EXCEPT !.state = state]
  BY DEF AskNodesAfterHash, AskEverybody, CheckNodes, dialogVars, States
<1>2. current \in Work
  BY DEF IInv, WorkTypeOK
<1>3. current' \in Work /\ current'.item = current.item
  BY <1>1, <1>2 DEF Work
<1>4. QED
  BY <1>1, <1>3, SameWork

\* The item in work is given up, and with it the dialog.
LEMMA GiveUpPreserves ==
    ASSUME IInv, GiveUp
    PROVE  IInv'
<1>1. /\ downloadQueue' = downloadQueue /\ owed' = owed \ {current.item}
      /\ current' = [current EXCEPT !.item = NoItem, !.state = "ReadyToSend"]
      /\ dialog' => dialog /\ waitedFor' = waitedFor /\ waitedFor # current.item
  BY DEF GiveUp
<1>2. current' \in Work
  BY <1>1 DEF IInv, WorkTypeOK, Work, States
<1>3. WorkTypeOK'
  BY <1>1, <1>2 DEF IInv, WorkTypeOK
<1>4. Wanted \ {current.item} \subseteq Wanted'
  BY <1>1 DEF Wanted
<1>5. QED
  BY <1>1, <1>3, <1>4, StillWanted

\* Content arrives, be it the item in work or one that waits.
LEMMA ReceivedPreserves ==
    ASSUME IInv, NEW item \in Items, NotifyOfContentReceived(item)
    PROVE  IInv'
<1> DEFINE kept == {w \in ToSet(downloadQueue) : w.item # item \/ item \in Comments}
<1>1. /\ downloadQueue' = Filter(downloadQueue, kept) /\ owed' = owed \ {item}
      /\ dialog' => dialog /\ waitedFor' = waitedFor /\ waitedFor # item
  BY DEF NotifyOfContentReceived, dialogVars
<1>2. /\ downloadQueue' \in Seq(Work)
      /\ ToSet(downloadQueue') = ToSet(downloadQueue) \cap kept
  BY <1>1, FilterProperties DEF IInv, WorkTypeOK
<1>3. /\ current' \in Work
      /\ current'.item = current.item \/ current.item = item
  BY DEF NotifyOfContentReceived, IInv, WorkTypeOK, Work, States
<1>4. WorkTypeOK'
  BY <1>1, <1>2, <1>3 DEF IInv, WorkTypeOK
<1>5. Wanted \ {item} \subseteq Wanted'
  BY <1>2, <1>3 DEF Wanted
<1>6. QED
  BY <1>1, <1>4, <1>5, StillWanted

\* Whatever else happens.
LEMMA OthersPreserve ==
    ASSUME IInv, Wait \/ NodeConnectionAttemptStatus \/ Cancel \/ OtherThreads \/ UNCHANGED vars
    PROVE  IInv'
<1>1. /\ UNCHANGED <<downloadQueue, current, owed, waitedFor>>
      /\ dialog' => dialog
  BY DEF Wait, NodeConnectionAttemptStatus, Cancel, OtherThreads, vars, engineVars, dialogVars
<1>2. current' \in Work
  BY <1>1 DEF IInv, WorkTypeOK
<1>3. QED
  BY <1>1, <1>2, SameWork

LEMMA NextIInv ==
    ASSUME IInv, [Next]_vars
    PROVE  IInv'
BY UserPreserves, TakePreserves, StagePreserves, GiveUpPreserves, ReceivedPreserves,
   OthersPreserve DEF Next, Run

LEMMA InvariantHolds == Spec => []IInv
<1>1. IInv /\ [Next]_vars => IInv'
  BY NextIInv
<1>2. QED
  BY InitIInv, <1>1, PTL DEF Spec

\* What was asked for and neither received nor reported as missing is in work or
\* in the queue, however much other work pushes in front of it (startRetrieving,
\* run(), notifyOfContentReceived).
THEOREM NothingIsForgotten == Spec => []NoneForgotten
<1>1. IInv => NoneForgotten
  BY DEF IInv
<1>2. QED
  BY <1>1, InvariantHolds, PTL

\* An open dialog waits for an item the engine works on or will (controller.cpp
\* and the two events that close the dialog).
THEOREM DialogIsAlwaysWorkedFor == Spec => []DialogIsWorkedFor
<1>1. IInv => DialogIsWorkedFor
  BY DEF IInv
<1>2. QED
  BY <1>1, InvariantHolds, PTL
=============================================================================
