------------------------------ MODULE Scripts ------------------------------
(***************************************************************************)
(* Tcl scripts: the thread of TclWrapper (tcl/tclWrapper.cpp), the main    *)
(* thread that starts, feeds and stops it (ui/tclPrograms.cpp,             *)
(* ui/tclConsole.cpp, controller.cpp) and the file selection that a script *)
(* asks the main thread for (Controller::getFileName).                     *)
(*                                                                         *)
(* Steps of the two threads interleave.  What is done under the lock of    *)
(* the model is one step.  Slots with a queued connection are events of    *)
(* the main thread, delivered in the order they were posted.  What a       *)
(* script computes is its own business: here it may ask for a file, exit   *)
(* or fail.                                                                *)
(***************************************************************************)
EXTENDS ListFilter, FiniteSets, SequencesExt

CONSTANTS Contents,     \* content that may be received
          Unhandled,    \* ... of a type scripts are not told of
          MaxEvals,     \* bound: how often the user evaluates a script
          MaxContents,  \* bound: how much content is received
          MaxAsks       \* bound: how often scripts ask for a file

ASSUME UnhandledAssumption == Unhandled \subseteq Contents
ASSUME BoundsAssumption == MaxEvals \in Nat /\ MaxContents \in Nat /\ MaxAsks \in Nat

VARIABLES pc,           \* where the thread is
          needsToRun,   \* iNeedsToRun
          window,       \* "open", "closed", or "none" with the safe interpreter
          mainWindowExists,  \* at the head of the loop
          scripts,      \* iScriptQueue
          items,        \* iAddedDataModelItems
          notify,       \* ~notifyQEmpty as read by run()
          blocked,      \* the thread is at the second acquire of getFileName
          events,       \* posted to the main thread
          semaphore,    \* iGetFileNameSemaphore
          dialog,       \* iGetFileNameDialog # NULL
          button,       \* what the button of TclProgramsDialog would do:
                        \* "none" if there is no such dialog
          evals, contents, asks,
          \* For the properties only.
          run,          \* the number of times the thread was started
          told          \* the run that was told to stop after its first line

roundVars == <<mainWindowExists, notify>>
threadVars == <<pc, needsToRun, window, roundVars, run>>
queueVars == <<scripts, items>>
fileVars == <<blocked, semaphore, dialog>>
boundVars == <<evals, contents, asks>>
vars == <<pc, needsToRun, window, scripts, items, mainWindowExists, notify, blocked, events,
           semaphore, dialog, button, evals, contents, asks, run, told>>

\* Nothing runs; start() was called; started() was emitted; the interpreter is
\* made; the program, a script of the console or dataItemChanged is evaluated;
\* the head of the loop; before and after an entry is taken from a queue, with
\* dataItemChanged evaluated; the events of Tcl; everything is torn down;
\* finished() is not emitted yet.
Places == {"idle", "created", "begin", "init", "program", "loop", "script",
           "evaluating", "item", "notifying", "notified", "events", "cleanup",
           "ending"}
Windows == {"open", "closed", "none"}
Event == [kind : {"eval"}, id : Nat \ {0}] \cup [kind : {"file", "started", "finished"}]

TypeOK ==
  /\ pc \in Places
  /\ needsToRun \in BOOLEAN /\ window \in Windows
  /\ mainWindowExists \in BOOLEAN /\ notify \in BOOLEAN
  /\ scripts \in Seq(Nat \ {0}) /\ items \in Seq(Contents)
  /\ events \in Seq(Event)
  /\ blocked \in BOOLEAN /\ dialog \in BOOLEAN /\ semaphore \in 0 .. 1
  /\ button \in {"none", "start", "stop"}
  /\ evals \in 0 .. MaxEvals /\ contents \in 0 .. MaxContents /\ asks \in 0 .. MaxAsks
  /\ run \in Nat /\ told \in Nat

\* QThread::isRunning is false as soon as run() has returned, before finished()
\* is emitted.
IsRunning == pc \notin {"idle", "ending"}

\* A signal reaches the dialog if it is connected when the signal is emitted.
Emitted(signal) ==
  IF button = "none" THEN events ELSE Append(events, [kind |-> signal])

-----------------------------------------------------------------------------
(* The main thread: what the user does.                                     *)

\* A script is evaluated: the dialogs emit evalScript.
EmitEvalScript ==
  /\ evals < MaxEvals
  /\ evals' = evals + 1
  /\ events' = Append(events, [kind |-> "eval", id |-> evals'])

StopScript ==
  /\ needsToRun' = FALSE
  /\ told' = IF pc \in {"created", "begin"} THEN told ELSE run

\* The button of the dialog starts a program or stops the one that runs.
EvalButtonPressed ==
  /\ button # "none"
  /\ \/ ~IsRunning /\ EmitEvalScript /\ UNCHANGED <<needsToRun, told>>
     \/ IsRunning /\ StopScript /\ UNCHANGED <<events, evals>>
  /\ UNCHANGED <<pc, window, roundVars, run, queueVars, fileVars, button, contents, asks>>

\* The console evaluates in whatever program runs.
ConsoleEvalButtonPressed ==
  /\ EmitEvalScript
  /\ UNCHANGED <<threadVars, queueVars, fileVars, button, contents, asks, told>>

DisplayTclProgs ==
  /\ button = "none"
  /\ button' = IF IsRunning THEN "stop" ELSE "start"
  /\ UNCHANGED <<threadVars, queueVars, fileVars, events, boundVars, told>>

\* Events posted to an object are removed when it is deleted.
DialogRejected ==
  /\ button # "none"
  /\ button' = "none"
  /\ events' = Filter(events, {e \in Event : e.kind \notin {"started", "finished"}})
  /\ UNCHANGED <<threadVars, queueVars, fileVars, boundVars, told>>

FileIsChosen_OrNot ==
  /\ dialog
  /\ dialog' = FALSE
  /\ semaphore' \in {semaphore, semaphore + 1}
  /\ UNCHANGED <<threadVars, queueVars, blocked, events, button, boundVars, told>>
FileIsChosen ==
  /\ dialog
  /\ dialog' = FALSE
  /\ semaphore' = semaphore + 1
  /\ UNCHANGED <<threadVars, queueVars, blocked, events, button, boundVars, told>>

-----------------------------------------------------------------------------
(* The main thread: slots.                                                  *)

Deliver(kind) ==
  /\ events # <<>>
  /\ Head(events).kind = kind
  /\ events' = Tail(events)

\* start() waits for a thread that is about to end.
Start ==
  /\ pc = "idle"
  /\ pc' = "created"
  /\ run' = run + 1
  /\ UNCHANGED scripts

Enqueue(script) ==
  /\ IsRunning
  /\ scripts' = Append(scripts, script)
  /\ UNCHANGED <<pc, run>>

EvalScript ==
  /\ Deliver("eval")
  /\ Start \/ Enqueue(Head(events).id)
  /\ UNCHANGED <<needsToRun, window, roundVars, items, fileVars, button, boundVars, told>>

TclProgramStarted ==
  /\ Deliver("started")
  /\ button' = "stop"
  /\ UNCHANGED <<threadVars, queueVars, fileVars, boundVars, told>>

TclProgramStopped ==
  /\ Deliver("finished")
  /\ button' = "start"
  /\ UNCHANGED <<threadVars, queueVars, fileVars, boundVars, told>>

\* The slot runs a dialog with an event loop of its own: other events go on.
GetFileNameSlot ==
  /\ Deliver("file")
  /\ dialog' = TRUE
  /\ UNCHANGED <<threadVars, queueVars, blocked, semaphore, button, boundVars, told>>

NotifyOfContentReceived(content) ==
  /\ contents < MaxContents
  /\ contents' = contents + 1
  /\ IsRunning
  /\ items' = Append(items, content)
  /\ UNCHANGED <<threadVars, scripts, fileVars, events, button, evals, asks, told>>

-----------------------------------------------------------------------------
(* The thread.                                                              *)

At(place) == pc = place /\ ~blocked

ThreadBegins ==
  /\ At("created")
  /\ pc' = "begin"
  /\ events' = Emitted("started")
  /\ UNCHANGED <<needsToRun, window, roundVars, run, queueVars, fileVars, button, boundVars, told>>

RunBegins_NoReset ==
  /\ At("begin")
  /\ pc' = "init"
  /\ UNCHANGED <<needsToRun, window, roundVars, run, queueVars, fileVars, events, button, boundVars,
                 told>>
RunBegins ==
  /\ At("begin")
  /\ pc' = "init"
  /\ needsToRun' = TRUE
  /\ UNCHANGED <<window, roundVars, run, queueVars, fileVars, events, button, boundVars, told>>

\* initInterpreter, initTk and initExtensions.
InitInterpreter ==
  /\ At("init")
  /\ \/ pc' = "program" /\ window' = "open"
     \/ pc' = "cleanup" /\ UNCHANGED window
  /\ UNCHANGED <<needsToRun, roundVars, run, queueVars, fileVars, events, button, boundVars, told>>

\* A script may close its window, as may the user, and exit, with or without one.
MayClose ==
  \/ UNCHANGED window
  \/ window = "open" /\ window' = "closed"
  \/ window' = "none"

\* initProgram evaluates the program, which leaves a window or does not.
ProgramEvaluated ==
  /\ At("program")
  /\ MayClose
  /\ \/ pc' = "loop" /\ mainWindowExists' = TRUE
     \/ pc' = "cleanup" /\ UNCHANGED mainWindowExists
  /\ UNCHANGED <<needsToRun, notify, run, queueVars, fileVars, events, button, boundVars, told>>

\* A script, wherever it is evaluated, opens or saves a file.  Whether it gets a
\* name changes what the script does next and nothing here.
Evaluates == {"program", "evaluating", "notifying", "events"}
ScriptAsksForFile ==
  /\ ~blocked /\ pc \in Evaluates /\ window # "none"
  /\ asks < MaxAsks /\ asks' = asks + 1

\* getFileName takes the semaphore and has the slot give it back.
GetFileName ==
  /\ ScriptAsksForFile
  /\ \/ /\ ~dialog /\ semaphore > 0
        /\ semaphore' = semaphore - 1
        /\ events' = Append(events, [kind |-> "file"])
        /\ blocked' = TRUE
     \/ /\ dialog \/ semaphore = 0
        /\ UNCHANGED <<semaphore, events, blocked>>
  /\ UNCHANGED <<threadVars, queueVars, dialog, button, evals, contents, told>>

\* The second acquire, and the release that follows it.
FileNameIsGot ==
  /\ blocked /\ semaphore > 0
  /\ blocked' = FALSE
  /\ UNCHANGED <<threadVars, queueVars, semaphore, dialog, events, button, boundVars, told>>

\* The head of the loop sees whether there is a window. The program is told to
\* exit, or the queues are looked at: also after the window was closed, once more.
TellToExit ==
  /\ window = "open" /\ ~needsToRun
  /\ window' = "none" /\ needsToRun' = TRUE
  /\ pc' = "events"
  /\ UNCHANGED notify
LookAtQueues ==
  /\ window # "open" \/ needsToRun
  /\ notify' = (items # <<>>)
  /\ pc' = CASE window # "none" /\ scripts # <<>> -> "script"
           [] window # "none" /\ scripts = <<>> /\ notify' /\ needsToRun -> "item"
           [] OTHER -> "events"
  /\ UNCHANGED <<needsToRun, window>>
LoopHead ==
  /\ At("loop")
  /\ mainWindowExists' = (window = "open")
  /\ TellToExit \/ LookAtQueues
  /\ UNCHANGED <<run, queueVars, fileVars, events, button, boundVars, told>>

DequeueScript ==
  /\ At("script")
  /\ scripts # <<>>
  /\ scripts' = Tail(scripts)
  /\ pc' = "evaluating"
  /\ UNCHANGED <<needsToRun, window, roundVars, run, items, fileVars, events, button, boundVars, told>>

\* An evaluation is over, and perhaps the interpreter with it.
EvaluationEnds_Resumes ==
  /\ MayClose
  /\ needsToRun' = (window' # "none")
EvaluationEnds ==
  /\ MayClose
  /\ needsToRun' = (needsToRun /\ window' # "none")

ScriptEvaluated ==
  /\ At("evaluating")
  /\ EvaluationEnds
  /\ pc' = IF notify /\ needsToRun' THEN "item" ELSE "events"
  /\ UNCHANGED <<roundVars, run, queueVars, fileVars, events, button, boundVars, told>>

\* notifyInterpreterOfContentReceived: a dequeue, an evaluation unless the type
\* is not handled, and a look at whether there is more.
DequeueItem ==
  /\ At("item")
  /\ items # <<>>
  /\ items' = Tail(items)
  /\ pc' = IF Head(items) \in Unhandled THEN "notified" ELSE "notifying"
  /\ UNCHANGED <<needsToRun, window, roundVars, run, scripts, fileVars, events, button, boundVars, told>>

ItemEvaluated ==
  /\ At("notifying")
  /\ EvaluationEnds
  /\ pc' = "notified"
  /\ UNCHANGED <<roundVars, run, queueVars, fileVars, events, button, boundVars, told>>

LookAtItems ==
  /\ At("notified")
  /\ pc' = IF items # <<>> THEN "item" ELSE "events"
  /\ UNCHANGED <<needsToRun, window, roundVars, run, queueVars, fileVars, events, button, boundVars,
                 told>>

\* Tcl_DoOneEvent: timers and buttons of the script; the user may close its
\* window.
TclEvents ==
  /\ At("events")
  /\ MayClose
  /\ pc' = IF mainWindowExists THEN "loop" ELSE "cleanup"
  /\ UNCHANGED <<needsToRun, roundVars, run, queueVars, fileVars, events, button, boundVars, told>>

\* Scripts and items that are left in the queues stay there.
Cleanup ==
  /\ At("cleanup")
  /\ window' = "none"
  /\ pc' = "ending"
  /\ UNCHANGED <<needsToRun, roundVars, run, queueVars, fileVars, events, button, boundVars, told>>

ThreadEnds ==
  /\ At("ending")
  /\ pc' = "idle"
  /\ events' = Emitted("finished")
  /\ UNCHANGED <<needsToRun, window, roundVars, run, queueVars, fileVars, button, boundVars, told>>

-----------------------------------------------------------------------------
Init ==
  /\ pc = "idle" /\ needsToRun \in BOOLEAN /\ window = "none"
  /\ mainWindowExists = FALSE /\ notify = FALSE
  /\ scripts = <<>> /\ items = <<>> /\ events = <<>>
  /\ blocked = FALSE /\ semaphore = 1 /\ dialog = FALSE
  /\ button = "none"
  /\ evals = 0 /\ contents = 0 /\ asks = 0
  /\ run = 0 /\ told = 0

User ==
  \/ EvalButtonPressed
  \/ ConsoleEvalButtonPressed
  \/ DisplayTclProgs
  \/ DialogRejected
  \/ FileIsChosen

MainThread ==
  \/ EvalScript
  \/ TclProgramStarted
  \/ TclProgramStopped
  \/ GetFileNameSlot

Thread ==
  \/ ThreadBegins
  \/ RunBegins
  \/ InitInterpreter
  \/ ProgramEvaluated
  \/ FileNameIsGot
  \/ LoopHead
  \/ DequeueScript
  \/ ScriptEvaluated
  \/ DequeueItem
  \/ ItemEvaluated
  \/ LookAtItems
  \/ TclEvents
  \/ Cleanup
  \/ ThreadEnds

Next ==
  \/ User
  \/ MainThread
  \/ Thread
  \/ GetFileName
  \/ \E content \in Contents : NotifyOfContentReceived(content)

Spec == Init /\ [][Next]_vars

\* Both threads go on, what is evaluated ends, and the user closes a file
\* selection some time.
Fairness == WF_vars(Thread) /\ WF_vars(MainThread) /\ WF_vars(FileIsChosen)
FairSpec == Spec /\ Fairness

-----------------------------------------------------------------------------
(* Properties.                                                              *)

\* Neither queue is read without a look at whether there is something in it:
\* dequeue() of an empty QQueue is undefined.  The look was made earlier, under
\* another hold of the lock, and scripts are evaluated in between.
NoEmptyDequeue ==
  /\ pc = "script" => scripts # <<>>
  /\ pc = "item" => items # <<>>

\* While the thread is inside getFileName somebody will release the semaphore,
\* exactly once; otherwise it is free, or no script gets a file ever again.
SomebodyAnswers ==
  LET asked == Cardinality({i \in DOMAIN events : events[i].kind = "file"})
  IN semaphore + asked + (IF dialog THEN 1 ELSE 0) = 1 /\ (semaphore = 0 => blocked)

\* The button of the dialog says what it does: it was right when the dialog was
\* opened, in the middle of a start or an end, and signals of the thread that the
\* dialog missed or gets late leave it right once they are delivered.
ButtonFollowsProgram ==
  button # "none" /\ pc \notin {"created", "ending"}
    /\ (\A i \in DOMAIN events : events[i].kind \notin {"started", "finished"})
  => (button = "stop" <=> IsRunning)

\* A program is told to exit only if the user stopped that very program: what was
\* set for an earlier one, by the user or because its script exited, is gone.
StopHitsItsProgram == [][pc = "loop" /\ window = "open" /\ window' # "open" => told = run]_vars

\* A program that is told to stop ends, whatever is queued for it, if it was past
\* the first line of run() by then.
StopEnds == IsRunning /\ told = run ~> ~IsRunning

\* What the user evaluates while a program runs is evaluated before it ends, or
\* it ends.
ConsoleIsServed ==
  \A id \in 1 .. MaxEvals :
    Contains(scripts, id) /\ IsRunning ~> ~Contains(scripts, id) \/ ~IsRunning

-----------------------------------------------------------------------------
(* What the program does not do.                                            *)

\* tclWrapper.h of notifyInterpreterOfContentReceived: "calls notify procedure
\* inside interpreter.  Interpreter must have notify procedure installed."
NotifiesLiveInterpreter == pc = "notifying" => window # "none"
=============================================================================
