# A TLA+ model of classified-ads

classified-ads is a peer-to-peer program: every node stores a part of everyone's
profiles, ads, comments, files and database records, tells the nodes around the
hash of an item about it and asks them for it. Nodes talk over TLS connections,
one thread each. This directory models the parts of the program that decide what
becomes of an item and of a connection, checks them with TLC on small instances
and proves their invariants with TLAPS for instances of any size. Paths below are
relative to `src/`.

## Inventory

All components live in one process and share `Model` (`datamodel/model.cpp`), an
object with one recursive mutex: `Model::lock()`. The main thread runs the Qt
event loop, the timers of the engines and the slots; the connector, every
connection and the interpreter of scripts have a thread of their own. Signals to
another thread are queued.

| Component | State | Operations | Hard because | Correct when |
|---|---|---|---|---|
| Publishing (`net/publishingengine.cpp`, the `publish` table in `datamodel/model.cpp`) | rows with bangpath and time last tried; work item; candidates; nodes that connected or failed | `run` every 5 s, `publishToNode`, `nodeConnectionAttemptStatus`; `addItemToBePublished`, `nextItemToPublish`, `addNodeToPublishedItem` | reports arrive late and out of order; two rows share a hash; loops shorten what they walk | nobody is asked twice, no candidate is waited for in vain, every item is finished |
| Life of connections (`net/connection.cpp`, `net/networklistener.cpp`, `datamodel/model.cpp`) | list of connections; phase of each thread, state, socket, flags | open, handshake, identify, read, close, delete | told to close by five others; duplicates; a mutex that can be lost | list and threads agree, every attempt is reported once, who is told to close does |
| Packet reader (`Connection::performRead`, `readLoop`) | position in the stream, packet being read, patience | `readyRead`, one loop turn | stream cut anywhere, events processed within a read | packets arrive whole and in order, a stalled read ends |
| Connector (`net/networkconnectorengine.cpp`) | addresses to connect, wish list | one turn every 800 ms, refresh of the list, wishes, neighbours | own thread; sources compete for one list | the neighbours in the ring are connected, failed nodes rest |
| Node model (`datamodel/nodemodel.cpp`) | node table, wish list, hot addresses, recently failed | ring queries, insert and update, truncation, close the oldest | two queries around the ring's end; limits; caches | nodes around a hash are the nearest ones, each once |
| Request executor (`datamodel/netrequestexecutor.cpp`) | queue of requests with a state each | `run`, one function per type of request, status slot, content received | mutex released while walking over the queue | each request is told to reachable nodes only, and ends |
| Retrieval (`net/retrievalengine.cpp`, `controller.cpp`) | download queue, item in work, candidates, the dialog that waits | `startRetrieving`, `run`, status slot, content received | priority items pre-empt, late content | what is asked for is fetched or given up, the dialog waits for work in progress |
| Retrieval of records (`net/dbretrievalengine.cpp`) | searches and whom each was sent to, candidates | `startRetrieving`, `run`, status slot | connection and candidate race | each node that ought to be asked is |
| Content (content models, `datamodel/datamodelbase.cpp`, `Model::timerEvent`) | a table and a counter per type | arrive, publish, count, truncate | each handler counts itself | no table grows past its limit unnoticed |
| Bucket fill (`Connection::checkForBucketFill`) | stage, queue, time of the last mutual connection | next stage, send, end | tables change between the stages | what was new is offered, the fill ends |
| Voice calls (`net/voicecallengine.cpp`, `call/audiomixer.cpp`) | calls and their states, queue of messages, audio streams | place, accept, reject, close, lost connection, a frame captured, a frame received | two ends, messages that are not sent, late reports; streams and queues in two lists | both ends agree, a call closed ends, no echo |
| Protocol (`net/protocol_message_*.cpp`) | - | format, parse, push on | order is all that tells what a byte is | read as it was meant; not sent back |
| Scripts (`tcl/`, `ui/tclPrograms.cpp`, `ui/tclConsole.cpp`) | interpreter, queues of scripts and content, flags, file dialog | start, evaluate, stop, notify, choose a file | two threads, flags shared by programs, a semaphore between threads | each stop hits its program, nobody waits for ever |
| Commands of scripts (`tcl/tclCallbacks.cpp`) | the call in progress | publish and read items | profile and file read outside one locked section | what is signed is signed by the sender named |
| Keys (`datamodel/contentencryptionmodel.cpp`, `ui/passwd_dialog.cpp`) | public keys, private keys by password, password in force | generate, delete, change password, sign, encrypt, open | the password in force may fit only some keys | private data stays that of its profile |
| Profiles and contacts (`controller.cpp`, `FrontWidget.cpp`, `datamodel/profilemodel.cpp`, `datamodel/contactlistingmodel.cpp`) | profile in use and profile shown, contacts, private data | select, create, delete, edit, revert, publish | the window follows by a queued event | contacts are stored under their profile |
| Trust tree (`datamodel/trusttreemodel.cpp`) | who is trusted, by whom, how far | offer a list, profile received, recalculate | changed in place, in the order of a map | trust is what the lists say |
| Lists (`datamodel/profilecommentlistingmodel.cpp`, `datamodel/privmsgsearchmodel.cpp`) | rows, timer | search, notification, update on idle | four sources, two notifications, switching profiles | complete and without doubles |

`PROJECT.json` lists the components with what is left out of each, and the hazards
with the line at which each bites. What the repository's own unit tests (`testca/`)
cover is sequential: conversions, storage, hashes.

## Modules

| Module | What it is | Extends |
|---|---|---|
| `Publishing` | the publish table, `PublishingEngine::run` one loop iteration at a time, the wish list, the connector, connections as far as they matter to the engine, the queued reports, publish requests | |
| `PacketReader` | `performRead` and `readLoop` over a stream of bytes | |
| `Connections` | the life of connections, the mutex, the reports, the shutdown | `ThisNode` |
| `Hosts` | what an engine sees of the network: wish list, connections, reports that are queued | |
| `NetRequests` | the request queue and its executor; implements `RequestService` | `Hosts` |
| `RequestService` | what the queue promises to those who use it | |
| `Retrieval` | the retrieval engine and the controller's dialog | `Hosts` |
| `DbRetrieval` | the retrieval engine of database records | `Hosts` |
| `Content` | six tables, their counters and truncation, the fill of one peer's bucket | |
| `Calls` | two or more voice call engines and what is between them | |
| `Mixer` | the streams and queues of frames of one node | |
| `Wire`, `Flooding` | the messages cell by cell; one copy of a message on its way over nodes | |
| `Scripts` | the interpreter's thread and the main thread | |
| `ThisNode` | the nodes there are, which of them this one is, how many connections it may have | |
| `NodeTable`, `Connector` | the node table and its ring queries; the connector's loop | `ThisNode`, each the one before |
| `Keys`, `TrustTree`, `Profiles` | operations on keys and on the trust tree as functions of a state; the user's profiles, dialogs and window | each the one before |
| `Items` | publishing and reading of comments, messages, ads, files and records | `Profiles` |
| `Lists`, `Commands` | the lists of the window; the commands of a script | `Items` |
| `Desk` | the steps of `Profiles`, `Items`, `Lists` and `Commands` as one specification, with the queue of events | `Lists`, `Commands` |
| `MC...` | instances for TLC. `MCRetrievals` joins `Retrieval` and `DbRetrieval`; `MCDesk` gives `Desk` the plans its run follows | |
| `ListFilter` | taking entries out of a list | |
| `PublishingProofs`, `PacketReaderProofs`, `ConnectionsProofs`, `NetRequestsProofs`, `RetrievalProofs`, `DeskProofs`, `ContentProofs` | theorems checked with TLAPS | the module named; `PacketReaderProofs` also `Mixer` and `Calls`, `ConnectionsProofs` also `Connector`, `DeskProofs` also `Scripts` |
| `SequenceLemmas` | what the proofs need to know of sequences used as lists | `ListFilter` |

How they fit together: `Connections` and `PacketReader` say how one connection
comes, reads and goes. The engines (`Publishing`, `NetRequests`, `Retrieval`,
`DbRetrieval`) see connections through reports and the wish list only, which `Hosts`
gives in a few actions: whatever `Connections` does to one of them is an open, a
refused or a closed connection there, and the same reports. `Connector` is the other
side of the wish list. `Wire` is what travels, `Content` and `Items` are where it ends
up, and `Profiles`, `Lists` and `Commands` are the people and programs who ask for it.

A definition `Op_Something` is a wrong version of `Op` that a plausible slip would
give; `PROJECT.json` says which property tells the two apart. `map` there gives the
source lines of every definition.

### Publishing

`publish` is the table, keyed by item type and hash; an ad has two rows. `pc` says
where `run()` is. In `"timer"` it is not running and the main thread may deliver a
report or execute a request; the operator `Unlocked` names the places where the
mutex is free, and only there do the other threads act. Each loop of `run()` has an
action that begins it, one for an iteration and one that ends it; `publishToNode`
and what it calls run inside an iteration. A select by hash alone finds any row of
that hash. The list that `getNodesAfterHash` returns is arbitrary within
`NodesAfter` and may contain this node and duplicates, as the code's two queries
around the end of the ring do. The hash that `publishToNode` reads after freeing it
is either still there or not, a choice of the model. `Tick` happens only while
`run()` is not running because time is read only where a row is picked.

Left out: private messages, which bypass the table; collisions of the low-order bits
that stand for a node in a bangpath; a peer other than the one that was wanted (in
`Connections`); duplicate detection and the limit on connections, which here are
cases of a connection closing at any time; the order of requests in the queue.

### PacketReader

`sent` is what the peer wrote, `arrived` and `consumed` count bytes. Bytes arrive only
while the thread processes events, from `readLoop` or inside `performRead` after a
packet was handed over; `calls` is the stack of `performRead`. Nothing is assumed of
where the stream is cut. Whether the parser accepts a packet is open, except that it
refuses fewer than four bytes (`protocol_message_parser.cpp:59`). The socket's
`read` returning less than what is available, which Qt does not do, is left out.

### Connections

`phase` is how far `Connection::run` is. A section between `lock()` and `unlock()` is
one step; `lock` names the thread that holds the mutex outside of one, which happens
in two ways: `socketReady` returns without releasing it, and the connector thread is
terminated inside a section (constant `CutsShort`). A step that needs the mutex is
then disabled for everybody else, for ever. The peer of a socket is fixed when it is
opened and known to the program only after the handshake. A step of a thread whose
object was deleted is undefined in the program and absent from the model
(`At`). `SlowClose` says whether a connection may need more than the thirty seconds
the shutdown waits.

Left out: the recently-failed list and the black list (they only influence what is
connected next), requests dropped with a connection (in `Publishing`), reads of the
uninitialised `iSocket` of a connection that has just been added, the connector being
terminated after listing a connection and before starting its thread, races inside
the operations of `QList`, and the loops of the packet reader, which are
`PacketReader`'s subject: here a connection leaves its read loop once told to.

### Hosts and the engines

`Hosts` has the wish list (a set: any of it may be served next), the connections by
id, each attempted, open, ended or closed, and the queue of reports to the main
thread. A wish for a node in `Dropped` disappears without a report, as
`tryServeWishListItem` lets it. An engine extends the module and conjoins what its
own slots do. `NetRequests` keeps the queue as a sequence of entries and `run()` as a
walk by index, `pc` and `cursor`, with a step from one release of the mutex to the
next; kinds of request handled alike have one name. `late` are the requests put in
behind the walk. `Service` is `RequestService` with the mapping that takes the queue's
unfinished entries for the pending requests: the executor implements it step by step.

In `Retrieval` the clock is one flag, `due`; the item in work, the queue in front of
it, the candidates and the dialog (`controller.cpp`,
`iHashOfObjectBeingWaitedFor`) are its state. `owed` remembers what was asked for and
neither came nor was reported missing. `DbRetrieval` keeps a search with the nodes it
was sent to; `chosen` and `told` are the record of which nodes it ought to be sent to
and was.

### Content

One step is one critical section. Content is a hash with a version, a time of
publishing and whether its signature fits; each handler (`HandleProfile`, `HandleAd`,
...) has the branches of its `doHandlepublishedOrSent...` with their effect on table and
counter. An ad or a file whose signature does not fit is answered as success
(`binaryfilemodel.cpp:441` and 547): it is not stored, yet handed on, and the connection
stays. A fill is a stage, the queue of offers and `due`, what was new for the peer
when it began. A table keeps one row in the run.

### Calls

Each node has its calls, the queue `iCallDataPendingProcessing`, its audio streams
and the reports that are queued; between two nodes there is a sequence of messages,
lost when a connection closes. `excused` holds the calls for which the code knows it
gives no promise: a request that was not sent as there was no connection, and a connection
that came back before the report of its loss was handled. Nor does `EndsAgree` ask that
the caller opens a call whose key begins with NUL, which it reads as no key.

`Mixer` is what `Calls` knows as a set of streams: `mixedStreams` and `buffers` are
`iStreams` and `iAudioDataBuffer`, two lists that share their indexes, and `heard` is what
the last step emitted, whose frame to whom. The two lists of indexes in the code follow
from `mixedStreams`. A frame is where it is from, its number and how loud it is; frames of
peers come in any order, some never, some twice. Calls open and end at any time,
also without the microphone, which only the first row of the list of calls brings.
`MCCalls` has both; in a behaviour one is at work.

### Wire and Flooding

A message is a sequence of cells that say what they are bytes of, with the sizes
the code uses, so that positions are the code's and a field read at the wrong place
or in the wrong order is seen. Payloads are short. `Parse` gives the set of what the
models may be handed: empty for a refusal. A message may be cut at any cell. `Flooding`
sends each kind of message, and published content on from node to node.

### Scripts

`pc` is where the interpreter's thread is, `run` counts programs, `window` is the
top-level widget whose existence keeps the loop alive. It may be closed with the interpreter
still there, and then the queues are served once more; or both go, and `iNeedsToRun` is reset
if that was in an evaluation. Slots posted to the main
thread are `events`. A script may ask for a file, exit, or fail, at any evaluation.

### NodeTable and Connector

A node is a position on a ring of numbers. The queries are written as the two SQL
queries they are, with their conditions, order and limit, and compared with the
distance on the ring. `Connector` has a turn of the loop as one step and the refresh
of its list before it; `TurnsPerList` bounds the turns between two refreshes as the
fifty seconds of the code do. Time stands still in the table, but the ten minutes
after which a failed node is tried again pass (`UpdateTimes`).

### Desk

`Keys`, `TrustTree`, `Profiles` and `Items` are written as functions of a record, `desk`
(keys, profiles, private data, the password in force, profile in use and profile shown,
contacts, tree and queued events), because the handlers of the window call several
operations in a row and all of them count. A private key is the password it was stored with.
`spoiled`, `behind` and `patched` are kept for the properties and mark where the code gives
no promise. `spoiled`: a profile opened with a password that does not fit, or stored while
the window still shows another. `behind`: a profile of which the tree remembers a list and
the database has since got another; the tree is told but does not read it, or, when the user
publishes, is not told. `patched`: a tree that could not be recomputed, as the profile in
use could not be read. `TrustIsCurrent` compares the tree with the lists in the database,
but for `behind` and for arrivals whose event waits (`Untold`). `Lists` repeats the actions
of `Profiles` that also change a list with that change conjoined. `Commands` has the points
at which a command gives the lock back as steps: the sender is named before the lock is
taken, a file is found and read in two sections. `Desk` is all of it at once, with no bound
on what anybody does; `MCDesk` follows three plans through it. Where the tree is built in
loops over levels, `TrustTree` has recursive functions over the level and the position in a
list.

Left out of the desk: searches for text, ads on display, the table of stored programs,
SQL errors, and that a dialog keeps a reference to a profile that may be freed.

## Runs

| Run | Shows |
|---|---|
| `Publishing_safety` | `AskedOnce`, `RowsAgree`, `WorkItemHasRow` for one ad (two rows), two nodes and this one among the candidates, duplicates, an ad added anew or forwarded at any time, a connection that comes and goes |
| `Publishing_finishes` | `NoOrphanCandidate`: no lost wake-up; `FinishesWork` under fairness, with incoming connections from the candidate |
| `PacketReader_runs` | `DeliveredInOrder`, `PendingReadEnds`, `ClosesUnlessSpinning` for three packets of four or five bytes cut anywhere |
| `Connections_life` | `ReportsAreComplete`, `NoDanglingConnection`, `ClosesWhenTold`, `ShutdownEnds` for two connections with every peer, both ways to lose the mutex and shutdown at any time |
| `NetRequests` | `NoneOverlooked`, `NoOrphanRequest`, `ImplementsService` (a refinement) and `EveryRequestEnds` for two requests at a time of four kinds, two nodes, a list of candidates with duplicates and this node |
| `Retrievals` | `NoneForgotten`, `DialogIsWorkedFor`, `EveryItemEnds` for a file and a comment with and without a known node and priority; `KeptInformed` for two searches |
| `Content` | `CountCovers`, `FillIsComplete`, `FillEnds` for ten items of all six types, of which two arrive or are published in one behaviour, in any order with truncation and a fill |
| `Calls` | `EndsAgree`, `HangUpEnds` for two operators who call each other, four actions of theirs and one lost connection; `NobodyHearsThemselves`, `FillsInSilenceOnly` for a mixer and two peers whose calls open three times |
| `Flooding` | `UnderstoodAsMeant` for every kind of message, `AncestorsAreSpared` on ways over up to seven nodes |
| `Scripts` | `SomebodyAnswers`, `StopHitsItsProgram`, `StopEnds` with three evaluations, two arrivals of content and one file dialog |
| `Connector` | `RingIsSearched`, `FailedNodesRest`, `NeighboursAreConnected` on a ring of three nodes of which one never answers, with a seed host and a wish |
| `Desk` | `ContactsArePersonal`, `TrustIsCurrent`, `SignedByTheirSender`, `FileIsItsOwners`, `ListsAreComplete` in three plans: managing profiles, reading while switching, a program publishing while switching |

### Where the code does not do what it says

The runs above are of properties the code has. These it does not have; the modules
state them and TLC refutes them in seconds. Where no `.cfg` of its own is named,
the one of the run is used with the property as the only one.

| Property | Module, `.cfg` | The code | Its comment |
|---|---|---|---|
| `FinishesWork` | `MCPublishing`, `Publishing_finishes.cfg` with `Unroutable = {n1}`, `MaxTime = 1`, `ConnIds = {1, 2}` and `MaxIncoming = 0` | a candidate without a usable address is waited for for ever (`net/networkconnectorengine.cpp:139`) | `net/publishingengine.cpp:59` "if unsuccessful, move to next host" |
| `NoOrphanCandidate` | `MCPublishing`, `Publishing_safety.cfg` | a node that the list of candidates names twice, as the two queries of `getNodesAfterHash` can, is taken out once when it has connected (`net/publishingengine.cpp:334`), and the note that it has is cleared; for the other entry nothing is under way any more | `:59` "if unsuccessful, move to next host" |
| `BangPathMeansSent` | `MCPublishing`, `Publishing_bangpath.cfg` | a node is in the path once the request is queued, which may be dropped (`net/publishingengine.cpp:264`) | `:53` "upon receiving, update the bangpath" |
| `SecondaryAddressKept` | `MCPublishing`, `Publishing_safety.cfg` | the second address of an ad is bound to its first (`datamodel/model.cpp:1263`) | `datamodel/model.cpp:446` "some object types have actually 2 addresses" |
| `StalledReadIsDropped` | `PacketReader`, `PacketReader_runs.cfg` | a read that went past its packet is never given up (`net/connection.cpp:434`) | `net/connection.h:326` "do drop connection to that peer" |
| `LockIsReleased` | `MCConnections`, `Connections_life.cfg` with `SPECIFICATION Spec`, `Nodes = {n1}`, `OwnAddress = {n1}`, `CutsShort = FALSE` and `ConnIds = {1}` | an early return keeps the mutex (`net/connection.cpp:287`) | `net/connection.cpp:186` "must first lock(), then release()" |
| `NoDuplicateConnection` | `MCConnections`, `Connections_duplicates.cfg` | the third connection is compared with the first only (`datamodel/model.cpp:1005`) | `:983` "check that we don't have duplicate connection" |
| `NoDanglingConnection` | `MCConnections`, `Connections_shutdown.cfg` | connections that close slowly are deleted twice (`datamodel/model.cpp:270`) | `controller.cpp:453` "now safe to delete listener" |
| `PollGoesToItsNode` | `MCNetRequests`, `NetRequests.cfg` | when the profile's node is not connected it is only put on the wish list, and nothing sends it the poll once it is (`datamodel/netrequestexecutor.cpp:344`) | `:333` "naturally we send the poll there" |
| `IncludedInOlder` | `MCRetrievals`, `Retrievals.cfg` with `DbQueries <- MC_Queries` | the test that decides which of two searches is included in the other compares time spans the wrong way round (`datamodel/cadbrecord.cpp:164`) | `net/dbretrievalengine.cpp:134` "search conditions are already included in at least one query" |
| `VerifiedIsNotDiscarded` | `MCContent`, `Content.cfg` with `SPECIFICATION Spec` and `Arrivals <- MCRecordTwice` | an update replaces a verified record by one that cannot be verified (`datamodel/cadbrecordmodel.cpp:659`) | `datamodel/cadbrecordmodel.cpp:499` "lets not discard the old record" |
| `RecordedWasSent` | `MCContent`, `Content.cfg` | the time of the last mutual connection is set by a timer, before a fill has ended (`datamodel/model.cpp:1491`) | `net/connection.cpp:687` |
| `NotifiesLiveInterpreter` | `MCScripts`, `Scripts.cfg` | an interpreter is notified that a script of the same queue has deleted (`tcl/tclWrapper.cpp:282`) | `tcl/tclWrapper.h:894` "calls notify procedure inside interpreter" |
| `OpenCallIsHeard`, `ClosedStaysClosed` | `MCCalls`, `Calls.cfg` | the microphone is read with one row in a table only (`net/voicecallengine.cpp:198`); a call closed while its acceptance is under way opens again (`:164`) | |
| `OneToOneIsHeard` | `MCCalls`, `Calls.cfg` with `SPECIFICATION AudioSpec` | a frame that finds the microphone's queue full does not set the mixer going (`call/audiomixer.cpp:178`), so that nothing is mixed again; the queue outlives its call (`:240`) | `call/audiomixer.h:41` "input type  2 becomes output type 1 and that's it" |
| `ReceivedListsAreFollowed` | `MCDesk`, `Desk.cfg` | the flag that asks for a fresh list is set in a copy of the item (`datamodel/trusttreemodel.cpp:75`), so that the newer list of a profile whose list was read is not read until a profile is put in use | `datamodel/trusttreemodel.h:146` "profile needs to be updated from db" |
| `QueuesAreOrdered` | `Mixer` | a frame put at the tail does not count as seen, and the one it overtook is put behind it (`call/audiomixer.cpp:156`) | `:139` "to put it into queue into right position" |

Further definitions that hold on the instances of the runs and that no run lists, since
others say more: the type invariants; `CursorInRange`, `AskedIsRecorded`, `FramingKept`,
`ReadsFromRightNode` and `ToldOnce`, which are proved; `WaitsForSomebody`,
`CandidatesAreItsOwn`, `OneQueryPerReport`, `ForwardedIsNew`, `StoredIsChecked`, `NoneMissed`, `OpenMeansAccepted`, `MixerFollowsCalls`, `CutIsRefused`, `NoEmptyDequeue`,
`ButtonFollowsProgram`, `ConsoleIsServed`.

### Bounds

* `Publishing`: two nodes suffice for the paths through the loops: one that is
  connected, fails, succeeds or is already in the bangpath while the other is
  somewhere else. `HostsEnough` is 2 instead of 5, so that a bangpath becomes full.
  `RetryInterval` is 0: a tick stands for more than ten minutes. In
  `Publishing_finishes` three connections are enough for the connector never to wait
  for a free `ConnIds`: at most two go out to a node at a time and one comes in. One
  tick makes a row that was tried due again; in `Publishing_safety` the clock stands still
  and each row is tried once per arrival.
* `PacketReader`: with a four-byte length and packets of four and five bytes, all of the
  boundary cases occur: less than a length, exactly one, the rest of a packet with
  less or more than the size of the next. `MaxPatience` is 1 instead of 1000: how many
  turns it takes is immaterial to the properties.
* `Connections`: two connections can be each other's duplicates, exceed a limit of
  one, and hold the mutex while the other wants it. Duplicates that stay need three.
* `NetRequests`: two requests are enough for one to be put in or taken out while the
  other is looked at. One connection at a time, but any number one after the other;
  two connections to one node are the same to the executor. One report waiting is
  enough for it to be about the past.
* `Retrievals`: two items can push each other out any number of times; two connections
  let one candidate fail while the other answers. Two searches of one collection may
  include each other.
* `Content`: tables of one row are truncated by each second arrival, `BucketLimit`
  cuts no offer short, and the clock runs up to `Minute`, so that a stamp may be from the
  past, the future, or as good as now.
* `Calls`: four actions place two calls, and accept and close them, or place one and
  close it at both ends; both directions at a time are the case of a glare.
* `Mixer`: queues of three frames of which more than one waits have every place for a
  frame to be put and let the microphone's get full; a third call opens after the queues
  of a conversation were left behind.
* `Flooding`: the bangpath has room for five nodes, seven are needed to fill it and go
  on. The limits of the parser on lengths are scaled to the cells of a message.
* `Scripts`: three evaluations make a second one arrive within the first and a third
  one after the end. `MaxAsks` of one makes a dialog open when a program is stopped.
* `Connector`: a third node, which never answers, competes with the neighbour for the
  list, the connections and the rows; `MaxOpen` of two makes the limit bite.
  `TurnsPerList` is not smaller than the part of the list that the ring gives, as
  sixty turns for ten entries are not in the code.
* `Desk`: two own profiles and two passwords make every combination of profile in use,
  profile shown and password in force; four others make a chain of trust longer than
  `KHowManyLevelsDeep` from one profile and not from the other. `Steps` bounds what the
  user does in each plan. One database lacks a profile that is trusted and may arrive.

`CHECK_DEADLOCK FALSE` is set where the thing modelled ends: a connection that has
closed, a node that was shut down, a bound on requests, calls, messages, evaluations or
acts of the user that is used up. The other runs check for deadlock.

### Fairness

* `Publishing`: weak fairness of `run()`, which is called by a timer and does not block;
  strong fairness of the event loop, the connector and the handshakes, because `run()`
  disables them again and again, for as long as it holds the main thread or the mutex,
  but always comes back to where they can act. A handshake is given up after ten
  seconds. No peer, user or clock is assumed to do anything.
* `PacketReader`: weak fairness of the connection's own thread. Bytes need not come.
* `Connections`: weak fairness of each connection's thread and of the main thread during
  shutdown. The mutex is never taken from a thread that still runs, so that weak
  fairness is enough. `ShutdownEnds` and `ClosesWhenTold` except the states in which
  the mutex is lost, and only those.
* `NetRequests`, `Retrieval`, `DbRetrieval`: weak fairness of the engine's timer, and time
  passes: a request, an item or a search that is left alone gets old. `DbRetrieval` also
  has its reports delivered. Nothing is assumed of the network.
* `Content`: weak fairness of the connection's thread in its stages and in sending.
* `Calls`: the main thread handles its events, connections deliver or close. Operators
  and new connections owe nothing. The mixer is driven by the microphone and has no fairness.
* `Scripts`: weak fairness of both threads and of the user who has a file dialog in front
  of them. Users owe nothing else.
* `Connector`: the loop turns; attempts end, those of a host that is up succeed in the
  end (strong fairness, since another host may be at its turn); the timer and the
  event loop of the main thread go on.

## Proofs

The safety properties that the runs of `Publishing`, `PacketReader`, `Connections`,
`Connector`, `NetRequests`, `Retrieval` (not `DbRetrieval`), `Mixer`, `Scripts`, `Content` and
`Desk` check are theorems, for every value of the constants that satisfies the assumptions in the modules, and
so is the refinement of `RequestService`. TLC checked the inductive invariants' parts
first. Two theorems have a hypothesis of their own beyond that, `NoRepeats` and
`BucketFits`, and `NothingDangles` a third; what each stands for is said below.

* `PublishingProofs`. `AskedOnce` alone is not inductive. A node is not asked again
  because it is in the work item's bangpath; that path comes from the table
  (`AskedIsRecorded`); it is read by hash alone, from whichever row comes first, which is
  right as the rows of a hash never differ (`RowsAgree`), and it is not lost while the
  engine has the item since the row exists (`WorkItemHasRow`). `Inv` is the conjunction
  of these with the types and `CursorInRange`.
  `NobodyIsWaitedForInVain` is about the second half of the module: what is under way
  about a candidate turns from a wish into an attempt, a connection, a report in the queue and at last
  a note in one of two sets, both of which `run()` clears at the end of the loop that
  looks into it. `CandidatesAreWatched` says for each value of `pc` which set may still be
  relied upon for which candidates: those the loop has not come to. The theorem
  assumes `NoRepeats`: no list of nodes names a node twice. The code gives that as long as
  it knows more nodes than it asks for, as the two queries do not overlap then; when
  they do, the property fails, see above.
* `PacketReaderProofs`. The invariant distinguishes three situations: between packets,
  in a packet, and with a packet handed over; in each it relates the position in the stream to
  the number of packets handed over. `performRead` is on the stack at most once.
  An over-read leaves the second situation with more bytes than expected, in which
  nothing is handed over any more: delivery stays correct, and the connection is stuck.
  The second part of the module is about `Mixer`, for any peers, calls and lengths of queues. A
  queue outlives its stream, and the streams behind it move up, so that the frames in a queue need
  not be from where its stream is from. `QueuesOK` says whose they may be (`Origins`): those
  of the stream at that index, and only in the first queue, while there is no microphone,
  frames of this node left behind; nothing is mixed then, as no frame is captured. The loop
  that mixes is a recursive function of how often it turned (`MixedExists`, `MixingTurns`), and each
  turn keeps `QueuesOK` and the rule who hears whom. The loudest and the second come from the
  community modules' `Max` and `Min`, which are shown to exist in a bounded set. That the
  microphone's queue gets full in silence only follows as a captured frame is the one thing
  that fills it: with a peer's frame beside it the loop turns at least once, and a turn takes a
  frame of each queue.
  The last part is about `Calls`. `EndsAgree` speaks of states with nothing under way only and
  is not inductive: the next step may start anything. `CallInv`, for each call that is not excused, says
  what is under way while the ends differ. An end without a connection (`EndInv`) is going
  to give up the call: the report of the loss waits among its events, or the end that follows from
  it in the inbox, and no offer that waits survives that. Between two ends that are
  connected (`LinkInv`) the last word counts: if the caller has no call, each offer to
  the callee is followed by its end (`Answered`); if one has the call, or has it open, and the other
  has not, the message that will make them agree is in the inbox or on its way
  (`Coming`), or the end with the call has a report of a lost connection still to handle. An inbox
  and the way to it are followed as two sequences, what is on its way behind what has come;
  taking an entry, moving one and sending one each have a lemma about any two sequences
  (`TakenFromInbox`, `MovedInInbox`, `SentToInbox`). Most steps leave a call
  `Undisturbed`; the others are the cases of `processCallData`, `acceptCall` and
  `closeCall`. `CallsStructure` is what does not depend on the order of things: an entry of a node's
  own is an offer of its own call, an inbox with entries has an event that processes it. The proof
  assumes of the constants that a call has two different parties, and that no node is
  the event's name.
* `ConnectionsProofs`. Each thread goes through its phases in one direction; what it has
  reported, whether it knows its node and whether it is listed follow from the phase.
  `NothingDangles` assumes `~SlowClose`; `Connections_shutdown.cfg` shows that it
  has to.
  The second half of the module is about `Connector`. `RingStaysSearched` is about the two
  queries of `getNodesAfterHash` and `getNodesBeforeHash`: what one SQL statement with order and
  limit returns is described by how many rows are ahead of one (`LimitProperties`); the
  second query starts over at the other end of the ring, so that its rows are farther
  away than all of the first (`TwoQueriesFindNearest`). It holds of any table, whatever the
  connector does. `FailedNodesAlwaysRest` needs that a node is taken from the hot
  addresses in the step that puts it among the failed (`ConnectorInv`), and that each refill
  leaves out the failed ones.
* `NetRequestsProofs`. The queue is a sequence of members of `GoodEntry`, so that taking
  entries out needs no argument; the indexes matter to `NewOnesAreLate` only, which the
  walk keeps since it goes down, and what is taken out behind it moves nothing new in front. An
  entry is turned from its own node to the nodes around the hash once, before anybody was
  told, from which `ToldOnce` follows, and each node it is told to leaves `around` in the same
  step. The first part of the module is about `Hosts`: a report that is coming goes on
  to come until the event is taken. `ServiceIsImplemented` goes through the steps once
  more: of the entries that are unfinished before a step, those that are not afterwards
  are what the service's step takes out.
* `RetrievalProofs`. `owed` and the dialog both refer to `Wanted`, the item in work and the
  queue; the two properties and the types of these variables are inductive together. Items
  are put in front, taken from anywhere and filtered; `SequenceLemmas` says what
  remains.
* `DeskProofs`. None of the five properties of `Desk` is inductive. Contacts are also
  held where the window shows them, under the profile shown; that is the profile in use
  only if no selection waits in the queue, and otherwise the last selection that waits is the
  profile in use (`LastIsInUse`). A list that lacks something has a row still to be
  read while its timer runs, or an event that waits will tell it. `DeskInv` says both,
  `ScriptInv` what a command has read before it gave the lock back. The handlers call a
  dozen operations one in the other, so that most lemmas are about those: "Changes" names the
  fields of the state an operation may change, "Keeps" and "Handled" what it preserves. A
  private profile made by the program must be new, which is `KeysToCome`.
  `TrustStaysCurrent` is about the three nested loops that hand trust down the tree.
  `Grown` says what any part of a loop may do to the tree: add profiles of lower levels that
  a trusted profile names, and nothing else; `WithinLevels` that a profile is within a
  number of levels exactly if a path of that length leads to it. With both, a list that
  changes is followed from where it is (`ReceivedFollows`). That these are the lists in the
  database is `ReadAsStored`: a list that was read is still the stored one unless its profile is
  `behind`, and a profile whose list was not read cannot be read, or has an event waiting.
  `RecalculatedIsRead` shows that a recalculation keeps this and reads what has become
  readable, `SameWithin` that the levels depend on nothing else. For the profiles that are
  `behind` the tree may differ from one built anew.
  The last part is about `Scripts`. `SomebodyAnswers` is a number that stays one: a permit is
  in the semaphore, in a call under way, or with the dialog. `StopHitsItsProgram` follows from
  `ToldToExit`: what a flag that was set means depends on where the thread is, and each
  program clears it as its first action.
* `ContentProofs`. The number of rows is the size of a set with an element for each copy,
  and each step is compared with the one before by inclusion: `Handles` is what every handler of
  every type of content does to a table and its counter, `Thinned` what searches,
  sending and truncation do. `FillsAreComplete` rests on `DueIsOffered`: what was due at the
  start stays wanted, since no row's stamp is from the future (`StampsPast`) and a row loses
  its content only when it goes (`KeptHaveData`), and once its type was asked for it is queued or
  sent. The theorem assumes `BucketFits`: of no type are there more items in the bucket than one
  select gives, a thousand in the code; the rest is never offered.

A filter of a list, `removeAt` in a loop, is a recursive function over positions in
`ListFilter`. The library's induction takes an operator as parameter, which the provers
cannot instantiate; `UpToInduction` in `SequenceLemmas` is induction over the positions
of a list for a set instead, from the least number that is not in it (`LeastNumber`). Operators of the
library that fold or select (`SelectSeq`, `FoldLeft`) cannot be expanded in a proof, so that
`CandidatesAreItsOwn`, `OneQueryPerReport` and the full types of `Retrieval`, which rest on
its way of merging candidates, are model-checked only.

Only model-checked besides: the liveness properties, since the prover has neither
fairness nor `ENABLED`; `KeptInformed` of `DbRetrieval`, whose report goes through the library's
folds; `UnderstoodAsMeant` and `AncestorsAreSpared` of `Flooding`, which compare what a
formatter and a parser do cell by cell for fourteen kinds of messages.

## Plan

1. Done: all the modules above, each with a run. The safety properties of the runs of
   `Publishing`, `PacketReader`, `Connections`, `Connector`, `NetRequests` with its refinement,
   `Retrieval`, `Calls`, `Mixer`, `Scripts`, `Content` and `Desk` are proved; those of `DbRetrieval`
   and `Flooding` are checked.
2. Proofs to come: `AncestorsAreSpared` of `Flooding`, for which a path must survive being
   written and read; `KeptInformed` of `DbRetrieval`, which needs lemmas about folds.
3. Compositions to come: the sending half of a connection joined to `PacketReader`, and two
   nodes' `Connections`, each of which may close the other's duplicate.

## Not modelled, and why

* `util/`: JSON, translation of strings, arithmetic on 160 bits. Conversions that unit
  tests cover; hashes are model values or positions on a ring here.
* Samples, Opus, the ring tone and the sound card: signal processing. Which streams exist
  is in `Calls`, which frame goes to whom in `Mixer`.
* Full text search, settings, the table of stored programs, listings by attribute:
  each is one SQL statement for one event, with no state in between. Searches of the
  network (`datamodel/searchmodel.cpp`) do keep state, the identifier of the search and
  the list its answers are appended to; they are left for later. A search of the own
  tables keeps the identifier of the one before (`:76`), so that late answers to that
  are still appended to its results.
* OpenSSL, Qt and SQLite are taken at their word; SQL statements succeed.
* DNS names (`performDNSLookup`), broadcasts, the black list of addresses and the polling for
  private messages of the connector: they add candidates and attempts to what the
  connector may do anyway.
* Reads of freed or uninitialised memory are choices of the model where the outcome can
  go on (`Publishing`), and left out where the program ends.
