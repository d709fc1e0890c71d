------------------------------- MODULE Content -------------------------------
(***************************************************************************)
(* The content a node keeps for the network: how its tables are filled     *)
(* from what other nodes publish and send (net/protocol_message_parser.cpp *)
(* and the doHandle... methods of the models), how they are cut to size    *)
(* (datamodel/datamodelbase.cpp, Model::timerEvent), and how a peer is     *)
(* told what it missed, its "bucket" (net/connection.cpp, fillBucket of    *)
(* the models).                                                            *)
(*                                                                         *)
(* Every critical section of the lock all threads share is one step. Time  *)
(* is a small clock that the nodes share; 0 stands for null. Content is    *)
(* told apart by its hash; its bytes are the version, the time at which    *)
(* its author published it, and whether its signature fits. The path of    *)
(* the nodes content came by is told in Publishing.                        *)
(***************************************************************************)
EXTENDS Naturals, Sequences, FiniteSets, SequencesExt, FiniteSetsExt

CONSTANTS
    Items,          \* hashes of content
    Kind,           \* what an item is
    Author,         \* the profile an item is signed by; of a profile, itself
    Own,            \* the profile in use, which is this node's own
    Peer,           \* the node at the other end of the connection
    Others,         \* the nodes at the ends of other connections
    NoSender,       \* recvd_from is null
    Bucket,         \* items whose address is in the bucket of Peer
    MessagesFor,    \* private messages with Peer for destination node
    Broken,         \* items that may arrive with a signature that does not fit
    Minute,         \* the time for which a stamp counts as of now
    MaxRows,        \* iMaxRowsToKeep of each table
    BucketLimit,    \* rows of a table that are offered at once
    MaxTime,        \* bound: the clock
    Arrivals        \* bound: how often each item arrives or, when it is the user's
                    \* own, is published; one of these per behaviour

Kinds == {"UserProfile", "BinaryBlob", "ClassifiedAd", "PrivateMessage",
          "UserProfileComment", "DbRecord"}
Senders == Others \cup {Peer}
Of(kind) == {i \in Items : Kind[i] = kind}

ASSUME ContentAssumption ==
    /\ IsFiniteSet(Items)
    /\ Kind \in [Items -> Kinds]
    /\ Author \in [Items -> Of("UserProfile")]
    /\ \A p \in Of("UserProfile") : Author[p] = p
    /\ Own \in Of("UserProfile")
    /\ NoSender \notin Senders
    /\ Bucket \subseteq Items /\ Broken \subseteq Items
    /\ MessagesFor \subseteq Of("PrivateMessage")
    /\ MaxRows \in [Kinds -> Nat]
    /\ {Minute, BucketLimit} \subseteq Nat /\ MaxTime \in Nat \ {0}
    /\ Arrivals \subseteq [Items -> Nat]

VARIABLES
    rows,        \* the tables: item -> row
    count,       \* iCurrentDbTableRowCount of each table
    now,         \* the clock
    mutual,      \* last_mutual_conn_time of Peer in the node table
    link,        \* the connection to Peer
    offered,     \* history: items written to Peer's socket in this bucket fill
    due,         \* history: items this bucket fill has owed Peer since its start
    forwarded,   \* history: what the last step gave to addItemToBePublished
    arriving     \* bound: how often each item may still arrive or be published

tableVars == <<rows, count>>
linkVars == <<mutual, link, offered, due>>
vars == <<tableVars, linkVars, forwarded, now, arriving>>

Times == 0 .. MaxTime

\* A row. Without "data" a profile is only a key and an ad only a hash from a
\* list, of which there may be several copies. "version" and "intact" are what
\* the data are, "verified" is the column issignatureverified of a record.
Row == [data : BOOLEAN, version : Times, stamp : Times, intact : BOOLEAN, verified : BOOLEAN,
        from : Senders \cup {NoSender}, referenced : Times, copies : Nat]
NoRow == [data |-> FALSE, version |-> 0, stamp |-> 0, intact |-> FALSE, verified |-> FALSE,
          from |-> NoSender, referenced |-> 0, copies |-> 0]

Stages == {"OwnNodeGreeting", "PrivateMessage", "UserProfile", "ClassifiedAd", "BinaryBlob",
           "DbRecord", "UserProfileComment", "ClassifiedAd2NdAddr"}

\* Connection: iStageOfBucketFill, iSendQueue and the mutual time of
\* iNodeOfConnectedPeer, which was read from the table at the first greeting.
Link == [up : BOOLEAN, stage : Stages, queue : Seq(Items), mutual : Times]

TypeOK ==
    /\ rows \in [Items -> Row]
    /\ count \in [Kinds -> Nat]
    /\ now \in 1 .. MaxTime
    /\ mutual \in 0 .. now
    /\ link \in Link
    /\ offered \subseteq Items /\ due \subseteq Items
    /\ forwarded \subseteq Items
    /\ arriving \in [Items -> Nat]

NotConnected == [up |-> FALSE, stage |-> "OwnNodeGreeting", queue |-> <<>>, mutual |-> 0]
KeyRow == [NoRow EXCEPT !.referenced = now, !.copies = 1]

Has(i) == rows[i].copies > 0
HasData(i) == rows[i].data
\* Each row of a table once, when there are "copies" of each item.
RowsOf(items, copies) == UNION {{i} \X (1 .. copies[i]) : i \in items}
Copies == [i \in Items |-> rows[i].copies]
NumberOfRows(kind) == Cardinality(RowsOf(Of(kind), Copies))

Init ==
    /\ now = 1
    /\ rows = [i \in Items |-> IF i = Own THEN KeyRow ELSE NoRow]
    /\ count = [k \in Kinds |-> NumberOfRows(k)]
    /\ mutual = 0 /\ link = NotConnected
    /\ offered = {} /\ due = {}
    /\ forwarded = {}
    /\ arriving \in Arrivals

Quiet == forwarded' = {}

Expected(items) ==
    /\ \A i \in items : arriving[i] > 0
    /\ arriving' = [i \in Items |-> arriving[i] - (IF i \in items THEN 1 ELSE 0)]

-----------------------------------------------------------------------------
(***************************************************************************)
(* Writing the tables.                                                     *)
(***************************************************************************)

\* ContentEncryptionModel::insertOrUpdatePublicKey
WithKeyOf(i, table) ==
    [table EXCEPT ![Author[i]] = IF @.copies = 0 THEN KeyRow ELSE [@ EXCEPT !.referenced = now]]

\* What is written of a message.
Stored(m) == [data |-> TRUE, version |-> m.version, stamp |-> m.stamp, intact |-> m.intact,
              verified |-> FALSE, from |-> m.from, referenced |-> now, copies |-> 1]

Insert(m, table) == [table EXCEPT ![m.item] = Stored(m)]

Counted(kind) == count' = [count EXCEPT ![kind] = @ + 1]

\* The model did nothing and says so.
Answer(ok, result) == ok = result /\ Quiet /\ UNCHANGED tableVars

\* The model stored the content. What was published goes on to other nodes.
Forward(m, ok) == ok /\ forwarded' = {i \in {m.item} : m.publish}

\* ProfileModel::doHandlepublishedOrSentProfile. A profile that is new here and
\* of this minute is given the time at which it came.
HandleProfile(m, ok) ==
    LET row == rows[m.item]
        stamp == IF m.stamp + Minute > now THEN now ELSE m.stamp
    IN \/ Has(m.item) /\ m.stamp <= row.stamp /\ Answer(ok, TRUE)
       \/ Has(m.item) /\ m.stamp > row.stamp /\ ~m.intact /\ Answer(ok, FALSE)
       \/ /\ Has(m.item) /\ m.stamp > row.stamp /\ m.intact
          /\ rows' = [rows EXCEPT ![m.item] = [Stored(m) EXCEPT !.referenced = row.referenced]]
          /\ Forward(m, ok) /\ UNCHANGED count
       \/ /\ ~Has(m.item) /\ ~m.intact
          /\ rows' = WithKeyOf(m.item, rows)
          /\ ~ok /\ Quiet /\ UNCHANGED count
       \/ /\ ~Has(m.item) /\ m.intact
          /\ rows' = [rows EXCEPT ![m.item] = [Stored(m) EXCEPT !.stamp = stamp]]
          /\ Forward(m, ok) /\ UNCHANGED count

\* BinaryFileModel::doHandleReceivedFile. A signature that does not fit is not
\* told from success: the answer is still that of the query for the file.
HandleFile(m, ok) ==
    \/ HasData(m.item) /\ Answer(ok, TRUE)
    \/ ~HasData(m.item) /\ ~m.intact /\ Forward(m, ok) /\ UNCHANGED tableVars
    \/ /\ ~HasData(m.item) /\ m.intact
       /\ rows' = Insert(m, WithKeyOf(m.item, rows))
       /\ Counted("BinaryBlob") /\ Forward(m, ok)

\* ClassifiedAdsModel::doHandleReceivedCA. The stamp is the one inside the ad. Here
\* too a signature that does not fit is not told from success.
HandleAd_NotCounted(m, ok) ==
    \/ HasData(m.item) /\ Answer(ok, TRUE)
    \/ /\ ~HasData(m.item) /\ ~m.intact
       /\ rows' = [rows EXCEPT ![m.item] = NoRow]
       /\ Forward(m, ok) /\ UNCHANGED count
    \/ /\ ~HasData(m.item) /\ m.intact
       /\ rows' = Insert([m EXCEPT !.stamp = m.version], WithKeyOf(m.item, rows))
       /\ Forward(m, ok) /\ UNCHANGED count
HandleAd(m, ok) ==
    \/ HasData(m.item) /\ Answer(ok, TRUE)
    \/ /\ ~HasData(m.item) /\ ~m.intact
       /\ rows' = [rows EXCEPT ![m.item] = NoRow]
       /\ Forward(m, ok) /\ UNCHANGED count
    \/ /\ ~HasData(m.item) /\ m.intact
       /\ rows' = Insert([m EXCEPT !.stamp = m.version], WithKeyOf(m.item, rows))
       /\ Counted("ClassifiedAd") /\ Forward(m, ok)

\* PrivMessageModel::doHandlepublishedOrSentPrivMessage. Who signed a message is
\* known to its reader only.
HandleMessage(m, ok) ==
    \/ Has(m.item) /\ Answer(ok, TRUE)
    \/ /\ ~Has(m.item)
       /\ rows' = Insert(m, rows)
       /\ Counted("PrivateMessage") /\ Forward(m, ok)

\* ProfileCommentModel::doHandlepublishedOrSentProfileComment, of a comment that
\* is not encrypted. The rows are counted by the timer.
HandleComment(m, ok) ==
    \/ Has(m.item) /\ Answer(ok, TRUE)
    \/ /\ ~Has(m.item)
       /\ LET known == IF Has(Author[m.item]) THEN rows ELSE WithKeyOf(m.item, rows)
          IN rows' = IF m.intact THEN Insert(m, known) ELSE known
       /\ ok = m.intact /\ forwarded' = {i \in {m.item} : m.publish /\ m.intact}
       /\ UNCHANGED count

\* A record whose author's key is not here is not found bad.
TryVerifyRecord(i, intact) == Has(Author[i]) => intact

IsRecordNew(i) == ~Has(i)

\* The update of an existing row leaves its flag alone.
PersistDbRecordIntoDb(m, isVerified) ==
    [Insert(m, rows) EXCEPT ![m.item].verified = IF IsRecordNew(m.item) THEN isVerified
                                                 ELSE rows[m.item].verified]

\* CaDbRecordModel::doHandlepublishedOrSentRecord
HandleRecord(m, ok) ==
    LET i == m.item
        isChecked == Has(Author[i]) /\ Author[i] # Own
        isVerified == isChecked \/ (Author[i] = Own /\ m.publish)
        isOld == ~IsRecordNew(i) /\ m.stamp <= rows[i].stamp
    IN \/ isOld /\ Answer(ok, TRUE)
       \/ ~isOld /\ isChecked /\ ~TryVerifyRecord(i, m.intact) /\ Answer(ok, FALSE)
       \/ /\ ~isOld /\ (isChecked => TryVerifyRecord(i, m.intact))
          /\ rows' = PersistDbRecordIntoDb(m, isVerified)
          /\ Forward(m, ok) /\ UNCHANGED count

\* The parser's methods, which take the lock for the call of the model, and
\* parseMessage.
ParseContent(m, ok) ==
    \/ Kind[m.item] = "UserProfile" /\ HandleProfile(m, ok)
    \/ Kind[m.item] = "BinaryBlob" /\ HandleFile(m, ok)
    \/ Kind[m.item] = "ClassifiedAd" /\ HandleAd(m, ok)
ParsePrivMsg(m, ok) == Kind[m.item] = "PrivateMessage" /\ HandleMessage(m, ok)
ParseProfileComment(m, ok) == Kind[m.item] = "UserProfileComment" /\ HandleComment(m, ok)
ParseDbRecord(m, ok) == Kind[m.item] = "DbRecord" /\ HandleRecord(m, ok)

ParseMessage(m, ok) ==
    ParseContent(m, ok) \/ ParsePrivMsg(m, ok) \/ ParseProfileComment(m, ok) \/ ParseDbRecord(m, ok)

\* What other nodes have to send: what authors have published up to now, under
\* the stamp the author or, for a profile, an earlier node gave it.
Messages ==
    [item : Items \ {Own}, version : 1 .. now, stamp : 1 .. now, publish : BOOLEAN,
     intact : BOOLEAN, from : Senders]
Plausible(m) ==
    /\ m.stamp = m.version \/ (Kind[m.item] = "UserProfile" /\ m.stamp > m.version
                              /\ m.stamp < m.version + Minute)
    /\ m.intact \/ m.item \in Broken
    /\ m.from = Peer => link.up

\* NetworkListener::dataReceived: when the model did not take it, the connection
\* it came by is aborted.
Receive(m) ==
    /\ Plausible(m)
    /\ Expected({m.item})
    /\ \E ok \in BOOLEAN :
         /\ ParseMessage(m, ok)
         /\ link' = IF m.from = Peer /\ ~ok THEN NotConnected ELSE link
    /\ due' = {i \in due : m.from = Peer => i # m.item}
    /\ UNCHANGED <<mutual, offered, now>>

\* ProtocolMessageParser::parseListOfAdsClassifiedAtHash and caListingBy-
\* ClassificationReceived: ads that are not here are noted by their hash, once
\* more each time, and asked for, which NetRequests does.
ReceiveListOfAds(ads) ==
    LET absent == {i \in ads : ~HasData(i)}
    IN /\ Expected(ads)
       /\ rows' = [i \in Items |-> IF i \notin absent THEN rows[i]
                                  ELSE IF Has(i) THEN [rows[i] EXCEPT !.copies = @ + 1]
                                  ELSE [KeyRow EXCEPT !.stamp = now]]
       /\ count' = [count EXCEPT !["ClassifiedAd"] = @ + Cardinality(absent)]
       /\ Quiet /\ UNCHANGED <<linkVars, now>>

-----------------------------------------------------------------------------
(***************************************************************************)
(* What the user of this node publishes and reads.                         *)
(***************************************************************************)

PublishedNow(i) == [item |-> i, version |-> now, stamp |-> now, intact |-> TRUE, from |-> NoSender]

\* ProfileModel::publishProfile updates the row: who it came from and when it
\* was last referenced stay. There may be no row to update.
PublishProfile(i) ==
    /\ i = Own /\ rows[i].version < now
    /\ rows' = IF ~Has(i) THEN rows
               ELSE [rows EXCEPT ![i] = [@ EXCEPT !.data = TRUE, !.version = now, !.stamp = now,
                                                  !.intact = TRUE]]
    /\ UNCHANGED count

\* BinaryFileModel::publishBinaryFile: the same bytes may be published again.
PublishBinaryFile(i) ==
    /\ Kind[i] = "BinaryBlob"
    /\ rows' = [rows EXCEPT ![i] = [Stored(PublishedNow(i)) EXCEPT !.from = rows[i].from]]
    /\ IF Has(i) THEN UNCHANGED count ELSE Counted("BinaryBlob")

\* ClassifiedAdsModel::publishClassifiedAd
PublishClassifiedAd(i) ==
    /\ Kind[i] = "ClassifiedAd" /\ ~Has(i)
    /\ rows' = Insert(PublishedNow(i), rows)
    /\ Counted("ClassifiedAd")

\* PrivMessageModel::publishPrivMessage
PublishPrivMessage(i) ==
    /\ Kind[i] = "PrivateMessage" /\ ~Has(i)
    /\ rows' = Insert(PublishedNow(i), rows)
    /\ Counted("PrivateMessage")

\* ProfileCommentModel::publishProfileComment
PublishProfileComment(i) ==
    /\ Kind[i] = "UserProfileComment" /\ ~Has(i)
    /\ rows' = Insert(PublishedNow(i), rows)
    /\ UNCHANGED count

\* CaDbRecordModel::publishDbRecord
PublishDbRecord(i) ==
    /\ Kind[i] = "DbRecord"
    /\ Has(i) => rows[i].stamp < now
    /\ rows' = PersistDbRecordIntoDb(PublishedNow(i), TRUE)
    /\ UNCHANGED count

Publish(i) ==
    /\ Author[i] = Own /\ Expected({i})
    /\ \/ PublishProfile(i) \/ PublishBinaryFile(i) \/ PublishClassifiedAd(i)
       \/ PublishPrivMessage(i) \/ PublishProfileComment(i) \/ PublishDbRecord(i)
    /\ forwarded' = {i}
    /\ UNCHANGED <<linkVars, now>>

\* What searchRecords does to a row that is found: a record whose signature was
\* never checked is checked now if the key is there. Of the records found good
\* the flag is not set, because the hashes handed to updateRecordVerification
\* are those of the last bad one.
Searched(i) ==
    IF ~rows[i].verified /\ ~TryVerifyRecord(i, rows[i].intact)
    THEN [rows EXCEPT ![i] = NoRow]
    ELSE [rows EXCEPT ![i].referenced = now]

SearchRecord(i) ==
    /\ Has(i)
    /\ rows' = Searched(i)
    /\ due' = {j \in due : rows'[j] # NoRow}
    /\ Quiet /\ UNCHANGED <<count, mutual, link, offered, now, arriving>>

-----------------------------------------------------------------------------
(***************************************************************************)
(* The timer. Between the sections the lock is given up, so that each of   *)
(* them is a step; a section that comes too early finds nothing to do.     *)
(***************************************************************************)

\* The rows the time of the oldest is looked for in: ProfileModel's own version
\* leaves out those whose private key is here, but then deletes any row of that
\* time.
Asked(kind) == Of(kind) \ {Own}

\* Rows left of a table after n times one of those referenced longest ago was
\* deleted.
AreLeft(kind, left, n) ==
    LET gone == {i \in Of(kind) : left[i] < rows[i].copies}
        total == Cardinality(RowsOf(Of(kind), Copies))
    IN /\ \A i \in Of(kind) : left[i] <= rows[i].copies
       /\ \A i \in gone, j \in Asked(kind) : left[j] > 0 => rows[i].referenced <= rows[j].referenced
       /\ Own \in gone =>
             \E j \in Asked(kind) : Has(j) /\ rows[j].referenced = rows[Own].referenced
       /\ Cardinality(RowsOf(Of(kind), left))
             = total - Min({n, Cardinality(RowsOf(gone \cup Asked(kind), Copies))})

\* ModelBase::truncateDataTableToMaxRows. The count goes down with each attempt.
Cut(kind, total) ==
    /\ total > MaxRows[kind]
    /\ \E left \in [Of(kind) -> 0 .. NumberOfRows(kind)] :
         /\ AreLeft(kind, left, total - MaxRows[kind])
         /\ rows' = [i \in Items |-> IF i \notin Of(kind) THEN rows[i]
                                    ELSE IF left[i] = 0 THEN NoRow
                                    ELSE [rows[i] EXCEPT !.copies = left[i]]]
    /\ count' = [count EXCEPT ![kind] = MaxRows[kind]]
    /\ due' = {j \in due : rows'[j] # NoRow}

\* Model::timerEvent. Profiles are counted before. So are comments, but the table
\* cut after that is the one of profiles again, which finds nothing to do.
TruncateProfiles == Cut("UserProfile", NumberOfRows("UserProfile"))
TruncateCounted == \E kind \in {"ClassifiedAd", "PrivateMessage", "BinaryBlob", "DbRecord"} :
                      Cut(kind, count[kind])
CountComments ==
    /\ count' = [count EXCEPT !["UserProfileComment"] = NumberOfRows("UserProfileComment")]
    /\ UNCHANGED <<rows, due>>

HouseKeeping ==
    /\ TruncateProfiles \/ TruncateCounted \/ CountComments
    /\ Quiet /\ UNCHANGED <<mutual, link, offered, now, arriving>>

\* Its first section: the nodes connected now were in contact now.
TimerEvent ==
    /\ link.up
    /\ mutual' = now
    /\ Quiet /\ UNCHANGED <<tableVars, link, offered, due, now, arriving>>

-----------------------------------------------------------------------------
(***************************************************************************)
(* The bucket of the peer.                                                 *)
(***************************************************************************)

\* What fillBucket of each model asks the database for. Stamps of another node's
\* clock that are five minutes ahead do not occur here; a profile without data
\* has no stamp.
IsNewForPeer(i) == Has(i) /\ rows[i].stamp > link.mutual
NotFromPeer(i) == i \in Bucket /\ rows[i].from # Peer

ProfileWanted(i) == HasData(i) /\ IsNewForPeer(i) /\ NotFromPeer(i)
FileWanted(i) == IsNewForPeer(i) /\ NotFromPeer(i)
AdWanted(i) == HasData(i) /\ IsNewForPeer(i) /\ NotFromPeer(i)
MessageWanted(i) == IsNewForPeer(i) /\ (NotFromPeer(i) \/ i \in MessagesFor)
CommentWanted(i) == IsNewForPeer(i) /\ NotFromPeer(i)
RecordWanted(i) == IsNewForPeer(i) /\ NotFromPeer(i)

Wanted(i) ==
    \/ Kind[i] = "UserProfile" /\ ProfileWanted(i)
    \/ Kind[i] = "BinaryBlob" /\ FileWanted(i)
    \/ Kind[i] = "ClassifiedAd" /\ AdWanted(i)
    \/ Kind[i] = "PrivateMessage" /\ MessageWanted(i)
    \/ Kind[i] = "UserProfileComment" /\ CommentWanted(i)
    \/ Kind[i] = "DbRecord" /\ RecordWanted(i)

\* The select: newest first, as many as are allowed.
IsSelection(queue, wanted, limit) ==
    /\ ToSet(queue) \subseteq wanted /\ IsInjective(queue)
    /\ Len(queue) = Min({limit, Cardinality(wanted)})
    /\ \A k \in 1 .. Len(queue) : \A l \in k + 1 .. Len(queue) :
         rows[queue[k]].stamp >= rows[queue[l]].stamp
    /\ \A i \in wanted \ ToSet(queue), k \in 1 .. Len(queue) : rows[queue[k]].stamp >= rows[i].stamp

Selections(kind) ==
    LET wanted == {i \in Of(kind) : Wanted(i)}
        limit == IF kind = "DbRecord" THEN Cardinality(Items) ELSE BucketLimit
    IN {q \in UNION {[1 .. n -> wanted] : n \in 0 .. Cardinality(wanted)} :
          IsSelection(q, wanted, limit)}

\* Connection::checkForBucketFill, which looks while nothing waits to be sent. A
\* stage is named by the table that was asked in it, the last two by the next.
NextStage_NotSet ==
    [OwnNodeGreeting |-> "PrivateMessage", PrivateMessage |-> "UserProfile",
     UserProfile |-> "ClassifiedAd", ClassifiedAd |-> "BinaryBlob", BinaryBlob |-> "DbRecord",
     DbRecord |-> "DbRecord", UserProfileComment |-> "ClassifiedAd2NdAddr",
     ClassifiedAd2NdAddr |-> "OwnNodeGreeting"]
NextStage ==
    [OwnNodeGreeting |-> "PrivateMessage", PrivateMessage |-> "UserProfile",
     UserProfile |-> "ClassifiedAd", ClassifiedAd |-> "BinaryBlob", BinaryBlob |-> "DbRecord",
     DbRecord |-> "UserProfileComment", UserProfileComment |-> "ClassifiedAd2NdAddr",
     ClassifiedAd2NdAddr |-> "OwnNodeGreeting"]
AskedIn_NoComments ==
    [OwnNodeGreeting |-> "PrivateMessage", PrivateMessage |-> "UserProfile",
     UserProfile |-> "ClassifiedAd", ClassifiedAd |-> "BinaryBlob",
     BinaryBlob |-> "DbRecord", DbRecord |-> "DbRecord"]
AskedIn ==
    [OwnNodeGreeting |-> "PrivateMessage", PrivateMessage |-> "UserProfile",
     UserProfile |-> "ClassifiedAd", ClassifiedAd |-> "BinaryBlob",
     BinaryBlob |-> "UserProfileComment", DbRecord |-> "DbRecord"]

CanFill == link.up /\ link.queue = <<>>

Fill ==
    /\ CanFill /\ link.stage \in DOMAIN AskedIn
    /\ \E queue \in Selections(AskedIn[link.stage]) :
         link' = [link EXCEPT !.stage = NextStage[@], !.queue = queue]
    /\ IF link.stage = "OwnNodeGreeting"
       THEN offered' = {} /\ due' = {i \in Items : Wanted(i)}
       ELSE UNCHANGED <<offered, due>>
    /\ Quiet /\ UNCHANGED <<tableVars, mutual, now, arriving>>

EndFill ==
    /\ CanFill /\ link.stage = "UserProfileComment"
    /\ link' = [link EXCEPT !.stage = NextStage[@], !.mutual = now]
    /\ mutual' = now
    /\ Quiet /\ UNCHANGED <<tableVars, offered, due, now, arriving>>

StartAgain ==
    /\ CanFill /\ link.stage = "ClassifiedAd2NdAddr"
    /\ link' = [link EXCEPT !.stage = NextStage[@]]
    /\ Quiet /\ UNCHANGED <<tableVars, mutual, offered, due, now, arriving>>

\* NodeModel::getNextItemToSend, with the socket's write. What is gone since it was
\* queued is skipped.
SendNext ==
    /\ link.up /\ link.queue # <<>>
    /\ LET i == Head(link.queue)
           sent == IF Kind[i] = "DbRecord" THEN Has(i) /\ Searched(i)[i] # NoRow ELSE HasData(i)
       IN /\ offered' = offered \cup {j \in {i} : sent}
          /\ rows' = IF Kind[i] = "DbRecord" /\ Has(i) THEN Searched(i) ELSE rows
    /\ due' = {j \in due : rows'[j] # NoRow}
    /\ link' = [link EXCEPT !.queue = Tail(@)]
    /\ Quiet /\ UNCHANGED <<count, mutual, now, arriving>>

-----------------------------------------------------------------------------
(***************************************************************************)
(* Everything else.                                                        *)
(***************************************************************************)

\* The first greeting of Peer: nodeGreetingReceived reads the node's row.
Connect ==
    /\ ~link.up
    /\ link' = [NotConnected EXCEPT !.up = TRUE, !.mutual = mutual]
    /\ offered' = {} /\ due' = {}
    /\ Quiet /\ UNCHANGED <<tableVars, mutual, now, arriving>>

Disconnect ==
    /\ link.up /\ link' = NotConnected
    /\ offered' = {} /\ due' = {}
    /\ Quiet /\ UNCHANGED <<tableVars, mutual, now, arriving>>

\* The models count their rows when they are made.
Restart ==
    /\ link' = NotConnected /\ offered' = {} /\ due' = {}
    /\ count' = [k \in Kinds |-> NumberOfRows(k)]
    /\ Quiet /\ UNCHANGED <<rows, mutual, now, arriving>>

Tick == now < MaxTime /\ now' = now + 1 /\ Quiet /\ UNCHANGED <<tableVars, linkVars, arriving>>

ReceiveSome == \E m \in Messages : Receive(m)
ReceiveSomeList == \E ads \in SUBSET Of("ClassifiedAd") : ads # {} /\ ReceiveListOfAds(ads)
PublishSome == \E i \in Items : Publish(i)
SearchSomeRecord == \E i \in Of("DbRecord") : SearchRecord(i)

NextWithoutTimer ==
    \/ ReceiveSome \/ ReceiveSomeList
    \/ PublishSome \/ SearchSomeRecord
    \/ HouseKeeping
    \/ Fill \/ EndFill \/ StartAgain \/ SendNext
    \/ Connect \/ Disconnect \/ Restart \/ Tick

Next == NextWithoutTimer \/ TimerEvent

Spec == Init /\ [][Next]_vars
FairSpec == Spec /\ WF_vars(Fill) /\ WF_vars(EndFill) /\ WF_vars(SendNext)

-----------------------------------------------------------------------------
(***************************************************************************)
(* Properties.                                                             *)
(***************************************************************************)

\* The number the timer compares with the limit never falls behind the table, in
\* whatever order content and lists of ads arrive, are thrown out and counted
\* again: no table of these grows past its limit unnoticed.
CountCovers ==
    \A kind \in {"ClassifiedAd", "PrivateMessage", "BinaryBlob"} : count[kind] >= NumberOfRows(kind)

\* Nothing circulates: what a node hands on to be published is in its table, and
\* is newer than what it had there before. (Ads and files whose signature does
\* not fit, and an own profile that was deleted, are handed on without being
\* stored; they are then not found when they are to be sent.)
ForwardedIsNew ==
    [][\A i \in forwarded' :
          IF rows'[i] = NoRow
          THEN i = Own \/ (i \in Broken /\ Kind[i] \in {"ClassifiedAd", "BinaryBlob"})
          ELSE rows'[i].data /\ (HasData(i) => rows'[i].stamp > rows[i].stamp)]_vars

\* Of content anybody can check nothing is stored whose signature does not fit,
\* and no record by an author whose key is here, except by the user.
StoredIsChecked ==
    [][\A i \in Items : rows'[i].data /\ ~rows'[i].intact /\ rows[i] # rows'[i] =>
          \/ Kind[i] = "PrivateMessage"
          \/ /\ Kind[i] = "DbRecord"
             /\ (rows[i].data /\ ~rows[i].intact) \/ ~Has(Author[i]) \/ Author[i] = Own]_vars

\* When the time of the last mutual connection is recorded at the end of a fill,
\* all that was new for the peer at its start was sent, though the tables are
\* asked at different times and change in between.
FillIsComplete ==
    [][link.stage = "UserProfileComment" /\ link'.stage = "ClassifiedAd2NdAddr" =>
          \A i \in due : Wanted(i) => i \in offered]_vars

\* A fill ends, unless the connection does.
FillEnds == link.up /\ link.stage # "ClassifiedAd2NdAddr"
               ~> ~link.up \/ link.stage = "ClassifiedAd2NdAddr"

\* "we've sent profiles, ads and binary files ... set mutual connect time of the
\* node so we won't send the same stuff again next time": nothing the recorded
\* time keeps from being sent is unsent.
RecordedWasSent ==
    [][mutual' # mutual => \A i \in Items : Wanted(i) => i \in offered]_vars

\* "If we for some odd reason do not have profile now but have a record in data
\* storage and it is verified to be ok then lets not discard the old record":
\* one that cannot be verified does not replace it.
VerifiedIsNotDiscarded ==
    [][\A i \in Of("DbRecord") : rows[i].verified /\ rows[i].intact /\ Has(i)' =>
          rows'[i].intact]_vars
=============================================================================
