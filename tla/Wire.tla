-------------------------------- MODULE Wire --------------------------------
(***************************************************************************)
(* The messages of the protocol: what ProtocolMessageFormatter writes for  *)
(* each of them and what ProtocolMessageParser makes of the bytes.         *)
(*                                                                         *)
(* A message is a sequence of cells, one per byte.  A cell says what it is *)
(* a byte of: <<"u32", n, 3>> is the third byte of the number n in network *)
(* byte order.  A parser that looks for a number where there is none reads *)
(* Garbage, as it would find any number there.  Numbers take 4 bytes and   *)
(* hashes 20, as in the code, so that positions are the code's; the        *)
(* lengths of payloads are small.                                          *)
(*                                                                         *)
(* A parser's result is a set: empty when the message is refused, upon     *)
(* which the connection is aborted, else the one item that is handed to    *)
(* the models.                                                             *)
(***************************************************************************)
EXTENDS Naturals, Sequences

CONSTANTS MaxItem,      \* scaled: longest content of an item, 2 MB
          MaxSignature, \* scaled: longest signature of a comment, 5000
          MaxPhrase,    \* scaled: longest phrase of a search, 20 kB
          MinItem,      \* scaled: messages with content are longer, 51 bytes
          Latest        \* the latest time a comment may claim: ten minutes ahead

Garbage == 1000000
MaxTime == 2000000

-----------------------------------------------------------------------------
(* Names of the message types. *)

ContentSends == {"KProfileSend", "KBinaryFileSend", "KClassifiedAdSend"}
ContentPublishes == {"KProfilePublish", "KBinaryFilePublish", "KClassifiedAdPublish"}
PrivMsgs == {"KPrivMessagePublish", "KPrivMessageSend"}
Comments == {"KProfileCommentPublish", "KProfileCommentSend"}
DbRecords == {"KDbRecordPublish", "KDbRecordSend"}
Publishes == ContentPublishes \cup {"KPrivMessagePublish", "KProfileCommentPublish", "KDbRecordPublish"}
Calls == {"KVoiceCallStart", "KVoiceCallEnd"}

\* The item types one node asks another for, with the message that asks.
AskedBy ==
    [NodeGreeting |-> "KNodesAroundHash", UserProfile |-> "KProfileAtHash",
     BinaryBlob |-> "KBinaryFileAtHash", ClassifiedAd |-> "KClassifiedAdAtHash",
     PrivateMessage |-> "KPrivMessagesAtHash",
     PrivateMessagesForProfile |-> "KPrivMessagesForProfile",
     UserProfileCommentsForProfile |-> "KProfileCommentAtHash",
     UserProfileComment |-> "KSingleProfileCommentAtHash"]
TimedAsked == {"PrivateMessagesForProfile", "UserProfileCommentsForProfile"}

\* The parser's side of the same: the request it queues, and how many items.
RequestTypeOf ==
    [KNodesAroundHash |-> "NodeGreeting", KProfileAtHash |-> "UserProfile",
     KBinaryFileAtHash |-> "BinaryBlob", KClassifiedAdAtHash |-> "ClassifiedAd",
     KPrivMessagesAtHash |-> "PrivateMessage",
     KPrivMessagesForProfile |-> "PrivateMessagesForProfile",
     KProfileCommentAtHash |-> "UserProfileCommentsForProfile",
     KSingleProfileCommentAtHash |-> "UserProfileComment"]
Requests == DOMAIN RequestTypeOf

-----------------------------------------------------------------------------
(* Bytes. *)

Cells(kind, value, n) == [i \in 1..n |-> <<kind, value, i>>]
Byte(b) == Cells("byte", b, 1)
U32(n) == Cells("u32", n, 4)
HashBytes(h) == Cells("hash", h, 20)
Payload(d, n) == Cells("data", d, n)
Blob(bytes) == U32(Len(bytes)) \o bytes

\* The first five words of a bangpath; missing ones are zero.
PathBytes(path) ==
    LET Word(i) == U32(IF i <= Len(path) THEN path[i] ELSE 0)
    IN  Word(1) \o Word(2) \o Word(3) \o Word(4) \o Word(5)

\* Are the cells after position p those of one whole value of this kind?
Aligned(w, p, kind, n) ==
    \A i \in 1..n : w[p + i][1] = kind /\ w[p + i][3] = i

\* The number at position p; the default when the message ends before it.
HasU32(w, p) == Len(w) >= p + 4
UintFromPosition(w, p, default) ==
    IF ~HasU32(w, p) THEN default
    ELSE IF Aligned(w, p, "u32", 4) THEN w[p + 1][2] ELSE Garbage

HasHash(w, p) == Len(w) >= p + 20
HashFromPosition(w, p) ==
    IF Aligned(w, p, "hash", 20) THEN w[p + 1][2] ELSE Garbage

\* The n bytes after position p, or what there is of them.
Mid(w, p, n) == SubSeq(w, p + 1, IF p + n < Len(w) THEN p + n ELSE Len(w))

\* The bangpath of a published item, to which its sender is added.
PathFromPosition(w, p, from) ==
    LET path == SelectSeq([i \in 1..5 |-> UintFromPosition(w, p + 4 * (i - 1), 0)],
                          LAMBDA word : word > 0)
    IN  IF Len(path) < 5 THEN Append(path, from) ELSE path

ItemTypeOf(w) == w[1][2]
\* Where the fields begin that a publish and a send have in common.
Common(w) == IF ItemTypeOf(w) \in Publishes THEN 21 ELSE 1
WithPath(item, w, from) ==
    IF ItemTypeOf(w) \in Publishes
    THEN [item EXCEPT !.path = PathFromPosition(w, 1, from)] ELSE item

-----------------------------------------------------------------------------
(* The formatter. *)

Head5(m) == Byte(m.t) \o (IF m.t \in Publishes THEN PathBytes(m.path) ELSE <<>>)

DoContentSendOrPublish(m) ==
    Head5(m) \o HashBytes(m.hash) \o Blob(m.content) \o Blob(m.signature)
    \o Blob(m.key) \o Byte(m.flags) \o U32(m.time)

PrivMsgBody(m) ==
    HashBytes(m.hash) \o Blob(m.content) \o Blob(m.signature) \o U32(m.time)
    \o HashBytes(m.destination) \o HashBytes(m.recipient)
PrivMsgPublish(m) == Byte("KPrivMessagePublish") \o PathBytes(m.path) \o PrivMsgBody(m)
PrivMsgSend(m) == Byte("KPrivMessageSend") \o PrivMsgBody(m)

DoCommentSendOrPublish_TimeFirst(m) ==
    Head5(m) \o HashBytes(m.hash) \o HashBytes(m.profile) \o Blob(m.content)
    \o Blob(m.signature) \o U32(m.time) \o U32(m.flags)
DoCommentSendOrPublish(m) ==
    Head5(m) \o HashBytes(m.hash) \o HashBytes(m.profile) \o Blob(m.content)
    \o Blob(m.signature) \o U32(m.flags) \o U32(m.time)

\* A record that is not signed is not sent.
DoDbRecordPublishOrSend(m) ==
    IF m.signature = <<>> THEN <<>>
    ELSE Head5(m) \o HashBytes(m.hash) \o HashBytes(m.collection) \o HashBytes(m.sender)
         \o Blob(m.phrase) \o Blob(m.number) \o Blob(m.data) \o Blob(m.signature)
         \o U32(m.time) \o U32(m.flags)

RequestFor(m) ==
    Byte(AskedBy[m.asked]) \o HashBytes(m.hash)
    \o (IF m.asked \in TimedAsked THEN U32(m.time) ELSE <<>>)

RequestForAdsClassified(m) ==
    Byte("KAdsClassifiedAtHash") \o HashBytes(m.hash) \o U32(m.start) \o U32(m.end)

ReplyToAdsClassified(m) ==
    LET Article(i) == HashBytes(m.ads[i].hash) \o U32(m.ads[i].time)
        Articles[i \in 0..Len(m.ads)] == IF i = 0 THEN <<>> ELSE Articles[i - 1] \o Article(i)
    IN  Byte("KListOfAdsClassifiedAtHash") \o HashBytes(m.hash) \o U32(Len(m.ads))
        \o Articles[Len(m.ads)]

\* A phrase that is too long is replaced by one that is not.
SearchSend(m) ==
    LET phrase == IF Len(m.phrase) > MaxPhrase THEN Payload("bananas", 1) ELSE m.phrase
    IN  Byte("KSearchRequest") \o U32(m.flags) \o U32(m.id) \o Blob(phrase)

SearchResultsSend(m) ==
    IF m.json = <<>> THEN <<>> ELSE Byte("KSearchResults") \o Blob(m.json)
DbSearchTerms(m) ==
    IF m.json = <<>> THEN <<>> ELSE Byte("KDbRecordSearch") \o Blob(m.json)

VoiceCallMessage(m) == Byte(m.t) \o Blob(m.json) \o Blob(m.signature)
VoiceCallRtData(m) ==
    Byte("KRealtimeData") \o Byte("KRTDataAudioSubtype") \o U32(m.id) \o U32(m.seq)
    \o Blob(m.audio)

\* The length of a greeting counts its five leading bytes too.
NodeGreeting(n) == Byte("KProtocolVersion") \o U32(n.size + 5) \o Payload(n.node, n.size)
NodeGreetings(m) ==
    LET Greetings[i \in 0..Len(m.nodes)] ==
            IF i = 0 THEN <<>> ELSE Greetings[i - 1] \o NodeGreeting(m.nodes[i])
    IN  Greetings[Len(m.nodes)]
RandomNumbers(m) == Byte("KRandomNumbersPacket") \o Byte(m.size + 2) \o Payload(0, m.size)

Format(m) ==
    CASE m.t \in ContentSends \cup ContentPublishes -> DoContentSendOrPublish(m)
      [] m.t = "KPrivMessagePublish" -> PrivMsgPublish(m)
      [] m.t = "KPrivMessageSend" -> PrivMsgSend(m)
      [] m.t \in Comments -> DoCommentSendOrPublish(m)
      [] m.t \in DbRecords -> DoDbRecordPublishOrSend(m)
      [] m.t \in Requests -> RequestFor(m)
      [] m.t = "KAdsClassifiedAtHash" -> RequestForAdsClassified(m)
      [] m.t = "KListOfAdsClassifiedAtHash" -> ReplyToAdsClassified(m)
      [] m.t = "KSearchRequest" -> SearchSend(m)
      [] m.t = "KSearchResults" -> SearchResultsSend(m)
      [] m.t = "KDbRecordSearch" -> DbSearchTerms(m)
      [] m.t \in Calls -> VoiceCallMessage(m)
      [] m.t = "KRealtimeData" -> VoiceCallRtData(m)
      [] m.t = "KProtocolVersion" -> NodeGreetings(m)
      [] m.t = "KRandomNumbersPacket" -> RandomNumbers(m)

-----------------------------------------------------------------------------
(* The parser: one operator per method, positions and guards as they are.  *)

\* Profiles, files and ads.  The time stamp may be missing.
ParseContentPublishedOrSent(w, from) ==
    LET start == Common(w)
        contentLen == UintFromPosition(w, start + 20, 0)
        signatureAt == start + 24 + contentLen
        signatureLen == UintFromPosition(w, signatureAt, 0)
        keyAt == signatureAt + 4 + signatureLen
        keyLen == UintFromPosition(w, keyAt, 0)
        flagsAt == keyAt + 4 + keyLen
    IN  IF /\ Len(w) > MinItem
           /\ HasHash(w, start)
           /\ contentLen <= MaxItem
           /\ Len(w) >= signatureAt + 2
           /\ Len(w) >= keyAt + 4
           /\ Len(w) >= flagsAt + 1
        THEN {WithPath([t |-> ItemTypeOf(w), path |-> <<>>,
                        hash |-> HashFromPosition(w, start),
                        content |-> Mid(w, start + 24, contentLen),
                        signature |-> Mid(w, signatureAt + 4, signatureLen),
                        key |-> Mid(w, keyAt + 4, keyLen),
                        flags |-> w[flagsAt + 1][2],
                        time |-> UintFromPosition(w, flagsAt + 1, 0)], w, from)}
        ELSE {}

ParsePrivMsgPublishedOrSent(w, from) ==
    LET start == Common(w)
        contentLen == UintFromPosition(w, start + 20, 0)
        signatureAt == start + 24 + contentLen
        signatureLen == UintFromPosition(w, signatureAt, 0)
        timeAt == signatureAt + 4 + signatureLen
    IN  IF /\ Len(w) > MinItem
           /\ HasHash(w, start)
           /\ contentLen <= MaxItem
           /\ Len(w) >= signatureAt + 2
           /\ Len(w) >= timeAt + 4
           /\ HasHash(w, timeAt + 4)
           /\ HasHash(w, timeAt + 24)
        THEN {WithPath([t |-> ItemTypeOf(w), path |-> <<>>,
                        hash |-> HashFromPosition(w, start),
                        content |-> Mid(w, start + 24, contentLen),
                        signature |-> Mid(w, signatureAt + 4, signatureLen),
                        time |-> UintFromPosition(w, timeAt, 0),
                        destination |-> HashFromPosition(w, timeAt + 4),
                        recipient |-> HashFromPosition(w, timeAt + 24)], w, from)}
        ELSE {}

ParseProfileCommentPublishedOrSent(w, from) ==
    LET start == Common(w)
        contentLen == UintFromPosition(w, start + 40, 0)
        signatureAt == start + 44 + contentLen
        signatureLen == UintFromPosition(w, signatureAt, 0)
        flagsAt == signatureAt + 4 + signatureLen
    IN  IF /\ HasHash(w, start)
           /\ HasHash(w, start + 20)
           /\ contentLen <= MaxItem
           /\ Len(w) >= signatureAt
           /\ signatureLen <= MaxSignature
           /\ Len(w) >= flagsAt
           /\ HasU32(w, flagsAt + 4)
           /\ UintFromPosition(w, flagsAt + 4, 0) <= Latest
        THEN {WithPath([t |-> ItemTypeOf(w), path |-> <<>>,
                        hash |-> HashFromPosition(w, start),
                        profile |-> HashFromPosition(w, start + 20),
                        content |-> Mid(w, start + 44, contentLen),
                        signature |-> Mid(w, signatureAt + 4, signatureLen),
                        flags |-> UintFromPosition(w, flagsAt, 0),
                        time |-> UintFromPosition(w, flagsAt + 4, 0)], w, from)}
        ELSE {}

\* Records have four payloads; a null collection and no signature are refused.
ParseDbRecord(w, from) ==
    LET start == Common(w)
        At(p) == p + 4 + UintFromPosition(w, p, 0)
        phraseAt == start + 60
        numberAt == At(phraseAt)
        dataAt == At(numberAt)
        signatureAt == At(dataAt)
        timeAt == At(signatureAt)
        PayloadAt(p) == Mid(w, p + 4, UintFromPosition(w, p, 0))
    IN  IF /\ Len(w) >= 85
           /\ \A p \in {start, start + 20, start + 40} : HasHash(w, p)
           /\ HashFromPosition(w, start + 20) # 0
           /\ \A p \in {phraseAt, numberAt, dataAt} : HasU32(w, p) /\ Len(w) >= At(p)
           /\ HasU32(w, signatureAt)
           /\ UintFromPosition(w, signatureAt, 0) >= 1
           /\ HasU32(w, timeAt)
           /\ HasU32(w, timeAt + 4)
        THEN {WithPath([t |-> ItemTypeOf(w), path |-> <<>>,
                        hash |-> HashFromPosition(w, start),
                        collection |-> HashFromPosition(w, start + 20),
                        sender |-> HashFromPosition(w, start + 40),
                        phrase |-> PayloadAt(phraseAt), number |-> PayloadAt(numberAt),
                        data |-> PayloadAt(dataAt), signature |-> PayloadAt(signatureAt),
                        time |-> UintFromPosition(w, timeAt, 0),
                        flags |-> UintFromPosition(w, timeAt + 4, 0)], w, from)}
        ELSE {}

\* Two of the requests carry the time from which on items are wanted.
ParseRequestForObjectsAroundHash(w) ==
    LET asked == RequestTypeOf[ItemTypeOf(w)]
        timed == asked \in TimedAsked
    IN  IF HasHash(w, 1) /\ (timed => HasU32(w, 21))
        THEN {[t |-> ItemTypeOf(w), asked |-> asked, hash |-> HashFromPosition(w, 1),
               time |-> IF timed THEN UintFromPosition(w, 21, 0) ELSE 0]}
        ELSE {}

\* Older versions ask without the interval.
ParseAdsClassifiedAtHash(w) ==
    IF Len(w) \in {21, 29}
    THEN {[t |-> ItemTypeOf(w), hash |-> HashFromPosition(w, 1),
           start |-> UintFromPosition(w, 21, 0), end |-> UintFromPosition(w, 25, MaxTime)]}
    ELSE {}

ParseListOfAdsClassifiedAtHash(w) ==
    LET n == UintFromPosition(w, 21, 0)
    IN  IF HasHash(w, 1) /\ HasU32(w, 21) /\ Len(w) >= 25 + 24 * n
        THEN {[t |-> ItemTypeOf(w), hash |-> HashFromPosition(w, 1),
               ads |-> [i \in 1..n |-> [hash |-> HashFromPosition(w, 1 + 24 * i),
                                        time |-> UintFromPosition(w, 21 + 24 * i, 0)]]]}
        ELSE {}

ParseSearchRequest(w) ==
    IF Len(w) > 13 /\ Len(w) = 13 + UintFromPosition(w, 9, 0)
    THEN {[t |-> ItemTypeOf(w), flags |-> UintFromPosition(w, 1, 0),
           id |-> UintFromPosition(w, 5, 0), phrase |-> Mid(w, 13, Len(w))]}
    ELSE {}

\* Replies to searches and queries for records: one payload, to the byte.
ParseSearchResults(w) ==
    IF HasU32(w, 1) /\ Len(w) = 5 + UintFromPosition(w, 1, 0)
    THEN {[t |-> ItemTypeOf(w), json |-> Mid(w, 5, Len(w))]} ELSE {}
ParseDbRecordSearchTerms(w) ==
    IF HasU32(w, 1) /\ UintFromPosition(w, 1, 0) = Len(w) - 5
    THEN {[t |-> ItemTypeOf(w), json |-> Mid(w, 5, Len(w))]} ELSE {}

\* Whose signature it has to be is in Calls!Receive.
ParseVoiceCall(w) ==
    LET jsonLen == UintFromPosition(w, 1, 0)
        signatureLen == UintFromPosition(w, 5 + jsonLen, 0)
    IN  IF /\ HasU32(w, 1)
           /\ Len(w) > jsonLen + 5
           /\ HasU32(w, 5 + jsonLen)
           /\ Len(w) = jsonLen + 5 + signatureLen + 4
        THEN {[t |-> ItemTypeOf(w), json |-> Mid(w, 5, jsonLen),
               signature |-> Mid(w, 9 + jsonLen, signatureLen)]}
        ELSE {}

ParseCallRtData(w) ==
    IF /\ Len(w) > 15
       /\ w[2][2] = "KRTDataAudioSubtype"
       /\ Len(w) = 14 + UintFromPosition(w, 10, 0)
    THEN {[t |-> ItemTypeOf(w), id |-> UintFromPosition(w, 2, 0),
           seq |-> UintFromPosition(w, 6, 0), audio |-> Mid(w, 14, Len(w))]}
    ELSE {}

\* One greeting, whose length is the message's; the first one on a connection
\* has to be about the node the connection is to.
ParseNodeGreetingV1(g, from, first) ==
    IF /\ g[1][2] = "KProtocolVersion"
       /\ UintFromPosition(g, 1, 0) = Len(g)
       /\ Len(g) > 5
       /\ first => g[6][2] = from
    THEN {[node |-> g[6][2], size |-> Len(g) - 5]} ELSE {}

\* Greetings one after the other.  Where no length can be read, or it is zero,
\* the loop goes round without end.
ParseMultipleNodeGreetingsV1(w, from, first) ==
    LET Loop[p \in 0..Len(w)] ==
            LET length == UintFromPosition(w, p + 1, 0)
                one == ParseNodeGreetingV1(Mid(w, p, length), from, first)
            IN  IF p = Len(w) THEN [ends |-> TRUE, good |-> TRUE, nodes |-> <<>>]
                ELSE IF length = 0 THEN [ends |-> FALSE, good |-> TRUE, nodes |-> <<>>]
                ELSE IF length > Len(w) \/ one = {}
                THEN [ends |-> TRUE, good |-> FALSE, nodes |-> <<>>]
                ELSE LET rest == Loop[p + length]
                     IN  [rest EXCEPT !.nodes = <<CHOOSE n \in one : TRUE>> \o @]
        result == Loop[0]
    IN  IF result.good
        THEN {[t |-> ItemTypeOf(w), nodes |-> result.nodes, ends |-> result.ends]} ELSE {}

ParseMessage(w, from, first) ==
    IF Len(w) < 4 THEN {}
    ELSE LET t == ItemTypeOf(w)
         IN CASE t \in ContentSends \cup ContentPublishes -> ParseContentPublishedOrSent(w, from)
              [] t \in PrivMsgs -> ParsePrivMsgPublishedOrSent(w, from)
              [] t \in Comments -> ParseProfileCommentPublishedOrSent(w, from)
              [] t \in DbRecords -> ParseDbRecord(w, from)
              [] t \in Requests -> ParseRequestForObjectsAroundHash(w)
              [] t = "KAdsClassifiedAtHash" -> ParseAdsClassifiedAtHash(w)
              [] t = "KListOfAdsClassifiedAtHash" -> ParseListOfAdsClassifiedAtHash(w)
              [] t = "KSearchRequest" -> ParseSearchRequest(w)
              [] t = "KSearchResults" -> ParseSearchResults(w)
              [] t \in Calls -> ParseVoiceCall(w)
              [] t = "KRealtimeData" -> ParseCallRtData(w)
              [] t = "KDbRecordSearch" -> ParseDbRecordSearchTerms(w)
              [] t = "KProtocolVersion" -> ParseMultipleNodeGreetingsV1(w, from, first)
              [] OTHER -> {[t |-> t]}
=============================================================================
