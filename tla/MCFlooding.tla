----------------------------- MODULE MCFlooding -----------------------------
EXTENDS Flooding

Sig == Payload(7, 16)
MC_Messages ==
    {[t |-> t, path |-> <<>>, hash |-> 11, content |-> Payload(1, 2), signature |-> Sig,
      key |-> Payload(8, 16), flags |-> 2, time |-> 21] : t \in ContentSends \cup ContentPublishes}
    \cup {[t |-> t, path |-> <<>>, hash |-> 11, content |-> Payload(1, 2), signature |-> s,
           time |-> 21, destination |-> 12, recipient |-> 13] : t \in PrivMsgs, s \in {Sig}}
    \cup {[t |-> t, path |-> <<>>, hash |-> 11, profile |-> 12, content |-> Payload(1, 2),
           signature |-> Sig, flags |-> 1, time |-> time] : t \in Comments, time \in {21, 99}}
    \cup {[t |-> t, path |-> <<>>, hash |-> 11, collection |-> c, sender |-> 13, phrase |-> <<>>,
           number |-> Payload(2, 1), data |-> Payload(3, 2), signature |-> s,
           time |-> 21, flags |-> 1] : t \in DbRecords, c \in {0, 12}, s \in {<<>>, Sig}}
    \cup {[t |-> AskedBy[a], asked |-> a, hash |-> 11, time |-> IF a \in TimedAsked THEN 21 ELSE 0] :
             a \in DOMAIN AskedBy}
    \cup {[t |-> "KAdsClassifiedAtHash", hash |-> 11, start |-> 21, end |-> 22]}
    \cup {[t |-> "KListOfAdsClassifiedAtHash", hash |-> 11,
           ads |-> [i \in 1..n |-> [hash |-> 11 + i, time |-> 20 + i]]] : n \in 0..2}
    \cup {[t |-> "KSearchRequest", flags |-> 5, id |-> 31, phrase |-> Payload(4, n)] : n \in {1, 3, 9}}
    \cup {[t |-> t, json |-> Payload(5, n)] : t \in {"KSearchResults", "KDbRecordSearch"}, n \in {0, 3}}
    \cup {[t |-> t, json |-> Payload(5, 3), signature |-> s] : t \in Calls, s \in {<<>>, Sig}}
    \cup {[t |-> "KRealtimeData", id |-> 31, seq |-> 3, audio |-> Payload(6, n)] : n \in {2, 4}}
    \cup {[t |-> "KProtocolVersion", nodes |-> ns] :
             ns \in {<<[node |-> 1, size |-> 3]>>, <<[node |-> 2, size |-> 2]>>,
                     <<[node |-> 2, size |-> 2], [node |-> 3, size |-> 4]>>}}
    \cup {[t |-> "KRandomNumbersPacket", size |-> n] : n \in {2, 16}}
=============================================================================
