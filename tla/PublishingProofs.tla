-------------------------- MODULE PublishingProofs --------------------------
(***************************************************************************)
(* Proofs about Publishing, for any nodes, hashes, candidate lists and     *)
(* number of connections. AskedOnce is not inductive: that a node is not   *)
(* asked again rests on its being in the work item's bangpath, which       *)
(* rests on the bangpaths in the table (AskedIsRecorded), which are read   *)
(* by hash alone (RowsAgree) and are there as long as the engine works on  *)
(* the item (WorkItemHasRow). Inv has them all.                            *)
(***************************************************************************)
EXTENDS Publishing, SequenceLemmas, SequenceTheorems, TLAPS

-----------------------------------------------------------------------------
\* What the safety properties say together, without the types.
DataInv == WorkItemHasRow /\ RowsAgree /\ AskedOnce /\ AskedIsRecorded

\* The types of what publishToNode's callees change.
DataTypeOK ==
    /\ DOMAIN publish \subseteq RowKeys
    /\ publish \in [DOMAIN publish -> Row]
    /\ workItem \in WorkItem
    /\ requests \in SUBSET Request
    /\ asked \in [Hashes -> Seq(Nodes)]

\* What is known of a row of the table.
LEMMA RowOfHash ==
    ASSUME DataTypeOK, NEW key \in DOMAIN publish
    PROVE  /\ key[2] \in Hashes
           /\ publish[key] \in Row
           /\ publish[key].bangpath \in Seq(Peers)
BY DEF DataTypeOK, RowKeys, Hashes, Row

\* addNodeToPublishedItem, for the hash of the work item whose node n has just
\* been added to what was asked.
LEMMA AddNodePreserves ==
    ASSUME DataTypeOK, WorkItemHasRow, RowsAgree, AskedIsRecorded,
           workItem # NoWork, NEW n \in Peers,
           AddNodeToPublishedItem(workItem.hash, n),
           asked' \in [Hashes -> Seq(Nodes)],
           \A h \in Hashes \ {workItem.hash} : asked'[h] = asked[h],
           ToSet(asked'[workItem.hash]) \subseteq ToSet(asked[workItem.hash]) \cup {n}
    PROVE  /\ DOMAIN publish' \subseteq RowKeys
           /\ publish' \in [DOMAIN publish' -> Row]
           /\ workItem' \in WorkItem
           /\ WorkItemHasRow' /\ RowsAgree' /\ AskedIsRecorded'
<1> DEFINE h == workItem.hash
<1>1. h \in Hashes /\ RowsOf(h) # {}
  BY DEF DataTypeOK, WorkItem, WorkItemHasRow, NoWork
<1>2. PICK path \in BangPathsFound(h), enough \in HostCounts :
         IF Len(path) >= enough
         THEN ConsiderPublished(h)
         ELSE LET longer == IF Contains(path, n) THEN path ELSE Append(path, n)
              IN /\ StoreBangPath(h, longer)
                 /\ workItem' = [hash |-> h, pushed |-> longer]
  BY DEF AddNodeToPublishedItem
<1>3. PICK row \in RowsOf(h) : path = publish[row].bangpath
  BY <1>1, <1>2 DEF BangPathsFound
<1>4. row \in DOMAIN publish /\ row[2] = h
  BY <1>3 DEF RowsOf
<1>5. path \in Seq(Peers) /\ ToSet(asked[h]) \subseteq ToSet(path)
  BY <1>3, <1>4, RowOfHash DEF AskedIsRecorded
<1>6. CASE Len(path) >= enough
  <2>1. /\ publish' = [key \in DOMAIN publish \ RowsOf(h) |-> publish[key]]
        /\ workItem' = NoWork
    BY <1>2, <1>6 DEF ConsiderPublished
  <2>2. \A key \in DOMAIN publish' : key \in DOMAIN publish /\ key[2] # h
                                     /\ publish'[key] = publish[key]
    BY <2>1 DEF RowsOf
  <2>3. /\ DOMAIN publish' \subseteq RowKeys
        /\ publish' \in [DOMAIN publish' -> Row]
    BY <2>1, RowOfHash DEF DataTypeOK
  <2>4. RowsAgree'
    BY <2>2 DEF RowsAgree
  <2>5. AskedIsRecorded'
    BY <2>1, <2>2, RowOfHash DEF AskedIsRecorded
  <2>6. QED
    BY <2>1, <2>3, <2>4, <2>5 DEF WorkItem, WorkItemHasRow
<1>7. CASE ~(Len(path) >= enough)
  <2> DEFINE longer == IF Contains(path, n) THEN path ELSE Append(path, n)
  <2>1. /\ publish' = [key \in DOMAIN publish |->
                         IF key[2] = h THEN [publish[key] EXCEPT !.bangpath = longer]
                                       ELSE publish[key]]
        /\ workItem' = [hash |-> h, pushed |-> longer]
    BY <1>2, <1>7 DEF StoreBangPath
  <2>2. longer \in Seq(Peers) /\ ToSet(longer) = ToSet(path) \cup {n}
    BY <1>5, ContainsMember, AppendMembers
  <2> HIDE DEF longer
  <2>3. ASSUME NEW key \in DOMAIN publish
        PROVE  /\ publish'[key] \in Row
               /\ key[2] = h => publish'[key].bangpath = longer
               /\ key[2] # h => publish'[key] = publish[key]
    BY <2>1, <2>2, RowOfHash DEF Row
  <2>4. DOMAIN publish' = DOMAIN publish
    BY <2>1
  <2>5. /\ DOMAIN publish' \subseteq RowKeys
        /\ publish' \in [DOMAIN publish' -> Row]
    BY <2>1, <2>3, <2>4 DEF DataTypeOK
  <2>6. workItem' \in WorkItem
    BY <1>1, <2>1, <2>2 DEF WorkItem
  <2>7. RowsOf(h)' # {} /\ workItem'.hash = h
    BY <1>4, <2>1, <2>4 DEF RowsOf
  <2>8. RowsAgree'
    BY <2>3, <2>4 DEF RowsAgree
  <2>9. ToSet(asked'[h]) \subseteq ToSet(longer)
    BY <1>5, <2>2
  <2>10. AskedIsRecorded'
    BY <2>1, <2>3, <2>4, <2>9, RowOfHash DEF AskedIsRecorded
  <2>11. QED
    BY <2>5, <2>6, <2>7, <2>8, <2>10 DEF WorkItemHasRow, RowsOf
<1>8. QED
  BY <1>6, <1>7

\* What the work item's push to one node leaves of the data.
LEMMA QueuePreserves ==
    ASSUME DataTypeOK, DataInv, workItem # NoWork, NEW n \in Peers, QueueForNode(n)
    PROVE  DataTypeOK' /\ DataInv'
<1> DEFINE h == workItem.hash
<1>1. h \in Hashes /\ workItem.pushed \in Seq(Peers)
  BY DEF DataTypeOK, WorkItem
<1>2. CASE Contains(workItem.pushed, n)
  <2>1. UNCHANGED <<publish, workItem, requests, asked>>
    BY <1>2 DEF QueueForNode
  <2>2. QED
    BY <2>1 DEF DataTypeOK, DataInv, WorkItemHasRow, RowsAgree, AskedOnce,
                AskedIsRecorded, RowsOf
<1>3. CASE ~Contains(workItem.pushed, n)
  <2>1. n \notin ToSet(workItem.pushed)
    BY <1>1, <1>3, ContainsMember
  <2>2. n \notin ToSet(asked[h]) /\ asked[h] \in Seq(Nodes) /\ IsInjective(asked[h])
    BY <1>1, <2>1 DEF DataInv, AskedIsRecorded, AskedOnce, DataTypeOK
  <2>3. /\ requests' \in SUBSET Request
        /\ asked' \in [Hashes -> Seq(Nodes)]
        /\ \A g \in Hashes \ {h} : asked'[g] = asked[g]
        /\ ToSet(asked'[h]) \subseteq ToSet(asked[h]) \cup {n}
        /\ IsInjective(asked'[h])
    <3>1. CASE n = Self
      BY <1>3, <2>2, <3>1 DEF QueueForNode, DataTypeOK
    <3>2. CASE n # Self
      <4>1. n \in Nodes
        BY <3>2 DEF Peers
      <4>2. /\ requests' = requests \cup {[node |-> n, hash |-> h]}
            /\ asked' = [asked EXCEPT ![h] = Append(@, n)]
        BY <1>3, <3>2 DEF QueueForNode
      <4>3. /\ Append(asked[h], n) \in Seq(Nodes)
            /\ ToSet(Append(asked[h], n)) = ToSet(asked[h]) \cup {n}
            /\ IsInjective(Append(asked[h], n))
        BY <2>2, <4>1, AppendMembers
      <4>4. asked'[h] = Append(asked[h], n)
        BY <1>1, <4>2 DEF DataTypeOK
      <4>5. QED
        BY <1>1, <4>1, <4>2, <4>3, <4>4 DEF DataTypeOK, Request
    <3>3. QED
      BY <3>1, <3>2
  <2>4. AddNodeToPublishedItem(h, n)
    BY <1>3 DEF QueueForNode
  <2>5. /\ DOMAIN publish' \subseteq RowKeys
        /\ publish' \in [DOMAIN publish' -> Row]
        /\ workItem' \in WorkItem
        /\ WorkItemHasRow' /\ RowsAgree' /\ AskedIsRecorded'
    BY <2>3, <2>4, AddNodePreserves DEF DataInv
  <2>6. AskedOnce'
    BY <2>3 DEF DataInv, AskedOnce
  <2>7. QED
    BY <2>3, <2>5, <2>6 DEF DataTypeOK, DataInv
<1>4. QED
  BY <1>2, <1>3

\* publishToNode takes at most one node out of the candidate list.
LEMMA PublishToNodePreserves ==
    ASSUME TypeOK, DataInv, workItem # NoWork, NEW n \in Peers, NEW dangling,
           PublishToNode(n, dangling)
    PROVE  /\ DataTypeOK' /\ DataInv'
           /\ candidates' \in Seq(Peers) /\ Len(candidates') >= Len(candidates) - 1
           /\ successful' \in SUBSET Nodes /\ failed' \in SUBSET Nodes
<1>1. DataTypeOK
  BY DEF TypeOK, DataTypeOK
<1>2. DataTypeOK' /\ DataInv'
  BY <1>1, QueuePreserves DEF PublishToNode
<1>3. candidates' \in Seq(Peers) /\ Len(candidates') >= Len(candidates) - 1
  <2>1. candidates \in Seq(Peers) /\ Len(candidates) \in Nat
    BY LenProperties DEF TypeOK
  <2>2. CASE Contains(candidates, n)
    <3>1. PICK i \in 1 .. Len(candidates) : candidates' = RemoveAt(candidates, i)
      BY <2>2 DEF PublishToNode, RemoveCandidate
    <3>2. QED
      BY <2>1, <3>1, RemoveAtProperties
  <2>3. CASE ~Contains(candidates, n)
    BY <2>1, <2>3 DEF PublishToNode, RemoveCandidate
  <2>4. QED
    BY <2>2, <2>3
<1>4. successful' \in SUBSET Nodes /\ failed' \in SUBSET Nodes
  BY DEF PublishToNode, TypeOK
<1>5. QED
  BY <1>2, <1>3, <1>4

-----------------------------------------------------------------------------
\* One call of addItemToBePublished turns table into t: the row gets the path,
\* rows of other hashes stay, and all rows of the hash have the path if the row
\* was there before or the others had that path already.
RowIsAdded(table, t, row, path) ==
    /\ DOMAIN t = DOMAIN table \cup {row}
    /\ DOMAIN t \subseteq RowKeys
    /\ t \in [DOMAIN t -> Row]
    /\ \A key \in DOMAIN t :
          key[2] # row[2] => key \in DOMAIN table /\ t[key] = table[key]
    /\ t[row].bangpath = path
    /\ (\/ row \in DOMAIN table
        \/ \A key \in DOMAIN table : key[2] = row[2] => table[key].bangpath = path)
       => \A key \in DOMAIN t : key[2] = row[2] => t[key].bangpath = path

LEMMA AddRowProperties ==
    ASSUME NEW type, NEW h \in Hashes, <<type, h>> \in RowKeys,
           NEW path \in Seq(Peers), NEW secondary,
           NEW table, DOMAIN table \subseteq RowKeys, table \in [DOMAIN table -> Row]
    PROVE  RowIsAdded(table, AddRow(table, type, h, path, secondary), <<type, h>>, path)
<1> DEFINE t == AddRow(table, type, h, path, secondary)
           row == <<type, h>>
           fresh == [bangpath |-> path, lastTried |-> 0,
                     secondary |-> IF secondary = NoHash THEN NoHash ELSE h]
<1>1. fresh \in Row /\ fresh.bangpath = path
  BY DEF Row, Addresses
<1>2. row[2] = h
  OBVIOUS
<1>3. CASE row \in DOMAIN table
  <2>1. t = [key \in DOMAIN table |-> IF key[2] = h THEN fresh ELSE table[key]]
    BY <1>3 DEF AddRow
  <2> HIDE DEF t, fresh, row
  <2>2. RowIsAdded(table, t, row, path)
    BY <1>1, <1>2, <1>3, <2>1 DEF RowIsAdded
  <2>3. QED
    BY <2>2 DEF t, row
<1>4. CASE row \notin DOMAIN table
  <2>1. t = [key \in DOMAIN table \cup {row} |-> IF key = row THEN fresh ELSE table[key]]
    BY <1>4 DEF AddRow
  <2>2. row \in RowKeys
    OBVIOUS
  <2> HIDE DEF t, fresh, row
  <2>3. RowIsAdded(table, t, row, path)
    BY <1>1, <1>2, <1>4, <2>1, <2>2 DEF RowIsAdded
  <2>4. QED
    BY <2>3 DEF t, row
<1>5. QED
  BY <1>3, <1>4

\* Adding content leaves its rows with the same, new bangpath.
LEMMA RowsAddedProperties ==
    ASSUME DataTypeOK, NEW h \in Hashes, NEW path \in Seq(Peers)
    PROVE  LET t == RowsAdded(h, path)
           IN /\ DOMAIN publish \subseteq DOMAIN t
              /\ DOMAIN t \subseteq RowKeys
              /\ t \in [DOMAIN t -> Row]
              /\ \A key \in DOMAIN t :
                    key[2] # h => key \in DOMAIN publish /\ t[key] = publish[key]
              /\ \A key \in DOMAIN t : key[2] = h => t[key].bangpath = path
<1> DEFINE t == RowsAdded(h, path)
<1>1. CASE h \in Ads
  <2> DEFINE own == <<"ClassifiedAdPublish", h>>
             second == <<"ClassifiedAd2NdAddr", h>>
             t1 == AddRow(publish, "ClassifiedAdPublish", h, path, NoHash)
             t2 == AddRow(t1, "ClassifiedAd2NdAddr", h, path, Group)
  <2>1. own \in RowKeys /\ second \in RowKeys
    BY <1>1 DEF RowKeys
  <2>2. \A key \in RowKeys : key[2] = h => key \in {own, second}
    BY <1>1, HashAssumption DEF RowKeys
  <2>3. RowIsAdded(publish, t1, own, path)
    BY <2>1, AddRowProperties DEF DataTypeOK
  <2> HIDE DEF t1
  <2>4. RowIsAdded(t1, t2, second, path)
    <3>1. DOMAIN t1 \subseteq RowKeys /\ t1 \in [DOMAIN t1 -> Row]
      BY <2>3 DEF RowIsAdded
    <3>2. QED
      BY <2>1, <3>1, AddRowProperties
  <2>5. \A key \in DOMAIN t2 : key[2] = h => t2[key].bangpath = path
    <3> HIDE DEF t2
    <3>1. QED
      BY <2>2, <2>3, <2>4 DEF RowIsAdded
  <2>6. t = t2
    BY <1>1 DEF RowsAdded, t1
  <2> HIDE DEF t2, t
  <2>7. QED
    BY <2>3, <2>4, <2>5, <2>6 DEF t, RowIsAdded
<1>2. CASE h \notin Ads
  <2> DEFINE own == <<"UserProfile", h>>
  <2>1. own \in RowKeys
    BY <1>2 DEF RowKeys, Hashes
  <2>2. \A key \in RowKeys : key[2] = h => key = own
    BY <1>2 DEF RowKeys
  <2>3. t = AddRow(publish, "UserProfile", h, path, NoHash)
    BY <1>2 DEF RowsAdded
  <2>4. RowIsAdded(publish, t, own, path)
    BY <2>1, <2>3, AddRowProperties DEF DataTypeOK
  <2> HIDE DEF t
  <2>5. QED
    BY <2>2, <2>4 DEF t, RowIsAdded
<1>3. QED
  BY <1>1, <1>2

-----------------------------------------------------------------------------
\* The inductive invariant.
Inv == TypeOK /\ DataInv /\ CursorInRange

LEMMA DataStays ==
    ASSUME DataInv, UNCHANGED <<publish, workItem, asked>>
    PROVE  DataInv'
BY DEF DataInv, WorkItemHasRow, RowsAgree, AskedOnce, AskedIsRecorded, RowsOf

\* Initially the table is empty and the engine idle.
LEMMA InitInv == Init => Inv
<1> SUFFICES ASSUME Init PROVE Inv
  OBVIOUS
<1>1. /\ DOMAIN publish = {} /\ workItem = NoWork
      /\ \A h \in Hashes : asked[h] = <<>>
  BY DEF Init
<1>2. DataInv
  <2>1. \A h \in Hashes : IsInjective(asked[h])
    BY <1>1 DEF IsInjective
  <2>2. QED
    BY <1>1, <2>1 DEF DataInv, WorkItemHasRow, RowsAgree, AskedOnce, AskedIsRecorded
<1>3. RetryInterval \in Nat
  BY NumberAssumption
<1>4. TypeOK
  BY <1>1, <1>3 DEF Init, TypeOK, WorkItem
<1>5. CursorInRange
  BY DEF Init, CursorInRange
<1>6. QED
  BY <1>2, <1>4, <1>5 DEF Inv

\* addItemToBePublished: the rows of the hash start anew, and so does what was
\* asked; a work item of the same hash only has a longer bangpath than that.
LEMMA AddItemToBePublishedInv ==
    ASSUME Inv, NEW h \in Hashes, NEW path \in BangPaths, AddItemToBePublished(h, path)
    PROVE  Inv'
<1>1. path \in Seq(Peers)
  BY PathAssumption
<1>2. DataTypeOK
  BY DEF Inv, TypeOK, DataTypeOK
<1>3. publish' = RowsAdded(h, path) /\ asked' = [asked EXCEPT ![h] = <<>>]
  BY DEF AddItemToBePublished
<1>4. /\ DOMAIN publish \subseteq DOMAIN publish'
      /\ DOMAIN publish' \subseteq RowKeys
      /\ publish' \in [DOMAIN publish' -> Row]
      /\ \A key \in DOMAIN publish' :
            key[2] # h => key \in DOMAIN publish /\ publish'[key] = publish[key]
      /\ \A key \in DOMAIN publish' : key[2] = h => publish'[key].bangpath = path
  BY <1>1, <1>2, <1>3, RowsAddedProperties
<1>5. /\ asked' \in [Hashes -> Seq(Nodes)]
      /\ asked'[h] = <<>> /\ ToSet(asked'[h]) = {}
      /\ \A g \in Hashes \ {h} : asked'[g] = asked[g]
  BY <1>2, <1>3 DEF DataTypeOK, ToSet
<1>6. UNCHANGED <<now, engineVars, networkVars, requests>>
  BY DEF AddItemToBePublished
<1>7. TypeOK'
  BY <1>4, <1>5, <1>6 DEF Inv, TypeOK, engineVars, networkVars
<1>8. WorkItemHasRow'
  BY <1>4, <1>6 DEF Inv, DataInv, WorkItemHasRow, RowsOf, engineVars
<1>9. RowsAgree'
  BY <1>4 DEF Inv, DataInv, RowsAgree
<1>10. AskedOnce'
  BY <1>5 DEF Inv, DataInv, AskedOnce, IsInjective
<1>11. AskedIsRecorded'
  <2>1. ASSUME NEW key \in DOMAIN publish'
        PROVE  ToSet(asked'[key[2]]) \subseteq ToSet(publish'[key].bangpath)
    <3>1. key[2] \in Hashes
      BY <1>4 DEF RowKeys, Hashes
    <3>2. CASE key[2] = h
      BY <1>5, <3>2
    <3>3. CASE key[2] # h
      BY <1>4, <1>5, <3>1, <3>3 DEF Inv, DataInv, AskedIsRecorded
    <3>4. QED
      BY <3>2, <3>3
  <2>2. workItem # NoWork => ToSet(asked'[workItem.hash]) \subseteq ToSet(workItem.pushed)
    BY <1>2, <1>5 DEF Inv, DataInv, AskedIsRecorded, DataTypeOK, WorkItem
  <2>3. QED
    BY <1>6, <2>1, <2>2 DEF AskedIsRecorded, engineVars
<1>12. CursorInRange'
  BY <1>6 DEF Inv, CursorInRange, engineVars
<1>13. QED
  BY <1>7, <1>8, <1>9, <1>10, <1>11, <1>12 DEF Inv, DataInv

\* nextItemToPublish: the work item takes over the bangpath of its row.
LEMMA PickItemInv ==
    ASSUME Inv, NEW key \in DOMAIN publish, PickItem(key)
    PROVE  Inv'
<1>1. DataTypeOK
  BY DEF Inv, TypeOK, DataTypeOK
<1>2. key[2] \in Hashes /\ publish[key].bangpath \in Seq(Peers)
  BY <1>1, RowOfHash
<1>3. /\ DOMAIN publish' = DOMAIN publish
      /\ publish' \in [DOMAIN publish' -> Row]
      /\ \A k \in DOMAIN publish : publish'[k].bangpath = publish[k].bangpath
  <2>1. publish' = [k \in DOMAIN publish |->
                      IF k[2] = key[2] THEN [publish[k] EXCEPT !.lastTried = now]
                                       ELSE publish[k]]
    BY DEF PickItem
  <2>2. now \in Nat
    BY DEF Inv, TypeOK
  <2>3. QED
    BY <1>1, <2>1, <2>2, RowOfHash DEF Row
<1>4. PICK list \in NodesAfter[AddressOf(key)] :
         IF list = <<>>
         THEN UNCHANGED <<pc, nodesToTry, workItem, candidates>>
         ELSE /\ nodesToTry' = list
              /\ candidates' = <<>>
              /\ workItem' = [hash |-> key[2], pushed |-> publish[key].bangpath]
              /\ pc' = "distribute"
  BY DEF PickItem
<1>5. list \in Seq(Peers)
  <2>1. AddressOf(key) \in Addresses
    BY <1>1, <1>2, RowOfHash DEF AddressOf, Row, Addresses
  <2>2. QED
    BY <1>4, <2>1, PathAssumption
<1>6. /\ successful' = {} /\ failed' = {}
      /\ UNCHANGED <<now, cursor, networkVars, requests, asked>>
      /\ pc = "timer" /\ workItem = NoWork
  BY DEF PickItem
<1>7. /\ nodesToTry' \in Seq(Peers) /\ candidates' \in Seq(Peers)
      /\ pc' \in {"timer", "distribute"}
      /\ \/ workItem' = NoWork
         \/ workItem' = [hash |-> key[2], pushed |-> publish[key].bangpath]
  <2>1. CASE list = <<>>
    BY <1>4, <1>6, <2>1 DEF Inv, TypeOK
  <2>2. CASE list # <<>>
    <3>1. <<>> \in Seq(Peers)
      OBVIOUS
    <3>2. QED
      BY <1>4, <1>5, <2>2, <3>1
  <2>3. QED
    BY <2>1, <2>2
<1>8. workItem' \in WorkItem
  BY <1>2, <1>7 DEF WorkItem
<1>9. TypeOK'
  BY <1>3, <1>6, <1>7, <1>8 DEF Inv, TypeOK, networkVars
<1>10. WorkItemHasRow' /\ RowsAgree' /\ AskedOnce'
  BY <1>3, <1>6, <1>7 DEF Inv, DataInv, WorkItemHasRow, RowsAgree, AskedOnce, RowsOf
<1>11. AskedIsRecorded'
  <2>1. \A k \in DOMAIN publish :
           ToSet(asked[k[2]]) \subseteq ToSet(publish[k].bangpath)
    BY DEF Inv, DataInv, AskedIsRecorded
  <2>2. workItem' # NoWork => ToSet(asked[workItem'.hash]) \subseteq ToSet(workItem'.pushed)
    BY <1>7, <2>1
  <2>3. \A k \in DOMAIN publish :
           ToSet(asked[k[2]]) \subseteq ToSet(publish'[k].bangpath)
    BY <1>3, <2>1
  <2>4. QED
    BY <1>3, <1>6, <2>2, <2>3 DEF AskedIsRecorded
<1>12. CursorInRange'
  BY <1>7 DEF CursorInRange
<1>13. QED
  BY <1>9, <1>10, <1>11, <1>12 DEF Inv, DataInv

\* An action that stays away from the data keeps what is said of it.
LEMMA OtherStep ==
    ASSUME Inv, UNCHANGED <<publish, workItem, asked>>, TypeOK', CursorInRange'
    PROVE  Inv'
BY DataStays DEF Inv

\* The first loop of run(): push or keep as a candidate.
LEMMA DistributeNodeInv ==
    ASSUME Inv, DistributeNode
    PROVE  Inv'
<1> DEFINE n == Head(nodesToTry)
<1>1. n \in Peers /\ nodesToTry' \in Seq(Peers)
  BY HeadTailProperties DEF Inv, TypeOK, DistributeNode
<1>2. /\ pc = "distribute"
      /\ UNCHANGED <<now, pc, cursor, networkVars>>
  BY DEF DistributeNode
<1>3. CursorInRange'
  BY <1>2 DEF CursorInRange
<1>4. CASE IsNodeAlreadyConnected(n) /\ workItem # NoWork
  <2>1. PublishToNode(n, FALSE)
    BY <1>4 DEF DistributeNode
  <2>2. /\ DataTypeOK' /\ DataInv' /\ candidates' \in Seq(Peers)
        /\ successful' \in SUBSET Nodes /\ failed' \in SUBSET Nodes
    BY <1>1, <1>4, <2>1, PublishToNodePreserves DEF Inv
  <2>3. TypeOK'
    BY <1>1, <1>2, <2>2 DEF Inv, TypeOK, DataTypeOK, networkVars
  <2>4. QED
    BY <1>3, <2>2, <2>3 DEF Inv
<1>5. CASE ~(IsNodeAlreadyConnected(n) /\ workItem # NoWork)
  <2>1. /\ UNCHANGED <<publish, workItem, requests, asked, successful, failed>>
        /\ candidates' = candidates \/ candidates' = Append(candidates, n)
    BY <1>5 DEF DistributeNode
  <2>2. candidates' \in Seq(Peers)
    <3>1. candidates \in Seq(Peers)
      BY DEF Inv, TypeOK
    <3>2. Append(candidates, n) \in Seq(Peers)
      BY <1>1, <3>1, AppendProperties
    <3>3. QED
      BY <2>1, <3>1, <3>2
  <2>3. TypeOK'
    BY <1>1, <1>2, <2>1, <2>2 DEF Inv, TypeOK, networkVars
  <2>4. QED
    BY <1>3, <2>1, <2>3, OtherStep
<1>6. QED
  BY <1>4, <1>5

\* The loop of sendPublishItemToAlreadyConnectedNodes.
LEMMA SendConnectedNodeInv ==
    ASSUME Inv, SendConnectedNode
    PROVE  Inv'
<1> DEFINE n == candidates[cursor]
<1>1. /\ cursor \in 1 .. Len(candidates) /\ candidates \in Seq(Peers)
      /\ workItem # NoWork /\ pc = "sendConnected"
      /\ cursor' = cursor - 1
      /\ UNCHANGED <<now, pc, nodesToTry, networkVars>>
  BY DEF Inv, TypeOK, CursorInRange, SendConnectedNode
<1>2. n \in Peers
  BY <1>1, ElementOfSeq
<1>3. CASE ~HasNodeConnection(n)
  <2>1. UNCHANGED <<publish, workItem, requests, asked, candidates, successful, failed>>
    BY <1>3 DEF SendConnectedNode
  <2>2. TypeOK'
    BY <1>1, <2>1 DEF Inv, TypeOK, networkVars
  <2>3. CursorInRange'
    BY <1>1, <2>1, LenProperties DEF CursorInRange
  <2>4. QED
    BY <2>1, <2>2, <2>3, OtherStep
<1>4. CASE HasNodeConnection(n) /\ Contains(workItem.pushed, n)
  <2>1. /\ candidates' = RemoveAt(candidates, cursor)
        /\ UNCHANGED <<publish, workItem, requests, asked, successful, failed>>
    BY <1>4 DEF SendConnectedNode
  <2>2. candidates' \in Seq(Peers) /\ Len(candidates') = Len(candidates) - 1
    BY <1>1, <2>1, RemoveAtProperties
  <2>3. TypeOK'
    BY <1>1, <2>1, <2>2 DEF Inv, TypeOK, networkVars
  <2>4. CursorInRange'
    BY <1>1, <2>2, LenProperties DEF CursorInRange
  <2>5. QED
    BY <2>1, <2>3, <2>4, OtherStep
<1>5. CASE HasNodeConnection(n) /\ ~Contains(workItem.pushed, n)
  <2>1. PublishToNode(n, TRUE)
    BY <1>5 DEF SendConnectedNode
  <2>2. /\ DataTypeOK' /\ DataInv'
        /\ candidates' \in Seq(Peers) /\ Len(candidates') >= Len(candidates) - 1
        /\ successful' \in SUBSET Nodes /\ failed' \in SUBSET Nodes
    BY <1>1, <1>2, <2>1, PublishToNodePreserves DEF Inv
  <2>3. TypeOK'
    BY <1>1, <2>2 DEF Inv, TypeOK, DataTypeOK, networkVars
  <2>4. CursorInRange'
    BY <1>1, <2>2, LenProperties DEF CursorInRange
  <2>5. QED
    BY <2>2, <2>3, <2>4 DEF Inv
<1>6. QED
  BY <1>3, <1>4, <1>5

\* The loop of checkForSuccessfullyConnectedNodes.
LEMMA CheckSuccessfulNodeInv ==
    ASSUME Inv, CheckSuccessfulNode
    PROVE  Inv'
<1> DEFINE n == candidates[cursor]
<1>1. /\ cursor \in 1 .. Len(candidates) /\ candidates \in Seq(Peers)
      /\ workItem # NoWork /\ pc = "success"
      /\ cursor' = cursor - 1
      /\ UNCHANGED <<now, pc, nodesToTry, networkVars>>
  BY DEF Inv, TypeOK, CursorInRange, CheckSuccessfulNode
<1>2. n \in Peers
  BY <1>1, ElementOfSeq
<1>3. CASE n \notin successful
  <2>1. UNCHANGED <<publish, workItem, requests, asked, candidates, successful, failed>>
    BY <1>3 DEF CheckSuccessfulNode
  <2>2. TypeOK'
    BY <1>1, <2>1 DEF Inv, TypeOK, networkVars
  <2>3. CursorInRange'
    BY <1>1, <2>1, LenProperties DEF CursorInRange
  <2>4. QED
    BY <2>1, <2>2, <2>3, OtherStep
<1>4. CASE n \in successful
  <2>1. PublishToNode(n, TRUE)
    BY <1>4 DEF CheckSuccessfulNode
  <2>2. /\ DataTypeOK' /\ DataInv'
        /\ candidates' \in Seq(Peers) /\ Len(candidates') >= Len(candidates) - 1
        /\ successful' \in SUBSET Nodes /\ failed' \in SUBSET Nodes
    BY <1>1, <1>2, <2>1, PublishToNodePreserves DEF Inv
  <2>3. TypeOK'
    BY <1>1, <2>2 DEF Inv, TypeOK, DataTypeOK, networkVars
  <2>4. CursorInRange'
    BY <1>1, <2>2, LenProperties DEF CursorInRange
  <2>5. QED
    BY <2>2, <2>3, <2>4 DEF Inv
<1>5. QED
  BY <1>3, <1>4

\* The steps of run() that only move it on.
LEMMA EngineMovesInv ==
    ASSUME Inv,
           \/ EndDistribute \/ BeginSendConnected \/ EndSendConnected
           \/ BeginAsk \/ EndAsk \/ BeginCheckSuccess \/ EndCheckSuccess
           \/ BeginCheckFailure
    PROVE  Inv'
<1>1. UNCHANGED <<tableVars, nodesToTry, workItem, candidates, failed, networkVars,
                  requests, asked>>
  BY DEF EndDistribute, BeginSendConnected, EndSendConnected, BeginAsk, EndAsk,
         BeginCheckSuccess, EndCheckSuccess, BeginCheckFailure
<1>2. candidates \in Seq(Peers) /\ Len(candidates) \in Nat
  BY LenProperties DEF Inv, TypeOK
<1>3. /\ successful' \in {successful, {}}
      /\ cursor' \in {cursor, 0, 1, Len(candidates)}
      /\ pc' \in {"timer", "initial", "sendConnected", "askEntry", "ask", "success",
                  "failEntry", "fail"}
      /\ pc' \in {"sendConnected", "success", "fail"} => cursor' = Len(candidates)
      /\ pc' = "ask" => cursor' = 1
  BY DEF EndDistribute, BeginSendConnected, EndSendConnected, BeginAsk, EndAsk,
         BeginCheckSuccess, EndCheckSuccess, BeginCheckFailure
<1>4. TypeOK'
  BY <1>1, <1>2, <1>3 DEF Inv, TypeOK, tableVars, networkVars
<1>5. CursorInRange'
  BY <1>1, <1>2, <1>3 DEF CursorInRange
<1>6. QED
  BY <1>1, <1>4, <1>5, OtherStep DEF tableVars

\* The loop of askConnectionsForNodesOnPublishList.
LEMMA AskForNodeInv ==
    ASSUME Inv, AskForNode
    PROVE  Inv'
<1> DEFINE n == candidates[cursor]
<1>1. /\ pc = "ask" /\ cursor' = cursor + 1
      /\ UNCHANGED <<tableVars, pc, nodesToTry, workItem, candidates, successful, failed,
                     nextAddress, connections, statusEvents, requests, asked>>
  BY DEF AskForNode
<1>2. wishList' \in Seq(Nodes)
  <2>1. wishList \in Seq(Nodes)
    BY DEF Inv, TypeOK
  <2>2. CASE n = Self \/ Contains(wishList, n)
    BY <2>1, <2>2 DEF AskForNode, AddNodeToConnectionWishList
  <2>3. CASE ~(n = Self \/ Contains(wishList, n))
    <3>1. wishList' = Append(wishList, n)
      BY <2>3 DEF AskForNode, AddNodeToConnectionWishList
    <3>2. CASE n \in Nodes
      BY <2>1, <3>1, <3>2, AppendProperties
    <3>3. n \in Peers
      <4>1. candidates \in Seq(Peers) /\ cursor \in Nat /\ cursor <= Len(candidates)
        BY DEF Inv, TypeOK, AskForNode
      <4>2. cursor # 0
        BY DEF Inv, CursorInRange, AskForNode
      <4>3. QED
        BY <4>1, <4>2, ElementOfSeq, LenProperties
    <3>4. QED
      BY <2>3, <3>2, <3>3 DEF Peers
  <2>4. QED
    BY <2>2, <2>3
<1>3. TypeOK'
  BY <1>1, <1>2 DEF Inv, TypeOK, tableVars
<1>4. CursorInRange'
  <2>1. Len(candidates) \in Nat /\ cursor \in 1 .. Len(candidates)
    BY LenProperties DEF Inv, TypeOK, CursorInRange, AskForNode
  <2>2. QED
    BY <1>1, <2>1 DEF CursorInRange
<1>5. QED
  BY <1>1, <1>3, <1>4, OtherStep DEF tableVars

\* The loop of checkForUnSuccessfullyConnectedNodes.
LEMMA CheckFailedNodeInv ==
    ASSUME Inv, CheckFailedNode
    PROVE  Inv'
<1>1. /\ cursor \in 1 .. Len(candidates) /\ candidates \in Seq(Peers)
      /\ cursor' = cursor - 1 /\ pc = "fail"
      /\ UNCHANGED <<tableVars, pc, nodesToTry, workItem, successful, failed, networkVars,
                     requests, asked>>
  BY DEF Inv, TypeOK, CursorInRange, CheckFailedNode
<1>2. candidates' \in {candidates, RemoveAt(candidates, cursor)}
  BY DEF CheckFailedNode
<1>3. candidates' \in Seq(Peers) /\ Len(candidates') >= Len(candidates) - 1
  <2>1. CASE candidates' = candidates
    BY <1>1, <2>1, LenProperties
  <2>2. CASE candidates' = RemoveAt(candidates, cursor)
    BY <1>1, <2>2, RemoveAtProperties, LenProperties
  <2>3. QED
    BY <1>2, <2>1, <2>2
<1>4. TypeOK'
  BY <1>1, <1>3 DEF Inv, TypeOK, tableVars, networkVars
<1>5. CursorInRange'
  BY <1>1, <1>3, LenProperties DEF CursorInRange
<1>6. QED
  BY <1>1, <1>4, <1>5, OtherStep DEF tableVars

\* The end of run(): the item may be left behind.
LEMMA EndCheckFailureInv ==
    ASSUME Inv, EndCheckFailure
    PROVE  Inv'
<1>1. /\ failed' = {} /\ pc' = "timer" /\ cursor' = 0
      /\ workItem' \in {workItem, NoWork}
      /\ UNCHANGED <<tableVars, nodesToTry, candidates, successful, networkVars, requests,
                     asked>>
  BY DEF EndCheckFailure
<1>2. TypeOK' /\ CursorInRange'
  BY <1>1 DEF Inv, TypeOK, CursorInRange, WorkItem, tableVars, networkVars
<1>3. DataInv'
  BY <1>1 DEF Inv, DataInv, WorkItemHasRow, RowsAgree, AskedOnce, AskedIsRecorded,
              RowsOf, tableVars
<1>4. QED
  BY <1>2, <1>3 DEF Inv

-----------------------------------------------------------------------------
\* Time passes.
LEMMA TickInv ==
    ASSUME Inv, Tick
    PROVE  Inv'
<1>1. TypeOK' /\ CursorInRange'
  BY DEF Inv, TypeOK, CursorInRange, Tick, engineVars, networkVars
<1>2. QED
  BY <1>1, OtherStep DEF Tick, engineVars

\* The status slot.
LEMMA NodeConnectionAttemptStatusInv ==
    ASSUME Inv, NodeConnectionAttemptStatus
    PROVE  Inv'
<1>1. UNCHANGED <<tableVars, pc, cursor, nodesToTry, workItem, candidates, wishList,
                  nextAddress, connections, requests, asked>>
  BY DEF NodeConnectionAttemptStatus
<1>2. Head(statusEvents) \in StatusEvent /\ statusEvents' \in Seq(StatusEvent)
  BY HeadTailProperties DEF Inv, TypeOK, NodeConnectionAttemptStatus
<1>3. Head(statusEvents).peer \in Nodes
  BY <1>2 DEF StatusEvent
<1>4. successful' \in SUBSET Nodes /\ failed' \in SUBSET Nodes
  BY <1>3 DEF Inv, TypeOK, NodeConnectionAttemptStatus
<1>5. TypeOK' /\ CursorInRange'
  BY <1>1, <1>2, <1>4 DEF Inv, TypeOK, CursorInRange, tableVars
<1>6. QED
  BY <1>1, <1>5, OtherStep DEF tableVars

\* The request executor.
LEMMA ExecutePublishRequestInv ==
    ASSUME Inv, NEW r \in requests, ExecutePublishRequest(r)
    PROVE  Inv'
<1>1. TypeOK' /\ CursorInRange'
  BY DEF Inv, TypeOK, CursorInRange, ExecutePublishRequest, tableVars, engineVars,
         networkVars
<1>2. QED
  BY <1>1, OtherStep DEF ExecutePublishRequest, tableVars, engineVars

\* A new connection is one.
LEMMA NewConnectionType ==
    ASSUME TypeOK, NEW n \in Nodes, NEW incoming \in BOOLEAN, NewConnection(n, incoming)
    PROVE  connections' \in [ConnIds -> Connection \cup {NoConnection}]
BY DEF TypeOK, NewConnection, Connection

\* The connector and the connections change the network's own state, the
\* requests and nothing else.
LEMMA NetworkStep ==
    ASSUME Inv, UNCHANGED <<tableVars, engineVars, asked>>,
           wishList' \in Seq(Nodes),
           nextAddress' \in Nodes \cup {NoNode},
           connections' \in [ConnIds -> Connection \cup {NoConnection}],
           statusEvents' \in Seq(StatusEvent),
           requests' \in SUBSET Request
    PROVE  Inv'
<1>1. TypeOK' /\ CursorInRange'
  BY DEF Inv, TypeOK, CursorInRange, tableVars, engineVars
<1>2. QED
  BY <1>1, OtherStep DEF tableVars, engineVars

\* The connector thread.
LEMMA ConnectorInv ==
    ASSUME Inv, ServeWishListItem \/ UpdateListOfNodesToConnect \/ ConnectNextAddress
    PROVE  Inv'
<1>1. CASE ServeWishListItem
  <2>1. Head(wishList) \in Nodes /\ wishList' \in Seq(Nodes)
    BY <1>1, HeadTailProperties DEF Inv, TypeOK, ServeWishListItem
  <2>2. connections' \in [ConnIds -> Connection \cup {NoConnection}]
    <3>1. CASE NewConnection(Head(wishList), FALSE)
      BY <2>1, <3>1, NewConnectionType DEF Inv
    <3>2. CASE UNCHANGED connections
      BY <3>2 DEF Inv, TypeOK
    <3>3. QED
      BY <1>1, <3>1, <3>2 DEF ServeWishListItem
  <2>3. UNCHANGED <<tableVars, engineVars, nextAddress, statusEvents, requests, asked>>
    BY <1>1 DEF ServeWishListItem
  <2>4. QED
    BY <2>1, <2>2, <2>3, NetworkStep DEF Inv, TypeOK
<1>2. CASE UpdateListOfNodesToConnect
  <2>1. nextAddress' \in Nodes \cup {NoNode}
    BY <1>2, PeersAssumption DEF UpdateListOfNodesToConnect
  <2>2. UNCHANGED <<tableVars, engineVars, wishList, connections, statusEvents, requests,
                    asked>>
    BY <1>2 DEF UpdateListOfNodesToConnect
  <2>3. QED
    BY <2>1, <2>2, NetworkStep DEF Inv, TypeOK
<1>3. CASE ConnectNextAddress
  <2>1. nextAddress \in Nodes /\ nextAddress' \in Nodes \cup {NoNode}
    BY <1>3, PeersAssumption DEF Inv, TypeOK, ConnectNextAddress
  <2>2. connections' \in [ConnIds -> Connection \cup {NoConnection}]
    BY <1>3, <2>1, NewConnectionType DEF Inv, ConnectNextAddress
  <2>3. UNCHANGED <<tableVars, engineVars, wishList, statusEvents, requests, asked>>
    BY <1>3 DEF ConnectNextAddress
  <2>4. QED
    BY <2>1, <2>2, <2>3, NetworkStep DEF Inv, TypeOK
<1>4. QED
  BY <1>1, <1>2, <1>3

\* A peer connects.
LEMMA IncomingConnectionInv ==
    ASSUME Inv, NEW n \in Nodes, IncomingConnection(n)
    PROVE  Inv'
<1>1. connections' \in [ConnIds -> Connection \cup {NoConnection}]
  BY NewConnectionType DEF Inv, IncomingConnection
<1>2. QED
  BY <1>1, NetworkStep DEF Inv, TypeOK, IncomingConnection

\* A connection gets ready or closes.
LEMMA ConnectionInv ==
    ASSUME Inv, NEW c \in ConnIds,
           SocketReady(c) \/ ConnectionReady(c) \/ ConnectionClosed(c)
    PROVE  Inv'
<1>1. connections[c] \in Connection /\ connections[c].peer \in Nodes
  BY DEF Inv, TypeOK, SocketReady, ConnectionReady, ConnectionClosed, Alive, Connection
<1>2. connections' \in [ConnIds -> Connection \cup {NoConnection}]
  <2>1. \A s \in {"Open", "Ready"} : [connections[c] EXCEPT !.state = s] \in Connection
    BY <1>1 DEF Connection
  <2>2. connections \in [ConnIds -> Connection \cup {NoConnection}]
    BY DEF Inv, TypeOK
  <2>3. CASE SocketReady(c) \/ ConnectionReady(c)
    <3>1. PICK s \in {"Open", "Ready"} :
             connections' = [connections EXCEPT ![c] = [connections[c] EXCEPT !.state = s]]
      BY <2>3 DEF SocketReady, ConnectionReady
    <3>2. QED
      BY <2>1, <2>2, <3>1
  <2>4. CASE ConnectionClosed(c)
    BY <2>2, <2>4 DEF ConnectionClosed
  <2>5. QED
    BY <2>3, <2>4
<1>3. statusEvents' \in Seq(StatusEvent)
  <2>1. \A s \in {"Open", "Closing"} :
           [status |-> s, peer |-> connections[c].peer] \in StatusEvent
    BY <1>1 DEF StatusEvent
  <2>2. statusEvents \in Seq(StatusEvent)
    BY DEF Inv, TypeOK
  <2>3. \A s \in {"Open", "Closing"} :
           Append(statusEvents, [status |-> s, peer |-> connections[c].peer])
             \in Seq(StatusEvent)
    BY <2>1, <2>2, AppendProperties
  <2>4. QED
    BY <2>2, <2>3 DEF SocketReady, ConnectionReady, ConnectionClosed
<1>4. requests' \in SUBSET Request
  BY DEF Inv, TypeOK, SocketReady, ConnectionReady, ConnectionClosed
<1>5. UNCHANGED <<tableVars, engineVars, wishList, nextAddress, asked>>
  BY DEF SocketReady, ConnectionReady, ConnectionClosed
<1>6. QED
  BY <1>2, <1>3, <1>4, <1>5, NetworkStep DEF Inv, TypeOK

-----------------------------------------------------------------------------
\* Every step preserves the inductive invariant.
LEMMA NextInv == Inv /\ [Next]_vars => Inv'
<1> SUFFICES ASSUME Inv, [Next]_vars PROVE Inv'
  OBVIOUS
<1>1. CASE UNCHANGED vars
  <2>1. TypeOK' /\ CursorInRange'
    BY <1>1 DEF Inv, TypeOK, CursorInRange, vars, tableVars, engineVars, networkVars
  <2>2. QED
    BY <1>1, <2>1, OtherStep DEF vars, tableVars, engineVars
<1>2. CASE \E h \in Hashes, path \in BangPaths : AddItemToBePublished(h, path)
  BY <1>2, AddItemToBePublishedInv
<1>3. CASE Tick
  BY <1>3, TickInv
<1>4. CASE EngineStep
  BY <1>4, PickItemInv, DistributeNodeInv, SendConnectedNodeInv, CheckSuccessfulNodeInv,
     EngineMovesInv, AskForNodeInv, CheckFailedNodeInv, EndCheckFailureInv DEF EngineStep
<1>5. CASE NodeConnectionAttemptStatus
  BY <1>5, NodeConnectionAttemptStatusInv
<1>6. CASE \E r \in requests : ExecutePublishRequest(r)
  BY <1>6, ExecutePublishRequestInv
<1>7. CASE ServeWishListItem \/ UpdateListOfNodesToConnect \/ ConnectNextAddress
  BY <1>7, ConnectorInv
<1>8. CASE \E n \in Nodes : IncomingConnection(n)
  BY <1>8, IncomingConnectionInv
<1>9. CASE \E c \in ConnIds : SocketReady(c) \/ ConnectionReady(c) \/ ConnectionClosed(c)
  BY <1>9, ConnectionInv
<1>10. QED
  BY <1>1, <1>2, <1>3, <1>4, <1>5, <1>6, <1>7, <1>8, <1>9 DEF Next

\* The inductive invariant holds in every reachable state.
LEMMA SpecInv == Spec => []Inv
BY InitInv, NextInv, PTL DEF Spec

\* Every reachable state has the types stated.
THEOREM TypeCorrect == Spec => []TypeOK
<1>1. Inv => TypeOK
  BY DEF Inv
<1>2. QED
  BY <1>1, SpecInv, PTL

\* However the engine, the connections and the users' calls interleave, no
\* node is asked twice to take the same content until it is added anew.
THEOREM NodesAreAskedOnce == Spec => []AskedOnce
<1>1. Inv => AskedOnce
  BY DEF Inv, DataInv
<1>2. QED
  BY <1>1, SpecInv, PTL

\* The two rows of an ad never differ in their bangpath, which is what lets
\* addNodeToPublishedItem read any one of them and write both.
THEOREM RowsAlwaysAgree == Spec => []RowsAgree
<1>1. Inv => RowsAgree
  BY DEF Inv, DataInv
<1>2. QED
  BY <1>1, SpecInv, PTL

\* The engine never works on an item whose rows are gone.
THEOREM WorkItemAlwaysHasRow == Spec => []WorkItemHasRow
<1>1. Inv => WorkItemHasRow
  BY DEF Inv, DataInv
<1>2. QED
  BY <1>1, SpecInv, PTL

\* The engine's loops never index the candidate list outside its bounds.
THEOREM CursorStaysInRange == Spec => []CursorInRange
<1>1. Inv => CursorInRange
  BY DEF Inv
<1>2. QED
  BY <1>1, SpecInv, PTL

\* A node that was asked is in every bangpath kept for the content.
THEOREM AskedIsAlwaysRecorded == Spec => []AskedIsRecorded
<1>1. Inv => AskedIsRecorded
  BY DEF Inv, DataInv
<1>2. QED
  BY <1>1, SpecInv, PTL

-----------------------------------------------------------------------------
(***************************************************************************)
(* No candidate is waited for in vain, provided that the lists of          *)
(* candidates name nobody twice.  A step takes away one of the things that *)
(* are on their way to report on a node only if it puts the next one in    *)
(* its place.  In run() itself, two loops over the candidates each use one *)
(* of the two sets of noted results and clear it at the end: a candidate   *)
(* that a loop has passed no longer rests on the set of that loop.         *)
(***************************************************************************)

\* getNodesAfterHash returns no node twice.
NoRepeats == \A address \in Addresses : \A list \in NodesAfter[address] : IsInjective(list)

\* Nodes whose wish may be dropped without a word, and those something is on its
\* way to report on.
Excepted == Unroutable \cup Listed
Coming == {n \in Nodes : \/ Contains(wishList, n)
                         \/ WillReport(n)
                         \/ \E e \in ToSet(statusEvents) : e.peer = n}

\* The noted results that the i-th candidate may rest on.
Noted(i) ==
    IF pc = "success" /\ i > cursor THEN failed
    ELSE IF pc = "fail" /\ i > cursor THEN successful
    ELSE successful \cup failed

\* The candidates that were wished for.
WishedFor ==
    IF pc \in {"timer", "success", "failEntry", "fail"} THEN 1 .. Len(candidates)
    ELSE IF pc = "ask" THEN 1 .. (cursor - 1)
    ELSE {}

CandidatesAreWatched ==
    workItem # NoWork =>
       \A i \in WishedFor : candidates[i] \in Excepted \cup Coming \cup Noted(i)

\* Nobody is a candidate twice, and this node is none.
NobodyTwice ==
    /\ IsInjective(candidates)
    /\ IsInjective(nodesToTry)
    /\ ToSet(candidates) \cap ({Self} \cup ToSet(nodesToTry)) = {}

NextIsListed == nextAddress \in Listed \cup {NoNode}

WatchInv == CandidatesAreWatched /\ NobodyTwice /\ NextIsListed

LEMMA InitWatch == Init => WatchInv
<1> SUFFICES ASSUME Init PROVE WatchInv
  OBVIOUS
<1>1. CandidatesAreWatched /\ NextIsListed
  BY DEF Init, CandidatesAreWatched, NextIsListed
<1>2. NobodyTwice
  BY DEF Init, NobodyTwice, IsInjective, ToSet
<1>3. QED
  BY <1>1, <1>2 DEF WatchInv

\* A candidate is a node other than this one.
LEMMA CandidateIsNode ==
    ASSUME Inv, NobodyTwice, NEW i \in 1 .. Len(candidates)
    PROVE  candidates[i] \in Nodes
<1>1. candidates \in Seq(Peers) /\ DOMAIN candidates = 1 .. Len(candidates)
  BY LenProperties DEF Inv, TypeOK
<1>2. candidates[i] \in Peers /\ candidates[i] \in ToSet(candidates)
  BY <1>1, ElementOfSeq DEF ToSet
<1>3. QED
  BY <1>2 DEF NobodyTwice, Peers

-----------------------------------------------------------------------------
\* What the connector and the connections do: the engine is where it was, and
\* who was to be heard of still is.
LEMMA NetworkWatch ==
    ASSUME WatchInv, UNCHANGED engineVars, NextIsListed', Coming \subseteq Coming' \cup Excepted
    PROVE  WatchInv'
<1>1. WishedFor' = WishedFor /\ \A i : Noted(i)' = Noted(i)
  BY DEF WishedFor, Noted, engineVars
<1>2. CandidatesAreWatched'
  BY <1>1 DEF WatchInv, CandidatesAreWatched, engineVars
<1>3. NobodyTwice'
  BY DEF WatchInv, NobodyTwice, engineVars
<1>4. QED
  BY <1>2, <1>3 DEF WatchInv

\* A new connection is put where none was, so that the others still report;
\* an outgoing one does, too.
LEMMA NewConnectionReports ==
    ASSUME TypeOK, NEW n \in Nodes, NEW incoming \in BOOLEAN, NewConnection(n, incoming)
    PROVE  /\ \A m : WillReport(m) => WillReport(m)'
           /\ ~incoming => WillReport(n)'
<1> DEFINE new == [peer |-> n, incoming |-> incoming, state |-> "Initial"]
<1>1. PICK c \in ConnIds : c \notin Alive /\ connections' = [connections EXCEPT ![c] = new]
  BY DEF NewConnection, FreeId
<1>2. connections \in [ConnIds -> Connection \cup {NoConnection}]
  BY DEF TypeOK
<1>3. /\ new # NoConnection
      /\ new.peer = n /\ new.incoming = incoming /\ new.state = "Initial"
  BY DEF NoConnection
<1> HIDE DEF new
<1>4. connections'[c] = new /\ \A d \in Alive : d # c /\ connections'[d] = connections[d]
  BY <1>1, <1>2 DEF Alive
<1>5. c \in Alive' /\ Alive \subseteq Alive'
  BY <1>3, <1>4 DEF Alive
<1>6. ASSUME NEW m, WillReport(m) PROVE WillReport(m)'
  <2>1. PICK d \in Alive : /\ connections[d].peer = m
                           /\ connections[d].state # "Ready" /\ ~connections[d].incoming
    BY <1>6 DEF WillReport
  <2>2. QED
    BY <1>4, <1>5, <2>1 DEF WillReport
<1>7. ~incoming => WillReport(n)'
  BY <1>3, <1>4, <1>5 DEF WillReport
<1>8. QED
  BY <1>6, <1>7

LEMMA ConnectorWatch ==
    ASSUME Inv, WatchInv, ServeWishListItem \/ UpdateListOfNodesToConnect \/ ConnectNextAddress
    PROVE  WatchInv'
<1>1. CASE ServeWishListItem
  <2>1. wishList \in Seq(Nodes) /\ wishList # <<>> /\ wishList' = Tail(wishList)
    BY <1>1 DEF Inv, TypeOK, ServeWishListItem
  <2>2. PICK n \in Nodes : /\ n = Head(wishList)
                           /\ wishList' \in Seq(Nodes)
                           /\ ToSet(wishList) = {n} \cup ToSet(wishList')
    BY <2>1, TailMembers
  <2>3. /\ UNCHANGED <<engineVars, nextAddress, statusEvents>>
        /\ IF n \in Unroutable \/ n = nextAddress
           THEN UNCHANGED connections
           ELSE NewConnection(n, FALSE)
    BY <1>1, <2>2 DEF ServeWishListItem
  <2>4. NextIsListed' /\ (n = nextAddress => n \in Listed)
    BY <2>2, <2>3, PeersAssumption DEF WatchInv, NextIsListed, Peers
  <2>5. \A m \in Nodes : Contains(wishList, m) => m = n \/ Contains(wishList', m)
    BY <2>1, <2>2, ContainsMember
  <2>6. CASE n \in Unroutable \/ n = nextAddress
    <3>1. \A m : WillReport(m)' = WillReport(m)
      BY <2>3, <2>6 DEF WillReport, Alive
    <3>2. Coming \subseteq Coming' \cup Excepted
      BY <2>3, <2>4, <2>5, <2>6, <3>1 DEF Coming, Excepted
    <3>3. QED
      BY <2>3, <2>4, <3>2, NetworkWatch
  <2>7. CASE ~(n \in Unroutable \/ n = nextAddress)
    <3>1. /\ \A m : WillReport(m) => WillReport(m)'
          /\ WillReport(n)'
      BY <2>2, <2>3, <2>7, NewConnectionReports DEF Inv
    <3>2. Coming \subseteq Coming'
      BY <2>3, <2>5, <3>1 DEF Coming
    <3>3. QED
      BY <2>3, <2>4, <3>2, NetworkWatch
  <2>8. QED
    BY <2>6, <2>7
<1>2. CASE UpdateListOfNodesToConnect
  <2>1. NextIsListed'
    BY <1>2 DEF UpdateListOfNodesToConnect, NextIsListed
  <2>2. UNCHANGED <<engineVars, wishList, connections, statusEvents>>
    BY <1>2 DEF UpdateListOfNodesToConnect
  <2>3. Coming' = Coming
    BY <2>2 DEF Coming, WillReport, Alive
  <2>4. QED
    BY <2>1, <2>2, <2>3, NetworkWatch
<1>3. CASE ConnectNextAddress
  <2>1. /\ NextIsListed' /\ nextAddress \in Nodes
        /\ NewConnection(nextAddress, FALSE)
        /\ UNCHANGED <<engineVars, wishList, statusEvents>>
    BY <1>3 DEF ConnectNextAddress, NextIsListed, Inv, TypeOK
  <2>2. \A m : WillReport(m) => WillReport(m)'
    BY <2>1, NewConnectionReports DEF Inv
  <2>3. Coming \subseteq Coming'
    BY <2>1, <2>2 DEF Coming
  <2>4. QED
    BY <2>1, <2>3, NetworkWatch
<1>4. QED
  BY <1>1, <1>2, <1>3

\* A connection that came by itself changes nothing for those that are awaited.
LEMMA IncomingWatch ==
    ASSUME Inv, WatchInv, NEW n \in Nodes, IncomingConnection(n)
    PROVE  WatchInv'
<1>1. /\ NewConnection(n, TRUE)
      /\ UNCHANGED <<engineVars, wishList, nextAddress, statusEvents>>
  BY DEF IncomingConnection
<1>2. \A m : WillReport(m) => WillReport(m)'
  BY <1>1, NewConnectionReports DEF Inv
<1>3. Coming \subseteq Coming'
  BY <1>1, <1>2 DEF Coming
<1>4. QED
  BY <1>1, <1>3, NetworkWatch DEF WatchInv, NextIsListed

\* A connection reports before it no longer counts.
LEMMA ConnectionWatch ==
    ASSUME Inv, WatchInv, NEW c \in ConnIds,
           SocketReady(c) \/ ConnectionReady(c) \/ ConnectionClosed(c)
    PROVE  WatchInv'
<1> DEFINE conn == connections[c]
<1>1. /\ connections \in [ConnIds -> Connection \cup {NoConnection}]
      /\ statusEvents \in Seq(StatusEvent)
      /\ conn # NoConnection
  BY DEF Inv, TypeOK, SocketReady, ConnectionReady, ConnectionClosed, Alive
<1>2. /\ conn \in Connection /\ conn.peer \in Nodes
      /\ \A d \in ConnIds \ {c} : connections'[d] = connections[d]
      /\ UNCHANGED <<engineVars, wishList, nextAddress>>
  BY <1>1 DEF SocketReady, ConnectionReady, ConnectionClosed, Connection
<1>3. \A m : WillReport(m) => \/ WillReport(m)'
                              \/ m = conn.peer /\ conn.state # "Ready" /\ ~conn.incoming
  BY <1>2 DEF WillReport, Alive
<1>4. CASE SocketReady(c)
  <2>1. /\ connections' = [connections EXCEPT ![c].state = "Open"]
        /\ statusEvents' = statusEvents
    BY <1>4 DEF SocketReady
  <2>2. /\ connections'[c].peer = conn.peer /\ connections'[c].state = "Open"
        /\ connections'[c].incoming = conn.incoming
    BY <1>1, <1>2, <2>1 DEF Connection
  <2>3. connections'[c] # NoConnection
    BY <2>2 DEF NoConnection
  <2>4. \A m : WillReport(m) => WillReport(m)'
    BY <1>3, <2>2, <2>3 DEF WillReport, Alive
  <2>5. Coming \subseteq Coming'
    BY <1>2, <2>1, <2>4 DEF Coming
  <2>6. QED
    BY <1>2, <2>5, NetworkWatch DEF WatchInv, NextIsListed
<1>5. ASSUME NEW e \in StatusEvent, e.peer = conn.peer, statusEvents' = Append(statusEvents, e)
      PROVE  WatchInv'
  <2>1. ToSet(statusEvents') = ToSet(statusEvents) \cup {e}
    BY <1>1, <1>5, AppendMembers
  <2>2. Coming \subseteq Coming'
    BY <1>2, <1>3, <1>5, <2>1 DEF Coming
  <2>3. QED
    BY <1>2, <2>2, NetworkWatch DEF WatchInv, NextIsListed
<1>6. CASE ConnectionReady(c)
  <2> DEFINE e == [status |-> "Open", peer |-> conn.peer]
  <2>1. e \in StatusEvent /\ e.peer = conn.peer
    BY <1>2 DEF StatusEvent
  <2>2. statusEvents' = Append(statusEvents, e)
    BY <1>6 DEF ConnectionReady
  <2>3. QED
    BY <1>5, <2>1, <2>2
<1>7. CASE ConnectionClosed(c)
  <2> DEFINE e == [status |-> "Closing", peer |-> conn.peer]
  <2>1. e \in StatusEvent /\ e.peer = conn.peer
    BY <1>2 DEF StatusEvent
  <2>2. CASE conn.state = "Ready" \/ ~conn.incoming
    <3>1. statusEvents' = Append(statusEvents, e)
      BY <1>7, <2>2 DEF ConnectionClosed
    <3>2. QED
      BY <1>5, <2>1, <3>1
  <2>3. CASE ~(conn.state = "Ready" \/ ~conn.incoming)
    <3>1. statusEvents' = statusEvents
      BY <1>7, <2>3 DEF ConnectionClosed
    <3>2. Coming \subseteq Coming'
      BY <1>2, <1>3, <2>3, <3>1 DEF Coming
    <3>3. QED
      BY <1>2, <3>2, NetworkWatch DEF WatchInv, NextIsListed
  <2>4. QED
    BY <2>2, <2>3
<1>8. QED
  BY <1>4, <1>6, <1>7

-----------------------------------------------------------------------------
\* The slot notes what a report says of a candidate.
LEMMA StatusWatch ==
    ASSUME Inv, WatchInv, NodeConnectionAttemptStatus
    PROVE  WatchInv'
<1>1. /\ pc = "timer" /\ statusEvents # <<>> /\ statusEvents' = Tail(statusEvents)
      /\ UNCHANGED <<pc, cursor, nodesToTry, workItem, candidates, wishList, nextAddress,
                     connections>>
  BY DEF NodeConnectionAttemptStatus
<1>2. statusEvents \in Seq(StatusEvent) /\ candidates \in Seq(Peers)
  BY DEF Inv, TypeOK
<1>3. PICK e \in StatusEvent : /\ e = Head(statusEvents)
                               /\ ToSet(statusEvents) = {e} \cup ToSet(statusEvents')
  BY <1>1, <1>2, TailMembers
<1>4. Coming \subseteq Coming' \cup {e.peer}
  BY <1>1, <1>3 DEF Coming, WillReport, Alive
<1>5. /\ successful \cup failed \subseteq successful' \cup failed'
      /\ Contains(candidates, e.peer) => e.peer \in successful' \cup failed'
  BY <1>3 DEF NodeConnectionAttemptStatus
<1>6. ASSUME workItem' # NoWork, NEW i \in WishedFor'
      PROVE  candidates'[i] \in Excepted \cup Coming' \cup Noted(i)'
  <2>1. /\ i \in WishedFor /\ i \in 1 .. Len(candidates)
        /\ Noted(i) = successful \cup failed /\ Noted(i)' = successful' \cup failed'
    BY <1>1, <1>6 DEF WishedFor, Noted
  <2>2. candidates[i] \in Excepted \cup Coming \cup successful \cup failed
    BY <1>1, <1>6, <2>1 DEF WatchInv, CandidatesAreWatched
  <2>3. candidates[i] = e.peer => Contains(candidates, e.peer)
    BY <1>2, <2>1, ContainsMember, LenProperties DEF ToSet
  <2>4. QED
    BY <1>1, <1>4, <1>5, <2>1, <2>2, <2>3
<1>7. QED
  BY <1>1, <1>6 DEF WatchInv, CandidatesAreWatched, NobodyTwice, NextIsListed

-----------------------------------------------------------------------------
\* run(). It leaves the network alone, but for the wish list.
LEMMA ComingStays ==
    ASSUME UNCHANGED networkVars
    PROVE  Coming' = Coming /\ (NextIsListed => NextIsListed')
BY DEF Coming, WillReport, Alive, NextIsListed, networkVars

LEMMA PickItemWatch ==
    ASSUME NoRepeats, Inv, WatchInv, NEW key \in DOMAIN publish, PickItem(key)
    PROVE  WatchInv'
<1>1. UNCHANGED networkVars
  BY DEF PickItem
<1>2. AddressOf(key) \in Addresses
  BY DEF Inv, TypeOK, RowKeys, AddressOf, Addresses, Hashes, Row
<1>3. PICK list \in NodesAfter[AddressOf(key)] :
         IF list = <<>>
         THEN UNCHANGED <<pc, nodesToTry, workItem, candidates>>
         ELSE /\ nodesToTry' = list
              /\ candidates' = <<>>
              /\ workItem' = [hash |-> key[2], pushed |-> publish[key].bangpath]
              /\ pc' = "distribute"
  BY DEF PickItem
<1>4. CASE list = <<>>
  <2>1. CandidatesAreWatched'
    BY <1>3, <1>4 DEF PickItem, CandidatesAreWatched
  <2>2. QED
    BY <1>1, <1>3, <1>4, <2>1, ComingStays DEF WatchInv, NobodyTwice
<1>5. CASE list # <<>>
  <2>1. CandidatesAreWatched'
    BY <1>3, <1>5 DEF CandidatesAreWatched, WishedFor
  <2>2. IsInjective(nodesToTry')
    BY <1>2, <1>3, <1>5 DEF NoRepeats
  <2>3. IsInjective(candidates') /\ ToSet(candidates') = {}
    BY <1>3, <1>5 DEF IsInjective, ToSet
  <2>4. QED
    BY <1>1, <2>1, <2>2, <2>3, ComingStays DEF WatchInv, NobodyTwice
<1>6. QED
  BY <1>4, <1>5

\* publishToNode takes a candidate out of the list, and nobody else's result is
\* taken away.
LEMMA PublishToNodeWatch ==
    ASSUME Inv, WatchInv, NEW n \in Peers, NEW dangling, PublishToNode(n, dangling)
    PROVE  /\ successful \subseteq successful' \cup {n}
           /\ failed \subseteq failed' \cup {n}
           /\ \A i \in 1 .. Len(candidates) :
                 candidates[i] = n => candidates' = RemoveAt(candidates, i)
           /\ n \notin ToSet(candidates) => candidates' = candidates
<1>1. candidates \in Seq(Peers) /\ DOMAIN candidates = 1 .. Len(candidates)
  BY LenProperties DEF Inv, TypeOK
<1>2. successful \subseteq successful' \cup {n} /\ failed \subseteq failed' \cup {n}
  BY DEF PublishToNode
<1>3. ASSUME NEW i \in 1 .. Len(candidates), candidates[i] = n
      PROVE  candidates' = RemoveAt(candidates, i)
  <2>1. Contains(candidates, n)
    BY <1>1, <1>3, ContainsMember DEF ToSet
  <2>2. PICK k \in 1 .. Len(candidates) : /\ candidates[k] = n
                                          /\ candidates' = RemoveAt(candidates, k)
    BY <2>1 DEF PublishToNode, RemoveCandidate
  <2>3. k = i
    BY <1>1, <1>3, <2>2 DEF WatchInv, NobodyTwice, IsInjective
  <2>4. QED
    BY <2>2, <2>3
<1>4. n \notin ToSet(candidates) => candidates' = candidates
  BY <1>1, ContainsMember DEF PublishToNode, RemoveCandidate
<1>5. QED
  BY <1>2, <1>3, <1>4

\* The first loop gathers those to be wished for.
LEMMA DistributeNodeWatch ==
    ASSUME Inv, WatchInv, DistributeNode
    PROVE  WatchInv'
<1>1. /\ pc = "distribute" /\ pc' = pc /\ UNCHANGED networkVars
      /\ nodesToTry # <<>> /\ nodesToTry' = Tail(nodesToTry)
      /\ nodesToTry \in Seq(Peers) /\ candidates \in Seq(Peers)
  BY DEF DistributeNode, Inv, TypeOK
<1>2. PICK n \in Peers : n = Head(nodesToTry)
  BY <1>1, TailMembers
<1>3. /\ ToSet(nodesToTry) = {n} \cup ToSet(nodesToTry')
      /\ IsInjective(nodesToTry') /\ n \notin ToSet(nodesToTry')
  <2>1. /\ nodesToTry' \in Seq(Peers) /\ Len(nodesToTry') = Len(nodesToTry) - 1
        /\ \A i \in 1 .. Len(nodesToTry') : nodesToTry'[i] = nodesToTry[i + 1]
        /\ Head(nodesToTry) = nodesToTry[1]
    BY <1>1, HeadTailProperties
  <2>2. /\ DOMAIN nodesToTry = 1 .. Len(nodesToTry) /\ Len(nodesToTry) \in Nat
        /\ DOMAIN nodesToTry' = 1 .. Len(nodesToTry')
        /\ Len(nodesToTry) # 0
    BY <1>1, <2>1, LenProperties, EmptySeq
  <2>3. \A i, j \in DOMAIN nodesToTry : nodesToTry[i] = nodesToTry[j] => i = j
    BY DEF WatchInv, NobodyTwice, IsInjective
  <2>4. IsInjective(nodesToTry')
    BY <2>1, <2>2, <2>3 DEF IsInjective
  <2>5. n \notin ToSet(nodesToTry')
    BY <1>2, <2>1, <2>2, <2>3 DEF ToSet
  <2>6. QED
    BY <1>1, <1>2, <2>4, <2>5, TailMembers
<1>4. CandidatesAreWatched'
  BY <1>1 DEF CandidatesAreWatched, WishedFor
<1>5. CASE candidates' = candidates
  BY <1>1, <1>3, <1>4, <1>5, ComingStays DEF WatchInv, NobodyTwice
<1>6. CASE candidates' = Append(candidates, n) /\ n # Self
  <2>1. /\ ToSet(candidates') = ToSet(candidates) \cup {n}
        /\ IsInjective(candidates')
    BY <1>1, <1>3, <1>6, AppendMembers DEF WatchInv, NobodyTwice
  <2>2. QED
    BY <1>1, <1>3, <1>4, <1>6, <2>1, ComingStays DEF WatchInv, NobodyTwice
<1>7. CASE PublishToNode(n, FALSE)
  <2>1. n \notin ToSet(candidates)
    BY <1>3 DEF WatchInv, NobodyTwice
  <2>2. QED
    BY <1>5, <1>7, <2>1, PublishToNodeWatch
<1>8. QED
  BY <1>2, <1>5, <1>6, <1>7 DEF DistributeNode, IsNodeAlreadyConnected

\* One turn of a loop over the candidates that takes the one at the cursor out:
\* those behind it move up, and the results of the others are kept.
LEMMA CandidateTakenOut ==
    ASSUME Inv, WatchInv, UNCHANGED networkVars,
           pc \in {"sendConnected", "success", "fail"}, pc' = pc,
           workItem # NoWork,
           cursor \in 1 .. Len(candidates), cursor' = cursor - 1,
           candidates' = RemoveAt(candidates, cursor), nodesToTry' = nodesToTry,
           successful \subseteq successful' \cup {candidates[cursor]},
           failed \subseteq failed' \cup {candidates[cursor]}
    PROVE  WatchInv'
<1>1. candidates \in Seq(Peers) /\ DOMAIN candidates = 1 .. Len(candidates)
      /\ Len(candidates) \in Nat
  BY LenProperties DEF Inv, TypeOK
<1>2. IsInjective(candidates)
  BY DEF WatchInv, NobodyTwice
<1>3. /\ candidates' \in Seq(Peers)
      /\ ToSet(candidates') = ToSet(candidates) \ {candidates[cursor]}
      /\ IsInjective(candidates')
  BY <1>1, <1>2, RemoveAtMembers
<1>4. /\ Len(candidates') = Len(candidates) - 1
      /\ \A j \in 1 .. (Len(candidates) - 1) :
            candidates'[j] = IF j < cursor THEN candidates[j] ELSE candidates[j + 1]
  BY <1>1, RemoveAtProperties, RemoveAtEntries
<1>5. Coming' = Coming /\ NextIsListed'
  BY ComingStays DEF WatchInv
<1>6. ASSUME workItem' # NoWork, NEW i \in WishedFor'
      PROVE  candidates'[i] \in Excepted \cup Coming' \cup Noted(i)'
  <2>1. pc \in {"success", "fail"} /\ i \in 1 .. (Len(candidates) - 1)
    BY <1>4, <1>6 DEF WishedFor
  <2>2. PICK j \in 1 .. Len(candidates) : /\ candidates'[i] = candidates[j]
                                          /\ j = IF i < cursor THEN i ELSE i + 1
    BY <1>1, <1>4, <2>1
  <2>3. candidates[j] \in Excepted \cup Coming \cup Noted(j)
    BY <2>1 DEF WatchInv, CandidatesAreWatched, WishedFor
  <2>4. candidates[j] # candidates[cursor]
    BY <1>1, <1>2, <2>1, <2>2 DEF IsInjective
  <2>5. j > cursor <=> i > cursor'
    BY <2>1, <2>2
  <2>6. Noted(j) \subseteq Noted(i)' \cup {candidates[cursor]}
    BY <2>5 DEF Noted
  <2>7. QED
    BY <1>5, <2>2, <2>3, <2>4, <2>6
<1>7. NobodyTwice'
  BY <1>3 DEF WatchInv, NobodyTwice
<1>8. QED
  BY <1>5, <1>6, <1>7 DEF WatchInv, CandidatesAreWatched

\* One turn of such a loop that leaves the candidate at the cursor where it is,
\* as it has no result in the set the loop uses.
LEMMA CandidateLeft ==
    ASSUME Inv, WatchInv, UNCHANGED networkVars,
           pc \in {"sendConnected", "success", "fail"}, pc' = pc,
           cursor \in 1 .. Len(candidates), cursor' = cursor - 1,
           UNCHANGED <<workItem, candidates, nodesToTry, successful, failed>>,
           pc = "success" => candidates[cursor] \notin successful,
           pc = "fail" => candidates[cursor] \notin failed
    PROVE  WatchInv'
<1>1. Coming' = Coming /\ NextIsListed'
  BY ComingStays DEF WatchInv
<1>2. ASSUME workItem' # NoWork, NEW i \in WishedFor'
      PROVE  candidates'[i] \in Excepted \cup Coming' \cup Noted(i)'
  <2>1. pc \in {"success", "fail"} /\ i \in 1 .. Len(candidates) /\ i \in WishedFor
    BY <1>2 DEF WishedFor
  <2>2. candidates[i] \in Excepted \cup Coming \cup Noted(i)
    BY <1>2, <2>1 DEF WatchInv, CandidatesAreWatched
  <2>3. Len(candidates) \in Nat
    BY LenProperties DEF Inv, TypeOK
  <2>4. CASE i = cursor
    BY <1>1, <2>1, <2>2, <2>4 DEF Noted
  <2>5. CASE i # cursor
    <3>1. i > cursor <=> i > cursor'
      BY <2>1, <2>3, <2>5
    <3>2. Noted(i)' = Noted(i)
      BY <3>1 DEF Noted
    <3>3. QED
      BY <1>1, <2>2, <3>2
  <2>6. QED
    BY <2>4, <2>5
<1>3. QED
  BY <1>1, <1>2 DEF WatchInv, CandidatesAreWatched, NobodyTwice

LEMMA SendConnectedNodeWatch ==
    ASSUME Inv, WatchInv, SendConnectedNode
    PROVE  WatchInv'
<1>1. /\ cursor \in 1 .. Len(candidates) /\ candidates \in Seq(Peers)
      /\ workItem # NoWork /\ pc = "sendConnected"
      /\ cursor' = cursor - 1
      /\ UNCHANGED <<now, pc, nodesToTry, networkVars>>
  BY DEF Inv, TypeOK, CursorInRange, SendConnectedNode
<1>2. PICK n \in Peers : n = candidates[cursor]
  BY <1>1, ElementOfSeq
<1>3. CASE UNCHANGED <<publish, workItem, requests, asked, candidates, successful, failed>>
  BY <1>1, <1>3, CandidateLeft
<1>4. CASE candidates' = RemoveAt(candidates, cursor) /\ UNCHANGED <<successful, failed>>
  BY <1>1, <1>4, CandidateTakenOut
<1>5. CASE PublishToNode(n, TRUE)
  <2>1. candidates' = RemoveAt(candidates, cursor)
        /\ successful \subseteq successful' \cup {n} /\ failed \subseteq failed' \cup {n}
    BY <1>1, <1>2, <1>5, PublishToNodeWatch
  <2>2. QED
    BY <1>1, <1>2, <2>1, CandidateTakenOut
<1>6. QED
  BY <1>2, <1>3, <1>4, <1>5 DEF SendConnectedNode

LEMMA CheckSuccessfulNodeWatch ==
    ASSUME Inv, WatchInv, CheckSuccessfulNode
    PROVE  WatchInv'
<1>1. /\ cursor \in 1 .. Len(candidates) /\ candidates \in Seq(Peers)
      /\ workItem # NoWork /\ pc = "success"
      /\ cursor' = cursor - 1
      /\ UNCHANGED <<now, pc, nodesToTry, networkVars>>
  BY DEF Inv, TypeOK, CursorInRange, CheckSuccessfulNode
<1>2. PICK n \in Peers : n = candidates[cursor]
  BY <1>1, ElementOfSeq
<1>3. CASE n \in successful
  <2>1. PublishToNode(n, TRUE)
    BY <1>2, <1>3 DEF CheckSuccessfulNode
  <2>2. candidates' = RemoveAt(candidates, cursor)
        /\ successful \subseteq successful' \cup {n} /\ failed \subseteq failed' \cup {n}
    BY <1>1, <1>2, <2>1, PublishToNodeWatch
  <2>3. QED
    BY <1>1, <1>2, <2>2, CandidateTakenOut
<1>4. CASE n \notin successful
  <2>1. UNCHANGED <<publish, workItem, requests, asked, candidates, successful, failed>>
    BY <1>2, <1>4 DEF CheckSuccessfulNode
  <2>2. QED
    BY <1>1, <1>2, <1>4, <2>1, CandidateLeft
<1>5. QED
  BY <1>3, <1>4

LEMMA CheckFailedNodeWatch ==
    ASSUME Inv, WatchInv, CheckFailedNode
    PROVE  WatchInv'
<1>1. /\ cursor \in 1 .. Len(candidates) /\ workItem # NoWork /\ pc = "fail"
      /\ cursor' = cursor - 1
      /\ UNCHANGED <<pc, nodesToTry, workItem, successful, failed, networkVars>>
  BY DEF Inv, TypeOK, CursorInRange, CheckFailedNode
<1>2. CASE candidates[cursor] \in failed
  <2>1. candidates' = RemoveAt(candidates, cursor)
    BY <1>2 DEF CheckFailedNode
  <2>2. QED
    BY <1>1, <2>1, CandidateTakenOut
<1>3. CASE candidates[cursor] \notin failed
  <2>1. candidates' = candidates
    BY <1>3 DEF CheckFailedNode
  <2>2. QED
    BY <1>1, <1>3, <2>1, CandidateLeft
<1>4. QED
  BY <1>2, <1>3

\* A wish for each candidate.
LEMMA AskForNodeWatch ==
    ASSUME Inv, WatchInv, AskForNode
    PROVE  WatchInv'
<1>1. /\ pc = "ask" /\ cursor \in 1 .. Len(candidates) /\ cursor' = cursor + 1
      /\ UNCHANGED <<pc, nodesToTry, workItem, candidates, successful, failed,
                     nextAddress, connections, statusEvents>>
  BY DEF Inv, CursorInRange, AskForNode
<1>2. PICK n \in Nodes : n = candidates[cursor]
  BY <1>1, CandidateIsNode DEF WatchInv
<1>3. wishList \in Seq(Nodes)
  BY DEF Inv, TypeOK
<1>4. /\ \A m \in Nodes : Contains(wishList, m) => Contains(wishList', m)
      /\ Contains(wishList', n)
  <2>1. wishList' = IF Contains(wishList, n) THEN wishList ELSE Append(wishList, n)
    BY <1>2, PeersAssumption DEF AskForNode, AddNodeToConnectionWishList
  <2>2. /\ Append(wishList, n) \in Seq(Nodes)
        /\ ToSet(Append(wishList, n)) = ToSet(wishList) \cup {n}
    BY <1>3, AppendMembers
  <2>3. QED
    BY <1>3, <2>1, <2>2, ContainsMember
<1>5. Coming \cup {n} \subseteq Coming'
  BY <1>1, <1>4 DEF Coming, WillReport, Alive
<1>6. ASSUME workItem' # NoWork, NEW i \in WishedFor'
      PROVE  candidates'[i] \in Excepted \cup Coming' \cup Noted(i)'
  <2>1. i \in 1 .. cursor /\ Noted(i)' = Noted(i)
    BY <1>1, <1>6 DEF WishedFor, Noted
  <2>2. CASE i = cursor
    BY <1>1, <1>2, <1>5, <2>2
  <2>3. CASE i # cursor
    <3>1. i \in WishedFor
      BY <1>1, <2>1, <2>3 DEF WishedFor
    <3>2. QED
      BY <1>1, <1>5, <1>6, <2>1, <3>1 DEF WatchInv, CandidatesAreWatched
  <2>4. QED
    BY <2>2, <2>3
<1>7. QED
  BY <1>1, <1>6 DEF WatchInv, CandidatesAreWatched, NobodyTwice, NextIsListed

\* run() moves on. The results used up are forgotten, and no candidate that is
\* left rests on them.
LEMMA EngineMovesWatch ==
    ASSUME Inv, WatchInv,
           \/ EndDistribute \/ BeginSendConnected \/ EndSendConnected
           \/ BeginAsk \/ EndAsk \/ BeginCheckSuccess \/ EndCheckSuccess
           \/ BeginCheckFailure \/ EndCheckFailure
    PROVE  WatchInv'
<1>1. UNCHANGED <<networkVars, nodesToTry, candidates>>
  BY DEF EndDistribute, BeginSendConnected, EndSendConnected, BeginAsk, EndAsk,
         BeginCheckSuccess, EndCheckSuccess, BeginCheckFailure, EndCheckFailure
<1>2. Coming' = Coming /\ NextIsListed' /\ NobodyTwice'
  BY <1>1, ComingStays DEF WatchInv, NobodyTwice
<1>3. Len(candidates) \in Nat /\ cursor \in Nat
  BY LenProperties DEF Inv, TypeOK
<1>4. SUFFICES ASSUME workItem' # NoWork, NEW i \in WishedFor'
               PROVE  candidates'[i] \in Excepted \cup Coming' \cup Noted(i)'
  BY <1>2 DEF WatchInv, CandidatesAreWatched
<1>5. i \in WishedFor /\ workItem # NoWork => candidates[i] \in Excepted \cup Coming \cup Noted(i)
  BY DEF WatchInv, CandidatesAreWatched
<1>6. CASE EndDistribute \/ BeginSendConnected \/ EndSendConnected
  BY <1>4, <1>6 DEF EndDistribute, BeginSendConnected, EndSendConnected, WishedFor
<1>7. CASE BeginAsk
  BY <1>4, <1>7 DEF BeginAsk, WishedFor
<1>8. CASE EndAsk
  <2>1. /\ pc = "ask" /\ pc' = "timer" /\ cursor > Len(candidates)
        /\ UNCHANGED <<workItem, successful, failed>>
    BY <1>8 DEF EndAsk
  <2>2. i \in WishedFor /\ Noted(i)' = Noted(i)
    BY <1>1, <1>3, <1>4, <2>1 DEF WishedFor, Noted
  <2>3. QED
    BY <1>1, <1>2, <1>4, <1>5, <2>1, <2>2
<1>9. CASE BeginCheckSuccess \/ BeginCheckFailure
  <2>1. /\ pc \in {"timer", "failEntry"} /\ pc' \in {"success", "fail"}
        /\ cursor' = Len(candidates)
        /\ UNCHANGED <<workItem, successful, failed>>
    BY <1>9 DEF BeginCheckSuccess, BeginCheckFailure
  <2>2. i \in WishedFor /\ Noted(i)' = Noted(i)
    BY <1>1, <1>3, <1>4, <2>1 DEF WishedFor, Noted
  <2>3. QED
    BY <1>1, <1>2, <1>4, <1>5, <2>1, <2>2
<1>10. CASE EndCheckSuccess
  <2>1. /\ pc = "success" /\ pc' = "failEntry" /\ UNCHANGED <<workItem, failed>>
        /\ cursor = 0 \/ workItem = NoWork
    BY <1>10 DEF EndCheckSuccess
  <2>2. i \in WishedFor /\ Noted(i) \subseteq Noted(i)'
    BY <1>1, <1>3, <1>4, <2>1 DEF WishedFor, Noted
  <2>3. QED
    BY <1>1, <1>2, <1>4, <1>5, <2>1, <2>2
<1>11. CASE EndCheckFailure
  <2>1. /\ pc = "fail" /\ pc' = "timer" /\ UNCHANGED successful
        /\ cursor = 0 \/ workItem = NoWork
        /\ workItem' \in {workItem, NoWork}
    BY <1>11 DEF EndCheckFailure
  <2>2. i \in WishedFor /\ Noted(i) \subseteq Noted(i)'
    BY <1>1, <1>3, <1>4, <2>1 DEF WishedFor, Noted
  <2>3. QED
    BY <1>1, <1>2, <1>4, <1>5, <2>1, <2>2
<1>12. QED
  BY <1>6, <1>7, <1>8, <1>9, <1>10, <1>11

LEMMA NextWatch ==
    ASSUME NoRepeats, Inv, WatchInv, [Next]_vars
    PROVE  WatchInv'
<1>1. CASE UNCHANGED <<engineVars, networkVars>>
  BY <1>1, ComingStays, NetworkWatch DEF WatchInv
<1>2. CASE (\E h \in Hashes, path \in BangPaths : AddItemToBePublished(h, path)) \/ Tick
           \/ (\E r \in requests : ExecutePublishRequest(r)) \/ UNCHANGED vars
  BY <1>1, <1>2 DEF AddItemToBePublished, Tick, ExecutePublishRequest, vars
<1>3. CASE EngineStep
  BY <1>3, PickItemWatch, DistributeNodeWatch, SendConnectedNodeWatch, AskForNodeWatch,
     CheckSuccessfulNodeWatch, CheckFailedNodeWatch, EngineMovesWatch DEF EngineStep
<1>4. CASE NodeConnectionAttemptStatus
  BY <1>4, StatusWatch
<1>5. CASE ServeWishListItem \/ UpdateListOfNodesToConnect \/ ConnectNextAddress
  BY <1>5, ConnectorWatch
<1>6. CASE \E n \in Nodes : IncomingConnection(n)
  BY <1>6, IncomingWatch
<1>7. CASE \E c \in ConnIds : SocketReady(c) \/ ConnectionReady(c) \/ ConnectionClosed(c)
  BY <1>7, ConnectionWatch
<1>8. QED
  BY <1>2, <1>3, <1>4, <1>5, <1>6, <1>7 DEF Next

\* If no list of candidates names a node twice, the engine never waits for one of
\* which nothing is on its way to report: the wake-up is not lost, whatever the
\* connector, the connections, and the reports in between do, and in which order.
THEOREM NobodyIsWaitedForInVain ==
    ASSUME NoRepeats
    PROVE  Spec => []NoOrphanCandidate
<1>1. Init => Inv /\ WatchInv
  BY InitInv, InitWatch
<1>2. Inv /\ WatchInv /\ [Next]_vars => (Inv /\ WatchInv)'
  BY NextInv, NextWatch
<1>3. Inv /\ WatchInv => NoOrphanCandidate
  <2>1. SUFFICES ASSUME Inv, WatchInv, pc = "timer", workItem # NoWork,
                        NEW n \in ToSet(candidates) \ (Unroutable \cup Listed)
                 PROVE  \/ Contains(wishList, n)
                        \/ WillReport(n)
                        \/ \E i \in DOMAIN statusEvents : statusEvents[i].peer = n
                        \/ n \in successful \cup failed
    BY DEF NoOrphanCandidate
  <2>2. candidates \in Seq(Peers) /\ DOMAIN candidates = 1 .. Len(candidates)
    BY <2>1, LenProperties DEF Inv, TypeOK
  <2>3. PICK i \in 1 .. Len(candidates) : n = candidates[i]
    BY <2>1, <2>2 DEF ToSet
  <2>4. n \in Coming \cup successful \cup failed
    BY <2>1, <2>3 DEF WatchInv, CandidatesAreWatched, WishedFor, Noted, Excepted
  <2>5. QED
    BY <2>4 DEF Coming, ToSet
<1>4. QED
  BY <1>1, <1>2, <1>3, PTL DEF Spec
=============================================================================
