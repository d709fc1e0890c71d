---------------------------- MODULE ContentProofs ----------------------------
(***************************************************************************)
(* Proofs about Content, for any content, senders, limits and number of    *)
(* arrivals: the counters cover the tables, and a fill leaves nothing out  *)
(* that was due at its start.                                              *)
(*                                                                         *)
(* The number of rows of a table is the size of a set, one element for     *)
(* each copy, so that a table that lost rows is compared with the table    *)
(* before by inclusion.                                                    *)
(***************************************************************************)
EXTENDS Content, FiniteSetTheorems, TLAPS

-----------------------------------------------------------------------------
(***************************************************************************)
(* Counting rows.                                                          *)
(***************************************************************************)

\* What the rows of a table are.
LEMMA RowOfTable ==
    ASSUME NEW items, NEW copies, \A i \in items : copies[i] \in Nat
    PROVE  /\ \A i, k : <<i, k>> \in RowsOf(items, copies) <=> i \in items /\ k \in 1 .. copies[i]
           /\ \A p \in RowsOf(items, copies) : p = <<p[1], p[2]>>
BY DEF RowsOf

\* A table with finitely many items is finite.
LEMMA RowsAreFinite ==
    ASSUME NEW items \in SUBSET Items, NEW copies, \A i \in items : copies[i] \in Nat
    PROVE  /\ IsFiniteSet(RowsOf(items, copies))
           /\ Cardinality(RowsOf(items, copies)) \in Nat
<1> DEFINE Of1(i) == {i} \X (1 .. copies[i])
           Parts == {Of1(i) : i \in items}
           f == [i \in items |-> Of1(i)]
<1>1. IsFiniteSet(items)
  BY ContentAssumption, FS_Subset
<1>2. f \in Surjection(items, Parts)
  BY DEF Surjection
<1>3. IsFiniteSet(Parts)
  <2> HIDE DEF f, Parts
  <2> QED BY <1>1, <1>2, FS_Surjection
<1>4. ASSUME NEW i \in items PROVE IsFiniteSet(Of1(i))
  <2>1. IsFiniteSet({i})
    BY FS_Singleton
  <2>2. copies[i] \in Int /\ 1 \in Int
    OBVIOUS
  <2>3. IsFiniteSet(1 .. copies[i])
    BY ONLY <2>2, FS_Interval
  <2>4. QED
    BY <2>1, <2>3, FS_Product
<1>5. \A P \in Parts : IsFiniteSet(P)
  <2> HIDE DEF Of1
  <2> QED BY <1>4
<1>6. RowsOf(items, copies) = UNION Parts
  BY DEF RowsOf
<1>7. IsFiniteSet(UNION Parts)
  <2> HIDE DEF Parts
  <2> QED BY <1>3, <1>5, FS_UNION
<1>8. QED
  BY <1>6, <1>7, FS_CardinalityType

\* A table that lost copies has no more rows.
LEMMA FewerRows ==
    ASSUME NEW items \in SUBSET Items, NEW before, NEW after,
           \A i \in items : before[i] \in Nat /\ after[i] \in Nat,
           \A i \in items : after[i] <= before[i]
    PROVE  Cardinality(RowsOf(items, after)) <= Cardinality(RowsOf(items, before))
<1>1. RowsOf(items, after) \subseteq RowsOf(items, before)
  BY DEF RowsOf
<1>2. QED
  BY <1>1, RowsAreFinite, FS_Subset

\* A table with one copy more of each of some items has no more rows than one
\* for each of these besides those it had.
LEMMA RowsMore ==
    ASSUME NEW items \in SUBSET Items, NEW before, NEW after, NEW added \in SUBSET items,
           \A i \in items : before[i] \in Nat /\ after[i] \in Nat,
           \A i \in items : after[i] <= before[i] \/ (i \in added /\ after[i] = before[i] + 1)
    PROVE  /\ Cardinality(added) \in Nat
           /\ Cardinality(RowsOf(items, after))
                <= Cardinality(RowsOf(items, before)) + Cardinality(added)
<1> DEFINE last == [i \in added |-> <<i, before[i] + 1>>]
           New == {<<i, before[i] + 1>> : i \in added}
<1>1. IsFiniteSet(added) /\ Cardinality(added) \in Nat
  BY ContentAssumption, FS_Subset, FS_CardinalityType
<1>2. last \in Surjection(added, New)
  BY DEF Surjection
<1>3. IsFiniteSet(New) /\ Cardinality(New) <= Cardinality(added) /\ Cardinality(New) \in Nat
  <2> HIDE DEF last, New
  <2> QED BY <1>1, <1>2, FS_Surjection, FS_CardinalityType
<1> DEFINE Old == RowsOf(items, before)
<1>4. RowsOf(items, after) \subseteq Old \cup New
  BY DEF RowsOf
<1>5. IsFiniteSet(Old) /\ Cardinality(Old) \in Nat
  BY RowsAreFinite
<1>6. /\ IsFiniteSet(Old \cup New)
      /\ Cardinality(Old \cup New) <= Cardinality(Old) + Cardinality(New)
      /\ Cardinality(Old \cup New) \in Nat
  <2> HIDE DEF Old, New
  <2>1. Cardinality(Old \cap New) \in Nat
    BY <1>3, FS_Intersection, FS_CardinalityType
  <2>2. /\ IsFiniteSet(Old \cup New)
        /\ Cardinality(Old \cup New)
             = Cardinality(Old) + Cardinality(New) - Cardinality(Old \cap New)
    BY <1>3, <1>5, FS_Union
  <2> QED BY <2>1, <2>2, <1>3, <1>5, FS_CardinalityType
<1>7. Cardinality(RowsOf(items, after)) <= Cardinality(Old \cup New)
  <2> HIDE DEF Old, New
  <2> QED BY <1>4, <1>6, FS_Subset
<1>8. Cardinality(RowsOf(items, after)) \in Nat
  BY RowsAreFinite
<1>9. QED
  <2> HIDE DEF Old, New
  <2>1. Cardinality(RowsOf(items, after)) <= Cardinality(Old) + Cardinality(added)
    BY <1>1, <1>3, <1>5, <1>6, <1>7, <1>8
  <2> QED BY <1>1, <2>1 DEF Old

\* The number of rows of a table, and of the part of it that may be cut.
LEMMA NumberIsNatural ==
    ASSUME TypeOK, NEW items \in SUBSET Items
    PROVE  Cardinality(RowsOf(items, Copies)) \in Nat
<1>1. \A i \in items : Copies[i] \in Nat
  BY DEF TypeOK, Row, Copies
<1>2. QED
  BY <1>1, RowsAreFinite

-----------------------------------------------------------------------------
(***************************************************************************)
(* Types.                                                                  *)
(***************************************************************************)

\* Rows that the operations write.
LEMMA RowsWritten ==
    ASSUME TypeOK
    PROVE  /\ NoRow \in Row /\ KeyRow \in Row
           /\ NotConnected \in Link
           /\ \A kind \in Kinds : NumberOfRows(kind) \in Nat
           /\ now \in Times /\ now \in Nat /\ 1 .. now \subseteq Times
<1>1. now \in Times /\ now \in Nat /\ 1 .. now \subseteq Times /\ 0 \in Times
  BY ContentAssumption DEF TypeOK, Times
<1>2. NoRow \in Row /\ KeyRow \in Row
  BY <1>1 DEF NoRow, KeyRow, Row
<1>3. NotConnected \in Link
  BY <1>1 DEF NotConnected, Link, Stages
<1>4. ASSUME NEW kind \in Kinds PROVE NumberOfRows(kind) \in Nat
  BY NumberIsNatural DEF NumberOfRows, Of
<1>5. QED
  BY <1>1, <1>2, <1>3, <1>4

\* What a message brings is a row, and so is a changed key.
LEMMA StoredIsRow ==
    ASSUME TypeOK, NEW m,
           m.version \in Times, m.stamp \in Times, m.intact \in BOOLEAN,
           m.from \in Senders \cup {NoSender}
    PROVE  Stored(m) \in Row
<1>1. now \in Times
  BY RowsWritten
<1>2. QED
  BY <1>1 DEF Stored, Row

LEMMA TableWithKey ==
    ASSUME TypeOK, NEW i \in Items, NEW table \in [Items -> Row]
    PROVE  WithKeyOf(i, table) \in [Items -> Row]
<1>1. KeyRow \in Row /\ now \in Times
  BY RowsWritten
<1>2. QED
  BY <1>1 DEF WithKeyOf, Row

-----------------------------------------------------------------------------
(***************************************************************************)
(* What a handler does to the rows of a table and to its counter.          *)
(***************************************************************************)
CountedKinds == {"ClassifiedAd", "PrivateMessage", "BinaryBlob"}

\* A row is only found, or a key is noted.
SameContent(i) == rows'[i] = [rows[i] EXCEPT !.referenced = rows'[i].referenced]
NewKey(i) == Kind[i] = "UserProfile" /\ ~Has(i) /\ rows'[i] = KeyRow

\* A row is written, of content that is not older than what was there.
Written(i) ==
    /\ rows'[i].data /\ rows'[i].copies > 0 /\ rows'[i].stamp <= now
    /\ rows'[i].copies = 1 \/ rows'[i].copies <= rows[i].copies
    /\ Has(i) /\ HasData(i) => rows'[i].stamp >= rows[i].stamp

CountedOnce(i) == Kind[i] \in CountedKinds /\ ~Has(i) => count'[Kind[i]] = count[Kind[i]] + 1

TablesTyped == rows \in [Items -> Row] /\ count \in [Kinds -> Nat]

\* What a message about item "i" from "sender" may do to the tables.
Handles(i, sender) ==
    /\ TablesTyped'
    /\ \A j \in Items : j # i => SameContent(j) \/ NewKey(j)
    /\ \/ SameContent(i) \/ NewKey(i) \/ (rows'[i] = NoRow /\ ~HasData(i))
       \/ Written(i) /\ rows'[i].from = sender /\ CountedOnce(i)
    /\ \A kind \in Kinds : count'[kind] >= count[kind]

LEMMA MessageTypes ==
    ASSUME TypeOK, NEW m \in Messages
    PROVE  /\ m.item \in Items /\ m.version \in Times /\ m.stamp \in Times /\ m.intact \in BOOLEAN
           /\ m.from \in Senders /\ m.stamp <= now /\ m.version <= now
           /\ m.stamp \in Nat /\ m.version \in Nat /\ Stored(m) \in Row
<1>1. m.stamp \in 1 .. now /\ m.version \in 1 .. now /\ m.item \in Items /\ m.from \in Senders
      /\ m.intact \in BOOLEAN
  BY DEF Messages
<1>2. now \in Times /\ now \in Nat /\ 1 .. now \subseteq Times
  BY RowsWritten
<1>3. Stored(m) \in Row
  BY <1>1, <1>2, StoredIsRow
<1>4. QED
  BY <1>1, <1>2, <1>3

\* Content whose author's key is written too, on another row.
LEMMA KeyIsElsewhere ==
    ASSUME TypeOK, NEW i \in Items
    PROVE  /\ Author[i] \in Items /\ Kind[Author[i]] = "UserProfile"
           /\ Kind[i] # "UserProfile" => Author[i] # i
           /\ Kind[i] = "UserProfile" => Author[i] = i
           /\ \A j \in Items : j # Author[i] => WithKeyOf(i, rows)[j] = rows[j]
           /\ WithKeyOf(i, rows)[Author[i]] =
                IF ~Has(Author[i]) THEN KeyRow ELSE [rows[Author[i]] EXCEPT !.referenced = now]
<1>1. /\ Author[i] \in Items /\ Kind[Author[i]] = "UserProfile"
      /\ Kind[i] # "UserProfile" => Author[i] # i
      /\ Kind[i] = "UserProfile" => Author[i] = i
  BY ContentAssumption DEF Of
<1>2. \A j \in Items : j # Author[i] => WithKeyOf(i, rows)[j] = rows[j]
  BY <1>1 DEF WithKeyOf, TypeOK
<1>3. WithKeyOf(i, rows)[Author[i]] =
        IF ~Has(Author[i]) THEN KeyRow ELSE [rows[Author[i]] EXCEPT !.referenced = now]
  <2>1. rows[Author[i]].copies \in Nat
    BY <1>1 DEF TypeOK, Row
  <2>2. QED
    BY <1>1, <2>1 DEF WithKeyOf, TypeOK, Has
<1>4. QED
  BY <1>1, <1>2, <1>3

LEMMA NothingHandled ==
    ASSUME TypeOK, NEW i \in Items, NEW sender, UNCHANGED tableVars
    PROVE  Handles(i, sender)
<1>1. TablesTyped'
  BY DEF TypeOK, TablesTyped, tableVars
<1>2. \A j \in Items : SameContent(j)
  BY DEF TypeOK, SameContent, tableVars, Row
<1>3. \A kind \in Kinds : count'[kind] >= count[kind]
  BY DEF TypeOK, tableVars
<1>4. QED
  BY <1>1, <1>2, <1>3 DEF Handles

LEMMA FieldsOfStored ==
    ASSUME TypeOK, NEW m \in Messages
    PROVE  /\ Stored(m).data /\ Stored(m).copies = 1 /\ Stored(m).from = m.from
           /\ Stored(m).stamp = m.stamp
           /\ Stored(m).referenced = now
BY DEF Stored

\* Rows that are left alone, and rows found.
LEMMA RowLeftAlone ==
    ASSUME TypeOK, NEW j \in Items, rows'[j] = rows[j]
    PROVE  SameContent(j)
<1>1. rows[j] \in Row
  BY DEF TypeOK
<1>2. QED
  BY <1>1 DEF SameContent, Row

LEMMA RowFound ==
    ASSUME TypeOK, NEW j \in Items, NEW t \in Times, rows'[j] = [rows[j] EXCEPT !.referenced = t]
    PROVE  SameContent(j)
<1>1. rows[j] \in Row
  BY DEF TypeOK
<1>2. rows'[j].referenced = t
  BY <1>1 DEF Row
<1>3. QED
  BY <1>2 DEF SameContent

\* The rows beside the one written: at most the author's key is noted.
LEMMA OthersKeep ==
    ASSUME TypeOK, NEW i \in Items, NEW table \in {rows, WithKeyOf(i, rows)},
           NEW j \in Items, j # i, rows'[j] = table[j]
    PROVE  SameContent(j) \/ NewKey(j)
<1>1. CASE rows'[j] = rows[j]
  BY <1>1, RowLeftAlone
<1>2. CASE rows'[j] = WithKeyOf(i, rows)[j] /\ j = Author[i]
  <2>1. CASE ~Has(j)
    BY <1>2, <2>1, KeyIsElsewhere DEF NewKey
  <2>2. CASE Has(j)
    <3>1. rows'[j] = [rows[j] EXCEPT !.referenced = now]
      BY <1>2, <2>2, KeyIsElsewhere
    <3>2. QED
      BY <3>1, RowFound, RowsWritten
  <2>3. QED
    BY <2>1, <2>2
<1>3. table = rows \/ table = WithKeyOf(i, rows)
  OBVIOUS
<1>4. WithKeyOf(i, rows)[j] = rows[j] \/ j = Author[i]
  BY KeyIsElsewhere
<1>5. QED
  BY <1>1, <1>2, <1>3, <1>4

\* Every handler writes in this way.
LEMMA AnyWritingHandles ==
    ASSUME TypeOK, NEW i \in Items, NEW sender, NEW table \in {rows, WithKeyOf(i, rows)},
           NEW row \in Row, rows' = [table EXCEPT ![i] = row],
           row.data, row.copies > 0, row.copies = 1 \/ row.copies <= rows[i].copies,
           row.from = sender, row.stamp <= now,
           Has(i) /\ HasData(i) => row.stamp >= rows[i].stamp,
           \/ UNCHANGED count /\ (Kind[i] \notin CountedKinds \/ Has(i))
           \/ Counted(Kind[i])
    PROVE  Handles(i, sender)
<1>1. table \in [Items -> Row]
  BY TableWithKey DEF TypeOK
<1>2. rows' \in [Items -> Row] /\ rows'[i] = row /\ \A j \in Items : j # i => rows'[j] = table[j]
  BY <1>1
<1>3. \A j \in Items : j # i => SameContent(j) \/ NewKey(j)
  BY <1>2, OthersKeep
<1>4. Written(i) /\ rows'[i].from = sender
  BY <1>2 DEF Written
<1>5. /\ count' \in [Kinds -> Nat] /\ CountedOnce(i)
      /\ \A kind \in Kinds : count'[kind] >= count[kind]
  BY ContentAssumption DEF TypeOK, Counted, CountedOnce
<1>6. QED
  BY <1>2, <1>3, <1>4, <1>5 DEF Handles, TablesTyped

LEMMA WritingHandles ==
    ASSUME TypeOK, NEW i \in Items, NEW sender, NEW table \in {rows, WithKeyOf(i, rows)},
           NEW row \in Row, rows' = [table EXCEPT ![i] = row],
           row.data, row.copies = 1, row.from = sender, row.stamp <= now,
           Has(i) /\ HasData(i) => row.stamp >= rows[i].stamp,
           \/ UNCHANGED count /\ Kind[i] \notin CountedKinds
           \/ Counted(Kind[i])
    PROVE  Handles(i, sender)
<1>1. row.copies > 0 /\ (row.copies = 1 \/ row.copies <= rows[i].copies)
  OBVIOUS
<1>2. QED
  BY <1>1, AnyWritingHandles

\* A key alone is noted, or a row without content is taken out.
LEMMA KeyHandles ==
    ASSUME TypeOK, NEW i \in Items, NEW sender, UNCHANGED count,
           \/ rows' = WithKeyOf(i, rows)
           \/ rows' = [rows EXCEPT ![i] = NoRow] /\ ~HasData(i)
    PROVE  Handles(i, sender)
<1>1. rows' \in [Items -> Row]
  BY TableWithKey, RowsWritten DEF TypeOK
<1>2. TablesTyped' /\ \A kind \in Kinds : count'[kind] >= count[kind]
  BY <1>1 DEF TypeOK, TablesTyped
<1>3. CASE rows' = WithKeyOf(i, rows)
  <2>1. \A j \in Items : SameContent(j) \/ NewKey(j)
    <3>1. ASSUME NEW j \in Items PROVE SameContent(j) \/ NewKey(j)
      <4>1. CASE j # Author[i]
        BY <1>3, <4>1, KeyIsElsewhere, RowLeftAlone
      <4>2. CASE j = Author[i] /\ ~Has(j)
        BY <1>3, <4>2, KeyIsElsewhere DEF NewKey
      <4>3. CASE j = Author[i] /\ Has(j)
        BY <1>3, <4>3, KeyIsElsewhere, RowFound, RowsWritten
      <4>4. QED
        BY <4>1, <4>2, <4>3
    <3>2. QED
      BY <3>1
  <2>2. QED
    BY <1>2, <2>1 DEF Handles
<1>4. CASE rows' = [rows EXCEPT ![i] = NoRow] /\ ~HasData(i)
  <2>1. \A j \in Items : j # i => rows'[j] = rows[j]
    BY <1>4 DEF TypeOK
  <2>2. \A j \in Items : j # i => SameContent(j)
    BY <2>1, RowLeftAlone
  <2>3. rows'[i] = NoRow
    BY <1>4 DEF TypeOK
  <2>4. QED
    BY <1>2, <1>4, <2>2, <2>3 DEF Handles
<1>5. QED
  BY <1>3, <1>4

LEMMA ProfileHandled ==
    ASSUME TypeOK, NEW m \in Messages, NEW ok \in BOOLEAN,
           Kind[m.item] = "UserProfile", HandleProfile(m, ok)
    PROVE  Handles(m.item, m.from)
<1> DEFINE i == m.item
           stamp == IF m.stamp + Minute > now THEN now ELSE m.stamp
           later == [Stored(m) EXCEPT !.referenced = rows[i].referenced]
           first == [Stored(m) EXCEPT !.stamp = stamp]
<1>1. i \in Items /\ rows[i] \in Row /\ now \in Nat /\ now \in Times
  BY MessageTypes, RowsWritten DEF TypeOK
<1>2. Kind[i] \notin CountedKinds
  BY DEF CountedKinds
<1>3. CASE UNCHANGED tableVars
  BY <1>1, <1>3, NothingHandled
<1>4. CASE Has(i) /\ m.stamp > rows[i].stamp /\ rows' = [rows EXCEPT ![i] = later] /\ UNCHANGED count
  <2>1. later \in Row
    BY <1>1, MessageTypes DEF Row
  <2>2. later.data /\ later.copies = 1 /\ later.from = m.from /\ later.stamp = m.stamp
    BY DEF Stored
  <2>3. m.stamp >= rows[i].stamp /\ m.stamp <= now
    BY <1>1, <1>4, MessageTypes DEF Row, Times
  <2>4. QED
    <3> HIDE DEF later
    <3> QED BY <1>1, <1>2, <1>4, <2>1, <2>2, <2>3, WritingHandles
<1>5. CASE ~Has(i) /\ rows' = WithKeyOf(i, rows) /\ UNCHANGED count
  BY <1>1, <1>5, KeyHandles
<1>6. CASE ~Has(i) /\ rows' = [rows EXCEPT ![i] = first] /\ UNCHANGED count
  <2>1. stamp \in Times /\ stamp <= now
    BY <1>1, MessageTypes
  <2>2. first \in Row
    BY <2>1, MessageTypes DEF Row
  <2>3. first.data /\ first.copies = 1 /\ first.from = m.from /\ first.stamp = stamp
    BY DEF Stored
  <2>4. QED
    <3> HIDE DEF first, stamp
    <3> QED BY <1>1, <1>2, <1>6, <2>1, <2>2, <2>3, WritingHandles
<1>7. QED
  BY <1>3, <1>4, <1>5, <1>6 DEF HandleProfile, Answer

LEMMA FileHandled ==
    ASSUME TypeOK, NEW m \in Messages, NEW ok \in BOOLEAN,
           Kind[m.item] = "BinaryBlob", HandleFile(m, ok)
    PROVE  Handles(m.item, m.from)
<1>1. m.item \in Items
  BY MessageTypes
<1>2. CASE UNCHANGED tableVars
  BY <1>1, <1>2, NothingHandled
<1>3. CASE /\ ~HasData(m.item)
           /\ rows' = Insert(m, WithKeyOf(m.item, rows)) /\ Counted("BinaryBlob")
  BY <1>1, <1>3, WritingHandles, MessageTypes, FieldsOfStored DEF Insert
<1>4. QED
  BY <1>2, <1>3 DEF HandleFile, Answer

LEMMA AdHandled ==
    ASSUME TypeOK, NEW m \in Messages, NEW ok \in BOOLEAN,
           Kind[m.item] = "ClassifiedAd", HandleAd(m, ok)
    PROVE  Handles(m.item, m.from)
<1> DEFINE inside == [m EXCEPT !.stamp = m.version]
           row == Stored(inside)
<1>1. m.item \in Items
  BY MessageTypes
<1>2. CASE UNCHANGED tableVars
  BY <1>1, <1>2, NothingHandled
<1>3. CASE ~HasData(m.item) /\ rows' = [rows EXCEPT ![m.item] = NoRow] /\ UNCHANGED count
  BY <1>1, <1>3, KeyHandles
<1>4. CASE /\ ~HasData(m.item)
           /\ rows' = Insert(inside, WithKeyOf(m.item, rows))
           /\ Counted("ClassifiedAd")
  <2>1. /\ inside.item = m.item /\ inside.version = m.version /\ inside.stamp = m.version
        /\ inside.intact = m.intact /\ inside.from = m.from
    BY DEF Messages
  <2> HIDE DEF inside
  <2>2. row \in Row /\ m.version <= now
    BY <2>1, MessageTypes, StoredIsRow
  <2>3. row.data /\ row.copies = 1 /\ row.from = m.from /\ row.stamp = m.version
    BY <2>1 DEF Stored
  <2>4. rows' = [WithKeyOf(m.item, rows) EXCEPT ![m.item] = row]
    BY <1>4, <2>1 DEF Insert
  <2>5. QED
    <3> HIDE DEF row
    <3> QED BY <1>1, <1>4, <2>2, <2>3, <2>4, WritingHandles
<1>5. QED
  BY <1>2, <1>3, <1>4 DEF HandleAd, Answer

LEMMA MessageHandled ==
    ASSUME TypeOK, NEW m \in Messages, NEW ok \in BOOLEAN,
           Kind[m.item] = "PrivateMessage", HandleMessage(m, ok)
    PROVE  Handles(m.item, m.from)
<1>1. m.item \in Items
  BY MessageTypes
<1>2. CASE UNCHANGED tableVars
  BY <1>1, <1>2, NothingHandled
<1>3. CASE ~Has(m.item) /\ rows' = Insert(m, rows) /\ Counted("PrivateMessage")
  BY <1>1, <1>3, WritingHandles, MessageTypes, FieldsOfStored DEF Insert
<1>4. QED
  BY <1>2, <1>3 DEF HandleMessage, Answer

LEMMA CommentHandled ==
    ASSUME TypeOK, NEW m \in Messages, NEW ok \in BOOLEAN,
           Kind[m.item] = "UserProfileComment", HandleComment(m, ok)
    PROVE  Handles(m.item, m.from)
<1> DEFINE known == IF Has(Author[m.item]) THEN rows ELSE WithKeyOf(m.item, rows)
<1>1. m.item \in Items /\ Kind[m.item] \notin CountedKinds
  BY MessageTypes DEF CountedKinds
<1>2. known \in {rows, WithKeyOf(m.item, rows)}
  OBVIOUS
<1>3. CASE UNCHANGED tableVars
  BY <1>1, <1>3, NothingHandled
<1>4. CASE ~Has(m.item) /\ rows' = Insert(m, known) /\ UNCHANGED count
  <2> HIDE DEF known
  <2> QED BY <1>1, <1>2, <1>4, WritingHandles, MessageTypes, FieldsOfStored DEF Insert
<1>5. CASE ~Has(m.item) /\ rows' = known /\ UNCHANGED count
  <2>1. CASE rows' = rows
    BY <1>1, <1>5, <2>1, NothingHandled DEF tableVars
  <2>2. CASE rows' = WithKeyOf(m.item, rows)
    BY <1>1, <1>5, <2>2, KeyHandles
  <2>3. QED
    BY <1>2, <1>5, <2>1, <2>2
<1>6. QED
  BY <1>3, <1>4, <1>5 DEF HandleComment, Answer

LEMMA RecordHandled ==
    ASSUME TypeOK, NEW m \in Messages, NEW ok \in BOOLEAN,
           Kind[m.item] = "DbRecord", HandleRecord(m, ok)
    PROVE  Handles(m.item, m.from)
<1> DEFINE i == m.item
<1>1. i \in Items /\ Kind[i] \notin CountedKinds /\ rows[i] \in Row
  BY MessageTypes DEF CountedKinds, TypeOK
<1>2. CASE UNCHANGED tableVars
  BY <1>1, <1>2, NothingHandled
<1>3. CASE /\ ~(Has(i) /\ m.stamp <= rows[i].stamp)
           /\ UNCHANGED count
           /\ \E isVerified \in BOOLEAN : rows' = PersistDbRecordIntoDb(m, isVerified)
  <2>1. PICK isVerified \in BOOLEAN : rows' = PersistDbRecordIntoDb(m, isVerified)
    BY <1>3
  <2> DEFINE flag == IF IsRecordNew(i) THEN isVerified ELSE rows[i].verified
             row == [Stored(m) EXCEPT !.verified = flag]
  <2>2. flag \in BOOLEAN
    BY <1>1 DEF Row
  <2>3. row \in Row
    BY <2>2, MessageTypes DEF Row
  <2>4. row.data /\ row.copies = 1 /\ row.from = m.from /\ row.stamp = m.stamp
    BY DEF Stored
  <2>5. rows' = [rows EXCEPT ![i] = row]
    <3>1. rows' = [[rows EXCEPT ![i] = Stored(m)] EXCEPT ![i].verified = flag]
      BY <2>1 DEF PersistDbRecordIntoDb, Insert
    <3> HIDE DEF flag
    <3>2. QED
      BY <1>1, <3>1 DEF TypeOK
  <2>6. Has(i) => m.stamp >= rows[i].stamp
    BY <1>1, <1>3, MessageTypes DEF Row, Times
  <2>7. m.stamp <= now
    BY MessageTypes
  <2>8. QED
    <3> HIDE DEF row
    <3> QED BY <1>1, <1>3, <2>3, <2>4, <2>5, <2>6, <2>7, WritingHandles
<1>4. QED
  <2> DEFINE isChecked == Has(Author[i]) /\ Author[i] # Own
             isVerified == isChecked \/ (Author[i] = Own /\ m.publish)
  <2>1. isVerified \in BOOLEAN
    OBVIOUS
  <2> HIDE DEF isVerified
  <2>2. QED
    BY <1>2, <1>3, <2>1 DEF HandleRecord, Answer, IsRecordNew, isVerified

LEMMA MessagesHandled ==
    ASSUME TypeOK, NEW m \in Messages, NEW ok \in BOOLEAN, ParseMessage(m, ok)
    PROVE  Handles(m.item, m.from)
BY ProfileHandled, FileHandled, AdHandled, MessageHandled, CommentHandled, RecordHandled
   DEF ParseMessage, ParseContent, ParsePrivMsg, ParseProfileComment, ParseDbRecord

-----------------------------------------------------------------------------
(***************************************************************************)
(* The counters.                                                           *)
(***************************************************************************)

\* A counter that grows with its table goes on to cover it.
LEMMA GrowthIsCovered ==
    ASSUME TypeOK, TablesTyped', NEW kind \in CountedKinds, NEW added \in SUBSET Of(kind),
           \A j \in Of(kind) : \/ rows'[j].copies <= rows[j].copies
                               \/ j \in added /\ rows'[j].copies = rows[j].copies + 1,
           count'[kind] >= count[kind] + Cardinality(added),
           count[kind] >= NumberOfRows(kind)
    PROVE  count'[kind] >= NumberOfRows(kind)'
<1> DEFINE before == RowsOf(Of(kind), Copies)
           after == RowsOf(Of(kind), Copies')
<1>1. Of(kind) \subseteq Items /\ kind \in Kinds
  BY DEF Of, CountedKinds, Kinds
<1>2. \A j \in Of(kind) : /\ Copies[j] = rows[j].copies /\ Copies[j] \in Nat
                          /\ Copies'[j] = rows'[j].copies /\ Copies'[j] \in Nat
  BY <1>1 DEF Copies, TypeOK, TablesTyped, Row
<1>3. /\ Cardinality(added) \in Nat
      /\ Cardinality(after) <= Cardinality(before) + Cardinality(added)
  BY <1>1, <1>2, RowsMore
<1>4. Cardinality(before) \in Nat /\ Cardinality(after) \in Nat
  BY <1>1, <1>2, RowsAreFinite
<1>5. count[kind] \in Nat /\ count'[kind] \in Nat
  BY <1>1 DEF TypeOK, TablesTyped
<1>6. NumberOfRows(kind) = Cardinality(before) /\ NumberOfRows(kind)' = Cardinality(after)
  BY DEF NumberOfRows
<1>7. QED
  <2> HIDE DEF before, after
  <2> QED BY <1>3, <1>4, <1>5, <1>6

\* Nothing was added to a table.
LEMMA LossIsCovered ==
    ASSUME TypeOK, TablesTyped', NEW kind \in CountedKinds,
           \A j \in Of(kind) : rows'[j].copies <= rows[j].copies,
           count'[kind] >= count[kind],
           count[kind] >= NumberOfRows(kind)
    PROVE  count'[kind] >= NumberOfRows(kind)'
<1>1. Cardinality({}) = 0 /\ count[kind] \in Nat
  BY FS_EmptySet DEF TypeOK, CountedKinds, Kinds
<1>2. count'[kind] >= count[kind] + Cardinality({})
  BY <1>1
<1>3. QED
  BY <1>2, GrowthIsCovered

LEMMA HandlingIsCovered ==
    ASSUME TypeOK, CountCovers, NEW i \in Items, NEW sender, Handles(i, sender)
    PROVE  CountCovers'
<1>1. SUFFICES ASSUME NEW kind \in CountedKinds PROVE count'[kind] >= NumberOfRows(kind)'
  BY <1>1 DEF CountCovers, CountedKinds
<1>2. count[kind] >= NumberOfRows(kind) /\ kind # "UserProfile" /\ kind \in Kinds
  BY DEF CountCovers, CountedKinds, Kinds
<1>3. TablesTyped' /\ count'[kind] >= count[kind] /\ count[kind] \in Nat
  BY <1>2 DEF Handles, TypeOK
<1>4. \A j \in Items : rows[j] \in Row /\ rows'[j] \in Row /\ rows[j].copies \in Nat
  BY <1>3 DEF TypeOK, TablesTyped, Row
<1>5. ASSUME NEW j \in Of(kind), SameContent(j) PROVE rows'[j].copies = rows[j].copies
  BY <1>4, <1>5 DEF SameContent, Of, Row
<1>6. \A j \in Of(kind) : j # i => rows'[j].copies <= rows[j].copies
  <2>1. ASSUME NEW j \in Of(kind), j # i PROVE SameContent(j)
    BY <1>2, <2>1 DEF Handles, NewKey, Of
  <2>2. QED
    BY <1>4, <1>5, <2>1 DEF Of
<1>7. CASE i \in Of(kind) /\ Written(i) /\ CountedOnce(i) /\ ~Has(i)
  <2>1. rows[i].copies = 0 /\ rows'[i].copies = 1
    BY <1>4, <1>7 DEF Written, Has, Row
  <2>2. count'[kind] = count[kind] + 1
    BY <1>7 DEF CountedOnce, Of
  <2>3. Cardinality({i}) = 1
    BY FS_Singleton
  <2>4. QED
    BY <1>2, <1>3, <1>6, <1>7, <2>1, <2>2, <2>3, GrowthIsCovered
<1>8. CASE ~(i \in Of(kind) /\ Written(i) /\ CountedOnce(i) /\ ~Has(i))
  <2>1. i \in Of(kind) => rows'[i].copies <= rows[i].copies
    <3>1. ASSUME i \in Of(kind), Written(i), Has(i) PROVE rows'[i].copies <= rows[i].copies
      BY <1>4, <3>1 DEF Written, Has, Row
    <3>2. ASSUME i \in Of(kind), rows'[i] = NoRow PROVE rows'[i].copies <= rows[i].copies
      BY <1>4, <3>2 DEF NoRow
    <3>3. ASSUME i \in Of(kind), SameContent(i) PROVE rows'[i].copies <= rows[i].copies
      BY <1>4, <1>5, <3>3
    <3>4. ASSUME i \in Of(kind) PROVE ~NewKey(i)
      BY <1>2, <3>4 DEF NewKey, Of
    <3>5. QED
      BY <1>8, <3>1, <3>2, <3>3, <3>4 DEF Handles
  <2>2. QED
    BY <1>2, <1>3, <1>6, <2>1, LossIsCovered
<1>9. QED
  BY <1>7, <1>8

-----------------------------------------------------------------------------
(***************************************************************************)
(* The steps, each with what it does to the tables.                        *)
(***************************************************************************)
LEMMA ExpectedTypes ==
    ASSUME TypeOK, NEW items, Expected(items)
    PROVE  arriving' \in [Items -> Nat]
<1>1. ASSUME NEW i \in Items
      PROVE  arriving[i] - (IF i \in items THEN 1 ELSE 0) \in Nat
  BY DEF TypeOK, Expected
<1>2. QED
  BY <1>1 DEF Expected

LEMMA RestOfTypes ==
    ASSUME TypeOK, UNCHANGED <<mutual, now>>, TablesTyped',
           link' \in Link, offered' \subseteq Items, due' \subseteq Items,
           forwarded' \subseteq Items, arriving' \in [Items -> Nat]
    PROVE  TypeOK'
BY DEF TypeOK, TablesTyped

LEMMA ForwardedIsContent ==
    ASSUME TypeOK, NEW m \in Messages, NEW ok \in BOOLEAN, ParseMessage(m, ok)
    PROVE  forwarded' \subseteq Items
<1>1. m.item \in Items
  BY MessageTypes
<1>2. forwarded' \subseteq {m.item}
  BY DEF ParseMessage, ParseContent, ParsePrivMsg, ParseProfileComment, ParseDbRecord,
         HandleProfile, HandleFile, HandleAd, HandleMessage, HandleComment, HandleRecord,
         Answer, Forward, Quiet
<1>3. QED
  BY <1>1, <1>2

LEMMA ReceiveStep ==
    ASSUME TypeOK, NEW m \in Messages, Receive(m)
    PROVE  TypeOK' /\ Handles(m.item, m.from)
<1>1. PICK ok \in BOOLEAN : /\ ParseMessage(m, ok)
                            /\ link' = IF m.from = Peer /\ ~ok THEN NotConnected ELSE link
  BY DEF Receive
<1>2. Handles(m.item, m.from) /\ forwarded' \subseteq Items
  BY <1>1, MessagesHandled, ForwardedIsContent
<1>3. link' \in Link
  BY <1>1, RowsWritten DEF TypeOK
<1>4. due' \subseteq Items /\ offered' \subseteq Items /\ UNCHANGED <<mutual, now>>
  BY DEF Receive, TypeOK
<1>5. arriving' \in [Items -> Nat]
  BY ExpectedTypes DEF Receive
<1>6. QED
  BY <1>2, <1>3, <1>4, <1>5, RestOfTypes DEF Handles

\* Ads that are listed: those absent have one copy more and count once more each.
LEMMA ReceiveListStep ==
    ASSUME TypeOK, NEW ads \in SUBSET Of("ClassifiedAd"), ReceiveListOfAds(ads)
    PROVE  /\ TypeOK' /\ (CountCovers => CountCovers')
           /\ \A i \in Items : \/ rows'[i] = rows[i]
                              \/ /\ i \in ads /\ ~HasData(i)
                                 /\ rows'[i].stamp \in {rows[i].stamp, now}
<1> DEFINE absent == {i \in ads : ~HasData(i)}
           noted(i) == IF i \notin absent THEN rows[i]
                       ELSE IF Has(i) THEN [rows[i] EXCEPT !.copies = @ + 1]
                       ELSE [KeyRow EXCEPT !.stamp = now]
<1>1. absent \subseteq Of("ClassifiedAd") /\ Of("ClassifiedAd") \subseteq Items
  BY DEF Of
<1>2. IsFiniteSet(absent) /\ Cardinality(absent) \in Nat
  BY <1>1, ContentAssumption, FS_Subset, FS_CardinalityType
<1>3. now \in Times
  BY RowsWritten
<1>4. ASSUME NEW i \in Items
      PROVE  /\ noted(i) \in Row
             /\ \/ noted(i).copies <= rows[i].copies
                \/ i \in absent /\ noted(i).copies = rows[i].copies + 1
  <2>1. rows[i] \in Row /\ rows[i].copies \in Nat
    BY DEF TypeOK, Row
  <2>2. CASE i \notin absent
    BY <2>1, <2>2
  <2>3. CASE i \in absent /\ Has(i)
    BY <2>1, <2>3 DEF Row
  <2>4. CASE i \in absent /\ ~Has(i)
    <3>1. [KeyRow EXCEPT !.stamp = now] \in Row
      BY <1>3, RowsWritten DEF Row
    <3>2. [KeyRow EXCEPT !.stamp = now].copies = 1
      BY DEF KeyRow, NoRow
    <3>3. rows[i].copies = 0
      BY <2>1, <2>4 DEF Has
    <3>4. QED
      BY <2>4, <3>1, <3>2, <3>3
  <2>5. QED
    BY <2>2, <2>3, <2>4
<1>5. rows' = [i \in Items |-> noted(i)]
  BY DEF ReceiveListOfAds
<1>6. count' = [count EXCEPT !["ClassifiedAd"] = @ + Cardinality(absent)]
  BY DEF ReceiveListOfAds
<1> HIDE DEF noted, absent
<1>7. TablesTyped'
  BY <1>2, <1>4, <1>5, <1>6 DEF TablesTyped, TypeOK, Kinds
<1>8. TypeOK'
  <2>1. arriving' \in [Items -> Nat]
    BY ExpectedTypes DEF ReceiveListOfAds
  <2>2. UNCHANGED <<linkVars, now>> /\ forwarded' = {}
    BY DEF ReceiveListOfAds, Quiet
  <2>3. QED
    BY <1>7, <2>1, <2>2, RestOfTypes DEF linkVars, TypeOK
<1>9. ASSUME CountCovers PROVE CountCovers'
  <2>1. SUFFICES ASSUME NEW kind \in CountedKinds PROVE count'[kind] >= NumberOfRows(kind)'
    BY <2>1 DEF CountCovers, CountedKinds
  <2>2. count[kind] >= NumberOfRows(kind) /\ kind \in Kinds /\ count[kind] \in Nat
    BY <1>9 DEF CountCovers, CountedKinds, Kinds, TypeOK
  <2>3. \A j \in Of(kind) : \/ rows'[j].copies <= rows[j].copies
                            \/ j \in absent /\ rows'[j].copies = rows[j].copies + 1
    BY <1>4, <1>5 DEF Of
  <2>4. CASE kind = "ClassifiedAd"
    <3>1. count'[kind] >= count[kind] + Cardinality(absent)
      BY <1>2, <1>6, <2>2, <2>4 DEF TypeOK
    <3>2. QED
      BY <1>1, <1>7, <2>2, <2>3, <2>4, <3>1, GrowthIsCovered
  <2>5. CASE kind # "ClassifiedAd"
    <3>1. \A j \in Of(kind) : j \notin absent
      BY <1>1, <2>5 DEF Of
    <3>2. count'[kind] >= count[kind]
      BY <1>6, <2>2, <2>5 DEF TypeOK
    <3>3. QED
      BY <1>7, <2>2, <2>3, <3>1, <3>2, LossIsCovered
  <2>6. QED
    BY <2>4, <2>5
<1>10. ASSUME NEW i \in Items, rows'[i] # rows[i]
       PROVE  i \in ads /\ ~HasData(i) /\ rows'[i].stamp \in {rows[i].stamp, now}
  <2>1. i \in absent
    BY <1>5, <1>10 DEF noted
  <2>2. rows'[i] = IF Has(i) THEN [rows[i] EXCEPT !.copies = @ + 1] ELSE [KeyRow EXCEPT !.stamp = now]
    BY <1>5, <2>1 DEF noted
  <2>3. [rows[i] EXCEPT !.copies = @ + 1].stamp = rows[i].stamp
    BY DEF TypeOK, Row
  <2>4. [KeyRow EXCEPT !.stamp = now].stamp = now
    BY DEF KeyRow, NoRow
  <2>5. QED
    BY <2>1, <2>2, <2>3, <2>4 DEF absent
<1>11. QED
  BY <1>8, <1>9, <1>10

\* No row is from the future.
StampsPast == \A i \in Items : rows[i].stamp <= now

\* What the user publishes keeps the sender of the row or has none.
LEMMA PublishStep ==
    ASSUME TypeOK, StampsPast, NEW i \in Items, Publish(i)
    PROVE  /\ TypeOK' /\ Handles(i, rows'[i].from)
           /\ rows'[i].from \in {rows[i].from, NoSender}
<1> DEFINE m == PublishedNow(i)
<1>1. rows[i] \in Row /\ now \in Nat /\ now \in Times /\ rows[i].stamp <= now
  BY RowsWritten DEF TypeOK, StampsPast
<1>2. /\ m.item = i /\ m.version = now /\ m.stamp = now /\ m.intact \in BOOLEAN
      /\ m.from = NoSender
  BY DEF PublishedNow
<1>3. /\ Stored(m) \in Row
      /\ Stored(m).data /\ Stored(m).copies = 1 /\ Stored(m).from = NoSender
      /\ Stored(m).stamp = now
  <2> HIDE DEF m
  <2> QED BY <1>1, <1>2, StoredIsRow DEF Stored
<1>4. ASSUME NEW row \in Row, rows' = [rows EXCEPT ![i] = row],
             row.data, row.copies = 1 \/ (row.copies > 0 /\ row.copies <= rows[i].copies),
             row.stamp = now, row.from \in {rows[i].from, NoSender},
             \/ UNCHANGED count /\ (Kind[i] \notin CountedKinds \/ Has(i))
             \/ Counted(Kind[i])
      PROVE  Handles(i, row.from) /\ rows'[i] = row
  <2>1. row.stamp <= now /\ (Has(i) /\ HasData(i) => row.stamp >= rows[i].stamp)
    BY <1>1, <1>4 DEF Row, Times
  <2>2. row.copies > 0 /\ (row.copies = 1 \/ row.copies <= rows[i].copies)
    BY <1>4
  <2>3. rows \in {rows, WithKeyOf(i, rows)}
    OBVIOUS
  <2>4. Handles(i, row.from)
    BY <1>4, <2>1, <2>2, <2>3, AnyWritingHandles
  <2>5. QED
    BY <1>4, <2>4 DEF TypeOK
<1>5. Handles(i, rows'[i].from) /\ rows'[i].from \in {rows[i].from, NoSender}
  <2>1. CASE PublishProfile(i) /\ Has(i)
    <3> DEFINE row == [rows[i] EXCEPT !.data = TRUE, !.version = now, !.stamp = now, !.intact = TRUE]
    <3>1. row \in Row
      BY <1>1 DEF Row
    <3>2. row.data /\ row.copies = rows[i].copies /\ row.stamp = now /\ row.from = rows[i].from
      BY <1>1 DEF Row
    <3>3. rows' = [rows EXCEPT ![i] = row] /\ UNCHANGED count /\ Has(i) /\ rows[i].copies > 0
      BY <2>1, <1>1 DEF PublishProfile, TypeOK, Has, Row
    <3>4. rows[i].copies <= rows[i].copies
      BY <1>1 DEF Row
    <3>5. QED
      <4> HIDE DEF row
      <4> QED BY <1>4, <3>1, <3>2, <3>3, <3>4
  <2>2. CASE PublishBinaryFile(i)
    <3> DEFINE row == [Stored(m) EXCEPT !.from = rows[i].from]
    <3>1. row \in Row
      BY <1>1, <1>3 DEF Row
    <3>2. row.data /\ row.copies = 1 /\ row.stamp = now /\ row.from = rows[i].from
      BY <1>2 DEF Stored
    <3>3. /\ rows' = [rows EXCEPT ![i] = row]
          /\ (UNCHANGED count /\ Has(i)) \/ Counted(Kind[i])
      BY <2>2 DEF PublishBinaryFile
    <3>4. QED
      <4> HIDE DEF row
      <4> QED BY <1>4, <3>1, <3>2, <3>3
  <2>3. CASE PublishClassifiedAd(i) \/ PublishPrivMessage(i) \/ PublishProfileComment(i)
    <3>1. rows' = [rows EXCEPT ![i] = Stored(m)]
      BY <1>2, <2>3 DEF PublishClassifiedAd, PublishPrivMessage, PublishProfileComment, Insert
    <3>2. (UNCHANGED count /\ Kind[i] \notin CountedKinds) \/ Counted(Kind[i])
      BY <2>3 DEF PublishClassifiedAd, PublishPrivMessage, PublishProfileComment, CountedKinds
    <3>3. QED
      <4> HIDE DEF m
      <4> QED BY <1>3, <1>4, <3>1, <3>2
  <2>4. CASE PublishDbRecord(i)
    <3> DEFINE flag == IF IsRecordNew(i) THEN TRUE ELSE rows[i].verified
               row == [Stored(m) EXCEPT !.verified = flag]
    <3>1. flag \in BOOLEAN
      BY <1>1 DEF Row
    <3>2. row \in Row
      BY <1>3, <3>1 DEF Row
    <3>3. row.data /\ row.copies = 1 /\ row.stamp = now /\ row.from = NoSender
      BY <1>2 DEF Stored
    <3>4. rows' = [rows EXCEPT ![i] = row]
      <4>1. rows' = [[rows EXCEPT ![i] = Stored(m)] EXCEPT ![i].verified = flag]
        BY <1>2, <2>4 DEF PublishDbRecord, PersistDbRecordIntoDb, Insert
      <4> HIDE DEF flag, m
      <4>2. QED
        BY <4>1 DEF TypeOK
    <3>5. UNCHANGED count /\ Kind[i] \notin CountedKinds
      BY <2>4 DEF PublishDbRecord, CountedKinds
    <3>6. QED
      <4> HIDE DEF row
      <4> QED BY <1>4, <3>2, <3>3, <3>4, <3>5
  <2>5. CASE PublishProfile(i) /\ ~Has(i)
    <3>1. UNCHANGED tableVars
      BY <2>5 DEF PublishProfile, tableVars
    <3>2. Handles(i, rows'[i].from)
      BY <3>1, NothingHandled
    <3>3. QED
      BY <3>1, <3>2 DEF tableVars
  <2>6. QED
    BY <2>1, <2>2, <2>3, <2>4, <2>5 DEF Publish
<1>6. /\ arriving' \in [Items -> Nat] /\ forwarded' \subseteq Items
      /\ link' \in Link /\ UNCHANGED <<mutual, now>>
      /\ due' \subseteq Items /\ offered' \subseteq Items
  BY ExpectedTypes DEF Publish, linkVars, TypeOK
<1>7. QED
  BY <1>5, <1>6, RestOfTypes DEF Handles

\* What searches, sending and the timer do to a row: it is found, thrown out, or
\* loses some of its copies.
Thinned(i) ==
    \/ SameContent(i)
    \/ rows'[i] = NoRow
    \/ /\ rows'[i].copies > 0 /\ rows'[i].copies <= rows[i].copies
       /\ rows'[i].data = rows[i].data /\ rows'[i].stamp = rows[i].stamp
       /\ rows'[i].from = rows[i].from

LEMMA ThinnedCopies ==
    ASSUME TypeOK, TablesTyped', NEW i \in Items, Thinned(i)
    PROVE  rows'[i].copies <= rows[i].copies
<1>1. rows[i] \in Row /\ rows'[i] \in Row
  BY DEF TypeOK, TablesTyped
<1>2. CASE SameContent(i)
  <2>1. rows'[i].copies = rows[i].copies
    BY <1>1, <1>2 DEF SameContent, Row
  <2>2. QED
    BY <1>1, <2>1 DEF Row
<1>3. CASE rows'[i] = NoRow
  BY <1>1, <1>3 DEF NoRow, Row
<1>4. QED
  BY <1>2, <1>3 DEF Thinned

LEMMA SearchedRows ==
    ASSUME TypeOK, NEW i \in Items, rows' = Searched(i)
    PROVE  rows' \in [Items -> Row] /\ \A j \in Items : Thinned(j)
<1>1. now \in Times /\ NoRow \in Row /\ rows[i] \in Row
  BY RowsWritten DEF TypeOK
<1>2. CASE rows' = [rows EXCEPT ![i] = NoRow]
  <2>1. rows' \in [Items -> Row] /\ rows'[i] = NoRow
    BY <1>1, <1>2 DEF TypeOK
  <2>2. \A j \in Items : j # i => rows'[j] = rows[j]
    BY <1>2 DEF TypeOK
  <2>3. QED
    BY <2>1, <2>2, RowLeftAlone DEF Thinned
<1>3. CASE rows' = [rows EXCEPT ![i].referenced = now]
  <2>1. rows' \in [Items -> Row]
    BY <1>1, <1>3 DEF TypeOK, Row
  <2>2. rows'[i] = [rows[i] EXCEPT !.referenced = now]
    BY <1>3 DEF TypeOK
  <2>3. \A j \in Items : j # i => rows'[j] = rows[j]
    BY <1>3 DEF TypeOK
  <2>4. QED
    BY <1>1, <2>1, <2>2, <2>3, RowLeftAlone, RowFound DEF Thinned
<1>4. QED
  BY <1>2, <1>3 DEF Searched

\* Rows that are only thinned out leave the counters covering the tables.
LEMMA ThinningIsCovered ==
    ASSUME TypeOK, TablesTyped', CountCovers, UNCHANGED count,
           \A j \in Items : Thinned(j)
    PROVE  CountCovers'
<1>1. SUFFICES ASSUME NEW kind \in CountedKinds PROVE count'[kind] >= NumberOfRows(kind)'
  BY <1>1 DEF CountCovers, CountedKinds
<1>2. count[kind] >= NumberOfRows(kind) /\ count[kind] \in Nat
  BY DEF CountCovers, CountedKinds, Kinds, TypeOK
<1>3. \A j \in Of(kind) : rows'[j].copies <= rows[j].copies
  BY ThinnedCopies DEF Of
<1>4. QED
  BY <1>2, <1>3, LossIsCovered

LEMMA SearchStep ==
    ASSUME TypeOK, NEW i \in Items, SearchRecord(i)
    PROVE  /\ TypeOK' /\ (CountCovers => CountCovers')
           /\ \A j \in Items : Thinned(j)
<1>1. rows' \in [Items -> Row] /\ \A j \in Items : Thinned(j)
  BY SearchedRows DEF SearchRecord
<1>2. TablesTyped' /\ UNCHANGED count
  BY <1>1 DEF SearchRecord, TablesTyped, TypeOK
<1>3. TypeOK'
  BY <1>2, RestOfTypes DEF SearchRecord, TypeOK, Quiet
<1>4. QED
  BY <1>1, <1>2, <1>3, ThinningIsCovered

LEMMA SendNextStep ==
    ASSUME TypeOK, SendNext
    PROVE  /\ TypeOK' /\ (CountCovers => CountCovers')
           /\ \A j \in Items : Thinned(j)
<1> DEFINE i == Head(link.queue)
<1>1. /\ link.queue \in Seq(Items) /\ link.queue # <<>>
      /\ i \in Items /\ Tail(link.queue) \in Seq(Items)
  BY DEF SendNext, TypeOK, Link
<1>2. rows' \in [Items -> Row] /\ \A j \in Items : Thinned(j)
  <2>1. CASE rows' = Searched(i)
    BY <1>1, <2>1, SearchedRows
  <2>2. CASE rows' = rows
    BY <2>2, RowLeftAlone DEF Thinned, TypeOK
  <2>3. QED
    BY <2>1, <2>2 DEF SendNext
<1>3. TablesTyped' /\ UNCHANGED count
  BY <1>2 DEF SendNext, TablesTyped, TypeOK
<1>4. link' \in Link
  BY <1>1 DEF SendNext, Link, TypeOK
<1>5. offered' \subseteq Items /\ due' \subseteq Items
  BY <1>1 DEF SendNext, TypeOK
<1>6. TypeOK'
  BY <1>3, <1>4, <1>5, RestOfTypes DEF SendNext, TypeOK, Quiet
<1>7. QED
  BY <1>2, <1>3, <1>6, ThinningIsCovered

-----------------------------------------------------------------------------
\* The smaller of two numbers.
LEMMA MinOfTwo ==
    ASSUME NEW a \in Nat, NEW b \in Nat
    PROVE  Min({a, b}) = IF a <= b THEN a ELSE b
<1>1. \E x \in {a, b} : \A y \in {a, b} : x <= y
  OBVIOUS
<1>2. Min({a, b}) \in {a, b} /\ \A y \in {a, b} : Min({a, b}) <= y
  BY <1>1 DEF Min
<1>3. QED
  BY <1>2

LEMMA CutStep ==
    ASSUME TypeOK, NEW kind \in Kinds, NEW total \in Nat, Cut(kind, total),
           kind \in CountedKinds => total = count[kind]
    PROVE  /\ TablesTyped' /\ (CountCovers => CountCovers')
           /\ \A j \in Items : Thinned(j)
<1>1. PICK left \in [Of(kind) -> 0 .. NumberOfRows(kind)] :
        /\ AreLeft(kind, left, total - MaxRows[kind])
        /\ rows' = [i \in Items |-> IF i \notin Of(kind) THEN rows[i]
                                    ELSE IF left[i] = 0 THEN NoRow
                                    ELSE [rows[i] EXCEPT !.copies = left[i]]]
  BY DEF Cut
<1>2. /\ MaxRows[kind] \in Nat /\ total - MaxRows[kind] \in Nat
      /\ count' = [count EXCEPT ![kind] = MaxRows[kind]]
      /\ NumberOfRows(kind) \in Nat /\ NoRow \in Row
  BY ContentAssumption, RowsWritten DEF Cut
<1>3. Of(kind) \subseteq Items /\ \A i \in Of(kind) : left[i] \in Nat
  BY <1>1, <1>2 DEF Of
<1>4. ASSUME NEW i \in Items
      PROVE  rows'[i] \in Row /\ Thinned(i)
             /\ (i \in Of(kind) => rows'[i].copies = left[i])
  <2>1. rows[i] \in Row
    BY DEF TypeOK
  <2>2. CASE i \notin Of(kind)
    <3>1. rows'[i] = rows[i]
      BY <1>1, <1>3, <2>2
    <3>2. QED
      BY <2>1, <2>2, <3>1, RowLeftAlone DEF Thinned
  <2>3. CASE i \in Of(kind) /\ left[i] = 0
    <3>1. rows'[i] = NoRow
      BY <1>1, <1>3, <2>3
    <3>2. QED
      BY <1>2, <2>3, <3>1 DEF Thinned, NoRow
  <2>4. CASE i \in Of(kind) /\ left[i] # 0
    <3>1. rows'[i] = [rows[i] EXCEPT !.copies = left[i]]
      BY <1>1, <1>3, <2>4
    <3>2. left[i] \in Nat /\ left[i] <= rows[i].copies
      BY <1>1, <1>3, <2>4 DEF AreLeft
    <3>3. /\ rows'[i].copies = left[i] /\ rows'[i].data = rows[i].data
          /\ rows'[i].stamp = rows[i].stamp /\ rows'[i].from = rows[i].from
      BY <2>1, <3>1 DEF Row
    <3>4. rows'[i] \in Row
      BY <2>1, <3>1, <3>2 DEF Row
    <3>5. QED
      BY <2>4, <3>2, <3>3, <3>4 DEF Thinned
  <2>5. QED
    BY <2>2, <2>3, <2>4
<1>5. TablesTyped'
  <2>1. rows' \in [Items -> Row]
    BY <1>1, <1>4
  <2>2. QED
    BY <1>2, <2>1 DEF TablesTyped, TypeOK
<1>6. ASSUME CountCovers, NEW k \in CountedKinds PROVE count'[k] >= NumberOfRows(k)'
  <2>1. /\ count[k] >= NumberOfRows(k) /\ k \in Kinds /\ count[k] \in Nat
        /\ k # "UserProfile"
    BY <1>6 DEF CountCovers, CountedKinds, Kinds, TypeOK
  <2>2. CASE k # kind
    <3>1. \A j \in Of(k) : rows'[j].copies <= rows[j].copies
      BY <1>4, <1>5, ThinnedCopies DEF Of
    <3>2. count'[k] = count[k]
      BY <1>2, <2>1, <2>2 DEF TypeOK
    <3>3. QED
      BY <1>5, <2>1, <3>1, <3>2, LossIsCovered
  <2>3. CASE k = kind
    <3> DEFINE before == Cardinality(RowsOf(Of(kind), Copies))
               after == Cardinality(RowsOf(Of(kind), left))
    <3>1. Asked(kind) = Of(kind)
      BY <2>1, <2>3, ContentAssumption DEF Asked, Of
    <3>2. after = before - Min({total - MaxRows[kind], before})
      <4>1. {i \in Of(kind) : left[i] < rows[i].copies} \cup Asked(kind) = Of(kind)
        BY <3>1
      <4>2. QED
        BY <1>1, <4>1 DEF AreLeft
    <3>3. before \in Nat /\ before <= total /\ after \in Nat
      <4>1. before = NumberOfRows(kind) /\ total = count[kind]
        BY <2>3 DEF NumberOfRows
      <4>2. after \in Nat
        BY <1>3, RowsAreFinite
      <4>3. QED
        BY <1>2, <2>1, <2>3, <4>1, <4>2
    <3>4. after <= MaxRows[kind]
      <4> HIDE DEF before, after
      <4>1. Min({total - MaxRows[kind], before})
              = IF total - MaxRows[kind] <= before THEN total - MaxRows[kind] ELSE before
        BY <1>2, <3>3, MinOfTwo
      <4>2. QED
        BY <1>2, <3>2, <3>3, <4>1
    <3>5. RowsOf(Of(kind), Copies') = RowsOf(Of(kind), left)
      <4>1. \A i \in Of(kind) : Copies'[i] = left[i]
        BY <1>3, <1>4 DEF Copies
      <4>2. QED
        BY <4>1 DEF RowsOf
    <3>6. count'[kind] = MaxRows[kind]
      BY <1>2 DEF TypeOK
    <3>7. QED
      BY <2>3, <3>3, <3>4, <3>5, <3>6, <1>2 DEF NumberOfRows
  <2>4. QED
    BY <2>2, <2>3
<1>7. CountCovers => CountCovers'
  BY <1>6 DEF CountCovers, CountedKinds
<1>8. QED
  BY <1>4, <1>5, <1>7

-----------------------------------------------------------------------------
(***************************************************************************)
(* The fill of the bucket.                                                 *)
(***************************************************************************)

\* The kinds of content that were asked for when a stage was reached.
AskedBefore ==
    [PrivateMessage |-> {"PrivateMessage"},
     UserProfile |-> {"PrivateMessage", "UserProfile"},
     ClassifiedAd |-> {"PrivateMessage", "UserProfile", "ClassifiedAd"},
     BinaryBlob |-> {"PrivateMessage", "UserProfile", "ClassifiedAd", "BinaryBlob"},
     DbRecord |-> Kinds \ {"DbRecord"},
     UserProfileComment |-> Kinds]

\* Only profiles and ads are known before their content is.
KeptHaveData ==
    \A i \in Items : Has(i) /\ Kind[i] \notin {"UserProfile", "ClassifiedAd"} => HasData(i)

\* What is due stays wanted until the fill has ended, and when its kind was asked
\* for it is queued or was sent.
DueIsOffered ==
    link.stage \in DOMAIN AskedBefore =>
      \A i \in due :
        /\ Wanted(i)
        /\ Kind[i] \in AskedBefore[link.stage] => i \in offered \cup ToSet(link.queue)

\* The bucket of the peer is not cut short by the limit of a select.
BucketFits ==
    \A kind \in Kinds : Cardinality(Of(kind) \cap (Bucket \cup MessagesFor)) <= BucketLimit

LEMMA WantedHasData ==
    ASSUME KeptHaveData, NEW i \in Items, Wanted(i)
    PROVE  Has(i) /\ HasData(i)
BY DEF Wanted, KeptHaveData, ProfileWanted, FileWanted, AdWanted, MessageWanted, CommentWanted,
       RecordWanted, IsNewForPeer

\* Content that is written over stays wanted unless it came from the peer.
LEMMA RowStaysWanted ==
    ASSUME TypeOK, NEW i \in Items, Wanted(i), link'.mutual = link.mutual,
           rows'[i].copies > 0, rows[i].data => rows'[i].data,
           rows'[i].stamp \in Nat, rows'[i].stamp >= rows[i].stamp,
           rows'[i].from # Peer \/ rows'[i].from = rows[i].from
    PROVE  Wanted(i)'
<1>1. rows[i].stamp \in Nat /\ link.mutual \in Nat
  BY DEF TypeOK, Row, Link, Times
<1>2. IsNewForPeer(i) => IsNewForPeer(i)'
  BY <1>1 DEF IsNewForPeer, Has
<1>3. NotFromPeer(i) => NotFromPeer(i)'
  BY DEF NotFromPeer
<1>4. HasData(i) => HasData(i)'
  BY DEF HasData
<1>5. QED
  BY <1>2, <1>3, <1>4
     DEF Wanted, ProfileWanted, FileWanted, AdWanted, MessageWanted, CommentWanted, RecordWanted

LEMMA SameStaysWanted ==
    ASSUME TypeOK, NEW i \in Items, Wanted(i), link'.mutual = link.mutual, SameContent(i)
    PROVE  Wanted(i)'
<1>1. rows[i] \in Row
  BY DEF TypeOK
<1>2. /\ rows'[i].copies = rows[i].copies /\ rows'[i].data = rows[i].data
      /\ rows'[i].stamp = rows[i].stamp /\ rows'[i].from = rows[i].from
  BY <1>1 DEF SameContent, Row
<1>3. rows[i].copies > 0
  BY DEF Wanted, ProfileWanted, FileWanted, AdWanted, MessageWanted, CommentWanted, RecordWanted,
         IsNewForPeer, Has
<1>4. QED
  BY <1>1, <1>2, <1>3, RowStaysWanted DEF Row, Times

LEMMA ThinnedStaysWanted ==
    ASSUME TypeOK, NEW i \in Items, Wanted(i), link'.mutual = link.mutual,
           Thinned(i), rows'[i] # NoRow
    PROVE  Wanted(i)'
<1>1. CASE SameContent(i)
  BY <1>1, SameStaysWanted
<1>2. CASE ~SameContent(i)
  <2>1. rows[i].stamp \in Nat
    BY DEF TypeOK, Row, Times
  <2>2. QED
    BY <1>2, <2>1, RowStaysWanted DEF Thinned
<1>3. QED
  BY <1>1, <1>2

LEMMA HandledStaysWanted ==
    ASSUME TypeOK, KeptHaveData, NEW j \in Items, Wanted(j), link'.mutual = link.mutual,
           NEW i \in Items, NEW sender, Handles(i, sender),
           i = j => sender # Peer \/ sender = rows[j].from
    PROVE  Wanted(j)'
<1>1. Has(j) /\ HasData(j)
  BY WantedHasData
<1>2. CASE SameContent(j)
  BY <1>2, SameStaysWanted
<1>3. CASE ~SameContent(j)
  <2>1. i = j /\ Written(j) /\ rows'[j].from = sender
    BY <1>1, <1>3 DEF Handles, NewKey
  <2>2. rows'[j].stamp \in Nat
    BY DEF Handles, TablesTyped, Row, Times
  <2>3. QED
    BY <1>1, <2>1, <2>2, RowStaysWanted DEF Written
<1>4. QED
  BY <1>2, <1>3

\* A step within a stage.
LEMMA DueStays ==
    ASSUME DueIsOffered, link'.stage = link.stage, due' \subseteq due,
           \A i \in due' : Wanted(i) =>
              /\ Wanted(i)'
              /\ i \in offered \cup ToSet(link.queue) => i \in offered' \cup ToSet(link'.queue)
    PROVE  DueIsOffered'
BY DEF DueIsOffered, AskedBefore

\* Outside of a fill nothing is promised.
LEMMA NothingDue ==
    ASSUME link'.stage \in {"OwnNodeGreeting", "ClassifiedAd2NdAddr"}
    PROVE  DueIsOffered'
BY DEF DueIsOffered, AskedBefore

\* What happens to tables in which messages are handled.
LEMMA HandlingKeepsRows ==
    ASSUME TypeOK, now' = now, StampsPast, KeptHaveData, NEW i \in Items, NEW sender, Handles(i, sender)
    PROVE  StampsPast' /\ KeptHaveData'
<1>1. \A j \in Items : rows[j] \in Row /\ rows'[j] \in Row
  BY DEF TypeOK, Handles, TablesTyped
<1>2. now \in Nat
  BY RowsWritten
<1>3. ASSUME NEW j \in Items PROVE rows'[j].stamp <= now
  <2>1. CASE SameContent(j)
    <3>1. rows'[j].stamp = rows[j].stamp
      BY <1>1, <2>1 DEF SameContent, Row
    <3>2. QED
      BY <3>1 DEF StampsPast
  <2>2. CASE NewKey(j)
    BY <1>2, <2>2 DEF NewKey, KeyRow, NoRow
  <2>3. CASE Written(j)
    BY <2>3 DEF Written
  <2>4. CASE rows'[j] = NoRow
    BY <1>2, <2>4 DEF NoRow
  <2>5. QED
    BY <2>1, <2>2, <2>3, <2>4 DEF Handles
<1>4. ASSUME NEW j \in Items, rows'[j].copies > 0, Kind[j] \notin {"UserProfile", "ClassifiedAd"}
      PROVE  rows'[j].data
  <2>1. CASE SameContent(j)
    <3>1. rows'[j].copies = rows[j].copies /\ rows'[j].data = rows[j].data
      BY <1>1, <2>1 DEF SameContent, Row
    <3>2. QED
      BY <1>4, <3>1 DEF KeptHaveData, Has, HasData
  <2>2. CASE Written(j)
    BY <2>2 DEF Written
  <2>3. rows'[j] # NoRow /\ ~NewKey(j)
    BY <1>4 DEF NoRow, NewKey
  <2>4. QED
    BY <2>1, <2>2, <2>3 DEF Handles
<1>5. QED
  BY <1>3, <1>4 DEF StampsPast, KeptHaveData, Has, HasData

LEMMA ThinningKeepsRows ==
    ASSUME TypeOK, now' = now, StampsPast, KeptHaveData, TablesTyped', \A j \in Items : Thinned(j)
    PROVE  StampsPast' /\ KeptHaveData'
<1>1. now \in Nat
  BY RowsWritten
<1>2. ASSUME NEW j \in Items
      PROVE  \/ rows'[j] = NoRow
             \/ /\ rows'[j].stamp = rows[j].stamp /\ rows'[j].data = rows[j].data
                /\ rows'[j].copies > 0 => rows[j].copies > 0
  <2>1. rows[j] \in Row /\ rows'[j] \in Row
    BY DEF TypeOK, TablesTyped
  <2>2. CASE SameContent(j)
    <3>1. /\ rows'[j].stamp = rows[j].stamp /\ rows'[j].data = rows[j].data
          /\ rows'[j].copies = rows[j].copies
      BY <2>1, <2>2 DEF SameContent, Row
    <3>2. QED
      BY <3>1
  <2>3. CASE ~SameContent(j)
    BY <2>1, <2>3 DEF Thinned, Row
  <2>4. QED
    BY <2>2, <2>3
<1>3. NoRow.stamp = 0 /\ NoRow.copies = 0
  BY DEF NoRow
<1>4. ASSUME NEW j \in Items
      PROVE  /\ rows'[j].stamp <= now
             /\ rows'[j].copies > 0 => rows[j].copies > 0 /\ rows'[j].data = rows[j].data
  BY <1>1, <1>2, <1>3 DEF StampsPast
<1>5. QED
  BY <1>4 DEF StampsPast, KeptHaveData, Has, HasData

\* The select of a stage offers all that is wanted of its kind.
LEMMA SelectionTypes ==
    ASSUME TypeOK, NEW kind \in Kinds, NEW queue \in Selections(kind)
    PROVE  queue \in Seq(Items)
<1> DEFINE wanted == {i \in Of(kind) : Wanted(i)}
<1>1. PICK n \in 0 .. Cardinality(wanted) : queue \in [1 .. n -> wanted]
  BY DEF Selections
<1>2. wanted \subseteq Items /\ IsFiniteSet(wanted)
  BY ContentAssumption, FS_Subset DEF Of
<1>3. n \in Nat
  BY <1>2, FS_CardinalityType
<1>4. QED
  BY <1>1, <1>2, <1>3

LEMMA SelectionIsAll ==
    ASSUME TypeOK, BucketFits, NEW kind \in Kinds, NEW queue \in Selections(kind)
    PROVE  {i \in Of(kind) : Wanted(i)} \subseteq ToSet(queue)
<1> DEFINE wanted == {i \in Of(kind) : Wanted(i)}
           limit == IF kind = "DbRecord" THEN Cardinality(Items) ELSE BucketLimit
           ofBucket == Of(kind) \cap (Bucket \cup MessagesFor)
<1>1. /\ IsFiniteSet(Items) /\ Cardinality(Items) \in Nat /\ BucketLimit \in Nat
      /\ Of(kind) \subseteq Items
  BY ContentAssumption, FS_CardinalityType DEF Of
<1>2. wanted \subseteq ofBucket
  BY DEF Wanted, ProfileWanted, FileWanted, AdWanted, MessageWanted, CommentWanted, RecordWanted,
         NotFromPeer
<1>3. IsFiniteSet(wanted) /\ Cardinality(wanted) \in Nat /\ Cardinality(wanted) <= Cardinality(Items)
  <2>1. wanted \subseteq Items
    BY <1>1
  <2> HIDE DEF wanted
  <2>2. QED
    BY <1>1, <2>1, FS_Subset, FS_CardinalityType
<1>4. Cardinality(wanted) <= Cardinality(ofBucket) /\ Cardinality(ofBucket) \in Nat
  <2>1. IsFiniteSet(ofBucket)
    BY <1>1, FS_Subset
  <2> HIDE DEF wanted, ofBucket
  <2>2. QED
    BY <1>2, <2>1, FS_Subset, FS_CardinalityType
<1>5. Cardinality(wanted) <= limit /\ limit \in Nat
  BY <1>1, <1>3, <1>4 DEF BucketFits
<1>6. IsSelection(queue, wanted, limit) /\ queue \in Seq(Items)
  BY SelectionTypes DEF Selections
<1> HIDE DEF wanted, limit
<1>7. Len(queue) = Cardinality(wanted)
  BY <1>3, <1>5, <1>6, MinOfTwo DEF IsSelection
<1>8. queue \in Injection(1 .. Len(queue), ToSet(queue)) /\ queue \in Surjection(1 .. Len(queue), ToSet(queue))
  <2>1. queue \in [1 .. Len(queue) -> ToSet(queue)]
    BY <1>6 DEF ToSet
  <2>2. \A a, b \in 1 .. Len(queue) : queue[a] = queue[b] => a = b
    <3>1. IsInjective(queue) /\ DOMAIN queue = 1 .. Len(queue)
      BY <1>6 DEF IsSelection
    <3>2. QED
      BY <3>1 DEF IsInjective
  <2>3. \A i \in ToSet(queue) : \E a \in 1 .. Len(queue) : queue[a] = i
    BY <1>6 DEF ToSet
  <2>4. QED
    BY <2>1, <2>2, <2>3 DEF Injection, Surjection, IsInjective
<1>9. IsFiniteSet(1 .. Len(queue)) /\ Cardinality(1 .. Len(queue)) = Len(queue)
  <2>1. Len(queue) \in Nat
    BY <1>6
  <2>2. /\ IsFiniteSet(1 .. Len(queue))
        /\ Cardinality(1 .. Len(queue)) = IF 1 > Len(queue) THEN 0 ELSE Len(queue) - 1 + 1
    BY <2>1, FS_Interval
  <2>3. QED
    BY <2>1, <2>2
<1>10. Cardinality(ToSet(queue)) = Cardinality(wanted)
  BY <1>7, <1>8, <1>9, FS_Surjection
<1>11. ToSet(queue) \subseteq wanted
  BY <1>6 DEF IsSelection
<1>12. ToSet(queue) = wanted
  BY <1>3, <1>10, <1>11, FS_Subset
<1>13. QED
  BY <1>12 DEF wanted

LEMMA FillTypes ==
    ASSUME TypeOK, Fill
    PROVE  TypeOK' /\ UNCHANGED <<rows, count, now>>
<1> DEFINE kind == AskedIn[link.stage]
<1>1. PICK queue \in Selections(kind) : link' = [link EXCEPT !.stage = NextStage[@], !.queue = queue]
  BY DEF Fill
<1>2. link.stage \in DOMAIN AskedIn /\ kind \in Kinds /\ NextStage[link.stage] \in Stages
  BY DEF Fill, AskedIn, Kinds, NextStage, Stages
<1>3. queue \in Seq(Items)
  BY <1>2, SelectionTypes
<1>4. link' \in Link
  BY <1>1, <1>2, <1>3 DEF TypeOK, Link
<1>5. TypeOK' /\ UNCHANGED <<rows, count, now>>
  <2>1. offered' \subseteq Items /\ due' \subseteq Items
    BY DEF Fill, TypeOK
  <2>2. /\ UNCHANGED <<rows, count, mutual, now, arriving>> /\ forwarded' = {}
    BY DEF Fill, tableVars, Quiet
  <2>3. TablesTyped'
    BY <2>2 DEF TablesTyped, TypeOK
  <2>4. QED
    BY <1>4, <2>1, <2>2, <2>3, RestOfTypes DEF TypeOK
<1>6. QED
  BY <1>5

LEMMA FillIsOffered ==
    ASSUME TypeOK, BucketFits, DueIsOffered, Fill
    PROVE  DueIsOffered'
<1> DEFINE kind == AskedIn[link.stage]
<1>1. PICK queue \in Selections(kind) : link' = [link EXCEPT !.stage = NextStage[@], !.queue = queue]
  BY DEF Fill
<1>2. link.stage \in DOMAIN AskedIn /\ kind \in Kinds
  BY DEF Fill, AskedIn, Kinds
<1>3. TypeOK' /\ UNCHANGED <<rows, count, now>>
  BY FillTypes
<1>4. /\ link'.stage = NextStage[link.stage] /\ link'.queue = queue /\ link'.mutual = link.mutual
      /\ link.queue = <<>>
  BY <1>1 DEF Fill, CanFill, TypeOK, Link
<1>5. \A i \in Items : Wanted(i)' <=> Wanted(i)
  BY <1>3, <1>4 DEF Wanted, ProfileWanted, FileWanted, AdWanted, MessageWanted, CommentWanted,
                    RecordWanted, IsNewForPeer, NotFromPeer, Has, HasData
<1>6. ASSUME NEW i \in due'
      PROVE  /\ Wanted(i)'
             /\ Kind[i] \in AskedBefore[link'.stage] => i \in offered' \cup ToSet(queue)
  <2>1. i \in Items /\ Kind[i] \in Kinds
    BY <1>3, ContentAssumption DEF TypeOK
  <2>2. Wanted(i) /\ (Kind[i] = kind => i \in ToSet(queue))
    <3>1. Wanted(i)
      BY <1>2, <1>6, <2>1 DEF Fill, DueIsOffered, AskedIn, AskedBefore
    <3>2. QED
      BY <1>2, <1>6, <2>1, <3>1, SelectionIsAll DEF Of
  <2>3. CASE link.stage = "OwnNodeGreeting"
    <3>1. AskedBefore[link'.stage] = {kind}
      BY <1>4, <2>3 DEF AskedBefore, AskedIn, NextStage
    <3>2. QED
      BY <1>5, <2>1, <2>2, <3>1
  <2>4. CASE link.stage # "OwnNodeGreeting"
    <3>1. /\ link.stage \in DOMAIN AskedBefore
          /\ AskedBefore[link'.stage] \subseteq AskedBefore[link.stage] \cup {kind}
      BY <1>2, <1>4, <2>4 DEF AskedBefore, AskedIn, NextStage, Kinds
    <3>2. i \in due /\ offered' = offered
      BY <1>6, <2>4 DEF Fill
    <3>3. ToSet(link.queue) = {}
      BY <1>4 DEF ToSet
    <3>4. Kind[i] \in AskedBefore[link.stage] => i \in offered
      BY <3>1, <3>2, <3>3 DEF DueIsOffered
    <3>5. QED
      BY <1>5, <2>1, <2>2, <3>1, <3>2, <3>4
  <2>5. QED
    BY <2>3, <2>4
<1>7. QED
  BY <1>3, <1>4, <1>6 DEF DueIsOffered

LEMMA SendNextIsOffered ==
    ASSUME TypeOK, KeptHaveData, DueIsOffered, SendNext
    PROVE  DueIsOffered'
<1> DEFINE i == Head(link.queue)
<1>1. /\ link.queue \in Seq(Items) /\ link.queue # <<>> /\ link \in Link
      /\ \A j \in Items : Thinned(j)
  BY SendNextStep DEF SendNext, TypeOK, Link
<1>2. /\ link'.stage = link.stage /\ link'.mutual = link.mutual /\ link'.queue = Tail(link.queue)
      /\ due' = {j \in due : rows'[j] # NoRow}
  BY <1>1 DEF SendNext, Link
<1>3. ASSUME NEW j \in due', Wanted(j)
      PROVE  /\ Wanted(j)'
             /\ j \in offered \cup ToSet(link.queue) => j \in offered' \cup ToSet(link'.queue)
  <2>1. j \in Items /\ rows'[j] # NoRow
    BY <1>2, <1>3 DEF TypeOK
  <2>2. Wanted(j)'
    BY <1>1, <1>2, <1>3, <2>1, ThinnedStaysWanted
  <2>3. CASE j \in offered
    BY <2>2, <2>3 DEF SendNext
  <2>4. CASE j = i
    <3>1. Has(j) /\ HasData(j)
      BY <1>3, <2>1, WantedHasData
    <3>2. Kind[j] = "DbRecord" => Searched(j)[j] # NoRow
      BY <2>1, <2>4, <3>1 DEF SendNext
    <3>3. j \in offered'
      BY <2>4, <3>1, <3>2 DEF SendNext
    <3>4. QED
      BY <2>2, <3>3
  <2>5. CASE j \in ToSet(link.queue) /\ j # i
    <3>1. j \in ToSet(Tail(link.queue))
      <4>1. PICK k \in 1 .. Len(link.queue) : link.queue[k] = j
        BY <1>1, <2>5 DEF ToSet
      <4>2. k - 1 \in 1 .. Len(Tail(link.queue)) /\ Tail(link.queue)[k - 1] = j
        BY <1>1, <2>5, <4>1
      <4>3. Tail(link.queue) \in Seq(Items) /\ DOMAIN Tail(link.queue) = 1 .. Len(Tail(link.queue))
        BY <1>1
      <4>4. QED
        BY <4>2, <4>3 DEF ToSet
    <3>2. QED
      BY <1>2, <2>2, <3>1
  <2>6. QED
    BY <2>2, <2>3, <2>4, <2>5
<1>4. due' \subseteq due
  BY <1>2
<1>5. QED
  BY <1>2, <1>3, <1>4, DueStays

-----------------------------------------------------------------------------
IInv == TypeOK /\ StampsPast /\ KeptHaveData /\ CountCovers

LEMMA InitIInv == Init => IInv /\ DueIsOffered
<1> SUFFICES ASSUME Init PROVE IInv /\ DueIsOffered
  OBVIOUS
<1>1. now \in 1 .. MaxTime /\ now = 1 /\ {0, now} \subseteq Times
  BY ContentAssumption DEF Init, Times
<1>2. NoRow \in Row /\ KeyRow \in Row
  BY <1>1 DEF NoRow, KeyRow, Row
<1>3. rows \in [Items -> Row] /\ \A i \in Items : rows[i] \in {NoRow, KeyRow}
  BY <1>2 DEF Init
<1>4. \A kind \in Kinds : NumberOfRows(kind) \in Nat
  <2>1. \A i \in Items : Copies[i] \in Nat
    BY <1>3 DEF Copies, Row
  <2>2. QED
    BY <2>1, RowsAreFinite DEF NumberOfRows, Of
<1>5. count \in [Kinds -> Nat] /\ \A kind \in Kinds : count[kind] = NumberOfRows(kind)
  BY <1>4 DEF Init
<1>6. NotConnected \in Link
  BY <1>1 DEF NotConnected, Link, Stages
<1>7. TypeOK
  BY <1>1, <1>3, <1>5, <1>6, ContentAssumption DEF Init, TypeOK
<1>8. StampsPast
  <2>1. NoRow.stamp = 0 /\ KeyRow.stamp = 0
    BY DEF NoRow, KeyRow
  <2>2. QED
    BY <1>1, <1>3, <2>1 DEF StampsPast
<1>9. KeptHaveData
  <2>1. \A i \in Items : Has(i) => i = Own
    BY DEF Init, Has, NoRow
  <2>2. Kind[Own] = "UserProfile"
    BY ContentAssumption DEF Of
  <2>3. QED
    BY <2>1, <2>2 DEF KeptHaveData
<1>10. CountCovers
  <2>1. ASSUME NEW kind \in CountedKinds PROVE count[kind] >= NumberOfRows(kind)
    BY <1>4, <1>5 DEF CountedKinds, Kinds
  <2>2. QED
    BY <2>1 DEF CountCovers, CountedKinds
<1>11. DueIsOffered
  BY DEF Init, DueIsOffered
<1>12. QED
  BY <1>7, <1>8, <1>9, <1>10, <1>11 DEF IInv

\* The steps of the connection, which leave the tables alone.
LinkStep == EndFill \/ StartAgain \/ Connect \/ Disconnect \/ TimerEvent \/ Tick

LEMMA LinkStepTypes ==
    ASSUME TypeOK, LinkStep
    PROVE  TypeOK' /\ UNCHANGED <<rows, count>> /\ now' \in Nat /\ now' >= now
<1>1. now \in 1 .. MaxTime /\ now \in Times /\ MaxTime \in Nat /\ link \in Link /\ mutual \in 0 .. now
      /\ mutual \in Times /\ NotConnected \in Link
  BY ContentAssumption, RowsWritten DEF TypeOK, Times
<1>2. UNCHANGED <<rows, count>> /\ forwarded' \subseteq Items /\ arriving' \in [Items -> Nat]
      /\ offered' \subseteq Items /\ due' \subseteq Items
  BY DEF LinkStep, EndFill, StartAgain, Connect, Disconnect, TimerEvent, Tick, Quiet, tableVars,
         linkVars, TypeOK
<1>3. /\ now' \in 1 .. MaxTime /\ now' >= now
      /\ mutual' \in 0 .. now'
  <2>1. CASE Tick
    BY <1>1, <2>1 DEF Tick, linkVars
  <2>2. CASE ~Tick
    BY <1>1, <2>2 DEF LinkStep, EndFill, StartAgain, Connect, Disconnect, TimerEvent
  <2>3. QED
    BY <2>1, <2>2
<1>4. link' \in Link
  <2>1. CASE EndFill \/ StartAgain
    <3>1. NextStage[link.stage] \in Stages
      BY <2>1 DEF EndFill, StartAgain, NextStage, Stages
    <3>2. QED
      BY <1>1, <2>1, <3>1 DEF EndFill, StartAgain, Link
  <2>2. CASE Connect
    BY <1>1, <2>2 DEF Connect, NotConnected, Link
  <2>3. CASE Disconnect \/ TimerEvent \/ Tick
    BY <1>1, <2>3 DEF Disconnect, TimerEvent, Tick, linkVars
  <2>4. QED
    BY <2>1, <2>2, <2>3 DEF LinkStep
<1>5. QED
  BY <1>2, <1>3, <1>4 DEF TypeOK, Times

LEMMA SameTables ==
    ASSUME TypeOK, StampsPast, KeptHaveData, CountCovers,
           UNCHANGED <<rows, count>>, now' \in Nat, now' >= now
    PROVE  StampsPast' /\ KeptHaveData' /\ CountCovers'
<1>1. StampsPast'
  BY DEF StampsPast, TypeOK, Row, Times
<1>2. KeptHaveData'
  BY DEF KeptHaveData, Has, HasData
<1>3. CountCovers'
  BY DEF CountCovers, NumberOfRows, Copies
<1>4. QED
  BY <1>1, <1>2, <1>3

\* Counting a table again makes its counter fit.
LEMMA RecountStep ==
    ASSUME TypeOK, StampsPast, KeptHaveData, CountCovers, CountComments \/ Restart, now' = now
    PROVE  TablesTyped' /\ StampsPast' /\ KeptHaveData' /\ CountCovers' /\ rows' = rows
<1>1. rows' = rows /\ \A kind \in Kinds : NumberOfRows(kind) \in Nat
  BY RowsWritten DEF CountComments, Restart
<1>2. count' \in [Kinds -> Nat]
  BY <1>1 DEF CountComments, Restart, TypeOK
<1>3. \A kind \in CountedKinds : count'[kind] \in {count[kind], NumberOfRows(kind)} /\ count'[kind] \in Nat
  BY <1>2 DEF CountComments, Restart, CountedKinds, Kinds, TypeOK
<1>4. \A kind \in CountedKinds : count'[kind] >= NumberOfRows(kind)'
  BY <1>1, <1>3 DEF CountCovers, CountedKinds, NumberOfRows, Copies
<1>5. CountCovers'
  BY <1>4 DEF CountCovers, CountedKinds
<1>6. QED
  BY <1>1, <1>2, <1>5 DEF TablesTyped, TypeOK, StampsPast, KeptHaveData, Has, HasData

-----------------------------------------------------------------------------
(***************************************************************************)
(* The theorems.                                                           *)
(***************************************************************************)
LEMMA HouseKeepingStep ==
    ASSUME TypeOK, StampsPast, KeptHaveData, CountCovers, HouseKeeping
    PROVE  /\ TypeOK' /\ StampsPast' /\ KeptHaveData' /\ CountCovers'
           /\ \A j \in Items : Thinned(j)
           /\ due' \subseteq {j \in due : rows'[j] = rows[j] \/ rows'[j] # NoRow}
<1>1. UNCHANGED <<mutual, link, offered, now, arriving>> /\ forwarded' = {}
  BY DEF HouseKeeping, Quiet
<1>2. CASE TruncateProfiles \/ TruncateCounted
  <2>1. PICK kind \in Kinds, total \in Nat :
          Cut(kind, total) /\ (kind \in CountedKinds => total = count[kind])
    <3>1. CASE TruncateProfiles
      BY <3>1, RowsWritten DEF TruncateProfiles, Kinds, CountedKinds
    <3>2. CASE TruncateCounted
      BY <3>2 DEF TruncateCounted, Kinds, TypeOK
    <3>3. QED
      BY <1>2, <3>1, <3>2
  <2>2. TablesTyped' /\ CountCovers' /\ \A j \in Items : Thinned(j)
    BY <2>1, CutStep
  <2>3. due' = {j \in due : rows'[j] # NoRow}
    BY <2>1 DEF Cut
  <2>4. TypeOK'
    BY <1>1, <2>2, <2>3, RestOfTypes DEF TypeOK
  <2>5. QED
    BY <1>1, <2>2, <2>3, <2>4, ThinningKeepsRows
<1>3. CASE CountComments
  <2>1. TablesTyped' /\ StampsPast' /\ KeptHaveData' /\ CountCovers' /\ rows' = rows
    BY <1>1, <1>3, RecountStep
  <2>2. due' = due
    BY <1>3 DEF CountComments
  <2>3. TypeOK'
    BY <1>1, <2>1, <2>2, RestOfTypes DEF TypeOK
  <2>4. due' \subseteq {j \in due : rows'[j] = rows[j] \/ rows'[j] # NoRow}
    BY <2>1, <2>2 DEF TypeOK
  <2>5. QED
    BY <2>1, <2>3, <2>4, RowLeftAlone DEF Thinned
<1>4. QED
  BY <1>2, <1>3 DEF HouseKeeping

LEMMA ListKeepsRows ==
    ASSUME TypeOK, StampsPast, KeptHaveData,
           NEW ads \in SUBSET Of("ClassifiedAd"), ReceiveListOfAds(ads)
    PROVE  StampsPast' /\ KeptHaveData'
<1>1. now' = now /\ now \in Nat
  BY RowsWritten DEF ReceiveListOfAds
<1>2. \A i \in Items : rows'[i] = rows[i] \/ (i \in ads /\ rows'[i].stamp \in {rows[i].stamp, now})
  BY ReceiveListStep
<1>3. \A i \in ads : Kind[i] = "ClassifiedAd"
  BY DEF Of
<1>4. StampsPast'
  BY <1>1, <1>2 DEF StampsPast
<1>5. QED
  BY <1>2, <1>3, <1>4 DEF KeptHaveData, Has, HasData

LEMMA NextIInv == IInv /\ [Next]_vars => IInv'
<1> SUFFICES ASSUME IInv, [Next]_vars PROVE IInv'
  OBVIOUS
<1> USE DEF IInv
<1>1. CASE ReceiveSome
  <2>1. PICK m \in Messages : Receive(m)
    BY <1>1 DEF ReceiveSome
  <2>2. TypeOK' /\ Handles(m.item, m.from) /\ m.item \in Items /\ now' = now
    BY <2>1, ReceiveStep, MessageTypes DEF Receive
  <2>3. QED
    BY <2>2, HandlingIsCovered, HandlingKeepsRows
<1>2. CASE ReceiveSomeList
  <2>1. PICK ads \in SUBSET Of("ClassifiedAd") : ReceiveListOfAds(ads)
    BY <1>2 DEF ReceiveSomeList
  <2>2. QED
    BY <2>1, ReceiveListStep, ListKeepsRows
<1>3. CASE PublishSome
  <2>1. PICK i \in Items : Publish(i)
    BY <1>3 DEF PublishSome
  <2>2. TypeOK' /\ Handles(i, rows'[i].from) /\ now' = now
    BY <2>1, PublishStep DEF Publish
  <2>3. QED
    BY <2>2, HandlingIsCovered, HandlingKeepsRows
<1>4. CASE SearchSomeRecord
  <2>1. PICK i \in Of("DbRecord") : SearchRecord(i)
    BY <1>4 DEF SearchSomeRecord
  <2>2. i \in Items /\ now' = now
    BY <2>1 DEF Of, SearchRecord
  <2>3. TypeOK' /\ CountCovers' /\ \A j \in Items : Thinned(j)
    BY <2>1, <2>2, SearchStep
  <2>4. TablesTyped'
    BY <2>3 DEF TypeOK, TablesTyped
  <2>5. QED
    BY <2>2, <2>3, <2>4, ThinningKeepsRows
<1>5. CASE HouseKeeping
  BY <1>5, HouseKeepingStep
<1>6. CASE Fill
  <2>1. TypeOK' /\ UNCHANGED <<rows, count, now>>
    BY <1>6, FillTypes
  <2>2. now' \in Nat /\ now' >= now
    BY <2>1, RowsWritten
  <2>3. QED
    BY <2>1, <2>2, SameTables
<1>7. CASE LinkStep
  BY <1>7, LinkStepTypes, SameTables
<1>8. CASE SendNext
  <2>1. TypeOK' /\ CountCovers' /\ now' = now /\ \A j \in Items : Thinned(j)
    BY <1>8, SendNextStep DEF SendNext
  <2>2. TablesTyped'
    BY <2>1 DEF TypeOK, TablesTyped
  <2>3. QED
    BY <2>1, <2>2, ThinningKeepsRows
<1>9. CASE Restart
  <2>1. TablesTyped' /\ StampsPast' /\ KeptHaveData' /\ CountCovers'
    BY <1>9, RecountStep DEF Restart
  <2>2. TypeOK'
    BY <1>9, <2>1, RestOfTypes, RowsWritten DEF Restart, TypeOK, Quiet
  <2>3. QED
    BY <2>1, <2>2
<1>10. CASE UNCHANGED vars
  <2>1. TypeOK' /\ UNCHANGED <<rows, count, now>>
    BY <1>10 DEF vars, tableVars, linkVars, TypeOK
  <2>2. now' \in Nat /\ now' >= now
    BY <2>1, RowsWritten
  <2>3. QED
    BY <2>1, <2>2, SameTables
<1>11. QED
  BY <1>1, <1>2, <1>3, <1>4, <1>5, <1>6, <1>7, <1>8, <1>9, <1>10
     DEF Next, NextWithoutTimer, LinkStep

THEOREM InvariantHolds == Spec => []IInv
BY InitIInv, NextIInv, PTL DEF Spec

\* Every variable keeps its type.
THEOREM TypeCorrect == Spec => []TypeOK
<1>1. IInv => TypeOK
  BY DEF IInv
<1>2. QED
  BY <1>1, InvariantHolds, PTL

\* The counters cover the tables, whatever arrives, is published, thrown out and
\* counted in whatever order (ModelBase::truncateDataTableToMaxRows,
\* iCurrentDbTableRowCount).
THEOREM CountersAlwaysCover == Spec => []CountCovers
<1>1. IInv => CountCovers
  BY DEF IInv
<1>2. QED
  BY <1>1, InvariantHolds, PTL

\* The stages that the steps which end or begin a connection or a fill lead to.
LEMMA StagesReached ==
    ASSUME TypeOK
    PROVE  /\ NotConnected.stage = "OwnNodeGreeting"
           /\ EndFill => link'.stage = "ClassifiedAd2NdAddr"
           /\ StartAgain \/ Connect \/ Disconnect \/ Restart => link'.stage = "OwnNodeGreeting"
<1>1. NotConnected.stage = "OwnNodeGreeting" /\ link \in Link /\ NotConnected \in Link
  BY RowsWritten DEF NotConnected, TypeOK
<1>2. /\ NextStage["UserProfileComment"] = "ClassifiedAd2NdAddr"
      /\ NextStage["ClassifiedAd2NdAddr"] = "OwnNodeGreeting"
  BY DEF NextStage
<1>3. ASSUME EndFill PROVE link'.stage = "ClassifiedAd2NdAddr"
  BY <1>1, <1>2, <1>3 DEF EndFill, Link
<1>4. ASSUME StartAgain PROVE link'.stage = "OwnNodeGreeting"
  BY <1>1, <1>2, <1>4 DEF StartAgain, Link
<1>5. ASSUME Connect PROVE link'.stage = "OwnNodeGreeting"
  BY <1>1, <1>5 DEF Connect, Link
<1>6. ASSUME Disconnect \/ Restart PROVE link'.stage = "OwnNodeGreeting"
  BY <1>1, <1>6 DEF Disconnect, Restart
<1>7. QED
  BY <1>1, <1>3, <1>4, <1>5, <1>6

LEMMA NextIsOffered ==
    ASSUME BucketFits, IInv, DueIsOffered, [Next]_vars
    PROVE  DueIsOffered'
<1> USE DEF IInv
<1>1. CASE ReceiveSome
  <2>1. PICK m \in Messages : Receive(m)
    BY <1>1 DEF ReceiveSome
  <2>2. Handles(m.item, m.from) /\ m.item \in Items
    BY <2>1, ReceiveStep, MessageTypes
  <2>3. CASE link' = link
    <3>1. due' = {i \in due : m.from = Peer => i # m.item} /\ offered' = offered
      BY <2>1 DEF Receive
    <3>2. ASSUME NEW j \in due', Wanted(j) PROVE Wanted(j)'
      <4>1. j \in Items /\ (j = m.item => m.from # Peer)
        BY <3>1, <3>2 DEF TypeOK
      <4>2. QED
        BY <2>2, <2>3, <3>2, <4>1, HandledStaysWanted
    <3>3. due' \subseteq due
      BY <3>1
    <3>4. QED
      BY <2>3, <3>1, <3>2, <3>3, DueStays
  <2>4. CASE link' = NotConnected
    BY <2>4, NothingDue, StagesReached
  <2>5. QED
    BY <2>1, <2>3, <2>4 DEF Receive
<1>2. CASE ReceiveSomeList
  <2>1. PICK ads \in SUBSET Of("ClassifiedAd") : ReceiveListOfAds(ads)
    BY <1>2 DEF ReceiveSomeList
  <2>2. UNCHANGED linkVars /\ \A i \in Items : rows'[i] = rows[i] \/ ~HasData(i)
    BY <2>1, ReceiveListStep DEF ReceiveListOfAds
  <2>3. ASSUME NEW j \in due', Wanted(j) PROVE Wanted(j)'
    <3>1. j \in Items /\ HasData(j)
      BY <2>2, <2>3, WantedHasData DEF linkVars, TypeOK
    <3>2. SameContent(j)
      BY <2>2, <3>1, RowLeftAlone
    <3>3. QED
      BY <2>2, <2>3, <3>1, <3>2, SameStaysWanted DEF linkVars
  <2>4. QED
    BY <2>2, <2>3, DueStays DEF linkVars
<1>3. CASE PublishSome
  <2>1. PICK i \in Items : Publish(i)
    BY <1>3 DEF PublishSome
  <2>2. /\ UNCHANGED linkVars /\ Handles(i, rows'[i].from)
        /\ rows'[i].from \in {rows[i].from, NoSender} /\ NoSender # Peer
    BY <2>1, PublishStep, ContentAssumption DEF Publish, Senders
  <2>3. ASSUME NEW j \in due', Wanted(j) PROVE Wanted(j)'
    <3>1. j \in Items
      BY <2>2 DEF linkVars, TypeOK
    <3>2. QED
      BY <2>2, <2>3, <3>1, HandledStaysWanted DEF linkVars
  <2>4. QED
    BY <2>2, <2>3, DueStays DEF linkVars
<1>4. CASE SearchSomeRecord
  <2>1. PICK i \in Of("DbRecord") : SearchRecord(i)
    BY <1>4 DEF SearchSomeRecord
  <2>2. /\ UNCHANGED <<link, offered>> /\ due' = {j \in due : rows'[j] # NoRow}
        /\ \A j \in Items : Thinned(j)
    BY <2>1, SearchStep DEF SearchRecord, Of
  <2>3. \A j \in due' : Wanted(j) => Wanted(j)'
    BY <2>2, ThinnedStaysWanted DEF TypeOK
  <2>4. due' \subseteq due
    BY <2>2
  <2>5. QED
    BY <2>2, <2>3, <2>4, DueStays
<1>5. CASE HouseKeeping
  <2>1. /\ UNCHANGED <<link, offered>> /\ \A j \in Items : Thinned(j)
        /\ due' \subseteq {j \in due : rows'[j] = rows[j] \/ rows'[j] # NoRow}
    BY <1>5, HouseKeepingStep DEF HouseKeeping
  <2>2. ASSUME NEW j \in due', Wanted(j) PROVE Wanted(j)'
    <3>1. j \in Items
      BY <2>1 DEF TypeOK
    <3>2. CASE rows'[j] = rows[j]
      BY <2>1, <2>2, <3>1, <3>2, RowLeftAlone, SameStaysWanted
    <3>3. CASE rows'[j] # NoRow
      BY <2>1, <2>2, <3>1, <3>3, ThinnedStaysWanted
    <3>4. QED
      BY <2>1, <3>2, <3>3
  <2>3. due' \subseteq due
    BY <2>1
  <2>4. QED
    BY <2>1, <2>2, <2>3, DueStays
<1>6. CASE Fill
  BY <1>6, FillIsOffered
<1>7. CASE SendNext
  BY <1>7, SendNextIsOffered
<1>8. CASE EndFill \/ StartAgain \/ Connect \/ Disconnect \/ Restart
  <2>1. link'.stage \in {"OwnNodeGreeting", "ClassifiedAd2NdAddr"}
    BY <1>8, StagesReached
  <2>2. QED
    BY <2>1, NothingDue
<1>9. CASE TimerEvent \/ Tick \/ UNCHANGED vars
  <2>1. UNCHANGED <<rows, link, offered, due>>
    BY <1>9 DEF TimerEvent, Tick, tableVars, linkVars, vars
  <2>2. ASSUME NEW j \in due', Wanted(j) PROVE Wanted(j)'
    <3>1. j \in Items
      BY <2>1 DEF TypeOK
    <3>2. QED
      BY <2>1, <2>2, <3>1, RowLeftAlone, SameStaysWanted
  <2>3. QED
    BY <2>1, <2>2, DueStays
<1>10. QED
  BY <1>1, <1>2, <1>3, <1>4, <1>5, <1>6, <1>7, <1>8, <1>9 DEF Next, NextWithoutTimer

\* When no table has more for the peer than one select gives, a fill that ends has
\* sent whatever was new for the peer at its start and still is
\* (Connection::checkForBucketFill).
THEOREM FillsAreComplete == BucketFits => (Spec => FillIsComplete)
<1> SUFFICES ASSUME BucketFits PROVE Spec => FillIsComplete
  OBVIOUS
<1>1. Init => DueIsOffered
  BY InitIInv
<1>2. IInv /\ DueIsOffered /\ [Next]_vars => DueIsOffered'
  BY NextIsOffered
<1> DEFINE Complete == link.stage = "UserProfileComment" /\ link'.stage = "ClassifiedAd2NdAddr" =>
                         \A i \in due : Wanted(i) => i \in offered
<1>3. IInv /\ DueIsOffered /\ [Next]_vars => [Complete]_vars
  <2> SUFFICES ASSUME IInv, DueIsOffered, Next, link.stage = "UserProfileComment",
                      link'.stage = "ClassifiedAd2NdAddr", NEW i \in due, Wanted(i)
               PROVE  i \in offered
    OBVIOUS
  <2>1. link.queue = <<>>
    <3>1. CASE EndFill
      BY <3>1 DEF EndFill, CanFill
    <3>2. CASE ~EndFill
      <4>1. TypeOK /\ link \in Link
        BY DEF IInv, TypeOK
      <4>2. ~Fill /\ ~StartAgain
        BY <4>1, StagesReached DEF Fill, AskedIn
      <4>3. ~ReceiveSome
        BY <4>1, StagesReached DEF ReceiveSome, Receive
      <4>4. ~ReceiveSomeList /\ ~PublishSome /\ ~SearchSomeRecord /\ ~HouseKeeping
            /\ ~TimerEvent /\ ~Tick
        BY DEF ReceiveSomeList, ReceiveListOfAds, PublishSome, Publish, SearchSomeRecord,
               SearchRecord, HouseKeeping, TimerEvent, Tick, linkVars
      <4>5. ~SendNext
        BY <4>1 DEF SendNext, Link
      <4>6. ~Connect /\ ~Disconnect /\ ~Restart
        BY <4>1, StagesReached
      <4>7. QED
        BY <3>2, <4>2, <4>3, <4>4, <4>5, <4>6 DEF Next, NextWithoutTimer
    <3>3. QED
      BY <3>1, <3>2
  <2>2. i \in Items /\ Kind[i] \in Kinds
    BY ContentAssumption DEF IInv, TypeOK
  <2>3. i \in offered \cup ToSet(link.queue)
    BY <2>2 DEF DueIsOffered, AskedBefore
  <2>4. QED
    BY <2>1, <2>3 DEF ToSet
<1>4. QED
  BY <1>1, <1>2, <1>3, InvariantHolds, PTL DEF Spec, FillIsComplete
=============================================================================
