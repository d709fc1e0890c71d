----------------------------- MODULE DeskProofs -----------------------------
(***************************************************************************)
(* Proofs about what the user, the network and programs do to what is      *)
(* shown and stored. First about Desk, for any profiles, passwords, stored *)
(* items and programs, and with no bound on how often anything happens:    *)
(* contacts stay with their profile, what is stored is signed, a file is   *)
(* its owner's, lists become complete, trust follows the lists. Then about *)
(* Scripts, the thread the programs run in.                                *)
(*                                                                         *)
(* None of the invariants of Desk is inductive. Contacts are also held     *)
(* where they are shown, under whichever profile the window shows: that is *)
(* the profile in use only if no selection waits in the queue. A list that *)
(* is not complete has a row still to be read, for which its timer runs,   *)
(* or will be told of what it lacks by an event that waits. DeskInv says   *)
(* both, with what they need of the queue.                                 *)
(*                                                                         *)
(* The handlers call a dozen operations one in the other: most lemmas are  *)
(* about these, and say which fields of the state one changes ("Changes")  *)
(* and what it keeps ("Keeps"). A handler then either leaves the queue and *)
(* the profile in use alone, or puts profiles in use and says so in the    *)
(* queue ("Handled").                                                      *)
(***************************************************************************)
EXTENDS Desk, Scripts, SequenceLemmas, FiniteSetTheorems, TLAPS

\* The state is a record; its fields, and those a step may have changed.
Fields == {"publicKeys", "profiles", "privateKeys", "privateData", "contentKeyPasswd",
           "profileInUse", "manyKeys", "dialogs", "selected", "viewed", "contacts", "names",
           "tree", "events", "generated", "made", "spoiled", "behind", "patched"}
IsDesk(s) == s = [x \in Fields |-> s[x]]
Changes(s, t, changed) == IsDesk(t) /\ \A x \in Fields \ changed : t[x] = s[x]

\* If the window shows a profile, it showed the same one before.
ShowsSame(s, t) ==
    t.selected # NoProfile =>
        s.selected # NoProfile /\ t.selected.iFingerPrint = s.selected.iFingerPrint

LEMMA PublishProfileChanges ==
    ASSUME NEW s, IsDesk(s), NEW p
    PROVE  Changes(s, PublishProfile(s, p), {"profiles", "behind"})
BY DEF Changes, IsDesk, Fields, PublishProfile

LEMMA SetPrivateDataChanges ==
    ASSUME NEW s, IsDesk(s), NEW p, NEW data
    PROVE  LET t == SetPrivateDataForProfile(s, p, data) IN
           /\ Changes(s, t, {"privateData"})
           /\ t.privateData = IF Encrypt(s, {p}) /\ PrivateKey(s, p)
                              THEN With(s.privateData, p, data) ELSE s.privateData
BY DEF Changes, IsDesk, Fields, SetPrivateDataForProfile

LEMMA StoreChanges ==
    ASSUME NEW s, IsDesk(s), NEW publish
    PROVE  LET t == StorePrivateDataOfSelectedProfile(s, publish)
               u == s.profileInUse
           IN
           /\ Changes(s, t, {"privateData", "spoiled", "selected", "profiles", "behind"})
           /\ t.spoiled = IF u # Nobody /\ SelectionPending(s)
                          THEN s.spoiled \cup {u} ELSE s.spoiled
           /\ t.privateData = IF u # Nobody /\ Encrypt(s, {u}) /\ PrivateKey(s, u)
                              THEN With(s.privateData, u,
                                        [contacts |-> s.contacts, names |-> s.names])
                              ELSE s.privateData
           /\ ShowsSame(s, t)
           /\ ~publish => t.profiles = s.profiles
<1> DEFINE u == s.profileInUse
           data == [contacts |-> s.contacts, names |-> s.names]
           stored1 == SetPrivateDataForProfile(s, u, data)
           noted == [stored1 EXCEPT !.spoiled =
                          IF SelectionPending(s) THEN @ \cup {u} ELSE @]
           listed == [noted EXCEPT !.selected =
                          [@ EXCEPT !.iTrustList = TrustList(s.contacts)]]
<1>1. /\ Changes(s, stored1, {"privateData"})
      /\ stored1.privateData = IF Encrypt(s, {u}) /\ PrivateKey(s, u)
                              THEN With(s.privateData, u, data) ELSE s.privateData
  BY SetPrivateDataChanges
<1> HIDE DEF stored1
<1>2. /\ Changes(s, noted, {"privateData", "spoiled"})
      /\ noted.privateData = stored1.privateData
      /\ noted.spoiled = IF SelectionPending(s) THEN s.spoiled \cup {u} ELSE s.spoiled
  BY <1>1 DEF Changes, IsDesk, Fields
<1> HIDE DEF noted
<1>3. /\ Changes(noted, listed, {"selected"})
      /\ listed.selected = [s.selected EXCEPT !.iTrustList = TrustList(s.contacts)]
  BY <1>2 DEF Changes, IsDesk, Fields
<1> HIDE DEF listed
<1>4. Changes(listed, PublishProfile(listed, listed.selected), {"profiles", "behind"})
  BY <1>3, PublishProfileChanges DEF Changes
<1> DEFINE t == StorePrivateDataOfSelectedProfile(s, publish)
<1>5. t = IF u = Nobody THEN s
          ELSE IF s.selected = NoProfile THEN noted
          ELSE IF publish THEN PublishProfile(listed, listed.selected)
          ELSE listed
  BY DEF StorePrivateDataOfSelectedProfile, noted, listed, stored1
<1> HIDE DEF t, data
<1>6. /\ Changes(s, t, {"privateData", "spoiled", "selected", "profiles", "behind"})
  BY <1>1, <1>2, <1>3, <1>4, <1>5 DEF Changes, Fields
<1>7. t.spoiled = IF u # Nobody /\ SelectionPending(s) THEN s.spoiled \cup {u} ELSE s.spoiled
  BY <1>2, <1>3, <1>4, <1>5 DEF Changes, Fields
<1>8. t.privateData = IF u # Nobody /\ Encrypt(s, {u}) /\ PrivateKey(s, u)
                      THEN With(s.privateData, u, data) ELSE s.privateData
  BY <1>1, <1>2, <1>3, <1>4, <1>5 DEF Changes, Fields
<1>9. ShowsSame(s, t)
  <2>1. noted.selected = s.selected
    BY <1>2 DEF Changes, Fields
  <2>2. listed.selected.iFingerPrint = s.selected.iFingerPrint
    BY <1>3
  <2>3. QED
    BY <1>3, <1>4, <1>5, <2>1, <2>2 DEF Changes, Fields, ShowsSame
<1>10. ~publish => t.profiles = s.profiles
  BY <1>1, <1>2, <1>3, <1>5 DEF Changes, Fields
<1>11. QED
  BY <1>6, <1>7, <1>8, <1>9, <1>10 DEF t, data

LEMMA RestoreChanges ==
    ASSUME NEW s, IsDesk(s)
    PROVE  LET t == ReStorePrivateDataOfSelectedProfile(s)
               u == s.profileInUse
           IN
           /\ Changes(s, t, {"contacts", "names", "spoiled", "tree", "behind", "patched"})
           /\ u = Nobody => t = s
           /\ s.spoiled \subseteq t.spoiled
           /\ u # Nobody => t.contacts = IF PrivateDataCanBeRead(s, u)
                                        THEN s.privateData[u].contacts ELSE s.contacts
           /\ u # Nobody /\ HasPrivateData(s, u) /\ ~PrivateDataCanBeRead(s, u) => u \in t.spoiled
<1> DEFINE t == ReStorePrivateDataOfSelectedProfile(s)
           u == s.profileInUse
           read == IF PrivateDataCanBeRead(s, u)
                     THEN [s EXCEPT !.contacts = s.privateData[u].contacts,
                                    !.names = s.privateData[u].names]
                     ELSE [s EXCEPT !.names = {},
                                    !.spoiled = IF HasPrivateData(s, u)
                                                THEN @ \cup {u} ELSE @]
<1>1. /\ Changes(s, read, {"contacts", "names", "spoiled"})
      /\ s.spoiled \subseteq read.spoiled
      /\ read.contacts = IF PrivateDataCanBeRead(s, u)
                         THEN s.privateData[u].contacts ELSE s.contacts
      /\ HasPrivateData(s, u) /\ ~PrivateDataCanBeRead(s, u) => u \in read.spoiled
  BY DEF Changes, IsDesk, Fields
<1>2. t = IF u = Nobody THEN s
          ELSE [read EXCEPT !.tree = InitModel(u, Lists(s)), !.behind = {}, !.patched = FALSE]
  BY Zenon DEF ReStorePrivateDataOfSelectedProfile
<1> HIDE DEF read, t
<1>3. \A x : /\ IsDesk([read EXCEPT !.tree = x, !.behind = {}, !.patched = FALSE])
            /\ Changes(read, [read EXCEPT !.tree = x, !.behind = {}, !.patched = FALSE],
                       {"tree", "behind", "patched"})
  BY <1>1 DEF Changes, IsDesk, Fields
<1>4. Changes(s, t, {"contacts", "names", "spoiled", "tree", "behind", "patched"})
  BY <1>1, <1>2, <1>3 DEF Changes, Fields
<1>5. u # Nobody => t.contacts = read.contacts /\ t.spoiled = read.spoiled
  BY <1>2, <1>3 DEF Changes, Fields
<1>6. QED
  BY <1>1, <1>2, <1>4, <1>5 DEF t

\* What is noted of the lists the tree does not have, when it changes.
StillBehind(s, behind, tree) ==
    {p \in behind \cap DOMAIN tree : s.tree[p].named \/ ~tree[p].named}

LEMMA TreeChangedChanges ==
    ASSUME NEW s, IsDesk(s), NEW behind, NEW tree, NEW patched
    PROVE  LET t == [TreeChanged([s EXCEPT !.behind = behind], tree) EXCEPT !.patched = patched]
           IN  /\ Changes(s, t, {"tree", "behind", "patched"})
               /\ t.tree = tree /\ t.patched = patched
               /\ t.behind = StillBehind(s, behind, tree)
<1> DEFINE heard == [s EXCEPT !.behind = behind]
           left == {p \in behind \cap DOMAIN tree : heard.tree[p].named \/ ~tree[p].named}
           grown == [heard EXCEPT !.tree = tree, !.behind = left]
           t == [grown EXCEPT !.patched = patched]
<1>1. /\ Changes(s, heard, {"behind"}) /\ heard.behind = behind
      /\ heard.tree = s.tree
  BY DEF Changes, IsDesk, Fields
<1>2. TreeChanged(heard, tree) = grown
  <2>1. TreeChanged(heard, tree) =
           [heard EXCEPT !.tree = tree,
                         !.behind = {p \in heard.behind \cap DOMAIN tree :
                                         heard.tree[p].named \/ ~tree[p].named}]
    BY Zenon DEF TreeChanged
  <2> HIDE DEF heard
  <2>2. QED
    BY <1>1, <2>1
<1>3. left = StillBehind(s, behind, tree)
  BY <1>1 DEF StillBehind
<1> HIDE DEF heard, left
<1>4. Changes(heard, grown, {"tree", "behind"}) /\ grown.tree = tree /\ grown.behind = left
  BY <1>1 DEF Changes, IsDesk, Fields
<1> HIDE DEF grown
<1>5. /\ Changes(grown, t, {"patched"}) /\ t.patched = patched
      /\ t.tree = grown.tree /\ t.behind = grown.behind
  BY <1>4 DEF Changes, IsDesk, Fields
<1>6. t = [TreeChanged([s EXCEPT !.behind = behind], tree) EXCEPT !.patched = patched]
  BY <1>2, Zenon DEF t, heard
<1> HIDE DEF t
<1>7. Changes(s, t, {"tree", "behind", "patched"})
  BY <1>1, <1>4, <1>5 DEF Changes, Fields
<1>8. QED
  BY <1>3, <1>4, <1>5, <1>6, <1>7

LEMMA OfferNameChanges ==
    ASSUME NEW s, IsDesk(s), NEW p
    PROVE  LET t == OfferDisplayNameForProfile(s, p)
               r == [s EXCEPT !.names = @ \cup {p}]
           IN
           /\ Changes(s, r, {"names"})
           /\ t = s \/ t = StorePrivateDataOfSelectedProfile(r, FALSE)
BY DEF Changes, IsDesk, Fields, OfferDisplayNameForProfile

-----------------------------------------------------------------------------
LEMMA InsertPublicKeyChanges ==
    ASSUME NEW s, IsDesk(s), NEW key, NEW p
    PROVE  LET t == InsertOrUpdatePublicKey(s, key, p) IN
           /\ Changes(s, t, {"publicKeys"})
           /\ s.publicKeys \subseteq t.publicKeys
           /\ key = p => p \in t.publicKeys
BY DEF Changes, IsDesk, Fields, InsertOrUpdatePublicKey

LEMMA GenerateChanges ==
    ASSUME NEW s, IsDesk(s), NEW key
    PROVE  LET r == GenerateKeyPair(s, key) IN
           \/ r.made = Nobody /\ r.s = s
           \/ /\ r.made = key
              /\ Changes(s, r.s, {"publicKeys", "privateKeys"})
              /\ r.s.publicKeys = s.publicKeys \cup {key}
              /\ DOMAIN r.s.privateKeys = DOMAIN s.privateKeys \cup {key}
BY DEF Changes, IsDesk, Fields, GenerateKeyPair, InsertOrUpdatePrivateKey, InsertOrUpdatePublicKey

LEMMA DeleteChanges ==
    ASSUME NEW s, IsDesk(s), NEW p
    PROVE  LET t == DeleteKeyPair(s, p) IN
           /\ Changes(s, t, {"publicKeys", "profiles", "privateKeys", "privateData"})
           /\ t.publicKeys = s.publicKeys \ {p}
           /\ t.privateKeys = [q \in DOMAIN s.privateKeys \ {p} |-> s.privateKeys[q]]
           /\ t.privateData = [q \in DOMAIN s.privateData \ {p} |-> s.privateData[q]]
BY DEF Changes, IsDesk, Fields, DeleteKeyPair

LEMMA ChangePasswordChanges ==
    ASSUME NEW s, IsDesk(s), NEW p, NEW password
    PROVE  LET t == ChangeKeyPassword(s, p, password) IN
           /\ Changes(s, t, {"privateKeys", "contentKeyPasswd"})
           /\ DOMAIN t.privateKeys = DOMAIN s.privateKeys
           /\ Opens(t, p) => Opens(s, p)
<1>1. CASE ~Opens(s, p)
  BY <1>1 DEF Changes, IsDesk, Fields, ChangeKeyPassword
<1>2. CASE Opens(s, p)
  BY <1>2 DEF Changes, IsDesk, Fields, ChangeKeyPassword, Opens, PrivateKey, InsertOrUpdatePrivateKey
<1>3. QED
  BY <1>1, <1>2

-----------------------------------------------------------------------------
\* Keys that are not made yet: no key of theirs is stored, nothing was added to
\* their contacts, and they are not in use.
KeysToCome(s) == {MyKeys[i] : i \in (s.generated + 1) .. Len(MyKeys)}

\* What is stored of contacts, but of the profiles in apart.
KeptBut(s, apart) ==
    /\ DOMAIN s.privateKeys \subseteq Mine \cap s.publicKeys
    /\ DOMAIN s.privateData \subseteq DOMAIN s.privateKeys
    /\ s.profileInUse \in Mine \cup {Nobody}
    /\ s.generated \in 0 .. Len(MyKeys)
    /\ DOMAIN s.made = Mine
    /\ \A p \in KeysToCome(s) :
          p \notin DOMAIN s.privateKeys /\ p # s.profileInUse /\ s.made[p] = <<>>
    /\ \A p \in DOMAIN s.privateKeys \ (s.spoiled \cup apart) :
          IF p \in DOMAIN s.privateData THEN s.privateData[p].contacts = s.made[p]
          ELSE s.made[p] = <<>>

\* The contacts that are shown are those of the profile in use, once the window
\* has followed the controller.
ShownAreMade(s) ==
    s.profileInUse \in DOMAIN s.privateKeys \ s.spoiled /\ ~SelectionPending(s)
        => s.contacts = s.made[s.profileInUse]

ContactsInv(s) == KeptBut(s, {}) /\ ShownAreMade(s)

QueueOK(s) == IsDesk(s) /\ s.events \in Seq(DeskEvent)

LEMMA NobodyIsNotMine == Nobody \notin Mine /\ Mine \subseteq People /\ Len(MyKeys) \in Nat
BY KeysAssumption, LenProperties DEF Mine, Range

LEMMA PendingMember ==
    ASSUME NEW s PROVE SelectionPending(s) <=> \E e \in ToSet(s.events) : e.kind = "selected"
BY DEF SelectionPending, ToSet

\* What the two halves of the invariant depend on.
LEMMA SameKept ==
    ASSUME NEW s, NEW t, NEW apart, KeptBut(s, apart),
           s.publicKeys \subseteq t.publicKeys, DOMAIN t.privateKeys = DOMAIN s.privateKeys,
           t.privateData = s.privateData, t.profileInUse = s.profileInUse,
           t.generated = s.generated, t.made = s.made, s.spoiled \subseteq t.spoiled
    PROVE  KeptBut(t, apart)
BY DEF KeptBut, KeysToCome

LEMMA SameShown ==
    ASSUME NEW s, NEW t, ShownAreMade(s),
           DOMAIN t.privateKeys = DOMAIN s.privateKeys, t.profileInUse = s.profileInUse,
           t.made = s.made, s.spoiled \subseteq t.spoiled, t.contacts = s.contacts,
           SelectionPending(s) => SelectionPending(t)
    PROVE  ShownAreMade(t)
BY DEF ShownAreMade

\* What is stored under the profile in use is what was made of it, or the profile
\* is spoiled from then on.
LEMMA StoreKeeps ==
    ASSUME NEW s, IsDesk(s), KeptBut(s, {s.profileInUse}), ShownAreMade(s), NEW publish
    PROVE  ContactsInv(StorePrivateDataOfSelectedProfile(s, publish))
<1> DEFINE t == StorePrivateDataOfSelectedProfile(s, publish)
           u == s.profileInUse
           data == [contacts |-> s.contacts, names |-> s.names]
<1>1. /\ Changes(s, t, {"privateData", "spoiled", "selected", "profiles", "behind"})
      /\ t.spoiled = IF u # Nobody /\ SelectionPending(s) THEN s.spoiled \cup {u} ELSE s.spoiled
      /\ t.privateData = IF u # Nobody /\ Encrypt(s, {u}) /\ PrivateKey(s, u)
                         THEN With(s.privateData, u, data) ELSE s.privateData
  BY StoreChanges
<1> HIDE DEF t
<1>2. /\ t.publicKeys = s.publicKeys /\ t.privateKeys = s.privateKeys /\ t.made = s.made
      /\ t.profileInUse = u /\ t.generated = s.generated /\ t.contacts = s.contacts
      /\ t.events = s.events
  BY <1>1 DEF Changes, Fields
<1>3. SelectionPending(t) = SelectionPending(s)
  BY <1>2 DEF SelectionPending
<1>4. s.spoiled \subseteq t.spoiled
  BY <1>1
<1>5. ShownAreMade(t)
  BY <1>2, <1>3, <1>4, SameShown
<1>6. CASE u \in DOMAIN s.privateKeys
  <2>1. u # Nobody /\ Encrypt(s, {u}) /\ PrivateKey(s, u)
    BY <1>6, NobodyIsNotMine DEF KeptBut, Encrypt, EncryptedTo, PrivateKey
  <2>2. t.privateData = With(s.privateData, u, data)
    BY <1>1, <2>1
  <2>3. /\ DOMAIN t.privateData = DOMAIN s.privateData \cup {u}
        /\ t.privateData[u] = data
        /\ \A p \in DOMAIN s.privateData \ {u} : t.privateData[p] = s.privateData[p]
    BY <2>2 DEF With
  <2>4. u \notin t.spoiled => data.contacts = s.made[u]
    BY <1>1, <1>6, <2>1 DEF ShownAreMade
  <2> HIDE DEF data
  <2>5. KeptBut(t, {})
    BY <1>2, <1>4, <1>6, <2>3, <2>4 DEF KeptBut, KeysToCome
  <2>6. QED
    BY <1>5, <2>5 DEF ContactsInv, t
<1>7. CASE u \notin DOMAIN s.privateKeys
  <2>1. t.privateData = s.privateData
    BY <1>1, <1>7 DEF PrivateKey
  <2>2. KeptBut(s, {})
    BY <1>7 DEF KeptBut
  <2>3. KeptBut(t, {})
    BY <1>2, <1>4, <2>1, <2>2, SameKept
  <2>4. QED
    BY <1>5, <2>3 DEF ContactsInv, t
<1>8. QED
  BY <1>6, <1>7

LEMMA RestoreKeeps ==
    ASSUME NEW s, IsDesk(s), KeptBut(s, {})
    PROVE  KeptBut(ReStorePrivateDataOfSelectedProfile(s), {})
<1> DEFINE t == ReStorePrivateDataOfSelectedProfile(s)
<1>1. /\ Changes(s, t, {"contacts", "names", "spoiled", "tree", "behind", "patched"})
      /\ s.spoiled \subseteq t.spoiled
  BY RestoreChanges
<1> HIDE DEF t
<1>2. KeptBut(t, {})
  BY <1>1, SameKept DEF Changes, Fields
<1>3. QED
  BY <1>2 DEF t

\* Another profile is put in use. Until the window follows nothing is said of the
\* contacts it shows.
LEMMA SetProfileInUseKeeps ==
    ASSUME NEW s, QueueOK(s), ContactsInv(s), NEW p \in (Mine \cup {Nobody}) \ KeysToCome(s)
    PROVE  LET t == SetProfileInUse(s, p) IN
           /\ QueueOK(t) /\ ContactsInv(t)
           /\ t.privateKeys = s.privateKeys /\ t.generated = s.generated
           /\ t.profileInUse = p /\ t.contentKeyPasswd = s.contentKeyPasswd
           /\ t.events = Append(s.events, [kind |-> "selected", of |-> p])
           /\ ShowsSame(s, t)
<1> DEFINE s1 == StorePrivateDataOfSelectedProfile(s, FALSE)
           many == Len(ListKeys(s)) > 1
           s2 == [s1 EXCEPT !.profileInUse = p, !.manyKeys = many]
           s3 == ReStorePrivateDataOfSelectedProfile(s2)
           e == [kind |-> "selected", of |-> p]
           t == [s3 EXCEPT !.events = Append(@, e)]
<1>1. /\ Changes(s, s1, {"privateData", "spoiled", "selected", "profiles", "behind"})
      /\ ShowsSame(s, s1)
  BY StoreChanges DEF QueueOK
<1>2. ContactsInv(s1)
  <2>1. KeptBut(s, {s.profileInUse})
    BY DEF ContactsInv, KeptBut
  <2>2. QED
    BY <2>1, StoreKeeps DEF ContactsInv, QueueOK
<1> HIDE DEF s1, many
<1>3. Changes(s1, s2, {"profileInUse", "manyKeys"}) /\ s2.profileInUse = p
  BY <1>1 DEF Changes, IsDesk, Fields
<1> HIDE DEF s2
<1>4. KeptBut(s2, {})
  <2>1. KeysToCome(s1) = KeysToCome(s)
    BY <1>1 DEF Changes, Fields, KeysToCome
  <2>2. p \in (Mine \cup {Nobody}) \ KeysToCome(s1)
    BY <2>1
  <2>3. QED
    BY <1>2, <1>3, <2>2 DEF ContactsInv, KeptBut, KeysToCome, Changes, Fields
<1>5. /\ Changes(s2, s3, {"contacts", "names", "spoiled", "tree", "behind", "patched"})
      /\ KeptBut(s3, {})
  BY <1>3, <1>4, RestoreChanges, RestoreKeeps DEF Changes
<1> HIDE DEF s3
<1>6. Changes(s3, t, {"events"}) /\ t.events = Append(s3.events, e)
  BY <1>5 DEF Changes, IsDesk, Fields
<1>7. t = SetProfileInUse(s, p)
  BY Zenon DEF SetProfileInUse, s1, s2, s3, many
<1>8. s3.events = s.events
  BY <1>1, <1>3, <1>5 DEF Changes, Fields
<1>9. e \in DeskEvent /\ e.kind = "selected"
  BY NobodyIsNotMine DEF DeskEvent
<1> HIDE DEF e, t
<1>10. t.events \in Seq(DeskEvent) /\ ToSet(t.events) = ToSet(s.events) \cup {e}
  BY <1>6, <1>8, <1>9, AppendMembers DEF QueueOK
<1>11. SelectionPending(t)
  BY <1>9, <1>10, PendingMember
<1>12. KeptBut(t, {}) /\ ShownAreMade(t)
  BY <1>5, <1>6, <1>11, SameKept DEF Changes, Fields, ShownAreMade
<1>13. /\ t.privateKeys = s.privateKeys /\ t.generated = s.generated
       /\ t.profileInUse = p /\ t.contentKeyPasswd = s.contentKeyPasswd
       /\ t.selected = s1.selected
  BY <1>1, <1>3, <1>5, <1>6 DEF Changes, Fields
<1>14. QED
  BY <1>1, <1>6, <1>7, <1>8, <1>10, <1>12, <1>13 DEF QueueOK, ContactsInv, Changes, ShowsSame, e

-----------------------------------------------------------------------------
\* What the lists are told by the queue: items, and whom to show at last.
Items(s) == {e \in ToSet(s.events) : e.kind \in {"comment", "message"}}
LastIsInUse(s) ==
    \A i \in DOMAIN s.events :
       /\ s.events[i].kind = "selected"
       /\ \A j \in DOMAIN s.events : i < j => s.events[j].kind # "selected"
       => s.events[i].of = s.profileInUse

\* A step that puts profiles in use, and one that lets the lists be.
Selects(s, t) == ShowsSame(s, t) /\ SelectionPending(t) /\ LastIsInUse(t) /\ Items(t) = Items(s)
Quiet(s, t) ==
    /\ ShowsSame(s, t) /\ t.events = s.events /\ t.profileInUse = s.profileInUse
    /\ Opens(t, t.profileInUse) => Opens(s, s.profileInUse)

LEMMA SelectsTransitive ==
    ASSUME NEW s, NEW t, NEW v, ShowsSame(s, t), Items(t) = Items(s), Selects(t, v)
    PROVE  Selects(s, v)
BY DEF Selects, ShowsSame

LEMMA SelectsThenQuiet ==
    ASSUME NEW s, NEW t, NEW v, Selects(s, t), Quiet(t, v)
    PROVE  Selects(s, v)
BY DEF Selects, Quiet, ShowsSame, Items, LastIsInUse, SelectionPending

LEMMA SetProfileInUseSelects ==
    ASSUME NEW s, QueueOK(s), ContactsInv(s), NEW p \in (Mine \cup {Nobody}) \ KeysToCome(s)
    PROVE  Selects(s, SetProfileInUse(s, p))
<1> DEFINE t == SetProfileInUse(s, p)
           e == [kind |-> "selected", of |-> p]
<1>1. /\ ShowsSame(s, t) /\ t.profileInUse = p /\ t.events = Append(s.events, e)
  BY SetProfileInUseKeeps
<1>2. e \in DeskEvent /\ e.kind = "selected" /\ e.of = p
  BY NobodyIsNotMine DEF DeskEvent
<1> HIDE DEF t, e
<1>3. /\ DOMAIN t.events = 1 .. (Len(s.events) + 1) /\ Len(s.events) \in Nat
      /\ t.events[Len(s.events) + 1] = e
      /\ ToSet(t.events) = ToSet(s.events) \cup {e}
  BY <1>1, <1>2, AppendProperties, AppendMembers, LenProperties DEF QueueOK
<1>4. SelectionPending(t)
  BY <1>2, <1>3, PendingMember
<1>5. LastIsInUse(t)
  BY <1>1, <1>2, <1>3 DEF LastIsInUse
<1>6. Items(t) = Items(s)
  BY <1>2, <1>3 DEF Items
<1>7. QED
  BY <1>1, <1>4, <1>5, <1>6 DEF Selects, t

LEMMA OneIsPutInUse ==
    ASSUME NEW s, QueueOK(s), ContactsInv(s), NEW p \in (Mine \cup {Nobody}) \ KeysToCome(s),
           NEW t, t = SetProfileInUse(s, p)
    PROVE  QueueOK(t) /\ ContactsInv(t) /\ KeysToCome(t) = KeysToCome(s) /\ Selects(s, t)
BY SetProfileInUseKeeps, SetProfileInUseSelects DEF KeysToCome

\* The recursive function in PutInUse exists, as that of Filter does.
IsPut(g, s, profiles, n) ==
    g = [i \in 0 .. n |-> IF i = 0 THEN s ELSE SetProfileInUse(g[i - 1], profiles[i])]

LEMMA PutExists ==
    ASSUME NEW s, NEW profiles, NEW n \in Nat
    PROVE  \E g : IsPut(g, s, profiles, n)
<1> DEFINE T == {k \in 0 .. n : \E g : IsPut(g, s, profiles, k)}
<1>1. 0 \in T
  <2>1. IsPut([i \in 0 .. 0 |-> s], s, profiles, 0)
    BY DEF IsPut
  <2>2. QED BY <2>1
<1>2. ASSUME NEW i \in 1 .. n, i - 1 \in T PROVE i \in T
  <2>1. PICK g : IsPut(g, s, profiles, i - 1)
    BY <1>2
  <2> DEFINE v == SetProfileInUse(g[i - 1], profiles[i])
             h == [j \in 0 .. i |-> IF j = i THEN v ELSE g[j]]
  <2>2. h[i] = v /\ \A j \in 0 .. (i - 1) : h[j] = g[j]
    OBVIOUS
  <2>3. \A j \in 0 .. (i - 1) :
           g[j] = IF j = 0 THEN s ELSE SetProfileInUse(g[j - 1], profiles[j])
    BY <2>1, Zenon DEF IsPut
  <2>4. DOMAIN h = 0 .. i /\ h = [j \in 0 .. i |-> h[j]]
    OBVIOUS
  <2> HIDE DEF h
  <2>5. h[0] = s /\ g[i - 1] = h[i - 1]
    BY <2>2, <2>3
  <2>6. ASSUME NEW j \in 1 .. i PROVE h[j] = SetProfileInUse(h[j - 1], profiles[j])
    <3>1. CASE j = i
      BY <2>2, <2>5, <3>1
    <3>2. CASE j # i
      <4>1. j \in 0 .. (i - 1) /\ j - 1 \in 0 .. (i - 1) /\ j # 0
        BY <3>2
      <4>2. QED
        BY <2>2, <2>3, <4>1
    <3>3. QED BY <3>1, <3>2
  <2> DEFINE r == [j \in 0 .. i |-> IF j = 0 THEN s ELSE SetProfileInUse(h[j - 1], profiles[j])]
  <2>7. \A j \in 0 .. i : h[j] = r[j]
    BY <2>5, <2>6
  <2>8. h = r
    BY <2>4, <2>7
  <2>9. IsPut(h, s, profiles, i)
    BY <2>8, Zenon DEF IsPut
  <2>10. QED BY <2>9
<1> HIDE DEF T
<1>3. n \in T
  BY <1>1, <1>2, UpToInduction
<1>4. QED
  BY <1>3 DEF T

LEMMA PutRecursion ==
    ASSUME NEW s, NEW profiles, Len(profiles) \in Nat
    PROVE  \E g : IsPut(g, s, profiles, Len(profiles)) /\ PutInUse(s, profiles) = g[Len(profiles)]
<1> DEFINE g == CHOOSE g : g = [i \in 0 .. Len(profiles) |->
          IF i = 0 THEN s ELSE SetProfileInUse(g[i - 1], profiles[i])]
<1>1. \E f : f = [i \in 0 .. Len(profiles) |->
          IF i = 0 THEN s ELSE SetProfileInUse(f[i - 1], profiles[i])]
  <2>1. PICK f : IsPut(f, s, profiles, Len(profiles))
    BY PutExists
  <2>2. QED
    BY <2>1, Zenon DEF IsPut
<1>2. g = [i \in 0 .. Len(profiles) |->
          IF i = 0 THEN s ELSE SetProfileInUse(g[i - 1], profiles[i])]
  BY <1>1, Zenon
<1>3. PutInUse(s, profiles) = g[Len(profiles)]
  BY Zenon DEF PutInUse
<1>4. QED
  BY <1>2, <1>3, Zenon DEF IsPut

\* One profile after the other is put in use.
LEMMA PutInUseKeeps ==
    ASSUME NEW s, QueueOK(s), ContactsInv(s), NEW profiles \in Seq(Mine), profiles # <<>>,
           ToSet(profiles) \cap KeysToCome(s) = {}
    PROVE  LET t == PutInUse(s, profiles) IN
           QueueOK(t) /\ ContactsInv(t) /\ KeysToCome(t) = KeysToCome(s) /\ Selects(s, t)
<1>1. Len(profiles) \in Nat /\ Len(profiles) # 0 /\ DOMAIN profiles = 1 .. Len(profiles)
  BY LenProperties, EmptySeq
<1>2. PICK g : IsPut(g, s, profiles, Len(profiles)) /\ PutInUse(s, profiles) = g[Len(profiles)]
  BY <1>1, PutRecursion
<1>3. g[0] = s /\ \A i \in 1 .. Len(profiles) : g[i] = SetProfileInUse(g[i - 1], profiles[i])
  BY <1>1, <1>2 DEF IsPut
<1> DEFINE T == {i \in 0 .. Len(profiles) :
                   /\ QueueOK(g[i]) /\ ContactsInv(g[i])
                   /\ KeysToCome(g[i]) = KeysToCome(s)
                   /\ i > 0 => Selects(s, g[i])}
<1>4. 0 \in T
  BY <1>1, <1>3
<1>5. ASSUME NEW i \in 1 .. Len(profiles), i - 1 \in T PROVE i \in T
  <2> DEFINE before == g[i - 1]
  <2>0. /\ QueueOK(before) /\ ContactsInv(before) /\ g[i] = SetProfileInUse(before, profiles[i])
        /\ KeysToCome(before) = KeysToCome(s)
    BY <1>3, <1>5
  <2>1. profiles[i] \in (Mine \cup {Nobody}) \ KeysToCome(before)
    BY <1>1, <2>0, ElementOfSeq DEF ToSet
  <2>2. /\ QueueOK(g[i]) /\ ContactsInv(g[i]) /\ KeysToCome(g[i]) = KeysToCome(before)
        /\ Selects(before, g[i])
    BY <2>0, <2>1, OneIsPutInUse
  <2>4. Selects(s, g[i])
    <3>1. CASE i = 1
      BY <1>3, <2>2, <3>1
    <3>2. CASE i # 1
      <4>1. Selects(s, before)
        <5>1. i - 1 > 0
          BY <1>1, <3>2
        <5>2. QED
          BY <1>5, <5>1
      <4> HIDE DEF before
      <4>2. QED
        BY <2>2, <4>1, SelectsTransitive DEF Selects
    <3>3. QED
      BY <3>1, <3>2
  <2>5. QED
    BY <2>0, <2>2, <2>4
<1> HIDE DEF T
<1>6. Len(profiles) \in T
  BY <1>1, <1>4, <1>5, UpToInduction
<1>7. QED
  BY <1>1, <1>2, <1>6 DEF T

-----------------------------------------------------------------------------
\* What a handler does: the contacts stay right, and the lists are told nothing,
\* or of profiles that are put in use.
Handled(s, t) == QueueOK(t) /\ ContactsInv(t) /\ (Quiet(s, t) \/ Selects(s, t))

Apart == Fields \ {"events", "profileInUse", "privateKeys", "contentKeyPasswd"}

LEMMA ApartIsQuiet ==
    ASSUME NEW s, NEW t, Changes(s, t, Apart), ShowsSame(s, t)
    PROVE  Quiet(s, t) /\ t.events = s.events /\ t.profileInUse = s.profileInUse
BY DEF Changes, Apart, Fields, Quiet, Opens, PrivateKey, PrivateKeyFromPem

LEMMA ApartIsHandled ==
    ASSUME NEW s, NEW t, QueueOK(s), Changes(s, t, Apart), ShowsSame(s, t), ContactsInv(t)
    PROVE  Handled(s, t)
BY ApartIsQuiet DEF Handled, QueueOK, Changes

\* Steps that have to do neither with contacts nor with keys.
LEMMA OthersAreHandled ==
    ASSUME NEW s, NEW t, QueueOK(s), ContactsInv(s), ShowsSame(s, t),
           Changes(s, t, {"dialogs", "viewed", "names", "tree", "behind", "patched", "profiles",
                          "selected", "publicKeys"}),
           s.publicKeys \subseteq t.publicKeys
    PROVE  Handled(s, t)
<1>1. Changes(s, t, Apart)
  BY DEF Changes, Apart, Fields
<1>2. /\ KeptBut(t, {})
  BY SameKept DEF Changes, Fields, ContactsInv
<1>3. SelectionPending(t) = SelectionPending(s)
  BY DEF Changes, Fields, SelectionPending
<1>4. ShownAreMade(t)
  BY <1>3, SameShown DEF Changes, Fields, ContactsInv
<1>5. QED
  BY <1>1, <1>2, <1>4, ApartIsHandled DEF ContactsInv

LEMMA KeysToComeAreMine == ASSUME NEW s PROVE s.generated \in Nat => KeysToCome(s) \subseteq Mine
BY NobodyIsNotMine, LenProperties, KeysAssumption DEF KeysToCome, Mine, Range

\* A key pair is made, if there is a password to write it with.
LEMMA NewKeyKeeps ==
    ASSUME NEW s, QueueOK(s), ContactsInv(s), s.generated < Len(MyKeys)
    PROVE  QueueOK(NewKey(s)) /\ ContactsInv(NewKey(s)) /\ Selects(s, NewKey(s))
<1> DEFINE key == MyKeys[s.generated + 1]
           new == GenerateKeyPair(s, key)
           t == [new.s EXCEPT !.generated = IF new.made = Nobody THEN @ ELSE @ + 1]
<1>1. s.generated \in Nat /\ s.generated + 1 \in DOMAIN MyKeys /\ Len(MyKeys) \in Nat
      /\ DOMAIN MyKeys = 1 .. Len(MyKeys)
  BY NobodyIsNotMine, KeysAssumption, LenProperties DEF ContactsInv, KeptBut
<1>2. key \in KeysToCome(s) /\ key \in Mine /\ key # Nobody
  BY <1>1, NobodyIsNotMine DEF KeysToCome, Mine, Range
<1>3. NewKey(s) = SetProfileInUse(t, new.made)
  BY DEF NewKey
<1>4. \/ new.made = Nobody /\ new.s = s
      \/ /\ new.made = key
         /\ Changes(s, new.s, {"publicKeys", "privateKeys"})
         /\ new.s.publicKeys = s.publicKeys \cup {key}
         /\ DOMAIN new.s.privateKeys = DOMAIN s.privateKeys \cup {key}
  BY GenerateChanges DEF QueueOK
<1> HIDE DEF new
<1>5. CASE new.made = Nobody /\ new.s = s
  <2>1. Changes(s, t, {})
    BY <1>5 DEF QueueOK, Changes, IsDesk, Fields
  <2>2. t = s
    BY <2>1 DEF QueueOK, Changes, IsDesk
  <2>3. Nobody \notin KeysToCome(s)
    BY <1>1, KeysToComeAreMine, NobodyIsNotMine
  <2>4. QED
    BY <1>3, <1>5, <2>2, <2>3, OneIsPutInUse
<1>6. CASE /\ new.made = key
           /\ Changes(s, new.s, {"publicKeys", "privateKeys"})
           /\ new.s.publicKeys = s.publicKeys \cup {key}
           /\ DOMAIN new.s.privateKeys = DOMAIN s.privateKeys \cup {key}
  <2>1. /\ Changes(new.s, t, {"generated"})
        /\ t.generated = s.generated + 1
    BY <1>2, <1>6 DEF Changes, IsDesk, Fields
  <2> HIDE DEF t
  <2>2. /\ t.publicKeys = s.publicKeys \cup {key} /\ t.made = s.made /\ t.spoiled = s.spoiled
        /\ DOMAIN t.privateKeys = DOMAIN s.privateKeys \cup {key}
        /\ t.privateData = s.privateData /\ t.profileInUse = s.profileInUse
        /\ t.events = s.events /\ t.selected = s.selected /\ t.contacts = s.contacts
    BY <1>6, <2>1 DEF Changes, Fields
  <2>3. KeysToCome(t) = KeysToCome(s) \ {key}
    BY <1>1, <2>1, KeysAssumption DEF KeysToCome, IsInjective
  <2>4. KeptBut(t, {})
    BY <1>1, <1>2, <2>1, <2>2, <2>3 DEF KeptBut, ContactsInv
  <2>5. SelectionPending(t) = SelectionPending(s)
    BY <2>2 DEF SelectionPending
  <2>6. ShownAreMade(t)
    BY <1>2, <2>2, <2>5 DEF ShownAreMade, ContactsInv, KeptBut
  <2>7. QueueOK(t)
    BY <2>1, <2>2 DEF QueueOK, Changes
  <2>8. ShowsSame(s, t) /\ Items(t) = Items(s)
    BY <2>2 DEF ShowsSame, Items
  <2>9. key \in (Mine \cup {Nobody}) \ KeysToCome(t)
    BY <1>2, <2>3
  <2> DEFINE v == SetProfileInUse(t, key)
  <2>10. QueueOK(v) /\ ContactsInv(v) /\ Selects(t, v)
    BY <2>4, <2>6, <2>7, <2>9, OneIsPutInUse DEF ContactsInv
  <2>11. NewKey(s) = v
    BY <1>3, <1>6
  <2> HIDE DEF v
  <2>12. QED
    BY <2>8, <2>10, <2>11, SelectsTransitive
<1>7. QED
  BY <1>4, <1>5, <1>6

LEMMA ListKeysMembers ==
    ASSUME NEW s
    PROVE  ListKeys(s) \in Seq(Mine) /\ ToSet(ListKeys(s)) = {p \in Mine : PrivateKey(s, p)}
<1>1. MyKeys \in Seq(Mine) /\ ToSet(MyKeys) = Mine
  <2>1. DOMAIN MyKeys = 1 .. Len(MyKeys) /\ Len(MyKeys) \in Nat
    BY KeysAssumption, LenProperties
  <2>2. \A i \in 1 .. Len(MyKeys) : MyKeys[i] \in Mine
    BY <2>1 DEF Mine, Range
  <2>3. MyKeys \in Seq(Mine)
    BY <2>1, <2>2, KeysAssumption, SeqDef
  <2>4. QED
    BY <2>3 DEF ToSet, Mine, Range
<1>2. QED
  BY <1>1, FilterProperties DEF ListKeys

\* The password dialog: a key is made, or every profile the password opens is put
\* in use, or the password is not that of any.
LEMMA PasswordGivenIsHandled ==
    ASSUME NEW s, QueueOK(s), ContactsInv(s), NEW password,
           ListKeys(s) = <<>> => s.generated < Len(MyKeys)
    PROVE  LET t == PasswordGiven(s, password) IN
           /\ QueueOK(t) /\ ContactsInv(t)
           /\ \/ Selects(s, t)
              \/ /\ ~\E p \in Mine : Opens(t, p)
                 /\ Quiet(s, t)
<1> DEFINE inForce == [s EXCEPT !.contentKeyPasswd = password]
           kept == {p \in Mine : Opens(inForce, p)}
           opened == Filter(ListKeys(s), kept)
           closed == [inForce EXCEPT !.dialogs = @ \ {"query"}]
           t == PasswordGiven(s, password)
<1>1. t = IF ListKeys(s) = <<>> THEN NewKey(closed)
          ELSE IF opened = <<>> THEN inForce
          ELSE PutInUse(closed, opened)
  BY Zenon DEF PasswordGiven
<1>2. Changes(s, inForce, {"contentKeyPasswd"})
  BY DEF QueueOK, Changes, IsDesk, Fields
<1>3. ListKeys(s) \in Seq(Mine) /\ ToSet(ListKeys(s)) = {p \in Mine : PrivateKey(s, p)}
  BY ListKeysMembers
<1>4. opened \in Seq(Mine) /\ ToSet(opened) = ToSet(ListKeys(s)) \cap kept
  BY <1>3, FilterProperties
<1>5. kept \subseteq {p \in Mine : PrivateKey(s, p)}
  BY <1>2 DEF Opens, PrivateKey, Changes, Fields
<1> HIDE DEF inForce, kept, opened
<1>6. Changes(inForce, closed, {"dialogs"})
  BY <1>2 DEF Changes, IsDesk, Fields
<1> HIDE DEF closed, t
<1>7. ASSUME NEW x, Changes(s, x, {"contentKeyPasswd", "dialogs"})
      PROVE  /\ QueueOK(x) /\ ContactsInv(x) /\ ShowsSame(s, x) /\ Items(x) = Items(s)
             /\ KeysToCome(x) = KeysToCome(s) /\ x.generated = s.generated
             /\ x.events = s.events /\ x.profileInUse = s.profileInUse
  <2>1. /\ x.publicKeys = s.publicKeys /\ x.made = s.made /\ x.spoiled = s.spoiled
        /\ x.privateKeys = s.privateKeys /\ x.generated = s.generated
        /\ x.privateData = s.privateData /\ x.profileInUse = s.profileInUse
        /\ x.events = s.events /\ x.selected = s.selected /\ x.contacts = s.contacts
    BY <1>7 DEF Changes, Fields
  <2>2. KeptBut(x, {})
    BY <2>1, SameKept DEF ContactsInv
  <2>3. ShownAreMade(x)
    BY <2>1, SameShown DEF ContactsInv, SelectionPending
  <2>4. QED
    BY <1>7, <2>1, <2>2, <2>3 DEF QueueOK, ContactsInv, Changes, ShowsSame, Items, KeysToCome
<1>8. /\ QueueOK(closed) /\ ContactsInv(closed) /\ ShowsSame(s, closed) /\ Items(closed) = Items(s)
      /\ KeysToCome(closed) = KeysToCome(s) /\ closed.generated = s.generated
  <2>1. Changes(s, closed, {"contentKeyPasswd", "dialogs"})
    BY <1>2, <1>6 DEF Changes, Fields
  <2>2. QED
    BY <1>7, <2>1
<1>9. CASE ListKeys(s) = <<>>
  <2> DEFINE v == NewKey(closed)
  <2>1. QueueOK(v) /\ ContactsInv(v) /\ Selects(closed, v)
    BY <1>8, <1>9, NewKeyKeeps
  <2>2. t = v
    BY <1>1, <1>9
  <2> HIDE DEF v
  <2>3. QED
    BY <1>8, <2>1, <2>2, SelectsTransitive DEF t
<1>10. CASE ListKeys(s) # <<>> /\ opened # <<>>
  <2> DEFINE v == PutInUse(closed, opened)
  <2>1. ToSet(opened) \subseteq DOMAIN s.privateKeys
    BY <1>3, <1>4, <1>5 DEF PrivateKey
  <2>2. ToSet(opened) \cap KeysToCome(closed) = {}
    BY <1>8, <2>1 DEF ContactsInv, KeptBut
  <2>3. QueueOK(v) /\ ContactsInv(v) /\ Selects(closed, v)
    BY <1>4, <1>8, <1>10, <2>2, PutInUseKeeps
  <2>4. t = v
    BY <1>1, <1>10
  <2> HIDE DEF v
  <2>5. QED
    BY <1>8, <2>3, <2>4, SelectsTransitive DEF t
<1>11. CASE ListKeys(s) # <<>> /\ opened = <<>>
  <2>1. t = inForce /\ QueueOK(t) /\ ContactsInv(t) /\ ShowsSame(s, t)
        /\ t.events = s.events /\ t.profileInUse = s.profileInUse
    BY <1>1, <1>2, <1>7, <1>11 DEF Changes, Fields
  <2>2. ToSet(opened) = {}
    <3>1. \A u \in Seq(Mine) : u = <<>> => ToSet(u) = {}
      BY EmptySeq, LenProperties DEF ToSet
    <3>2. QED
      BY <1>4, <1>11, <3>1
  <2>3. ~\E p \in Mine : Opens(t, p)
    BY <1>3, <1>4, <1>5, <2>1, <2>2 DEF kept
  <2>4. ~Opens(t, Nobody)
    BY <2>1, NobodyIsNotMine DEF Opens, PrivateKey, ContactsInv, KeptBut
  <2>5. t.profileInUse \in Mine \cup {Nobody}
    BY <2>1 DEF ContactsInv, KeptBut
  <2>6. ~Opens(t, t.profileInUse)
    BY <2>3, <2>4, <2>5
  <2>7. Quiet(s, t)
    BY <2>1, <2>6 DEF Quiet
  <2>8. QED
    BY <2>1, <2>3, <2>7 DEF t
<1>12. QED
  BY <1>9, <1>10, <1>11

LEMMA PasswordChangedIsHandled ==
    ASSUME NEW s, QueueOK(s), ContactsInv(s), NEW password
    PROVE  Handled(s, PasswordChanged(s, password))
<1> DEFINE r == [s EXCEPT !.dialogs = @ \ {"change"}]
           t == PasswordChanged(s, password)
           u == s.profileInUse
<1>1. Changes(s, r, {"dialogs"})
  BY DEF QueueOK, Changes, IsDesk, Fields
<1>2. t = ChangeKeyPassword(r, u, password)
  BY DEF PasswordChanged
<1> HIDE DEF r, t
<1>3. /\ Changes(r, t, {"privateKeys", "contentKeyPasswd"})
      /\ DOMAIN t.privateKeys = DOMAIN r.privateKeys
      /\ Opens(t, u) => Opens(r, u)
  BY <1>1, <1>2, ChangePasswordChanges DEF Changes
<1>4. /\ t.publicKeys = s.publicKeys /\ t.made = s.made /\ t.spoiled = s.spoiled
      /\ DOMAIN t.privateKeys = DOMAIN s.privateKeys /\ t.generated = s.generated
      /\ t.privateData = s.privateData /\ t.profileInUse = u
      /\ t.events = s.events /\ t.selected = s.selected /\ t.contacts = s.contacts
      /\ r.privateKeys = s.privateKeys /\ r.contentKeyPasswd = s.contentKeyPasswd
  BY <1>1, <1>3 DEF Changes, Fields
<1>5. KeptBut(t, {})
  BY <1>4, SameKept DEF ContactsInv
<1>6. ShownAreMade(t)
  BY <1>4, SameShown DEF ContactsInv, SelectionPending
<1>7. Opens(t, u) => Opens(s, u)
  BY <1>3, <1>4 DEF Opens, PrivateKey, PrivateKeyFromPem
<1>8. QED
  BY <1>3, <1>4, <1>5, <1>6, <1>7
     DEF Handled, QueueOK, ContactsInv, Changes, Quiet, ShowsSame, t

LEMMA ProfileCreatedIsHandled ==
    ASSUME NEW s, QueueOK(s), ContactsInv(s), s.generated < Len(MyKeys)
    PROVE  Handled(s, ProfileCreated(s))
<1> DEFINE t == NewKey(s)
           v == [t EXCEPT !.dialogs = @ \cup {"change"}]
<1>1. QueueOK(t) /\ ContactsInv(t) /\ Selects(s, t)
  BY NewKeyKeeps
<1>2. ProfileCreated(s) = IF t.profileInUse = Nobody THEN t ELSE v
  BY DEF ProfileCreated
<1> HIDE DEF t
<1>3. Changes(t, v, {"dialogs"})
  BY <1>1 DEF QueueOK, Changes, IsDesk, Fields
<1> HIDE DEF v
<1>4. ShowsSame(t, v)
  BY <1>3 DEF Changes, Fields, ShowsSame
<1>4a. Changes(t, v, {"dialogs", "viewed", "names", "tree", "behind", "patched", "profiles",
                          "selected", "publicKeys"}) /\ t.publicKeys \subseteq v.publicKeys
  BY <1>3 DEF Changes, Fields
<1>5. Handled(t, v)
  BY <1>1, <1>4, <1>4a, OthersAreHandled
<1>6. Changes(t, v, Apart)
  BY <1>3 DEF Changes, Fields, Apart
<1>7. Selects(s, v)
  BY <1>1, <1>4, <1>6, ApartIsQuiet, SelectsThenQuiet
<1>8. QED
  BY <1>1, <1>2, <1>5, <1>7 DEF Handled

LEMMA ProfileDeletedIsHandled ==
    ASSUME NEW s, QueueOK(s), ContactsInv(s)
    PROVE  Handled(s, ProfileDeleted(s))
<1> DEFINE u == s.profileInUse
           r == DeleteKeyPair(s, u)
           t == [r EXCEPT !.dialogs = @ \cup {"query"}]
<1>1. /\ Changes(s, r, {"publicKeys", "profiles", "privateKeys", "privateData"})
      /\ r.publicKeys = s.publicKeys \ {u}
      /\ r.privateKeys = [q \in DOMAIN s.privateKeys \ {u} |-> s.privateKeys[q]]
      /\ r.privateData = [q \in DOMAIN s.privateData \ {u} |-> s.privateData[q]]
  BY DeleteChanges DEF QueueOK
<1> HIDE DEF r
<1>2. Changes(r, t, {"dialogs"})
  BY <1>1 DEF Changes, IsDesk, Fields
<1> HIDE DEF t
<1>3. /\ t.publicKeys = s.publicKeys \ {u}
      /\ DOMAIN t.privateKeys = DOMAIN s.privateKeys \ {u}
      /\ DOMAIN t.privateData = DOMAIN s.privateData \ {u}
      /\ \A p \in DOMAIN t.privateData : t.privateData[p] = s.privateData[p]
  BY <1>1, <1>2 DEF Changes, Fields
<1>4. /\ t.made = s.made /\ t.spoiled = s.spoiled /\ t.generated = s.generated
      /\ t.profileInUse = u
      /\ t.events = s.events /\ t.selected = s.selected /\ t.contacts = s.contacts
  BY <1>1, <1>2 DEF Changes, Fields
<1>5. KeptBut(t, {})
  BY <1>3, <1>4 DEF KeptBut, ContactsInv, KeysToCome
<1>6. ShownAreMade(t)
  BY <1>3, <1>4 DEF ShownAreMade
<1>7. ~Opens(t, u)
  BY <1>3 DEF Opens, PrivateKey
<1>8. t = ProfileDeleted(s)
  BY DEF ProfileDeleted, t, r
<1>9. QED
  BY <1>2, <1>4, <1>5, <1>6, <1>7, <1>8
     DEF Handled, QueueOK, ContactsInv, Changes, Quiet, ShowsSame

-----------------------------------------------------------------------------
LEMMA StoreIsHandled ==
    ASSUME NEW s, QueueOK(s), KeptBut(s, {s.profileInUse}), ShownAreMade(s), NEW publish
    PROVE  LET t == StorePrivateDataOfSelectedProfile(s, publish) IN
           Changes(s, t, Apart) /\ ShowsSame(s, t) /\ Handled(s, t)
<1> DEFINE t == StorePrivateDataOfSelectedProfile(s, publish)
<1>1. /\ Changes(s, t, {"privateData", "spoiled", "selected", "profiles", "behind"})
      /\ ShowsSame(s, t)
  BY StoreChanges DEF QueueOK
<1>2. ContactsInv(t)
  BY StoreKeeps DEF QueueOK
<1> HIDE DEF t
<1>3. Changes(s, t, Apart)
  BY <1>1 DEF Changes, Apart, Fields
<1>4. Handled(s, t)
  BY <1>1, <1>2, <1>3, ApartIsHandled
<1>5. QED
  BY <1>1, <1>3, <1>4 DEF t

\* A name that is new: the contacts of the profile in use may have to be stored.
LEMMA OfferNameIsHandled ==
    ASSUME NEW s, QueueOK(s), KeptBut(s, {s.profileInUse}), ShownAreMade(s), NEW p
    PROVE  LET t == OfferDisplayNameForProfile(s, p) IN
           /\ Changes(s, t, Apart) /\ ShowsSame(s, t)
           /\ t = s \/ Handled(s, t)
<1> DEFINE r == [s EXCEPT !.names = @ \cup {p}]
           v == StorePrivateDataOfSelectedProfile(r, FALSE)
           t == OfferDisplayNameForProfile(s, p)
<1>1. Changes(s, r, {"names"}) /\ (t = s \/ t = v)
  BY OfferNameChanges DEF QueueOK
<1> HIDE DEF t, r
<1>2. /\ r.publicKeys = s.publicKeys /\ r.made = s.made /\ r.spoiled = s.spoiled
      /\ r.privateKeys = s.privateKeys /\ r.generated = s.generated
      /\ r.privateData = s.privateData /\ r.profileInUse = s.profileInUse
      /\ r.events = s.events /\ r.selected = s.selected /\ r.contacts = s.contacts
  BY <1>1 DEF Changes, Fields
<1>3. KeptBut(r, {r.profileInUse})
  BY <1>2, SameKept
<1>4. ShownAreMade(r) /\ QueueOK(r)
  BY <1>1, <1>2, SameShown DEF SelectionPending, QueueOK, Changes
<1>5. Changes(r, v, Apart) /\ ShowsSame(r, v) /\ Handled(r, v)
  BY <1>3, <1>4, StoreIsHandled
<1> HIDE DEF v
<1>6. Changes(s, v, Apart) /\ ShowsSame(s, v)
  BY <1>1, <1>2, <1>5 DEF Changes, Apart, Fields, ShowsSame
<1>7. Handled(s, v)
  BY <1>5, <1>6, ApartIsHandled DEF Handled
<1>8. Changes(s, s, Apart) /\ ShowsSame(s, s)
  BY DEF Changes, QueueOK, ShowsSame
<1>9. QED
  BY <1>1, <1>6, <1>7, <1>8 DEF t

\* A contact is added, changed or removed: in what is shown, in what the user has
\* made of the profile in use, and then in what is stored.
LEMMA ContactEditedIsHandled ==
    ASSUME NEW s, QueueOK(s), ContactsInv(s), NEW p, NEW how
    PROVE  Handled(s, ContactEdited(s, p, how))
<1> DEFINE u == s.profileInUse
           edited == [s EXCEPT !.contacts = Edit(@, p, how),
                            !.made = IF u = Nobody THEN @
                                     ELSE With(@, u, Edit(@[u], p, how))]
           named == IF how = "removed" THEN edited ELSE OfferDisplayNameForProfile(edited, p)
           v == StorePrivateDataOfSelectedProfile(named, TRUE)
           t == ContactEdited(s, p, how)
<1>1. /\ Changes(s, edited, {"contacts", "made"})
      /\ edited.contacts = Edit(s.contacts, p, how)
      /\ edited.made = IF u = Nobody THEN s.made
                       ELSE With(s.made, u, Edit(s.made[u], p, how))
  BY DEF QueueOK, Changes, IsDesk, Fields
<1>2. \E behind, tree, patched :
         t = [TreeChanged([v EXCEPT !.behind = behind], tree) EXCEPT !.patched = patched]
  BY ZenonT(60) DEF ContactEdited
<1> HIDE DEF edited, t
<1>3. /\ edited.publicKeys = s.publicKeys /\ edited.spoiled = s.spoiled
      /\ edited.privateKeys = s.privateKeys /\ edited.generated = s.generated
      /\ edited.privateData = s.privateData /\ edited.profileInUse = u
      /\ edited.events = s.events /\ edited.selected = s.selected
  BY <1>1 DEF Changes, Fields
<1>4. /\ DOMAIN edited.made = Mine
      /\ \A q \in Mine \ {u} : edited.made[q] = s.made[q]
      /\ u \in Mine => edited.made[u] = Edit(s.made[u], p, how)
  BY <1>1, NobodyIsNotMine DEF ContactsInv, KeptBut, With
<1>5. KeptBut(edited, {edited.profileInUse})
  <2>1. KeysToCome(edited) = KeysToCome(s) /\ KeysToCome(s) \subseteq Mine
    BY <1>3, KeysToComeAreMine DEF KeysToCome, ContactsInv, KeptBut
  <2>2. QED
    BY <1>3, <1>4, <2>1 DEF KeptBut, ContactsInv
<1>6. ShownAreMade(edited)
  <2>1. SelectionPending(edited) = SelectionPending(s)
    BY <1>3 DEF SelectionPending
  <2>2. QED
    BY <1>1, <1>3, <1>4, <2>1 DEF ShownAreMade, ContactsInv, KeptBut
<1>7. QueueOK(edited) /\ Changes(edited, edited, Apart) /\ ShowsSame(edited, edited)
  BY <1>1, <1>3 DEF QueueOK, Changes, ShowsSame
<1>8. /\ Changes(edited, named, Apart) /\ ShowsSame(edited, named)
      /\ QueueOK(named) /\ KeptBut(named, {named.profileInUse}) /\ ShownAreMade(named)
  <2> DEFINE n == OfferDisplayNameForProfile(edited, p)
  <2>1. Changes(edited, n, Apart) /\ ShowsSame(edited, n) /\ (n = edited \/ Handled(edited, n))
    BY <1>5, <1>6, <1>7, OfferNameIsHandled
  <2>2. named = edited \/ named = n
    OBVIOUS
  <2> HIDE DEF n, named
  <2>3. CASE named = edited
    BY <1>5, <1>6, <1>7, <2>3
  <2>4. CASE named = n /\ Handled(edited, n)
    <3>1. KeptBut(n, {}) /\ ShownAreMade(n) /\ QueueOK(n)
      BY <2>4 DEF Handled, ContactsInv
    <3>2. KeptBut(n, {n.profileInUse})
      BY <3>1 DEF KeptBut
    <3>3. QED
      BY <2>1, <2>4, <3>1, <3>2
  <2>5. QED
    BY <2>1, <2>2, <2>3, <2>4
<1> HIDE DEF named
<1>9. Changes(named, v, Apart) /\ ShowsSame(named, v) /\ Handled(named, v)
  BY <1>8, StoreIsHandled
<1> HIDE DEF v
<1>10. Changes(v, t, {"tree", "behind", "patched"})
  <2>1. IsDesk(v)
    BY <1>9 DEF Changes
  <2>2. QED
    BY <1>2, <2>1, TreeChangedChanges
<1>11. Changes(s, t, Apart) /\ ShowsSame(s, t)
  <2>1. Changes(s, edited, Apart) /\ Changes(v, t, Apart) /\ ShowsSame(v, t)
    BY <1>1, <1>10 DEF Changes, Apart, Fields, ShowsSame
  <2>2. Changes(s, t, Apart)
    BY <1>8, <1>9, <2>1 DEF Changes
  <2>3. ShowsSame(s, t)
    BY <1>3, <1>8, <1>9, <2>1 DEF ShowsSame
  <2>4. QED
    BY <2>2, <2>3
<1>12. ContactsInv(t)
  <2>1. Changes(v, t, {"dialogs", "viewed", "names", "tree", "behind", "patched", "profiles",
                       "selected", "publicKeys"}) /\ v.publicKeys \subseteq t.publicKeys
        /\ ShowsSame(v, t)
    BY <1>10 DEF Changes, Fields, ShowsSame
  <2>2. Handled(v, t)
    BY <1>9, <2>1, OthersAreHandled DEF Handled
  <2>3. QED
    BY <2>2 DEF Handled
<1>13. QED
  BY <1>11, <1>12, ApartIsHandled DEF t

-----------------------------------------------------------------------------
\* The window follows: contacts are read anew.
LEMMA UserProfileSelectedKeeps ==
    ASSUME NEW s, QueueOK(s), KeptBut(s, {}), NEW p
    PROVE  LET t == UserProfileSelected(s, p) IN
           /\ QueueOK(t) /\ ContactsInv(t) /\ Changes(s, t, Apart)
           /\ t.selected = Shown(s, p) /\ Shown(s, p).iFingerPrint = p
<1> DEFINE r == [s EXCEPT !.selected = Shown(s, p), !.contacts = <<>>]
           t == ReStorePrivateDataOfSelectedProfile(r)
           u == s.profileInUse
<1>1. Changes(s, r, {"selected", "contacts"}) /\ r.contacts = <<>> /\ r.selected = Shown(s, p)
  <2>1. \A x : LET y == [s EXCEPT !.selected = x, !.contacts = <<>>] IN
               Changes(s, y, {"selected", "contacts"}) /\ y.contacts = <<>> /\ y.selected = x
    BY DEF QueueOK, Changes, IsDesk, Fields
  <2>2. QED
    BY <2>1
<1> HIDE DEF r
<1>2. /\ Changes(r, t, {"contacts", "names", "spoiled", "tree", "behind", "patched"})
      /\ u = Nobody => t = r
      /\ r.spoiled \subseteq t.spoiled
      /\ u # Nobody => t.contacts = IF PrivateDataCanBeRead(r, u)
                                   THEN r.privateData[u].contacts ELSE r.contacts
      /\ u # Nobody /\ HasPrivateData(r, u) /\ ~PrivateDataCanBeRead(r, u) => u \in t.spoiled
  <2>1. r.profileInUse = u
    BY <1>1 DEF Changes, Fields
  <2>2. QED
    BY <1>1, <2>1, RestoreChanges DEF Changes
<1> HIDE DEF t
<1>3. /\ t.publicKeys = s.publicKeys /\ t.made = s.made /\ s.spoiled \subseteq t.spoiled
      /\ t.privateKeys = s.privateKeys /\ t.generated = s.generated
      /\ t.privateData = s.privateData /\ t.profileInUse = u
      /\ t.events = s.events /\ t.selected = Shown(s, p) /\ r.privateData = s.privateData
  BY <1>1, <1>2 DEF Changes, Fields
<1>4. KeptBut(t, {})
  BY <1>3, SameKept
<1>5. ASSUME u \in DOMAIN t.privateKeys \ t.spoiled PROVE t.contacts = t.made[u]
  <2>1. u # Nobody /\ u \in DOMAIN s.privateKeys
    BY <1>3, <1>5, NobodyIsNotMine DEF KeptBut
  <2>2. CASE u \in DOMAIN s.privateData
    <3>1. HasPrivateData(r, u)
      BY <1>3, <2>2 DEF HasPrivateData
    <3>2. t.contacts = s.privateData[u].contacts
      BY <1>2, <1>3, <1>5, <2>1, <3>1
    <3>3. QED
      BY <1>3, <1>4, <1>5, <2>1, <2>2, <3>2 DEF KeptBut
  <2>3. CASE u \notin DOMAIN s.privateData
    <3>1. ~PrivateDataCanBeRead(r, u)
      BY <1>3, <2>3 DEF PrivateDataCanBeRead, HasPrivateData
    <3>2. t.contacts = <<>>
      BY <1>1, <1>2, <2>1, <3>1
    <3>3. QED
      BY <1>3, <1>4, <1>5, <2>1, <2>3, <3>2 DEF KeptBut
  <2>4. QED
    BY <2>2, <2>3
<1>6. ShownAreMade(t)
  BY <1>3, <1>5 DEF ShownAreMade
<1>7. Changes(s, t, Apart)
  BY <1>1, <1>2 DEF Changes, Fields, Apart
<1>8. t = UserProfileSelected(s, p)
  BY Zenon DEF UserProfileSelected, t, r
<1>9. Shown(s, p).iFingerPrint = p
  BY DEF Shown
<1>10. QED
  BY <1>3, <1>4, <1>6, <1>7, <1>8, <1>9 DEF QueueOK, ContactsInv, Changes

LEMMA ShowDetailsIsHandled ==
    ASSUME NEW s, QueueOK(s), ContactsInv(s), NEW p
    PROVE  LET t == ShowDetailsOfProfile(s, p) IN
           Changes(s, t, Apart) /\ ShowsSame(s, t) /\ Handled(s, t)
<1> DEFINE r == [s EXCEPT !.viewed = p]
           v == OfferDisplayNameForProfile(r, p)
           t == ShowDetailsOfProfile(s, p)
<1>1. Changes(s, r, {"viewed"})
  BY DEF QueueOK, Changes, IsDesk, Fields
<1>2. t = IF s.profiles[p].iIsPrivate THEN r ELSE v
  BY DEF ShowDetailsOfProfile
<1> HIDE DEF r, t
<1>3. Handled(s, r) /\ Changes(s, r, Apart) /\ ShowsSame(s, r)
  <2>1. Changes(s, r, {"dialogs", "viewed", "names", "tree", "behind", "patched", "profiles",
                       "selected", "publicKeys"}) /\ s.publicKeys \subseteq r.publicKeys
        /\ ShowsSame(s, r) /\ Changes(s, r, Apart)
    BY <1>1 DEF Changes, Fields, ShowsSame, Apart
  <2>2. QED
    BY <2>1, OthersAreHandled
<1>4. KeptBut(r, {r.profileInUse}) /\ ShownAreMade(r) /\ QueueOK(r)
  BY <1>3 DEF Handled, ContactsInv, KeptBut
<1>5. Changes(r, v, Apart) /\ ShowsSame(r, v) /\ (v = r \/ Handled(r, v))
  BY <1>4, OfferNameIsHandled
<1> HIDE DEF v
<1>6. Changes(s, v, Apart) /\ ShowsSame(s, v)
  BY <1>3, <1>5 DEF Changes, Apart, ShowsSame
<1>7. ContactsInv(v)
  BY <1>3, <1>5 DEF Handled
<1>8. Handled(s, v)
  BY <1>6, <1>7, ApartIsHandled
<1>9. QED
  BY <1>2, <1>3, <1>6, <1>8 DEF t

LEMMA ProfileNotifiedIsHandled ==
    ASSUME NEW s, QueueOK(s), ContactsInv(s), NEW p, NEW tabIsOpen
    PROVE  Handled(s, ProfileNotified(s, p, tabIsOpen))
<1> DEFINE gone == [s EXCEPT !.viewed = IF tabIsOpen THEN @ ELSE Nobody]
           shown == IF s.viewed # p THEN s
                 ELSE IF ~ProfileByFingerPrint(s, p) THEN gone
                 ELSE IF tabIsOpen THEN ShowDetailsOfProfile(s, p)
                 ELSE s
           t == ProfileNotified(s, p, tabIsOpen)
           Few == {"dialogs", "viewed", "names", "tree", "behind", "patched", "profiles",
                   "selected", "publicKeys"}
<1>1. \E tree, patched : t = [TreeChanged(shown, tree) EXCEPT !.patched = patched]
  BY Zenon DEF ProfileNotified
<1>2. Changes(s, gone, {"viewed"})
  BY DEF QueueOK, Changes, IsDesk, Fields
<1> HIDE DEF t, gone
<1>3. Changes(s, gone, Apart) /\ ShowsSame(s, gone) /\ Handled(s, gone)
  <2>1. Changes(s, gone, Few) /\ s.publicKeys \subseteq gone.publicKeys
        /\ ShowsSame(s, gone) /\ Changes(s, gone, Apart)
    BY <1>2 DEF Changes, Fields, ShowsSame, Apart
  <2>2. QED
    BY <2>1, OthersAreHandled
<1>4. Changes(s, s, Apart) /\ ShowsSame(s, s) /\ Handled(s, s)
  BY DEF QueueOK, Changes, ShowsSame, Handled, Quiet
<1>5. Changes(s, shown, Apart) /\ ShowsSame(s, shown) /\ Handled(s, shown)
  BY <1>3, <1>4, ShowDetailsIsHandled
<1> HIDE DEF shown
<1>6. Changes(shown, t, {"tree", "behind", "patched"})
  <2>1. PICK tree, patched : t = [TreeChanged(shown, tree) EXCEPT !.patched = patched]
    BY <1>1
  <2>2. IsDesk(shown)
    BY <1>5 DEF Changes
  <2>3. [shown EXCEPT !.behind = shown.behind] = shown
    BY <2>2 DEF IsDesk, Fields
  <2>4. QED
    BY <2>1, <2>2, <2>3, TreeChangedChanges
<1>7. Changes(shown, t, Few) /\ shown.publicKeys \subseteq t.publicKeys
      /\ ShowsSame(shown, t) /\ Changes(shown, t, Apart)
  BY <1>6 DEF Changes, Fields, ShowsSame, Apart
<1>8. ContactsInv(t)
  BY <1>5, <1>7, OthersAreHandled DEF Handled
<1>9. Changes(s, t, Apart) /\ ShowsSame(s, t)
  BY <1>5, <1>7 DEF Changes, ShowsSame
<1>10. QED
  BY <1>8, <1>9, ApartIsHandled DEF t

-----------------------------------------------------------------------------
(***************************************************************************)
(* What is stored. Comments and messages stay as they are once they are    *)
(* stored: what is stored under a fingerprint that is there already is a   *)
(* file or a new version of a record.                                      *)
(***************************************************************************)
ItemOK(f, item) ==
    /\ item.type # "ad" => item.signer = item.sender
    /\ item.type = "message" => item.sender \in People
    /\ f \in FileContents => item.type = "file"
StoredOK(st) == DOMAIN st \subseteq Things /\ \A f \in DOMAIN st : ItemOK(f, st[f])

IsListed(item) == item.type \in {"comment", "message"}
ListedItems(st) == {f \in DOMAIN st : IsListed(st[f])}
SameItems(st, after) ==
    /\ ListedItems(after) = ListedItems(st)
    /\ \A f \in ListedItems(st) : after[f] = st[f]

\* Nothing is stored, or one item that is not listed.
Adds(st, r) ==
    \/ r.made = None /\ r.stored = st
    \/ /\ r.made \in Things
       /\ \E item : /\ r.stored = With(st, r.made, item)
                    /\ ItemOK(r.made, item) /\ ~IsListed(item)
                    /\ r.made \in DOMAIN st => ~IsListed(st[r.made])

LEMMA NewIsFresh ==
    ASSUME NEW st, Fresh(st) # {}
    PROVE  LET f == NewFingerPrint(st) IN
           f \in Things /\ f \notin DOMAIN st /\ f \notin FileContents /\ f # None
BY ItemsAssumption DEF Fresh, NewFingerPrint

LEMMA AddsKeep ==
    ASSUME NEW st, StoredOK(st), NEW r, Adds(st, r)
    PROVE  StoredOK(r.stored) /\ SameItems(st, r.stored)
<1>1. CASE r.stored = st
  BY <1>1 DEF SameItems
<1>2. CASE /\ r.made \in Things
           /\ \E item : /\ r.stored = With(st, r.made, item)
                        /\ ItemOK(r.made, item) /\ ~IsListed(item)
                        /\ r.made \in DOMAIN st => ~IsListed(st[r.made])
  <2>1. PICK item : /\ r.stored = With(st, r.made, item)
                    /\ ItemOK(r.made, item) /\ ~IsListed(item)
                    /\ r.made \in DOMAIN st => ~IsListed(st[r.made])
    BY <1>2
  <2>2. /\ DOMAIN r.stored = DOMAIN st \cup {r.made}
        /\ \A f \in DOMAIN r.stored : r.stored[f] = IF f = r.made THEN item ELSE st[f]
    BY <2>1 DEF With
  <2>3. QED
    BY <1>2, <2>1, <2>2 DEF StoredOK, SameItems, ListedItems
<1>3. QED
  BY <1>1, <1>2 DEF Adds

\* A comment or a message is stored, under a fingerprint that is new.
LEMMA ItemAdded ==
    ASSUME NEW st, StoredOK(st), NEW f \in Things, f \notin DOMAIN st, NEW item,
           ItemOK(f, item), IsListed(item)
    PROVE  LET after == With(st, f, item) IN
           /\ StoredOK(after)
           /\ ListedItems(after) = ListedItems(st) \cup {f} /\ f \notin ListedItems(st)
           /\ after[f] = item /\ \A g \in ListedItems(st) : after[g] = st[g]
<1> DEFINE after == With(st, f, item)
<1>1. /\ DOMAIN after = DOMAIN st \cup {f}
      /\ \A g \in DOMAIN after : after[g] = IF g = f THEN item ELSE st[g]
  BY DEF With
<1> HIDE DEF after
<1>2. QED
  BY <1>1 DEF StoredOK, ListedItems, after

\* What the operations of Items make.
LEMMA CommentMade ==
    ASSUME NEW s, NEW st, NEW about, NEW sender, NEW signer, NEW private,
           NEW r, r = PublishProfileComment(s, st, about, sender, signer, private)
    PROVE  \/ r.made = None /\ r.desk = s /\ r.stored = st
           \/ /\ r.made = NewFingerPrint(st) /\ r.desk = Notified(s, "comment", NewFingerPrint(st))
              /\ \E item : /\ item.type = "comment" /\ item.about = about
                           /\ item.sender = sender /\ item.signer = signer
                           /\ r.stored = With(st, NewFingerPrint(st), item)
<1> DEFINE f == NewFingerPrint(st)
           item == [type |-> "comment", about |-> about, sender |-> sender, signer |-> signer,
                 readers |-> IF private THEN EncryptedTo(s, CommentReaders(s, about, sender))
                             ELSE {}]
<1>1. r = Failed(s, st) \/ r = Made(f, item, Notified(s, "comment", f), st)
  BY Zenon DEF PublishProfileComment
<1>2. /\ item.type = "comment" /\ item.about = about
      /\ item.sender = sender /\ item.signer = signer
  OBVIOUS
<1> HIDE DEF item
<1>3. QED
  BY <1>1, <1>2 DEF Made, Failed

LEMMA MessageMade ==
    ASSUME NEW s, NEW st, NEW to, NEW sender
    PROVE  LET r == PublishPrivMessage(s, st, to, sender)
               f == NewFingerPrint(st)
           IN /\ r.desk = s
              /\ \/ r.made = None /\ r.stored = st
                 \/ /\ r.made = f /\ Sign(s, sender)
                    /\ \E readers : r.stored =
                          With(st, f, [type |-> "message", about |-> to, sender |-> sender,
                                       signer |-> sender, readers |-> readers])
BY DEF PublishPrivMessage, Made, Failed

LEMMA AdMade ==
    ASSUME NEW s, NEW st, StoredOK(st), Fresh(st) # {}, NEW sender, NEW signer
    PROVE  LET r == PublishClassifiedAd(s, st, sender, signer) IN r.desk = s /\ Adds(st, r)
<1> DEFINE r == PublishClassifiedAd(s, st, sender, signer)
           f == NewFingerPrint(st)
           item == [type |-> "ad", about |-> Nobody, sender |-> sender, signer |-> signer,
                    readers |-> {}]
<1>1. /\ r.desk = s
      /\ \/ r.made = None /\ r.stored = st
         \/ r.made = f /\ r.stored = With(st, f, item)
  BY DEF PublishClassifiedAd, Made, Failed
<1>2. /\ f \in Things /\ f \notin DOMAIN st /\ f \notin FileContents
  BY NewIsFresh
<1>3. ItemOK(f, item) /\ ~IsListed(item)
  BY <1>2 DEF ItemOK, IsListed
<1> HIDE DEF r, f, item
<1>4. Adds(st, r)
  BY <1>1, <1>2, <1>3 DEF Adds
<1>5. QED
  BY <1>1, <1>4 DEF r

LEMMA FileMade ==
    ASSUME NEW s, NEW st, StoredOK(st), Fresh(st) # {}, NEW publisher,
           NEW content \in FileContents, NEW noEncryption, NEW recipients
    PROVE  LET r == PublishBinaryFile(s, st, publisher, content, noEncryption, recipients)
           IN r.desk = s /\ Adds(st, r)
<1> DEFINE r == PublishBinaryFile(s, st, publisher, content, noEncryption, recipients)
           f == NewFingerPrint(st)
           self == publisher.iFingerPrint
<1>1. /\ r.desk = s
      /\ \/ r.made = None /\ r.stored = st
         \/ /\ r.made \in {content, f}
            /\ \E readers : r.stored = With(st, r.made,
                           [type |-> "file", about |-> Nobody, sender |-> self,
                            signer |-> self, readers |-> readers])
  BY DEF PublishBinaryFile, Made, Failed
<1>2. /\ f \in Things /\ f \notin DOMAIN st
  BY NewIsFresh
<1>3. content \in Things /\ (content \in DOMAIN st => ~IsListed(st[content]))
  BY ItemsAssumption DEF StoredOK, ItemOK, IsListed
<1>4. \A g, readers : LET item == [type |-> "file", about |-> Nobody, sender |-> self,
                            signer |-> self, readers |-> readers]
                      IN ItemOK(g, item) /\ ~IsListed(item)
  BY DEF ItemOK, IsListed
<1> HIDE DEF r, f, self
<1>5. Adds(st, r)
  BY <1>1, <1>2, <1>3, <1>4 DEF Adds
<1>6. QED
  BY <1>1, <1>5 DEF r

LEMMA RecordMade ==
    ASSUME NEW s, NEW st, StoredOK(st), Fresh(st) # {}, NEW encrypted, NEW recipients,
           NEW f \in {NewFingerPrint(st)} \cup {g \in DOMAIN st : st[g].type = "record"}
    PROVE  LET r == PublishDbRecord(s, st, f, encrypted, recipients)
           IN Adds(st, r) /\ (r.desk = s \/ r.desk = Notified(s, "record", f)) /\ f \in Things
<1> DEFINE r == PublishDbRecord(s, st, f, encrypted, recipients)
           self == s.profileInUse
<1>1. \/ r.made = None /\ r.stored = st /\ r.desk = s
      \/ /\ r.made = f /\ r.desk = Notified(s, "record", f)
         /\ \E readers : r.stored = With(st, f,
                           [type |-> "record", about |-> Nobody, sender |-> self,
                            signer |-> self, readers |-> readers])
  BY DEF PublishDbRecord, Made, Failed
<1>2. f \in Things /\ f \notin FileContents /\ (f \in DOMAIN st => ~IsListed(st[f]))
  BY NewIsFresh DEF StoredOK, ItemOK, IsListed
<1>3. \A readers : LET item == [type |-> "record", about |-> Nobody, sender |-> self,
                            signer |-> self, readers |-> readers]
                      IN ItemOK(f, item) /\ ~IsListed(item)
  BY <1>2 DEF ItemOK, IsListed
<1> HIDE DEF r, self
<1>4. QED
  BY <1>1, <1>2, <1>3 DEF Adds, r
-----------------------------------------------------------------------------
(***************************************************************************)
(* Rows of a list.                                                         *)
(***************************************************************************)
LEMMA SetToSeqProperties ==
    ASSUME NEW S, IsFiniteSet(S)
    PROVE  LET s == SetToSeq(S) IN
           /\ s \in Seq(S) /\ ToSet(s) = S /\ IsInjective(s)
<1> DEFINE n == Cardinality(S)
           s == SetToSeq(S)
<1>1. n \in Nat /\ ExistsBijection(1 .. n, S)
  BY FS_CardinalityType
<1>2. s \in [1 .. n -> S] /\ IsInjective(s)
  <2>1. \E f \in [1 .. n -> S] : IsInjective(f)
    BY <1>1 DEF ExistsBijection, Bijection, Injection
  <2>2. QED
    BY <2>1 DEF SetToSeq
<1> HIDE DEF s
<1>3. s \in Injection(1 .. n, S)
  BY <1>2 DEF Injection
<1>4. IsFiniteSet(1 .. n) /\ Cardinality(1 .. n) = n
  BY <1>1, FS_Interval
<1> HIDE DEF n
<1>5. s \in Surjection(1 .. n, S)
  <2>1. Cardinality(S) = n
    BY DEF n
  <2>2. QED
    BY <1>3, <1>4, <2>1, FS_Injection
<1>6. DOMAIN s = 1 .. n
  BY <1>2
<1>7. ToSet(s) = S
  BY <1>2, <1>5, <1>6 DEF Surjection, ToSet
<1>8. s \in Seq(S)
  BY <1>1, <1>2, SeqDef
<1>9. QED
  BY <1>2, <1>7, <1>8 DEF s

\* A list that is filled with one row for each member of a set.
OneEach(T, F, R) ==
    /\ \A row \in T : row \in R /\ row.fp \in F
    /\ \A f \in F : \E row \in T : row.fp = f
    /\ \A row, other \in T : row.fp = other.fp => row = other
IsListing(rows, F, R) ==
    /\ rows \in Seq(R)
    /\ \A i \in DOMAIN rows : rows[i].fp \in F
    /\ \A f \in F : \E i \in DOMAIN rows : rows[i].fp = f
    /\ \A i, j \in DOMAIN rows : rows[i].fp = rows[j].fp => i = j
    /\ (\E i \in DOMAIN rows : TRUE) => rows # <<>>

LEMMA RowsOfSet ==
    ASSUME NEW F, IsFiniteSet(F), NEW R, NEW T, OneEach(T, F, R)
    PROVE  IsListing(SetToSeq(T), F, R)
<1> DEFINE rows == SetToSeq(T)
           fp == [row \in T |-> row.fp]
<1>1. IsFiniteSet(T)
  <2>1. fp \in Injection(T, F)
    BY DEF Injection, IsInjective, OneEach
  <2> HIDE DEF fp
  <2>2. QED
    BY <2>1, FS_Injection
<1>2. rows \in Seq(T) /\ ToSet(rows) = T /\ IsInjective(rows)
  BY <1>1, SetToSeqProperties
<1> HIDE DEF rows
<1>3. DOMAIN rows = 1 .. Len(rows) /\ Len(rows) \in Nat
  BY <1>2, LenProperties
<1>4. \A i \in DOMAIN rows : rows[i] \in T
  BY <1>2 DEF ToSet
<1>5. \A i \in DOMAIN rows : rows[i].fp \in F
  BY <1>4 DEF OneEach
<1>6. ASSUME NEW f \in F PROVE \E i \in DOMAIN rows : rows[i].fp = f
  <2>1. PICK row \in T : row.fp = f
    BY DEF OneEach
  <2>2. PICK i \in DOMAIN rows : rows[i] = row
    BY <1>2 DEF ToSet
  <2>3. QED
    BY <2>1, <2>2
<1>7. \A i, j \in DOMAIN rows : rows[i].fp = rows[j].fp => i = j
  BY <1>2, <1>4 DEF IsInjective, OneEach
<1>8. (\E i \in DOMAIN rows : TRUE) => rows # <<>>
  <2>1. rows = <<>> => DOMAIN rows = {}
    BY <1>2, <1>3, EmptySeq
  <2>2. QED
    BY <2>1
<1>9. rows \in Seq(R)
  <2>1. \A i \in 1 .. Len(rows) : rows[i] \in R
    BY <1>3, <1>4 DEF OneEach
  <2>2. rows \in [1 .. Len(rows) -> R]
    BY <1>2, <1>3, <2>1, SeqDef
  <2>3. QED
    BY <1>3, <2>2, SeqDef
<1>10. QED
  BY <1>5, <1>6, <1>7, <1>8, <1>9 DEF rows, IsListing

\* The operations change one field of a list, or two.
IsList(list) ==
    list = [search |-> list.search, rows |-> list.rows, timer |-> list.timer]

\* A row is added.
LEMMA RowAppended ==
    ASSUME NEW R, NEW rows \in Seq(R), NEW row \in R
    PROVE  LET after == Append(rows, row)
               n == Len(rows) + 1
           IN
           /\ after \in Seq(R) /\ DOMAIN after = DOMAIN rows \cup {n} /\ n \notin DOMAIN rows
           /\ after[n] = row /\ \A i \in DOMAIN rows : after[i] = rows[i]
<1>1. /\ Append(rows, row) \in Seq(R) /\ Len(Append(rows, row)) = Len(rows) + 1
      /\ \A i \in 1 .. Len(rows) : Append(rows, row)[i] = rows[i]
      /\ Append(rows, row)[Len(rows) + 1] = row
  BY AppendProperties
<1>2. /\ DOMAIN rows = 1 .. Len(rows) /\ Len(rows) \in Nat
      /\ DOMAIN Append(rows, row) = 1 .. (Len(rows) + 1)
  BY <1>1, LenProperties
<1>3. QED
  BY <1>1, <1>2

\* A row is taken out; the others stay.
Without(rows, i, after) ==
    /\ \E from \in [DOMAIN after -> DOMAIN rows] :
          /\ \A k \in DOMAIN after : after[k] = rows[from[k]]
          /\ \A j, k \in DOMAIN after : from[j] = from[k] => j = k
    /\ \A j \in DOMAIN rows \ {i} : \E k \in DOMAIN after : after[k] = rows[j]

LEMMA RowRemoved ==
    ASSUME NEW R, NEW rows \in Seq(R), NEW i \in DOMAIN rows
    PROVE  RemoveAt(rows, i) \in Seq(R) /\ Without(rows, i, RemoveAt(rows, i))
<1> DEFINE after == RemoveAt(rows, i)
<1>1. DOMAIN rows = 1 .. Len(rows) /\ Len(rows) \in Nat
  BY LenProperties
<1>2. /\ after \in Seq(R) /\ Len(after) = Len(rows) - 1 /\ Thins(after, rows)
      /\ \A j \in 1 .. (Len(rows) - 1) : after[j] = IF j < i THEN rows[j] ELSE rows[j + 1]
  BY <1>1, RemoveAtProperties, RemoveAtEntries, RemoveAtThins
<1> HIDE DEF after
<1>3. DOMAIN after = 1 .. Len(after)
  BY <1>2, LenProperties
<1>4. ASSUME NEW j \in DOMAIN rows \ {i} PROVE \E k \in DOMAIN after : after[k] = rows[j]
  <2>1. CASE j < i
    <3>1. j \in DOMAIN after /\ after[j] = rows[j]
      BY <1>1, <1>2, <1>3, <2>1
    <3>2. QED
      BY <3>1
  <2>2. CASE ~(j < i)
    <3>1. j - 1 \in DOMAIN after /\ after[j - 1] = rows[j]
      BY <1>1, <1>2, <1>3, <2>2
    <3>2. QED
      BY <3>1
  <2>3. QED
    BY <2>1, <2>2
<1>5. PICK from \in [1 .. Len(after) -> 1 .. Len(rows)] :
         /\ \A k \in 1 .. Len(after) : after[k] = rows[from[k]] /\ k <= from[k]
         /\ \A j, k \in 1 .. Len(after) : from[j] = from[k] => j = k
  BY <1>2 DEF Thins
<1>6. /\ from \in [DOMAIN after -> DOMAIN rows]
      /\ \A k \in DOMAIN after : after[k] = rows[from[k]]
      /\ \A j, k \in DOMAIN after : from[j] = from[k] => j = k
  BY <1>1, <1>3, <1>5
<1>7. Without(rows, i, after)
  BY <1>4, <1>6 DEF Without
<1>8. QED
  BY <1>2, <1>7 DEF after
-----------------------------------------------------------------------------
(***************************************************************************)
(* The lists.                                                              *)
(***************************************************************************)

\* An event of an item tells of one that is stored.
EventsOK(s, st) == \A e \in Items(s) : e.of \in ListedItems(st) /\ st[e.of].type = e.kind

Told(s, kind, f) == [kind |-> kind, of |-> f] \in Items(s)

\* A list of comments has every comment that anybody can read, or will be told of
\* it; who waits to be read has a timer.
CommentsOK(list, st, s) ==
    /\ IsList(list) /\ list.rows \in Seq(CommentRow)
    /\ ListedOnce(list)
    /\ Listed(list) \subseteq CommentsAbout(st, list.search)
    /\ \A f \in CommentsAbout(st, list.search) :
          st[f].readers = {} => f \in Listed(list) \/ Told(s, "comment", f)
    /\ \A i \in DOMAIN list.rows : ~list.rows[i].updated => list.timer

\* What the profile in use can read.
CanRead(s, item) ==
    item.readers = {} \/ (Opens(s, s.profileInUse) /\ s.profileInUse \in item.readers)

AnyRow == [fp : Things \cup {None}, sender : People \cup {Nobody} \cup Things]

\* Once the window has followed the controller, the list of messages is that of the
\* profile in use: it has every message this profile can read, or will be told of
\* it. Until then it will be filled again.
MessagesOK(list, st, s) ==
    /\ IsList(list) /\ list.rows \in Seq(AnyRow)
    /\ ListedOnce(list)
    /\ \A f \in Listed(list) : f \in ListedItems(st) /\ st[f].type = "message"
    /\ \A i \in DOMAIN list.rows :
          list.rows[i].fp # None /\ list.rows[i].sender = Nobody => list.timer
    /\ s.selected # NoProfile => s.selected.iFingerPrint = list.search
    /\ list.search \in People \cup {Nobody} \cup Things
    /\ ~SelectionPending(s) =>
          /\ list.search = s.profileInUse
          /\ Listed(list) \subseteq MessagesOf(st, list.search)
          /\ \A f \in MessagesOf(st, list.search) :
                CanRead(s, st[f]) =>
                   f \in Listed(list) \/ (Told(s, "message", f) /\ st[f].about = list.search)

ListsOK(ls, st, s) ==
    /\ ls = [own |-> ls.own, viewed |-> ls.viewed, messages |-> ls.messages]
    /\ EventsOK(s, st) /\ LastIsInUse(s)
    /\ CommentsOK(ls.own, st, s) /\ CommentsOK(ls.viewed, st, s)
    /\ MessagesOK(ls.messages, st, s)

Inv(s, st, ls) == QueueOK(s) /\ ContactsInv(s) /\ StoredOK(st) /\ ListsOK(ls, st, s)
DeskInv == Inv(desk, stored, lists)

\* The first of some rows.
LEMMA FirstOfProperties ==
    ASSUME NEW rows, rows \subseteq Nat \ {0}
    PROVE  /\ rows = {} => FirstOf(rows) = 0
           /\ rows # {} => FirstOf(rows) \in rows
<1>1. rows # {} => \E i \in rows : \A j \in rows : i <= j
  BY LeastNumber
<1>2. QED
  BY <1>1 DEF FirstOf

\* A comment that is not encrypted can be read by anybody: it is signed by its
\* sender, whose key comes with it.
LEMMA CommentIsReadable ==
    ASSUME NEW s, IsDesk(s), NEW st, StoredOK(st), NEW f
    PROVE  ProfileCommentByFingerPrint(s, st, f) <=>
              f \in DOMAIN st /\ st[f].type = "comment" /\ st[f].readers = {}
<1>1. ASSUME f \in DOMAIN st, st[f].type = "comment"
      PROVE  Verify(KeyOfSender(s, st[f]), st[f].signer, st[f].sender)
  <2>1. st[f].signer = st[f].sender
    BY <1>1 DEF StoredOK, ItemOK
  <2>2. st[f].sender \in KeyOfSender(s, st[f]).publicKeys
    BY InsertPublicKeyChanges DEF KeyOfSender, PublicKey
  <2>3. QED
    BY <2>1, <2>2 DEF Verify, PublicKey
<1>2. QED
  BY <1>1 DEF ProfileCommentByFingerPrint, Stored, Deciphered

LEMMA MessageIsReadable ==
    ASSUME NEW s, IsDesk(s), NEW st, StoredOK(st), NEW f
    PROVE  MessageByFingerPrint(s, st, f) <=>
              f \in DOMAIN st /\ st[f].type = "message" /\ CanRead(s, st[f])
<1>1. ASSUME f \in DOMAIN st, st[f].type = "message"
      PROVE  Verify(KeyOfSender(s, st[f]), st[f].signer, st[f].sender)
  <2>1. st[f].signer = st[f].sender
    BY <1>1 DEF StoredOK, ItemOK
  <2>2. st[f].sender \in KeyOfSender(s, st[f]).publicKeys
    BY InsertPublicKeyChanges DEF KeyOfSender, PublicKey
  <2>3. QED
    BY <2>1, <2>2 DEF Verify, PublicKey
<1>2. QED
  BY <1>1 DEF MessageByFingerPrint, Stored, Deciphered, CanRead, Decrypt

\* Items are added, and the list will be told of them.
LEMMA CommentsStay ==
    ASSUME NEW list, NEW st, NEW s, CommentsOK(list, st, s), NEW after, NEW t,
           ListedItems(st) \subseteq ListedItems(after),
           \A f \in ListedItems(st) : after[f] = st[f],
           \A f \in ListedItems(after) \ ListedItems(st) :
              after[f].type = "comment" => Told(t, "comment", f),
           \A f : Told(s, "comment", f) => Told(t, "comment", f)
    PROVE  CommentsOK(list, after, t)
<1>1. \A f : f \in CommentsAbout(after, list.search) <=>
               /\ f \in ListedItems(after)
               /\ after[f].type = "comment" /\ after[f].about = list.search
  BY DEF CommentsAbout, ListedItems, IsListed
<1>2. \A f : f \in CommentsAbout(st, list.search) <=>
               /\ f \in ListedItems(st)
               /\ st[f].type = "comment" /\ st[f].about = list.search
  BY DEF CommentsAbout, ListedItems, IsListed
<1>3. CommentsAbout(st, list.search) \subseteq CommentsAbout(after, list.search)
  BY <1>1, <1>2
<1>4. \A f \in CommentsAbout(after, list.search) :
          after[f].readers = {} => f \in Listed(list) \/ Told(t, "comment", f)
  <2>1. TAKE f \in CommentsAbout(after, list.search)
  <2>2. CASE f \in ListedItems(st)
    BY <1>1, <1>2, <2>2 DEF CommentsOK
  <2>3. CASE f \notin ListedItems(st)
    BY <1>1, <2>3
  <2>4. QED
    BY <2>2, <2>3
<1>5. QED
  BY <1>3, <1>4 DEF CommentsOK

LEMMA CommentsFilled ==
    ASSUME NEW list, NEW st, StoredOK(st), NEW s, NEW p
    PROVE  CommentsOK(CommentSearch(list, p, st), st, s)
<1> DEFINE F == CommentsAbout(st, p)
           Row(f) == [fp |-> f, updated |-> FALSE]
           T == {Row(f) : f \in F}
           rows == SetToSeq(T)
           after == CommentSearch(list, p, st)
<1>1. IsFiniteSet(F) /\ F \subseteq Things
  BY ItemsAssumption, FS_Subset DEF StoredOK, CommentsAbout
<1>2. OneEach(T, F, CommentRow)
  <2> HIDE DEF F
  <2>1. \A f : Row(f).fp = f
    OBVIOUS
  <2>2. \A f \in F : Row(f) \in CommentRow
    BY <1>1 DEF CommentRow
  <2> HIDE DEF Row
  <2>3. \A row \in T : row \in CommentRow /\ row.fp \in F
    BY <2>1, <2>2
  <2>4. ASSUME NEW f \in F PROVE \E row \in T : row.fp = f
    <3>1. Row(f) \in T
      OBVIOUS
    <3> HIDE DEF T
    <3>2. QED
      BY <2>1, <3>1
  <2>5. \A row, other \in T : row.fp = other.fp => row = other
    BY <2>1
  <2> HIDE DEF T
  <2>6. QED
    BY <2>3, <2>4, <2>5 DEF OneEach
<1>3. after = [search |-> p, rows |-> rows, timer |-> list.timer \/ rows # <<>>]
  BY DEF CommentSearch, Filled
<1> HIDE DEF F, T, after
<1>4. IsListing(rows, F, CommentRow)
  BY <1>1, <1>2, RowsOfSet
<1> HIDE DEF rows
<1>5. /\ rows \in Seq(CommentRow)
      /\ \A i \in DOMAIN rows : rows[i].fp \in F
      /\ \A f \in F : \E i \in DOMAIN rows : rows[i].fp = f
      /\ \A i, j \in DOMAIN rows : rows[i].fp = rows[j].fp => i = j
      /\ (\E i \in DOMAIN rows : TRUE) => rows # <<>>
  BY <1>4 DEF IsListing
<1>6. \A f \in F : f # None
  BY <1>1, ItemsAssumption
<1>7. /\ IsList(after) /\ after.rows = rows /\ after.search = p
      /\ rows # <<>> => after.timer
  BY <1>3 DEF IsList
<1>8. Listed(after) = F
  BY <1>5, <1>6, <1>7 DEF Listed
<1>9. ListedOnce(after)
  BY <1>5, <1>7 DEF ListedOnce
<1>10. CommentsOK(after, st, s)
  BY <1>5, <1>7, <1>8, <1>9 DEF CommentsOK, F
<1>11. QED
  BY <1>10 DEF after

\* A row for a comment about the profile of the list.
LEMMA CommentAdded ==
    ASSUME NEW list, NEW st, StoredOK(st), NEW s, CommentsOK(list, st, s),
           NEW f \in CommentsAbout(st, list.search), ~HasRow(list, f),
           NEW updated \in BOOLEAN
    PROVE  LET added == Appended(list, [fp |-> f, updated |-> updated])
               after == IF updated THEN added ELSE Armed(added)
           IN CommentsOK(after, st, s) /\ f \in Listed(after) /\ after.search = list.search
<1> DEFINE row == [fp |-> f, updated |-> updated]
           added == Appended(list, row)
           after == IF updated THEN added ELSE Armed(added)
           rows == Append(list.rows, row)
           n == Len(list.rows) + 1
<1>1. f \in Things /\ f # None
  BY ItemsAssumption DEF StoredOK, CommentsAbout
<1>2. row \in CommentRow /\ row.fp = f /\ row.updated = updated
  BY <1>1 DEF CommentRow
<1>3. /\ IsList(after) /\ after.rows = rows /\ after.search = list.search
      /\ after.timer = IF updated THEN list.timer ELSE TRUE
  BY DEF CommentsOK, IsList, Appended, Armed
<1> HIDE DEF row, after
<1>4. /\ rows \in Seq(CommentRow) /\ DOMAIN rows = DOMAIN list.rows \cup {n}
      /\ n \notin DOMAIN list.rows
      /\ rows[n] = row /\ \A i \in DOMAIN list.rows : rows[i] = list.rows[i]
  BY <1>2, RowAppended DEF CommentsOK
<1> HIDE DEF rows, n
<1>5. \A i \in DOMAIN list.rows : list.rows[i].fp # f
  BY DEF HasRow
<1>6. Listed(after) = Listed(list) \cup {f}
  BY <1>1, <1>2, <1>3, <1>4 DEF Listed
<1>7. ListedOnce(after)
  BY <1>2, <1>3, <1>4, <1>5 DEF ListedOnce, CommentsOK
<1>8. \A i \in DOMAIN rows : ~rows[i].updated => after.timer
  BY <1>2, <1>3, <1>4 DEF CommentsOK
<1>9. CommentsOK(after, st, s)
  BY <1>3, <1>4, <1>6, <1>7, <1>8 DEF CommentsOK
<1>10. QED
  BY <1>3, <1>6, <1>9 DEF after, row

\* A notification is taken from the queue.
LEMMA CommentReceived ==
    ASSUME NEW list, NEW st, StoredOK(st), NEW s, CommentsOK(list, st, s), NEW t,
           NEW f \in ListedItems(st), st[f].type = "comment",
           \A g : Told(s, "comment", g) => g = f \/ Told(t, "comment", g)
    PROVE  CommentsOK(NewCommentReceived(list, f, st[f].about), st, t)
<1> DEFINE after == NewCommentReceived(list, f, st[f].about)
<1>1. CASE st[f].about # list.search
  <2>1. after = list
    BY <1>1 DEF NewCommentReceived
  <2>2. f \notin CommentsAbout(st, list.search)
    BY <1>1 DEF CommentsAbout
  <2>3. QED
    BY <2>1, <2>2 DEF CommentsOK
<1>2. CASE st[f].about = list.search /\ HasRow(list, f)
  <2>1. after = list
    BY <1>2 DEF NewCommentReceived
  <2>2. f \in Listed(list)
    BY <1>2, ItemsAssumption DEF HasRow, Listed, StoredOK, ListedItems
  <2>3. QED
    BY <2>1, <2>2 DEF CommentsOK
<1>3. CASE st[f].about = list.search /\ ~HasRow(list, f)
  <2>1. f \in CommentsAbout(st, list.search)
    BY <1>3 DEF CommentsAbout, ListedItems
  <2>2. after = Armed(Appended(list, [fp |-> f, updated |-> FALSE]))
    BY <1>3 DEF NewCommentReceived
  <2> HIDE DEF after
  <2>3. CommentsOK(after, st, s) /\ f \in Listed(after)
    BY <1>3, <2>1, <2>2, CommentAdded
  <2>4. QED
    BY <2>3 DEF CommentsOK, after
<1>4. QED
  BY <1>1, <1>2, <1>3

\* Idle time: a row is read, or it goes.
LEMMA CommentsIdle ==
    ASSUME NEW list, NEW st, StoredOK(st), NEW s, IsDesk(s), CommentsOK(list, st, s)
    PROVE  LET i == FirstOf({j \in DOMAIN list.rows : ~list.rows[j].updated})
               read == i # 0 /\ ProfileCommentByFingerPrint(s, st, list.rows[i].fp)
           IN CommentsOK(CommentUpdated(list, i, read), st, s)
<1> DEFINE unread == {j \in DOMAIN list.rows : ~list.rows[j].updated}
           i == FirstOf(unread)
           read == i # 0 /\ ProfileCommentByFingerPrint(s, st, list.rows[i].fp)
           after == CommentUpdated(list, i, read)
<1> SUFFICES CommentsOK(after, st, s)
  OBVIOUS
<1>1. DOMAIN list.rows \subseteq Nat \ {0}
  BY LenProperties DEF CommentsOK
<1>2. unread \subseteq Nat \ {0}
  BY <1>1
<1> HIDE DEF unread
<1>3. (unread = {} => i = 0) /\ (unread # {} => i \in unread)
  BY <1>2, FirstOfProperties
<1> HIDE DEF i
<1>4. CASE i = 0
  <2>1. unread = {}
    BY <1>2, <1>3, <1>4
  <2>2. after = [list EXCEPT !.timer = FALSE]
    BY <1>4 DEF CommentUpdated
  <2> HIDE DEF after
  <2>3. IsList(after) /\ after.rows = list.rows /\ after.search = list.search
    BY <2>2 DEF CommentsOK, IsList
  <2>4. \A j \in DOMAIN list.rows : list.rows[j].updated
    BY <2>1 DEF unread
  <2>5. QED
    BY <2>3, <2>4 DEF CommentsOK, Listed, ListedOnce
<1>5. CASE i # 0 /\ read
  <2>1. i \in DOMAIN list.rows
    BY <1>3, <1>5 DEF unread
  <2> DEFINE rows == [list.rows EXCEPT ![i] = [@ EXCEPT !.updated = TRUE]]
  <2>2. after = [list EXCEPT !.rows = rows]
    BY <1>5 DEF CommentUpdated
  <2>3. \A r \in CommentRow : /\ [r EXCEPT !.updated = TRUE] \in CommentRow
                             /\ [r EXCEPT !.updated = TRUE].fp = r.fp
                             /\ [r EXCEPT !.updated = TRUE].updated
    BY DEF CommentRow
  <2>4. /\ rows \in Seq(CommentRow) /\ DOMAIN rows = DOMAIN list.rows
        /\ \A j \in DOMAIN rows : /\ rows[j].fp = list.rows[j].fp
                                  /\ ~rows[j].updated => ~list.rows[j].updated
    <3>1. list.rows \in Seq(CommentRow) /\ DOMAIN list.rows = 1 .. Len(list.rows)
      BY LenProperties DEF CommentsOK
    <3>2. list.rows[i] \in CommentRow
      BY <2>1, <3>1, ElementOfSeq
    <3>3. rows \in Seq(CommentRow)
      BY <2>1, <2>3, <3>1, <3>2, ExceptSeq
    <3>4. QED
      BY <2>1, <2>3, <3>2, <3>3
  <2> HIDE DEF after, rows
  <2>5. /\ IsList(after) /\ after.rows = rows /\ after.search = list.search
        /\ after.timer = list.timer
    BY <2>2 DEF CommentsOK, IsList
  <2>6. Listed(after) = Listed(list) /\ ListedOnce(after)
    BY <2>4, <2>5 DEF Listed, ListedOnce, CommentsOK
  <2>7. QED
    BY <2>4, <2>5, <2>6 DEF CommentsOK
<1>6. CASE i # 0 /\ ~read
  <2>1. i \in DOMAIN list.rows
    BY <1>3, <1>6 DEF unread
  <2> DEFINE rows == RemoveAt(list.rows, i)
             f == list.rows[i].fp
  <2>2. after = [list EXCEPT !.rows = rows]
    BY <1>6 DEF CommentUpdated
  <2>3. rows \in Seq(CommentRow) /\ Without(list.rows, i, rows)
    BY <2>1, RowRemoved DEF CommentsOK
  <2> HIDE DEF rows, after
  <2>4. PICK from \in [DOMAIN rows -> DOMAIN list.rows] :
              /\ \A k \in DOMAIN rows : rows[k] = list.rows[from[k]]
              /\ \A j, k \in DOMAIN rows : from[j] = from[k] => j = k
    BY <2>3 DEF Without
  <2>5. /\ IsList(after) /\ after.rows = rows /\ after.search = list.search
        /\ after.timer = list.timer
    BY <2>2 DEF CommentsOK, IsList
  <2>6. ListedOnce(after)
    BY <2>4, <2>5 DEF ListedOnce, CommentsOK
  <2>7. Listed(after) \subseteq Listed(list) /\ Listed(list) \ {f} \subseteq Listed(after)
    <3>1. Listed(after) \subseteq Listed(list)
      BY <2>4, <2>5 DEF Listed
    <3>2. ASSUME NEW g \in Listed(list) \ {f} PROVE g \in Listed(after)
      <4>1. PICK j \in DOMAIN list.rows \ {i} : list.rows[j].fp = g
        BY <3>2 DEF Listed
      <4>2. PICK k \in DOMAIN rows : rows[k] = list.rows[j]
        BY <2>3, <4>1 DEF Without
      <4>3. QED
        BY <2>5, <3>2, <4>1, <4>2 DEF Listed
    <3>3. QED
      BY <3>1, <3>2
  <2>8. ~(f \in CommentsAbout(st, list.search) /\ st[f].readers = {})
    BY <1>6, CommentIsReadable DEF CommentsAbout
  <2>9. \A j \in DOMAIN rows : ~rows[j].updated => list.timer
    BY <2>4 DEF CommentsOK
  <2>10. QED
    BY <2>3, <2>5, <2>6, <2>7, <2>8, <2>9 DEF CommentsOK
<1>7. QED
  BY <1>4, <1>5, <1>6
\* The window shows the same profile, if any, and another selection waits or the
\* profile in use is the same and reads no more than before.
SameMessages(s, t) ==
    /\ ShowsSame(s, t)
    /\ \/ SelectionPending(t)
       \/ /\ ~SelectionPending(s) /\ t.profileInUse = s.profileInUse
          /\ Opens(t, t.profileInUse) => Opens(s, s.profileInUse)

LEMMA MessagesStay ==
    ASSUME NEW list, NEW st, NEW s, MessagesOK(list, st, s), NEW after, NEW t,
           ListedItems(st) \subseteq ListedItems(after),
           \A f \in ListedItems(st) : after[f] = st[f],
           \A f \in ListedItems(after) \ ListedItems(st) :
              after[f].type = "message" =>
                 Told(t, "message", f) /\ after[f].sender # s.profileInUse,
           \A f : Told(s, "message", f) => Told(t, "message", f),
           SameMessages(s, t)
    PROVE  MessagesOK(list, after, t)
<1>1. \A f : f \in MessagesOf(after, list.search) <=>
               /\ f \in ListedItems(after) /\ after[f].type = "message"
               /\ list.search \in {after[f].about, after[f].sender}
  BY DEF MessagesOf, ListedItems, IsListed
<1>2. \A f : f \in MessagesOf(st, list.search) <=>
               /\ f \in ListedItems(st) /\ st[f].type = "message"
               /\ list.search \in {st[f].about, st[f].sender}
  BY DEF MessagesOf, ListedItems, IsListed
<1>3. \A f \in Listed(list) : f \in ListedItems(after) /\ after[f].type = "message"
  BY DEF MessagesOK
<1>4. t.selected # NoProfile => t.selected.iFingerPrint = list.search
  BY DEF MessagesOK, SameMessages, ShowsSame
<1>5. ASSUME ~SelectionPending(t)
      PROVE  /\ list.search = t.profileInUse
             /\ Listed(list) \subseteq MessagesOf(after, list.search)
             /\ \A f \in MessagesOf(after, list.search) :
                   CanRead(t, after[f]) =>
                      f \in Listed(list) \/ (Told(t, "message", f) /\ after[f].about = list.search)
  <2>1. /\ ~SelectionPending(s) /\ t.profileInUse = s.profileInUse
        /\ \A item : CanRead(t, item) => CanRead(s, item)
    BY <1>5 DEF SameMessages, CanRead
  <2>2. /\ list.search = s.profileInUse /\ Listed(list) \subseteq MessagesOf(st, list.search)
        /\ \A f \in MessagesOf(st, list.search) :
                CanRead(s, st[f]) =>
                   f \in Listed(list) \/ (Told(s, "message", f) /\ st[f].about = list.search)
    BY <2>1 DEF MessagesOK
  <2>3. ASSUME NEW f \in MessagesOf(after, list.search), CanRead(t, after[f])
        PROVE  f \in Listed(list) \/ (Told(t, "message", f) /\ after[f].about = list.search)
    <3>1. CASE f \in ListedItems(st)
      BY <1>1, <1>2, <2>1, <2>2, <2>3, <3>1
    <3>2. CASE f \notin ListedItems(st)
      BY <1>1, <2>2, <3>2
    <3>3. QED
      BY <3>1, <3>2
  <2>4. Listed(list) \subseteq MessagesOf(after, list.search)
    BY <1>1, <1>2, <2>2
  <2>5. QED
    BY <2>1, <2>2, <2>3, <2>4
<1>6. QED
  BY <1>3, <1>4, <1>5 DEF MessagesOK

LEMMA MessagesFilled ==
    ASSUME NEW list, NEW st, StoredOK(st), NEW s, NEW p \in People \cup {Nobody} \cup Things,
           s.profileInUse \in Mine \cup {Nobody},
           s.selected # NoProfile => s.selected.iFingerPrint = p,
           ~SelectionPending(s) => p = s.profileInUse
    PROVE  MessagesOK(MessageSearch(list, p, s.profileInUse, st), st, s)
<1> DEFINE u == s.profileInUse
           F == MessagesOf(st, p)
           Row(f) == [fp |-> f, sender |-> IF st[f].sender = u THEN u ELSE Nobody]
           T == {Row(f) : f \in F}
           rows == SetToSeq(T)
           after == MessageSearch(list, p, u, st)
<1>1. IsFiniteSet(F) /\ F \subseteq Things
  BY ItemsAssumption, FS_Subset DEF StoredOK, MessagesOf
<1>2. OneEach(T, F, AnyRow)
  <2> HIDE DEF F
  <2>1. \A f : Row(f).fp = f
    OBVIOUS
  <2>2. \A f \in F : Row(f) \in AnyRow
    BY <1>1, NobodyIsNotMine DEF AnyRow
  <2> HIDE DEF Row
  <2>3. \A row \in T : row \in AnyRow /\ row.fp \in F
    BY <2>1, <2>2
  <2>4. ASSUME NEW f \in F PROVE \E row \in T : row.fp = f
    <3>1. Row(f) \in T
      OBVIOUS
    <3> HIDE DEF T
    <3>2. QED
      BY <2>1, <3>1
  <2>5. \A row, other \in T : row.fp = other.fp => row = other
    BY <2>1
  <2> HIDE DEF T
  <2>6. QED
    BY <2>3, <2>4, <2>5 DEF OneEach
<1>3. after = [search |-> p, rows |-> rows, timer |-> list.timer \/ rows # <<>>]
  BY DEF MessageSearch, Filled
<1>4. \A f \in F : f \in ListedItems(st) /\ st[f].type = "message"
  BY DEF MessagesOf, ListedItems, IsListed
<1> HIDE DEF F, T, after
<1>5. IsListing(rows, F, AnyRow)
  BY <1>1, <1>2, RowsOfSet
<1> HIDE DEF rows
<1>6. /\ rows \in Seq(AnyRow)
      /\ \A i \in DOMAIN rows : rows[i].fp \in F
      /\ \A f \in F : \E i \in DOMAIN rows : rows[i].fp = f
      /\ \A i, j \in DOMAIN rows : rows[i].fp = rows[j].fp => i = j
      /\ (\E i \in DOMAIN rows : TRUE) => rows # <<>>
  BY <1>5 DEF IsListing
<1>7. \A f \in F : f # None
  BY <1>1, ItemsAssumption
<1>8. /\ IsList(after) /\ after.rows = rows /\ after.search = p
      /\ rows # <<>> => after.timer
  BY <1>3 DEF IsList
<1>9. Listed(after) = F
  BY <1>6, <1>7, <1>8 DEF Listed
<1>10. ListedOnce(after)
  BY <1>6, <1>8 DEF ListedOnce
<1>11. MessagesOK(after, st, s)
  BY <1>4, <1>6, <1>8, <1>9, <1>10 DEF MessagesOK, F
<1>12. QED
  BY <1>11 DEF after
\* A row is appended: that of a message, which may be new, or of none.
LEMMA MessageRowAppended ==
    ASSUME NEW list, NEW st, NEW s, MessagesOK(list, st, s), NEW f, NEW now,
           ListedItems(st) \subseteq ListedItems(now),
           ListedItems(now) \subseteq ListedItems(st) \cup {f},
           \A g \in ListedItems(st) : now[g] = st[g],
           f = None \/ (f \in ListedItems(now) /\ f \in Things /\ now[f].type = "message"
                        /\ f \notin Listed(list)),
           f = None => f \notin ListedItems(now),
           NEW sender \in People \cup {Nobody} \cup Things,
           ~SelectionPending(s) /\ f # None => f \in MessagesOf(now, s.profileInUse),
           NEW added, added = Appended(list, [fp |-> f, sender |-> sender]),
           NEW after, \/ after = Armed(added)
                      \/ after = added /\ ~(f # None /\ sender = Nobody)
    PROVE  MessagesOK(after, now, s) /\ Listed(after) = Listed(list) \cup ({f} \ {None})
<1> DEFINE row == [fp |-> f, sender |-> sender]
           rows == Append(list.rows, row)
           n == Len(list.rows) + 1
<1>1. row \in AnyRow /\ row.fp = f /\ row.sender = sender
  BY DEF AnyRow
<1>2. /\ IsList(after) /\ after.rows = rows /\ after.search = list.search
      /\ after.timer = TRUE \/ (after.timer = list.timer /\ ~(f # None /\ sender = Nobody))
  BY DEF MessagesOK, IsList, Appended, Armed
<1> HIDE DEF row
<1>3. /\ rows \in Seq(AnyRow) /\ DOMAIN rows = DOMAIN list.rows \cup {n}
      /\ n \notin DOMAIN list.rows
      /\ rows[n] = row /\ \A i \in DOMAIN list.rows : rows[i] = list.rows[i]
  BY <1>1, RowAppended DEF MessagesOK
<1> HIDE DEF rows, n
<1>4. Listed(after) = Listed(list) \cup ({f} \ {None})
  BY <1>1, <1>2, <1>3 DEF Listed
<1>5. \A i \in DOMAIN list.rows : f # None => list.rows[i].fp # f
  BY DEF Listed
<1>6. ListedOnce(after)
  BY <1>1, <1>2, <1>3, <1>5 DEF ListedOnce, MessagesOK
<1>7. \A i \in DOMAIN rows : rows[i].fp # None /\ rows[i].sender = Nobody => after.timer
  BY <1>1, <1>2, <1>3 DEF MessagesOK
<1>8. \A g \in Listed(after) : g \in ListedItems(now) /\ now[g].type = "message"
  BY <1>4 DEF MessagesOK
<1>9. ASSUME ~SelectionPending(s)
      PROVE  /\ list.search = s.profileInUse
             /\ Listed(after) \subseteq MessagesOf(now, list.search)
             /\ \A g \in MessagesOf(now, list.search) :
                   CanRead(s, now[g]) =>
                      g \in Listed(after) \/ (Told(s, "message", g) /\ now[g].about = list.search)
  <2>1. /\ list.search = s.profileInUse
        /\ Listed(list) \subseteq MessagesOf(st, list.search)
        /\ \A g \in MessagesOf(st, list.search) :
                CanRead(s, st[g]) =>
                   g \in Listed(list) \/ (Told(s, "message", g) /\ st[g].about = list.search)
    BY <1>9 DEF MessagesOK
  <2>2. \A g : g \in MessagesOf(now, list.search) <=>
                 /\ g \in ListedItems(now) /\ now[g].type = "message"
                 /\ list.search \in {now[g].about, now[g].sender}
    BY DEF MessagesOf, ListedItems, IsListed
  <2>3. \A g : g \in MessagesOf(st, list.search) <=>
                 /\ g \in ListedItems(st) /\ st[g].type = "message"
                 /\ list.search \in {st[g].about, st[g].sender}
    BY DEF MessagesOf, ListedItems, IsListed
  <2>4. MessagesOf(st, list.search) \subseteq MessagesOf(now, list.search)
    BY <2>2, <2>3
  <2>5. Listed(after) \subseteq MessagesOf(now, list.search)
    BY <1>4, <1>9, <2>1, <2>4
  <2>6. ASSUME NEW g \in MessagesOf(now, list.search), CanRead(s, now[g])
        PROVE  g \in Listed(after) \/ (Told(s, "message", g) /\ now[g].about = list.search)
    <3>1. CASE g \in ListedItems(st)
      BY <1>4, <2>1, <2>2, <2>3, <2>6, <3>1
    <3>2. CASE g \notin ListedItems(st)
      BY <1>4, <2>2, <3>2
    <3>3. QED
      BY <3>1, <3>2
  <2>7. QED
    BY <2>1, <2>5, <2>6
<1>10. MessagesOK(after, now, s)
  BY <1>2, <1>3, <1>6, <1>7, <1>8, <1>9 DEF MessagesOK
<1>11. QED
  BY <1>4, <1>10

\* A notification is taken from the queue.
LEMMA MessageReceived ==
    ASSUME NEW list, NEW st, StoredOK(st), NEW s, MessagesOK(list, st, s), NEW t,
           NEW f \in ListedItems(st), st[f].type = "message",
           \A g : Told(s, "message", g) => g = f \/ Told(t, "message", g),
           ShowsSame(s, t), SelectionPending(t) = SelectionPending(s),
           t.profileInUse = s.profileInUse, s.profileInUse \in Mine \cup {Nobody},
           t.privateKeys = s.privateKeys, t.contentKeyPasswd = s.contentKeyPasswd
    PROVE  MessagesOK(NewMsgReceived(list, f, st[f].about, s.profileInUse), st, t)
<1> DEFINE u == s.profileInUse
           after == NewMsgReceived(list, f, st[f].about, u)
<1> SUFFICES MessagesOK(after, st, t)
  OBVIOUS
<1>1. \A item : CanRead(t, item) = CanRead(s, item)
  BY DEF CanRead, Opens, PrivateKey, PrivateKeyFromPem
<1>2. f \in Things /\ f # None /\ f \in DOMAIN st
  BY ItemsAssumption DEF StoredOK, ListedItems
\* But for what waited about this message the list is as it should be.
<1>3. ASSUME NEW other, MessagesOK(other, st, s), other.search = list.search,
             f \in Listed(other) \/ st[f].about # u
      PROVE  MessagesOK(other, st, t)
  <2>1. t.selected # NoProfile => t.selected.iFingerPrint = other.search
    BY <1>3 DEF MessagesOK, ShowsSame
  <2>2. ASSUME ~SelectionPending(t)
        PROVE  /\ other.search = t.profileInUse
               /\ Listed(other) \subseteq MessagesOf(st, other.search)
               /\ \A g \in MessagesOf(st, other.search) :
                     CanRead(t, st[g]) =>
                       g \in Listed(other) \/ (Told(t, "message", g) /\ st[g].about = other.search)
    <3>1. /\ other.search = u
          /\ Listed(other) \subseteq MessagesOf(st, other.search)
          /\ \A g \in MessagesOf(st, other.search) :
                CanRead(s, st[g]) =>
                   g \in Listed(other) \/ (Told(s, "message", g) /\ st[g].about = other.search)
      BY <1>3, <2>2 DEF MessagesOK
    <3>2. QED
      BY <1>1, <1>3, <3>1
  <2>3. QED
    BY <1>3, <2>1, <2>2 DEF MessagesOK
<1>4. CASE st[f].about # u
  <2>1. after = list
    BY <1>4 DEF NewMsgReceived
  <2>2. QED
    BY <1>3, <1>4, <2>1
<1>5. CASE st[f].about = u /\ HasRow(list, f)
  <2>1. after = list
    BY <1>5 DEF NewMsgReceived
  <2>2. f \in Listed(list)
    BY <1>2, <1>5 DEF HasRow, Listed
  <2>3. QED
    BY <1>3, <2>1, <2>2
<1>6. CASE st[f].about = u /\ ~HasRow(list, f)
  <2>1. after = Armed(Appended(list, [fp |-> f, sender |-> Nobody]))
    BY <1>6 DEF NewMsgReceived
  <2>2. after.search = list.search
    BY <2>1 DEF Armed, Appended, MessagesOK, IsList
  <2> HIDE DEF after
  <2>3. f \notin Listed(list)
    BY <1>6 DEF HasRow, Listed
  <2>4. f \in MessagesOf(st, u)
    BY <1>2, <1>6 DEF MessagesOf
  <2>5. MessagesOK(after, st, s) /\ f \in Listed(after)
    BY <1>2, <2>1, <2>3, <2>4, MessageRowAppended
  <2>6. QED
    BY <1>3, <2>2, <2>5
<1>7. QED
  BY <1>4, <1>5, <1>6
\* Idle time: a message is read, and its sender is known, or its row goes.
LEMMA MessagesIdle ==
    ASSUME NEW list, NEW st, StoredOK(st), NEW s, IsDesk(s), MessagesOK(list, st, s),
           NEW i, i = FirstOf({j \in DOMAIN list.rows : list.rows[j].sender = Nobody}),
           NEW after,
           IF i # 0 /\ MessageByFingerPrint(s, st, list.rows[i].fp)
           THEN after = MessageUpdated(list, i, TRUE, st[list.rows[i].fp].sender)
           ELSE after = MessageUpdated(list, i, FALSE, Nobody)
    PROVE  MessagesOK(after, st, s)
<1> DEFINE unread == {j \in DOMAIN list.rows : list.rows[j].sender = Nobody}
           read == i # 0 /\ MessageByFingerPrint(s, st, list.rows[i].fp)
<1>1. DOMAIN list.rows \subseteq Nat \ {0} /\ DOMAIN list.rows = 1 .. Len(list.rows)
  BY LenProperties DEF MessagesOK
<1>2. unread \subseteq Nat \ {0}
  BY <1>1
<1>3. (unread = {} => i = 0) /\ (unread # {} => i \in unread)
  <2> HIDE DEF unread
  <2>1. i = FirstOf(unread)
    BY DEF unread
  <2>2. QED
    BY <1>2, <2>1, FirstOfProperties
<1> HIDE DEF unread
<1>4. CASE i = 0
  <2>1. unread = {}
    BY <1>2, <1>3, <1>4
  <2>2. after = [list EXCEPT !.timer = FALSE]
    BY <1>4 DEF MessageUpdated
  <2>3. IsList(after) /\ after.rows = list.rows /\ after.search = list.search
    BY <2>2 DEF MessagesOK, IsList
  <2>4. \A j \in DOMAIN list.rows : list.rows[j].sender # Nobody
    BY <2>1 DEF unread
  <2>5. Listed(after) = Listed(list) /\ ListedOnce(after)
    BY <2>3 DEF Listed, ListedOnce, MessagesOK
  <2>6. QED
    BY <2>3, <2>4, <2>5 DEF MessagesOK
<1>5. CASE i # 0 /\ read
  <2> DEFINE f == list.rows[i].fp
             sender == st[f].sender
             row == [list.rows[i] EXCEPT !.sender = sender]
             rows == [list.rows EXCEPT ![i] = row]
  <2>1. i \in DOMAIN list.rows
    BY <1>3, <1>5 DEF unread
  <2>2. after = [list EXCEPT !.rows = rows]
    BY <1>5 DEF MessageUpdated
  <2>3. sender \in People /\ sender # Nobody
    <3>1. f \in DOMAIN st /\ st[f].type = "message"
      BY <1>5, MessageIsReadable
    <3>2. QED
      BY <3>1, KeysAssumption DEF StoredOK, ItemOK
  <2>4. list.rows[i] \in AnyRow
    <3>1. list.rows \in Seq(AnyRow)
      BY DEF MessagesOK
    <3>2. QED
      BY <1>1, <2>1, <3>1, ElementOfSeq
  <2>5. row \in AnyRow /\ row.fp = f /\ row.sender = sender
    BY <2>3, <2>4 DEF AnyRow
  <2> HIDE DEF row, sender
  <2>6. /\ rows \in Seq(AnyRow) /\ DOMAIN rows = DOMAIN list.rows
        /\ \A j \in DOMAIN rows : /\ rows[j].fp = list.rows[j].fp
                                  /\ rows[j].sender = Nobody => list.rows[j].sender = Nobody
    <3>1. rows \in Seq(AnyRow)
      BY <2>1, <2>5, ExceptSeq DEF MessagesOK
    <3>2. QED
      BY <2>3, <2>5, <3>1
  <2> HIDE DEF rows
  <2>7. /\ IsList(after) /\ after.rows = rows /\ after.search = list.search
        /\ after.timer = list.timer
    BY <2>2 DEF MessagesOK, IsList
  <2>8. Listed(after) = Listed(list) /\ ListedOnce(after)
    BY <2>6, <2>7 DEF Listed, ListedOnce, MessagesOK
  <2>9. QED
    BY <2>6, <2>7, <2>8 DEF MessagesOK
<1>6. CASE i # 0 /\ ~read
  <2> DEFINE rows == RemoveAt(list.rows, i)
             f == list.rows[i].fp
  <2>1. i \in DOMAIN list.rows
    BY <1>3, <1>6 DEF unread
  <2>2. after = [list EXCEPT !.rows = rows]
    BY <1>6 DEF MessageUpdated
  <2>3. rows \in Seq(AnyRow) /\ Without(list.rows, i, rows)
    BY <2>1, RowRemoved DEF MessagesOK
  <2> HIDE DEF rows
  <2>4. PICK from \in [DOMAIN rows -> DOMAIN list.rows] :
              /\ \A k \in DOMAIN rows : rows[k] = list.rows[from[k]]
              /\ \A j, k \in DOMAIN rows : from[j] = from[k] => j = k
    BY <2>3 DEF Without
  <2>5. /\ IsList(after) /\ after.rows = rows /\ after.search = list.search
        /\ after.timer = list.timer
    BY <2>2 DEF MessagesOK, IsList
  <2>6. ListedOnce(after)
    BY <2>4, <2>5 DEF ListedOnce, MessagesOK
  <2>7. Listed(after) \subseteq Listed(list) /\ Listed(list) \ {f} \subseteq Listed(after)
    <3>1. Listed(after) \subseteq Listed(list)
      BY <2>4, <2>5 DEF Listed
    <3>2. ASSUME NEW g \in Listed(list) \ {f} PROVE g \in Listed(after)
      <4>1. PICK j \in DOMAIN list.rows \ {i} : list.rows[j].fp = g
        BY <3>2 DEF Listed
      <4>2. PICK k \in DOMAIN rows : rows[k] = list.rows[j]
        BY <2>3, <4>1 DEF Without
      <4>3. QED
        BY <2>5, <3>2, <4>1, <4>2 DEF Listed
    <3>3. QED
      BY <3>1, <3>2
  <2>8. \A p : ~(f \in MessagesOf(st, p) /\ CanRead(s, st[f]))
    BY <1>6, MessageIsReadable DEF MessagesOf
  <2>9. \A j \in DOMAIN rows : rows[j].fp # None /\ rows[j].sender = Nobody => list.timer
    BY <2>4 DEF MessagesOK
  <2>10. \A g \in Listed(after) : g \in ListedItems(st) /\ st[g].type = "message"
    BY <2>7 DEF MessagesOK
  <2>11. ~SelectionPending(s) =>
          /\ list.search = s.profileInUse
          /\ Listed(after) \subseteq MessagesOf(st, list.search)
          /\ \A g \in MessagesOf(st, list.search) :
                CanRead(s, st[g]) =>
                   g \in Listed(after) \/ (Told(s, "message", g) /\ st[g].about = list.search)
    <3>1. Listed(list) \subseteq Listed(after) \cup {f}
      BY <2>7
    <3>2. QED
      BY <2>7, <2>8, <3>1 DEF MessagesOK
  <2>12. QED
    BY <2>3, <2>5, <2>6, <2>9, <2>10, <2>11 DEF MessagesOK
<1>7. QED
  BY <1>4, <1>5, <1>6
-----------------------------------------------------------------------------
(***************************************************************************)
(* The queue.                                                              *)
(***************************************************************************)
LEMMA ItemsMembers ==
    ASSUME NEW s, NEW e
    PROVE  e \in Items(s) <=> e \in ToSet(s.events) /\ e.kind \in {"comment", "message"}
BY DEF Items

\* An event that is not a selection comes to the end.
LEMMA EventAppended ==
    ASSUME NEW s, s.events \in Seq(DeskEvent), NEW e \in DeskEvent, e.kind # "selected",
           NEW t, t.events = Append(s.events, e), t.profileInUse = s.profileInUse
    PROVE  /\ t.events \in Seq(DeskEvent)
           /\ SelectionPending(t) = SelectionPending(s)
           /\ LastIsInUse(s) => LastIsInUse(t)
           /\ \A x \in Items(s) : x \in Items(t)
           /\ \A x \in Items(t) : x \in Items(s) \/ x = e
           /\ e.kind \in {"comment", "message"} => e \in Items(t)
<1>1. /\ DOMAIN t.events = 1 .. (Len(s.events) + 1) /\ Len(s.events) \in Nat
      /\ DOMAIN s.events = 1 .. Len(s.events)
      /\ \A i \in DOMAIN s.events : t.events[i] = s.events[i]
      /\ t.events[Len(s.events) + 1] = e
      /\ ToSet(t.events) = ToSet(s.events) \cup {e}
      /\ t.events \in Seq(DeskEvent)
  <2>1. /\ t.events \in Seq(DeskEvent) /\ ToSet(t.events) = ToSet(s.events) \cup {e}
    BY AppendMembers
  <2>2. Len(t.events) = Len(s.events) + 1
        /\ (\A i \in 1 .. Len(s.events) : t.events[i] = s.events[i])
        /\ t.events[Len(s.events) + 1] = e
    BY AppendProperties
  <2>3. QED
    BY <2>1, <2>2, LenProperties
<1>2. SelectionPending(t) = SelectionPending(s)
  BY <1>1, PendingMember
<1>3. LastIsInUse(s) => LastIsInUse(t)
  BY <1>1 DEF LastIsInUse
<1>4. QED
  BY <1>1, <1>2, <1>3 DEF Items

\* The first event is taken.
LEMMA EventTaken ==
    ASSUME NEW s, s.events \in Seq(DeskEvent), s.events # <<>>, LastIsInUse(s),
           NEW t, t.events = Tail(s.events), t.profileInUse = s.profileInUse,
           NEW e, e = Head(s.events)
    PROVE  /\ e \in DeskEvent
           /\ t.events \in Seq(DeskEvent)
           /\ LastIsInUse(t)
           /\ \A x \in Items(t) : x \in Items(s)
           /\ \A x \in Items(s) : x \in Items(t) \/ x = e
           /\ e.kind \in {"comment", "message"} => e \in Items(s)
           /\ e.kind # "selected" => SelectionPending(t) = SelectionPending(s)
           /\ e.kind = "selected" /\ ~SelectionPending(t) => e.of = s.profileInUse
           /\ SelectionPending(t) => SelectionPending(s)
<1>1. e \in DeskEvent /\ t.events \in Seq(DeskEvent) /\ ToSet(s.events) = {e} \cup ToSet(t.events)
  BY TailMembers
<1>2. /\ DOMAIN s.events = 1 .. Len(s.events) /\ Len(s.events) \in Nat /\ Len(s.events) # 0
      /\ DOMAIN t.events = 1 .. (Len(s.events) - 1) /\ e = s.events[1]
      /\ \A i \in DOMAIN t.events : t.events[i] = s.events[i + 1]
  <2>1. Len(t.events) = Len(s.events) - 1
        /\ (\A i \in 1 .. Len(t.events) : t.events[i] = s.events[i + 1])
    BY HeadTailProperties
  <2>2. DOMAIN s.events = 1 .. Len(s.events) /\ Len(s.events) \in Nat /\ Len(s.events) # 0
        /\ DOMAIN t.events = 1 .. Len(t.events)
    BY <1>1, LenProperties, EmptySeq
  <2>3. QED
    BY <2>1, <2>2
<1>3. ASSUME NEW i \in DOMAIN t.events, t.events[i].kind = "selected",
             \A j \in DOMAIN t.events : i < j => t.events[j].kind # "selected"
      PROVE  t.events[i].of = t.profileInUse
  <2>1. i + 1 \in DOMAIN s.events /\ s.events[i + 1].kind = "selected"
    BY <1>2, <1>3
  <2>2. ASSUME NEW j \in DOMAIN s.events, i + 1 < j PROVE s.events[j].kind # "selected"
    <3>1. j - 1 \in DOMAIN t.events /\ i < j - 1 /\ t.events[j - 1] = s.events[j]
      BY <1>2, <2>2
    <3>2. QED
      BY <1>3, <3>1
  <2>3. s.events[i + 1].of = s.profileInUse
    BY <2>1, <2>2 DEF LastIsInUse
  <2>4. QED
    BY <1>2, <2>3
<1>4. LastIsInUse(t)
  BY <1>3 DEF LastIsInUse
<1>5. e.kind # "selected" => SelectionPending(t) = SelectionPending(s)
  BY <1>1, PendingMember
<1>6. ASSUME e.kind = "selected", ~SelectionPending(t) PROVE e.of = s.profileInUse
  <2>1. ASSUME NEW j \in DOMAIN s.events, 1 < j PROVE s.events[j].kind # "selected"
    <3>1. j - 1 \in DOMAIN t.events /\ t.events[j - 1] = s.events[j]
      BY <1>2, <2>1
    <3>2. QED
      BY <1>6, <3>1 DEF SelectionPending
  <2>2. QED
    BY <1>2, <1>6, <2>1 DEF LastIsInUse
<1>7. SelectionPending(t) => SelectionPending(s)
  BY <1>1, PendingMember
<1>8. QED
  BY <1>1, <1>4, <1>5, <1>6, <1>7 DEF Items
-----------------------------------------------------------------------------
(***************************************************************************)
(* Steps.                                                                  *)
(***************************************************************************)

\* The lists stay, and will be told of what is new.
LEMMA ListsStay ==
    ASSUME NEW ls, NEW st, NEW s, ListsOK(ls, st, s), NEW after, NEW t,
           ListedItems(st) \subseteq ListedItems(after),
           \A f \in ListedItems(st) : after[f] = st[f],
           \A f \in ListedItems(after) \ ListedItems(st) :
              /\ Told(t, after[f].type, f)
              /\ after[f].type = "message" => after[f].sender # s.profileInUse,
           \A x \in Items(s) : x \in Items(t),
           EventsOK(t, after), LastIsInUse(t), SameMessages(s, t)
    PROVE  ListsOK(ls, after, t)
<1>1. \A kind, f : Told(s, kind, f) => Told(t, kind, f)
  BY DEF Told
<1>2. CommentsOK(ls.own, after, t) /\ CommentsOK(ls.viewed, after, t)
  BY <1>1, CommentsStay DEF ListsOK
<1>3. MessagesOK(ls.messages, after, t)
  BY <1>1, MessagesStay DEF ListsOK
<1>4. QED
  BY <1>2, <1>3 DEF ListsOK

LEMMA HandledKeeps ==
    ASSUME NEW s, NEW st, NEW ls, Inv(s, st, ls), NEW t, Handled(s, t)
    PROVE  Inv(t, st, ls)
<1>1. Items(t) = Items(s) /\ LastIsInUse(t) /\ SameMessages(s, t)
  <2>1. CASE Quiet(s, t)
    BY <2>1 DEF Quiet, Inv, ListsOK, Items, LastIsInUse, SameMessages, SelectionPending
  <2>2. CASE Selects(s, t)
    BY <2>2 DEF Selects, SameMessages
  <2>3. QED
    BY <2>1, <2>2 DEF Handled
<1>2. EventsOK(t, st)
  BY <1>1 DEF Inv, ListsOK, EventsOK
<1>3. ListsOK(ls, st, t)
  BY <1>1, <1>2, ListsStay DEF Inv
<1>4. QED
  BY <1>3 DEF Inv, Handled

\* What is stored changes, but no comment and no message.
LEMMA SameItemsKeep ==
    ASSUME NEW s, NEW st, NEW ls, Inv(s, st, ls), NEW after, StoredOK(after), SameItems(st, after)
    PROVE  Inv(s, after, ls)
<1>1. EventsOK(s, after)
  BY DEF Inv, ListsOK, EventsOK, SameItems
<1>2. SameMessages(s, s) /\ LastIsInUse(s)
  BY DEF SameMessages, ShowsSame, Inv, ListsOK
<1>3. ListsOK(ls, after, s)
  BY <1>1, <1>2, ListsStay DEF Inv, SameItems
<1>4. QED
  BY <1>3 DEF Inv

\* An event of a profile or of a record comes to the queue, or goes: the lists are
\* not concerned.
LEMMA OtherEventKeeps ==
    ASSUME NEW s, NEW st, NEW ls, Inv(s, st, ls), NEW t,
           Changes(s, t, {"events"}),
           \/ \E e \in DeskEvent : e.kind \in {"profile", "record"} /\ t.events = Append(s.events, e)
           \/ /\ s.events # <<>> /\ Head(s.events).kind \in {"profile", "record"}
              /\ t.events = Tail(s.events)
    PROVE  Inv(t, st, ls)
<1>1. /\ t.publicKeys = s.publicKeys /\ t.made = s.made /\ t.spoiled = s.spoiled
      /\ t.privateKeys = s.privateKeys /\ t.generated = s.generated
      /\ t.privateData = s.privateData /\ t.profileInUse = s.profileInUse
      /\ t.selected = s.selected /\ t.contacts = s.contacts
      /\ t.contentKeyPasswd = s.contentKeyPasswd
  BY DEF Changes, Fields
<1>2. s.events \in Seq(DeskEvent) /\ LastIsInUse(s)
  BY DEF Inv, QueueOK, ListsOK
<1>3. /\ t.events \in Seq(DeskEvent) /\ SelectionPending(t) = SelectionPending(s)
      /\ LastIsInUse(t) /\ \A x : x \in Items(t) <=> x \in Items(s)
  <2>1. ASSUME NEW e \in DeskEvent, e.kind \in {"profile", "record"}, t.events = Append(s.events, e)
        PROVE  <1>3!:
    <3>1. e \notin Items(t)
      BY <2>1 DEF Items
    <3>2. QED
      BY <1>1, <1>2, <2>1, <3>1, EventAppended
  <2>2. ASSUME s.events # <<>>, Head(s.events).kind \in {"profile", "record"},
               t.events = Tail(s.events)
        PROVE  <1>3!:
    <3>1. Head(s.events) \notin Items(s)
      BY <2>2 DEF Items
    <3>2. QED
      BY <1>1, <1>2, <2>2, <3>1, EventTaken
  <2>3. QED
    BY <2>1, <2>2
<1>4. QueueOK(t) /\ KeptBut(t, {}) /\ ShownAreMade(t)
  BY <1>1, <1>3, SameKept, SameShown DEF QueueOK, Changes, Inv, ContactsInv
<1>5. EventsOK(t, st) /\ SameMessages(s, t)
  BY <1>1, <1>3
     DEF EventsOK, SameMessages, ShowsSame, Inv, ListsOK, Opens, PrivateKey, PrivateKeyFromPem
<1>6. ListsOK(ls, st, t)
  BY <1>3, <1>5, ListsStay DEF Inv
<1>7. QED
  BY <1>4, <1>6 DEF Inv, ContactsInv
\* Handlers that have to do with neither keys nor contacts.
Few == {"dialogs", "viewed", "names", "tree", "behind", "patched", "profiles",
        "selected", "publicKeys"}

LEMMA FewAreHandled ==
    ASSUME NEW s, NEW st, NEW ls, Inv(s, st, ls), NEW t, ShowsSame(s, t), Changes(s, t, Few),
           s.publicKeys \subseteq t.publicKeys
    PROVE  Handled(s, t)
BY OthersAreHandled DEF Few, Inv

LEMMA SwitchesKeep == ASSUME DeskInv, Switches PROVE DeskInv'
<1>1. QueueOK(desk) /\ ContactsInv(desk) /\ stored' = stored /\ lists' = lists
  BY DEF DeskInv, Inv, Switches
<1>2. ASSUME NEW password, PasswordOk(password) PROVE Handled(desk, desk')
  <2>1. /\ ListKeys(desk) = <<>> => desk.generated < Len(MyKeys)
        /\ desk' = PasswordGiven(desk, password)
    BY <1>2 DEF PasswordOk
  <2>2. LET t == PasswordGiven(desk, password) IN
        QueueOK(t) /\ ContactsInv(t) /\ (Selects(desk, t) \/ Quiet(desk, t))
    BY <1>1, <2>1, PasswordGivenIsHandled
  <2>3. QED
    BY <2>1, <2>2 DEF Handled
<1>3. ASSUME SelectProfile PROVE Handled(desk, desk')
  <2>1. Changes(desk, desk', {"dialogs"})
    BY <1>1, <1>3 DEF SelectProfile, QueueOK, Changes, IsDesk, Fields
  <2>2. Changes(desk, desk', Few) /\ ShowsSame(desk, desk') /\ desk'.publicKeys = desk.publicKeys
    BY <2>1 DEF Changes, Few, Fields, ShowsSame
  <2>3. QED
    BY <2>2, FewAreHandled DEF DeskInv
<1>4. Handled(desk, desk')
  BY <1>2, <1>3 DEF Switches
<1>5. QED
  BY <1>1, <1>4, HandledKeeps DEF DeskInv

LEMMA ManagesKeep == ASSUME DeskInv, NEW whom, Manages(whom) PROVE DeskInv'
<1>1. QueueOK(desk) /\ ContactsInv(desk) /\ stored' = stored /\ lists' = lists
  BY DEF DeskInv, Inv, Manages
<1>2. ASSUME NEW password, NewPasswordOk(password) PROVE Handled(desk, desk')
  BY <1>1, <1>2, PasswordChangedIsHandled DEF NewPasswordOk
<1>3. ASSUME ChangeProfilePasswd PROVE Handled(desk, desk')
  <2>1. Changes(desk, desk', {"dialogs"})
    BY <1>1, <1>3 DEF ChangeProfilePasswd, QueueOK, Changes, IsDesk, Fields
  <2>2. Changes(desk, desk', Few) /\ ShowsSame(desk, desk') /\ desk'.publicKeys = desk.publicKeys
    BY <2>1 DEF Changes, Few, Fields, ShowsSame
  <2>3. QED
    BY <2>2, FewAreHandled DEF DeskInv
<1>4. ASSUME CreateProfile PROVE Handled(desk, desk')
  BY <1>1, <1>4, ProfileCreatedIsHandled DEF CreateProfile
<1>5. ASSUME DeleteProfile PROVE Handled(desk, desk')
  BY <1>1, <1>5, ProfileDeletedIsHandled DEF DeleteProfile
<1>6. ASSUME NEW p, NEW how, EditContactOk(p, how) PROVE Handled(desk, desk')
  BY <1>1, <1>6, ContactEditedIsHandled DEF EditContactOk
<1>7. ASSUME NEW p, RemoveContactButtonClicked(p) PROVE Handled(desk, desk')
  BY <1>1, <1>7, ContactEditedIsHandled DEF RemoveContactButtonClicked
<1>8. ASSUME PublishProfileButtonClicked PROVE Handled(desk, desk')
  <2>1. Changes(desk, desk', {"profiles", "behind"})
    BY <1>1, <1>8, PublishProfileChanges DEF PublishProfileButtonClicked, QueueOK
  <2>2. Changes(desk, desk', Few) /\ ShowsSame(desk, desk') /\ desk'.publicKeys = desk.publicKeys
    BY <2>1 DEF Changes, Few, Fields, ShowsSame
  <2>3. QED
    BY <2>2, FewAreHandled DEF DeskInv
<1>9. ASSUME IsPrivateSettingChanged PROVE Handled(desk, desk')
  <2>1. /\ desk.selected # NoProfile
        /\ Changes(desk, desk', {"selected"})
        /\ desk'.selected.iFingerPrint = desk.selected.iFingerPrint
    <3> DEFINE private == ~desk.selected.iIsPrivate
    <3>1. desk' = [desk EXCEPT !.selected = [@ EXCEPT !.iIsPrivate = private]]
      BY <1>9, Zenon DEF IsPrivateSettingChanged
    <3> HIDE DEF private
    <3>2. desk.selected # NoProfile
      BY <1>9 DEF IsPrivateSettingChanged
    <3> DEFINE changed == [desk.selected EXCEPT !.iIsPrivate = private]
    <3>3. desk' = [desk EXCEPT !.selected = changed]
      BY <3>1
    <3>4. changed.iFingerPrint = desk.selected.iFingerPrint
      OBVIOUS
    <3> HIDE DEF changed
    <3>5. Changes(desk, desk', {"selected"}) /\ desk'.selected = changed
      BY <1>1, <3>3 DEF QueueOK, Changes, IsDesk, Fields
    <3>6. QED
      BY <3>2, <3>4, <3>5
  <2>2. Changes(desk, desk', Few) /\ ShowsSame(desk, desk') /\ desk'.publicKeys = desk.publicKeys
    BY <2>1 DEF Changes, Few, Fields, ShowsSame
  <2>3. QED
    BY <2>2, FewAreHandled DEF DeskInv
<1>10. Handled(desk, desk')
  BY <1>2, <1>3, <1>4, <1>5, <1>6, <1>7, <1>8, <1>9 DEF Manages
<1>11. QED
  BY <1>1, <1>10, HandledKeeps DEF DeskInv

\* A list is filled with the comments of another profile.
LEMMA ViewedFilled ==
    ASSUME NEW s, NEW st, NEW ls, Inv(s, st, ls), NEW p, NEW now,
           now = [ls EXCEPT !.viewed = CommentSearch(@, p, st)]
    PROVE  Inv(s, st, now)
<1>1. now = [own |-> ls.own, viewed |-> CommentSearch(ls.viewed, p, st), messages |-> ls.messages]
  BY DEF Inv, ListsOK
<1>2. CommentsOK(CommentSearch(ls.viewed, p, st), st, s)
  BY CommentsFilled DEF Inv
<1>3. QED
  BY <1>1, <1>2 DEF Inv, ListsOK
\* The list of messages is filled anew.
LEMMA MessagesRefilled ==
    ASSUME NEW s, NEW st, NEW ls, Inv(s, st, ls), NEW p \in People \cup {Nobody} \cup Things,
           s.selected # NoProfile => s.selected.iFingerPrint = p,
           ~SelectionPending(s) => p = s.profileInUse,
           NEW now, now = [ls EXCEPT !.messages = MessageSearch(@, p, s.profileInUse, st)]
    PROVE  Inv(s, st, now)
<1> DEFINE filled == MessageSearch(ls.messages, p, s.profileInUse, st)
<1>1. now = [own |-> ls.own, viewed |-> ls.viewed, messages |-> filled]
  BY DEF Inv, ListsOK
<1>2. s.profileInUse \in Mine \cup {Nobody}
  BY DEF Inv, ContactsInv, KeptBut
<1>3. MessagesOK(filled, st, s)
  BY <1>2, MessagesFilled DEF Inv
<1> HIDE DEF filled
<1>4. QED
  BY <1>1, <1>3 DEF Inv, ListsOK

\* A window that shows another profile, with a list of messages that follows it.
LEMMA WindowFollows ==
    ASSUME NEW s, NEW st, NEW ls, QueueOK(s), KeptBut(s, {}), StoredOK(st),
           LastIsInUse(s), EventsOK(s, st),
           CommentsOK(ls.own, st, s), CommentsOK(ls.viewed, st, s),
           NEW p \in People \cup {Nobody} \cup Things, ~SelectionPending(s) => p = s.profileInUse,
           NEW t, t = UserProfileSelected(s, p),
           NEW now, \/ now.own = ls.own \/ now.own = CommentSearch(ls.own, p, st),
           now.viewed = ls.viewed,
           now.messages = MessageSearch(ls.messages, p, s.profileInUse, st),
           now = [own |-> now.own, viewed |-> now.viewed, messages |-> now.messages]
    PROVE  Inv(t, st, now)
<1>1. /\ QueueOK(t) /\ ContactsInv(t) /\ Changes(s, t, Apart)
      /\ t.selected = Shown(s, p) /\ Shown(s, p).iFingerPrint = p
  BY UserProfileSelectedKeeps
<1>2. t.events = s.events /\ t.profileInUse = s.profileInUse
  BY <1>1 DEF Changes, Apart, Fields
<1>3. /\ Items(t) = Items(s) /\ LastIsInUse(t) /\ SelectionPending(t) = SelectionPending(s)
      /\ \A kind, f : Told(t, kind, f) = Told(s, kind, f)
  BY <1>2 DEF Items, LastIsInUse, SelectionPending, Told
<1>4. EventsOK(t, st)
  BY <1>3 DEF EventsOK
<1>5. CommentsOK(ls.own, st, t) /\ CommentsOK(ls.viewed, st, t)
  BY <1>3 DEF CommentsOK
<1>6. CommentsOK(CommentSearch(ls.own, p, st), st, t)
  BY CommentsFilled
<1>7. t.selected # NoProfile => t.selected.iFingerPrint = p
  BY <1>1
<1>8. t.profileInUse \in Mine \cup {Nobody}
  BY <1>1 DEF ContactsInv, KeptBut
<1>9. MessagesOK(MessageSearch(ls.messages, p, t.profileInUse, st), st, t)
  BY <1>2, <1>3, <1>7, <1>8, MessagesFilled
<1>10. ListsOK(now, st, t)
  BY <1>2, <1>3, <1>4, <1>5, <1>6, <1>9 DEF ListsOK
<1>11. QED
  BY <1>1, <1>10 DEF Inv

LEMMA ViewsKeep == ASSUME DeskInv, NEW whom, Views(whom) PROVE DeskInv'
<1>1. Inv(desk, stored, lists)
  BY DEF DeskInv
<1>2. CASE ProfileReverted
  <2>1. /\ desk' = UserProfileSelected(desk, desk.profileInUse) /\ stored' = stored
        /\ lists' = [lists EXCEPT !.messages =
                       MessageSearch(@, desk.profileInUse, desk.profileInUse, stored)]
    BY <1>2 DEF ProfileReverted, RevertProfileButtonClicked
  <2>2. desk.profileInUse \in People \cup {Nobody} \cup Things
    BY <1>1, NobodyIsNotMine DEF Inv, ContactsInv, KeptBut
  <2>3. /\ lists'.own = lists.own /\ lists'.viewed = lists.viewed
        /\ lists'.messages =
              MessageSearch(lists.messages, desk.profileInUse, desk.profileInUse, stored)
        /\ lists' = [own |-> lists'.own, viewed |-> lists'.viewed, messages |-> lists'.messages]
    BY <1>1, <2>1 DEF Inv, ListsOK
  <2>4. Inv(desk', stored, lists')
    BY <1>1, <2>1, <2>2, <2>3, WindowFollows DEF Inv, ListsOK, ContactsInv
  <2>5. QED
    BY <2>1, <2>4 DEF DeskInv
<1>3. ASSUME NEW p, DetailsViewed(p) PROVE DeskInv'
  <2>1. /\ desk' = ShowDetailsOfProfile(desk, p) /\ stored' = stored
        /\ lists' = [lists EXCEPT !.viewed = CommentSearch(@, p, stored)]
    BY <1>3 DEF DetailsViewed, ViewProfileDetails
  <2>2. Handled(desk, desk')
    BY <1>1, <2>1, ShowDetailsIsHandled DEF Inv
  <2>3. Inv(desk', stored, lists)
    BY <1>1, <2>2, HandledKeeps
  <2>4. Inv(desk', stored, lists')
    BY <2>1, <2>3, ViewedFilled
  <2>5. QED
    BY <2>1, <2>4 DEF DeskInv
<1>4. QED
  BY <1>2, <1>3 DEF Views

-----------------------------------------------------------------------------
LEMMA ProfilesArriveKeep == ASSUME DeskInv, NEW whom, whom \subseteq People, NEW trusted,
                                   ProfilesArrive(whom, trusted)
                            PROVE  DeskInv'
<1>1. Inv(desk, stored, lists) /\ stored' = stored /\ lists' = lists
  BY DEF DeskInv, ProfilesArrive
<1>2. PICK p \in whom, list \in trusted : ProfileArrives(p, list)
  BY DEF ProfilesArrive
<1> DEFINE known == InsertOrUpdatePublicKey(desk, p, p)
           profile == [iTrustList |-> list, iIsPrivate |-> FALSE]
           behind == desk.behind \cup Overtaken(desk, p, list, TRUE)
           read == [known EXCEPT !.profiles = With(@, p, profile), !.behind = behind]
           e == [kind |-> "profile", of |-> p]
<1>3. desk' = [known EXCEPT !.profiles = With(@, p, profile), !.behind = behind,
                            !.events = Append(@, e)]
  <2>1. known.behind = desk.behind
    BY <1>1 DEF InsertOrUpdatePublicKey, Inv, QueueOK, IsDesk, Fields
  <2>2. desk' = [known EXCEPT !.profiles = With(@, p, profile),
                              !.behind = known.behind \cup Overtaken(desk, p, list, TRUE),
                              !.events = Append(@, e)]
    BY <1>2, Zenon DEF ProfileArrives
  <2>3. QED
    BY <2>1, <2>2
<1>4. Changes(desk, known, {"publicKeys"}) /\ desk.publicKeys \subseteq known.publicKeys
  BY <1>1, InsertPublicKeyChanges DEF Inv, QueueOK
<1>5. e \in DeskEvent /\ e.kind = "profile"
  BY <1>2 DEF DeskEvent
<1> HIDE DEF known, profile, behind, e
<1>6. /\ Changes(known, read, {"profiles", "behind"})
      /\ Changes(read, desk', {"events"}) /\ desk'.events = Append(read.events, e)
  BY <1>3, <1>4 DEF Changes, IsDesk, Fields
<1> HIDE DEF read
<1>7. Changes(desk, read, Few) /\ ShowsSame(desk, read) /\ desk.publicKeys \subseteq read.publicKeys
  BY <1>4, <1>6 DEF Changes, Few, Fields, ShowsSame
<1>8. Inv(read, stored, lists)
  BY <1>1, <1>7, FewAreHandled, HandledKeeps
<1>9. Inv(desk', stored, lists)
  BY <1>5, <1>6, <1>8, OtherEventKeeps
<1>10. QED
  BY <1>1, <1>9 DEF DeskInv
LEMMA NotifiedChanges ==
    ASSUME NEW s, IsDesk(s), NEW kind, NEW f
    PROVE  LET t == Notified(s, kind, f) IN
           Changes(s, t, {"events"}) /\ t.events = Append(s.events, [kind |-> kind, of |-> f])
BY DEF Changes, IsDesk, Fields, Notified

\* A comment or a message is stored and notified, once or more.
LEMMA ItemTold ==
    ASSUME NEW s, NEW st, NEW ls, Inv(s, st, ls), NEW f \in Things, f \notin DOMAIN st,
           NEW item, ItemOK(f, item), item.type \in {"comment", "message"},
           item.type = "message" => item.sender # s.profileInUse,
           NEW v, v = s \/ v = Notified(s, item.type, f),
           NEW t, t = Notified(v, item.type, f)
    PROVE  Inv(t, With(st, f, item), ls)
<1> DEFINE after == With(st, f, item)
           e == [kind |-> item.type, of |-> f]
<1>1. /\ StoredOK(after)
      /\ ListedItems(after) = ListedItems(st) \cup {f} /\ f \notin ListedItems(st)
      /\ after[f] = item /\ \A g \in ListedItems(st) : after[g] = st[g]
  BY ItemAdded DEF Inv, IsListed
<1>2. e \in DeskEvent /\ e.kind = item.type /\ e.of = f
  BY DEF DeskEvent
<1> HIDE DEF after
<1>3. v = s \/ (Changes(s, v, {"events"}) /\ v.events = Append(s.events, e))
  BY NotifiedChanges DEF Inv, QueueOK
<1>4. IsDesk(v)
  BY <1>3 DEF Changes, Inv, QueueOK
<1>5. Changes(v, t, {"events"}) /\ t.events = Append(v.events, e)
  BY <1>4, NotifiedChanges
<1> HIDE DEF e
<1>6. /\ s.events \in Seq(DeskEvent) /\ LastIsInUse(s)
      /\ e.kind # "selected" /\ e.kind \in {"comment", "message"}
  BY <1>2 DEF Inv, QueueOK, ListsOK
<1>7. /\ v.events \in Seq(DeskEvent) /\ SelectionPending(v) = SelectionPending(s)
      /\ LastIsInUse(v) /\ v.profileInUse = s.profileInUse
      /\ \A x \in Items(s) : x \in Items(v)
      /\ \A x \in Items(v) : x \in Items(s) \/ x = e
  <2>1. CASE v = s
    BY <1>6, <2>1
  <2>2. CASE Changes(s, v, {"events"}) /\ v.events = Append(s.events, e)
    <3>1. v.profileInUse = s.profileInUse
      BY <2>2 DEF Changes, Fields
    <3>2. QED
      BY <1>2, <1>6, <2>2, <3>1, EventAppended
  <2>3. QED
    BY <1>3, <2>1, <2>2
<1>8. t.profileInUse = v.profileInUse
  BY <1>5 DEF Changes, Fields
<1>9. /\ t.events \in Seq(DeskEvent) /\ SelectionPending(t) = SelectionPending(v)
      /\ LastIsInUse(t) /\ e \in Items(t)
      /\ \A x \in Items(v) : x \in Items(t)
      /\ \A x \in Items(t) : x \in Items(v) \/ x = e
  BY <1>2, <1>5, <1>6, <1>7, <1>8, EventAppended
<1>10. Changes(s, t, {"events"})
  BY <1>3, <1>5 DEF Changes, Fields
<1>11. /\ t.publicKeys = s.publicKeys /\ t.made = s.made /\ t.spoiled = s.spoiled
       /\ t.privateKeys = s.privateKeys /\ t.generated = s.generated
       /\ t.privateData = s.privateData /\ t.profileInUse = s.profileInUse
       /\ t.selected = s.selected /\ t.contacts = s.contacts
       /\ t.contentKeyPasswd = s.contentKeyPasswd
  BY <1>10 DEF Changes, Fields
<1>12. QueueOK(t) /\ KeptBut(t, {}) /\ ShownAreMade(t)
  BY <1>7, <1>9, <1>10, <1>11, SameKept, SameShown DEF QueueOK, Changes, Inv, ContactsInv
<1>13. SameMessages(s, t)
  BY <1>7, <1>9, <1>11 DEF SameMessages, ShowsSame, Opens, PrivateKey, PrivateKeyFromPem
<1>14. EventsOK(t, after)
  <2>1. \A x \in Items(s) : x.of \in ListedItems(after) /\ after[x.of].type = x.kind
    BY <1>1 DEF Inv, ListsOK, EventsOK
  <2>2. QED
    BY <1>1, <1>2, <1>7, <1>9, <2>1 DEF EventsOK
<1>15. Told(t, item.type, f)
  BY <1>9 DEF Told, e
<1>16. \A g \in ListedItems(after) \ ListedItems(st) :
              /\ Told(t, after[g].type, g)
              /\ after[g].type = "message" => after[g].sender # s.profileInUse
  BY <1>1, <1>15
<1>17. ListsOK(ls, after, t)
  <2>1. ListsOK(ls, st, s) /\ \A x \in Items(s) : x \in Items(t)
    BY <1>7, <1>9 DEF Inv
  <2>2. QED
    BY <1>1, <1>9, <1>13, <1>14, <1>16, <2>1, ListsStay
<1>18. QED
  BY <1>1, <1>12, <1>17 DEF Inv, ContactsInv, after

LEMMA ItemsArriveKeep == ASSUME DeskInv, NEW type \in {"comment", "message"},
                                ItemsArrive(type, People, People \ Mine)
                         PROVE  DeskInv'
<1>1. PICK p \in People, q \in People \ Mine : ItemArrives(type, p, q)
  BY DEF ItemsArrive
<1> DEFINE f == NewFingerPrint(stored)
           item == [type |-> type, about |-> p, sender |-> q, signer |-> q,
                    readers |-> IF type = "message" THEN {p, q} ELSE {}]
           v == IF type = "message" THEN Notified(desk, type, f) ELSE desk
<1>2. /\ Fresh(stored) # {} /\ lists' = lists
      /\ stored' = With(stored, f, item)
      /\ desk' = Notified(v, type, f)
  BY <1>1 DEF ItemArrives
<1>3. f \in Things /\ f \notin DOMAIN stored /\ f \notin FileContents
  BY <1>2, NewIsFresh
<1>4. item.type = type /\ item.sender = q /\ ItemOK(f, item)
  BY <1>3 DEF ItemOK
<1>5. q # desk.profileInUse
  BY KeysAssumption DEF DeskInv, Inv, ContactsInv, KeptBut
<1>6. v = desk \/ v = Notified(desk, type, f)
  OBVIOUS
<1> HIDE DEF f, item, v
<1>7. Inv(desk', stored', lists)
  BY <1>2, <1>3, <1>4, <1>5, <1>6, ItemTold DEF DeskInv
<1>8. QED
  BY <1>2, <1>7 DEF DeskInv

LEMMA ReadingIsHandled ==
    ASSUME NEW s, NEW st, NEW ls, Inv(s, st, ls), NEW f
    PROVE  Handled(s, AfterReading(s, st, f))
<1> DEFINE t == AfterReading(s, st, f)
<1>1. IsDesk(s)
  BY DEF Inv, QueueOK
<1>2. Changes(s, t, {"publicKeys"}) /\ s.publicKeys \subseteq t.publicKeys
  <2>1. t = s \/ t = InsertOrUpdatePublicKey(s, st[f].sender, st[f].sender)
    BY DEF AfterReading, KeyOfSender
  <2> HIDE DEF t
  <2>2. Changes(s, s, {"publicKeys"})
    BY <1>1 DEF Changes
  <2>3. QED
    BY <1>1, <2>1, <2>2, InsertPublicKeyChanges
<1> HIDE DEF t
<1>3. Changes(s, t, Few) /\ ShowsSame(s, t)
  BY <1>2 DEF Changes, Few, Fields, ShowsSame
<1>4. Handled(s, t)
  BY <1>2, <1>3, FewAreHandled
<1>5. QED
  BY <1>4 DEF t
LEMMA CommentPublished ==
    ASSUME NEW s, NEW st, NEW ls, Inv(s, st, ls), Fresh(st) # {},
           NEW about, NEW sender, NEW private,
           NEW r, r = PublishProfileComment(s, st, about, sender, sender, private)
    PROVE  /\ Inv(r.desk, r.stored, ls)
           /\ r.made # None => r.made \in CommentsAbout(r.stored, about)
<1> DEFINE f == NewFingerPrint(st)
<1>1. \/ r.made = None /\ r.desk = s /\ r.stored = st
      \/ /\ r.made = f /\ r.desk = Notified(s, "comment", f)
         /\ \E item : /\ item.type = "comment" /\ item.about = about
                      /\ item.sender = sender /\ item.signer = sender
                      /\ r.stored = With(st, f, item)
  BY CommentMade
<1>2. f \in Things /\ f \notin DOMAIN st /\ f \notin FileContents
  BY NewIsFresh
<1> HIDE DEF f
<1>4. CASE r.made = None /\ r.desk = s /\ r.stored = st
  BY <1>4
<1>5. ASSUME r.made = f, r.desk = Notified(s, "comment", f),
             NEW item, item.type = "comment", item.about = about,
             item.sender = sender, item.signer = sender, r.stored = With(st, f, item)
      PROVE  Inv(r.desk, r.stored, ls) /\ r.made \in CommentsAbout(r.stored, about)
  <2>1. ItemOK(f, item)
    BY <1>2, <1>5 DEF ItemOK
  <2>3. Inv(r.desk, r.stored, ls)
    BY <1>2, <1>5, <2>1, ItemTold
  <2>4. f \in DOMAIN r.stored /\ r.stored[f] = item
    BY <1>5 DEF With
  <2>5. QED
    BY <1>5, <2>3, <2>4 DEF CommentsAbout
<1>6. QED
  BY <1>1, <1>4, <1>5

LEMMA CommentWrittenKeeps == ASSUME DeskInv, NEW about, CommentWritten(about) PROVE DeskInv'
<1> DEFINE self == desk.selected.iFingerPrint
           r == PublishProfileComment(desk, stored, about, self, self, FALSE)
           f == r.made
<1>1. /\ Fresh(stored) # {} /\ desk' = r.desk /\ stored' = r.stored
      /\ lists' = IF f # None
                  THEN [lists EXCEPT !.viewed = CommentListed(@, f, about)] ELSE lists
  BY DEF CommentWritten
<1>2. Inv(desk, stored, lists)
  BY DEF DeskInv
<1>3. Inv(desk', stored', lists) /\ (f # None => f \in CommentsAbout(stored', about))
  BY <1>1, <1>2, CommentPublished
<1> HIDE DEF f, r
<1>4. CASE f = None
  BY <1>1, <1>3, <1>4 DEF DeskInv
<1>5. CASE f # None
  <2> DEFINE now == CommentListed(lists.viewed, f, about)
  <2>1. lists' = [own |-> lists.own, viewed |-> now, messages |-> lists.messages]
    BY <1>1, <1>2, <1>5 DEF Inv, ListsOK
  <2>2. CommentsOK(lists.viewed, stored', desk') /\ StoredOK(stored')
    BY <1>3 DEF Inv, ListsOK
  <2>3. CommentsOK(now, stored', desk')
    <3>1. CASE about = lists.viewed.search /\ ~HasRow(lists.viewed, f)
      <4>1. now = Appended(lists.viewed, [fp |-> f, updated |-> TRUE])
        BY <3>1 DEF CommentListed
      <4>2. f \in CommentsAbout(stored', lists.viewed.search)
        BY <1>3, <1>5, <3>1
      <4>3. LET added == Appended(lists.viewed, [fp |-> f, updated |-> TRUE])
                after == IF TRUE THEN added ELSE Armed(added)
            IN CommentsOK(after, stored', desk')
        BY <2>2, <3>1, <4>2, CommentAdded
      <4>4. QED
        BY <4>1, <4>3
    <3>2. CASE ~(about = lists.viewed.search /\ ~HasRow(lists.viewed, f))
      <4>1. now = lists.viewed
        BY <3>2 DEF CommentListed
      <4>2. QED
        BY <2>2, <4>1
    <3>3. QED
      BY <3>1, <3>2
  <2> HIDE DEF now
  <2>4. QED
    BY <1>3, <2>1, <2>3 DEF DeskInv, Inv, ListsOK
<1>6. QED
  BY <1>4, <1>5

LEMMA MessageWrittenKeeps == ASSUME DeskInv, NEW to, MessageWritten(to) PROVE DeskInv'
<1> DEFINE self == desk.selected.iFingerPrint
           r == PublishPrivMessage(desk, stored, to, self)
           f == NewFingerPrint(stored)
           Item1(readers) == [type |-> "message", about |-> to, sender |-> self,
                              signer |-> self, readers |-> readers]
           added == Appended(lists.messages, [fp |-> r.made, sender |-> self])
<1>1. /\ desk.selected # NoProfile
      /\ Fresh(stored) # {} /\ desk' = r.desk /\ stored' = r.stored
      /\ lists' = [lists EXCEPT !.messages = added]
  BY DEF MessageWritten
<1>2. /\ r.desk = desk
      /\ \/ r.made = None /\ r.stored = stored
         \/ /\ r.made = f /\ Sign(desk, self)
            /\ \E readers : r.stored = With(stored, f, Item1(readers))
  BY MessageMade
<1>3. /\ f \in Things /\ f \notin DOMAIN stored /\ f \notin FileContents /\ f # None
  BY <1>1, NewIsFresh
<1>4. \A readers : /\ Item1(readers).type = "message" /\ Item1(readers).sender = self
                   /\ self \in People => ItemOK(f, Item1(readers))
  BY <1>3 DEF ItemOK
<1> DEFINE g == r.made
<1>5. added = Appended(lists.messages, [fp |-> g, sender |-> self])
  OBVIOUS
<1> HIDE DEF r, f, Item1, added, g
<1>6. Inv(desk, stored, lists)
  BY DEF DeskInv
<1>7. /\ MessagesOK(lists.messages, stored, desk) /\ self = lists.messages.search
      /\ self \in People \cup {Nobody} \cup Things
      /\ CommentsOK(lists.own, stored, desk) /\ CommentsOK(lists.viewed, stored, desk)
      /\ lists = [own |-> lists.own, viewed |-> lists.viewed, messages |-> lists.messages]
  BY <1>1, <1>6 DEF Inv, ListsOK, MessagesOK
<1>8. Sign(desk, self) => self \in People /\ self # Nobody
  <2>1. DOMAIN desk.privateKeys \subseteq Mine
    BY <1>6 DEF Inv, ContactsInv, KeptBut
  <2>2. QED
    BY <2>1, NobodyIsNotMine DEF Sign, Opens, PrivateKey
\* What is stored, and the row that is listed.
<1>9. /\ StoredOK(stored') /\ CommentsOK(lists.own, stored', desk)
      /\ CommentsOK(lists.viewed, stored', desk)
      /\ EventsOK(desk, stored') /\ MessagesOK(added, stored', desk)
  <2>1. CASE g = None /\ r.stored = stored
    <3>1. g \notin ListedItems(stored) /\ stored' = stored
      BY <1>1, <1>6, <2>1, ItemsAssumption DEF Inv, StoredOK, ListedItems
    <3>2. MessagesOK(added, stored, desk)
      BY <1>5, <1>7, <2>1, <3>1, MessageRowAppended
    <3>3. QED
      BY <1>6, <1>7, <3>1, <3>2 DEF Inv, ListsOK
  <2>2. ASSUME g = f, Sign(desk, self), NEW readers, r.stored = With(stored, f, Item1(readers))
        PROVE  <1>9!:
    <3> DEFINE item == Item1(readers)
    <3>1. item.type = "message" /\ item.sender = self /\ ItemOK(f, item) /\ IsListed(item)
      BY <1>4, <1>8, <2>2 DEF IsListed
    <3> HIDE DEF item
    <3>2. stored' = With(stored, f, item)
      BY <1>1, <2>2 DEF item
    <3>3. /\ StoredOK(stored')
          /\ ListedItems(stored') = ListedItems(stored) \cup {f} /\ f \notin ListedItems(stored)
          /\ stored'[f] = item /\ \A x \in ListedItems(stored) : stored'[x] = stored[x]
      BY <1>3, <1>6, <3>1, <3>2, ItemAdded DEF Inv
    <3>4. CommentsOK(lists.own, stored', desk) /\ CommentsOK(lists.viewed, stored', desk)
      BY <1>7, <3>1, <3>3, CommentsStay
    <3>5. EventsOK(desk, stored')
      BY <1>6, <3>3 DEF Inv, ListsOK, EventsOK
    <3>6. f \notin Listed(lists.messages)
      BY <1>7, <3>3 DEF MessagesOK
    <3>7. ~SelectionPending(desk) => f \in MessagesOf(stored', desk.profileInUse)
      <4>1. ~SelectionPending(desk) => self = desk.profileInUse
        BY <1>7 DEF MessagesOK
      <4>2. f \in DOMAIN stored'
        BY <3>3 DEF ListedItems
      <4>3. QED
        BY <3>1, <3>3, <4>1, <4>2 DEF MessagesOf
    <3>8. MessagesOK(added, stored', desk)
      BY <1>3, <1>5, <1>7, <1>8, <2>2, <3>1, <3>3, <3>6, <3>7, MessageRowAppended
    <3>9. QED
      BY <3>3, <3>4, <3>5, <3>8
  <2>3. QED
    BY <1>2, <2>1, <2>2 DEF g
<1>10. lists' = [own |-> lists.own, viewed |-> lists.viewed, messages |-> added]
  BY <1>1, <1>7
<1>11. desk' = desk
  BY <1>1, <1>2
<1>12. Inv(desk, stored', lists')
  BY <1>6, <1>9, <1>10 DEF Inv, ListsOK
<1>13. QED
  BY <1>11, <1>12 DEF DeskInv
LEMMA MessageShownKeeps == ASSUME DeskInv, NEW f, MessageShown(f) PROVE DeskInv'
<1> DEFINE read == AfterReading(desk, stored, f)
           named == OfferDisplayNameForProfile(read, stored[f].sender)
<1>1. Inv(desk, stored, lists)
  BY DEF DeskInv
<1>2. stored' = stored /\ lists' = lists /\ (desk' = read \/ desk' = named)
  BY DEF MessageShown
<1>3. Inv(read, stored, lists)
  BY <1>1, ReadingIsHandled, HandledKeeps
<1> HIDE DEF read
<1>4. QueueOK(read) /\ KeptBut(read, {read.profileInUse}) /\ ShownAreMade(read)
  BY <1>3 DEF Inv, ContactsInv, KeptBut
<1>5. named = read \/ Handled(read, named)
  BY <1>4, OfferNameIsHandled
<1> HIDE DEF named
<1>6. Inv(named, stored, lists)
  BY <1>3, <1>5, HandledKeeps
<1>7. QED
  BY <1>2, <1>3, <1>6 DEF DeskInv

LEMMA WritesKeep == ASSUME DeskInv, NEW about, NEW to, Writes(about, to) PROVE DeskInv'
BY CommentWrittenKeeps, MessageWrittenKeeps, MessageShownKeeps DEF Writes

LEMMA SharesKeep == ASSUME DeskInv, Shares PROVE DeskInv'
<1>1. PICK content \in FileContents, isNew \in BOOLEAN : FileShared(content, isNew)
  BY DEF Shares
<1> DEFINE r == PublishBinaryFile(desk, stored, desk.selected, content, FALSE, {})
           published == PublishProfile(r.desk, desk.selected)
<1>2. /\ Fresh(stored) # {} /\ (desk' = published \/ desk' = r.desk)
      /\ stored' = r.stored /\ lists' = lists
  BY <1>1 DEF FileShared
<1>3. Inv(desk, stored, lists)
  BY DEF DeskInv
<1>4. r.desk = desk /\ Adds(stored, r)
  BY <1>2, <1>3, FileMade DEF Inv
<1> HIDE DEF r
<1>5. StoredOK(r.stored) /\ SameItems(stored, r.stored)
  BY <1>3, <1>4, AddsKeep DEF Inv
<1>6. Inv(desk, r.stored, lists)
  BY <1>3, <1>5, SameItemsKeep
<1>7. Changes(desk, published, {"profiles", "behind"})
  BY <1>3, <1>4, PublishProfileChanges DEF Inv, QueueOK
<1> HIDE DEF published
<1>8. Changes(desk, published, Few) /\ ShowsSame(desk, published)
      /\ desk.publicKeys \subseteq published.publicKeys
  BY <1>7 DEF Changes, Few, Fields, ShowsSame
<1>9. Inv(published, r.stored, lists)
  BY <1>6, <1>8, FewAreHandled, HandledKeeps
<1>10. QED
  BY <1>2, <1>4, <1>6, <1>9 DEF DeskInv

-----------------------------------------------------------------------------
(***************************************************************************)
(* The queue of the main thread.                                           *)
(***************************************************************************)

\* An event was taken: nothing else is as it should not be.
LEMMA NextKeeps ==
    ASSUME Inv(desk, stored, lists), desk.events # <<>>,
           NEW t, t = NextEvent, NEW e, e = Head(desk.events)
    PROVE  /\ Changes(desk, t, {"events"})
           /\ QueueOK(t) /\ KeptBut(t, {}) /\ LastIsInUse(t)
           /\ EventsOK(t, stored)
           /\ e \in DeskEvent
           /\ \A x \in Items(t) : x \in Items(desk)
           /\ \A x \in Items(desk) : x \in Items(t) \/ x = e
           /\ e.kind \in {"comment", "message"} =>
                 e.of \in ListedItems(stored) /\ stored[e.of].type = e.kind
           /\ e.kind # "selected" =>
                 SelectionPending(t) = SelectionPending(desk) /\ ShownAreMade(t)
           /\ e.kind = "selected" /\ ~SelectionPending(t) => e.of = t.profileInUse
<1>1. Changes(desk, t, {"events"}) /\ t.events = Tail(desk.events)
  BY DEF NextEvent, Inv, QueueOK, Changes, IsDesk, Fields
<1>2. desk.events \in Seq(DeskEvent) /\ LastIsInUse(desk)
  BY DEF Inv, QueueOK, ListsOK
<1>3. /\ t.publicKeys = desk.publicKeys /\ t.made = desk.made /\ t.spoiled = desk.spoiled
      /\ t.privateKeys = desk.privateKeys /\ t.generated = desk.generated
      /\ t.privateData = desk.privateData /\ t.profileInUse = desk.profileInUse
      /\ t.selected = desk.selected /\ t.contacts = desk.contacts
  BY <1>1 DEF Changes, Fields
<1>4. /\ e \in DeskEvent
      /\ t.events \in Seq(DeskEvent)
      /\ LastIsInUse(t)
      /\ \A x \in Items(t) : x \in Items(desk)
      /\ \A x \in Items(desk) : x \in Items(t) \/ x = e
      /\ e.kind \in {"comment", "message"} => e \in Items(desk)
      /\ e.kind # "selected" => SelectionPending(t) = SelectionPending(desk)
      /\ e.kind = "selected" /\ ~SelectionPending(t) => e.of = desk.profileInUse
  BY <1>1, <1>2, <1>3, EventTaken
<1>5. QueueOK(t) /\ KeptBut(t, {})
  BY <1>1, <1>3, <1>4, SameKept DEF QueueOK, Changes, Inv, ContactsInv
<1>6. EventsOK(t, stored)
  BY <1>4 DEF EventsOK, Inv, ListsOK
<1>7. e.kind # "selected" => ShownAreMade(t)
  BY <1>3, <1>4, SameShown DEF Inv, ContactsInv
<1>8. e.kind \in {"comment", "message"} =>
                 e.of \in ListedItems(stored) /\ stored[e.of].type = e.kind
  BY <1>4 DEF Inv, ListsOK, EventsOK
<1>9. QED
  BY <1>1, <1>3, <1>4, <1>5, <1>6, <1>7, <1>8

LEMMA SelectionKeeps == ASSUME DeskInv, SelectionHandled PROVE DeskInv'
<1> DEFINE t == NextEvent
           e == Head(desk.events)
           p == e.of
<1>1. /\ desk.events # <<>> /\ e.kind = "selected"
      /\ desk' = UserProfileSelected(t, p) /\ stored' = stored
      /\ lists' = [lists EXCEPT !.own = CommentSearch(@, p, stored),
                              !.messages = MessageSearch(@, p, desk.profileInUse, stored)]
  BY DEF SelectionHandled, UserProfileSelectedEvent
<1>2. Inv(desk, stored, lists)
  BY DEF DeskInv
<1> HIDE DEF t, e
<1>3. /\ Changes(desk, t, {"events"})
      /\ QueueOK(t) /\ KeptBut(t, {}) /\ LastIsInUse(t)
      /\ EventsOK(t, stored)
      /\ e \in DeskEvent
      /\ \A x \in Items(t) : x \in Items(desk)
      /\ \A x \in Items(desk) : x \in Items(t) \/ x = e
      /\ ~SelectionPending(t) => p = t.profileInUse
  BY <1>1, <1>2, NextKeeps DEF t, e
<1>4. p \in People \cup {Nobody} \cup Things
  BY <1>3 DEF DeskEvent
<1>5. \A f : Told(desk, "comment", f) => Told(t, "comment", f)
  BY <1>1, <1>3 DEF Told
<1>6. CommentsOK(lists.own, stored, t) /\ CommentsOK(lists.viewed, stored, t)
  BY <1>2, <1>5 DEF Inv, ListsOK, CommentsOK
<1>7. t.profileInUse = desk.profileInUse
  BY <1>3 DEF Changes, Fields
<1>8. /\ lists'.own = CommentSearch(lists.own, p, stored) /\ lists'.viewed = lists.viewed
      /\ lists'.messages = MessageSearch(lists.messages, p, desk.profileInUse, stored)
      /\ lists' = [own |-> lists'.own, viewed |-> lists'.viewed, messages |-> lists'.messages]
  BY <1>1, <1>2 DEF Inv, ListsOK
<1>9. Inv(desk', stored, lists')
  BY <1>1, <1>2, <1>3, <1>4, <1>6, <1>7, <1>8, WindowFollows DEF Inv
<1>10. QED
  BY <1>1, <1>9 DEF DeskInv

LEMMA ProfileEventKeeps ==
    ASSUME DeskInv, NEW tabIsOpen, ProfileEventHandled(tabIsOpen) PROVE DeskInv'
<1> DEFINE t == NextEvent
           p == Head(desk.events).of
           filled == [lists EXCEPT !.viewed = CommentSearch(@, p, stored)]
<1>1. /\ desk.events # <<>> /\ Head(desk.events).kind = "profile"
      /\ desk' = ProfileNotified(t, p, tabIsOpen) /\ stored' = stored
      /\ lists' = filled \/ lists' = lists
  BY DEF ProfileEventHandled, ContentReceivedEvent
<1>2. Inv(desk, stored, lists)
  BY DEF DeskInv
<1>3. Changes(desk, t, {"events"}) /\ t.events = Tail(desk.events)
  BY <1>2 DEF NextEvent, Inv, QueueOK, Changes, IsDesk, Fields
<1> HIDE DEF t
<1>4. Inv(t, stored, lists)
  BY <1>1, <1>2, <1>3, OtherEventKeeps
<1>5. Handled(t, desk')
  BY <1>1, <1>4, ProfileNotifiedIsHandled DEF Inv
<1>6. Inv(desk', stored, lists)
  BY <1>4, <1>5, HandledKeeps
<1>7. Inv(desk', stored, filled)
  BY <1>6, ViewedFilled
<1>8. QED
  BY <1>1, <1>6, <1>7 DEF DeskInv
LEMMA RecordEventKeeps == ASSUME DeskInv, RecordEventHandled PROVE DeskInv'
<1>1. /\ desk.events # <<>> /\ Head(desk.events).kind = "record"
      /\ desk' = NextEvent /\ stored' = stored /\ lists' = lists
      /\ Inv(desk, stored, lists)
  BY DEF RecordEventHandled, DeskInv
<1>2. Changes(desk, desk', {"events"}) /\ desk'.events = Tail(desk.events)
  BY <1>1 DEF NextEvent, Inv, QueueOK, Changes, IsDesk, Fields
<1>3. Inv(desk', stored, lists)
  BY <1>1, <1>2, OtherEventKeeps
<1>4. QED
  BY <1>1, <1>3 DEF DeskInv

LEMMA CommentEventKeeps == ASSUME DeskInv, CommentEventHandled PROVE DeskInv'
<1> DEFINE t == NextEvent
           e == Head(desk.events)
           f == e.of
           own == NewCommentReceived(lists.own, f, stored[f].about)
           viewed == NewCommentReceived(lists.viewed, f, stored[f].about)
<1>1. /\ desk.events # <<>> /\ e.kind = "comment"
      /\ desk' = t /\ stored' = stored
      /\ lists' = [lists EXCEPT !.own = own, !.viewed = viewed]
  BY DEF CommentEventHandled
<1>2. Inv(desk, stored, lists)
  BY DEF DeskInv
<1> HIDE DEF t, e
<1>3. /\ Changes(desk, t, {"events"})
      /\ QueueOK(t) /\ KeptBut(t, {}) /\ LastIsInUse(t)
      /\ EventsOK(t, stored)
      /\ e \in DeskEvent
      /\ \A x \in Items(desk) : x \in Items(t) \/ x = e
      /\ f \in ListedItems(stored) /\ stored[f].type = "comment"
      /\ SelectionPending(t) = SelectionPending(desk) /\ ShownAreMade(t)
  BY <1>1, <1>2, NextKeeps DEF t, e
<1>4. e = [kind |-> "comment", of |-> f]
  BY <1>1, <1>3 DEF DeskEvent
<1>5. \A g : Told(desk, "comment", g) => g = f \/ Told(t, "comment", g)
  BY <1>3, <1>4 DEF Told
<1>6. \A g : Told(desk, "message", g) => Told(t, "message", g)
  BY <1>3, <1>4 DEF Told
<1> HIDE DEF f, own, viewed
<1>7. CommentsOK(own, stored, t) /\ CommentsOK(viewed, stored, t)
  BY <1>2, <1>3, <1>5, CommentReceived DEF Inv, ListsOK, own, viewed
<1>8. SameMessages(desk, t)
  BY <1>3 DEF Changes, Fields, SameMessages, ShowsSame, Opens, PrivateKey, PrivateKeyFromPem
<1>9. MessagesOK(lists.messages, stored, t)
  <2>1. MessagesOK(lists.messages, stored, desk)
    BY <1>2 DEF Inv, ListsOK
  <2>2. QED
    BY <1>6, <1>8, <2>1, MessagesStay
<1>10. lists' = [own |-> own, viewed |-> viewed, messages |-> lists.messages]
  BY <1>1, <1>2 DEF Inv, ListsOK
<1>11. Inv(t, stored, lists')
  BY <1>2, <1>3, <1>7, <1>9, <1>10 DEF Inv, ListsOK, ContactsInv
<1>12. QED
  BY <1>1, <1>11 DEF DeskInv

LEMMA MessageEventKeeps == ASSUME DeskInv, MessageEventHandled PROVE DeskInv'
<1> DEFINE t == NextEvent
           e == Head(desk.events)
           f == e.of
           after == NewMsgReceived(lists.messages, f, stored[f].about, desk.profileInUse)
<1>1. /\ desk.events # <<>> /\ e.kind = "message"
      /\ desk' = t /\ stored' = stored
      /\ lists' = [lists EXCEPT !.messages = after]
  BY DEF MessageEventHandled
<1>2. Inv(desk, stored, lists)
  BY DEF DeskInv
<1> HIDE DEF t, e
<1>3. /\ Changes(desk, t, {"events"})
      /\ QueueOK(t) /\ KeptBut(t, {}) /\ LastIsInUse(t)
      /\ EventsOK(t, stored)
      /\ e \in DeskEvent
      /\ \A x \in Items(desk) : x \in Items(t) \/ x = e
      /\ f \in ListedItems(stored) /\ stored[f].type = "message"
      /\ SelectionPending(t) = SelectionPending(desk) /\ ShownAreMade(t)
  BY <1>1, <1>2, NextKeeps DEF t, e
<1>4. e = [kind |-> "message", of |-> f]
  BY <1>1, <1>3 DEF DeskEvent
<1>5. \A g : Told(desk, "message", g) => g = f \/ Told(t, "message", g)
  BY <1>3, <1>4 DEF Told
<1>6. \A g : Told(desk, "comment", g) => Told(t, "comment", g)
  BY <1>3, <1>4 DEF Told
<1> HIDE DEF f
<1>7. /\ ShowsSame(desk, t) /\ t.profileInUse = desk.profileInUse
      /\ t.privateKeys = desk.privateKeys /\ t.contentKeyPasswd = desk.contentKeyPasswd
  BY <1>3 DEF Changes, Fields, ShowsSame
<1>8. desk.profileInUse \in Mine \cup {Nobody}
  BY <1>2 DEF Inv, ContactsInv, KeptBut
<1>9. MessagesOK(after, stored, t)
  <2>1. MessagesOK(lists.messages, stored, desk) /\ StoredOK(stored)
    BY <1>2 DEF Inv, ListsOK
  <2>2. QED
    BY <1>3, <1>5, <1>7, <1>8, <2>1, MessageReceived
<1> HIDE DEF after
<1>10. CommentsOK(lists.own, stored, t) /\ CommentsOK(lists.viewed, stored, t)
  BY <1>2, <1>6 DEF Inv, ListsOK, CommentsOK
<1>11. lists' = [own |-> lists.own, viewed |-> lists.viewed, messages |-> after]
  BY <1>1, <1>2 DEF Inv, ListsOK
<1>12. Inv(t, stored, lists')
  BY <1>2, <1>3, <1>9, <1>10, <1>11 DEF Inv, ListsOK, ContactsInv
<1>13. QED
  BY <1>1, <1>12 DEF DeskInv

LEMMA CommentsOnIdleKeeps ==
    ASSUME DeskInv, NEW which \in {"own", "viewed"}, CommentsOnIdle(which) PROVE DeskInv'
<1> DEFINE list == lists[which]
           i == FirstOf({j \in DOMAIN list.rows : ~list.rows[j].updated})
           read == i # 0 /\ ProfileCommentByFingerPrint(desk, stored, list.rows[i].fp)
           after == CommentUpdated(list, i, read)
           t == AfterReading(desk, stored, list.rows[i].fp)
<1>1. /\ lists' = [lists EXCEPT ![which] = after]
      /\ desk' = desk \/ desk' = t
      /\ stored' = stored
  BY Zenon DEF CommentsOnIdle
<1>2. Inv(desk, stored, lists)
  BY DEF DeskInv
<1>3. CommentsOK(list, stored, desk) /\ IsDesk(desk) /\ StoredOK(stored)
  BY <1>2 DEF Inv, ListsOK, QueueOK
<1>4. CommentsOK(after, stored, desk)
  BY <1>3, CommentsIdle
<1> HIDE DEF after, list
<1>6. \/ which = "own"
         /\ lists' = [own |-> after, viewed |-> lists.viewed, messages |-> lists.messages]
      \/ which = "viewed"
         /\ lists' = [own |-> lists.own, viewed |-> after, messages |-> lists.messages]
  BY <1>1, <1>2 DEF Inv, ListsOK
<1>7. Inv(desk, stored, lists')
  BY <1>2, <1>4, <1>6 DEF Inv, ListsOK
<1>8. Inv(t, stored, lists')
  BY <1>7, ReadingIsHandled, HandledKeeps
<1>9. QED
  BY <1>1, <1>7, <1>8 DEF DeskInv

LEMMA MessagesOnIdleKeeps == ASSUME DeskInv, MessagesOnIdle PROVE DeskInv'
<1> DEFINE list == lists.messages
           i == FirstOf({j \in DOMAIN list.rows : list.rows[j].sender = Nobody})
           f == list.rows[i].fp
           after == lists'.messages
           t == AfterReading(desk, stored, f)
<1>1. Inv(desk, stored, lists)
  BY DEF DeskInv
<1>2. /\ lists' = [lists EXCEPT !.messages =
              IF i # 0 /\ MessageByFingerPrint(desk, stored, f)
              THEN MessageUpdated(@, i, TRUE, stored[f].sender)
              ELSE MessageUpdated(@, i, FALSE, Nobody)]
      /\ desk' = desk \/ desk' = t
      /\ stored' = stored
  BY Zenon DEF MessagesOnIdle
<1>3. lists = [own |-> lists.own, viewed |-> lists.viewed, messages |-> lists.messages]
  BY <1>1 DEF Inv, ListsOK
<1>4. /\ lists' = [own |-> lists.own, viewed |-> lists.viewed, messages |-> after]
      /\ IF i # 0 /\ MessageByFingerPrint(desk, stored, f)
         THEN after = MessageUpdated(list, i, TRUE, stored[f].sender)
         ELSE after = MessageUpdated(list, i, FALSE, Nobody)
  BY <1>2, <1>3
<1>5. MessagesOK(list, stored, desk) /\ IsDesk(desk) /\ StoredOK(stored)
  BY <1>1 DEF Inv, ListsOK, QueueOK
<1>6. MessagesOK(after, stored, desk)
  BY <1>4, <1>5, MessagesIdle
<1> HIDE DEF after
<1>7. Inv(desk, stored, lists')
  BY <1>1, <1>4, <1>6 DEF Inv, ListsOK
<1>8. Inv(t, stored, lists')
  BY <1>7, ReadingIsHandled, HandledKeeps
<1>9. QED
  BY <1>2, <1>7, <1>8 DEF DeskInv

LEMMA EventLoopKeeps == ASSUME DeskInv, EventLoop PROVE DeskInv'
BY SelectionKeeps, ProfileEventKeeps, CommentEventKeeps, MessageEventKeeps, RecordEventKeeps,
   CommentsOnIdleKeeps, MessagesOnIdleKeeps DEF EventLoop
-----------------------------------------------------------------------------
(***************************************************************************)
(* A program.                                                              *)
(***************************************************************************)

\* The call that runs publishes, if it does, one of the files there are.
ScriptOK ==
    /\ script = [at |-> script.at, call |-> script.call, sender |-> script.sender,
                 file |-> script.file, answer |-> script.answer]
    /\ script.at \in {"called", "named"} => script.call.content \in FileContents

ScriptInv == ScriptOK /\ FileIsItsOwners

\* What an answer does to the call.
LEMMA AnsweredKeeps ==
    ASSUME ScriptOK, NEW answer, Answered(answer),
           answer.signer # Nobody => answer.owner = answer.signer
    PROVE  ScriptInv'
<1>1. script' = [at |-> "idle", call |-> script.call, sender |-> script.sender,
                 file |-> None, answer |-> answer]
  BY DEF ScriptOK, Answered
<1>2. QED
  BY <1>1 DEF ScriptInv, ScriptOK, FileIsItsOwners

LEMMA PlainAnswers == Error.signer = Nobody /\ \A x : Ok(x).signer = Nobody
BY DEF Error, Ok

\* A call that is answered with no file.
LEMMA PlainlyAnsweredKeeps ==
    ASSUME ScriptOK, NEW condition, NEW x,
           Answered(IF condition THEN Ok(x) ELSE Error) \/ Answered(Error)
    PROVE  ScriptInv'
<1> DEFINE answer == IF condition THEN Ok(x) ELSE Error
<1>1. answer.signer = Nobody /\ Error.signer = Nobody
  BY PlainAnswers
<1> HIDE DEF answer
<1>2. Answered(answer) \/ Answered(Error)
  BY DEF answer
<1>3. QED
  BY <1>1, <1>2, AnsweredKeeps

LEMMA PublishItemKeeps ==
    ASSUME ScriptInv, NEW call \in Calls, PublishItem(call)
    PROVE  ScriptInv' /\ desk' = desk /\ stored' = stored
<1>1. desk' = desk /\ stored' = stored
  BY DEF PublishItem
<1>2. ScriptOK /\ FileIsItsOwners
  BY DEF ScriptInv
<1>3. call.content \in FileContents
  BY CommandsAssumption DEF Call
<1> DEFINE at == IF call.command = "record" THEN "named" ELSE "called"
<1>4. \/ Answered(Error) \/ Answered(Ok(None))
      \/ script' = [script EXCEPT !.call = call, !.at = at]
  BY DEF PublishItem
<1> HIDE DEF at
<1>5. CASE Answered(Error) \/ Answered(Ok(None))
  BY <1>1, <1>2, <1>5, AnsweredKeeps, PlainAnswers
<1>6. CASE script' = [script EXCEPT !.call = call, !.at = at]
  <2>1. script' = [at |-> at, call |-> call, sender |-> script.sender,
                   file |-> script.file, answer |-> script.answer]
    BY <1>2, <1>6 DEF ScriptOK
  <2>2. QED
    BY <1>1, <1>2, <1>3, <2>1 DEF ScriptInv, ScriptOK, FileIsItsOwners
<1>7. QED
  BY <1>1, <1>4, <1>5, <1>6

LEMMA SenderNamedKeeps ==
    ASSUME ScriptInv, SenderNamed
    PROVE  ScriptInv' /\ desk' = desk /\ stored' = stored
<1>1. /\ script.at = "called"
      /\ script' = [at |-> "named", call |-> script.call, sender |-> desk.profileInUse,
                    file |-> script.file, answer |-> script.answer]
      /\ desk' = desk /\ stored' = stored
  BY DEF SenderNamed, ScriptInv, ScriptOK
<1>2. QED
  BY <1>1 DEF ScriptInv, ScriptOK, FileIsItsOwners

LEMMA PublishedKeeps ==
    ASSUME ScriptInv, NEW r, Published(r)
    PROVE  ScriptInv' /\ desk' = r.desk /\ stored' = r.stored
<1>1. /\ desk' = r.desk /\ stored' = r.stored
      /\ Answered(IF r.made = None THEN Error ELSE Ok(r.made))
  BY DEF Published
<1> DEFINE answer == IF r.made = None THEN Error ELSE Ok(r.made)
<1>2. answer.signer = Nobody
  BY PlainAnswers
<1> HIDE DEF answer
<1>3. Answered(answer)
  BY <1>1 DEF answer
<1>4. QED
  BY <1>1, <1>2, <1>3, AnsweredKeeps DEF ScriptInv

\* The owner that is presumed is the one the answer names.
LEMMA GetBinaryFileDataKeeps ==
    ASSUME ScriptInv, GetBinaryFileData
    PROVE  ScriptInv' /\ desk' = desk /\ stored' = stored
<1> DEFINE f == script.file
           isFile == Stored(stored, f, "file")
           isThere == BinaryFileDataByFingerPrint(desk, stored, f, script.sender)
           found == [ok |-> TRUE, of |-> f, owner |-> script.sender,
                     signer |-> IF isFile THEN stored[f].signer ELSE Nobody]
           answer == IF isThere THEN found ELSE Error
<1>1. Answered(answer) /\ desk' = desk /\ stored' = stored
  BY DEF GetBinaryFileData
<1>2. isThere /\ isFile => stored[f].signer = script.sender
  BY DEF BinaryFileDataByFingerPrint, Verify
<1>3. /\ found.owner = script.sender
      /\ found.signer = IF isFile THEN stored[f].signer ELSE Nobody
  OBVIOUS
<1> HIDE DEF isThere, isFile, found
<1>4. answer.signer # Nobody => answer.owner = answer.signer
  BY <1>2, <1>3, PlainAnswers
<1> HIDE DEF answer
<1>5. QED
  BY <1>1, <1>4, AnsweredKeeps DEF ScriptInv
\* Whatever is published is stored as the operations of Items store it.
LEMMA CommentCmdKeeps ==
    ASSUME DeskInv, ScriptInv, PublishProfileCommentCmd, lists' = lists
    PROVE  DeskInv' /\ ScriptInv'
<1> DEFINE q == script.sender
           about == script.call.about
           private == script.call.private
           r == PublishProfileComment(desk, stored, about, q, q, private)
           none == Failed(desk, stored)
<1>1. Fresh(stored) # {} /\ (Published(r) \/ Published(none))
  BY DEF PublishProfileCommentCmd, CommandAtHand
<1>2. Inv(desk, stored, lists)
  BY DEF DeskInv
<1>3. Inv(r.desk, r.stored, lists)
  <2> HIDE DEF q, about, private
  <2>1. QED
    BY <1>1, <1>2, CommentPublished
<1>4. Inv(none.desk, none.stored, lists)
  BY <1>2 DEF Failed
<1> HIDE DEF r, none
<1>5. QED
  BY <1>1, <1>3, <1>4, PublishedKeeps DEF DeskInv

\* A file or an ad: comments and messages stay as they are.
LEMMA UnlistedKeeps ==
    ASSUME DeskInv, ScriptInv, lists' = lists,
           NEW r, Published(r), r.desk = desk, Adds(stored, r)
    PROVE  DeskInv' /\ ScriptInv'
<1>1. Inv(desk, stored, lists)
  BY DEF DeskInv
<1>2. StoredOK(r.stored) /\ SameItems(stored, r.stored)
  BY <1>1, AddsKeep DEF Inv
<1>3. Inv(desk, r.stored, lists)
  BY <1>1, <1>2, SameItemsKeep
<1>4. ScriptInv' /\ desk' = desk /\ stored' = r.stored
  BY PublishedKeeps
<1>5. QED
  BY <1>3, <1>4 DEF DeskInv

LEMMA FailedAdds == ASSUME NEW s, NEW st PROVE Failed(s, st).desk = s /\ Adds(st, Failed(s, st))
BY DEF Failed, Adds

LEMMA FileCmdKeeps ==
    ASSUME DeskInv, ScriptInv, PublishFileCmd, lists' = lists PROVE DeskInv' /\ ScriptInv'
<1> DEFINE content == script.call.content
           noEncryption == script.call.noEncryption
           recipients == script.call.recipients
           r == PublishBinaryFile(desk, stored, desk.selected, content, noEncryption, recipients)
<1>1. Fresh(stored) # {} /\ (Published(r) \/ Published(Failed(desk, stored)))
  BY DEF PublishFileCmd, CommandAtHand
<1>2. content \in FileContents
  BY DEF PublishFileCmd, CommandAtHand, ScriptInv, ScriptOK
<1>3. r.desk = desk /\ Adds(stored, r)
  <2> HIDE DEF content, noEncryption, recipients
  <2>1. QED
    BY <1>1, <1>2, FileMade DEF DeskInv, Inv
<1> HIDE DEF r
<1>4. QED
  BY <1>1, <1>3, FailedAdds, UnlistedKeeps

LEMMA AdCmdKeeps ==
    ASSUME DeskInv, ScriptInv, PublishClassifiedAdCmd, lists' = lists
    PROVE  DeskInv' /\ ScriptInv'
<1> DEFINE q == script.sender
           inUse == desk.profileInUse
           r == PublishClassifiedAd(desk, stored, q, inUse)
<1>1. Fresh(stored) # {} /\ (Published(r) \/ Published(Failed(desk, stored)))
  BY DEF PublishClassifiedAdCmd, CommandAtHand
<1>2. r.desk = desk /\ Adds(stored, r)
  <2> HIDE DEF q, inUse
  <2>1. QED
    BY <1>1, AdMade DEF DeskInv, Inv
<1> HIDE DEF r
<1>3. QED
  BY <1>1, <1>2, FailedAdds, UnlistedKeeps

\* A record is notified, which is of no interest to the lists.
LEMMA RecordCmdKeeps ==
    ASSUME DeskInv, ScriptInv, PublishDbRecordCmd, lists' = lists PROVE DeskInv' /\ ScriptInv'
<1> DEFINE private == script.call.private
           recipients == script.call.recipients
<1>1. Fresh(stored) # {}
  BY DEF PublishDbRecordCmd, CommandAtHand
<1>2. PICK f \in {NewFingerPrint(stored)} \cup {g \in DOMAIN stored : stored[g].type = "record"} :
         Published(PublishDbRecord(desk, stored, f, private, recipients))
  BY DEF PublishDbRecordCmd
<1> DEFINE r == PublishDbRecord(desk, stored, f, private, recipients)
           t == Notified(desk, "record", f)
           e == [kind |-> "record", of |-> f]
<1>3. Inv(desk, stored, lists)
  BY DEF DeskInv
<1> HIDE DEF private, recipients
<1>4. Adds(stored, r) /\ (r.desk = desk \/ r.desk = t) /\ f \in Things
  BY <1>1, <1>3, RecordMade DEF Inv
<1>5. Published(r)
  BY <1>2
<1> HIDE DEF r
<1>6. StoredOK(r.stored) /\ SameItems(stored, r.stored)
  BY <1>3, <1>4, AddsKeep DEF Inv
<1>7. Inv(desk, r.stored, lists)
  BY <1>3, <1>6, SameItemsKeep
<1>8. Changes(desk, t, {"events"}) /\ t.events = Append(desk.events, e)
  BY <1>3, NotifiedChanges DEF Inv, QueueOK
<1>9. e \in DeskEvent /\ e.kind = "record"
  BY <1>4 DEF DeskEvent
<1> HIDE DEF t, e
<1>10. Inv(t, r.stored, lists)
  BY <1>7, <1>8, <1>9, OtherEventKeeps
<1>11. ScriptInv' /\ desk' = r.desk /\ stored' = r.stored
  BY <1>5, PublishedKeeps
<1>12. QED
  BY <1>4, <1>7, <1>10, <1>11 DEF DeskInv

LEMMA ScriptThreadKeeps == ASSUME DeskInv, ScriptInv, ScriptThread PROVE DeskInv' /\ ScriptInv'
<1>1. lists' = lists
  BY DEF ScriptThread
<1>2. CASE SenderNamed \/ GetBinaryFileData
  BY <1>1, <1>2, SenderNamedKeeps, GetBinaryFileDataKeeps DEF DeskInv
<1>3. CASE PublishProfileCommentCmd
  BY <1>1, <1>3, CommentCmdKeeps
<1>4. CASE PublishFileCmd
  BY <1>1, <1>4, FileCmdKeeps
<1>5. CASE PublishClassifiedAdCmd
  BY <1>1, <1>5, AdCmdKeeps
<1>6. CASE PublishDbRecordCmd
  BY <1>1, <1>6, RecordCmdKeeps
<1>7. QED
  BY <1>2, <1>3, <1>4, <1>5, <1>6 DEF ScriptThread

\* Calls that are answered at once, or look for a file.
LEMMA GetBinaryFileKeeps ==
    ASSUME ScriptInv, NEW f, GetBinaryFile(f)
    PROVE  ScriptInv' /\ desk' = desk /\ stored' = stored
<1> DEFINE owner == OwnerInMetadata(desk, stored[f])
<1>1. /\ desk' = desk /\ stored' = stored
      /\ \/ script' = [script EXCEPT !.at = "found", !.file = f, !.sender = owner]
         \/ Answered(Error)
  BY DEF GetBinaryFile
<1> HIDE DEF owner
<1>2. CASE script' = [script EXCEPT !.at = "found", !.file = f, !.sender = owner]
  <2>1. script' = [at |-> "found", call |-> script.call, sender |-> owner,
                   file |-> f, answer |-> script.answer]
    BY <1>2 DEF ScriptInv, ScriptOK
  <2>2. QED
    BY <1>1, <2>1 DEF ScriptInv, ScriptOK, FileIsItsOwners
<1>3. CASE Answered(Error)
  BY <1>1, <1>3, PlainAnswers, AnsweredKeeps DEF ScriptInv
<1>4. QED
  BY <1>1, <1>2, <1>3

LEMMA AskedKeeps ==
    ASSUME ScriptInv, NEW isThere, NEW x, Asked(isThere, x)
    PROVE  ScriptInv' /\ stored' = stored
BY PlainlyAnsweredKeeps DEF Asked, ScriptInv

LEMMA ScriptCallsKeep ==
    ASSUME DeskInv, ScriptInv, NEW whom, ScriptCalls(whom) PROVE DeskInv' /\ ScriptInv'
<1>1. lists' = lists /\ Inv(desk, stored, lists)
  BY DEF ScriptCalls, DeskInv
<1>2. ASSUME NEW call \in Calls, PublishItem(call) PROVE DeskInv' /\ ScriptInv'
  BY <1>1, <1>2, PublishItemKeeps DEF DeskInv
<1>3. ASSUME NEW p, GetProfile(p) \/ IsProfileTrustedCmd(p) PROVE DeskInv' /\ ScriptInv'
  <2>1. desk' = desk /\ \E isThere : Asked(isThere, p)
    BY <1>3 DEF GetProfile, IsProfileTrustedCmd
  <2>2. QED
    BY <1>1, <2>1, AskedKeeps DEF DeskInv
<1>4. ASSUME NEW f, GetClassifiedAd(f) PROVE DeskInv' /\ ScriptInv'
  <2>1. desk' = desk /\ \E isThere : Asked(isThere, f)
    BY <1>4 DEF GetClassifiedAd
  <2>2. QED
    BY <1>1, <2>1, AskedKeeps DEF DeskInv
<1>5. ASSUME NEW f, GetProfileComment(f) PROVE DeskInv' /\ ScriptInv'
  <2> DEFINE t == AfterReading(desk, stored, f)
  <2>1. (desk' = desk \/ desk' = t) /\ \E isThere : Asked(isThere, f)
    BY <1>5 DEF GetProfileComment
  <2>2. Inv(t, stored, lists)
    BY <1>1, ReadingIsHandled, HandledKeeps
  <2> HIDE DEF t
  <2>3. QED
    BY <1>1, <2>1, <2>2, AskedKeeps DEF DeskInv
<1>6. ASSUME NEW f, GetBinaryFile(f) PROVE DeskInv' /\ ScriptInv'
  BY <1>1, <1>6, GetBinaryFileKeeps DEF DeskInv
<1>7. QED
  BY <1>2, <1>3, <1>4, <1>5, <1>6 DEF ScriptCalls

LEMMA HouseKeepingKeeps ==
    ASSUME DeskInv, ScriptInv, HouseKeeping PROVE DeskInv' /\ ScriptInv'
<1>1. PICK f \in DOMAIN stored : FileTruncated(f)
  BY DEF HouseKeeping
<1>2. /\ stored[f].type = "file" /\ desk' = desk /\ script' = script /\ lists' = lists
      /\ stored' = [g \in DOMAIN stored \ {f} |-> stored[g]]
  BY <1>1 DEF FileTruncated, Stored, HouseKeeping
<1>3. StoredOK(stored') /\ SameItems(stored, stored')
  BY <1>2 DEF DeskInv, Inv, StoredOK, SameItems, ListedItems, IsListed
<1>4. Inv(desk, stored', lists)
  BY <1>3, SameItemsKeep DEF DeskInv
<1>5. QED
  BY <1>2, <1>4 DEF DeskInv, ScriptInv, ScriptOK, FileIsItsOwners
-----------------------------------------------------------------------------
(***************************************************************************)
(* The start, and the theorems.                                            *)
(***************************************************************************)

\* Nobody's contacts are shown, and nobody's lists.
LEMMA StartedIsKept ==
    ASSUME NEW d \in Databases
    PROVE  LET s == Started(d) IN
           /\ IsDesk(s) /\ KeptBut(s, {}) /\ ShownAreMade(s)
           /\ s.events = <<>> /\ s.profileInUse = Nobody /\ s.selected = NoProfile
<1> DEFINE s == Started(d)
<1>1. /\ s.publicKeys = d.publicKeys /\ s.privateKeys = d.privateKeys
      /\ s.privateData = d.privateData /\ s.profileInUse = Nobody
      /\ s.generated = d.generated /\ s.spoiled = {} /\ s.events = <<>>
      /\ s.selected = NoProfile
      /\ s.made = [p \in Mine |-> IF p \in DOMAIN d.privateData
                                  THEN d.privateData[p].contacts ELSE <<>>]
  BY DEF Started
<1>2. IsDesk(s)
  BY DEF IsDesk, Fields, Started
<1>3. /\ DOMAIN d.privateKeys \subseteq Mine \cap d.publicKeys
      /\ DOMAIN d.privateData \subseteq DOMAIN d.privateKeys
      /\ d.generated \in 0 .. Len(MyKeys)
      /\ \A i \in DOMAIN MyKeys : MyKeys[i] \in DOMAIN d.privateKeys => i <= d.generated
  BY DatabasesAssumption DEF Partly
<1> HIDE DEF s
<1>4. ASSUME NEW p \in KeysToCome(s)
      PROVE  p \notin DOMAIN s.privateKeys /\ p \in Mine
  <2>1. PICK i \in (d.generated + 1) .. Len(MyKeys) : p = MyKeys[i]
    BY <1>1, <1>4 DEF KeysToCome
  <2>2. i \in DOMAIN MyKeys /\ ~(i <= d.generated)
    BY <1>3, <2>1, KeysAssumption, LenProperties
  <2>3. QED
    BY <1>1, <1>3, <2>1, <2>2 DEF Mine, Range
<1>5. \A p \in KeysToCome(s) :
         p \notin DOMAIN s.privateKeys /\ p # s.profileInUse /\ s.made[p] = <<>>
  BY <1>1, <1>3, <1>4, NobodyIsNotMine
<1>6. \A p \in DOMAIN s.privateKeys \ (s.spoiled \cup {}) :
         IF p \in DOMAIN s.privateData THEN s.privateData[p].contacts = s.made[p]
         ELSE s.made[p] = <<>>
  BY <1>1, <1>3
<1>7. KeptBut(s, {})
  BY <1>1, <1>3, <1>5, <1>6 DEF KeptBut
<1>8. ShownAreMade(s)
  BY <1>1, <1>3, NobodyIsNotMine DEF ShownAreMade
<1>9. QED
  BY <1>1, <1>2, <1>7, <1>8 DEF s

\* What is stored names a profile it is about, and nobody is not one.
LEMMA NothingIsNobodys ==
    ASSUME NEW d \in Databases
    PROVE  /\ StoredOK(d.items)
           /\ CommentsAbout(d.items, Nobody) = {} /\ MessagesOf(d.items, Nobody) = {}
<1>1. /\ DOMAIN d.items \subseteq Things
      /\ \A f \in DOMAIN d.items :
            /\ d.items[f] \in Item
            /\ d.items[f].type # "ad" => d.items[f].signer = d.items[f].sender
            /\ d.items[f].type \in {"comment", "message"} => d.items[f].about # Nobody
            /\ f \in FileContents => d.items[f].type = "file"
  BY DatabasesAssumption DEF Partly
<1>2. \A f \in DOMAIN d.items : d.items[f].sender \in People /\ d.items[f].sender # Nobody
  BY <1>1, KeysAssumption DEF Item
<1>3. QED
  BY <1>1, <1>2 DEF StoredOK, ItemOK, CommentsAbout, MessagesOf

LEMMA DeskStarts == ASSUME DeskInit PROVE DeskInv /\ ScriptInv
<1>1. PICK d \in Databases : desk = Started(d) /\ stored = d.items
  BY DEF DeskInit
<1>2. /\ IsDesk(desk) /\ KeptBut(desk, {}) /\ ShownAreMade(desk)
      /\ desk.events = <<>> /\ desk.profileInUse = Nobody /\ desk.selected = NoProfile
  BY <1>1, StartedIsKept
<1>3. /\ StoredOK(stored)
      /\ CommentsAbout(stored, Nobody) = {} /\ MessagesOf(stored, Nobody) = {}
  BY <1>1, NothingIsNobodys
<1>4. QueueOK(desk) /\ ContactsInv(desk)
  BY <1>2, EmptySeq DEF QueueOK, ContactsInv
<1> DEFINE list == [search |-> Nobody, rows |-> <<>>, timer |-> FALSE]
<1>5. lists = [own |-> list, viewed |-> list, messages |-> list]
  BY DEF DeskInit, NoLists
<1>6. /\ list = [search |-> list.search, rows |-> list.rows, timer |-> list.timer]
      /\ list.search = Nobody /\ list.rows = <<>> /\ DOMAIN list.rows = {}
  OBVIOUS
<1> HIDE DEF list
<1>7. IsList(list) /\ ListedOnce(list) /\ Listed(list) = {} /\ DOMAIN list.rows = {}
  BY <1>6 DEF IsList, ListedOnce, Listed
<1>8. Items(desk) = {} /\ ~SelectionPending(desk) /\ DOMAIN desk.events = {}
  BY <1>2 DEF Items, ToSet, SelectionPending
<1>9. CommentsOK(list, stored, desk)
  BY <1>3, <1>6, <1>7, EmptySeq DEF CommentsOK
<1>10. MessagesOK(list, stored, desk)
  BY <1>2, <1>3, <1>6, <1>7, EmptySeq DEF MessagesOK
<1>11. EventsOK(desk, stored) /\ LastIsInUse(desk)
  BY <1>8 DEF EventsOK, LastIsInUse
<1>12. ListsOK(lists, stored, desk)
  BY <1>5, <1>9, <1>10, <1>11 DEF ListsOK
<1>13. ScriptInv
  <2>1. script = NoScript
    BY DEF DeskInit
  <2>2. QED
    BY <2>1 DEF NoScript, Error, ScriptInv, ScriptOK, FileIsItsOwners
<1>14. QED
  BY <1>3, <1>4, <1>12, <1>13 DEF DeskInv, Inv

LEMMA DeskStepKeeps ==
    ASSUME DeskInv, ScriptInv, [DeskNext]_deskVars PROVE DeskInv' /\ ScriptInv'
<1>1. ASSUME script' = script PROVE ScriptInv'
  BY <1>1 DEF ScriptInv, ScriptOK, FileIsItsOwners
<1>2. CASE Switches
  BY <1>1, <1>2, SwitchesKeep DEF Switches
<1>3. CASE Manages(People)
  BY <1>1, <1>3, ManagesKeep DEF Manages
<1>4. CASE Views(People)
  BY <1>1, <1>4, ViewsKeep DEF Views
<1>5. CASE Writes(People, People)
  BY <1>1, <1>5, WritesKeep DEF Writes
<1>6. CASE Shares
  BY <1>1, <1>6, SharesKeep DEF Shares
<1>7. CASE ProfilesArrive(People, SUBSET People)
  BY <1>1, <1>7, ProfilesArriveKeep DEF ProfilesArrive
<1>8. ASSUME NEW type \in {"comment", "message"}, ItemsArrive(type, People, People \ Mine)
      PROVE  DeskInv' /\ ScriptInv'
  BY <1>1, <1>8, ItemsArriveKeep DEF ItemsArrive
<1>9. CASE EventLoop
  BY <1>1, <1>9, EventLoopKeeps DEF EventLoop
<1>10. CASE ScriptCalls(People)
  BY <1>10, ScriptCallsKeep
<1>11. CASE ScriptThread
  BY <1>11, ScriptThreadKeeps
<1>12. CASE HouseKeeping
  BY <1>12, HouseKeepingKeeps
<1>13. CASE UNCHANGED deskVars
  BY <1>1, <1>13 DEF deskVars, DeskInv
<1>14. QED
  BY <1>2, <1>3, <1>4, <1>5, <1>6, <1>7, <1>8, <1>9, <1>10, <1>11, <1>12, <1>13 DEF DeskNext

(* The invariant of the desk: the contacts of each profile are what the user  *)
(* made them, what is stored is signed, the lists have what they should have  *)
(* or will be told of it by the queue, and a program publishes files there    *)
(* are.                                                                       *)
THEOREM DeskIsInvariant == DeskSpec => [](DeskInv /\ ScriptInv)
<1>1. DeskInit => DeskInv /\ ScriptInv
  BY DeskStarts
<1>2. DeskInv /\ ScriptInv /\ [DeskNext]_deskVars => (DeskInv /\ ScriptInv)'
  BY DeskStepKeeps
<1>3. QED
  BY <1>1, <1>2, PTL DEF DeskSpec

(* Whichever profiles are put in use, made and deleted, whichever passwords   *)
(* are changed and whatever else happens at any time, the contacts that are   *)
(* stored of a profile are those the user gave it, unless it could not be     *)
(* read when it was put in use or was stored while the window showed another  *)
(* (Controller::setProfileInUse, FrontWidget::userProfileSelected).           *)
THEOREM ContactsStayPersonal == DeskSpec => []ContactsArePersonal
<1>1. DeskInv => ContactsArePersonal
  BY DEF DeskInv, Inv, ContactsInv, KeptBut, ContactsArePersonal
<1>2. QED
  BY <1>1, DeskIsInvariant, PTL

(* A comment, a message, a file and a record are signed by the profile they   *)
(* name, also those a program publishes while the user puts another profile   *)
(* in use (publishProfileCommentCmdImpl).                                     *)
THEOREM SendersSign == DeskSpec => []SignedByTheirSender
<1>1. DeskInv => SignedByTheirSender
  BY DEF DeskInv, Inv, StoredOK, ItemOK, SignedByTheirSender
<1>2. QED
  BY <1>1, DeskIsInvariant, PTL

(* A file a program is given is signed by the owner it is told, though        *)
(* another profile may publish the same file, or the file may be deleted,     *)
(* between the reading of its metadata and of its data                        *)
(* (getBinaryFileCmdImpl).                                                    *)
THEOREM FilesAreTheirOwners == DeskSpec => []FileIsItsOwners
<1>1. ScriptInv => FileIsItsOwners
  BY DEF ScriptInv
<1>2. QED
  BY <1>1, DeskIsInvariant, PTL

(* When nothing waits any more, neither in the queue of the main thread nor   *)
(* for its idle time, the lists of comments and of messages in the window     *)
(* show what the database has of the profile that is selected and that can be *)
(* read, once each, in whatever order items were received, written, notified  *)
(* and read and profiles were switched (newCommentReceived, newMsgReceived,   *)
(* doUpdateDataOnIdle).                                                       *)
THEOREM ListsBecomeComplete == DeskSpec => []ListsAreComplete
<1>1. DeskInv => ListsAreComplete
  <2> SUFFICES ASSUME DeskInv, Settled PROVE ListsAreComplete
    BY DEF ListsAreComplete
  <2>1. /\ IsDesk(desk) /\ StoredOK(stored)
        /\ lists = [own |-> lists.own, viewed |-> lists.viewed, messages |-> lists.messages]
        /\ CommentsOK(lists.own, stored, desk) /\ CommentsOK(lists.viewed, stored, desk)
        /\ MessagesOK(lists.messages, stored, desk)
    BY DEF DeskInv, Inv, QueueOK, ListsOK
  <2>2. ~lists.own.timer /\ ~lists.viewed.timer /\ ~lists.messages.timer
    BY <2>1 DEF Settled
  <2>3. ~SelectionPending(desk) /\ \A kind, f : ~Told(desk, kind, f)
    BY DEF Settled, SelectionPending, Told, Items, ToSet
  <2>4. ASSUME NEW list, CommentsOK(list, stored, desk), ~list.timer
        PROVE  CommentsAreComplete(list)
    <3>1. \A f \in CommentsAbout(stored, list.search) :
             ProfileCommentByFingerPrint(desk, stored, f) => f \in Listed(list)
      BY <2>1, <2>3, <2>4, CommentIsReadable DEF CommentsOK
    <3>2. QED
      BY <2>4, <3>1 DEF CommentsOK, CommentsAreComplete
  <2>5. \A f \in MessagesOf(stored, lists.messages.search) :
           MessageByFingerPrint(desk, stored, f) => f \in Listed(lists.messages)
    BY <2>1, <2>3, MessageIsReadable DEF MessagesOK
  <2>6. QED
    BY <2>1, <2>2, <2>3, <2>4, <2>5 DEF ListsAreComplete, MessagesOK
<1>2. QED
  BY <1>1, DeskIsInvariant, PTL

-----------------------------------------------------------------------------
(***************************************************************************)
(* Loops. Each is a recursive function of the number of turns; that it     *)
(* exists is shown once for all of them.                                   *)
(***************************************************************************)
LoopStep(a, i, before) ==
    CASE a.loop = "list" ->
            IF HashOrder[i] \in a.tree[a.p].iTrustList
            THEN SetProfileTrustedInList(before, HashOrder[i], a.p, a.level + 1, a.given)
            ELSE before
      [] a.loop = "level" -> Visited(before, HashOrder[i], a.level, a.given)
      [] a.loop = "tree" -> OneLevel(before, i - 1, a.given)
      [] a.loop = "within" -> before \cup OnListsOf(a.given, before)
IsLoop(g, base, a, n) ==
    g = [i \in 0 .. n |-> IF i = 0 THEN base ELSE LoopStep(a, i, g[i - 1])]

LEMMA LoopExists ==
    ASSUME NEW base, NEW a, NEW n \in Nat
    PROVE  \E g : IsLoop(g, base, a, n)
<1> DEFINE T == {k \in 0 .. n : \E g : IsLoop(g, base, a, k)}
<1>1. 0 \in T
  <2>1. IsLoop([i \in 0 .. 0 |-> base], base, a, 0)
    BY DEF IsLoop
  <2>2. QED BY <2>1
<1>2. ASSUME NEW i \in 1 .. n, i - 1 \in T PROVE i \in T
  <2>1. PICK g : IsLoop(g, base, a, i - 1)
    BY <1>2
  <2> DEFINE v == LoopStep(a, i, g[i - 1])
             h == [j \in 0 .. i |-> IF j = i THEN v ELSE g[j]]
  <2>2. h[i] = v /\ \A j \in 0 .. (i - 1) : h[j] = g[j]
    OBVIOUS
  <2>3. \A j \in 0 .. (i - 1) :
           g[j] = IF j = 0 THEN base ELSE LoopStep(a, j, g[j - 1])
    BY <2>1, Zenon DEF IsLoop
  <2>4. DOMAIN h = 0 .. i /\ h = [j \in 0 .. i |-> h[j]]
    OBVIOUS
  <2> HIDE DEF h
  <2>5. h[0] = base /\ g[i - 1] = h[i - 1]
    BY <2>2, <2>3
  <2>6. ASSUME NEW j \in 1 .. i PROVE h[j] = LoopStep(a, j, h[j - 1])
    <3>1. CASE j = i
      BY <2>2, <2>5, <3>1
    <3>2. CASE j # i
      <4>1. j \in 0 .. (i - 1) /\ j - 1 \in 0 .. (i - 1) /\ j # 0
        BY <3>2
      <4>2. QED
        BY <2>2, <2>3, <4>1
    <3>3. QED BY <3>1, <3>2
  <2> DEFINE r == [j \in 0 .. i |-> IF j = 0 THEN base ELSE LoopStep(a, j, h[j - 1])]
  <2>7. \A j \in 0 .. i : h[j] = r[j]
    BY <2>5, <2>6
  <2>8. h = r
    BY <2>4, <2>7
  <2>9. IsLoop(h, base, a, i)
    BY <2>8, Zenon DEF IsLoop
  <2>10. QED BY <2>9
<1> HIDE DEF T
<1>3. n \in T
  BY <1>1, <1>2, UpToInduction
<1>4. QED
  BY <1>3 DEF T

IsHanded(g, tree, p, level, given) ==
    /\ g[0] = tree
    /\ \A i \in 1 .. Len(HashOrder) : g[i] = IF HashOrder[i] \in tree[p].iTrustList
                THEN SetProfileTrustedInList(g[i - 1], HashOrder[i], p, level + 1, given)
                ELSE g[i - 1]
LEMMA HandedRecursion ==
    ASSUME NEW tree, NEW p, NEW level, NEW given
    PROVE  \E g : /\ IsHanded(g, tree, p, level, given)
                  /\ HandedDown(tree, p, level, given) = g[Len(HashOrder)]
<1> DEFINE n == Len(HashOrder)
           a == [loop |-> "list", tree |-> tree, p |-> p, level |-> level, given |-> given]
           Turn(i, before) ==
               IF HashOrder[i] \in tree[p].iTrustList
               THEN SetProfileTrustedInList(before, HashOrder[i], p, level + 1, given)
               ELSE before
           g == CHOOSE g : g = [i \in 0 .. n |-> IF i = 0 THEN tree ELSE Turn(i, g[i - 1])]
<1>1. n \in Nat
  BY TreeAssumption, LenProperties
<1>2. \A i, before : LoopStep(a, i, before) = Turn(i, before)
  BY DEF LoopStep
<1>3. HandedDown(tree, p, level, given) = g[n]
  BY Zenon DEF HandedDown
<1> HIDE DEF a, Turn, n
<1>4. \E f : f = [i \in 0 .. n |-> IF i = 0 THEN tree ELSE Turn(i, f[i - 1])]
  <2>1. PICK f : IsLoop(f, tree, a, n)
    BY <1>1, LoopExists
  <2> DEFINE r == [i \in 0 .. n |-> IF i = 0 THEN tree ELSE Turn(i, f[i - 1])]
             o == [i \in 0 .. n |-> IF i = 0 THEN tree ELSE LoopStep(a, i, f[i - 1])]
  <2>2. f = o
    BY <2>1, Zenon DEF IsLoop
  <2>3. o = r
    BY <1>2
  <2>4. QED
    BY <2>2, <2>3, Zenon
<1>5. g = [i \in 0 .. n |-> IF i = 0 THEN tree ELSE Turn(i, g[i - 1])]
  BY <1>4, Zenon
<1> HIDE DEF g
<1>6. \A i \in 0 .. n : g[i] = IF i = 0 THEN tree ELSE Turn(i, g[i - 1])
  BY <1>5, Zenon
<1>7. g[0] = tree /\ \A i \in 1 .. n : g[i] = Turn(i, g[i - 1])
  BY <1>1, <1>6
<1>8. QED
  BY <1>3, <1>7, Zenon DEF n, Turn, IsHanded

IsLevel(g, tree, level, given) ==
    /\ g[0] = tree
    /\ \A i \in 1 .. Len(HashOrder) : g[i] = Visited(g[i - 1], HashOrder[i], level, given)
LEMMA LevelRecursion ==
    ASSUME NEW tree, NEW level, NEW given
    PROVE  \E g : IsLevel(g, tree, level, given) /\ OneLevel(tree, level, given) = g[Len(HashOrder)]
<1> DEFINE n == Len(HashOrder)
           a == [loop |-> "level", level |-> level, given |-> given]
           Turn(i, before) == Visited(before, HashOrder[i], level, given)
           g == CHOOSE g : g = [i \in 0 .. n |-> IF i = 0 THEN tree ELSE Turn(i, g[i - 1])]
<1>1. n \in Nat
  BY TreeAssumption, LenProperties
<1>2. \A i, before : LoopStep(a, i, before) = Turn(i, before)
  BY DEF LoopStep
<1>3. OneLevel(tree, level, given) = g[n]
  BY Zenon DEF OneLevel
<1> HIDE DEF a, Turn, n
<1>4. \E f : f = [i \in 0 .. n |-> IF i = 0 THEN tree ELSE Turn(i, f[i - 1])]
  <2>1. PICK f : IsLoop(f, tree, a, n)
    BY <1>1, LoopExists
  <2> DEFINE r == [i \in 0 .. n |-> IF i = 0 THEN tree ELSE Turn(i, f[i - 1])]
             o == [i \in 0 .. n |-> IF i = 0 THEN tree ELSE LoopStep(a, i, f[i - 1])]
  <2>2. f = o
    BY <2>1, Zenon DEF IsLoop
  <2>3. o = r
    BY <1>2
  <2>4. QED
    BY <2>2, <2>3, Zenon
<1>5. g = [i \in 0 .. n |-> IF i = 0 THEN tree ELSE Turn(i, g[i - 1])]
  BY <1>4, Zenon
<1> HIDE DEF g
<1>6. \A i \in 0 .. n : g[i] = IF i = 0 THEN tree ELSE Turn(i, g[i - 1])
  BY <1>5, Zenon
<1>7. g[0] = tree /\ \A i \in 1 .. n : g[i] = Turn(i, g[i - 1])
  BY <1>1, <1>6
<1>8. QED
  BY <1>3, <1>7, Zenon DEF n, Turn, IsLevel

IsPlaced(g, tree, self, given) ==
    /\ g[0] = SetProfileTrustedInList(tree, self, self, 0, given)
    /\ \A i \in 1 .. KHowManyLevelsDeep : g[i] = OneLevel(g[i - 1], i - 1, given)
LEMMA PlacedRecursion ==
    ASSUME NEW tree, NEW self, NEW given
    PROVE  \E g : /\ IsPlaced(g, tree, self, given)
                  /\ Placed(tree, self, given) = g[KHowManyLevelsDeep]
<1> DEFINE n == KHowManyLevelsDeep
           start == SetProfileTrustedInList(tree, self, self, 0, given)
           a == [loop |-> "tree", given |-> given]
           Turn(i, before) == OneLevel(before, i - 1, given)
           g == CHOOSE g : g = [i \in 0 .. n |-> IF i = 0 THEN start ELSE Turn(i, g[i - 1])]
<1>1. n \in Nat
  BY TreeAssumption
<1>2. \A i, before : LoopStep(a, i, before) = Turn(i, before)
  BY DEF LoopStep
<1>3. Placed(tree, self, given) = g[n]
  BY Zenon DEF Placed
<1> HIDE DEF a, Turn, n
<1>4. \E f : f = [i \in 0 .. n |-> IF i = 0 THEN start ELSE Turn(i, f[i - 1])]
  <2>1. PICK f : IsLoop(f, start, a, n)
    BY <1>1, LoopExists
  <2> DEFINE r == [i \in 0 .. n |-> IF i = 0 THEN start ELSE Turn(i, f[i - 1])]
             o == [i \in 0 .. n |-> IF i = 0 THEN start ELSE LoopStep(a, i, f[i - 1])]
  <2>2. f = o
    BY <2>1, Zenon DEF IsLoop
  <2>3. o = r
    BY <1>2
  <2>4. QED
    BY <2>2, <2>3, Zenon
<1>5. g = [i \in 0 .. n |-> IF i = 0 THEN start ELSE Turn(i, g[i - 1])]
  BY <1>4, Zenon
<1> HIDE DEF g
<1>6. \A i \in 0 .. n : g[i] = IF i = 0 THEN start ELSE Turn(i, g[i - 1])
  BY <1>5, Zenon
<1>7. g[0] = start /\ \A i \in 1 .. n : g[i] = Turn(i, g[i - 1])
  BY <1>1, <1>6
<1>8. QED
  BY <1>3, <1>7, Zenon DEF n, Turn, IsPlaced

IsWithin(g, given, self, m) ==
    /\ g[0] = {self}
    /\ \A i \in 1 .. m : g[i] = g[i - 1] \cup OnListsOf(given, g[i - 1])
LEMMA WithinRecursion ==
    ASSUME NEW given, NEW self, NEW m \in Nat
    PROVE  \E g : IsWithin(g, given, self, m) /\ Within(given, self, m) = g[m]
<1> DEFINE n == m
           a == [loop |-> "within", given |-> given]
           Turn(i, before) == before \cup OnListsOf(given, before)
           g == CHOOSE g : g = [i \in 0 .. n |-> IF i = 0 THEN {self} ELSE Turn(i, g[i - 1])]
<1>1. n \in Nat
  OBVIOUS
<1>2. \A i, before : LoopStep(a, i, before) = Turn(i, before)
  BY DEF LoopStep
<1>3. Within(given, self, m) = g[n]
  BY Zenon DEF Within
<1> HIDE DEF a, Turn, n
<1>4. \E f : f = [i \in 0 .. n |-> IF i = 0 THEN {self} ELSE Turn(i, f[i - 1])]
  <2>1. PICK f : IsLoop(f, {self}, a, n)
    BY <1>1, LoopExists
  <2> DEFINE r == [i \in 0 .. n |-> IF i = 0 THEN {self} ELSE Turn(i, f[i - 1])]
             o == [i \in 0 .. n |-> IF i = 0 THEN {self} ELSE LoopStep(a, i, f[i - 1])]
  <2>2. f = o
    BY <2>1, Zenon DEF IsLoop
  <2>3. o = r
    BY <1>2
  <2>4. QED
    BY <2>2, <2>3, Zenon
<1>5. g = [i \in 0 .. n |-> IF i = 0 THEN {self} ELSE Turn(i, g[i - 1])]
  BY <1>4, Zenon
<1> HIDE DEF g
<1>6. \A i \in 0 .. n : g[i] = IF i = 0 THEN {self} ELSE Turn(i, g[i - 1])
  BY <1>5, Zenon
<1>7. g[0] = {self} /\ \A i \in 1 .. n : g[i] = Turn(i, g[i - 1])
  BY <1>1, <1>6
<1>8. QED
  BY <1>3, <1>7, Zenon DEF n, Turn, IsWithin

-----------------------------------------------------------------------------
(***************************************************************************)
(* Placing items.                                                          *)
(***************************************************************************)
ItemFields == {"iTrustingOperator", "named", "iTrustList", "iLevel"}
IsItem(x) == x = [f \in ItemFields |-> x[f]]
TreeOK(t) == DOMAIN t \subseteq People /\ \A p \in DOMAIN t : IsItem(t[p])
OnATree(t) == {p \in DOMAIN t : t[p].iLevel # -1}
\* Who is placed is trusted by somebody.
Regular(t) == TreeOK(t) /\ \A p \in OnATree(t) : t[p].iTrustingOperator \in People

LEMMA WithOK ==
    ASSUME NEW t, TreeOK(t), NEW p \in People, NEW x, IsItem(x)
    PROVE  TreeOK(With(t, p, x))
<1> DEFINE w == With(t, p, x)
<1>1. /\ DOMAIN w = DOMAIN t \cup {p} /\ w[p] = x
      /\ \A q \in DOMAIN t \ {p} : w[q] = t[q]
  BY DEF With
<1> HIDE DEF w
<1>2. TreeOK(w)
  BY <1>1 DEF TreeOK
<1>3. QED
  BY <1>2 DEF w

\* Reading an item changes neither its place nor its operator.
LEMMA AsReadItem ==
    ASSUME NEW x, IsItem(x), NEW p, NEW given
    PROVE  LET y == AsRead(x, p, given) IN
           IsItem(y) /\ y.iLevel = x.iLevel /\ y.iTrustingOperator = x.iTrustingOperator
BY DEF IsItem, ItemFields, AsRead

LEMMA PlacedItem ==
    ASSUME NEW t, Regular(t), NEW p \in People, NEW by \in People, NEW level \in Nat, NEW given
    PROVE  LET u == SetProfileTrustedInList(t, p, by, level, given) IN
           /\ Regular(u)
           /\ \A q : q \in DOMAIN u <=> q \in DOMAIN t \/ q = p
           /\ \A q : q \in OnATree(u) <=> q \in OnATree(t) \/ q = p
           /\ \A q \in DOMAIN t \ {p} : u[q] = t[q]
           /\ p \in OnATree(t) => u[p] = t[p]
           /\ p \notin OnATree(t) => u[p].iLevel = level /\ u[p].iTrustingOperator = by
<1> DEFINE u == SetProfileTrustedInList(t, p, by, level, given)
           known == p \in DOMAIN t /\ t[p].iTrustingOperator # Nobody
           placed == [t[p] EXCEPT !.iLevel = level, !.iTrustingOperator = by]
           new == [DefaultItem EXCEPT !.iTrustingOperator = by, !.iLevel = level]
           x == IF ~known THEN AsRead(new, p, given)
                ELSE IF placed.named THEN placed ELSE AsRead(placed, p, given)
<1>1. u = IF p \in OnATree(t) THEN t ELSE With(t, p, x)
  <2>1. p \in OnATree(t) => known
    BY KeysAssumption DEF Regular, OnATree
  <2>2. known => p \in DOMAIN t
    OBVIOUS
  <2>3. u = IF ~known THEN With(t, p, AsRead(new, p, given))
            ELSE IF t[p].iLevel # -1 THEN t
            ELSE With(t, p, IF placed.named THEN placed ELSE AsRead(placed, p, given))
    BY Zenon DEF SetProfileTrustedInList
  <2> HIDE DEF known, new, placed, u
  <2>4. CASE ~known
    BY <2>1, <2>3, <2>4
  <2>5. CASE known
    BY <2>2, <2>3, <2>5 DEF OnATree
  <2>6. QED
    BY <2>4, <2>5
<1>2. IsItem(new) /\ new.iLevel = level /\ new.iTrustingOperator = by
  BY DEF IsItem, ItemFields, DefaultItem
<1>3. known => IsItem(placed) /\ placed.iLevel = level /\ placed.iTrustingOperator = by
  <2>1. known => IsItem(t[p])
    BY DEF Regular, TreeOK
  <2>2. QED
    BY <2>1 DEF IsItem, ItemFields
<1> HIDE DEF known, placed, new
<1>4. IsItem(x) /\ x.iLevel = level /\ x.iTrustingOperator = by
  <2>1. CASE ~known
    BY <1>2, <2>1, AsReadItem
  <2>2. CASE known
    BY <1>3, <2>2, AsReadItem
  <2>3. QED BY <2>1, <2>2
<1> HIDE DEF x, u
<1>5. CASE p \in OnATree(t)
  BY <1>1, <1>5 DEF OnATree, u
<1>6. CASE p \notin OnATree(t)
  <2>1. u = With(t, p, x)
    BY <1>1, <1>6
  <2>2. /\ DOMAIN u = DOMAIN t \cup {p} /\ u[p] = x
        /\ \A q \in DOMAIN t \ {p} : u[q] = t[q]
    BY <2>1 DEF With
  <2>3. TreeOK(u)
    BY <1>4, <2>1, WithOK DEF Regular
  <2>4. OnATree(u) = OnATree(t) \cup {p}
    BY <1>4, <2>2 DEF OnATree
  <2>5. Regular(u)
    BY <1>4, <2>2, <2>3, <2>4 DEF Regular, OnATree
  <2>6. QED
    BY <1>4, <1>6, <2>2, <2>4, <2>5 DEF u
<1>7. QED
  BY <1>5, <1>6

\* One level more: who was placed stays, who is new is on the list of one of the
\* level before, who placed it.
Grown(t, u, n) ==
    /\ DOMAIN t \subseteq DOMAIN u
    /\ OnATree(t) \subseteq OnATree(u)
    /\ \A p \in OnATree(t) : u[p] = t[p]
    /\ \A p \in OnATree(u) \ OnATree(t) :
          LET by == u[p].iTrustingOperator IN
          /\ u[p].iLevel = n + 1
          /\ by \in OnATree(t) /\ t[by].iLevel = n /\ p \in t[by].iTrustList

LEMMA GrownTransitive ==
    ASSUME NEW t, NEW u, NEW v, NEW n \in Nat, Grown(t, u, n), Grown(u, v, n)
    PROVE  Grown(t, v, n)
<1>1. /\ DOMAIN t \subseteq DOMAIN v
      /\ OnATree(t) \subseteq OnATree(v)
      /\ \A p \in OnATree(t) : v[p] = t[p]
  BY DEF Grown
<1>2. ASSUME NEW p \in OnATree(v) \ OnATree(t)
      PROVE  LET by == v[p].iTrustingOperator IN
             /\ v[p].iLevel = n + 1
             /\ by \in OnATree(t) /\ t[by].iLevel = n /\ p \in t[by].iTrustList
  <2> DEFINE by == v[p].iTrustingOperator
  <2>1. CASE p \in OnATree(u)
    BY <1>2, <2>1 DEF Grown
  <2>2. CASE p \notin OnATree(u)
    <3>1. v[p].iLevel = n + 1 /\ by \in OnATree(u) /\ u[by].iLevel = n /\ p \in u[by].iTrustList
      BY <1>2, <2>2 DEF Grown
    <3> HIDE DEF by
    <3>2. by \in OnATree(t) /\ u[by] = t[by]
      BY <3>1 DEF Grown
    <3>3. QED
      BY <3>1, <3>2 DEF by
  <2>3. QED BY <2>1, <2>2
<1>3. QED
  BY <1>1, <1>2 DEF Grown

LEMMA GrownStays == ASSUME NEW t, NEW n \in Nat PROVE Grown(t, t, n)
BY DEF Grown

LEMMA HandedStep ==
    ASSUME NEW u, Regular(u), NEW n \in Nat, NEW q \in OnATree(u), u[q].iLevel = n,
           NEW p \in People, p \in u[q].iTrustList, NEW given
    PROVE  LET v == SetProfileTrustedInList(u, p, q, n + 1, given) IN
           Regular(v) /\ Grown(u, v, n) /\ p \in OnATree(v)
<1> DEFINE k == n + 1
           v == SetProfileTrustedInList(u, p, q, k, given)
<1>1. q \in People /\ k \in Nat
  BY DEF Regular, TreeOK, OnATree
<1> HIDE DEF k
<1>2. /\ Regular(v)
      /\ \A r : r \in DOMAIN v <=> r \in DOMAIN u \/ r = p
      /\ \A r : r \in OnATree(v) <=> r \in OnATree(u) \/ r = p
      /\ \A r \in DOMAIN u \ {p} : v[r] = u[r]
      /\ p \in OnATree(u) => v[p] = u[p]
      /\ p \notin OnATree(u) => v[p].iLevel = k /\ v[p].iTrustingOperator = q
  BY <1>1, PlacedItem
<1> HIDE DEF v
<1>3. \A r \in OnATree(u) : r \in DOMAIN u
  BY DEF OnATree
<1>4. Grown(u, v, n)
  BY <1>2, <1>3 DEF Grown, k
<1>5. QED
  BY <1>2, <1>4 DEF v, k

LEMMA HandedDownGrows ==
    ASSUME NEW t, Regular(t), NEW n \in Nat, NEW q \in OnATree(t), t[q].iLevel = n, NEW given
    PROVE  LET u == HandedDown(t, q, n, given) IN
           /\ Regular(u) /\ Grown(t, u, n)
           /\ t[q].iTrustList \cap People \subseteq OnATree(u)
<1>0. PICK g : IsHanded(g, t, q, n, given) /\ HandedDown(t, q, n, given) = g[Len(HashOrder)]
  BY HandedRecursion
<1>1. /\ g[0] = t
      /\ \A i \in 1 .. Len(HashOrder) :
            g[i] = IF HashOrder[i] \in t[q].iTrustList
                   THEN SetProfileTrustedInList(g[i - 1], HashOrder[i], q, n + 1, given)
                   ELSE g[i - 1]
  BY <1>0 DEF IsHanded
<1> DEFINE m == Len(HashOrder)
           Has(i) == /\ Regular(g[i]) /\ Grown(t, g[i], n)
                     /\ \A j \in 1 .. i : HashOrder[j] \in t[q].iTrustList =>
                                             HashOrder[j] \in OnATree(g[i])
           T == {i \in 0 .. m : Has(i)}
<1>2. m \in Nat /\ \A i \in 1 .. m : HashOrder[i] \in People
  BY TreeAssumption, LenProperties, ElementOfSeq
<1>3. 0 \in T
  BY <1>1, <1>2, GrownStays
<1>4. ASSUME NEW i \in 1 .. m, i - 1 \in T PROVE i \in T
  <2> DEFINE p == HashOrder[i]
             u == g[i - 1]
             v == g[i]
  <2>1. Regular(u) /\ Grown(t, u, n) /\ p \in People /\ i \in 0 .. m
    BY <1>2, <1>4
  <2>2. q \in OnATree(u) /\ u[q] = t[q]
    BY <2>1 DEF Grown
  <2>3. v = IF p \in t[q].iTrustList THEN SetProfileTrustedInList(u, p, q, n + 1, given) ELSE u
    BY <1>1, <1>4
  <2>4. \A j \in 1 .. (i - 1) : HashOrder[j] \in t[q].iTrustList => HashOrder[j] \in OnATree(u)
    BY <1>4
  <2>5. \A j \in 1 .. i : j \in 1 .. (i - 1) \/ HashOrder[j] = p
    OBVIOUS
  <2> HIDE DEF u, v, p
  <2>6. Regular(v) /\ Grown(u, v, n) /\ (p \in t[q].iTrustList => p \in OnATree(v))
    <3>1. CASE p \in t[q].iTrustList
      <4>1. v = SetProfileTrustedInList(u, p, q, n + 1, given)
        BY <2>3, <3>1
      <4>2. u[q].iLevel = n /\ p \in u[q].iTrustList
        BY <2>2, <3>1
      <4>3. QED
        BY <2>1, <2>2, <4>1, <4>2, HandedStep
    <3>2. CASE p \notin t[q].iTrustList
      BY <2>1, <2>3, <3>2, GrownStays
    <3>3. QED BY <3>1, <3>2
  <2>7. Grown(t, v, n)
    BY <2>1, <2>6, GrownTransitive
  <2>8. OnATree(u) \subseteq OnATree(v)
    BY <2>6 DEF Grown
  <2>9. \A j \in 1 .. i : HashOrder[j] \in t[q].iTrustList => HashOrder[j] \in OnATree(v)
    BY <2>4, <2>5, <2>6, <2>8
  <2>10. QED
    BY <2>1, <2>6, <2>7, <2>9 DEF v
<1> HIDE DEF T, m, Has
<1>5. Has(m)
  <2>1. 0 .. m \subseteq T
    BY <1>2, <1>3, <1>4, UpToInduction
  <2>2. QED
    BY <1>2, <2>1 DEF T
<1>6. \A p \in People : \E i \in 1 .. m : HashOrder[i] = p
  BY TreeAssumption, LenProperties DEF Range, m
<1>7. QED
  BY <1>0, <1>5, <1>6 DEF Has, m

\* All the profiles of a level have handed trust down; those that came new in
\* between are on the next level and do not.
LEMMA LevelGrows ==
    ASSUME NEW t, Regular(t), NEW n \in Nat, NEW given
    PROVE  LET u == OneLevel(t, n, given) IN
           /\ Regular(u) /\ Grown(t, u, n)
           /\ \A q \in OnATree(t), p \in People :
                 t[q].iLevel = n /\ p \in t[q].iTrustList => p \in OnATree(u)
<1>1. PICK g : IsLevel(g, t, n, given) /\ OneLevel(t, n, given) = g[Len(HashOrder)]
  BY LevelRecursion
<1>2. g[0] = t /\ \A i \in 1 .. Len(HashOrder) : g[i] = Visited(g[i - 1], HashOrder[i], n, given)
  BY <1>1 DEF IsLevel
<1> DEFINE m == Len(HashOrder)
           Handed(q, u) == q \in OnATree(t) /\ t[q].iLevel = n =>
                              \A p \in People : p \in t[q].iTrustList => p \in OnATree(u)
           Has(i) == /\ Regular(g[i]) /\ Grown(t, g[i], n)
                     /\ \A j \in 1 .. i : Handed(HashOrder[j], g[i])
           T == {i \in 0 .. m : Has(i)}
<1>3. m \in Nat /\ \A i \in 1 .. m : HashOrder[i] \in People
  BY TreeAssumption, LenProperties, ElementOfSeq
<1>4. 0 \in T
  BY <1>2, <1>3, GrownStays
<1>5. ASSUME NEW i \in 1 .. m, i - 1 \in T PROVE i \in T
  <2> DEFINE q == HashOrder[i]
             u == g[i - 1]
             v == g[i]
  <2>1. /\ Regular(u) /\ Grown(t, u, n) /\ q \in People /\ i \in 0 .. m
        /\ \A j \in 1 .. (i - 1) : Handed(HashOrder[j], u)
    BY <1>3, <1>5
  <2>2. v = Visited(u, q, n, given)
    BY <1>2, <1>5
  <2>3. \A j \in 1 .. i : j \in 1 .. (i - 1) \/ HashOrder[j] = q
    OBVIOUS
  <2>4. /\ \A r \in OnATree(t) : r \in OnATree(u) /\ u[r] = t[r]
        /\ \A r \in OnATree(u) : u[r].iLevel = n => r \in OnATree(t)
    BY <2>1 DEF Grown
  <2> HIDE DEF u, v, q
  <2>5. Regular(v) /\ Grown(u, v, n) /\ Handed(q, v)
    <3>1. CASE q \in DOMAIN u /\ u[q].iLevel = n
      <4>1. v = HandedDown(u, q, n, given)
        BY <2>2, <3>1 DEF Visited
      <4>2. q \in OnATree(u)
        BY <3>1 DEF OnATree
      <4>3. /\ Regular(v) /\ Grown(u, v, n)
            /\ u[q].iTrustList \cap People \subseteq OnATree(v)
        BY <2>1, <3>1, <4>1, <4>2, HandedDownGrows
      <4>4. QED
        BY <2>4, <4>3
    <3>2. CASE ~(q \in DOMAIN u /\ u[q].iLevel = n)
      <4>1. v = u
        BY <2>2, <3>2 DEF Visited
      <4>2. ~(q \in OnATree(t) /\ t[q].iLevel = n)
        BY <2>4, <3>2 DEF OnATree
      <4>3. QED
        BY <2>1, <4>1, <4>2, GrownStays
    <3>3. QED BY <3>1, <3>2
  <2>6. Grown(t, v, n)
    BY <2>1, <2>5, GrownTransitive
  <2>7. OnATree(u) \subseteq OnATree(v)
    BY <2>5 DEF Grown
  <2>8. \A j \in 1 .. i : Handed(HashOrder[j], v)
    <3>1. \A r : Handed(r, u) => Handed(r, v)
      BY <2>7
    <3> HIDE DEF Handed
    <3>2. QED
      BY <2>1, <2>3, <2>5, <3>1
  <2>9. QED
    BY <2>1, <2>5, <2>6, <2>8 DEF v
<1> HIDE DEF T, m, Has
<1>6. Has(m)
  <2>1. 0 .. m \subseteq T
    BY <1>3, <1>4, <1>5, UpToInduction
  <2>2. QED
    BY <1>3, <2>1 DEF T
<1>7. \A p \in People : \E i \in 1 .. m : HashOrder[i] = p
  BY TreeAssumption, LenProperties DEF Range, m
<1>8. OnATree(t) \subseteq People
  BY DEF Regular, TreeOK, OnATree
<1>9. \A q \in OnATree(t) : Handed(q, g[m])
  <2> HIDE DEF Handed
  <2>1. QED
    BY <1>6, <1>7, <1>8 DEF Has
<1>10. QED
  BY <1>1, <1>6, <1>9 DEF Has, m

-----------------------------------------------------------------------------
\* Trust has spread from self over n lists.
Spread(t, self, n) ==
    /\ Regular(t)
    /\ self \in OnATree(t) /\ t[self].iLevel = 0
    /\ \A p \in OnATree(t) : t[p].iLevel \in 0 .. n
    /\ \A p \in OnATree(t) \ {self} :
          LET by == t[p].iTrustingOperator IN
          /\ t[p].iLevel > 0
          /\ by \in OnATree(t) /\ t[by].iLevel = t[p].iLevel - 1 /\ p \in t[by].iTrustList
    /\ \A q \in OnATree(t), p \in People :
          t[q].iLevel < n /\ p \in t[q].iTrustList =>
             p \in OnATree(t) /\ t[p].iLevel <= t[q].iLevel + 1

LEMMA SpreadFurther ==
    ASSUME NEW t, NEW self, NEW n \in Nat, Spread(t, self, n), NEW given
    PROVE  Spread(OneLevel(t, n, given), self, n + 1)
<1> DEFINE u == OneLevel(t, n, given)
<1>1. /\ Regular(u) /\ Grown(t, u, n)
      /\ \A q \in OnATree(t), p \in People :
            t[q].iLevel = n /\ p \in t[q].iTrustList => p \in OnATree(u)
  BY LevelGrows DEF Spread
<1> HIDE DEF u
<1>2. /\ OnATree(t) \subseteq OnATree(u)
      /\ \A p \in OnATree(t) : u[p] = t[p]
  BY <1>1 DEF Grown
<1>3. ASSUME NEW p \in OnATree(u) \ OnATree(t)
      PROVE  LET by == u[p].iTrustingOperator IN
             /\ u[p].iLevel = n + 1
             /\ by \in OnATree(t) /\ t[by].iLevel = n /\ p \in t[by].iTrustList
  BY <1>1 DEF Grown
<1>4. /\ self \in OnATree(u) /\ u[self].iLevel = 0
      /\ \A p \in OnATree(u) : u[p].iLevel \in 0 .. (n + 1)
  BY <1>2, <1>3 DEF Spread
<1>5. ASSUME NEW p \in OnATree(u) \ {self}
      PROVE  LET by == u[p].iTrustingOperator IN
             /\ u[p].iLevel > 0
             /\ by \in OnATree(u) /\ u[by].iLevel = u[p].iLevel - 1 /\ p \in u[by].iTrustList
  <2>1. CASE p \in OnATree(t)
    BY <1>2, <1>5, <2>1 DEF Spread
  <2>2. CASE p \notin OnATree(t)
    BY <1>2, <1>3, <1>5, <2>2
  <2>3. QED BY <2>1, <2>2
<1>6. ASSUME NEW q \in OnATree(u), NEW p \in People,
             u[q].iLevel < n + 1, p \in u[q].iTrustList
      PROVE  p \in OnATree(u) /\ u[p].iLevel <= u[q].iLevel + 1
  <2>1. q \in OnATree(t) /\ u[q] = t[q]
    BY <1>2, <1>3, <1>6
  <2>2. t[q].iLevel \in 0 .. n
    BY <2>1 DEF Spread
  <2>3. CASE t[q].iLevel = n
    BY <1>1, <1>4, <1>6, <2>1, <2>3
  <2>4. CASE t[q].iLevel < n
    <3>1. p \in OnATree(t) /\ t[p].iLevel <= t[q].iLevel + 1
      BY <1>6, <2>1, <2>4 DEF Spread
    <3>2. QED
      BY <1>2, <2>1, <3>1
  <2>5. QED BY <2>2, <2>3, <2>4
<1>7. Spread(u, self, n + 1)
  BY <1>1, <1>4, <1>5, <1>6 DEF Spread
<1>8. QED
  BY <1>7 DEF u

LEMMA UnplacedOK ==
    ASSUME NEW t, TreeOK(t)
    PROVE  Regular(Unplaced(t)) /\ OnATree(Unplaced(t)) = {}
<1> DEFINE u == Unplaced(t)
<1>1. DOMAIN u = DOMAIN t /\ \A p \in DOMAIN u : u[p] = [t[p] EXCEPT !.iLevel = -1]
  BY DEF Unplaced
<1>2. \A p \in DOMAIN u : IsItem(t[p])
  BY <1>1 DEF TreeOK
<1> HIDE DEF u
<1>3. \A p \in DOMAIN u : IsItem(u[p]) /\ u[p].iLevel = -1
  BY <1>1, <1>2 DEF IsItem, ItemFields
<1>4. QED
  BY <1>1, <1>3 DEF TreeOK, Regular, OnATree, u

LEMMA PlacedSpreads ==
    ASSUME NEW t, TreeOK(t), NEW self \in People, NEW given
    PROVE  Spread(Placed(Unplaced(t), self, given), self, KHowManyLevelsDeep)
<1> DEFINE m == KHowManyLevelsDeep
           t0 == Unplaced(t)
           first == SetProfileTrustedInList(t0, self, self, 0, given)
<1>1. PICK g : IsPlaced(g, t0, self, given) /\ Placed(t0, self, given) = g[m]
  BY PlacedRecursion
<1>2. g[0] = first /\ \A i \in 1 .. m : g[i] = OneLevel(g[i - 1], i - 1, given)
  BY <1>1 DEF IsPlaced
<1>3. Regular(t0) /\ OnATree(t0) = {}
  BY UnplacedOK
<1> HIDE DEF t0
<1>4. /\ Regular(first)
      /\ \A q : q \in OnATree(first) <=> q \in OnATree(t0) \/ q = self
      /\ self \notin OnATree(t0) => first[self].iLevel = 0
  <2> DEFINE zero == 0
  <2>1. zero \in Nat
    OBVIOUS
  <2> HIDE DEF zero
  <2>2. LET f == SetProfileTrustedInList(t0, self, self, zero, given) IN
        /\ Regular(f)
        /\ \A q : q \in OnATree(f) <=> q \in OnATree(t0) \/ q = self
        /\ self \notin OnATree(t0) => f[self].iLevel = zero
    BY <1>3, <2>1, PlacedItem
  <2>3. QED
    BY <2>2 DEF zero
<1> HIDE DEF first
<1>5. Spread(first, self, 0)
  BY <1>3, <1>4 DEF Spread
<1> DEFINE T == {i \in 0 .. m : Spread(g[i], self, i)}
<1>6. m \in Nat
  BY TreeAssumption
<1>7. 0 \in T
  BY <1>2, <1>5, <1>6
<1>8. ASSUME NEW i \in 1 .. m, i - 1 \in T PROVE i \in T
  <2> DEFINE n == i - 1
  <2>1. n \in Nat /\ Spread(g[n], self, n) /\ n + 1 = i /\ i \in 0 .. m
    BY <1>6, <1>8
  <2>2. g[i] = OneLevel(g[n], n, given)
    BY <1>2
  <2> HIDE DEF n
  <2>3. Spread(OneLevel(g[n], n, given), self, n + 1)
    BY <2>1, SpreadFurther
  <2>4. QED
    BY <2>1, <2>2, <2>3
<1> HIDE DEF T, m
<1>9. m \in T
  BY <1>6, <1>7, <1>8, UpToInduction
<1>10. QED
  BY <1>1, <1>9 DEF T, m, t0

\* Only who was placed is left.
LEMMA OnlyPlacedSpreads ==
    ASSUME NEW t, NEW self, NEW n \in Nat, Spread(t, self, n)
    PROVE  LET r == OnlyPlaced(t) IN Spread(r, self, n) /\ DOMAIN r = OnATree(r)
<1> DEFINE r == OnlyPlaced(t)
<1>1. DOMAIN r = OnATree(t) /\ \A p \in OnATree(t) : r[p] = t[p]
  BY DEF OnlyPlaced, OnATree
<1> HIDE DEF r
<1>2. OnATree(r) = OnATree(t)
  BY <1>1 DEF OnATree
<1>3. Regular(r)
  BY <1>1, <1>2 DEF Regular, TreeOK, Spread, OnATree
<1>4. Spread(r, self, n)
  <2>1. /\ self \in OnATree(r) /\ r[self].iLevel = 0
        /\ \A p \in OnATree(r) : r[p].iLevel \in 0 .. n
    BY <1>1, <1>2 DEF Spread
  <2>2. \A p \in OnATree(r) \ {self} :
          LET by == r[p].iTrustingOperator IN
          /\ r[p].iLevel > 0
          /\ by \in OnATree(r) /\ r[by].iLevel = r[p].iLevel - 1 /\ p \in r[by].iTrustList
    BY <1>1, <1>2 DEF Spread
  <2>3. \A q \in OnATree(r), p \in People :
          r[q].iLevel < n /\ p \in r[q].iTrustList =>
             p \in OnATree(r) /\ r[p].iLevel <= r[q].iLevel + 1
    BY <1>1, <1>2 DEF Spread
  <2>4. QED
    BY <1>3, <2>1, <2>2, <2>3 DEF Spread
<1>5. QED
  BY <1>1, <1>2, <1>4 DEF r

-----------------------------------------------------------------------------
\* The lists the items of a tree hold. Trust follows these, and nobody beyond the
\* last level is trusted.
Held(t) == [p \in DOMAIN t |-> t[p].iTrustList]
FollowsHeld(t, self) ==
    /\ TrustFollowsLists(t, self, Held(t))
    /\ \A p \in DOMAIN t : IsProfileTrusted(t, p) =>
          /\ t[p].iLevel <= KHowManyLevelsDeep
          /\ p # self => IsProfileTrusted(t, t[p].iTrustingOperator)

\* The levels are the lengths of the shortest paths.
LEMMA WithinLevels ==
    ASSUME NEW t, NEW self, NEW n \in Nat, Spread(t, self, n), DOMAIN t = OnATree(t),
           NEW m \in 0 .. n
    PROVE  \A p : p \in Within(Held(t), self, m) <=> p \in DOMAIN t /\ t[p].iLevel <= m
<1> USE DEF Spread
<1>1. PICK g : IsWithin(g, Held(t), self, m) /\ Within(Held(t), self, m) = g[m]
  BY WithinRecursion
<1>2. g[0] = {self} /\ \A i \in 1 .. m : g[i] = g[i - 1] \cup OnListsOf(Held(t), g[i - 1])
  BY <1>1 DEF IsWithin
<1> DEFINE Has(i) == \A p : p \in g[i] <=> p \in DOMAIN t /\ t[p].iLevel <= i
           T == {i \in 0 .. m : Has(i)}
<1>3. DOMAIN t \subseteq People
  BY DEF Regular, TreeOK
<1>4. 0 \in T
  BY <1>2
<1>5. ASSUME NEW i \in 1 .. m, i - 1 \in T PROVE i \in T
  <2> DEFINE S == g[i - 1]
  <2>1. /\ i - 1 < n /\ i \in 0 .. m
        /\ \A p : p \in S <=> p \in DOMAIN t /\ t[p].iLevel <= i - 1
    BY <1>5
  <2>2. g[i] = S \cup OnListsOf(Held(t), S)
    BY <1>2
  <2> HIDE DEF S
  <2>3. \A p : p \in g[i] <=> \/ p \in S
                              \/ p \in People /\ \E q \in S \cap DOMAIN t : p \in t[q].iTrustList
    BY <2>2 DEF OnListsOf, Held
  <2>4. ASSUME NEW p \in People, NEW q \in S, p \in t[q].iTrustList
        PROVE  p \in DOMAIN t /\ t[p].iLevel <= i
    <3>1. q \in OnATree(t) /\ t[q].iLevel <= i - 1 /\ t[q].iLevel \in 0 .. n
      BY <2>1
    <3>2. p \in OnATree(t) /\ t[p].iLevel <= t[q].iLevel + 1
      BY <2>1, <2>4, <3>1
    <3>3. t[p].iLevel \in 0 .. n
      BY <3>2
    <3>4. QED
      BY <3>1, <3>2, <3>3
  <2>5. ASSUME NEW p \in DOMAIN t, t[p].iLevel <= i
        PROVE  p \in S \/ (p \in People /\ \E q \in S \cap DOMAIN t : p \in t[q].iTrustList)
    <3>1. t[p].iLevel \in 0 .. n
      OBVIOUS
    <3>2. CASE t[p].iLevel <= i - 1
      BY <2>1, <3>2
    <3>3. CASE t[p].iLevel = i
      <4>1. p # self
        BY <3>3
      <4> DEFINE by == t[p].iTrustingOperator
      <4>2. by \in DOMAIN t /\ t[by].iLevel = i - 1 /\ p \in t[by].iTrustList
        BY <3>3, <4>1
      <4>3. by \in S
        BY <2>1, <4>2
      <4>4. QED
        BY <1>3, <4>2, <4>3
    <3>4. QED
      BY <2>5, <3>1, <3>2, <3>3
  <2>6. \A p \in S : t[p].iLevel <= i /\ p \in DOMAIN t
    <3>1. \A p \in S : p \in OnATree(t) /\ t[p].iLevel <= i - 1 /\ t[p].iLevel \in 0 .. n
      BY <2>1
    <3>2. QED
      BY <3>1
  <2>7. Has(i)
    BY <2>3, <2>4, <2>5, <2>6
  <2>8. QED
    BY <2>1, <2>7
<1> HIDE DEF T, Has
<1>6. m \in T
  BY <1>4, <1>5, UpToInduction
<1>7. QED
  BY <1>1, <1>6 DEF T, Has

\* Between two steps every item has a level.
Leveled(t) == TreeOK(t) /\ \A p \in DOMAIN t : t[p].iLevel \in Nat
\* The profile in use is the root of its tree.
OnTop(t, self) == self \in DOMAIN t /\ t[self].iLevel = 0 /\ t[self].iTrustingOperator # Nobody

LEMMA SpreadFollows ==
    ASSUME NEW t, NEW self, Spread(t, self, KHowManyLevelsDeep), DOMAIN t = OnATree(t)
    PROVE  Leveled(t) /\ OnTop(t, self) /\ FollowsHeld(t, self)
<1> DEFINE m == KHowManyLevelsDeep
<1>1. m \in Nat
  BY TreeAssumption
<1>2. \A k \in 0 .. m : \A p : p \in Within(Held(t), self, k) <=> p \in DOMAIN t /\ t[p].iLevel <= k
  BY <1>1, WithinLevels
<1>3. \A p \in DOMAIN t : IsProfileTrusted(t, p) /\ t[p].iTrustingOperator # Nobody
  BY KeysAssumption DEF IsProfileTrusted, Spread, Regular
<1>4. \A p \in DOMAIN t : t[p].iLevel \in 0 .. m
  BY DEF Spread
<1>5. {p \in DOMAIN t : IsProfileTrusted(t, p)} = Within(Held(t), self, m)
  BY <1>1, <1>2, <1>3, <1>4
<1>6. ASSUME NEW p \in DOMAIN t
      PROVE  LET by == t[p].iTrustingOperator IN
             /\ p \in Within(Held(t), self, t[p].iLevel)
             /\ p # self => /\ t[p].iLevel > 0
                            /\ p \notin Within(Held(t), self, t[p].iLevel - 1)
                            /\ by \in DOMAIN t /\ p \in Held(t)[by]
                            /\ t[by].iLevel = t[p].iLevel - 1
  <2> DEFINE k == t[p].iLevel
  <2>1. k \in 0 .. m
    BY <1>4
  <2>2. p \in Within(Held(t), self, k)
    BY <1>2, <2>1
  <2>3. CASE p # self
    <3> DEFINE by == t[p].iTrustingOperator
    <3>1. k > 0 /\ by \in DOMAIN t /\ p \in t[by].iTrustList /\ t[by].iLevel = k - 1
      BY <2>3 DEF Spread
    <3>2. p \notin Within(Held(t), self, k - 1)
      <4> HIDE DEF k, m
      <4>1. k - 1 \in 0 .. m /\ ~(k <= k - 1)
        BY <1>1, <2>1, <3>1
      <4>2. QED
        BY <1>2, <4>1 DEF k
    <3>3. p \in Held(t)[by]
      BY <3>1 DEF Held
    <3>4. QED
      BY <2>2, <3>1, <3>2, <3>3
  <2>4. QED
    BY <2>2, <2>3
<1>7. FollowsHeld(t, self)
  <2>1. TrustFollowsLists(t, self, Held(t))
    BY <1>5, <1>6 DEF TrustFollowsLists
  <2>2. \A p \in DOMAIN t \ {self} : t[p].iTrustingOperator \in DOMAIN t
    BY DEF Spread
  <2>3. \A p \in DOMAIN t \ {self} : IsProfileTrusted(t, t[p].iTrustingOperator)
    BY <1>3, <2>2
  <2>4. QED
    BY <1>1, <1>4, <2>1, <2>3 DEF FollowsHeld
<1>8. Leveled(t) /\ OnTop(t, self)
  BY <1>1, <1>3, <1>4 DEF OnTop, Spread, Regular, Leveled
<1>9. QED
  BY <1>7, <1>8

\* The trust of the profile in use is calculated from any tree.
LEMMA RecalculatedFollows ==
    ASSUME NEW t, TreeOK(t), NEW self \in People, NEW given, self \in DOMAIN given
    PROVE  LET r == RecalculateTrust(t, self, given) IN
           Leveled(r) /\ OnTop(r, self) /\ FollowsHeld(r, self)
<1> DEFINE u == Placed(Unplaced(t), self, given)
<1>1. Spread(u, self, KHowManyLevelsDeep)
  BY PlacedSpreads
<1> HIDE DEF u
<1> DEFINE r == OnlyPlaced(u)
<1>2. Spread(r, self, KHowManyLevelsDeep) /\ DOMAIN r = OnATree(r)
  BY <1>1, TreeAssumption, OnlyPlacedSpreads
<1> HIDE DEF r
<1>3. RecalculateTrust(t, self, given) = r
  BY DEF RecalculateTrust, r, u
<1>4. QED
  BY <1>2, <1>3, SpreadFollows

\* A tree that has just been made is one too, also if the profile cannot be read.
LEMMA InitFollows ==
    ASSUME NEW self \in People, NEW given
    PROVE  LET r == InitModel(self, given) IN
           Leveled(r) /\ OnTop(r, self) /\ FollowsHeld(r, self)
<1> DEFINE zero == 0
           root == [DefaultItem EXCEPT !.iTrustingOperator = self, !.iLevel = zero]
           t == SetProfileTrustedInList(<<>>, self, self, zero, given)
<1>1. TreeOK(<<>>) /\ DOMAIN <<>> = {}
  BY DEF TreeOK
<1>2. Regular(<<>>) /\ OnATree(<<>>) = {}
  BY <1>1 DEF Regular, OnATree
<1>3. zero \in Nat
  OBVIOUS
<1> HIDE DEF zero
<1>4. Regular(t)
  BY <1>2, <1>3, PlacedItem
<1>5. InitModel(self, given) = IF self \notin DOMAIN given THEN t
                               ELSE RecalculateTrust(t, self, given)
  BY DEF InitModel, RecalculateTrust, zero
<1>6. CASE self \in DOMAIN given
  <2> HIDE DEF t
  <2>1. QED
    BY <1>4, <1>5, <1>6, RecalculatedFollows DEF Regular
<1>7. CASE self \notin DOMAIN given
  <2>1. t = With(<<>>, self, root)
    BY <1>7 DEF SetProfileTrustedInList, AsRead
  <2>2. DOMAIN t = {self} /\ t[self] = root
    BY <1>1, <2>1 DEF With
  <2>3. root.iLevel = 0 /\ root.iTrustList = {}
    BY DEF DefaultItem, zero
  <2> HIDE DEF t, root
  <2>4. OnATree(t) = {self}
    BY <2>2, <2>3 DEF OnATree
  <2>5. Spread(t, self, KHowManyLevelsDeep)
    BY <1>4, <2>2, <2>3, <2>4, TreeAssumption DEF Spread
  <2>6. QED
    BY <1>5, <1>7, <2>2, <2>4, <2>5, SpreadFollows
<1>8. QED
  BY <1>6, <1>7

-----------------------------------------------------------------------------
(***************************************************************************)
(* What is read. An item that is placed has its list from the database, or *)
(* had a name before and keeps the list it had.                            *)
(***************************************************************************)
IsRead(x, p, given) ==
    IF p \in DOMAIN given THEN x.named /\ x.iTrustList = given[p] ELSE ~x.named
Remembered(x, p, t) ==
    p \in DOMAIN t /\ t[p].named /\ x.named /\ x.iTrustList = t[p].iTrustList
ReadFrom(t, u, given) ==
    /\ TreeOK(u)
    /\ \A p \in DOMAIN u :
          \/ IsRead(u[p], p, given)
          \/ Remembered(u[p], p, t)
          \/ /\ u[p].iLevel = -1 /\ p \in DOMAIN t
             /\ u[p].named = t[p].named /\ u[p].iTrustList = t[p].iTrustList

LEMMA PlacedIsRead ==
    ASSUME NEW t, NEW given, NEW u, ReadFrom(t, u, given),
           NEW p \in People, NEW by, NEW level
    PROVE  ReadFrom(t, SetProfileTrustedInList(u, p, by, level, given), given)
<1> DEFINE v == SetProfileTrustedInList(u, p, by, level, given)
           known == p \in DOMAIN u /\ u[p].iTrustingOperator # Nobody
           placed == [u[p] EXCEPT !.iLevel = level, !.iTrustingOperator = by]
           new == [DefaultItem EXCEPT !.iTrustingOperator = by, !.iLevel = level]
           x == IF ~known THEN AsRead(new, p, given)
                ELSE IF placed.named THEN placed ELSE AsRead(placed, p, given)
<1>1. v = u \/ (v = With(u, p, x) /\ (known => u[p].iLevel = -1))
  <2>1. v = IF ~known THEN With(u, p, AsRead(new, p, given))
            ELSE IF u[p].iLevel # -1 THEN u
            ELSE With(u, p, IF placed.named THEN placed ELSE AsRead(placed, p, given))
    BY Zenon DEF SetProfileTrustedInList
  <2> HIDE DEF known, new, placed, v
  <2>2. CASE ~known
    BY <2>1, <2>2
  <2>3. CASE known
    BY <2>1, <2>3
  <2>4. QED
    BY <2>2, <2>3
<1>2. IsItem(new) /\ ~new.named
  BY DEF IsItem, ItemFields, DefaultItem
<1>3. known => IsItem(placed) /\ placed.named = u[p].named /\ placed.iTrustList = u[p].iTrustList
  <2>1. known => IsItem(u[p])
    BY DEF ReadFrom, TreeOK
  <2>2. QED
    BY <2>1 DEF IsItem, ItemFields
<1>4. ASSUME NEW y, IsItem(y), ~y.named
      PROVE  IsItem(AsRead(y, p, given)) /\ IsRead(AsRead(y, p, given), p, given)
  <2>1. CASE p \in DOMAIN given
    BY <1>4, <2>1 DEF AsRead, IsRead, IsItem, ItemFields
  <2>2. CASE p \notin DOMAIN given
    BY <1>4, <2>2 DEF AsRead, IsRead
  <2>3. QED
    BY <2>1, <2>2
<1> HIDE DEF placed, new
<1>5. ASSUME known => u[p].iLevel = -1
      PROVE  IsItem(x) /\ (IsRead(x, p, given) \/ Remembered(x, p, t))
  <2>1. CASE ~known
    BY <1>2, <1>4, <2>1
  <2>2. CASE known /\ ~placed.named
    BY <1>3, <1>4, <2>2
  <2>3. CASE known /\ placed.named
    <3>1. x = placed /\ p \in DOMAIN u
      BY <2>3
    <3>2. u[p].named
      BY <1>3, <2>3
    <3>3. CASE IsRead(u[p], p, given)
      BY <1>3, <2>3, <3>1, <3>2, <3>3 DEF IsRead
    <3>4. CASE Remembered(u[p], p, t)
      BY <1>3, <2>3, <3>1, <3>2, <3>4 DEF Remembered
    <3>5. CASE /\ u[p].iLevel = -1 /\ p \in DOMAIN t
               /\ u[p].named = t[p].named /\ u[p].iTrustList = t[p].iTrustList
      BY <1>3, <2>3, <3>1, <3>2, <3>5 DEF Remembered
    <3>6. QED
      BY <3>1, <3>3, <3>4, <3>5 DEF ReadFrom
  <2>4. QED
    BY <2>1, <2>2, <2>3
<1> HIDE DEF x, known
<1>6. CASE v = u
  BY <1>6
<1>7. CASE v = With(u, p, x) /\ (known => u[p].iLevel = -1)
  <2>1. /\ DOMAIN v = DOMAIN u \cup {p} /\ v[p] = x
        /\ \A q \in DOMAIN u \ {p} : v[q] = u[q]
    BY <1>7 DEF With
  <2>2. TreeOK(v)
    BY <1>5, <1>7, WithOK DEF ReadFrom
  <2>3. IsRead(v[p], p, given) \/ Remembered(v[p], p, t)
    BY <1>5, <1>7, <2>1
  <2>4. \A q \in DOMAIN v : q = p \/ (q \in DOMAIN u /\ v[q] = u[q])
    BY <2>1
  <2> HIDE DEF v
  <2>5. ReadFrom(t, v, given)
    BY <2>2, <2>3, <2>4 DEF ReadFrom
  <2>6. QED
    BY <2>5 DEF v
<1>8. QED
  BY <1>1, <1>6, <1>7

LEMMA HandedIsRead ==
    ASSUME NEW t, NEW given, NEW u, ReadFrom(t, u, given), NEW p, NEW level
    PROVE  ReadFrom(t, HandedDown(u, p, level, given), given)
<1> DEFINE m == Len(HashOrder)
           k == level + 1
<1>1. PICK g : IsHanded(g, u, p, level, given) /\ HandedDown(u, p, level, given) = g[m]
  BY HandedRecursion
<1>2. /\ g[0] = u
      /\ \A i \in 1 .. m : g[i] = IF HashOrder[i] \in u[p].iTrustList
                                  THEN SetProfileTrustedInList(g[i - 1], HashOrder[i], p, k, given)
                                  ELSE g[i - 1]
  BY <1>1 DEF IsHanded
<1> HIDE DEF k
<1> DEFINE T == {i \in 0 .. m : ReadFrom(t, g[i], given)}
<1>3. m \in Nat /\ \A i \in 1 .. m : HashOrder[i] \in People
  BY TreeAssumption, LenProperties, ElementOfSeq
<1>4. 0 \in T
  BY <1>2, <1>3
<1>5. ASSUME NEW i \in 1 .. m, i - 1 \in T PROVE i \in T
  <2>1. ReadFrom(t, g[i - 1], given) /\ HashOrder[i] \in People /\ i \in 0 .. m
    BY <1>3, <1>5
  <2>2. ReadFrom(t, SetProfileTrustedInList(g[i - 1], HashOrder[i], p, k, given), given)
    BY <2>1, PlacedIsRead
  <2>3. g[i] = g[i - 1] \/ g[i] = SetProfileTrustedInList(g[i - 1], HashOrder[i], p, k, given)
    BY <1>2
  <2>4. QED
    BY <2>1, <2>2, <2>3
<1> HIDE DEF T, m
<1>6. m \in T
  BY <1>3, <1>4, <1>5, UpToInduction
<1>7. QED
  BY <1>1, <1>6 DEF T

LEMMA LevelIsRead ==
    ASSUME NEW t, NEW given, NEW u, ReadFrom(t, u, given), NEW level
    PROVE  ReadFrom(t, OneLevel(u, level, given), given)
<1> DEFINE m == Len(HashOrder)
<1>1. PICK g : IsLevel(g, u, level, given) /\ OneLevel(u, level, given) = g[m]
  BY LevelRecursion
<1>2. g[0] = u /\ \A i \in 1 .. m : g[i] = Visited(g[i - 1], HashOrder[i], level, given)
  BY <1>1 DEF IsLevel
<1> DEFINE T == {i \in 0 .. m : ReadFrom(t, g[i], given)}
<1>3. m \in Nat
  BY TreeAssumption, LenProperties
<1>4. 0 \in T
  BY <1>2, <1>3
<1>5. ASSUME NEW i \in 1 .. m, i - 1 \in T PROVE i \in T
  <2>1. ReadFrom(t, g[i - 1], given) /\ i \in 0 .. m
    BY <1>3, <1>5
  <2>2. ReadFrom(t, HandedDown(g[i - 1], HashOrder[i], level, given), given)
    BY <2>1, HandedIsRead
  <2>3. g[i] = g[i - 1] \/ g[i] = HandedDown(g[i - 1], HashOrder[i], level, given)
    BY <1>2 DEF Visited
  <2>4. QED
    BY <2>1, <2>2, <2>3
<1> HIDE DEF T, m
<1>6. m \in T
  BY <1>3, <1>4, <1>5, UpToInduction
<1>7. QED
  BY <1>1, <1>6 DEF T

LEMMA TreeIsRead ==
    ASSUME NEW t, NEW given, NEW u, ReadFrom(t, u, given), NEW self \in People
    PROVE  ReadFrom(t, Placed(u, self, given), given)
<1> DEFINE m == KHowManyLevelsDeep
           zero == 0
<1>1. PICK g : IsPlaced(g, u, self, given) /\ Placed(u, self, given) = g[m]
  BY PlacedRecursion
<1>2. /\ g[0] = SetProfileTrustedInList(u, self, self, zero, given)
      /\ \A i \in 1 .. m : g[i] = OneLevel(g[i - 1], i - 1, given)
  BY <1>1 DEF IsPlaced
<1> HIDE DEF zero
<1>3. m \in Nat
  BY TreeAssumption
<1> DEFINE T == {i \in 0 .. m : ReadFrom(t, g[i], given)}
<1>4. 0 \in T
  <2>1. ReadFrom(t, g[0], given)
    BY <1>2, PlacedIsRead
  <2>2. QED
    BY <1>3, <2>1
<1>5. ASSUME NEW i \in 1 .. m, i - 1 \in T PROVE i \in T
  <2> DEFINE level == i - 1
  <2>1. ReadFrom(t, g[level], given) /\ i \in 0 .. m /\ g[i] = OneLevel(g[level], level, given)
    BY <1>2, <1>3, <1>5
  <2> HIDE DEF level
  <2>2. ReadFrom(t, g[i], given)
    BY <2>1, LevelIsRead
  <2>3. QED
    BY <2>1, <2>2
<1> HIDE DEF T, m
<1>6. m \in T
  BY <1>3, <1>4, <1>5, UpToInduction
<1>7. QED
  BY <1>1, <1>6 DEF T

\* After trust was calculated.
LEMMA RecalculatedIsRead ==
    ASSUME NEW t, TreeOK(t), NEW self \in People, NEW given, self \in DOMAIN given
    PROVE  LET r == RecalculateTrust(t, self, given) IN
           \A p \in DOMAIN r : IsRead(r[p], p, given) \/ Remembered(r[p], p, t)
<1> DEFINE first == Unplaced(t)
           u == Placed(first, self, given)
           r == OnlyPlaced(u)
<1>1. ReadFrom(t, first, given)
  <2>1. TreeOK(first)
    BY UnplacedOK DEF Regular
  <2>2. \A p \in DOMAIN first : p \in DOMAIN t /\ first[p] = [t[p] EXCEPT !.iLevel = -1]
    BY DEF Unplaced
  <2>3. \A p \in DOMAIN first : IsItem(t[p])
    BY <2>2 DEF TreeOK
  <2> HIDE DEF first
  <2>4. ASSUME NEW p \in DOMAIN first
        PROVE  /\ first[p].iLevel = -1 /\ first[p].named = t[p].named
               /\ first[p].iTrustList = t[p].iTrustList
    BY <2>2, <2>3 DEF IsItem, ItemFields
  <2>5. QED
    BY <2>1, <2>2, <2>4 DEF ReadFrom
<1> HIDE DEF first
<1>2. ReadFrom(t, u, given)
  BY <1>1, TreeIsRead
<1>3. RecalculateTrust(t, self, given) = r
  BY DEF RecalculateTrust, first
<1> HIDE DEF u
<1>4. \A p \in DOMAIN r : p \in DOMAIN u /\ u[p].iLevel # -1 /\ r[p] = u[p]
  BY DEF OnlyPlaced
<1> HIDE DEF r
<1>5. \A p \in DOMAIN r : IsRead(r[p], p, given) \/ Remembered(r[p], p, t)
  BY <1>2, <1>4 DEF ReadFrom
<1>6. QED
  BY <1>3, <1>5

\* A tree that is made anew has read everything that can be read.
LEMMA InitIsRead ==
    ASSUME NEW self \in People, NEW given
    PROVE  LET r == InitModel(self, given) IN \A p \in DOMAIN r : IsRead(r[p], p, given)
<1> DEFINE none == <<>>
           zero == 0
           t == SetProfileTrustedInList(none, self, self, zero, given)
           r == RecalculateTrust(t, self, given)
<1>1. InitModel(self, given) = r
  BY DEF InitModel
<1>2. ReadFrom(none, none, given) /\ DOMAIN none = {}
  BY DEF ReadFrom, TreeOK
<1> HIDE DEF none, zero
<1>3. ReadFrom(none, t, given)
  BY <1>2, PlacedIsRead
<1> HIDE DEF t
<1>4. TreeOK(t) /\ \A p \in DOMAIN t : IsRead(t[p], p, given)
  BY <1>2, <1>3 DEF ReadFrom, Remembered
<1>5. CASE self \notin DOMAIN given
  BY <1>1, <1>4, <1>5 DEF RecalculateTrust
<1>6. CASE self \in DOMAIN given
  <2>1. \A p \in DOMAIN r : IsRead(r[p], p, given) \/ Remembered(r[p], p, t)
    BY <1>4, <1>6, RecalculatedIsRead
  <2> HIDE DEF r
  <2>2. \A p \in DOMAIN r : Remembered(r[p], p, t) => IsRead(r[p], p, given)
    BY <1>4 DEF Remembered, IsRead
  <2>3. QED
    BY <1>1, <2>1, <2>2
<1>7. QED
  BY <1>5, <1>6

-----------------------------------------------------------------------------
(***************************************************************************)
(* Changes of one item.                                                    *)
(***************************************************************************)

LEMMA WithinPrefix ==
    ASSUME NEW given, NEW self, NEW m \in Nat, NEW g, IsWithin(g, given, self, m), NEW k \in 0 .. m
    PROVE  Within(given, self, k) = g[k]
<1>1. PICK h : IsWithin(h, given, self, k) /\ Within(given, self, k) = h[k]
  BY WithinRecursion
<1>2. g[0] = {self} /\ \A i \in 1 .. m : g[i] = g[i - 1] \cup OnListsOf(given, g[i - 1])
  BY DEF IsWithin
<1>3. h[0] = {self} /\ \A i \in 1 .. k : h[i] = h[i - 1] \cup OnListsOf(given, h[i - 1])
  BY <1>1 DEF IsWithin
<1> DEFINE T == {i \in 0 .. k : g[i] = h[i]}
<1>4. 0 \in T
  <2>1. 0 \in 0 .. k /\ g[0] = h[0]
    BY <1>2, <1>3
  <2>2. QED
    BY <2>1
<1>5. ASSUME NEW i \in 1 .. k, i - 1 \in T PROVE i \in T
  <2>1. g[i - 1] = h[i - 1] /\ i \in 0 .. k /\ i \in 1 .. m
    BY <1>5
  <2>2. g[i] = g[i - 1] \cup OnListsOf(given, g[i - 1])
    BY <1>2, <2>1
  <2>3. h[i] = h[i - 1] \cup OnListsOf(given, h[i - 1])
    BY <1>3
  <2>4. g[i] = h[i]
    BY <2>1, <2>2, <2>3
  <2>5. QED
    BY <2>1, <2>4
<1> HIDE DEF T
<1>6. k \in T
  BY <1>4, <1>5, UpToInduction
<1>7. QED
  BY <1>1, <1>6 DEF T

\* What is found depends only on the lists of those that are found.
LEMMA SameWithin ==
    ASSUME NEW t, NEW u, NEW self, NEW m \in Nat,
           \A p \in Within(t, self, m) : \A q : p \in DOMAIN t /\ q \in t[p] <=>
                                                p \in DOMAIN u /\ q \in u[p]
    PROVE  \A k \in 0 .. m : Within(u, self, k) = Within(t, self, k)
<1>1. PICK g : IsWithin(g, t, self, m) /\ Within(t, self, m) = g[m]
  BY WithinRecursion
<1>2. PICK h : IsWithin(h, u, self, m) /\ Within(u, self, m) = h[m]
  BY WithinRecursion
<1>3. g[0] = {self} /\ \A i \in 1 .. m : g[i] = g[i - 1] \cup OnListsOf(t, g[i - 1])
  BY <1>1 DEF IsWithin
<1>4. h[0] = {self} /\ \A i \in 1 .. m : h[i] = h[i - 1] \cup OnListsOf(u, h[i - 1])
  BY <1>2 DEF IsWithin
<1>5. \A i \in 0 .. m : g[i] \subseteq g[m]
  <2> DEFINE T == {i \in 0 .. m : \A j \in 0 .. i : g[j] \subseteq g[i]}
  <2>1. 0 \in T
    OBVIOUS
  <2>2. ASSUME NEW i \in 1 .. m, i - 1 \in T PROVE i \in T
    <3>1. g[i - 1] \subseteq g[i]
      BY <1>3
    <3>2. \A j \in 0 .. i : j \in 0 .. (i - 1) \/ j = i
      OBVIOUS
    <3>3. \A j \in 0 .. (i - 1) : g[j] \subseteq g[i - 1]
      BY <2>2
    <3>4. \A j \in 0 .. i : g[j] \subseteq g[i]
      BY <3>1, <3>2, <3>3
    <3>5. QED
      BY <3>4
  <2> HIDE DEF T
  <2>3. m \in T
    BY <2>1, <2>2, UpToInduction
  <2>4. QED
    BY <2>3 DEF T
<1>6. ASSUME NEW S, S \subseteq g[m] PROVE OnListsOf(t, S) = OnListsOf(u, S)
  <2>1. \A q : (\E p \in S \cap DOMAIN t : q \in t[p]) <=> (\E p \in S \cap DOMAIN u : q \in u[p])
    BY <1>1, <1>6
  <2>2. QED
    BY <2>1 DEF OnListsOf
<1> DEFINE T == {i \in 0 .. m : g[i] = h[i]}
<1>7. 0 \in T
  BY <1>3, <1>4
<1>8. ASSUME NEW i \in 1 .. m, i - 1 \in T PROVE i \in T
  <2>1. g[i - 1] = h[i - 1] /\ i \in 0 .. m /\ i - 1 \in 0 .. m
    BY <1>8
  <2>2. g[i] = g[i - 1] \cup OnListsOf(t, g[i - 1])
    BY <1>3
  <2>3. h[i] = h[i - 1] \cup OnListsOf(u, h[i - 1])
    BY <1>4
  <2>4. OnListsOf(t, g[i - 1]) = OnListsOf(u, g[i - 1])
    BY <1>5, <1>6, <2>1
  <2>5. g[i] = h[i]
    BY <2>1, <2>2, <2>3, <2>4
  <2>6. QED
    BY <2>1, <2>5
<1> HIDE DEF T
<1>9. 0 .. m \subseteq T
  BY <1>7, <1>8, UpToInduction
<1>10. \A k \in 0 .. m : Within(t, self, k) = g[k] /\ Within(u, self, k) = h[k]
  BY <1>1, <1>2, WithinPrefix
<1>11. QED
  BY <1>9, <1>10 DEF T

\* A profile that is received gets an item that says nothing, or trust is
\* calculated.
LEMMA ReceivedFollows ==
    ASSUME NEW t, Leveled(t), NEW p \in People, NEW self, NEW given,
           DOMAIN given \subseteq People
    PROVE  LET r == ProfileReceived(t, p, self, given) IN
           /\ Leveled(r)
           /\ OnTop(t, self) => OnTop(r, self)
           /\ FollowsHeld(t, self) => FollowsHeld(r, self)
           /\ self \in DOMAIN given /\ IsProfileTrusted(t, p) => FollowsHeld(r, self)
<1> DEFINE r == ProfileReceived(t, p, self, given)
           x == DefaultItem
           w == With(t, p, x)
<1>1. x.iTrustingOperator = Nobody /\ x.iTrustList = {} /\ x.iLevel = 0 /\ IsItem(x)
  BY DEF DefaultItem, IsItem, ItemFields
<1> HIDE DEF x
<1>2. /\ DOMAIN w = DOMAIN t \cup {p} /\ w[p] = x
      /\ \A q \in DOMAIN t \ {p} : w[q] = t[q]
  BY DEF With
<1>3. TreeOK(w)
  BY <1>1, WithOK DEF Leveled
<1> HIDE DEF w
<1>4. r = IF IsProfileTrusted(t, p) THEN RecalculateTrust(t, self, given)
          ELSE IF p \in DOMAIN t THEN t ELSE w
  <2>1. CASE p \in DOMAIN t
    BY <2>1 DEF ProfileReceived, IsProfileTrusted
  <2>2. CASE p \notin DOMAIN t
    BY <1>1, <1>2, <2>2 DEF ProfileReceived, IsProfileTrusted, w, x
  <2>3. QED BY <2>1, <2>2
<1> HIDE DEF r
<1>5. CASE IsProfileTrusted(t, p)
  <2>1. CASE self \in DOMAIN given
    <3>1. self \in People
      BY <2>1
    <3>2. Leveled(r) /\ OnTop(r, self) /\ FollowsHeld(r, self)
      BY <1>4, <1>5, <2>1, <3>1, RecalculatedFollows DEF Leveled
    <3>3. QED
      BY <3>2 DEF r
  <2>2. CASE self \notin DOMAIN given
    <3>1. r = t
      BY <1>4, <1>5, <2>2 DEF RecalculateTrust
    <3>2. QED
      BY <2>2, <3>1 DEF r
  <2>3. QED BY <2>1, <2>2
<1>6. CASE ~IsProfileTrusted(t, p) /\ p \in DOMAIN t
  <2>1. r = t
    BY <1>4, <1>6
  <2>2. QED
    BY <1>6, <2>1 DEF r
<1>7. CASE p \notin DOMAIN t
  <2>1. r = w /\ ~IsProfileTrusted(t, p)
    BY <1>4, <1>7 DEF IsProfileTrusted
  <2>2. \A q \in DOMAIN t : q \in DOMAIN w /\ w[q] = t[q]
    BY <1>2, <1>7
  <2>3. OnTop(t, self) => OnTop(w, self)
    BY <2>2 DEF OnTop
  <2>4. ASSUME FollowsHeld(t, self) PROVE FollowsHeld(w, self)
    <3>1. \A m \in Nat : Within(Held(w), self, m) = Within(Held(t), self, m)
      <4>1. \A a, b : a \in DOMAIN Held(t) /\ b \in Held(t)[a] <=>
                         a \in DOMAIN Held(w) /\ b \in Held(w)[a]
        BY <1>1, <1>2, <2>2 DEF Held
      <4>2. QED
        BY <4>1, SameWithin
    <3>2. \A q : q \in DOMAIN w /\ IsProfileTrusted(w, q)
                 <=> q \in DOMAIN t /\ IsProfileTrusted(t, q)
      BY <1>1, <1>2, <2>2 DEF IsProfileTrusted
    <3>3. KHowManyLevelsDeep \in Nat
      BY TreeAssumption
    <3>4. {q \in DOMAIN w : IsProfileTrusted(w, q)} = Within(Held(w), self, KHowManyLevelsDeep)
      BY <2>4, <3>1, <3>2, <3>3 DEF FollowsHeld, TrustFollowsLists
    <3>5. ASSUME NEW q \in DOMAIN w, IsProfileTrusted(w, q)
          PROVE  LET by == w[q].iTrustingOperator IN
                 /\ q \in Within(Held(w), self, w[q].iLevel)
                 /\ q # self => /\ w[q].iLevel > 0
                                /\ q \notin Within(Held(w), self, w[q].iLevel - 1)
                                /\ by \in DOMAIN w /\ q \in Held(w)[by]
                                /\ w[by].iLevel = w[q].iLevel - 1
      <4> DEFINE k == t[q].iLevel
                 by == t[q].iTrustingOperator
      <4>1. q \in DOMAIN t /\ IsProfileTrusted(t, q) /\ w[q] = t[q]
        BY <2>2, <3>2, <3>5
      <4>2. /\ q \in Within(Held(t), self, k)
            /\ q # self => /\ k > 0 /\ q \notin Within(Held(t), self, k - 1)
                           /\ by \in DOMAIN t /\ q \in Held(t)[by]
                           /\ t[by].iLevel = k - 1
        BY <2>4, <4>1 DEF FollowsHeld, TrustFollowsLists
      <4>3. k \in Nat
        BY <4>1 DEF Leveled
      <4> HIDE DEF k
      <4>4. q # self => k - 1 \in Nat
        BY <4>2, <4>3
      <4>5. by \in DOMAIN t => by \in DOMAIN w /\ w[by] = t[by] /\ Held(w)[by] = Held(t)[by]
        BY <2>2 DEF Held
      <4>6. QED
        BY <3>1, <4>1, <4>2, <4>3, <4>4, <4>5 DEF k
    <3>6. ASSUME NEW q \in DOMAIN w, IsProfileTrusted(w, q)
          PROVE  /\ w[q].iLevel <= KHowManyLevelsDeep
                 /\ q # self => IsProfileTrusted(w, w[q].iTrustingOperator)
      <4>1. q \in DOMAIN t /\ IsProfileTrusted(t, q) /\ w[q] = t[q]
        BY <2>2, <3>2, <3>6
      <4>2. \A c : IsProfileTrusted(t, c) => IsProfileTrusted(w, c)
        BY <2>2 DEF IsProfileTrusted
      <4>3. QED
        BY <2>4, <4>1, <4>2 DEF FollowsHeld
    <3>7. TrustFollowsLists(w, self, Held(w))
      BY <3>4, <3>5 DEF TrustFollowsLists
    <3>8. QED
      BY <3>6, <3>7 DEF FollowsHeld
  <2>5. Leveled(w)
    BY <1>1, <1>2, <1>3 DEF Leveled
  <2>6. QED
    BY <2>1, <2>3, <2>4, <2>5 DEF r
<1>8. QED
  BY <1>5, <1>6, <1>7

\* The list of the profile in use is taken, also if trust cannot be calculated.
LEMMA OfferedFollows ==
    ASSUME NEW t, Leveled(t), NEW list, NEW self, NEW given
    PROVE  LET r == OfferTrustList(t, self, list, self, given) IN
           /\ Leveled(r)
           /\ self \notin DOMAIN t => r = t
           /\ OnTop(t, self) => OnTop(r, self)
           /\ OnTop(t, self) /\ self \in DOMAIN given => FollowsHeld(r, self)
<1> DEFINE r == OfferTrustList(t, self, list, self, given)
           x == [iTrustingOperator |-> self, named |-> FALSE,
                 iTrustList |-> list, iLevel |-> t[self].iLevel]
           w == With(t, self, x)
           takes == /\ self \in DOMAIN t /\ t[self].iTrustingOperator # Nobody
                    /\ t[self].iLevel < KHowManyLevelsDeep
<1>1. r = IF takes THEN RecalculateTrust(w, self, given) ELSE t
  BY DEF OfferTrustList
<1>2. IsItem(x) /\ x.iTrustingOperator = self /\ x.iLevel = t[self].iLevel
  BY DEF IsItem, ItemFields
<1> HIDE DEF x
<1>3. /\ DOMAIN w = DOMAIN t \cup {self} /\ w[self] = x
      /\ \A q \in DOMAIN t \ {self} : w[q] = t[q]
  BY DEF With
<1>4. self \in DOMAIN t => self \in People /\ TreeOK(w)
  BY <1>2, WithOK DEF Leveled, TreeOK
<1> HIDE DEF w, r
<1>5. OnTop(t, self) => takes
  BY TreeAssumption DEF OnTop
<1>6. CASE ~takes
  BY <1>1, <1>5, <1>6 DEF r
<1>7. CASE takes /\ self \notin DOMAIN given
  <2>1. r = w
    BY <1>1, <1>7 DEF RecalculateTrust
  <2>2. Leveled(w)
    BY <1>2, <1>3, <1>4, <1>7 DEF Leveled
  <2>3. OnTop(w, self) \/ ~OnTop(t, self)
    BY <1>2, <1>3, <1>4, <1>7, KeysAssumption DEF OnTop
  <2>4. QED
    BY <1>7, <2>1, <2>2, <2>3 DEF r
<1>8. CASE takes /\ self \in DOMAIN given
  <2>1. r = RecalculateTrust(w, self, given)
    BY <1>1, <1>8
  <2>2. Leveled(r) /\ OnTop(r, self) /\ FollowsHeld(r, self)
    BY <1>4, <1>8, <2>1, RecalculatedFollows
  <2>3. QED
    BY <1>8, <2>2 DEF r
<1>9. QED
  BY <1>6, <1>7, <1>8

-----------------------------------------------------------------------------
(***************************************************************************)
(* The trust tree of the desk. TreeInv says of the state what the tree     *)
(* needs of it, "Around"; that the profile in use is at the top of its     *)
(* tree, which follows the lists in it unless it was changed only in part; *)
(* and that these are the lists that are stored: a list that was read is   *)
(* still the stored one, but for profiles that are "behind", and one that  *)
(* was not read cannot be, but for profiles of which the tree is yet to be *)
(* told, which are the ones in the queue and "just" those taken from it.   *)
(***************************************************************************)
PeopleOnly(s) == /\ DOMAIN s.privateKeys \subseteq Mine
                 /\ DOMAIN s.profiles \subseteq People
                 /\ DOMAIN s.profiles \subseteq s.publicKeys
ReceivedArePeople(s) == \A e \in ToSet(s.events) : e.kind = "profile" => e.of \in People
Around(s) == /\ QueueOK(s) /\ PeopleOnly(s) /\ ReceivedArePeople(s)
             /\ Leveled(s.tree) /\ s.profileInUse \in People \cup {Nobody}
IsRooted(s) ==
    s.profileInUse # Nobody =>
        /\ OnTop(s.tree, s.profileInUse)
        /\ s.patched \/ FollowsHeld(s.tree, s.profileInUse)
NamedAreStored(s) ==
    \A p \in DOMAIN s.tree \ s.behind :
        s.tree[p].named /\ p \in DOMAIN s.profiles
            => s.tree[p].iTrustList = s.profiles[p].iTrustList
OthersAreHidden(s, just) ==
    \/ s.patched
    \/ \A p \in DOMAIN s.tree \ (s.behind \cup Untold(s) \cup just) :
          IsProfileTrusted(s.tree, p) /\ ~s.tree[p].named => ~ProfileByFingerPrint(s, p)
ReadAsStored(s, just) == NamedAreStored(s) /\ OthersAreHidden(s, just)
TreeInvBut(s, just) == Around(s) /\ IsRooted(s) /\ ReadAsStored(s, just)
TreeInv(s) == TreeInvBut(s, {})

\* What most operations do with the tree: nothing.
LeavesTree(s, t) ==
    /\ Around(t)
    /\ t.tree = s.tree /\ t.patched = s.patched /\ t.profileInUse = s.profileInUse
    /\ \A just : ReadAsStored(s, just) => ReadAsStored(t, just)

LEMMA LeavingKeeps ==
    ASSUME NEW s, NEW t, LeavesTree(s, t), NEW just, TreeInvBut(s, just)
    PROVE  TreeInvBut(t, just)
BY DEF LeavesTree, TreeInvBut, IsRooted

LEMMA LeavesItself == ASSUME NEW s, Around(s) PROVE LeavesTree(s, s)
BY DEF LeavesTree

LEMMA LeavesBoth ==
    ASSUME NEW s, NEW t, LeavesTree(s, t), NEW u, LeavesTree(t, u)
    PROVE  LeavesTree(s, u)
BY DEF LeavesTree

LEMMA UntoldMembers ==
    ASSUME NEW s
    PROVE  \A p : p \in Untold(s) <=> \E e \in ToSet(s.events) : e.kind = "profile" /\ e.of = p
BY DEF Untold, ToSet

\* Lists may be stored if what is read is noted, and profiles become readable if
\* the tree will be told.
LEMMA TreeStays ==
    ASSUME NEW s, Around(s), NEW t, IsDesk(t), PeopleOnly(t), NEW more,
           t.tree = s.tree, t.patched = s.patched, t.profileInUse = s.profileInUse,
           t.events = s.events, s.behind \subseteq t.behind,
           \A p \in DOMAIN s.tree \ t.behind : s.tree[p].named /\ p \in DOMAIN t.profiles =>
              \/ /\ p \in DOMAIN s.profiles
                 /\ s.profiles[p].iTrustList = t.profiles[p].iTrustList
              \/ s.tree[p].iTrustList = t.profiles[p].iTrustList,
           \A p \in DOMAIN s.tree \ (t.behind \cup more) :
              ~s.tree[p].named /\ ProfileByFingerPrint(t, p) => ProfileByFingerPrint(s, p)
    PROVE  Around(t) /\ \A just : ReadAsStored(s, just) => ReadAsStored(t, just \cup more)
<1>1. Around(t)
  BY DEF Around, QueueOK, ReceivedArePeople
<1>2. ASSUME NEW just, ReadAsStored(s, just) PROVE ReadAsStored(t, just \cup more)
  <2>1. NamedAreStored(t)
    <3>1. SUFFICES ASSUME NEW p \in DOMAIN s.tree \ t.behind, s.tree[p].named,
                          p \in DOMAIN t.profiles
                   PROVE  s.tree[p].iTrustList = t.profiles[p].iTrustList
      BY DEF NamedAreStored
    <3>2. p \in DOMAIN s.profiles => s.tree[p].iTrustList = s.profiles[p].iTrustList
      BY <1>2, <3>1 DEF ReadAsStored, NamedAreStored
    <3>3. QED
      BY <3>1, <3>2
  <2>2. Untold(t) = Untold(s)
    BY DEF Untold
  <2>3. ASSUME ~s.patched,
               NEW p \in DOMAIN s.tree \ (t.behind \cup Untold(s) \cup (just \cup more)),
               IsProfileTrusted(s.tree, p), ~s.tree[p].named
        PROVE  ~ProfileByFingerPrint(t, p)
    <3>1. ~ProfileByFingerPrint(s, p)
      BY <1>2, <2>3 DEF ReadAsStored, OthersAreHidden
    <3>2. QED
      BY <2>3, <3>1
  <2>4. OthersAreHidden(t, just \cup more)
    BY <2>2, <2>3 DEF OthersAreHidden
  <2>5. QED
    BY <2>1, <2>4 DEF ReadAsStored
<1>3. QED
  BY <1>1, <1>2

\* Nothing becomes readable where no key of the profile in use does.
LEMMA SameTree ==
    ASSUME NEW s, Around(s), NEW t, IsDesk(t), PeopleOnly(t),
           t.tree = s.tree, t.patched = s.patched, t.profileInUse = s.profileInUse,
           t.events = s.events, t.behind = s.behind, t.profiles = s.profiles,
           Opens(t, s.profileInUse) => Opens(s, s.profileInUse)
    PROVE  LeavesTree(s, t)
<1>1. \A p : ProfileByFingerPrint(t, p) => ProfileByFingerPrint(s, p)
  BY DEF ProfileByFingerPrint, PublicKey, Decrypt, Around, PeopleOnly
<1> DEFINE none == {}
<1>2. Around(t) /\ \A just : ReadAsStored(s, just) => ReadAsStored(t, just \cup none)
  BY <1>1, TreeStays
<1>3. \A just : just \cup none = just
  OBVIOUS
<1> HIDE DEF none
<1>4. QED
  BY <1>2, <1>3 DEF LeavesTree

FarFromTree == Fields \ {"tree", "patched", "behind", "profileInUse", "events", "privateKeys",
                         "profiles", "publicKeys", "contentKeyPasswd"}

LEMMA OthersLeaveTree ==
    ASSUME NEW s, Around(s), NEW t, Changes(s, t, FarFromTree)
    PROVE  LeavesTree(s, t)
<1>1. /\ t.tree = s.tree /\ t.patched = s.patched /\ t.profileInUse = s.profileInUse
      /\ t.events = s.events /\ t.privateKeys = s.privateKeys /\ t.profiles = s.profiles
      /\ t.behind = s.behind /\ t.publicKeys = s.publicKeys
      /\ t.contentKeyPasswd = s.contentKeyPasswd /\ IsDesk(t)
  BY DEF Changes, FarFromTree, Fields
<1>2. PeopleOnly(t) /\ (Opens(t, s.profileInUse) => Opens(s, s.profileInUse))
  BY <1>1 DEF Around, PeopleOnly, Opens, PrivateKey, PrivateKeyFromPem
<1>3. QED
  BY <1>1, <1>2, SameTree

\* What an event says of a profile.
Says(e) == IF e.kind = "profile" THEN {e.of} ELSE {}

LEMMA EventToldToTree ==
    ASSUME NEW s, NEW t, Changes(s, t, {"events"}),
           NEW e \in DeskEvent, e.kind = "profile" => e.of \in People,
           t.events = Append(s.events, e), TreeInvBut(s, Says(e))
    PROVE  TreeInv(t)
<1>1. t.events \in Seq(DeskEvent) /\ ToSet(t.events) = ToSet(s.events) \cup {e}
  BY AppendMembers DEF TreeInvBut, Around, QueueOK
<1>2. /\ t.tree = s.tree /\ t.patched = s.patched /\ t.profileInUse = s.profileInUse
      /\ t.privateKeys = s.privateKeys /\ t.profiles = s.profiles /\ IsDesk(t)
      /\ t.behind = s.behind /\ t.publicKeys = s.publicKeys
      /\ t.contentKeyPasswd = s.contentKeyPasswd
  BY DEF Changes, Fields
<1>3. Around(t) /\ IsRooted(t)
  <2>1. IsRooted(t) /\ PeopleOnly(t)
    BY <1>2 DEF TreeInvBut, Around, IsRooted, PeopleOnly
  <2>2. ReceivedArePeople(t)
    BY <1>1 DEF TreeInvBut, Around, ReceivedArePeople
  <2>3. QED
    BY <1>1, <1>2, <2>1, <2>2 DEF TreeInvBut, Around, QueueOK
<1>4. Untold(t) = Untold(s) \cup Says(e)
  <2>1. \A p : p \in Untold(t) <=> p \in Untold(s) \/ (e.kind = "profile" /\ e.of = p)
    <3>1. \A p : p \in Untold(t) <=> \E x \in ToSet(t.events) : x.kind = "profile" /\ x.of = p
      BY UntoldMembers
    <3>2. \A p : p \in Untold(s) <=> \E x \in ToSet(s.events) : x.kind = "profile" /\ x.of = p
      BY UntoldMembers
    <3>3. \A x : x \in ToSet(t.events) <=> x \in ToSet(s.events) \/ x = e
      BY <1>1
    <3>4. QED
      BY <3>1, <3>2, <3>3, Zenon
  <2>2. \A p : p \in Says(e) <=> (e.kind = "profile" /\ e.of = p)
    BY DEF Says
  <2>3. QED
    BY <2>1, <2>2
<1>5. \A p : ProfileByFingerPrint(t, p) <=> ProfileByFingerPrint(s, p)
  BY <1>2 DEF ProfileByFingerPrint, PublicKey, Decrypt, Opens, PrivateKey, PrivateKeyFromPem
<1>6. ReadAsStored(t, {})
  BY <1>2, <1>4, <1>5 DEF TreeInvBut, ReadAsStored, NamedAreStored, OthersAreHidden
<1>7. QED
  BY <1>3, <1>6 DEF TreeInv, TreeInvBut

LEMMA EventTakenFromTree ==
    ASSUME NEW s, TreeInv(s), s.events # <<>>, NEW t, Changes(s, t, {"events"}),
           t.events = Tail(s.events)
    PROVE  LET e == Head(s.events) IN
           TreeInvBut(t, Says(e)) /\ (e.kind = "profile" => e.of \in People)
<1> DEFINE e == Head(s.events)
<1>1. /\ t.events \in Seq(DeskEvent) /\ ToSet(s.events) = {e} \cup ToSet(t.events)
  BY TailMembers DEF TreeInv, TreeInvBut, Around, QueueOK
<1> HIDE DEF e
<1>2. /\ t.tree = s.tree /\ t.patched = s.patched /\ t.profileInUse = s.profileInUse
      /\ t.privateKeys = s.privateKeys /\ t.profiles = s.profiles /\ IsDesk(t)
      /\ t.behind = s.behind /\ t.publicKeys = s.publicKeys
      /\ t.contentKeyPasswd = s.contentKeyPasswd
  BY DEF Changes, Fields
<1>3. Around(t) /\ IsRooted(t) /\ (e.kind = "profile" => e.of \in People)
  BY <1>1, <1>2
     DEF TreeInv, TreeInvBut, Around, QueueOK, ReceivedArePeople, IsRooted, PeopleOnly
<1>4. Untold(s) \subseteq Untold(t) \cup Says(e)
  <2>1. \A p : p \in Untold(s) => p \in Untold(t) \/ (e.kind = "profile" /\ e.of = p)
    BY <1>1, UntoldMembers
  <2>2. \A p : p \in Says(e) <=> (e.kind = "profile" /\ e.of = p)
    BY DEF Says
  <2>3. QED
    BY <2>1, <2>2
<1>5. \A p : ProfileByFingerPrint(t, p) <=> ProfileByFingerPrint(s, p)
  BY <1>2 DEF ProfileByFingerPrint, PublicKey, Decrypt, Opens, PrivateKey, PrivateKeyFromPem
<1>6. ReadAsStored(t, Says(e))
  BY <1>2, <1>4, <1>5 DEF TreeInv, TreeInvBut, ReadAsStored, NamedAreStored, OthersAreHidden
<1>7. QED
  BY <1>3, <1>6 DEF TreeInvBut, e

-----------------------------------------------------------------------------
\* A profile is published only with its key, and noted if the tree has its list.
LEMMA PublishLeavesTree ==
    ASSUME NEW s, Around(s), NEW p
    PROVE  LeavesTree(s, PublishProfile(s, p))
<1> DEFINE t == PublishProfile(s, p)
           q == p.iFingerPrint
           list == p.iTrustList
           item == [iTrustList |-> list, iIsPrivate |-> p.iIsPrivate]
           publishes == Sign(s, q) /\ PublicKey(s, q)
           over == Overtaken(s, q, list, FALSE)
           made == [s EXCEPT !.profiles = With(@, q, item), !.behind = @ \cup over]
<1>1. Changes(s, t, {"profiles", "behind"})
  BY PublishProfileChanges DEF Around, QueueOK
<1>2. t = s \/ (publishes /\ t = made)
  BY DEF PublishProfile
<1>3. publishes => q \in People /\ q \in s.publicKeys
  BY NobodyIsNotMine DEF Sign, Opens, PrivateKey, PublicKey, Around, PeopleOnly
<1>4. item.iTrustList = list
  OBVIOUS
<1>5. \A x \in DOMAIN s.tree \ over : x = q =>
          s.tree[x].named /\ s.tree[x].iTrustList = list
  BY DEF Overtaken
<1> HIDE DEF t, item, publishes, over
<1>6. made.profiles = With(s.profiles, q, item) /\ made.behind = s.behind \cup over
  BY DEF Around, QueueOK, IsDesk, Fields
<1> HIDE DEF made
<1>7. CASE t = s
  BY <1>7, LeavesItself DEF t
<1>8. CASE publishes /\ t = made
  <2>1. /\ DOMAIN t.profiles = DOMAIN s.profiles \cup {q} /\ t.profiles[q] = item
        /\ \A x \in DOMAIN s.profiles \ {q} : t.profiles[x] = s.profiles[x]
    BY <1>6, <1>8 DEF With
  <2>2. /\ t.tree = s.tree /\ t.patched = s.patched /\ t.profileInUse = s.profileInUse
        /\ t.events = s.events /\ t.privateKeys = s.privateKeys /\ IsDesk(t)
        /\ t.publicKeys = s.publicKeys /\ t.contentKeyPasswd = s.contentKeyPasswd
    BY <1>1 DEF Changes, Fields
  <2>3. PeopleOnly(t)
    BY <1>3, <1>8, <2>1, <2>2 DEF Around, PeopleOnly
  <2>4. t.behind = s.behind \cup over
    BY <1>6, <1>8
  <2>5. \A x \in DOMAIN s.tree \ t.behind : s.tree[x].named /\ x \in DOMAIN t.profiles =>
           \/ x \in DOMAIN s.profiles /\ s.profiles[x].iTrustList = t.profiles[x].iTrustList
           \/ s.tree[x].iTrustList = t.profiles[x].iTrustList
    BY <1>4, <1>5, <2>1, <2>4
  <2>6. \A x : x # q /\ ProfileByFingerPrint(t, x) => ProfileByFingerPrint(s, x)
    BY <2>1, <2>2
       DEF ProfileByFingerPrint, PublicKey, Decrypt, Opens, PrivateKey, PrivateKeyFromPem
  <2> DEFINE none == {}
  <2>7. \A x \in DOMAIN s.tree \ (t.behind \cup none) :
           ~s.tree[x].named /\ ProfileByFingerPrint(t, x) => ProfileByFingerPrint(s, x)
    BY <1>5, <2>4, <2>6
  <2>8. Around(t) /\ \A just : ReadAsStored(s, just) => ReadAsStored(t, just \cup none)
    BY <2>2, <2>3, <2>4, <2>5, <2>7, TreeStays
  <2>9. \A just : just \cup none = just
    OBVIOUS
  <2> HIDE DEF none
  <2>10. QED
    BY <2>2, <2>8, <2>9 DEF LeavesTree, t
<1>9. QED
  BY <1>2, <1>7, <1>8

\* Storing leaves the tree alone.
LEMMA StoreLeavesTree ==
    ASSUME NEW s, Around(s), NEW publish
    PROVE  LeavesTree(s, StorePrivateDataOfSelectedProfile(s, publish))
<1> DEFINE u == s.profileInUse
           data == [contacts |-> s.contacts, names |-> s.names]
           stored1 == SetPrivateDataForProfile(s, u, data)
           noted == [stored1 EXCEPT !.spoiled =
                          IF SelectionPending(s) THEN @ \cup {u} ELSE @]
           listed == [noted EXCEPT !.selected =
                          [@ EXCEPT !.iTrustList = TrustList(s.contacts)]]
           published == PublishProfile(listed, listed.selected)
           t == StorePrivateDataOfSelectedProfile(s, publish)
<1>1. Changes(s, stored1, {"privateData"})
  BY SetPrivateDataChanges DEF Around, QueueOK
<1>2. t = IF u = Nobody THEN s
          ELSE IF s.selected = NoProfile THEN noted
          ELSE IF publish THEN published ELSE listed
  BY DEF StorePrivateDataOfSelectedProfile
<1> HIDE DEF stored1
<1>3. Changes(stored1, noted, {"spoiled"})
  BY <1>1 DEF Changes, IsDesk, Fields
<1> HIDE DEF noted
<1>4. Changes(noted, listed, {"selected"})
  BY <1>3 DEF Changes, IsDesk, Fields
<1> HIDE DEF listed
<1>5. LeavesTree(s, noted) /\ LeavesTree(s, listed)
  <2>1. Changes(s, noted, FarFromTree) /\ Changes(s, listed, FarFromTree)
    BY <1>1, <1>3, <1>4 DEF Changes, Fields, FarFromTree
  <2>2. QED
    BY <2>1, OthersLeaveTree
<1>6. LeavesTree(s, published)
  <2>1. LeavesTree(listed, published)
    BY <1>5, PublishLeavesTree DEF LeavesTree
  <2> HIDE DEF published
  <2>2. QED
    BY <1>5, <2>1, LeavesBoth
<1> HIDE DEF published, t
<1>7. LeavesTree(s, t)
  BY <1>2, <1>5, <1>6, LeavesItself
<1>8. QED
  BY <1>7 DEF t

-----------------------------------------------------------------------------
\* The tree is made anew for the profile in use, from the lists that are stored.
LEMMA RestoreMakesTree ==
    ASSUME NEW s, Around(s), s.profileInUse = Nobody => TreeInv(s)
    PROVE  TreeInv(ReStorePrivateDataOfSelectedProfile(s))
<1> DEFINE u == s.profileInUse
           t == ReStorePrivateDataOfSelectedProfile(s)
           given == Lists(s)
           tree == InitModel(u, given)
<1>1. Changes(s, t, {"contacts", "names", "spoiled", "tree", "behind", "patched"})
      /\ (u = Nobody => t = s)
  BY RestoreChanges DEF Around, QueueOK
<1>2. u # Nobody => t.tree = tree /\ ~t.patched /\ t.behind = {}
  <2>1. \E read : /\ IsDesk(read)
                  /\ u # Nobody => t = [read EXCEPT !.tree = tree, !.behind = {},
                                                    !.patched = FALSE]
    <3> DEFINE read == IF PrivateDataCanBeRead(s, u)
                       THEN [s EXCEPT !.contacts = s.privateData[u].contacts,
                                      !.names = s.privateData[u].names]
                       ELSE [s EXCEPT !.names = {},
                                      !.spoiled = IF HasPrivateData(s, u)
                                                  THEN @ \cup {u} ELSE @]
    <3>1. IsDesk(read)
      BY DEF Around, QueueOK, IsDesk, Fields
    <3>2. t = IF u = Nobody THEN s
              ELSE [read EXCEPT !.tree = tree, !.behind = {}, !.patched = FALSE]
      BY Zenon DEF ReStorePrivateDataOfSelectedProfile
    <3> HIDE DEF read, t, tree
    <3>3. QED
      BY <3>1, <3>2
  <2>2. PICK read : /\ IsDesk(read)
                    /\ u # Nobody => t = [read EXCEPT !.tree = tree, !.behind = {},
                                                      !.patched = FALSE]
    BY <2>1
  <2> HIDE DEF t, tree
  <2>3. QED
    BY <2>2 DEF IsDesk, Fields
<1> HIDE DEF t
<1>3. CASE u = Nobody
  BY <1>1, <1>3 DEF t
<1>4. CASE u # Nobody
  <2>1. /\ t.profileInUse = u /\ t.events = s.events /\ t.privateKeys = s.privateKeys
        /\ t.profiles = s.profiles /\ t.publicKeys = s.publicKeys
        /\ t.contentKeyPasswd = s.contentKeyPasswd /\ IsDesk(t)
    BY <1>1 DEF Changes, Fields
  <2>2. /\ u \in People /\ Leveled(tree) /\ OnTop(tree, u) /\ FollowsHeld(tree, u)
        /\ \A p \in DOMAIN tree : IsRead(tree[p], p, given)
    BY <1>4, InitFollows, InitIsRead DEF Around
  <2>3. \A p : /\ p \in DOMAIN given <=> ProfileByFingerPrint(s, p)
               /\ p \in DOMAIN given => given[p] = s.profiles[p].iTrustList
    BY DEF Lists, ProfileByFingerPrint
  <2>4. \A p : ProfileByFingerPrint(t, p) <=> ProfileByFingerPrint(s, p)
    BY <2>1
       DEF ProfileByFingerPrint, PublicKey, Decrypt, Opens, PrivateKey, PrivateKeyFromPem
  <2> HIDE DEF tree, given
  <2>5. Around(t)
    BY <1>2, <1>4, <2>1, <2>2 DEF Around, QueueOK, PeopleOnly, ReceivedArePeople
  <2>6. IsRooted(t)
    BY <1>2, <1>4, <2>1, <2>2 DEF IsRooted
  <2>7. NamedAreStored(t)
    BY <1>2, <1>4, <2>1, <2>2, <2>3 DEF NamedAreStored, IsRead
  <2>8. OthersAreHidden(t, {})
    BY <1>2, <1>4, <2>2, <2>3, <2>4 DEF OthersAreHidden, IsRead
  <2>9. QED
    BY <2>5, <2>6, <2>7, <2>8 DEF TreeInv, TreeInvBut, ReadAsStored, t
<1>5. QED
  BY <1>3, <1>4

\* If none is put in use the tree stays, and no private profile can be read.
LEMMA SetProfileInUseMakesTree ==
    ASSUME NEW s, Around(s), NEW p \in People \cup {Nobody}, p = Nobody => TreeInv(s)
    PROVE  TreeInv(SetProfileInUse(s, p))
<1> DEFINE s1 == StorePrivateDataOfSelectedProfile(s, FALSE)
           many == Len(ListKeys(s)) > 1
           s2 == [s1 EXCEPT !.profileInUse = p, !.manyKeys = many]
           s3 == ReStorePrivateDataOfSelectedProfile(s2)
           e == [kind |-> "selected", of |-> p]
           t == [s3 EXCEPT !.events = Append(@, e)]
<1>1. LeavesTree(s, s1)
  BY StoreLeavesTree
<1>2. t = SetProfileInUse(s, p)
  BY Zenon DEF SetProfileInUse
<1> HIDE DEF s1, many
<1>3. Changes(s1, s2, {"profileInUse", "manyKeys"}) /\ s2.profileInUse = p
  BY <1>1 DEF LeavesTree, Around, QueueOK, Changes, IsDesk, Fields
<1> HIDE DEF s2
<1>4. /\ s2.tree = s1.tree /\ s2.events = s1.events /\ s2.privateKeys = s1.privateKeys
      /\ s2.profiles = s1.profiles /\ s2.patched = s1.patched /\ s2.behind = s1.behind
      /\ s2.publicKeys = s1.publicKeys /\ IsDesk(s2)
  BY <1>3 DEF Changes, Fields
<1>5. Around(s2)
  BY <1>1, <1>3, <1>4 DEF LeavesTree, Around, QueueOK, PeopleOnly, ReceivedArePeople
<1>6. ASSUME p = Nobody PROVE TreeInv(s2)
  <2>1. TreeInv(s1)
    BY <1>1, <1>6, LeavingKeeps DEF TreeInv
  <2>2. ~Opens(s2, Nobody)
    BY <1>5, NobodyIsNotMine DEF Opens, PrivateKey, Around, PeopleOnly
  <2>3. \A q : ProfileByFingerPrint(s2, q) => ProfileByFingerPrint(s1, q)
    BY <1>3, <1>4, <1>6, <2>2 DEF ProfileByFingerPrint, PublicKey, Decrypt
  <2>4. Untold(s2) = Untold(s1)
    BY <1>4 DEF Untold
  <2>5. ReadAsStored(s2, {})
    BY <1>4, <2>1, <2>3, <2>4
       DEF TreeInv, TreeInvBut, ReadAsStored, NamedAreStored, OthersAreHidden
  <2>6. IsRooted(s2)
    BY <1>3, <1>6 DEF IsRooted
  <2>7. QED
    BY <1>5, <2>5, <2>6 DEF TreeInv, TreeInvBut
<1>7. TreeInv(s3)
  BY <1>3, <1>5, <1>6, RestoreMakesTree
<1> HIDE DEF s3
<1>8. e \in DeskEvent /\ e.kind # "profile" /\ Says(e) = {}
  BY DEF DeskEvent, Says
<1> HIDE DEF e
<1>9. Changes(s3, t, {"events"}) /\ t.events = Append(s3.events, e)
  BY <1>7 DEF TreeInv, TreeInvBut, Around, QueueOK, Changes, IsDesk, Fields
<1> HIDE DEF t
<1>10. TreeInv(t)
  BY <1>7, <1>8, <1>9, EventToldToTree DEF TreeInv
<1>11. QED
  BY <1>2, <1>10

LEMMA PutInUseMakesTree ==
    ASSUME NEW s, Around(s), NEW profiles \in Seq(Mine), profiles # <<>>
    PROVE  TreeInv(PutInUse(s, profiles))
<1>1. Len(profiles) \in Nat /\ Len(profiles) > 0
  BY LenProperties, EmptySeq
<1>2. PICK g : IsPut(g, s, profiles, Len(profiles)) /\ PutInUse(s, profiles) = g[Len(profiles)]
  BY <1>1, PutRecursion
<1>3. g[0] = s /\ \A i \in 1 .. Len(profiles) : g[i] = SetProfileInUse(g[i - 1], profiles[i])
  BY <1>1, <1>2 DEF IsPut
<1> DEFINE T == {i \in 0 .. Len(profiles) : Around(g[i]) /\ (i > 0 => TreeInv(g[i]))}
<1>4. 0 \in T
  BY <1>1, <1>3
<1>5. ASSUME NEW i \in 1 .. Len(profiles), i - 1 \in T PROVE i \in T
  <2>1. Around(g[i - 1]) /\ g[i] = SetProfileInUse(g[i - 1], profiles[i])
    BY <1>3, <1>5
  <2>2. profiles[i] \in People /\ profiles[i] # Nobody
    BY ElementOfSeq, NobodyIsNotMine
  <2>3. TreeInv(g[i])
    BY <2>1, <2>2, SetProfileInUseMakesTree
  <2>4. QED
    BY <1>1, <2>3 DEF TreeInv, TreeInvBut
<1> HIDE DEF T
<1>6. Len(profiles) \in T
  <2>1. 0 .. Len(profiles) \subseteq T
    BY <1>1, <1>4, <1>5, UpToInduction, Zenon
  <2>2. QED
    BY <1>1, <2>1
<1>7. QED
  BY <1>1, <1>2, <1>6 DEF T

LEMMA NewKeyMakesTree ==
    ASSUME NEW s, TreeInv(s), s.generated \in 0 .. Len(MyKeys), s.generated < Len(MyKeys)
    PROVE  TreeInv(NewKey(s))
<1> DEFINE key == MyKeys[s.generated + 1]
           new == GenerateKeyPair(s, key)
           t == [new.s EXCEPT !.generated = IF new.made = Nobody THEN @ ELSE @ + 1]
<1>1. key \in Mine
  <2>1. s.generated + 1 \in 1 .. Len(MyKeys)
    BY NobodyIsNotMine
  <2>2. DOMAIN MyKeys = 1 .. Len(MyKeys)
    BY KeysAssumption, LenProperties
  <2>3. QED
    BY <2>1, <2>2 DEF Mine, Range
<1>2. NewKey(s) = SetProfileInUse(t, new.made)
  BY DEF NewKey
<1>3. \/ new.made = Nobody /\ new.s = s
      \/ /\ new.made = key
         /\ Changes(s, new.s, {"publicKeys", "privateKeys"})
         /\ new.s.publicKeys = s.publicKeys \cup {key}
         /\ DOMAIN new.s.privateKeys = DOMAIN s.privateKeys \cup {key}
  BY GenerateChanges DEF TreeInv, TreeInvBut, Around, QueueOK
<1> HIDE DEF key, new
<1>4. /\ Around(new.s) /\ new.made \in People \cup {Nobody}
      /\ new.made = Nobody => TreeInv(new.s)
  <2>1. CASE new.made = Nobody /\ new.s = s
    BY <2>1 DEF TreeInv, TreeInvBut
  <2>2. CASE /\ new.made = key
             /\ Changes(s, new.s, {"publicKeys", "privateKeys"})
             /\ new.s.publicKeys = s.publicKeys \cup {key}
             /\ DOMAIN new.s.privateKeys = DOMAIN s.privateKeys \cup {key}
    <3>1. /\ new.s.tree = s.tree /\ new.s.patched = s.patched
          /\ new.s.profileInUse = s.profileInUse
          /\ new.s.events = s.events /\ new.s.profiles = s.profiles /\ IsDesk(new.s)
      BY <2>2 DEF Changes, Fields
    <3>2. PeopleOnly(new.s)
      BY <1>1, <2>2, <3>1 DEF TreeInv, TreeInvBut, Around, PeopleOnly
    <3>3. Around(new.s)
      BY <3>1, <3>2 DEF TreeInv, TreeInvBut, Around, QueueOK, ReceivedArePeople
    <3>4. QED
      BY <1>1, <2>2, <3>3, NobodyIsNotMine
  <2>3. QED
    BY <1>3, <2>1, <2>2
<1>5. Changes(new.s, t, FarFromTree)
  BY <1>4 DEF Around, QueueOK, Changes, IsDesk, Fields, FarFromTree
<1> HIDE DEF t
<1>6. LeavesTree(new.s, t)
  BY <1>4, <1>5, OthersLeaveTree
<1>7. Around(t) /\ (new.made = Nobody => TreeInv(t))
  BY <1>4, <1>6, LeavingKeeps DEF LeavesTree, TreeInv
<1>8. QED
  BY <1>2, <1>4, <1>7, SetProfileInUseMakesTree

\* A password that opens no key opens none of the profile in use.
LEMMA PasswordGivenKeepsTree ==
    ASSUME NEW s, TreeInv(s), NEW password, s.generated \in 0 .. Len(MyKeys),
           ListKeys(s) = <<>> => s.generated < Len(MyKeys)
    PROVE  TreeInv(PasswordGiven(s, password))
<1> DEFINE inForce == [s EXCEPT !.contentKeyPasswd = password]
           kept == {p \in Mine : Opens(inForce, p)}
           opened == Filter(ListKeys(s), kept)
           closed == [inForce EXCEPT !.dialogs = @ \ {"query"}]
           t == PasswordGiven(s, password)
<1>1. t = IF ListKeys(s) = <<>> THEN NewKey(closed)
          ELSE IF opened = <<>> THEN inForce
          ELSE PutInUse(closed, opened)
  BY Zenon DEF PasswordGiven
<1>2. Changes(s, inForce, {"contentKeyPasswd"})
  BY DEF TreeInv, TreeInvBut, Around, QueueOK, Changes, IsDesk, Fields
<1>3. opened \in Seq(Mine) /\ ToSet(opened) = ToSet(ListKeys(s)) \cap kept
  BY ListKeysMembers, FilterProperties
<1>4. \A p \in Mine : Opens(inForce, p) <=> p \in kept
  OBVIOUS
<1> HIDE DEF inForce, opened, kept
<1>5. Changes(inForce, closed, {"dialogs"})
  BY <1>2 DEF Changes, IsDesk, Fields
<1> HIDE DEF closed, t
<1> DEFINE u == s.profileInUse
<1>6. /\ inForce.tree = s.tree /\ inForce.patched = s.patched /\ inForce.profileInUse = u
      /\ inForce.events = s.events /\ inForce.behind = s.behind
      /\ inForce.profiles = s.profiles /\ inForce.privateKeys = s.privateKeys
      /\ inForce.publicKeys = s.publicKeys /\ IsDesk(inForce)
  BY <1>2 DEF Changes, Fields
<1>7. Around(inForce)
  BY <1>6 DEF TreeInv, TreeInvBut, Around, QueueOK, PeopleOnly, ReceivedArePeople
<1>8. ASSUME ~Opens(inForce, u) PROVE TreeInv(inForce)
  <2>1. LeavesTree(s, inForce)
    BY <1>6, <1>7, <1>8, SameTree DEF TreeInv, TreeInvBut, Around
  <2>2. QED
    BY <2>1, LeavingKeeps DEF TreeInv
<1>9. Opens(inForce, u) => u \in ToSet(ListKeys(s)) /\ u \in ToSet(opened)
  <2>1. Opens(inForce, u) => u \in Mine /\ PrivateKey(s, u)
    BY <1>6 DEF Opens, PrivateKey, TreeInv, TreeInvBut, Around, PeopleOnly
  <2>2. QED
    BY <1>3, <1>4, <2>1, ListKeysMembers
<1>10. LeavesTree(inForce, closed) /\ closed.generated = s.generated
  <2>1. Changes(inForce, closed, FarFromTree)
    BY <1>5 DEF Changes, Fields, FarFromTree
  <2>2. closed.generated = s.generated
    BY <1>2, <1>5 DEF Changes, Fields
  <2>3. QED
    BY <1>7, <2>1, <2>2, OthersLeaveTree
<1>11. ToSet(<<>>) = {}
  BY DEF ToSet
<1>12. CASE ListKeys(s) = <<>>
  <2>1. TreeInv(inForce)
    BY <1>8, <1>9, <1>11, <1>12
  <2>2. TreeInv(closed)
    BY <1>10, <2>1, LeavingKeeps DEF TreeInv
  <2>3. TreeInv(NewKey(closed))
    BY <1>10, <1>12, <2>2, NewKeyMakesTree
  <2>4. QED
    BY <1>1, <1>12, <2>3 DEF t
<1>13. CASE ListKeys(s) # <<>> /\ opened = <<>>
  BY <1>1, <1>8, <1>9, <1>11, <1>13 DEF t
<1>14. CASE ListKeys(s) # <<>> /\ opened # <<>>
  <2>1. TreeInv(PutInUse(closed, opened))
    BY <1>3, <1>10, <1>14, PutInUseMakesTree DEF LeavesTree
  <2>2. QED
    BY <1>1, <1>14, <2>1 DEF t
<1>15. QED
  BY <1>12, <1>13, <1>14

LEMMA PasswordChangedLeavesTree ==
    ASSUME NEW s, Around(s), NEW password
    PROVE  LeavesTree(s, PasswordChanged(s, password))
<1> DEFINE r == [s EXCEPT !.dialogs = @ \ {"change"}]
           t == PasswordChanged(s, password)
           u == s.profileInUse
<1>1. Changes(s, r, {"dialogs"})
  BY DEF Around, QueueOK, Changes, IsDesk, Fields
<1>2. t = ChangeKeyPassword(r, u, password)
  BY DEF PasswordChanged
<1> HIDE DEF r, t
<1>3. /\ Changes(r, t, {"privateKeys", "contentKeyPasswd"})
      /\ DOMAIN t.privateKeys = DOMAIN r.privateKeys
      /\ Opens(t, u) => Opens(r, u)
  BY <1>1, <1>2, ChangePasswordChanges DEF Changes
<1>4. Opens(r, u) => Opens(s, u)
  <2>1. r.privateKeys = s.privateKeys /\ r.contentKeyPasswd = s.contentKeyPasswd
    BY <1>1 DEF Changes, Fields
  <2>2. QED
    BY <2>1 DEF Opens, PrivateKey, PrivateKeyFromPem
<1>5. /\ t.tree = s.tree /\ t.patched = s.patched /\ t.profileInUse = u
      /\ DOMAIN t.privateKeys = DOMAIN s.privateKeys /\ t.behind = s.behind
      /\ t.events = s.events /\ t.profiles = s.profiles /\ IsDesk(t)
      /\ t.publicKeys = s.publicKeys
  BY <1>1, <1>3 DEF Changes, Fields
<1>6. PeopleOnly(t)
  BY <1>5 DEF Around, PeopleOnly
<1>7. QED
  BY <1>3, <1>4, <1>5, <1>6, SameTree DEF t

LEMMA ProfileCreatedKeepsTree ==
    ASSUME NEW s, TreeInv(s), s.generated \in 0 .. Len(MyKeys), s.generated < Len(MyKeys)
    PROVE  TreeInv(ProfileCreated(s))
<1> DEFINE t == NewKey(s)
           v == [t EXCEPT !.dialogs = @ \cup {"change"}]
<1>1. TreeInv(t)
  BY NewKeyMakesTree
<1>2. ProfileCreated(s) = IF t.profileInUse = Nobody THEN t ELSE v
  BY DEF ProfileCreated
<1> HIDE DEF t
<1>3. Changes(t, v, FarFromTree)
  BY <1>1 DEF TreeInv, TreeInvBut, Around, QueueOK, Changes, IsDesk, Fields, FarFromTree
<1> HIDE DEF v
<1>4. TreeInv(v)
  BY <1>1, <1>3, OthersLeaveTree, LeavingKeeps DEF TreeInv, TreeInvBut
<1>5. QED
  BY <1>1, <1>2, <1>4

\* The profile goes with its keys.
LEMMA ProfileDeletedLeavesTree ==
    ASSUME NEW s, Around(s)
    PROVE  LeavesTree(s, ProfileDeleted(s))
<1> DEFINE u == s.profileInUse
           r == DeleteKeyPair(s, u)
           t == [r EXCEPT !.dialogs = @ \cup {"query"}]
<1>1. /\ Changes(s, r, {"publicKeys", "profiles", "privateKeys", "privateData"})
      /\ r.publicKeys = s.publicKeys \ {u}
      /\ r.profiles = [q \in DOMAIN s.profiles \ {u} |-> s.profiles[q]]
      /\ r.privateKeys = [q \in DOMAIN s.privateKeys \ {u} |-> s.privateKeys[q]]
  BY DEF Around, QueueOK, Changes, IsDesk, Fields, DeleteKeyPair
<1>2. t = ProfileDeleted(s)
  BY DEF ProfileDeleted
<1> HIDE DEF r
<1>3. Changes(r, t, {"dialogs"})
  BY <1>1 DEF Changes, IsDesk, Fields
<1> HIDE DEF t
<1>4. /\ t.tree = s.tree /\ t.patched = s.patched /\ t.profileInUse = u
      /\ t.events = s.events /\ t.behind = s.behind /\ t.profiles = r.profiles
      /\ t.privateKeys = r.privateKeys /\ t.publicKeys = r.publicKeys /\ IsDesk(t)
  BY <1>1, <1>3 DEF Changes, Fields
<1>5. /\ DOMAIN t.profiles = DOMAIN s.profiles \ {u}
      /\ \A p \in DOMAIN t.profiles : t.profiles[p] = s.profiles[p]
      /\ DOMAIN t.privateKeys = DOMAIN s.privateKeys \ {u}
  BY <1>1, <1>4
<1>6. PeopleOnly(t)
  BY <1>1, <1>4, <1>5 DEF Around, PeopleOnly
<1>7. \A p : ProfileByFingerPrint(t, p) => ProfileByFingerPrint(s, p)
  BY <1>1, <1>4, <1>5 DEF ProfileByFingerPrint, PublicKey, Decrypt, Opens, PrivateKey
<1> DEFINE none == {}
<1>8. Around(t) /\ \A just : ReadAsStored(s, just) => ReadAsStored(t, just \cup none)
  BY <1>4, <1>5, <1>6, <1>7, TreeStays
<1>9. \A just : just \cup none = just
  OBVIOUS
<1> HIDE DEF none
<1>10. QED
  BY <1>2, <1>4, <1>8, <1>9 DEF LeavesTree

-----------------------------------------------------------------------------
\* A name is offered and stored; lists and keys stay as they are.
SameLists(s, t) ==
    /\ t.profiles = s.profiles /\ t.publicKeys = s.publicKeys
    /\ t.privateKeys = s.privateKeys /\ t.contentKeyPasswd = s.contentKeyPasswd

LEMMA OfferNameLeavesTree ==
    ASSUME NEW s, Around(s), NEW p
    PROVE  LET t == OfferDisplayNameForProfile(s, p) IN LeavesTree(s, t) /\ SameLists(s, t)
<1> DEFINE r == [s EXCEPT !.names = @ \cup {p}]
           no == FALSE
           v == StorePrivateDataOfSelectedProfile(r, no)
           t == OfferDisplayNameForProfile(s, p)
<1>1. Changes(s, r, {"names"}) /\ (t = s \/ t = v)
  BY OfferNameChanges DEF Around, QueueOK
<1> HIDE DEF t, r
<1>2. Changes(s, r, FarFromTree) /\ SameLists(s, r)
  BY <1>1 DEF Changes, Fields, FarFromTree, SameLists
<1>3. LeavesTree(s, r)
  BY <1>2, OthersLeaveTree
<1>4. LeavesTree(r, v)
  BY <1>3, StoreLeavesTree DEF LeavesTree
<1>5. /\ Changes(r, v, {"privateData", "spoiled", "selected", "profiles", "behind"})
      /\ v.profiles = r.profiles
  BY <1>1, StoreChanges DEF Changes
<1> HIDE DEF v
<1>6. SameLists(s, v)
  BY <1>2, <1>5 DEF SameLists, Changes, Fields
<1>7. LeavesTree(s, v)
  BY <1>3, <1>4, LeavesBoth
<1>8. SameLists(s, s) /\ LeavesTree(s, s)
  BY LeavesItself DEF SameLists
<1>9. QED
  BY <1>1, <1>6, <1>7, <1>8 DEF t

LEMMA ShowDetailsLeavesTree ==
    ASSUME NEW s, Around(s), NEW p
    PROVE  LET t == ShowDetailsOfProfile(s, p) IN LeavesTree(s, t) /\ SameLists(s, t)
<1> DEFINE r == [s EXCEPT !.viewed = p]
           v == OfferDisplayNameForProfile(r, p)
           t == ShowDetailsOfProfile(s, p)
<1>1. Changes(s, r, FarFromTree) /\ SameLists(s, r)
  BY DEF Around, QueueOK, Changes, IsDesk, Fields, FarFromTree, SameLists
<1>2. t = r \/ t = v
  BY DEF ShowDetailsOfProfile
<1> HIDE DEF r, t
<1>3. LeavesTree(s, r)
  BY <1>1, OthersLeaveTree
<1>4. LeavesTree(r, v) /\ SameLists(r, v)
  BY <1>3, OfferNameLeavesTree DEF LeavesTree
<1> HIDE DEF v
<1>5. LeavesTree(s, v) /\ SameLists(s, v)
  BY <1>1, <1>3, <1>4, LeavesBoth DEF SameLists
<1>6. QED
  BY <1>1, <1>2, <1>3, <1>5 DEF t

LEMMA ListsRead ==
    ASSUME NEW s
    PROVE  \A p : /\ p \in DOMAIN Lists(s) <=> ProfileByFingerPrint(s, p)
                  /\ p \in DOMAIN Lists(s) => Lists(s)[p] = s.profiles[p].iTrustList
BY DEF Lists, ProfileByFingerPrint

LEMMA SameListsRead ==
    ASSUME NEW s, NEW t, SameLists(s, t), t.profileInUse = s.profileInUse
    PROVE  \A p : ProfileByFingerPrint(t, p) <=> ProfileByFingerPrint(s, p)
BY DEF SameLists, ProfileByFingerPrint, PublicKey, Decrypt, Opens, PrivateKey, PrivateKeyFromPem

\* Trust is calculated from a tree in which what is remembered is as it was.
LEMMA RecalculatedAsStored ==
    ASSUME NEW v, NamedAreStored(v), NEW w, TreeOK(w), NEW behind,
           \A p \in DOMAIN w : w[p].named =>
              /\ p \in DOMAIN v.tree /\ v.tree[p].named
              /\ w[p].iTrustList = v.tree[p].iTrustList
              /\ p \in v.behind => p \in behind,
           NEW self \in People, self \in DOMAIN Lists(v), NEW t,
           t.tree = RecalculateTrust(w, self, Lists(v)),
           t.behind = StillBehind(v, behind, t.tree),
           SameLists(v, t), t.profileInUse = v.profileInUse
    PROVE  ReadAsStored(t, {})
<1> DEFINE given == Lists(v)
           r == t.tree
<1>1. \A p \in DOMAIN r : IsRead(r[p], p, given) \/ Remembered(r[p], p, w)
  BY RecalculatedIsRead
<1>2. \A p : /\ p \in DOMAIN given <=> ProfileByFingerPrint(v, p)
             /\ p \in DOMAIN given => given[p] = v.profiles[p].iTrustList
  BY ListsRead
<1>3. \A p : ProfileByFingerPrint(t, p) <=> ProfileByFingerPrint(v, p)
  BY SameListsRead
<1>4. t.profiles = v.profiles
  BY DEF SameLists
<1> HIDE DEF given
<1>5. ASSUME NEW p \in DOMAIN r \ t.behind, r[p].named, p \in DOMAIN t.profiles
      PROVE  r[p].iTrustList = t.profiles[p].iTrustList
  <2>1. CASE IsRead(r[p], p, given)
    BY <1>2, <1>4, <1>5, <2>1 DEF IsRead
  <2>2. CASE Remembered(r[p], p, w)
    <3>1. /\ p \in DOMAIN w /\ w[p].named /\ r[p].iTrustList = w[p].iTrustList
      BY <2>2 DEF Remembered
    <3>2. /\ p \in DOMAIN v.tree /\ v.tree[p].named /\ r[p].iTrustList = v.tree[p].iTrustList
          /\ p \in v.behind => p \in behind
      BY <3>1
    <3>3. p \notin v.behind
      BY <1>5, <3>2 DEF StillBehind
    <3>4. v.tree[p].iTrustList = v.profiles[p].iTrustList
      BY <1>4, <1>5, <3>2, <3>3 DEF NamedAreStored
    <3>5. QED
      BY <1>4, <3>2, <3>4
  <2>3. QED
    BY <1>1, <1>5, <2>1, <2>2
<1>6. NamedAreStored(t)
  BY <1>5 DEF NamedAreStored
<1>7. \A p \in DOMAIN r : ~r[p].named => ~ProfileByFingerPrint(t, p)
  BY <1>1, <1>2, <1>3 DEF IsRead, Remembered
<1>8. OthersAreHidden(t, {})
  BY <1>7 DEF OthersAreHidden
<1>9. QED
  BY <1>6, <1>8 DEF ReadAsStored

\* The list of the profile in use is changed, stored and offered to the tree.
LEMMA ContactEditedKeepsTree ==
    ASSUME NEW s, TreeInv(s), NEW p, NEW how
    PROVE  TreeInv(ContactEdited(s, p, how))
<1> DEFINE u == s.profileInUse
           edited == [s EXCEPT !.contacts = Edit(@, p, how),
                            !.made = IF u = Nobody THEN @
                                     ELSE With(@, u, Edit(@[u], p, how))]
           named == IF how = "removed" THEN edited ELSE OfferDisplayNameForProfile(edited, p)
           v == StorePrivateDataOfSelectedProfile(named, TRUE)
           t == ContactEdited(s, p, how)
           list == TrustList(v.contacts)
           given == Lists(v)
           tree == OfferTrustList(s.tree, u, list, u, given)
           behind == v.behind \ {u}
           inTree == u \in DOMAIN s.tree
           isRead == u \in DOMAIN given
           grown == TreeChanged([v EXCEPT !.behind = behind], tree)
           patched == IF inTree THEN ~isRead ELSE grown.patched
<1>1. Changes(s, edited, {"contacts", "made"})
  BY DEF TreeInv, TreeInvBut, Around, QueueOK, Changes, IsDesk, Fields
<1>2. t = [grown EXCEPT !.patched = patched]
  BY Zenon DEF ContactEdited
<1> HIDE DEF edited, t
<1>3. LeavesTree(s, edited)
  <2>1. Changes(s, edited, FarFromTree)
    BY <1>1 DEF Changes, Fields, FarFromTree
  <2>2. QED
    BY <2>1, OthersLeaveTree DEF TreeInv, TreeInvBut
<1>4. LeavesTree(s, named)
  <2> DEFINE n == OfferDisplayNameForProfile(edited, p)
  <2>1. LeavesTree(edited, n)
    BY <1>3, OfferNameLeavesTree DEF LeavesTree
  <2>2. named = edited \/ named = n
    OBVIOUS
  <2> HIDE DEF n, named
  <2>3. QED
    BY <1>3, <2>1, <2>2, LeavesBoth
<1> HIDE DEF named
<1>5. LeavesTree(s, v)
  <2>1. LeavesTree(named, v)
    BY <1>4, StoreLeavesTree DEF LeavesTree
  <2> HIDE DEF v
  <2>2. QED
    BY <1>4, <2>1, LeavesBoth
<1> HIDE DEF v
<1>6. TreeInv(v) /\ v.tree = s.tree /\ v.patched = s.patched /\ v.profileInUse = u
  BY <1>5, LeavingKeeps DEF TreeInv, LeavesTree
<1>7. IsDesk(v) /\ Leveled(s.tree) /\ u \in People \cup {Nobody}
  BY <1>6 DEF TreeInv, TreeInvBut, Around, QueueOK
<1> HIDE DEF behind
<1>8. /\ Changes(v, t, {"tree", "behind", "patched"}) /\ t.tree = tree /\ t.patched = patched
      /\ t.behind = StillBehind(v, behind, tree)
  BY <1>2, <1>7, TreeChangedChanges
<1>9. grown.patched = v.patched
  BY <1>7 DEF TreeChanged, IsDesk, Fields
<1> HIDE DEF grown
<1>10. patched = IF inTree THEN ~isRead ELSE v.patched
  BY <1>9
<1> HIDE DEF patched, given
<1>11. /\ Leveled(tree)
       /\ ~inTree => tree = s.tree
       /\ OnTop(s.tree, u) => OnTop(tree, u)
       /\ OnTop(s.tree, u) /\ isRead => FollowsHeld(tree, u)
  BY <1>7, OfferedFollows
<1>12. /\ t.profileInUse = u /\ t.events = v.events /\ IsDesk(t) /\ SameLists(v, t)
  BY <1>6, <1>8 DEF Changes, Fields, SameLists
<1>13. Around(t)
  BY <1>6, <1>7, <1>8, <1>11, <1>12
     DEF TreeInv, TreeInvBut, Around, QueueOK, PeopleOnly, ReceivedArePeople, SameLists
<1>14. u # Nobody => OnTop(s.tree, u) /\ inTree
  BY <1>6 DEF TreeInv, TreeInvBut, IsRooted, OnTop
<1>15. IsRooted(t)
  BY <1>8, <1>10, <1>11, <1>12, <1>14 DEF IsRooted
<1>16. NamedAreStored(v) /\ OthersAreHidden(v, {})
  BY <1>6 DEF TreeInv, TreeInvBut, ReadAsStored
<1>17. \A q : ProfileByFingerPrint(t, q) <=> ProfileByFingerPrint(v, q)
  BY <1>6, <1>12, SameListsRead
<1>18. Untold(t) = Untold(v)
  BY <1>12 DEF Untold
<1>19. CASE ~inTree
  <2>1. t.tree = v.tree /\ t.patched = v.patched
    BY <1>6, <1>8, <1>10, <1>11, <1>19
  <2>2. DOMAIN t.tree \ t.behind = DOMAIN v.tree \ v.behind
    BY <1>6, <1>8, <1>11, <1>19 DEF StillBehind, behind
  <2>3. t.profiles = v.profiles
    BY <1>12 DEF SameLists
  <2>4. NamedAreStored(t)
    BY <1>16, <2>1, <2>2, <2>3 DEF NamedAreStored
  <2>5. OthersAreHidden(t, {})
    BY <1>16, <1>17, <1>18, <2>1, <2>2 DEF OthersAreHidden
  <2>6. QED
    BY <1>13, <1>15, <2>4, <2>5 DEF TreeInv, TreeInvBut, ReadAsStored, t
<1>20. CASE inTree
  <2> DEFINE x == [iTrustingOperator |-> u, named |-> FALSE,
                   iTrustList |-> list, iLevel |-> s.tree[u].iLevel]
             w == With(s.tree, u, x)
  <2>1. u \in People
    BY <1>7, <1>20 DEF Leveled, TreeOK
  <2>2. OnTop(s.tree, u)
    BY <1>14, <2>1, KeysAssumption
  <2>3. tree = RecalculateTrust(w, u, given)
    BY <2>2, TreeAssumption DEF OfferTrustList, OnTop
  <2>4. ~x.named /\ IsItem(x)
    BY DEF IsItem, ItemFields
  <2>5. TreeOK(w)
    BY <1>7, <2>1, <2>4, WithOK DEF Leveled
  <2> HIDE DEF x
  <2>6. /\ DOMAIN w = DOMAIN s.tree /\ w[u] = x
        /\ \A q \in DOMAIN s.tree \ {u} : w[q] = s.tree[q]
    BY <1>20 DEF With
  <2> HIDE DEF w
  <2>7. \A q \in DOMAIN w : w[q].named =>
           /\ q \in DOMAIN v.tree /\ v.tree[q].named
           /\ w[q].iTrustList = v.tree[q].iTrustList
           /\ q \in v.behind => q \in behind
    BY <1>6, <2>4, <2>6 DEF behind
  <2>8. CASE isRead
    <3>1. ReadAsStored(t, {})
      BY <1>6, <1>8, <1>12, <1>16, <2>1, <2>3, <2>5, <2>7, <2>8, RecalculatedAsStored DEF given
    <3>2. QED
      BY <1>13, <1>15, <3>1 DEF TreeInv, TreeInvBut, t
  <2>9. CASE ~isRead
    <3>1. tree = w
      BY <2>3, <2>9 DEF RecalculateTrust
    <3>2. t.patched
      BY <1>8, <1>10, <1>20, <2>9
    <3>3. t.profiles = v.profiles
      BY <1>12 DEF SameLists
    <3>4. ASSUME NEW q \in DOMAIN t.tree \ t.behind, t.tree[q].named, q \in DOMAIN t.profiles
          PROVE  t.tree[q].iTrustList = t.profiles[q].iTrustList
      <4>1. /\ q \in DOMAIN v.tree /\ v.tree[q].named
            /\ t.tree[q].iTrustList = v.tree[q].iTrustList
            /\ q \in v.behind => q \in behind
        BY <1>8, <2>7, <3>1, <3>4
      <4>2. q \notin v.behind
        BY <1>8, <3>1, <3>4, <4>1 DEF StillBehind
      <4>3. QED
        BY <1>16, <3>3, <3>4, <4>1, <4>2 DEF NamedAreStored
    <3>5. NamedAreStored(t)
      BY <3>4 DEF NamedAreStored
    <3>6. OthersAreHidden(t, {})
      BY <3>2 DEF OthersAreHidden
    <3>7. QED
      BY <1>13, <1>15, <3>5, <3>6 DEF TreeInv, TreeInvBut, ReadAsStored, t
  <2>10. QED
    BY <2>8, <2>9
<1>21. QED
  BY <1>19, <1>20

LEMMA UserProfileSelectedKeepsTree ==
    ASSUME NEW s, TreeInv(s), NEW p
    PROVE  TreeInv(UserProfileSelected(s, p))
<1> DEFINE r == [s EXCEPT !.selected = Shown(s, p), !.contacts = <<>>]
<1>1. Changes(s, r, FarFromTree)
  <2>1. \A x : Changes(s, [s EXCEPT !.selected = x, !.contacts = <<>>], FarFromTree)
    BY DEF TreeInv, TreeInvBut, Around, QueueOK, Changes, IsDesk, Fields, FarFromTree
  <2>2. QED
    BY <2>1
<1>2. UserProfileSelected(s, p) = ReStorePrivateDataOfSelectedProfile(r)
  BY Zenon DEF UserProfileSelected
<1> HIDE DEF r
<1>3. TreeInv(r)
  BY <1>1, OthersLeaveTree, LeavingKeeps DEF TreeInv, TreeInvBut
<1>4. Around(r)
  BY <1>3 DEF TreeInv, TreeInvBut
<1>5. QED
  BY <1>2, <1>3, <1>4, RestoreMakesTree

\* A profile that was received: the tree gets an item for it, or is calculated.
LEMMA ProfileNotifiedKeepsTree ==
    ASSUME NEW s, NEW p \in People, TreeInvBut(s, {p}), NEW tabIsOpen
    PROVE  TreeInv(ProfileNotified(s, p, tabIsOpen))
<1> DEFINE u == s.profileInUse
           gone == [s EXCEPT !.viewed = IF tabIsOpen THEN @ ELSE Nobody]
           shown == IF s.viewed # p THEN s
                 ELSE IF ~ProfileByFingerPrint(s, p) THEN gone
                 ELSE IF tabIsOpen THEN ShowDetailsOfProfile(s, p)
                 ELSE s
           t == ProfileNotified(s, p, tabIsOpen)
           given == Lists(s)
           isRead == u \in DOMAIN given
           trusted == IsProfileTrusted(s.tree, p)
           tree == ProfileReceived(s.tree, p, u, given)
           grown == TreeChanged(shown, tree)
           patched == IF ~trusted THEN grown.patched
                      ELSE ~isRead /\ (grown.patched \/ ~s.tree[p].named)
<1>1. t = [grown EXCEPT !.patched = patched]
  BY Zenon DEF ProfileNotified
<1> HIDE DEF t
<1>2. LeavesTree(s, shown) /\ SameLists(s, shown)
  <2>1. Changes(s, gone, FarFromTree) /\ SameLists(s, gone)
    BY DEF TreeInvBut, Around, QueueOK, Changes, IsDesk, Fields, FarFromTree, SameLists
  <2> HIDE DEF gone
  <2>2. LeavesTree(s, gone)
    BY <2>1, OthersLeaveTree DEF TreeInvBut
  <2> DEFINE v == ShowDetailsOfProfile(s, p)
  <2>3. LeavesTree(s, v) /\ SameLists(s, v)
    BY ShowDetailsLeavesTree DEF TreeInvBut
  <2>4. LeavesTree(s, s) /\ SameLists(s, s)
    BY LeavesItself DEF TreeInvBut, SameLists
  <2>5. shown = s \/ shown = gone \/ shown = v
    OBVIOUS
  <2> HIDE DEF v, shown
  <2>6. QED
    BY <2>1, <2>2, <2>3, <2>4, <2>5
<1> HIDE DEF shown
<1>3. /\ TreeInvBut(shown, {p}) /\ shown.tree = s.tree /\ shown.patched = s.patched
      /\ shown.profileInUse = u
  BY <1>2, LeavingKeeps DEF LeavesTree
<1>4. IsDesk(shown) /\ Leveled(s.tree) /\ u \in People \cup {Nobody}
  BY <1>3 DEF TreeInvBut, Around, QueueOK
<1>5. /\ Changes(shown, t, {"tree", "behind", "patched"}) /\ t.tree = tree
      /\ t.patched = patched /\ t.behind = StillBehind(shown, shown.behind, tree)
  <2> DEFINE behind == shown.behind
  <2>1. [shown EXCEPT !.behind = behind] = shown
    BY <1>4 DEF IsDesk, Fields
  <2> HIDE DEF behind
  <2>2. t = [TreeChanged([shown EXCEPT !.behind = behind], tree) EXCEPT !.patched = patched]
    BY <1>1, <2>1
  <2> HIDE DEF tree, patched
  <2>3. QED
    BY <1>4, <2>2, TreeChangedChanges DEF behind
<1>6. grown.patched = s.patched
  BY <1>3, <1>4 DEF TreeChanged, IsDesk, Fields
<1> HIDE DEF grown
<1>7. patched = IF ~trusted THEN s.patched ELSE ~isRead /\ (s.patched \/ ~s.tree[p].named)
  BY <1>6
<1>8. DOMAIN given \subseteq People
  BY <1>3, ListsRead DEF ProfileByFingerPrint, TreeInvBut, Around, PeopleOnly
<1>9. Lists(shown) = given
  BY <1>2, <1>3, SameListsRead DEF Lists, SameLists
<1> HIDE DEF patched, given
<1>10. /\ Leveled(tree)
       /\ OnTop(s.tree, u) => OnTop(tree, u)
       /\ FollowsHeld(s.tree, u) => FollowsHeld(tree, u)
       /\ isRead /\ trusted => FollowsHeld(tree, u)
  BY <1>4, <1>8, ReceivedFollows
<1>11. /\ t.profileInUse = u /\ t.events = shown.events /\ IsDesk(t) /\ SameLists(shown, t)
  BY <1>3, <1>5 DEF Changes, Fields, SameLists
<1>12. Around(t)
  BY <1>3, <1>4, <1>5, <1>10, <1>11
     DEF TreeInvBut, Around, QueueOK, PeopleOnly, ReceivedArePeople, SameLists
<1>13. IsRooted(t)
  <2>1. SUFFICES ASSUME u # Nobody
                 PROVE  OnTop(tree, u) /\ (patched \/ FollowsHeld(tree, u))
    BY <1>5, <1>11 DEF IsRooted
  <2>2. OnTop(s.tree, u) /\ (s.patched \/ FollowsHeld(s.tree, u))
    BY <1>3, <2>1 DEF TreeInvBut, IsRooted
  <2> HIDE DEF tree, isRead, trusted
  <2>3. QED
    BY <1>7, <1>10, <2>2
<1>14. NamedAreStored(shown) /\ OthersAreHidden(shown, {p})
  BY <1>3 DEF TreeInvBut, ReadAsStored
<1>15. \A q : ProfileByFingerPrint(t, q) <=> ProfileByFingerPrint(shown, q)
  BY <1>3, <1>11, SameListsRead
<1>16. Untold(t) = Untold(shown) /\ t.profiles = shown.profiles
  BY <1>11 DEF Untold, SameLists
<1>17. CASE trusted /\ isRead
  <2>1. tree = RecalculateTrust(s.tree, u, given)
    BY <1>17 DEF ProfileReceived, IsProfileTrusted
  <2>2. TreeOK(s.tree) /\ u \in People
    BY <1>4, <1>8, <1>17 DEF Leveled
  <2>3. ReadAsStored(t, {})
    <3> DEFINE w == s.tree
               behind == shown.behind
    <3>1. \A q \in DOMAIN w : w[q].named =>
             /\ q \in DOMAIN shown.tree /\ shown.tree[q].named
             /\ w[q].iTrustList = shown.tree[q].iTrustList
             /\ q \in shown.behind => q \in behind
      BY <1>3
    <3>2. t.tree = RecalculateTrust(w, u, Lists(shown)) /\ u \in DOMAIN Lists(shown)
      BY <1>5, <1>9, <1>17, <2>1
    <3>3. t.behind = StillBehind(shown, behind, t.tree)
      BY <1>5
    <3> HIDE DEF w, behind
    <3>4. QED
      BY <1>3, <1>11, <1>14, <2>2, <3>1, <3>2, <3>3, RecalculatedAsStored DEF w
  <2>4. QED
    BY <1>12, <1>13, <2>3 DEF TreeInv, TreeInvBut, t
<1>18. CASE trusted /\ ~isRead
  <2>1. tree = s.tree
    BY <1>18 DEF ProfileReceived, IsProfileTrusted, RecalculateTrust
  <2>2. DOMAIN t.tree \ t.behind = DOMAIN shown.tree \ shown.behind /\ t.tree = shown.tree
    BY <1>3, <1>5, <2>1 DEF StillBehind
  <2>3. NamedAreStored(t)
    BY <1>14, <1>16, <2>2 DEF NamedAreStored
  <2>4. t.patched = (s.patched \/ ~s.tree[p].named)
    BY <1>5, <1>7, <1>18
  <2>5. ASSUME ~t.patched, NEW q \in DOMAIN t.tree \ (t.behind \cup Untold(t)),
               IsProfileTrusted(t.tree, q), ~t.tree[q].named
        PROVE  ~ProfileByFingerPrint(t, q)
    <3>1. ~s.patched /\ q # p
      BY <1>3, <2>2, <2>4, <2>5
    <3>2. q \in DOMAIN shown.tree \ (shown.behind \cup Untold(shown) \cup {p})
      BY <1>16, <2>2, <2>5, <3>1
    <3>3. QED
      BY <1>3, <1>14, <1>15, <2>2, <2>5, <3>1, <3>2 DEF OthersAreHidden
  <2>6. OthersAreHidden(t, {})
    BY <2>5 DEF OthersAreHidden
  <2>7. QED
    BY <1>12, <1>13, <2>3, <2>6 DEF TreeInv, TreeInvBut, ReadAsStored, t
<1>19. CASE ~trusted
  <2> DEFINE x == DefaultItem
             w == IF p \in DOMAIN s.tree THEN s.tree ELSE With(s.tree, p, x)
  <2>1. x.iTrustingOperator = Nobody /\ ~x.named
    BY DEF DefaultItem
  <2> HIDE DEF x
  <2>2. /\ DOMAIN w = DOMAIN s.tree \cup {p}
        /\ \A q \in DOMAIN s.tree : w[q] = s.tree[q]
        /\ p \notin DOMAIN s.tree => w[p] = x
    BY DEF With
  <2>3. tree = w /\ ~IsProfileTrusted(w, p)
    <3>1. CASE p \in DOMAIN s.tree
      BY <1>19, <3>1 DEF ProfileReceived, IsProfileTrusted
    <3>2. CASE p \notin DOMAIN s.tree
      BY <2>1, <2>2, <3>2 DEF ProfileReceived, IsProfileTrusted, x
    <3>3. QED
      BY <3>1, <3>2
  <2> HIDE DEF w
  <2>4. t.patched = shown.patched
    BY <1>3, <1>5, <1>7, <1>19
  <2>5. ASSUME NEW q \in DOMAIN t.tree \ t.behind, t.tree[q].named \/ q # p
        PROVE  q \in DOMAIN shown.tree \ shown.behind /\ t.tree[q] = shown.tree[q]
    <3>1. q \in DOMAIN s.tree /\ t.tree[q] = s.tree[q]
      BY <1>5, <2>1, <2>2, <2>3, <2>5
    <3>2. t.tree[q].named \/ ~t.tree[q].named
      OBVIOUS
    <3>3. q \notin shown.behind
      BY <1>3, <1>5, <2>5, <3>1 DEF StillBehind
    <3>4. QED
      BY <1>3, <3>1, <3>3
  <2>6. NamedAreStored(t)
    BY <1>14, <1>16, <2>5 DEF NamedAreStored
  <2>7. ASSUME ~t.patched, NEW q \in DOMAIN t.tree \ (t.behind \cup Untold(t)),
               IsProfileTrusted(t.tree, q), ~t.tree[q].named
        PROVE  ~ProfileByFingerPrint(t, q)
    <3>1. q # p
      BY <1>5, <2>3, <2>7
    <3>2. q \in DOMAIN shown.tree \ shown.behind /\ t.tree[q] = shown.tree[q]
      BY <2>5, <2>7, <3>1
    <3>3. q \in DOMAIN shown.tree \ (shown.behind \cup Untold(shown) \cup {p})
      BY <1>16, <2>7, <3>1, <3>2
    <3>4. IsProfileTrusted(shown.tree, q) /\ ~shown.tree[q].named
      BY <2>7, <3>2 DEF IsProfileTrusted
    <3>5. QED
      BY <1>14, <1>15, <2>4, <2>7, <3>3, <3>4 DEF OthersAreHidden
  <2>8. OthersAreHidden(t, {})
    BY <2>7 DEF OthersAreHidden
  <2>9. QED
    BY <1>12, <1>13, <2>6, <2>8 DEF TreeInv, TreeInvBut, ReadAsStored, t
<1>20. QED
  BY <1>17, <1>18, <1>19

-----------------------------------------------------------------------------
LEMMA NotifiedKeepsTree ==
    ASSUME NEW s, TreeInv(s), NEW kind \in {"comment", "message", "record"}, NEW f \in Things
    PROVE  TreeInv(Notified(s, kind, f))
<1> DEFINE t == Notified(s, kind, f)
           e == [kind |-> kind, of |-> f]
<1>1. Changes(s, t, {"events"}) /\ t.events = Append(s.events, e)
  BY NotifiedChanges DEF TreeInv, TreeInvBut, Around, QueueOK
<1>2. e \in DeskEvent /\ e.kind # "profile" /\ Says(e) = {}
  BY DEF DeskEvent, Says
<1> HIDE DEF t, e
<1>3. TreeInv(t)
  BY <1>1, <1>2, EventToldToTree DEF TreeInv
<1>4. QED
  BY <1>3 DEF t

\* The key of a sender may come; no profile comes with it.
LEMMA ReadingKeepsTree ==
    ASSUME NEW s, TreeInv(s), NEW st, NEW f
    PROVE  TreeInv(AfterReading(s, st, f))
<1> DEFINE t == InsertOrUpdatePublicKey(s, st[f].sender, st[f].sender)
<1>1. Changes(s, t, {"publicKeys"}) /\ s.publicKeys \subseteq t.publicKeys
  BY InsertPublicKeyChanges DEF TreeInv, TreeInvBut, Around, QueueOK
<1>2. AfterReading(s, st, f) = s \/ AfterReading(s, st, f) = t
  BY DEF AfterReading, KeyOfSender
<1> HIDE DEF t
<1>3. /\ t.tree = s.tree /\ t.patched = s.patched /\ t.profileInUse = s.profileInUse
      /\ t.events = s.events /\ t.behind = s.behind /\ t.profiles = s.profiles
      /\ t.privateKeys = s.privateKeys /\ t.contentKeyPasswd = s.contentKeyPasswd /\ IsDesk(t)
  BY <1>1 DEF Changes, Fields
<1>4. PeopleOnly(t) /\ (Opens(t, s.profileInUse) => Opens(s, s.profileInUse))
  BY <1>1, <1>3
     DEF TreeInv, TreeInvBut, Around, PeopleOnly, Opens, PrivateKey, PrivateKeyFromPem
<1>5. LeavesTree(s, t)
  BY <1>3, <1>4, SameTree DEF TreeInv, TreeInvBut
<1>6. QED
  BY <1>2, <1>5, LeavingKeeps DEF TreeInv

LEMMA CommentKeepsTree ==
    ASSUME NEW s, TreeInv(s), NEW st, Fresh(st) # {}, NEW about, NEW sender, NEW private
    PROVE  TreeInv(PublishProfileComment(s, st, about, sender, sender, private).desk)
<1> DEFINE r == PublishProfileComment(s, st, about, sender, sender, private)
           t == Notified(s, "comment", NewFingerPrint(st))
<1>1. r.desk = s \/ r.desk = t
  BY CommentMade
<1>2. TreeInv(t)
  BY NewIsFresh, NotifiedKeepsTree
<1> HIDE DEF t, r
<1>3. TreeInv(r.desk)
  BY <1>1, <1>2
<1>4. QED
  BY <1>3 DEF r

-----------------------------------------------------------------------------
\* No step leaves the tree other than it should be.
LEMMA UsersKeepTree ==
    ASSUME DeskInv, TreeInv(desk), Switches \/ Manages(People) \/ Views(People)
    PROVE  TreeInv(desk')
<1>1. desk.generated \in 0 .. Len(MyKeys) /\ IsDesk(desk) /\ Around(desk)
  BY DEF DeskInv, Inv, ContactsInv, KeptBut, QueueOK, TreeInv, TreeInvBut
<1>2. ASSUME NEW password, PasswordOk(password) PROVE TreeInv(desk')
  BY <1>1, <1>2, PasswordGivenKeepsTree DEF PasswordOk
<1>3. ASSUME NEW password, NewPasswordOk(password) PROVE TreeInv(desk')
  BY <1>1, <1>3, PasswordChangedLeavesTree, LeavingKeeps DEF NewPasswordOk, TreeInv
<1>4. ASSUME ChangeProfilePasswd \/ SelectProfile PROVE TreeInv(desk')
  <2>1. Changes(desk, desk', FarFromTree)
    BY <1>1, <1>4 DEF ChangeProfilePasswd, SelectProfile, Changes, IsDesk, Fields, FarFromTree
  <2>2. QED
    BY <1>1, <2>1, OthersLeaveTree, LeavingKeeps DEF TreeInv
<1>5. ASSUME CreateProfile PROVE TreeInv(desk')
  BY <1>1, <1>5, ProfileCreatedKeepsTree DEF CreateProfile
<1>6. ASSUME DeleteProfile PROVE TreeInv(desk')
  BY <1>1, <1>6, ProfileDeletedLeavesTree, LeavingKeeps DEF DeleteProfile, TreeInv
<1>7. ASSUME NEW p, NEW how, EditContactOk(p, how) PROVE TreeInv(desk')
  BY <1>7, ContactEditedKeepsTree DEF EditContactOk
<1>8. ASSUME NEW p, RemoveContactButtonClicked(p) PROVE TreeInv(desk')
  BY <1>8, ContactEditedKeepsTree DEF RemoveContactButtonClicked
<1>9. ASSUME PublishProfileButtonClicked PROVE TreeInv(desk')
  BY <1>1, <1>9, PublishLeavesTree, LeavingKeeps DEF PublishProfileButtonClicked, TreeInv
<1>10. ASSUME IsPrivateSettingChanged PROVE TreeInv(desk')
  <2>1. \E shown : desk' = [desk EXCEPT !.selected = shown]
    BY <1>10, Zenon DEF IsPrivateSettingChanged
  <2>2. Changes(desk, desk', FarFromTree)
    BY <1>1, <2>1 DEF Changes, IsDesk, Fields, FarFromTree
  <2>3. QED
    BY <1>1, <2>2, OthersLeaveTree, LeavingKeeps DEF TreeInv
<1>11. ASSUME ProfileReverted PROVE TreeInv(desk')
  BY <1>11, UserProfileSelectedKeepsTree DEF ProfileReverted, RevertProfileButtonClicked
<1>12. ASSUME NEW p, DetailsViewed(p) PROVE TreeInv(desk')
  BY <1>1, <1>12, ShowDetailsLeavesTree, LeavingKeeps DEF DetailsViewed, ViewProfileDetails, TreeInv
<1>13. QED
  BY <1>2, <1>3, <1>4, <1>5, <1>6, <1>7, <1>8, <1>9, <1>10, <1>11, <1>12
     DEF Switches, Manages, Views

LEMMA WritersKeepTree ==
    ASSUME DeskInv, TreeInv(desk), Writes(People, People) \/ Shares
    PROVE  TreeInv(desk')
<1>1. ASSUME NEW about, CommentWritten(about) PROVE TreeInv(desk')
  <2> DEFINE self == desk.selected.iFingerPrint
  <2>1. /\ Fresh(stored) # {}
        /\ desk' = PublishProfileComment(desk, stored, about, self, self, FALSE).desk
    BY <1>1 DEF CommentWritten
  <2> HIDE DEF self
  <2>2. QED
    BY <2>1, CommentKeepsTree
<1>2. ASSUME NEW to, MessageWritten(to) PROVE TreeInv(desk')
  <2>1. desk' = desk
    BY <1>2, MessageMade DEF MessageWritten
  <2>2. QED
    BY <2>1
<1>3. ASSUME NEW f, MessageShown(f) PROVE TreeInv(desk')
  <2> DEFINE read == AfterReading(desk, stored, f)
             sender == stored[f].sender
  <2>1. desk' = read \/ desk' = OfferDisplayNameForProfile(read, sender)
    BY <1>3 DEF MessageShown
  <2>2. TreeInv(read)
    BY ReadingKeepsTree
  <2> HIDE DEF read, sender
  <2>3. QED
    BY <2>1, <2>2, OfferNameLeavesTree, LeavingKeeps DEF TreeInv, TreeInvBut
<1>4. ASSUME NEW c \in FileContents, NEW isNew, FileShared(c, isNew) PROVE TreeInv(desk')
  <2> DEFINE noEncryption == FALSE
             r == PublishBinaryFile(desk, stored, desk.selected, c, noEncryption, {})
  <2>1. /\ Fresh(stored) # {}
        /\ desk' = PublishProfile(r.desk, desk.selected) \/ desk' = r.desk
    BY <1>4 DEF FileShared
  <2>2. Fresh(stored) # {}
    BY <2>1
  <2>3. StoredOK(stored)
    BY DEF DeskInv, Inv
  <2> HIDE DEF noEncryption
  <2>4. r.desk = desk
    BY <2>2, <2>3, FileMade
  <2> HIDE DEF r
  <2>5. QED
    BY <2>1, <2>4, PublishLeavesTree, LeavingKeeps DEF TreeInv, TreeInvBut
<1>5. QED
  BY <1>1, <1>2, <1>3, <1>4 DEF Writes, Shares

LEMMA ArrivalsKeepTree ==
    ASSUME TreeInv(desk), NEW type \in {"comment", "message"},
           \/ ProfilesArrive(People, SUBSET People)
           \/ ItemsArrive(type, People, People \ Mine)
    PROVE  TreeInv(desk')
<1>1. ASSUME NEW p \in People, NEW list, ProfileArrives(p, list) PROVE TreeInv(desk')
  <2> DEFINE known == InsertOrUpdatePublicKey(desk, p, p)
             profile == [iTrustList |-> list, iIsPrivate |-> FALSE]
             over == Overtaken(desk, p, list, TRUE)
             read == [known EXCEPT !.profiles = With(@, p, profile), !.behind = @ \cup over]
             e == [kind |-> "profile", of |-> p]
             more == {p}
  <2>1. desk' = [known EXCEPT !.profiles = With(@, p, profile), !.behind = @ \cup over,
                              !.events = Append(@, e)]
    BY <1>1 DEF ProfileArrives
  <2>2. Changes(desk, known, {"publicKeys"}) /\ p \in known.publicKeys
        /\ desk.publicKeys \subseteq known.publicKeys
    BY InsertPublicKeyChanges DEF TreeInv, TreeInvBut, Around, QueueOK
  <2>3. e \in DeskEvent /\ (e.kind = "profile" => e.of \in People) /\ Says(e) = more
    BY DEF DeskEvent, Says
  <2>4. profile.iTrustList = list
    OBVIOUS
  <2>5. \A x \in DOMAIN desk.tree \ over :
            x = p /\ desk.tree[x].named => desk.tree[x].iTrustList = list
    BY DEF Overtaken
  <2> HIDE DEF known, profile, e, over
  <2>6. /\ Changes(known, read, {"profiles", "behind"})
        /\ read.profiles = With(known.profiles, p, profile)
        /\ read.behind = known.behind \cup over
        /\ Changes(read, desk', {"events"}) /\ desk'.events = Append(read.events, e)
    BY <2>1, <2>2 DEF Changes, IsDesk, Fields
  <2> HIDE DEF read
  <2>7. /\ read.tree = desk.tree /\ read.patched = desk.patched
        /\ read.profileInUse = desk.profileInUse /\ read.events = desk.events
        /\ read.privateKeys = desk.privateKeys /\ known.profiles = desk.profiles
        /\ read.contentKeyPasswd = desk.contentKeyPasswd
        /\ read.publicKeys = known.publicKeys /\ read.behind = desk.behind \cup over
        /\ IsDesk(read)
    BY <2>2, <2>6 DEF Changes, Fields
  <2>8. /\ DOMAIN read.profiles = DOMAIN desk.profiles \cup {p} /\ read.profiles[p] = profile
        /\ \A x \in DOMAIN desk.profiles \ {p} : read.profiles[x] = desk.profiles[x]
    BY <2>6, <2>7 DEF With
  <2>9. PeopleOnly(read)
    BY <2>2, <2>7, <2>8 DEF TreeInv, TreeInvBut, Around, PeopleOnly
  <2>10. \A x \in DOMAIN desk.tree \ read.behind : desk.tree[x].named /\ x \in DOMAIN read.profiles =>
            \/ x \in DOMAIN desk.profiles /\ desk.profiles[x].iTrustList = read.profiles[x].iTrustList
            \/ desk.tree[x].iTrustList = read.profiles[x].iTrustList
    BY <2>4, <2>5, <2>7, <2>8
  <2>11. \A x : x # p /\ ProfileByFingerPrint(read, x) => ProfileByFingerPrint(desk, x)
    BY <2>7, <2>8
       DEF ProfileByFingerPrint, PublicKey, Decrypt, Opens, PrivateKey, PrivateKeyFromPem,
           TreeInv, TreeInvBut, Around, PeopleOnly
  <2>12. \A x \in DOMAIN desk.tree \ (read.behind \cup more) :
            ~desk.tree[x].named /\ ProfileByFingerPrint(read, x) => ProfileByFingerPrint(desk, x)
    BY <2>11
  <2> HIDE DEF more
  <2>13. Around(read) /\ \A just : ReadAsStored(desk, just) => ReadAsStored(read, just \cup more)
    BY <2>7, <2>9, <2>10, <2>12, TreeStays DEF TreeInv, TreeInvBut
  <2>14. TreeInvBut(read, more)
    <3>1. {} \cup more = more
      OBVIOUS
    <3>2. ReadAsStored(read, more)
      BY <2>13, <3>1 DEF TreeInv, TreeInvBut
    <3>3. QED
      BY <2>7, <2>13, <3>2 DEF TreeInv, TreeInvBut, IsRooted
  <2>15. QED
    BY <2>3, <2>6, <2>14, EventToldToTree
<1>2. ASSUME NEW p, NEW q, ItemArrives(type, p, q) PROVE TreeInv(desk')
  <2> DEFINE f == NewFingerPrint(stored)
             v == Notified(desk, type, f)
  <2>1. /\ Fresh(stored) # {}
        /\ desk' = v \/ desk' = Notified(v, type, f)
    BY <1>2 DEF ItemArrives
  <2>2. f \in Things
    BY <2>1, NewIsFresh
  <2>3. TreeInv(v)
    BY <2>2, NotifiedKeepsTree
  <2> HIDE DEF f, v
  <2>4. QED
    BY <2>1, <2>2, <2>3, NotifiedKeepsTree
<1>3. QED
  BY <1>1, <1>2 DEF ProfilesArrive, ItemsArrive

LEMMA EventLoopKeepsTree ==
    ASSUME TreeInv(desk), EventLoop
    PROVE  TreeInv(desk')
<1> DEFINE t == NextEvent
           e == Head(desk.events)
<1>1. ASSUME desk.events # <<>>
      PROVE  /\ e.kind = "profile" => TreeInvBut(t, {e.of}) /\ e.of \in People
             /\ e.kind # "profile" => TreeInv(t)
  <2>1. Changes(desk, t, {"events"}) /\ t.events = Tail(desk.events)
    BY DEF NextEvent, TreeInv, TreeInvBut, Around, QueueOK, Changes, IsDesk, Fields
  <2> HIDE DEF t
  <2>2. TreeInvBut(t, Says(e)) /\ (e.kind = "profile" => e.of \in People)
    BY <1>1, <2>1, EventTakenFromTree
  <2> HIDE DEF e
  <2>3. QED
    BY <2>2 DEF Says, TreeInv
<1> HIDE DEF t, e
<1>2. ASSUME SelectionHandled PROVE TreeInv(desk')
  <2>1. /\ desk.events # <<>> /\ e.kind = "selected"
        /\ desk' = UserProfileSelected(t, e.of)
    BY <1>2 DEF SelectionHandled, UserProfileSelectedEvent, t, e
  <2>2. QED
    BY <1>1, <2>1, UserProfileSelectedKeepsTree
<1>3. ASSUME NEW tabIsOpen, ProfileEventHandled(tabIsOpen) PROVE TreeInv(desk')
  <2>1. /\ desk.events # <<>> /\ e.kind = "profile"
        /\ desk' = ProfileNotified(t, e.of, tabIsOpen)
    BY <1>3 DEF ProfileEventHandled, ContentReceivedEvent, t, e
  <2>2. QED
    BY <1>1, <2>1, ProfileNotifiedKeepsTree
<1>4. ASSUME CommentEventHandled \/ MessageEventHandled \/ RecordEventHandled
      PROVE  TreeInv(desk')
  BY <1>1, <1>4 DEF CommentEventHandled, MessageEventHandled, RecordEventHandled, t, e
<1>5. ASSUME (\E which \in {"own", "viewed"} : CommentsOnIdle(which)) \/ MessagesOnIdle
      PROVE  TreeInv(desk')
  <2>1. desk' = desk \/ \E f : desk' = AfterReading(desk, stored, f)
    BY <1>5, Zenon DEF CommentsOnIdle, MessagesOnIdle
  <2>2. QED
    BY <2>1, ReadingKeepsTree
<1>6. QED
  BY <1>2, <1>3, <1>4, <1>5 DEF EventLoop

LEMMA ScriptsKeepTree ==
    ASSUME DeskInv, ScriptInv, TreeInv(desk), ScriptCalls(People) \/ ScriptThread \/ HouseKeeping
    PROVE  TreeInv(desk')
<1>1. ASSUME NEW call, PublishItem(call) PROVE TreeInv(desk')
  BY <1>1 DEF PublishItem
<1>2. ASSUME NEW p, GetProfile(p) \/ IsProfileTrustedCmd(p) PROVE TreeInv(desk')
  BY <1>2 DEF GetProfile, IsProfileTrustedCmd
<1>3. ASSUME NEW f, GetClassifiedAd(f) \/ GetBinaryFile(f) \/ FileTruncated(f)
      PROVE  TreeInv(desk')
  BY <1>3 DEF GetClassifiedAd, GetBinaryFile, FileTruncated
<1>4. ASSUME NEW f, GetProfileComment(f) PROVE TreeInv(desk')
  <2>1. desk' = desk \/ desk' = AfterReading(desk, stored, f)
    BY <1>4 DEF GetProfileComment
  <2>2. QED
    BY <2>1, ReadingKeepsTree
<1>5. ASSUME SenderNamed \/ GetBinaryFileData PROVE TreeInv(desk')
  BY <1>5 DEF SenderNamed, GetBinaryFileData
<1>6. ASSUME PublishProfileCommentCmd PROVE TreeInv(desk')
  <2> DEFINE q == script.sender
             about == script.call.about
             private == script.call.private
             r == PublishProfileComment(desk, stored, about, q, q, private)
             none == Failed(desk, stored)
  <2>1. Fresh(stored) # {} /\ (desk' = r.desk \/ desk' = none.desk)
    BY <1>6 DEF PublishProfileCommentCmd, CommandAtHand, Published
  <2> HIDE DEF q, about, private
  <2>2. TreeInv(r.desk)
    BY <2>1, CommentKeepsTree
  <2>3. none.desk = desk
    BY DEF Failed
  <2> HIDE DEF r, none
  <2>4. QED
    BY <2>1, <2>2, <2>3
<1>7. ASSUME PublishFileCmd \/ PublishClassifiedAdCmd PROVE TreeInv(desk')
  <2> DEFINE content == script.call.content
             noEncryption == script.call.noEncryption
             recipients == script.call.recipients
             q == script.sender
             inUse == desk.profileInUse
             file == PublishBinaryFile(desk, stored, desk.selected, content, noEncryption,
                                       recipients)
             ad == PublishClassifiedAd(desk, stored, q, inUse)
             none == Failed(desk, stored)
  <2>1. /\ Fresh(stored) # {}
        /\ desk' = none.desk \/ (PublishFileCmd /\ desk' = file.desk) \/ desk' = ad.desk
    BY <1>7 DEF PublishFileCmd, PublishClassifiedAdCmd, CommandAtHand, Published
  <2>2. PublishFileCmd => content \in FileContents
    BY DEF PublishFileCmd, CommandAtHand, ScriptInv, ScriptOK
  <2> HIDE DEF content, noEncryption, recipients, q, inUse
  <2>3. none.desk = desk /\ (PublishFileCmd => file.desk = desk) /\ ad.desk = desk
    BY <2>1, <2>2, FailedAdds, FileMade, AdMade DEF DeskInv, Inv
  <2> HIDE DEF file, ad, none
  <2>4. QED
    BY <2>1, <2>3
<1>8. ASSUME PublishDbRecordCmd PROVE TreeInv(desk')
  <2> DEFINE private == script.call.private
             recipients == script.call.recipients
  <2>1. Fresh(stored) # {}
    BY <1>8 DEF PublishDbRecordCmd, CommandAtHand
  <2>2. PICK f \in {NewFingerPrint(stored)} \cup {g \in DOMAIN stored : stored[g].type = "record"} :
           desk' = PublishDbRecord(desk, stored, f, private, recipients).desk
    BY <1>8 DEF PublishDbRecordCmd, Published
  <2> DEFINE t == Notified(desk, "record", f)
  <2> HIDE DEF private, recipients
  <2>3. (desk' = desk \/ desk' = t) /\ f \in Things
    BY <2>1, <2>2, RecordMade DEF DeskInv, Inv
  <2>4. TreeInv(t)
    BY <2>3, NotifiedKeepsTree
  <2> HIDE DEF t
  <2>5. QED
    BY <2>3, <2>4
<1>9. QED
  BY <1>1, <1>2, <1>3, <1>4, <1>5, <1>6, <1>7, <1>8 DEF ScriptCalls, ScriptThread, HouseKeeping

LEMMA TreeStarts == ASSUME DeskInit PROVE TreeInv(desk)
<1>1. PICK d \in Databases : desk = Started(d)
  BY DEF DeskInit
<1>2. /\ desk.privateKeys = d.privateKeys /\ desk.profiles = d.profiles
      /\ desk.publicKeys = d.publicKeys
      /\ desk.events = <<>> /\ desk.profileInUse = Nobody /\ desk.tree = <<>>
  BY <1>1 DEF Started
<1>3. IsDesk(desk)
  BY <1>1, StartedIsKept
<1>4. /\ DOMAIN d.privateKeys \subseteq Mine /\ d.publicKeys \subseteq People
      /\ DOMAIN d.profiles \subseteq d.publicKeys
  BY DatabasesAssumption DEF Partly
<1>5. PeopleOnly(desk)
  BY <1>2, <1>4 DEF PeopleOnly
<1>6. DOMAIN desk.tree = {} /\ ToSet(desk.events) = {}
  BY <1>2 DEF ToSet
<1>7. desk.events \in Seq(DeskEvent)
  BY <1>2, EmptySeq
<1>8. Around(desk)
  BY <1>2, <1>3, <1>5, <1>6, <1>7 DEF Around, QueueOK, ReceivedArePeople, Leveled, TreeOK
<1>9. ReadAsStored(desk, {})
  BY <1>6 DEF ReadAsStored, NamedAreStored, OthersAreHidden
<1>10. QED
  BY <1>2, <1>8, <1>9 DEF TreeInv, TreeInvBut, IsRooted

LEMMA TreeStepKeeps ==
    ASSUME DeskInv, ScriptInv, TreeInv(desk), [DeskNext]_deskVars
    PROVE  TreeInv(desk')
<1>1. CASE Switches \/ Manages(People) \/ Views(People)
  BY <1>1, UsersKeepTree
<1>2. CASE Writes(People, People) \/ Shares
  BY <1>2, WritersKeepTree
<1>3. CASE \/ ProfilesArrive(People, SUBSET People)
           \/ \E type \in {"comment", "message"} : ItemsArrive(type, People, People \ Mine)
  BY <1>3, ArrivalsKeepTree
<1>4. CASE EventLoop
  BY <1>4, EventLoopKeepsTree
<1>5. CASE ScriptCalls(People) \/ ScriptThread \/ HouseKeeping
  BY <1>5, ScriptsKeepTree
<1>6. CASE UNCHANGED deskVars
  BY <1>6 DEF deskVars
<1>7. QED
  BY <1>1, <1>2, <1>3, <1>4, <1>5, <1>6 DEF DeskNext

\* Where the tree holds lists that are stored, to follow the ones is to follow the
\* others.
LEMMA FollowsStored ==
    ASSUME NEW s, TreeInv(s), s.profileInUse \in DOMAIN s.tree, ~s.patched
    PROVE  TrustFollowsLists(s.tree, s.profileInUse, StoredLists(s, s.behind \cup Untold(s)))
<1> DEFINE u == s.profileInUse
           t == s.tree
           but == s.behind \cup Untold(s)
           L == StoredLists(s, but)
           H == Held(t)
           m == KHowManyLevelsDeep
<1>1. u # Nobody
  BY KeysAssumption DEF TreeInv, TreeInvBut, Around, Leveled, TreeOK
<1>2. FollowsHeld(t, u) /\ Leveled(t)
  BY <1>1 DEF TreeInv, TreeInvBut, IsRooted, Around
<1>3. m \in Nat
  BY TreeAssumption
<1>4. ASSUME NEW p \in DOMAIN t, IsProfileTrusted(t, p)
      PROVE  p \in DOMAIN L /\ L[p] = t[p].iTrustList
  <2>1. p \in DOMAIN Lists(s) \ but => Lists(s)[p] = t[p].iTrustList
    <3>1. SUFFICES ASSUME p \in DOMAIN Lists(s), p \notin but
                   PROVE  Lists(s)[p] = t[p].iTrustList
      OBVIOUS
    <3>2. /\ ProfileByFingerPrint(s, p) /\ p \in DOMAIN s.profiles
          /\ Lists(s)[p] = s.profiles[p].iTrustList
      BY <3>1, ListsRead DEF ProfileByFingerPrint
    <3>3. t[p].named
      BY <1>4, <3>1, <3>2 DEF TreeInv, TreeInvBut, ReadAsStored, OthersAreHidden
    <3>4. QED
      BY <1>4, <3>1, <3>2, <3>3 DEF TreeInv, TreeInvBut, ReadAsStored, NamedAreStored
  <2>2. QED
    BY <2>1 DEF StoredLists
<1>5. /\ DOMAIN H = DOMAIN t
      /\ \A p \in DOMAIN t : H[p] = t[p].iTrustList
  BY DEF Held
<1> HIDE DEF L, H
<1>6. /\ {p \in DOMAIN t : IsProfileTrusted(t, p)} = Within(H, u, m)
      /\ \A p \in DOMAIN t : IsProfileTrusted(t, p) =>
            LET by == t[p].iTrustingOperator IN
            /\ p \in Within(H, u, t[p].iLevel)
            /\ p # u => /\ t[p].iLevel > 0
                        /\ p \notin Within(H, u, t[p].iLevel - 1)
                        /\ by \in DOMAIN t /\ p \in H[by]
                        /\ t[by].iLevel = t[p].iLevel - 1
  BY <1>2 DEF FollowsHeld, TrustFollowsLists, H
<1>7. \A k \in 0 .. m : Within(L, u, k) = Within(H, u, k)
  <2>1. \A p \in Within(H, u, m) :
           p \in DOMAIN H /\ p \in DOMAIN L /\ L[p] = H[p]
    BY <1>4, <1>5, <1>6
  <2>2. \A p \in Within(H, u, m) : \A q : p \in DOMAIN H /\ q \in H[p] <=>
                                          p \in DOMAIN L /\ q \in L[p]
    BY <2>1
  <2>3. QED
    BY <1>3, <2>2, SameWithin
<1>8. {p \in DOMAIN t : IsProfileTrusted(t, p)} = Within(L, u, m)
  BY <1>3, <1>6, <1>7
<1>9. ASSUME NEW p \in DOMAIN t, IsProfileTrusted(t, p)
      PROVE  LET by == t[p].iTrustingOperator IN
             /\ p \in Within(L, u, t[p].iLevel)
             /\ p # u => /\ t[p].iLevel > 0
                         /\ p \notin Within(L, u, t[p].iLevel - 1)
                         /\ by \in DOMAIN t /\ p \in L[by]
                         /\ t[by].iLevel = t[p].iLevel - 1
  <2> DEFINE k == t[p].iLevel
             by == t[p].iTrustingOperator
  <2>1. k \in Nat /\ k <= m /\ (p # u => IsProfileTrusted(t, by))
    BY <1>2, <1>9 DEF Leveled, FollowsHeld
  <2>2. /\ p \in Within(H, u, k)
        /\ p # u => /\ k > 0 /\ p \notin Within(H, u, k - 1)
                    /\ by \in DOMAIN t /\ p \in H[by] /\ t[by].iLevel = k - 1
    BY <1>6, <1>9
  <2>3. p # u => L[by] = H[by]
    BY <1>4, <1>5, <2>1, <2>2
  <2> HIDE DEF k, by
  <2>4. k \in 0 .. m /\ (p # u => k - 1 \in 0 .. m)
    BY <1>3, <2>1, <2>2
  <2>5. /\ p \in Within(L, u, k)
        /\ p # u => /\ k > 0 /\ p \notin Within(L, u, k - 1)
                    /\ by \in DOMAIN t /\ p \in L[by] /\ t[by].iLevel = k - 1
    BY <1>7, <2>2, <2>3, <2>4
  <2>6. QED
    BY <2>5 DEF k, by
<1>10. TrustFollowsLists(t, u, L)
  BY <1>8, <1>9 DEF TrustFollowsLists
<1>11. QED
  BY <1>10 DEF L

(* Whichever profiles are put in use, received, published, edited and         *)
(* deleted, trusted are exactly the profiles found over at most               *)
(* KHowManyLevelsDeep lists from the profile in use, each at the length of    *)
(* its shortest path, and the lists are the ones in the database. Excepted    *)
(* are the lists of profiles of which a newer one was stored after theirs     *)
(* was read, which setProfileTrustedInList does not read again, and of those  *)
(* whose arrival the tree has yet to be told: of these it follows the list    *)
(* that it has. Nothing is said while the profile in use could not be read    *)
(* when the tree was last to be calculated (recalculateTrust,                 *)
(* offerTrustList, contentReceived).                                          *)
THEOREM TrustStaysCurrent == DeskSpec => []TrustIsCurrent
<1> DEFINE Holds == DeskInv /\ ScriptInv /\ TreeInv(desk)
<1>1. DeskInit => Holds
  BY DeskStarts, TreeStarts
<1>2. Holds /\ [DeskNext]_deskVars => Holds'
  BY DeskStepKeeps, TreeStepKeeps
<1>3. Holds => TrustIsCurrent
  BY FollowsStored DEF TrustIsCurrent, TrustFollows
<1> HIDE DEF Holds
<1>4. QED
  BY <1>1, <1>2, <1>3, PTL DEF DeskSpec

-----------------------------------------------------------------------------
(***************************************************************************)
(* The thread the programs run in (Scripts), for any content and any       *)
(* number of evaluations and requests for a file: the semaphore of         *)
(* getFileName is given back exactly once for each time it is taken, and a *)
(* program is told to exit only if the user stopped that one.              *)
(*                                                                         *)
(* The first follows the one permit: it is free, or there is one call of   *)
(* the slot under way to the main thread, or the dialog is open.  Events   *)
(* of other kinds come and go around that call.  The second rests on what  *)
(* iNeedsToRun, if it is FALSE, says in each of the places where the       *)
(* thread may be: until the first line of run() it is about an earlier     *)
(* program, from there on about this one or about its window.              *)
(***************************************************************************)

\* Where the calls of the file slot are.
FileEvents(s) == {i \in DOMAIN s : s[i].kind = "file"}
AtMostOne(s) == \A i, j \in FileEvents(s) : i = j

\* t has a call of the file slot if s has, and no more of them.
SameCalls(t, s) ==
    /\ AtMostOne(s) => AtMostOne(t)
    /\ FileEvents(t) = {} <=> FileEvents(s) = {}

LEMMA EventKinds ==
    /\ \A kind \in {"file", "started", "finished"} :
          [kind |-> kind] \in Event /\ [kind |-> kind].kind = kind
    /\ \A id \in Nat \ {0} :
          /\ [kind |-> "eval", id |-> id] \in Event
          /\ [kind |-> "eval", id |-> id].kind = "eval"
    /\ \A e \in Event : e.kind = "eval" => e.id \in Nat \ {0}
BY DEF Event

\* An event is posted.
LEMMA AppendEvent ==
    ASSUME NEW s \in Seq(Event), NEW e \in Event
    PROVE  /\ Append(s, e) \in Seq(Event)
           /\ e.kind # "file" => SameCalls(Append(s, e), s)
           /\ e.kind = "file" /\ FileEvents(s) = {} =>
                 AtMostOne(Append(s, e)) /\ FileEvents(Append(s, e)) # {}
<1> DEFINE t == Append(s, e)
<1>1. /\ t \in Seq(Event) /\ Len(t) = Len(s) + 1
      /\ \A i \in 1 .. Len(s) : t[i] = s[i]
      /\ t[Len(s) + 1] = e
  BY AppendProperties
<1>2. /\ DOMAIN s = 1 .. Len(s) /\ Len(s) \in Nat
      /\ DOMAIN t = 1 .. Len(t)
  BY <1>1, LenProperties
<1> HIDE DEF t
<1>3. FileEvents(t) = FileEvents(s) \cup IF e.kind = "file" THEN {Len(s) + 1} ELSE {}
  BY <1>1, <1>2 DEF FileEvents
<1>4. QED
  BY <1>1, <1>3 DEF SameCalls, AtMostOne, t

\* The first event is delivered.
LEMMA TailEvent ==
    ASSUME NEW s \in Seq(Event), s # <<>>
    PROVE  /\ Head(s) \in Event /\ Tail(s) \in Seq(Event)
           /\ Head(s).kind # "file" => SameCalls(Tail(s), s)
           /\ Head(s).kind = "file" /\ AtMostOne(s) =>
                 FileEvents(s) # {} /\ FileEvents(Tail(s)) = {}
<1> DEFINE t == Tail(s)
<1>1. /\ Head(s) \in Event /\ t \in Seq(Event) /\ Len(t) = Len(s) - 1
      /\ \A i \in 1 .. Len(t) : t[i] = s[i + 1]
      /\ Head(s) = s[1]
  BY HeadTailProperties
<1>2. /\ DOMAIN s = 1 .. Len(s) /\ Len(s) \in Nat /\ Len(s) # 0
      /\ DOMAIN t = 1 .. Len(t)
  BY <1>1, LenProperties, EmptySeq
<1> HIDE DEF t
<1>3. \A i \in 1 .. Len(s) : i \in FileEvents(s) <=> s[i].kind = "file"
  BY <1>2 DEF FileEvents
<1>4. \A i : i \in FileEvents(t) <=> i \in 1 .. Len(t) /\ i + 1 \in FileEvents(s)
  BY <1>1, <1>2 DEF FileEvents
<1>5. FileEvents(s) \subseteq 1 .. Len(s) /\ FileEvents(t) \subseteq 1 .. Len(t)
  BY <1>2 DEF FileEvents
<1>6. CASE Head(s).kind # "file"
  <2>1. \A i \in FileEvents(s) : i - 1 \in FileEvents(t)
    BY <1>1, <1>2, <1>3, <1>4, <1>5, <1>6
  <2>2. FileEvents(t) = {} <=> FileEvents(s) = {}
    BY <1>4, <2>1
  <2>3. AtMostOne(s) => AtMostOne(t)
    BY <1>4, <1>5 DEF AtMostOne
  <2>4. QED
    BY <1>1, <1>6, <2>2, <2>3 DEF SameCalls, t
<1>7. CASE Head(s).kind = "file"
  <2>1. 1 \in FileEvents(s)
    BY <1>1, <1>2, <1>3, <1>7
  <2>2. AtMostOne(s) => FileEvents(t) = {}
    BY <1>4, <1>5, <2>1 DEF AtMostOne
  <2>3. QED
    BY <1>1, <1>7, <2>1, <2>2 DEF t
<1>8. QED
  BY <1>6, <1>7

\* Events posted to a dialog go with it; the call of the file slot is not one.
LEMMA FilterEvents ==
    ASSUME NEW s \in Seq(Event), NEW K, \A e \in Event : e.kind = "file" => e \in K
    PROVE  Filter(s, K) \in Seq(Event) /\ SameCalls(Filter(s, K), s)
<1> DEFINE t == Filter(s, K)
<1>1. /\ t \in Seq(Event) /\ ToSet(t) = ToSet(s) \cap K
      /\ Thins(t, s)
  BY FilterProperties, FilterThins
<1> HIDE DEF t
<1>2. DOMAIN s = 1 .. Len(s) /\ DOMAIN t = 1 .. Len(t)
  BY <1>1, LenProperties
<1>3. PICK from \in [1 .. Len(t) -> 1 .. Len(s)] :
         /\ \A k \in 1 .. Len(t) : t[k] = s[from[k]] /\ k <= from[k]
         /\ \A j, k \in 1 .. Len(t) : from[j] = from[k] => j = k
  BY <1>1 DEF Thins
<1>4. \A k \in FileEvents(t) : k \in 1 .. Len(t) /\ from[k] \in FileEvents(s)
  BY <1>2, <1>3 DEF FileEvents
<1>5. AtMostOne(s) => AtMostOne(t)
  BY <1>3, <1>4 DEF AtMostOne
<1>6. \A u \in Seq(Event) : FileEvents(u) = {} <=> \A e \in ToSet(u) : e.kind # "file"
  BY DEF FileEvents, ToSet
<1>7. \A e \in ToSet(s) : e \in Event
  BY <1>2, ElementOfSeq DEF ToSet
<1>8. FileEvents(t) = {} <=> FileEvents(s) = {}
  BY <1>1, <1>6, <1>7
<1>9. QED
  BY <1>1, <1>5, <1>8 DEF SameCalls, t

-----------------------------------------------------------------------------
\* The one permit of the semaphore.
OnePermit ==
    /\ AtMostOne(events)
    /\ semaphore = 1 <=> FileEvents(events) = {} /\ ~dialog
    /\ dialog => FileEvents(events) = {}
    /\ semaphore = 0 => blocked

\* The places where a FALSE iNeedsToRun is about the program that runs.
Past == {"init", "program", "loop", "script", "evaluating", "item", "notifying",
         "notified", "events"}
ToldToExit ==
    pc \in Past /\ (pc \in {"init", "program"} \/ window = "open") /\ ~needsToRun => told = run

RunInv == TypeOK /\ OnePermit /\ ToldToExit

LEMMA InitRunInv == Init => RunInv
<1> SUFFICES ASSUME Init PROVE RunInv
  OBVIOUS
<1>1. TypeOK
  <2>1. scripts \in Seq(Nat \ {0}) /\ items \in Seq(Contents) /\ events \in Seq(Event)
    BY EmptySeq DEF Init
  <2>2. semaphore \in 0 .. 1 /\ evals \in 0 .. MaxEvals /\ contents \in 0 .. MaxContents
        /\ asks \in 0 .. MaxAsks /\ run \in Nat /\ told \in Nat
    BY BoundsAssumption DEF Init
  <2>3. /\ needsToRun \in BOOLEAN /\ mainWindowExists \in BOOLEAN /\ notify \in BOOLEAN
        /\ blocked \in BOOLEAN /\ dialog \in BOOLEAN
    BY Zenon DEF Init
  <2>4. pc \in Places /\ window \in Windows /\ button \in {"none", "start", "stop"}
    BY DEF Init, Places, Windows
  <2>5. QED
    BY <2>1, <2>2, <2>3, <2>4 DEF TypeOK
<1>2. OnePermit
  BY DEF Init, OnePermit, AtMostOne, FileEvents
<1>3. ToldToExit
  BY DEF Init, ToldToExit, Past
<1>4. QED
  BY <1>1, <1>2, <1>3 DEF RunInv

\* Steps that leave the file dialog alone and post or deliver other events only.
LEMMA PermitStays ==
    ASSUME OnePermit, UNCHANGED fileVars,
           events' = events \/ SameCalls(events', events)
    PROVE  OnePermit'
BY DEF OnePermit, fileVars, SameCalls

\* A signal of the thread.
LEMMA EmittedSignal ==
    ASSUME events \in Seq(Event), NEW signal \in {"started", "finished"}
    PROVE  /\ Emitted(signal) \in Seq(Event)
           /\ Emitted(signal) = events \/ SameCalls(Emitted(signal), events)
BY EventKinds, AppendEvent DEF Emitted

\* The user evaluates a script.
LEMMA Evaluation ==
    ASSUME TypeOK, EmitEvalScript
    PROVE  /\ events' \in Seq(Event) /\ SameCalls(events', events)
           /\ evals' \in 0 .. MaxEvals
<1>1. evals' \in Nat \ {0} /\ evals' \in 0 .. MaxEvals
  BY BoundsAssumption DEF TypeOK, EmitEvalScript
<1>2. PICK e \in Event : e.kind = "eval" /\ events' = Append(events, e)
  BY <1>1, EventKinds DEF EmitEvalScript
<1>3. QED
  BY <1>1, <1>2, AppendEvent DEF TypeOK

\* An event other than the call of the file slot is delivered.
LEMMA Delivery ==
    ASSUME events \in Seq(Event), NEW kind \in {"eval", "started", "finished"}, Deliver(kind)
    PROVE  /\ events' \in Seq(Event) /\ SameCalls(events', events)
           /\ Head(events) \in Event /\ Head(events).kind = kind
BY TailEvent DEF Deliver

-----------------------------------------------------------------------------
LEMMA UserRunInv ==
    ASSUME RunInv, User
    PROVE  RunInv'
<1>1. TypeOK /\ OnePermit /\ ToldToExit /\ events \in Seq(Event)
  BY DEF RunInv, TypeOK
<1>2. CASE EvalButtonPressed
  <2>1. UNCHANGED <<pc, window, roundVars, run, queueVars, fileVars, button, contents, asks>>
    BY <1>2 DEF EvalButtonPressed
  <2>2. CASE ~IsRunning /\ EmitEvalScript /\ UNCHANGED <<needsToRun, told>>
    <3>1. OnePermit'
      BY <1>1, <2>1, <2>2, Evaluation, PermitStays
    <3>2. TypeOK'
      BY <1>1, <2>1, <2>2, Evaluation DEF TypeOK, roundVars, queueVars, fileVars
    <3>3. QED
      BY <1>1, <2>1, <2>2, <3>1, <3>2 DEF RunInv, ToldToExit
  <2>3. CASE IsRunning /\ StopScript /\ UNCHANGED <<events, evals>>
    <3>1. OnePermit'
      BY <1>1, <2>1, <2>3, PermitStays
    <3>2. TypeOK'
      BY <1>1, <2>1, <2>3 DEF TypeOK, roundVars, queueVars, fileVars, StopScript
    <3>3. ToldToExit'
      BY <2>1, <2>3 DEF ToldToExit, Past, StopScript
    <3>4. QED
      BY <3>1, <3>2, <3>3 DEF RunInv
  <2>4. QED
    BY <1>2, <2>2, <2>3 DEF EvalButtonPressed
<1>3. CASE ConsoleEvalButtonPressed
  <2>1. /\ EmitEvalScript
        /\ UNCHANGED <<threadVars, queueVars, fileVars, button, contents, asks, told>>
    BY <1>3 DEF ConsoleEvalButtonPressed
  <2>2. OnePermit'
    BY <1>1, <2>1, Evaluation, PermitStays
  <2>3. TypeOK'
    BY <1>1, <2>1, Evaluation DEF TypeOK, threadVars, roundVars, queueVars, fileVars
  <2>4. QED
    BY <1>1, <2>1, <2>2, <2>3 DEF RunInv, ToldToExit, threadVars, roundVars
<1>4. CASE DisplayTclProgs
  <2>1. /\ button' \in {"stop", "start"}
        /\ UNCHANGED <<threadVars, queueVars, fileVars, events, boundVars, told>>
    BY <1>4 DEF DisplayTclProgs
  <2>2. OnePermit'
    BY <1>1, <2>1, PermitStays
  <2>3. QED
    BY <1>1, <2>1, <2>2 DEF RunInv, TypeOK, ToldToExit, threadVars, roundVars, queueVars,
       fileVars, boundVars
<1>5. CASE DialogRejected
  <2> DEFINE K == {e \in Event : e.kind \notin {"started", "finished"}}
  <2>1. /\ button' = "none" /\ events' = Filter(events, K)
        /\ UNCHANGED <<threadVars, queueVars, fileVars, boundVars, told>>
    BY <1>5 DEF DialogRejected
  <2>2. \A e \in Event : e.kind = "file" => e \in K
    OBVIOUS
  <2> HIDE DEF K
  <2>3. events' \in Seq(Event) /\ SameCalls(events', events)
    BY <1>1, <2>1, <2>2, FilterEvents
  <2>4. OnePermit'
    BY <1>1, <2>1, <2>3, PermitStays
  <2>5. QED
    BY <1>1, <2>1, <2>3, <2>4 DEF RunInv, TypeOK, ToldToExit, threadVars, roundVars,
       queueVars, fileVars, boundVars
<1>6. CASE FileIsChosen
  <2>1. /\ dialog /\ dialog' = FALSE /\ semaphore' = semaphore + 1
        /\ UNCHANGED <<threadVars, queueVars, blocked, events, button, boundVars, told>>
    BY <1>6 DEF FileIsChosen
  <2>2. semaphore = 0
    BY <1>1, <2>1 DEF OnePermit, TypeOK
  <2>3. OnePermit'
    BY <1>1, <2>1, <2>2 DEF OnePermit
  <2>4. semaphore' \in 0 .. 1 /\ dialog' \in BOOLEAN
    <3>1. semaphore' = semaphore + 1 /\ dialog' = FALSE
      BY <2>1
    <3>2. semaphore' \in 0 .. 1
      BY <2>2, <3>1
    <3>3. dialog' \in BOOLEAN
      BY <3>1, Zenon
    <3>4. QED
      BY <3>2, <3>3
  <2>5. TypeOK'
    BY <1>1, <2>1, <2>4 DEF TypeOK, threadVars, roundVars, queueVars, boundVars
  <2>6. QED
    BY <1>1, <2>1, <2>3, <2>5 DEF RunInv, ToldToExit, threadVars, roundVars
<1>7. QED
  BY <1>2, <1>3, <1>4, <1>5, <1>6 DEF User

LEMMA MainThreadRunInv ==
    ASSUME RunInv, MainThread
    PROVE  RunInv'
<1>1. TypeOK /\ OnePermit /\ ToldToExit /\ events \in Seq(Event)
  BY DEF RunInv, TypeOK
<1>2. CASE EvalScript
  <2>1. /\ Deliver("eval")
        /\ Start \/ Enqueue(Head(events).id)
        /\ UNCHANGED <<needsToRun, window, roundVars, items, fileVars, button, boundVars, told>>
    BY <1>2 DEF EvalScript
  <2>2. /\ events' \in Seq(Event) /\ SameCalls(events', events)
        /\ Head(events) \in Event /\ Head(events).kind = "eval"
    BY <1>1, <2>1, Delivery
  <2>3. Head(events).id \in Nat \ {0}
    BY <2>2, EventKinds
  <2>4. OnePermit'
    BY <1>1, <2>1, <2>2, PermitStays
  <2>5. CASE Start
    BY <1>1, <2>1, <2>2, <2>4, <2>5 DEF RunInv, TypeOK, ToldToExit, Start, Places, Past,
       roundVars, fileVars, boundVars
  <2>6. CASE Enqueue(Head(events).id)
    <3>1. /\ scripts' = Append(scripts, Head(events).id) /\ UNCHANGED <<pc, run>>
          /\ scripts \in Seq(Nat \ {0})
      BY <1>1, <2>6 DEF Enqueue, TypeOK
    <3>2. scripts' \in Seq(Nat \ {0})
      BY <2>3, <3>1, AppendProperties
    <3>3. QED
      BY <1>1, <2>1, <2>2, <2>4, <3>1, <3>2 DEF RunInv, TypeOK, ToldToExit, roundVars,
         fileVars, boundVars
  <2>7. QED
    BY <2>1, <2>5, <2>6
<1>3. CASE TclProgramStarted \/ TclProgramStopped
  <2>1. PICK kind \in {"started", "finished"} : Deliver(kind)
    BY <1>3 DEF TclProgramStarted, TclProgramStopped
  <2>2. /\ button' \in {"start", "stop"}
        /\ UNCHANGED <<threadVars, queueVars, fileVars, boundVars, told>>
    BY <1>3 DEF TclProgramStarted, TclProgramStopped
  <2>3. events' \in Seq(Event) /\ SameCalls(events', events)
    BY <1>1, <2>1, Delivery
  <2>4. OnePermit'
    BY <1>1, <2>2, <2>3, PermitStays
  <2>5. QED
    BY <1>1, <2>2, <2>3, <2>4 DEF RunInv, TypeOK, ToldToExit, threadVars, roundVars,
       queueVars, fileVars, boundVars
<1>4. CASE GetFileNameSlot
  <2>1. /\ events # <<>> /\ Head(events).kind = "file" /\ events' = Tail(events)
        /\ dialog' = TRUE
        /\ UNCHANGED <<threadVars, queueVars, blocked, semaphore, button, boundVars, told>>
    BY <1>4 DEF GetFileNameSlot, Deliver
  <2>2. events' \in Seq(Event) /\ FileEvents(events) # {} /\ FileEvents(events') = {}
    BY <1>1, <2>1, TailEvent DEF OnePermit
  <2>3. OnePermit'
    BY <1>1, <2>1, <2>2 DEF OnePermit, AtMostOne
  <2>4. QED
    BY <1>1, <2>1, <2>2, <2>3 DEF RunInv, TypeOK, ToldToExit, threadVars, roundVars,
       queueVars, boundVars
<1>5. QED
  BY <1>2, <1>3, <1>4 DEF MainThread

\* A script asks for a file: it takes the permit and posts the call.
LEMMA GetFileNameRunInv ==
    ASSUME RunInv, GetFileName
    PROVE  RunInv'
<1> DEFINE call == [kind |-> "file"]
<1>1. TypeOK /\ OnePermit /\ ToldToExit /\ events \in Seq(Event)
  BY DEF RunInv, TypeOK
<1>2. /\ asks' \in 0 .. MaxAsks
      /\ UNCHANGED <<threadVars, queueVars, dialog, button, evals, contents, told>>
  BY <1>1, BoundsAssumption DEF GetFileName, ScriptAsksForFile, TypeOK
<1>3. ToldToExit'
  BY <1>1, <1>2 DEF ToldToExit, threadVars, roundVars
<1>4. CASE UNCHANGED <<semaphore, events, blocked>>
  <2>1. OnePermit'
    BY <1>1, <1>2, <1>4, PermitStays DEF fileVars
  <2>2. QED
    BY <1>1, <1>2, <1>3, <1>4, <2>1 DEF RunInv, TypeOK, threadVars, roundVars, queueVars
<1>5. CASE /\ ~dialog /\ semaphore > 0
           /\ semaphore' = semaphore - 1
           /\ events' = Append(events, call)
           /\ blocked' = TRUE
  <2>1. semaphore = 1 /\ semaphore' = 0 /\ FileEvents(events) = {}
    BY <1>1, <1>5 DEF TypeOK, OnePermit
  <2>2. call \in Event /\ call.kind = "file"
    BY EventKinds
  <2>3. events' \in Seq(Event) /\ AtMostOne(events') /\ FileEvents(events') # {}
    BY <1>1, <1>5, <2>1, <2>2, AppendEvent
  <2>4. OnePermit'
    BY <1>2, <1>5, <2>1, <2>3 DEF OnePermit
  <2>5. QED
    BY <1>1, <1>2, <1>3, <1>5, <2>1, <2>3, <2>4 DEF RunInv, TypeOK, threadVars, roundVars,
       queueVars
<1>6. QED
  BY <1>4, <1>5 DEF GetFileName

\* Content arrives.
LEMMA NotifyRunInv ==
    ASSUME RunInv, NEW content \in Contents, NotifyOfContentReceived(content)
    PROVE  RunInv'
<1>1. TypeOK /\ OnePermit /\ ToldToExit /\ items \in Seq(Contents)
  BY DEF RunInv, TypeOK
<1>2. /\ contents' \in 0 .. MaxContents /\ items' = Append(items, content)
      /\ UNCHANGED <<threadVars, scripts, fileVars, events, button, evals, asks, told>>
  BY <1>1, BoundsAssumption DEF NotifyOfContentReceived, TypeOK
<1>3. items' \in Seq(Contents)
  BY <1>1, <1>2, AppendProperties
<1>4. OnePermit'
  BY <1>1, <1>2, PermitStays
<1>5. QED
  BY <1>1, <1>2, <1>3, <1>4 DEF RunInv, TypeOK, ToldToExit, threadVars, roundVars, fileVars

-----------------------------------------------------------------------------
\* The thread's own steps, which leave the file dialog alone: the signals it emits ...
LEMMA ThreadSignals ==
    ASSUME RunInv, ThreadBegins \/ ThreadEnds
    PROVE  RunInv'
<1>1. TypeOK /\ OnePermit /\ ToldToExit /\ events \in Seq(Event)
  BY DEF RunInv, TypeOK
<1>2. /\ \E signal \in {"started", "finished"} : events' = Emitted(signal)
      /\ pc' \in {"begin", "idle"}
      /\ UNCHANGED <<needsToRun, window, roundVars, run, queueVars, fileVars, button, boundVars,
                     told>>
  BY DEF ThreadBegins, ThreadEnds
<1>3. events' \in Seq(Event) /\ (events' = events \/ SameCalls(events', events))
  BY <1>1, <1>2, EmittedSignal
<1>4. OnePermit'
  BY <1>1, <1>2, <1>3, PermitStays
<1>5. TypeOK'
  BY <1>1, <1>2, <1>3 DEF TypeOK, Places, roundVars, queueVars, fileVars, boundVars
<1>6. ToldToExit'
  BY <1>2 DEF ToldToExit, Past
<1>7. QED
  BY <1>4, <1>5, <1>6 DEF RunInv

\* ... and those that post nothing. A window that is gone does not come back in one
\* program, and iNeedsToRun is not made FALSE while it is there.
ThreadTurns ==
  \/ RunBegins
  \/ InitInterpreter
  \/ ProgramEvaluated
  \/ LoopHead
  \/ DequeueScript
  \/ ScriptEvaluated
  \/ DequeueItem
  \/ ItemEvaluated
  \/ LookAtItems
  \/ TclEvents
  \/ Cleanup

LEMMA TurnsTypes ==
    ASSUME RunInv, ThreadTurns
    PROVE  /\ UNCHANGED <<fileVars, events, button, boundVars, told, run>>
           /\ pc' \in Places
           /\ needsToRun' \in BOOLEAN /\ window' \in Windows
           /\ mainWindowExists' \in BOOLEAN /\ notify' \in BOOLEAN
           /\ scripts' \in Seq(Nat \ {0}) /\ items' \in Seq(Contents)
<1>1. /\ needsToRun \in BOOLEAN /\ window \in Windows
      /\ mainWindowExists \in BOOLEAN /\ notify \in BOOLEAN
      /\ scripts \in Seq(Nat \ {0}) /\ items \in Seq(Contents)
  BY DEF RunInv, TypeOK
<1>2. UNCHANGED <<fileVars, events, button, boundVars, told, run>>
  BY DEF ThreadTurns, RunBegins, InitInterpreter, ProgramEvaluated, LoopHead, DequeueScript,
         ScriptEvaluated, DequeueItem, ItemEvaluated, LookAtItems, TclEvents, Cleanup
<1>3. pc' \in Places
  BY DEF ThreadTurns, RunBegins, InitInterpreter, ProgramEvaluated, LoopHead, TellToExit,
         LookAtQueues, DequeueScript, ScriptEvaluated, DequeueItem, ItemEvaluated,
         LookAtItems, TclEvents, Cleanup, Places
<1>4. needsToRun' \in BOOLEAN /\ mainWindowExists' \in BOOLEAN /\ notify' \in BOOLEAN
  BY <1>1 DEF ThreadTurns, RunBegins, InitInterpreter, ProgramEvaluated, LoopHead,
         TellToExit, LookAtQueues, DequeueScript, ScriptEvaluated, EvaluationEnds, DequeueItem,
         ItemEvaluated, LookAtItems, TclEvents, Cleanup, roundVars
<1>5. window' \in Windows
  BY <1>1 DEF ThreadTurns, RunBegins, InitInterpreter, ProgramEvaluated, LoopHead,
         TellToExit, LookAtQueues, DequeueScript, ScriptEvaluated, EvaluationEnds, MayClose, DequeueItem,
         ItemEvaluated, LookAtItems, TclEvents, Cleanup, Windows
<1>6. \/ scripts' = scripts
      \/ scripts # <<>> /\ scripts' = Tail(scripts)
  BY SMTT(30) DEF ThreadTurns, RunBegins, InitInterpreter, ProgramEvaluated, LoopHead, DequeueScript,
         ScriptEvaluated, DequeueItem, ItemEvaluated, LookAtItems, TclEvents, Cleanup,
         queueVars
<1>7. \/ items' = items
      \/ items # <<>> /\ items' = Tail(items)
  BY SMTT(30) DEF ThreadTurns, RunBegins, InitInterpreter, ProgramEvaluated, LoopHead, DequeueScript,
         ScriptEvaluated, DequeueItem, ItemEvaluated, LookAtItems, TclEvents, Cleanup,
         queueVars
<1>8. scripts' \in Seq(Nat \ {0}) /\ items' \in Seq(Contents)
  <2>1. scripts' \in Seq(Nat \ {0})
    BY <1>1, <1>6, TailMembers
  <2>2. items' \in Seq(Contents)
    BY <1>1, <1>7, TailMembers
  <2>3. QED
    BY <2>1, <2>2
<1>9. QED
  BY <1>2, <1>3, <1>4, <1>5, <1>8

LEMMA TurnsTold ==
    ASSUME RunInv, ThreadTurns
    PROVE  ToldToExit'
<1>1. /\ needsToRun \in BOOLEAN
      /\ UNCHANGED <<told, run>>
      /\ pc \in Past /\ (pc \in {"init", "program"} \/ window = "open") /\ ~needsToRun => told = run
  BY TurnsTypes DEF RunInv, TypeOK, ToldToExit
<1>2. CASE RunBegins
  BY <1>1, <1>2 DEF RunBegins, ToldToExit
<1>3. CASE InitInterpreter \/ ProgramEvaluated
  BY <1>1, <1>3 DEF InitInterpreter, ProgramEvaluated, MayClose, At, ToldToExit, Past
<1>4. CASE LoopHead
  BY <1>1, <1>4 DEF LoopHead, TellToExit, LookAtQueues, At, ToldToExit, Past
<1>5. CASE DequeueScript \/ DequeueItem \/ LookAtItems \/ TclEvents
  BY <1>1, <1>5 DEF DequeueScript, DequeueItem, LookAtItems, TclEvents, MayClose, At,
         ToldToExit, Past
<1>6. CASE ScriptEvaluated \/ ItemEvaluated
  BY <1>1, <1>6 DEF ScriptEvaluated, ItemEvaluated, EvaluationEnds, MayClose, At,
     ToldToExit, Past
<1>7. CASE Cleanup
  BY <1>7 DEF Cleanup, ToldToExit, Past
<1>8. QED
  BY <1>2, <1>3, <1>4, <1>5, <1>6, <1>7 DEF ThreadTurns

LEMMA ThreadRunInv ==
    ASSUME RunInv, Thread
    PROVE  RunInv'
<1>1. TypeOK /\ OnePermit /\ ToldToExit
  BY DEF RunInv
<1>2. CASE ThreadBegins \/ ThreadEnds
  BY <1>2, ThreadSignals
<1>3. CASE ThreadTurns
  <2>1. OnePermit'
    BY <1>1, <1>3, TurnsTypes, PermitStays
  <2>2. TypeOK'
    BY <1>1, <1>3, TurnsTypes DEF TypeOK, fileVars, boundVars
  <2>3. QED
    BY <1>3, <2>1, <2>2, TurnsTold DEF RunInv
<1>4. CASE FileNameIsGot
  <2>1. /\ semaphore > 0 /\ blocked' = FALSE
        /\ UNCHANGED <<threadVars, queueVars, semaphore, dialog, events, button, boundVars, told>>
    BY <1>4 DEF FileNameIsGot
  <2>2. OnePermit'
    BY <1>1, <2>1 DEF OnePermit
  <2>3. QED
    BY <1>1, <2>1, <2>2 DEF RunInv, TypeOK, ToldToExit, threadVars, roundVars, queueVars,
       boundVars
<1>5. QED
  BY <1>2, <1>3, <1>4 DEF Thread, ThreadTurns

-----------------------------------------------------------------------------
LEMMA NextRunInv == RunInv /\ [Next]_vars => RunInv'
<1> SUFFICES ASSUME RunInv, [Next]_vars PROVE RunInv'
  OBVIOUS
<1>1. CASE UNCHANGED vars
  BY <1>1 DEF RunInv, TypeOK, OnePermit, ToldToExit, vars
<1>2. CASE Next
  BY <1>2, UserRunInv, MainThreadRunInv, ThreadRunInv, GetFileNameRunInv,
     NotifyRunInv DEF Next
<1>3. QED
  BY <1>1, <1>2

LEMMA RunInvHolds == Spec => []RunInv
BY InitRunInv, NextRunInv, PTL DEF Spec

\* Every reachable state has the types stated.
THEOREM TypeCorrect == Spec => []TypeOK
<1>1. RunInv => TypeOK
  BY DEF RunInv
<1>2. QED
  BY <1>1, RunInvHolds, PTL

\* Whoever takes the semaphore of getFileName gets it back, once: the call is on its
\* way to the main thread, or the dialog is open, or it was given back.
THEOREM SomebodyAlwaysAnswers == Spec => []SomebodyAnswers
<1>1. RunInv => SomebodyAnswers
  <2> SUFFICES ASSUME RunInv PROVE SomebodyAnswers
    OBVIOUS
  <2>1. OnePermit /\ semaphore \in {0, 1} /\ dialog \in BOOLEAN
    BY DEF RunInv, TypeOK
  <2> DEFINE asked == Cardinality(FileEvents(events))
  <2>2. CASE FileEvents(events) = {}
    <3>1. asked = 0
      BY <2>2, FS_EmptySet
    <3>2. QED
      BY <2>1, <2>2, <3>1 DEF OnePermit, SomebodyAnswers, FileEvents
  <2>3. CASE FileEvents(events) # {}
    <3>1. PICK i : FileEvents(events) = {i}
      BY <2>1, <2>3 DEF OnePermit, AtMostOne
    <3>2. asked = 1
      BY <3>1, FS_Singleton
    <3>3. QED
      BY <2>1, <2>3, <3>2 DEF OnePermit, SomebodyAnswers, FileEvents
  <2>4. QED
    BY <2>2, <2>3
<1>2. QED
  BY <1>1, RunInvHolds, PTL

\* A program is told to exit only if the user stopped that very program.
THEOREM StopAlwaysHitsItsProgram == Spec => StopHitsItsProgram
<1>1. RunInv /\ [Next]_vars => [pc = "loop" /\ window = "open" /\ window' # "open" => told = run]_vars
  <2> SUFFICES ASSUME RunInv, Next, pc = "loop", window = "open", window' # "open" PROVE told = run
    OBVIOUS
  <2>1. CASE User
    BY <2>1 DEF User, EvalButtonPressed, ConsoleEvalButtonPressed, DisplayTclProgs,
       DialogRejected, FileIsChosen, threadVars, roundVars
  <2>2. CASE MainThread
    BY <2>2 DEF MainThread, EvalScript, TclProgramStarted, TclProgramStopped,
       GetFileNameSlot, threadVars, roundVars
  <2>3. CASE LoopHead
    <3>1. ~needsToRun
      BY <2>3 DEF LoopHead, TellToExit, LookAtQueues
    <3>2. QED
      BY <3>1 DEF RunInv, ToldToExit, Past
  <2>4. CASE Thread
    <3>1. LoopHead \/ FileNameIsGot
      BY <2>4 DEF Thread, ThreadBegins, RunBegins, InitInterpreter, ProgramEvaluated,
         DequeueScript, ScriptEvaluated, DequeueItem, ItemEvaluated, LookAtItems, TclEvents,
         Cleanup, ThreadEnds, At
    <3>2. QED
      BY <2>3, <3>1 DEF FileNameIsGot, threadVars, roundVars
  <2>5. CASE GetFileName
    BY <2>5 DEF GetFileName, threadVars, roundVars
  <2>6. CASE \E content \in Contents : NotifyOfContentReceived(content)
    BY <2>6 DEF NotifyOfContentReceived, threadVars, roundVars
  <2>7. QED
    BY <2>1, <2>2, <2>4, <2>5, <2>6 DEF Next
<1>2. QED
  BY <1>1, RunInvHolds, PTL DEF Spec, StopHitsItsProgram
=============================================================================
