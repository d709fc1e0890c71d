------------------------------ MODULE Profiles ------------------------------
(***************************************************************************)
(* The profiles of the user: which one is in use (controller.cpp), the     *)
(* dialogs that ask for its password (ui/passwd_dialog.cpp), the window    *)
(* that shows it (FrontWidget.cpp), its contacts                           *)
(* (datamodel/contactlistingmodel.cpp, ui/editcontact.cpp), its private    *)
(* data and its published profile (datamodel/profilemodel.cpp).            *)
(*                                                                         *)
(* The program knows two profiles, Controller::iProfileHash and            *)
(* FrontWidget::iSelectedProfile: the second follows the first by a signal *)
(* that waits in the queue of the main thread.  In between the window      *)
(* shows one profile and what is stored is stored under the other.         *)
(*                                                                         *)
(* A step is a handler of the main thread, or the receipt of a profile in  *)
(* the thread of a connection; both hold the lock of the model.            *)
(***************************************************************************)
EXTENDS TrustTree

CONSTANTS
    NoProfile,  \* iSelectedProfile is NULL
    Things      \* fingerprints of what is stored but for profiles

VARIABLE desk        \* all of the above; the fields are in TypeOfDesk

Partly(f, S, T) == DOMAIN f \subseteq S /\ \A x \in DOMAIN f : f[x] \in T
Profile == [iFingerPrint : People \cup {Nobody}, iTrustList : SUBSET People,
            iIsPrivate : BOOLEAN]
DeskEvent == [kind : {"selected", "profile", "comment", "message", "record"},
          of : People \cup {Nobody} \cup Things]
TypeOfDesk(s) ==
    /\ s.publicKeys \subseteq People            \* rows of the table of profiles
    /\ Partly(s.profiles, People, [iTrustList : SUBSET People, iIsPrivate : BOOLEAN])
    /\ Partly(s.privateKeys, Mine, Passwords)
    /\ DOMAIN s.privateData \subseteq DOMAIN s.privateKeys
    /\ \A p \in DOMAIN s.privateData : /\ Partly(s.privateData[p].contacts, People, BOOLEAN)
                                       /\ s.privateData[p].names \subseteq People
    /\ s.contentKeyPasswd \in Passwords \cup {NoPassword}
    /\ s.profileInUse \in Mine \cup {Nobody}
    /\ s.manyKeys \in BOOLEAN                   \* "Select another" and "Delete" are enabled
    /\ s.dialogs \subseteq {"query", "change"}  \* password dialogs
    /\ s.selected \in Profile \cup {NoProfile}
    /\ s.viewed \in People \cup {Nobody}        \* iViewedProfile
    /\ Partly(s.contacts, People, BOOLEAN)      \* shown, and whether they are trusted
    /\ s.names \subseteq People                 \* iHashDisplaynameMapping
    /\ Partly(s.tree, People, TrustTreeItem)
    /\ s.events \in Seq(DeskEvent)                 \* queue of the main thread
    /\ s.generated \in 0 .. Len(MyKeys)         \* key pairs made so far
    \* For the properties only: the contacts the user has given each profile; the
    \* profiles whose contacts may be others; the profiles on the tree of which it
    \* was not told a newer list, or does not take it; the tree could not be
    \* recomputed when it was changed or told of a list it has yet to read.
    /\ DOMAIN s.made = Mine /\ \A p \in Mine : Partly(s.made[p], People, BOOLEAN)
    /\ s.spoiled \subseteq Mine
    /\ s.behind \subseteq People
    /\ s.patched \in BOOLEAN

-----------------------------------------------------------------------------
(* What is stored of a profile.                                            *)

\* A profile that can be read now: a private one only by itself.
ProfileByFingerPrint(s, p) ==
    /\ p \in DOMAIN s.profiles /\ PublicKey(s, p)
    /\ s.profiles[p].iIsPrivate => Decrypt(s, {p})
Lists(s) == [p \in {q \in DOMAIN s.profiles : ProfileByFingerPrint(s, q)} |->
                s.profiles[p].iTrustList]

\* An item with a name is not read again. One without is, once the tree is told.
Overtaken(s, p, list, told) ==
    {q \in {p} \cap DOMAIN s.tree :
        IF s.tree[q].named THEN s.tree[q].iTrustList # list ELSE ~told}

\* The tree is not told.
PublishProfile(s, p) ==
    IF /\ p.iIsPrivate => Encrypt(s, {p.iFingerPrint})
       /\ Sign(s, p.iFingerPrint) /\ PublicKey(s, p.iFingerPrint)
    THEN [s EXCEPT !.profiles = With(@, p.iFingerPrint,
             [iTrustList |-> p.iTrustList, iIsPrivate |-> p.iIsPrivate]),
                   !.behind = @ \cup Overtaken(s, p.iFingerPrint, p.iTrustList, FALSE)]
    ELSE s

SetPrivateDataForProfile(s, p, data) ==
    IF Encrypt(s, {p}) /\ PrivateKey(s, p)
    THEN [s EXCEPT !.privateData = With(@, p, data)] ELSE s

HasPrivateData(s, p) == p \in DOMAIN s.privateData
PrivateDataCanBeRead(s, p) == HasPrivateData(s, p) /\ Decrypt(s, {p})

TrustList(contacts) == {p \in DOMAIN contacts : contacts[p]}

SelectionPending(s) == \E i \in DOMAIN s.events : s.events[i].kind = "selected"

\* The contacts that are shown go under the profile in use; the trust list goes
\* into the profile that is shown.
StorePrivateDataOfSelectedProfile(s, publish) ==
    IF s.profileInUse = Nobody THEN s
    ELSE LET stored == SetPrivateDataForProfile(s, s.profileInUse,
                           [contacts |-> s.contacts, names |-> s.names])
             noted == [stored EXCEPT !.spoiled =
                          IF SelectionPending(s) THEN @ \cup {s.profileInUse} ELSE @]
             listed == [noted EXCEPT !.selected =
                          [@ EXCEPT !.iTrustList = TrustList(s.contacts)]]
         IN IF s.selected = NoProfile THEN noted
            ELSE IF publish THEN PublishProfile(listed, listed.selected)
            ELSE listed

\* Contacts stay as they are if there are none to be read.
ReStorePrivateDataOfSelectedProfile(s) ==
    IF s.profileInUse = Nobody THEN s
    ELSE LET p == s.profileInUse
             read == IF PrivateDataCanBeRead(s, p)
                     THEN [s EXCEPT !.contacts = s.privateData[p].contacts,
                                    !.names = s.privateData[p].names]
                     ELSE [s EXCEPT !.names = {},
                                    !.spoiled = IF HasPrivateData(s, p)
                                                THEN @ \cup {p} ELSE @]
         IN [read EXCEPT !.tree = InitModel(p, Lists(s)), !.behind = {}, !.patched = FALSE]

\* A name that is new is stored with all the rest.
OfferDisplayNameForProfile(s, p) ==
    IF p \in s.names THEN s
    ELSE StorePrivateDataOfSelectedProfile([s EXCEPT !.names = @ \cup {p}], FALSE)

-----------------------------------------------------------------------------
(* Which profile is in use.                                                *)

SetProfileInUse(s, p) ==
    LET stored == StorePrivateDataOfSelectedProfile(s, FALSE)
        inUse == [stored EXCEPT !.profileInUse = p, !.manyKeys = Len(ListKeys(s)) > 1]
        read == ReStorePrivateDataOfSelectedProfile(inUse)
    IN [read EXCEPT !.events = Append(@, [kind |-> "selected", of |-> p])]

\* The next key pair, or none.
NewKey(s) ==
    LET new == GenerateKeyPair(s, MyKeys[s.generated + 1])
    IN SetProfileInUse([new.s EXCEPT !.generated = IF new.made = Nobody THEN @ ELSE @ + 1],
                       new.made)

\* Several profiles one after the other.
PutInUse(s, profiles) ==
    LET upTo[i \in 0 .. Len(profiles)] ==
          IF i = 0 THEN s ELSE SetProfileInUse(upTo[i - 1], profiles[i])
    IN upTo[Len(profiles)]

\* Every profile the password opens is put in use.
PasswordGiven(s, password) ==
    LET inForce == [s EXCEPT !.contentKeyPasswd = password]
        opened == Filter(ListKeys(s), {p \in Mine : Opens(inForce, p)})
        closed == [inForce EXCEPT !.dialogs = @ \ {"query"}]
    IN IF ListKeys(s) = <<>> THEN NewKey(closed)
       ELSE IF opened = <<>> THEN inForce
       ELSE PutInUse(closed, opened)

PasswordChanged(s, password) ==
    ChangeKeyPassword([s EXCEPT !.dialogs = @ \ {"change"}], s.profileInUse, password)

ProfileCreated(s) ==
    LET t == NewKey(s) IN
    IF t.profileInUse = Nobody THEN t ELSE [t EXCEPT !.dialogs = @ \cup {"change"}]

\* The profile that is deleted stays in use.
ProfileDeleted(s) ==
    [DeleteKeyPair(s, s.profileInUse) EXCEPT !.dialogs = @ \cup {"query"}]

-----------------------------------------------------------------------------
(* The window.                                                             *)

Shown(s, p) ==
    IF ProfileByFingerPrint(s, p)
    THEN [iFingerPrint |-> p, iTrustList |-> s.profiles[p].iTrustList,
          iIsPrivate |-> s.profiles[p].iIsPrivate]
    ELSE [iFingerPrint |-> p, iTrustList |-> {}, iIsPrivate |-> FALSE]

UserProfileSelected_ContactsStay(s, p) ==
    ReStorePrivateDataOfSelectedProfile([s EXCEPT !.selected = Shown(s, p)])
UserProfileSelected(s, p) ==
    ReStorePrivateDataOfSelectedProfile([s EXCEPT !.selected = Shown(s, p),
                                                  !.contacts = <<>>])

\* The name of a private profile is its fingerprint, which is not offered.
ShowDetailsOfProfile(s, p) ==
    LET viewed == [s EXCEPT !.viewed = p] IN
    IF s.profiles[p].iIsPrivate THEN viewed ELSE OfferDisplayNameForProfile(viewed, p)

\* Items that are gone or have just been read are not behind.
TreeChanged(s, tree) ==
    [s EXCEPT !.tree = tree,
              !.behind = {p \in @ \cap DOMAIN tree : s.tree[p].named \/ ~tree[p].named}]

\* The tab of the profile that changed may be open.
ProfileNotified(s, p, tabIsOpen) ==
    LET shown == IF s.viewed # p THEN s
                 ELSE IF ~ProfileByFingerPrint(s, p)
                 THEN [s EXCEPT !.viewed = IF tabIsOpen THEN @ ELSE Nobody]
                 ELSE IF tabIsOpen THEN ShowDetailsOfProfile(s, p)
                 ELSE s
    IN [TreeChanged(shown, ProfileReceived(s.tree, p, s.profileInUse, Lists(s))) EXCEPT
           !.patched = IF ~IsProfileTrusted(s.tree, p) THEN @
                       ELSE /\ s.profileInUse \notin DOMAIN Lists(s)
                            /\ @ \/ ~s.tree[p].named]

Edit(contacts, p, how) ==
    IF how = "removed" THEN [q \in DOMAIN contacts \ {p} |-> contacts[q]]
    ELSE [q \in DOMAIN contacts \cup {p} |-> IF q = p THEN how = "trusted" ELSE contacts[q]]

\* Contacts are stored and published, and the trust tree is told.
ContactEdited(s, p, how) ==
    LET self == s.profileInUse
        edited == [s EXCEPT !.contacts = Edit(@, p, how),
                            !.made = IF self = Nobody THEN @
                                     ELSE With(@, self, Edit(@[self], p, how))]
        named == IF how = "removed" THEN edited ELSE OfferDisplayNameForProfile(edited, p)
        stored == StorePrivateDataOfSelectedProfile(named, TRUE)
        heard == [stored EXCEPT !.behind = @ \ {self}]
    IN [TreeChanged(heard, OfferTrustList(s.tree, self, TrustList(stored.contacts), self,
                                          Lists(stored))) EXCEPT
           !.patched = IF self \in DOMAIN s.tree THEN self \notin DOMAIN Lists(stored) ELSE @]

-----------------------------------------------------------------------------
(* Handlers.  The user does not act faster than handlers end, but may act     *)
(* while events wait.                                                         *)

PasswordOk(password) ==
    /\ "query" \in desk.dialogs
    /\ ListKeys(desk) = <<>> => desk.generated < Len(MyKeys)
    /\ desk' = PasswordGiven(desk, password)

NewPasswordOk(password) ==
    /\ "change" \in desk.dialogs
    /\ desk' = PasswordChanged(desk, password)

ChangeProfilePasswd ==
    /\ desk.profileInUse # Nobody
    /\ desk' = [desk EXCEPT !.dialogs = @ \cup {"change"}]

CreateProfile ==
    /\ desk.generated < Len(MyKeys)
    /\ desk' = ProfileCreated(desk)

SelectProfile ==
    /\ desk.manyKeys
    /\ desk' = [desk EXCEPT !.dialogs = @ \cup {"query"}]

DeleteProfile ==
    /\ desk.manyKeys
    /\ Len(ListKeys(desk)) >= 2
    /\ desk' = ProfileDeleted(desk)

EditContactOk(p, how) ==
    /\ how # "removed"
    /\ desk' = ContactEdited(desk, p, how)

RemoveContactButtonClicked(p) ==
    /\ p \in DOMAIN desk.contacts
    /\ desk.selected # NoProfile
    /\ desk' = ContactEdited(desk, p, "removed")

PublishProfileButtonClicked ==
    /\ desk.selected # NoProfile
    /\ desk' = PublishProfile(desk, desk.selected)

RevertProfileButtonClicked ==
    /\ desk.selected # NoProfile
    /\ desk' = UserProfileSelected(desk, desk.profileInUse)

IsPrivateSettingChanged ==
    /\ desk.selected # NoProfile
    /\ desk' = [desk EXCEPT !.selected.iIsPrivate = ~@]

\* A profile that cannot be read is asked from the network first.
ViewProfileDetails(p) ==
    /\ ProfileByFingerPrint(desk, p)
    /\ desk' = ShowDetailsOfProfile(desk, p)

\* A profile arrives with its key, from the network.
ProfileArrives(p, list) ==
    /\ desk' = [InsertOrUpdatePublicKey(desk, p, p) EXCEPT
                   !.profiles = With(@, p, [iTrustList |-> list, iIsPrivate |-> FALSE]),
                   !.behind = @ \cup Overtaken(desk, p, list, TRUE),
                   !.events = Append(@, [kind |-> "profile", of |-> p])]

NextEvent == [desk EXCEPT !.events = Tail(@)]

UserProfileSelectedEvent ==
    /\ desk.events # <<>> /\ Head(desk.events).kind = "selected"
    /\ desk' = UserProfileSelected(NextEvent, Head(desk.events).of)

ContentReceivedEvent(tabIsOpen) ==
    /\ desk.events # <<>> /\ Head(desk.events).kind = "profile"
    /\ desk' = ProfileNotified(NextEvent, Head(desk.events).of, tabIsOpen)

-----------------------------------------------------------------------------
(* Properties.                                                             *)

(* What is stored as the contacts of a profile is what the user made them,    *)
(* whichever profiles were put in use, created and deleted, and passwords     *)
(* changed, in between.  Excepted are a profile whose private data could not  *)
(* be read when it was put in use, and one that was stored while the window   *)
(* still showed another (storePrivateDataOfSelectedProfile).                  *)
ContactsArePersonal ==
    \A p \in DOMAIN desk.privateData \ desk.spoiled :
        desk.privateData[p].contacts = desk.made[p]

\* Profiles that arrived and of which the tree is yet to be told.
Untold(s) == {s.events[i].of : i \in {j \in DOMAIN s.events : s.events[j].kind = "profile"}}

\* Lists as they are stored, but for some profiles, of which the tree remembers
\* an earlier one. It also remembers those that can no longer be read.
StoredLists(s, but) ==
    LET stored == DOMAIN Lists(s) \ but
    IN [p \in stored \cup DOMAIN s.tree |->
           IF p \in stored THEN Lists(s)[p] ELSE s.tree[p].iTrustList]

TrustFollows(s, but) ==
    s.profileInUse \in DOMAIN s.tree /\ ~s.patched
        => TrustFollowsLists(s.tree, s.profileInUse, StoredLists(s, but))

(* Trust is what the lists in the database say.  Excepted are profiles that   *)
(* got a newer list after theirs was read (setProfileTrustedInList), and the  *)
(* time in which the profile in use cannot be read (recalculateTrust).        *)
TrustIsCurrent == TrustFollows(desk, desk.behind \cup Untold(desk))

(* iNeedsUpdate, "profile needs to be updated from db" (trusttreemodel.h), is *)
(* set when a profile arrives: its new list is followed as soon as the tree   *)
(* was told of it.                                                            *)
ReceivedListsAreFollowed == TrustFollows(desk, Untold(desk))
=============================================================================
