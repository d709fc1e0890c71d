--------------------------------- MODULE Desk ---------------------------------
(***************************************************************************)
(* Lists and Commands together: the user at the window, what arrives from  *)
(* the network, the queue of the main thread, a program and the            *)
(* house-keeping of the model, in any order.  A step holds the lock of the *)
(* model; the sets that are parameters say about whom it may be.           *)
(***************************************************************************)
EXTENDS Lists, Commands

CONSTANT Databases   \* what may be stored when the program starts

deskVars == <<desk, stored, lists, script>>

\* Keys were made one after the other; what was published is signed; comments are
\* about a profile and messages to one.
ASSUME DatabasesAssumption ==
    \A d \in Databases :
       /\ d.publicKeys \subseteq People
       /\ Partly(d.profiles, d.publicKeys, [iTrustList : SUBSET People, iIsPrivate : BOOLEAN])
       /\ Partly(d.privateKeys, Mine \cap d.publicKeys, Passwords)
       /\ DOMAIN d.privateData \subseteq DOMAIN d.privateKeys
       /\ d.generated \in 0 .. Len(MyKeys)
       /\ \A i \in DOMAIN MyKeys : MyKeys[i] \in DOMAIN d.privateKeys => i <= d.generated
       /\ Partly(d.items, Things, Item)
       /\ \A f \in DOMAIN d.items :
             /\ d.items[f].type # "ad" => d.items[f].signer = d.items[f].sender
             /\ d.items[f].type \in {"comment", "message"} => d.items[f].about # Nobody
             /\ f \in FileContents => d.items[f].type = "file"

\* Before any password was typed.
Started(d) ==
    [publicKeys |-> d.publicKeys, profiles |-> d.profiles,
     privateKeys |-> d.privateKeys, privateData |-> d.privateData,
     contentKeyPasswd |-> NoPassword, profileInUse |-> Nobody, manyKeys |-> FALSE,
     dialogs |-> {"query"}, selected |-> NoProfile, viewed |-> Nobody,
     contacts |-> <<>>, names |-> {}, tree |-> <<>>, events |-> <<>>,
     generated |-> d.generated,
     made |-> [p \in Mine |-> IF p \in DOMAIN d.privateData
                              THEN d.privateData[p].contacts ELSE <<>>],
     spoiled |-> {}, behind |-> {}, patched |-> FALSE]

DeskInit ==
    /\ \E d \in Databases : desk = Started(d) /\ stored = d.items
    /\ lists = NoLists
    /\ script = NoScript

-----------------------------------------------------------------------------
(* The user.                                                               *)

Switches ==
    /\ (\E password \in Passwords : PasswordOk(password)) \/ SelectProfile
    /\ UNCHANGED <<stored, lists, script>>

Manages(whom) ==
    /\ \/ \E password \in Passwords : NewPasswordOk(password)
       \/ ChangeProfilePasswd
       \/ CreateProfile
       \/ DeleteProfile
       \/ \E p \in whom, how \in {"trusted", "known"} : EditContactOk(p, how)
       \/ \E p \in People : RemoveContactButtonClicked(p)
       \/ PublishProfileButtonClicked
       \/ IsPrivateSettingChanged
    /\ UNCHANGED <<stored, lists, script>>

Views(whom) ==
    /\ ProfileReverted \/ \E p \in whom : DetailsViewed(p)
    /\ UNCHANGED script

Writes(about, to) ==
    /\ \/ \E p \in about : CommentWritten(p)
       \/ \E p \in to : MessageWritten(p)
       \/ \E f \in DOMAIN stored : MessageShown(f)
    /\ UNCHANGED script

Shares ==
    /\ \E c \in FileContents, isNew \in BOOLEAN : FileShared(c, isNew)
    /\ UNCHANGED script

-----------------------------------------------------------------------------
(* The other threads and the queue of the main thread.                     *)

\* What arrives was published by somebody else.
ProfilesArrive(whom, trusted) ==
    /\ \E p \in whom, list \in trusted : ProfileArrives(p, list)
    /\ UNCHANGED <<stored, lists, script>>

ItemsArrive(type, about, sender) ==
    /\ \E p \in about, q \in sender : ItemArrives(type, p, q)
    /\ UNCHANGED script

EventLoop ==
    /\ \/ SelectionHandled
       \/ \E tabIsOpen \in BOOLEAN : ProfileEventHandled(tabIsOpen)
       \/ CommentEventHandled
       \/ MessageEventHandled
       \/ RecordEventHandled
       \/ \E which \in {"own", "viewed"} : CommentsOnIdle(which)
       \/ MessagesOnIdle
    /\ UNCHANGED script

ScriptCalls(whom) ==
    /\ \/ \E call \in Calls : PublishItem(call)
       \/ \E p \in whom : GetProfile(p) \/ IsProfileTrustedCmd(p)
       \/ \E f \in DOMAIN stored : GetClassifiedAd(f) \/ GetProfileComment(f) \/ GetBinaryFile(f)
    /\ UNCHANGED lists

ScriptThread ==
    /\ \/ SenderNamed
       \/ PublishProfileCommentCmd
       \/ PublishFileCmd
       \/ PublishClassifiedAdCmd
       \/ PublishDbRecordCmd
       \/ GetBinaryFileData
    /\ UNCHANGED lists

HouseKeeping ==
    /\ \E f \in DOMAIN stored : FileTruncated(f)
    /\ UNCHANGED lists

DeskNext ==
    \/ Switches
    \/ Manages(People)
    \/ Views(People)
    \/ Writes(People, People)
    \/ Shares
    \/ ProfilesArrive(People, SUBSET People)
    \/ \E type \in {"comment", "message"} : ItemsArrive(type, People, People \ Mine)
    \/ EventLoop
    \/ ScriptCalls(People)
    \/ ScriptThread
    \/ HouseKeeping

DeskSpec == DeskInit /\ [][DeskNext]_deskVars
=============================================================================
