-------------------------------- MODULE Lists --------------------------------
(***************************************************************************)
(* The lists of comments (datamodel/profilecommentlistingmodel.cpp) and of *)
(* private messages (datamodel/privmsgsearchmodel.cpp) in the window       *)
(* (FrontWidget.cpp), and the dialogs that write new ones (ui/).           *)
(*                                                                         *)
(* A list is filled from the database when a profile is selected, and row  *)
(* by row when a notification of a new item is taken from the queue.  Rows *)
(* are read later, one each time the main thread is idle; the row of an    *)
(* item that cannot be read goes.  A message is notified twice: the signal *)
(* is connected twice (model.cpp, "connect same to controller too").       *)
(***************************************************************************)
EXTENDS Items

VARIABLE lists   \* own and viewed: the comments of two profiles; messages

CommentRow == [fp : Things, updated : BOOLEAN]
MessageRow == [fp : Things \cup {None}, sender : People \cup {Nobody}]
TypeOfLists ==
    /\ \A list \in {lists.own, lists.viewed} :
           list \in [search : People \cup {Nobody}, rows : Seq(CommentRow), timer : BOOLEAN]
    /\ lists.messages \in [search : People \cup {Nobody}, rows : Seq(MessageRow),
                           timer : BOOLEAN]

NoLists == LET list == [search |-> Nobody, rows |-> <<>>, timer |-> FALSE]
           IN [own |-> list, viewed |-> list, messages |-> list]

Filled(list, p, rows) == [search |-> p, rows |-> rows, timer |-> list.timer \/ rows # <<>>]
Appended(list, row) == [list EXCEPT !.rows = Append(@, row)]
Armed(list) == [list EXCEPT !.timer = TRUE]
HasRow(list, f) == \E i \in DOMAIN list.rows : list.rows[i].fp = f
\* The first of some rows; 0 if there are none.
FirstOf(rows) == IF rows = {} THEN 0 ELSE CHOOSE i \in rows : \A j \in rows : i <= j

-----------------------------------------------------------------------------
(* The comments of a profile.                                              *)

CommentsAbout(st, p) == {f \in DOMAIN st : st[f].type = "comment" /\ st[f].about = p}

CommentSearch(list, p, st) ==
    Filled(list, p, SetToSeq({[fp |-> f, updated |-> FALSE] : f \in CommentsAbout(st, p)}))

NewCommentReceived(list, f, about) ==
    IF about = list.search /\ ~HasRow(list, f)
    THEN Armed(Appended(list, [fp |-> f, updated |-> FALSE])) ELSE list

\* A comment the user has written is known already.
CommentListed(list, f, about) ==
    IF about = list.search /\ ~HasRow(list, f)
    THEN Appended(list, [fp |-> f, updated |-> TRUE]) ELSE list

CommentUpdated(list, i, read) ==
    IF i = 0 THEN [list EXCEPT !.timer = FALSE]
    ELSE IF read THEN [list EXCEPT !.rows[i].updated = TRUE]
    ELSE [list EXCEPT !.rows = RemoveAt(@, i)]

-----------------------------------------------------------------------------
(* Private messages.                                                       *)

MessagesOf(st, p) == {f \in DOMAIN st : st[f].type = "message" /\ p \in {st[f].about, st[f].sender}}

\* Only the profile in use is recognized as the sender.
MessageSearch(list, p, inUse, st) ==
    Filled(list, p, SetToSeq({[fp |-> f, sender |-> IF st[f].sender = inUse THEN inUse
                                                     ELSE Nobody] : f \in MessagesOf(st, p)}))

NewMsgReceived_Always(list, f, to, inUse) ==
    IF to = inUse THEN Armed(Appended(list, [fp |-> f, sender |-> Nobody])) ELSE list
NewMsgReceived(list, f, to, inUse) ==
    IF to = inUse /\ ~HasRow(list, f)
    THEN Armed(Appended(list, [fp |-> f, sender |-> Nobody])) ELSE list

MessageUpdated(list, i, read, sender) ==
    IF i = 0 THEN [list EXCEPT !.timer = FALSE]
    ELSE IF read THEN [list EXCEPT !.rows[i].sender = sender]
    ELSE [list EXCEPT !.rows = RemoveAt(@, i)]

-----------------------------------------------------------------------------
(* Handlers of Profiles that change a list too.                            *)

\* The list of comments follows the controller, the list of messages the window.
SelectionHandled ==
    /\ UserProfileSelectedEvent
    /\ LET p == Head(desk.events).of IN
       lists' = [lists EXCEPT !.own = CommentSearch(@, p, stored),
                              !.messages = MessageSearch(@, p, desk.profileInUse, stored)]
    /\ UNCHANGED stored

ProfileReverted ==
    /\ RevertProfileButtonClicked
    /\ lists' = [lists EXCEPT !.messages =
                    MessageSearch(@, desk.profileInUse, desk.profileInUse, stored)]
    /\ UNCHANGED stored

DetailsViewed(p) ==
    /\ ViewProfileDetails(p)
    /\ lists' = [lists EXCEPT !.viewed = CommentSearch(@, p, stored)]
    /\ UNCHANGED stored

ProfileEventHandled(tabIsOpen) ==
    LET p == Head(desk.events).of IN
    /\ ContentReceivedEvent(tabIsOpen)
    /\ lists' = IF tabIsOpen /\ desk.viewed = p /\ ProfileByFingerPrint(desk, p)
                THEN [lists EXCEPT !.viewed = CommentSearch(@, p, stored)] ELSE lists
    /\ UNCHANGED stored

-----------------------------------------------------------------------------
(* Notifications of items, and idle time.                                  *)

CommentEventHandled ==
    /\ desk.events # <<>> /\ Head(desk.events).kind = "comment"
    /\ LET f == Head(desk.events).of IN
       lists' = [lists EXCEPT !.own = NewCommentReceived(@, f, stored[f].about),
                              !.viewed = NewCommentReceived(@, f, stored[f].about)]
    /\ desk' = NextEvent
    /\ UNCHANGED stored

MessageEventHandled ==
    /\ desk.events # <<>> /\ Head(desk.events).kind = "message"
    /\ LET f == Head(desk.events).of IN
       lists' = [lists EXCEPT !.messages =
                    NewMsgReceived(@, f, stored[f].about, desk.profileInUse)]
    /\ desk' = NextEvent
    /\ UNCHANGED stored

\* Records are of interest to scripts and to the retrieval of records.
RecordEventHandled ==
    /\ desk.events # <<>> /\ Head(desk.events).kind = "record"
    /\ desk' = NextEvent
    /\ UNCHANGED <<stored, lists>>

\* doUpdateDataOnIdle of a list of comments: the first row that was not read.
CommentsOnIdle(which) ==
    LET list == lists[which]
        i == FirstOf({j \in DOMAIN list.rows : ~list.rows[j].updated})
    IN /\ list.timer
       /\ lists' = [lists EXCEPT ![which] =
              CommentUpdated(@, i, i # 0 /\ ProfileCommentByFingerPrint(desk, stored,
                                                                        list.rows[i].fp))]
       /\ desk' = IF i = 0 THEN desk ELSE AfterReading(desk, stored, list.rows[i].fp)
       /\ UNCHANGED stored

MessagesOnIdle ==
    LET list == lists.messages
        i == FirstOf({j \in DOMAIN list.rows : list.rows[j].sender = Nobody})
    IN /\ list.timer
       /\ lists' = [lists EXCEPT !.messages =
              IF i # 0 /\ MessageByFingerPrint(desk, stored, list.rows[i].fp)
              THEN MessageUpdated(@, i, TRUE, stored[list.rows[i].fp].sender)
              ELSE MessageUpdated(@, i, FALSE, Nobody)]
       /\ desk' = IF i = 0 THEN desk ELSE AfterReading(desk, stored, list.rows[i].fp)
       /\ UNCHANGED stored

\* A message is selected; the name of its sender is kept.
MessageShown(f) ==
    /\ HasRow(lists.messages, f)
    /\ LET read == AfterReading(desk, stored, f) IN
       desk' = IF MessageByFingerPrint(desk, stored, f)
               THEN OfferDisplayNameForProfile(read, stored[f].sender) ELSE read
    /\ UNCHANGED <<stored, lists>>

-----------------------------------------------------------------------------
(* New items.                                                              *)

\* What somebody else has published arrives over a connection.
ItemArrives(type, about, sender) ==
    LET f == NewFingerPrint(stored)
        item == [type |-> type, about |-> about, sender |-> sender, signer |-> sender,
                 readers |-> IF type = "message" THEN {about, sender} ELSE {}]
    IN /\ Fresh(stored) # {}
       /\ stored' = With(stored, f, item)
       /\ desk' = IF type = "message" THEN Notified(Notified(desk, type, f), type, f)
                  ELSE Notified(desk, type, f)
       /\ UNCHANGED lists

\* OK in the dialog of a comment.  The dialog keeps a reference to the profile
\* that was selected; it is open while that profile stays.
CommentWritten(about) ==
    LET self == desk.selected.iFingerPrint
        r == PublishProfileComment(desk, stored, about, self, self, FALSE)
    IN /\ desk.selected # NoProfile /\ Fresh(stored) # {}
       /\ PublicKey(desk, self)
       /\ desk' = r.desk
       /\ stored' = r.stored
       /\ lists' = IF r.made # None
                   THEN [lists EXCEPT !.viewed = CommentListed(@, r.made, about)] ELSE lists

\* OK in the dialog of a message, which is listed even if it was not made.
MessageWritten(to) ==
    LET self == desk.selected.iFingerPrint
        r == PublishPrivMessage(desk, stored, to, self)
    IN /\ desk.selected # NoProfile /\ Fresh(stored) # {}
       /\ PublicKey(desk, to)
       /\ desk' = r.desk
       /\ stored' = r.stored
       /\ lists' = [lists EXCEPT !.messages = Appended(@, [fp |-> r.made, sender |-> self])]

\* A file, or a text, is published for the profile that is selected, and then the
\* profile with it; not if the profile has the file already.
FileShared(content, isNew) ==
    LET r == PublishBinaryFile(desk, stored, desk.selected, content, FALSE, {})
    IN /\ desk.selected # NoProfile /\ Fresh(stored) # {}
       /\ desk' = IF r.made # None /\ isNew THEN PublishProfile(r.desk, desk.selected)
                  ELSE r.desk
       /\ stored' = r.stored
       /\ UNCHANGED lists

-----------------------------------------------------------------------------
(* Properties.                                                             *)

Listed(list) == {list.rows[i].fp : i \in DOMAIN list.rows} \ {None}
ListedOnce(list) == \A i, j \in DOMAIN list.rows :
                        list.rows[i].fp = list.rows[j].fp /\ list.rows[i].fp # None => i = j
Settled == desk.events = <<>> /\ \A which \in DOMAIN lists : ~lists[which].timer

CommentsAreComplete(list) ==
    /\ ListedOnce(list)
    /\ Listed(list) \subseteq CommentsAbout(stored, list.search)
    /\ {f \in CommentsAbout(stored, list.search) : ProfileCommentByFingerPrint(desk, stored, f)}
          \subseteq Listed(list)
    /\ \A i \in DOMAIN list.rows : list.rows[i].updated

(* When nothing waits any more, the lists show what the database has: every   *)
(* comment and every message of the profile that is selected, as far as it    *)
(* can be read, once and with its sender, though it was notified twice, or    *)
(* both written and notified, or while the profiles were switched             *)
(* (newCommentReceived, newMsgReceived, doUpdateDataOnIdle).                  *)
ListsAreComplete ==
    Settled => /\ CommentsAreComplete(lists.own)
               /\ CommentsAreComplete(lists.viewed)
               /\ ListedOnce(lists.messages)
               /\ Listed(lists.messages) \subseteq MessagesOf(stored, lists.messages.search)
               /\ {f \in MessagesOf(stored, lists.messages.search) :
                       MessageByFingerPrint(desk, stored, f)} \subseteq Listed(lists.messages)
               /\ \A i \in DOMAIN lists.messages.rows :
                      lists.messages.rows[i].fp # None => lists.messages.rows[i].sender # Nobody
=============================================================================
