-------------------------------- MODULE Items --------------------------------
(***************************************************************************)
(* What profiles publish and read: comments                                *)
(* (datamodel/profilecommentmodel.cpp), private messages                   *)
(* (datamodel/privmsgmodel.cpp), ads (datamodel/camodel.cpp), files        *)
(* (datamodel/binaryfilemodel.cpp) and records                             *)
(* (datamodel/cadbrecordmodel.cpp) of the local database.                  *)
(*                                                                         *)
(* An item is encrypted if it has readers.  A fingerprint is the hash of   *)
(* the bytes that are stored: a file that is not encrypted has one         *)
(* fingerprint, whoever publishes it; cipher text is always new.           *)
(*                                                                         *)
(* Operations are functions of the state, as in Keys; they run under the   *)
(* lock of the model.  Sending what was published is in Publishing.        *)
(***************************************************************************)
EXTENDS Profiles

CONSTANT FileContents   \* the bytes of files

VARIABLE stored     \* items, by fingerprint

None == 0           \* KNullHash of an item

ASSUME ItemsAssumption ==
    /\ FileContents \subseteq Things /\ IsFiniteSet(Things)
    /\ None \notin Things

Item == [type : {"comment", "message", "ad", "file", "record"},
         about : People \cup {Nobody},  \* the profile commented, the recipient
         sender : People,               \* whom the item names
         signer : People,               \* who signed it
         readers : SUBSET People]       \* whom it is encrypted to

TypeOfItems == Partly(stored, Things, Item)

Fresh(st) == Things \ (FileContents \cup DOMAIN st)
NewFingerPrint(st) == CHOOSE f \in Fresh(st) : TRUE

\* The outcome of an operation.
Failed(s, st) == [made |-> None, desk |-> s, stored |-> st]
Made(f, item, s, st) == [made |-> f, desk |-> s, stored |-> With(st, f, item)]
Notified(s, kind, f) == [s EXCEPT !.events = Append(@, [kind |-> kind, of |-> f])]

-----------------------------------------------------------------------------
(* Publishing.                                                             *)

\* A private comment can be read by the readers of the profile, as far as the
\* profile can be read itself, and by its sender.
CommentReaders(s, about, sender) ==
    (IF s.profiles[about].iIsPrivate THEN {about} ELSE {}) \cup {sender}

PublishProfileComment(s, st, about, sender, signer, private) ==
    LET item == [type |-> "comment", about |-> about, sender |-> sender, signer |-> signer,
                 readers |-> IF private THEN EncryptedTo(s, CommentReaders(s, about, sender))
                             ELSE {}]
        f == NewFingerPrint(st)
    IN IF /\ private => /\ ProfileByFingerPrint(s, about)
                        /\ Encrypt(s, CommentReaders(s, about, sender))
          /\ Sign(s, signer)
       THEN Made(f, item, Notified(s, "comment", f), st)
       ELSE Failed(s, st)

PublishPrivMessage(s, st, to, sender) ==
    IF Encrypt(s, {to, sender}) /\ Sign(s, sender)
    THEN Made(NewFingerPrint(st),
              [type |-> "message", about |-> to, sender |-> sender, signer |-> sender,
               readers |-> EncryptedTo(s, {to, sender})], s, st)
    ELSE Failed(s, st)

PublishClassifiedAd(s, st, sender, signer) ==
    IF Sign(s, signer)
    THEN Made(NewFingerPrint(st),
              [type |-> "ad", about |-> Nobody, sender |-> sender, signer |-> signer,
               readers |-> {}], s, st)
    ELSE Failed(s, st)

\* A private profile encrypts to itself, unless it is told not to; recipients
\* that are named, and the publisher, come before that.  The row of a file that
\* is there gets a new publisher, signature and metadata.
FileReaders(publisher, noEncryption, recipients) ==
    IF recipients # {} THEN recipients \cup {publisher.iFingerPrint}
    ELSE IF publisher.iIsPrivate /\ ~noEncryption THEN {publisher.iFingerPrint}
    ELSE {}

PublishBinaryFile(s, st, publisher, content, noEncryption, recipients) ==
    LET readers == FileReaders(publisher, noEncryption, recipients)
        self == publisher.iFingerPrint
    IN IF (readers # {} => Encrypt(s, readers)) /\ Sign(s, self)
       THEN Made(IF readers = {} THEN content ELSE NewFingerPrint(st),
                 [type |-> "file", about |-> Nobody, sender |-> self, signer |-> self,
                  readers |-> EncryptedTo(s, readers)], s, st)
       ELSE Failed(s, st)

\* Under a new fingerprint or as a new version of a record.
PublishDbRecord(s, st, f, encrypted, recipients) ==
    LET self == s.profileInUse
        readers == recipients \cup {self}
    IN IF /\ encrypted => ProfileByFingerPrint(s, self) /\ Encrypt(s, readers)
          /\ Sign(s, self)
       THEN Made(f, [type |-> "record", about |-> Nobody, sender |-> self, signer |-> self,
                     readers |-> IF encrypted THEN EncryptedTo(s, readers) ELSE {}],
                 Notified(s, "record", f), st)
       ELSE Failed(s, st)

-----------------------------------------------------------------------------
(* Reading.                                                                *)

Stored(st, f, type) == f \in DOMAIN st /\ st[f].type = type
Deciphered(s, item) == item.readers # {} => Decrypt(s, item.readers)

\* An item carries the key of its sender, which is stored if it is not known.
KeyOfSender(s, item) ==
    IF PublicKey(s, item.sender) THEN s
    ELSE InsertOrUpdatePublicKey(s, item.sender, item.sender)

\* The signature of a private comment is of its cipher text and is verified with
\* its plain text: it never fits.
ProfileCommentByFingerPrint(s, st, f) ==
    /\ Stored(st, f, "comment") /\ Deciphered(s, st[f])
    /\ st[f].readers = {}
    /\ Verify(KeyOfSender(s, st[f]), st[f].signer, st[f].sender)

MessageByFingerPrint(s, st, f) ==
    /\ Stored(st, f, "message") /\ Deciphered(s, st[f])
    /\ Verify(KeyOfSender(s, st[f]), st[f].signer, st[f].sender)

\* Reading stores the key, also of what does not fit.
AfterReading(s, st, f) ==
    IF f \in DOMAIN st /\ Deciphered(s, st[f]) THEN KeyOfSender(s, st[f]) ELSE s

\* An ad is not verified again.
CaByHash(st, f) == Stored(st, f, "ad")

\* Metadata that cannot be deciphered leaves the owner empty.
BinaryFileByFingerPrint(st, f) == Stored(st, f, "file")
OwnerInMetadata(s, item) == IF Deciphered(s, item) THEN item.sender ELSE Nobody

\* The data is verified as that of the owner the caller presumes.  If there is no
\* row the answer is that there is data, with none.
BinaryFileDataByFingerPrint_Unverified(s, st, f, presumed) ==
    Stored(st, f, "file") => Deciphered(s, st[f])
BinaryFileDataByFingerPrint(s, st, f, presumed) ==
    Stored(st, f, "file") => Verify(s, st[f].signer, presumed) /\ Deciphered(s, st[f])
=============================================================================
