------------------------------- MODULE Commands -------------------------------
(***************************************************************************)
(* The commands a Tcl program can call (tcl/tclCallbacks.cpp).  They run   *)
(* in the thread of the program; each takes the lock of the model for what *)
(* it asks of the database, but the profile in use is read before that,    *)
(* and a file is read in two parts: the user may switch to another profile *)
(* and publish in between.                                                 *)
(*                                                                         *)
(* A call is a record of what the arguments say; "complete" are arguments  *)
(* that pass the checks before anything is done.                           *)
(***************************************************************************)
EXTENDS Items

CONSTANT Calls

VARIABLE script   \* the call that is running and the last answer

Call == [command : {"comment", "ad", "file", "record", "profile"},
         complete : BOOLEAN,
         about : People, private : BOOLEAN,        \* of a comment; a record's encryption
         content : FileContents, noEncryption : BOOLEAN,
         recipients : SUBSET People]

ASSUME CommandsAssumption == Calls \subseteq Call /\ FileContents # {}

Answer == [ok : BOOLEAN, of : People \cup Things \cup {None},
           owner : People \cup {Nobody}, signer : People \cup {Nobody}]
TypeOfScript ==
    /\ script.at \in {"idle", "called", "named", "found"}
    /\ script.call \in Calls
    /\ script.sender \in People \cup {Nobody}
    /\ script.file \in Things \cup {None}
    /\ script.answer \in Answer

Error == [ok |-> FALSE, of |-> None, owner |-> Nobody, signer |-> Nobody]
Ok(x) == [Error EXCEPT !.ok = TRUE, !.of = x]

NoScript == [at |-> "idle", call |-> CHOOSE c \in Calls : TRUE, sender |-> Nobody,
             file |-> None, answer |-> Error]

Answered(answer) == script' = [script EXCEPT !.at = "idle", !.answer = answer, !.file = None]

-----------------------------------------------------------------------------
(* Publishing.                                                             *)

\* publishProfile looks at its arguments and does nothing.
PublishItem(call) ==
    /\ script.at = "idle"
    /\ IF desk.profileInUse = Nobody \/ ~call.complete THEN Answered(Error)
       ELSE IF call.command = "profile" THEN Answered(Ok(None))
       ELSE script' = [script EXCEPT !.call = call,
                          !.at = IF call.command = "record" THEN "named" ELSE "called"]
    /\ UNCHANGED <<desk, stored>>

\* Without the lock.
SenderNamed ==
    /\ script.at = "called"
    /\ script' = [script EXCEPT !.at = "named", !.sender = desk.profileInUse]
    /\ UNCHANGED <<desk, stored>>

\* What was made, and the state after it, are in r.
Published(r) ==
    /\ desk' = r.desk
    /\ stored' = r.stored
    /\ Answered(IF r.made = None THEN Error ELSE Ok(r.made))

CommandAtHand(command) ==
    script.at = "named" /\ script.call.command = command /\ Fresh(stored) # {}

PublishProfileCommentCmd_SignsLate ==
    /\ CommandAtHand("comment")
    /\ Published(IF script.sender # Nobody /\ PublicKey(desk, script.sender)
                 THEN PublishProfileComment(desk, stored, script.call.about, script.sender,
                                            desk.profileInUse, script.call.private)
                 ELSE Failed(desk, stored))
PublishProfileCommentCmd ==
    /\ CommandAtHand("comment")
    /\ Published(IF script.sender # Nobody /\ PublicKey(desk, script.sender)
                 THEN PublishProfileComment(desk, stored, script.call.about, script.sender,
                                            script.sender, script.call.private)
                 ELSE Failed(desk, stored))

\* The publisher is the profile the window shows; the one in use is named in the
\* metadata only.
PublishFileCmd ==
    /\ CommandAtHand("file")
    /\ Published(IF desk.selected # NoProfile
                 THEN PublishBinaryFile(desk, stored, desk.selected, script.call.content,
                                        script.call.noEncryption, script.call.recipients)
                 ELSE Failed(desk, stored))

\* The key and the signature are those of the profile that is in use now, the
\* sender is the one that was.
PublishClassifiedAdCmd ==
    /\ CommandAtHand("ad")
    /\ Published(IF PublicKey(desk, desk.profileInUse)
                    /\ ProfileByFingerPrint(desk, desk.profileInUse)
                 THEN PublishClassifiedAd(desk, stored, script.sender, desk.profileInUse)
                 ELSE Failed(desk, stored))

\* A new record, or a new version of one.
PublishDbRecordCmd ==
    /\ CommandAtHand("record")
    /\ \E f \in {NewFingerPrint(stored)} \cup {g \in DOMAIN stored : stored[g].type = "record"} :
           Published(PublishDbRecord(desk, stored, f, script.call.private,
                                     script.call.recipients))

-----------------------------------------------------------------------------
(* Reading.                                                                *)

Asked(isThere, x) ==
    /\ script.at = "idle"
    /\ Answered(IF isThere THEN Ok(x) ELSE Error)
    /\ UNCHANGED stored

GetProfile(p) == Asked(ProfileByFingerPrint(desk, p), p) /\ UNCHANGED desk
IsProfileTrustedCmd(p) == Asked(IsProfileTrusted(desk.tree, p), p) /\ UNCHANGED desk
GetClassifiedAd(f) == Asked(CaByHash(stored, f), f) /\ UNCHANGED desk
GetProfileComment(f) ==
    /\ Asked(ProfileCommentByFingerPrint(desk, stored, f), f)
    /\ desk' = IF Stored(stored, f, "comment") THEN AfterReading(desk, stored, f) ELSE desk

\* The owner according to the metadata, and then the data as that of the owner.
\* The lock is given back in between.
GetBinaryFile(f) ==
    /\ script.at = "idle"
    /\ IF BinaryFileByFingerPrint(stored, f)
       THEN script' = [script EXCEPT !.at = "found", !.file = f,
                                     !.sender = OwnerInMetadata(desk, stored[f])]
       ELSE Answered(Error)
    /\ UNCHANGED <<desk, stored>>

GetBinaryFileData ==
    LET f == script.file IN
    /\ script.at = "found"
    /\ Answered(IF BinaryFileDataByFingerPrint(desk, stored, f, script.sender)
                THEN [ok |-> TRUE, of |-> f, owner |-> script.sender,
                      signer |-> IF Stored(stored, f, "file") THEN stored[f].signer ELSE Nobody]
                ELSE Error)
    /\ UNCHANGED <<desk, stored>>

\* The house-keeping of the model takes old rows from a table that is full.
FileTruncated(f) ==
    /\ Stored(stored, f, "file")
    /\ stored' = [g \in DOMAIN stored \ {f} |-> stored[g]]
    /\ UNCHANGED <<desk, script>>

-----------------------------------------------------------------------------
(* Properties.                                                             *)

(* A comment, a message or a record is signed by the profile it names as its  *)
(* sender, also if the user puts another one in use while a program runs      *)
(* (publishProfileCommentCmdImpl).  An ad may not be (tclCallbacks.cpp:1222   *)
(* and :1258).                                                                *)
SignedByTheirSender ==
    \A f \in DOMAIN stored : stored[f].type # "ad" => stored[f].signer = stored[f].sender

(* A file that is handed to a program with its data is signed by the owner it *)
(* names, though another profile may publish the same file between the two    *)
(* parts of the command (getBinaryFileCmdImpl).                               *)
FileIsItsOwners ==
    script.answer.signer # Nobody => script.answer.owner = script.answer.signer
=============================================================================
