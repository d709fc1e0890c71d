-------------------------------- MODULE Keys --------------------------------
(***************************************************************************)
(* The keys of profiles: ContentEncryptionModel                            *)
(* (datamodel/contentencryptionmodel.cpp).  Public keys are in the table   *)
(* of profiles, private keys in a table of their own, each encrypted with  *)
(* a password.  Nothing is kept open: every operation that needs a private *)
(* key opens it with iContentKeyPasswd, the one password in force.         *)
(*                                                                         *)
(* Operations are functions of the state, a record: the handlers of the    *)
(* user interface call several of them in a row.  A key stands for its     *)
(* SHA1, the fingerprint of the profile.  Statements to the database       *)
(* succeed.                                                                *)
(***************************************************************************)
EXTENDS Naturals, Sequences, FiniteSets, SequencesExt, ListFilter

CONSTANTS
    People,      \* profiles
    MyKeys,      \* those with a private key here, in the order of their rows
    Nobody,      \* KNullHash
    Passwords,   \* what the user types
    NoPassword   \* iContentKeyPasswd before the first password was typed

Mine == Range(MyKeys)

ASSUME KeysAssumption ==
    /\ MyKeys \in Seq(People) /\ IsInjective(MyKeys)
    /\ Nobody \notin People
    /\ NoPassword \notin Passwords

-----------------------------------------------------------------------------
(* Reading keys.                                                           *)

PublicKey(s, p) == p \in s.publicKeys
PrivateKey(s, p) == p \in DOMAIN s.privateKeys

\* PEM_read_bio_PrivateKey with the password in force.
PrivateKeyFromPem(s, p) == s.privateKeys[p] = s.contentKeyPasswd
Opens(s, p) == PrivateKey(s, p) /\ PrivateKeyFromPem(s, p)

\* In the order of the rows.
ListKeys(s) == Filter(MyKeys, {p \in Mine : PrivateKey(s, p)})

Sign(s, p) == Opens(s, p)

\* A signature fits if it is the signer's and the signer's key is known.
Verify(s, signer, p) == PublicKey(s, p) /\ signer = p

\* Readers whose key is not known are left out.
EncryptedTo(s, recipients) == recipients \cap s.publicKeys
Encrypt(s, recipients) == EncryptedTo(s, recipients) # {}

\* Only the key of the profile in use is tried.
Decrypt(s, recipients) ==
    /\ Opens(s, s.profileInUse)
    /\ s.profileInUse \in recipients

-----------------------------------------------------------------------------
(* Writing keys.                                                           *)

\* A key is stored only under its own fingerprint.
InsertOrUpdatePublicKey(s, key, p) ==
    IF key = p THEN [s EXCEPT !.publicKeys = @ \cup {p}] ELSE s

InsertOrUpdatePrivateKey(s, p, password) ==
    [s EXCEPT !.privateKeys =
        [q \in DOMAIN @ \cup {p} |-> IF q = p THEN password ELSE @[q]]]

\* A private key cannot be written without a password.
GenerateKeyPair(s, key) ==
    IF s.contentKeyPasswd = NoPassword THEN [made |-> Nobody, s |-> s]
    ELSE [made |-> key,
          s |-> InsertOrUpdatePrivateKey(InsertOrUpdatePublicKey(s, key, key),
                                         key, s.contentKeyPasswd)]

\* First the row of the profile, then the row of the private key, with all the
\* private data of the profile that is in it.
DeleteKeyPair(s, p) ==
    [s EXCEPT !.publicKeys = @ \ {p},
              !.profiles = [q \in DOMAIN @ \ {p} |-> @[q]],
              !.privateKeys = [q \in DOMAIN @ \ {p} |-> @[q]],
              !.privateData = [q \in DOMAIN @ \ {p} |-> @[q]]]

\* The new password is put in force before the key is written with it.
ChangeKeyPassword(s, p, password) ==
    IF Opens(s, p)
    THEN InsertOrUpdatePrivateKey([s EXCEPT !.contentKeyPasswd = password], p, password)
    ELSE s
=============================================================================
