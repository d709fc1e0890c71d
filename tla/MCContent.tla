------------------------------ MODULE MCContent ------------------------------
(***************************************************************************)
(* An instance of Content: items of each kind, by this node's own profile  *)
(* and by another one.                                                     *)
(***************************************************************************)
EXTENDS Content, TLC

CONSTANTS own, pro, ad, msg, com, rec, note, file, photo, remark

MCKind == own :> "UserProfile" @@ pro :> "UserProfile" @@ ad :> "ClassifiedAd" @@
          msg :> "PrivateMessage" @@ com :> "UserProfileComment" @@ rec :> "DbRecord" @@ note :> "DbRecord" @@
          file :> "BinaryBlob" @@ photo :> "BinaryBlob" @@ remark :> "UserProfileComment"
MCAuthor == [i \in Items |-> IF i \in {own, note, ad, msg, photo, remark} THEN own ELSE pro]
MCKindOf == [i \in Items |-> MCKind[i]]
MCOften(seq) == [i \in Items |-> Cardinality({k \in 1 .. Len(seq) : seq[k] = i})]
MCArrivals == {MCOften(s) : s \in {<<pro, rec>>, <<rec, rec>>, <<pro, pro>>, <<ad, ad>>, <<file, com>>,
                                    <<msg, own>>, <<note, note>>, <<photo, remark>>}}
MCRecordTwice == {MCOften(<<pro, rec, rec>>)}
MCMaxRows == [k \in Kinds |-> 1]
=============================================================================
