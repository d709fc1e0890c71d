------------------------------ MODULE ListFilter ------------------------------
(***************************************************************************)
(* Taking entries out of a list (QList), as the code does it in its loops  *)
(* over removeAt() and removeOne(): the others keep their order.           *)
(***************************************************************************)
EXTENDS Naturals, Sequences

\* The entries of list that are members of the set kept.
Filter(list, kept) ==
    LET upTo[i \in 0 .. Len(list)] ==
          IF i = 0 THEN <<>>
          ELSE IF list[i] \in kept THEN Append(upTo[i - 1], list[i])
          ELSE upTo[i - 1]
    IN upTo[Len(list)]
=============================================================================
