------------------------------ MODULE TrustTree ------------------------------
(***************************************************************************)
(* Who is trusted: TrustTreeModel (datamodel/trusttreemodel.cpp).  Every   *)
(* profile carries a list of the profiles its operator trusts; trusted are *)
(* the profiles found from the profile in use over at most                 *)
(* KHowManyLevelsDeep lists.                                               *)
(*                                                                         *)
(* A tree is a function from profiles to items.  What the database says of *)
(* profiles is a function too: "lists" holds the trust list of every       *)
(* profile that can be read at that time.  iNeedsUpdate is never TRUE:     *)
(* contentReceived sets it in a copy of the item.  (In the item that       *)
(* offerTrustList makes it is not set at all, but that one has no name and *)
(* is read in any case.)  The time of the last update and the tree that    *)
(* trustTreeSettings writes change nothing when initModel reads them back, *)
(* since it inserts none of the items: the one that is there has just been *)
(* read from the database.                                                 *)
(***************************************************************************)
EXTENDS Keys

CONSTANTS
    KHowManyLevelsDeep,  \* lists that are followed
    HashOrder            \* the profiles in the order of their hashes

ASSUME TreeAssumption ==
    /\ KHowManyLevelsDeep \in Nat \ {0}
    /\ HashOrder \in Seq(People) /\ IsInjective(HashOrder) /\ Range(HashOrder) = People

TrustTreeItem == [iTrustingOperator : People \cup {Nobody}, named : BOOLEAN,
                  iTrustList : SUBSET People, iLevel : -1 .. KHowManyLevelsDeep]

\* What operator[] inserts for a profile that is not there.
DefaultItem == [iTrustingOperator |-> Nobody, named |-> FALSE,
                iTrustList |-> {}, iLevel |-> 0]

With(tree, p, item) == [q \in DOMAIN tree \cup {p} |-> IF q = p THEN item ELSE tree[q]]

\* The item of a profile as it can be read now; "item" if it cannot be.
AsRead(item, p, lists) ==
    IF p \in DOMAIN lists
    THEN [item EXCEPT !.iTrustList = lists[p], !.named = TRUE] ELSE item

SetProfileTrustedInList(tree, p, trusting, level, lists) ==
    LET known == p \in DOMAIN tree /\ tree[p].iTrustingOperator # Nobody
        placed == [tree[p] EXCEPT !.iLevel = level, !.iTrustingOperator = trusting]
    IN IF ~known
       THEN With(tree, p, AsRead([DefaultItem EXCEPT !.iTrustingOperator = trusting,
                                                     !.iLevel = level], p, lists))
       ELSE IF tree[p].iLevel # -1 THEN tree
       ELSE With(tree, p, IF placed.named THEN placed ELSE AsRead(placed, p, lists))

-----------------------------------------------------------------------------
\* Trust is handed down to the profiles on the list of one, in the order of the
\* map.
HandedDown(tree, p, level, lists) ==
    LET upTo[i \in 0 .. Len(HashOrder)] ==
          IF i = 0 THEN tree
          ELSE IF HashOrder[i] \in tree[p].iTrustList
               THEN SetProfileTrustedInList(upTo[i - 1], HashOrder[i], p, level + 1, lists)
               ELSE upTo[i - 1]
    IN upTo[Len(HashOrder)]

Visited(tree, p, level, lists) ==
    IF p \in DOMAIN tree /\ tree[p].iLevel = level
    THEN HandedDown(tree, p, level, lists) ELSE tree

\* From the profiles of one level.
OneLevel(tree, level, lists) ==
    LET upTo[i \in 0 .. Len(HashOrder)] ==
          IF i = 0 THEN tree ELSE Visited(upTo[i - 1], HashOrder[i], level, lists)
    IN upTo[Len(HashOrder)]

Placed(tree, self, lists) ==
    LET upTo[n \in 0 .. KHowManyLevelsDeep] ==
          IF n = 0 THEN SetProfileTrustedInList(tree, self, self, 0, lists)
          ELSE OneLevel(upTo[n - 1], n - 1, lists)
    IN upTo[KHowManyLevelsDeep]

Unplaced(tree) == [p \in DOMAIN tree |-> [tree[p] EXCEPT !.iLevel = -1]]
OnlyPlaced(tree) == [p \in {q \in DOMAIN tree : tree[q].iLevel # -1} |-> tree[p]]

\* Nothing is done if the profile in use itself cannot be read.
RecalculateTrust(tree, self, lists) ==
    IF self \notin DOMAIN lists THEN tree
    ELSE OnlyPlaced(Placed(Unplaced(tree), self, lists))

InitModel(self, lists) ==
    RecalculateTrust(SetProfileTrustedInList(<<>>, self, self, 0, lists), self, lists)

\* A list that is not of a trusted profile, or of one at the last level, is not
\* taken.
OfferTrustList(tree, owner, list, self, lists) ==
    IF /\ owner \in DOMAIN tree /\ tree[owner].iTrustingOperator # Nobody
       /\ tree[owner].iLevel < KHowManyLevelsDeep
    THEN RecalculateTrust(With(tree, owner,
                               [iTrustingOperator |-> owner, named |-> FALSE,
                                iTrustList |-> list, iLevel |-> tree[owner].iLevel]),
                          self, lists)
    ELSE tree

\* The profile gets an item, trusted or not.
ProfileReceived_NotRecalculated(tree, p, self, lists) ==
    IF p \in DOMAIN tree THEN tree ELSE With(tree, p, DefaultItem)
ProfileReceived(tree, p, self, lists) ==
    LET looked == IF p \in DOMAIN tree THEN tree ELSE With(tree, p, DefaultItem)
    IN IF looked[p].iTrustingOperator # Nobody
       THEN RecalculateTrust(looked, self, lists) ELSE looked

IsProfileTrusted(tree, p) == p \in DOMAIN tree /\ tree[p].iTrustingOperator # Nobody

-----------------------------------------------------------------------------
\* The definition: found over at most n lists.
OnListsOf(lists, S) == {q \in People : \E p \in S \cap DOMAIN lists : q \in lists[p]}
Within(lists, self, n) ==
    LET found[i \in 0 .. n] ==
          IF i = 0 THEN {self} ELSE found[i - 1] \cup OnListsOf(lists, found[i - 1])
    IN found[n]

(* Trusted are the profiles found over at most KHowManyLevelsDeep lists from  *)
(* the profile in use, each at the length of its shortest path, and through   *)
(* an operator one level nearer who lists it (recalculateTrust).              *)
TrustFollowsLists(tree, self, lists) ==
    /\ {p \in DOMAIN tree : IsProfileTrusted(tree, p)} = Within(lists, self, KHowManyLevelsDeep)
    /\ \A p \in DOMAIN tree : IsProfileTrusted(tree, p) =>
           LET by == tree[p].iTrustingOperator IN
           /\ p \in Within(lists, self, tree[p].iLevel)
           /\ p # self => /\ tree[p].iLevel > 0
                          /\ p \notin Within(lists, self, tree[p].iLevel - 1)
                          /\ by \in DOMAIN tree /\ p \in lists[by]
                          /\ tree[by].iLevel = tree[p].iLevel - 1
=============================================================================
