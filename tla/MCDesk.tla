-------------------------------- MODULE MCDesk --------------------------------
(***************************************************************************)
(* Model-checking instance of Desk: two profiles of the user and four      *)
(* others.  Each behaviour follows one of three plans: the user manages    *)
(* profiles and contacts; items arrive and are written while the user      *)
(* switches; a program runs while the user switches.                       *)
(***************************************************************************)
EXTENDS Desk

CONSTANTS m1, m2, o1, o2, o3, o4, a, b,
          Steps   \* by plan, how often the user acts, something arrives, a program calls

VARIABLES plan, left

vars == <<deskVars, plan, left>>

MCPeople == {m1, m2, o1, o2, o3, o4}
MCMyKeys == <<m1, m2>>
MCHashOrder == <<o2, m1, o1, o4, o3, m2>>
MCFileContents == {1}
MCThings == 1 .. 4
MCSteps == [manage |-> [acts |-> 4, arrivals |-> 1, calls |-> 0],
            read |-> [acts |-> 4, arrivals |-> 2, calls |-> 0],
            run |-> [acts |-> 3, arrivals |-> 0, calls |-> 2]]

Plain == [command |-> "comment", complete |-> TRUE, about |-> m1, private |-> FALSE,
          content |-> 1, noEncryption |-> FALSE, recipients |-> {}]
MCCalls == {Plain, [Plain EXCEPT !.private = TRUE], [Plain EXCEPT !.complete = FALSE],
            [Plain EXCEPT !.command = "ad"], [Plain EXCEPT !.command = "file"],
            [Plain EXCEPT !.command = "file", !.recipients = {o1}],
            [Plain EXCEPT !.command = "record"],
            [Plain EXCEPT !.command = "record", !.private = TRUE],
            [Plain EXCEPT !.command = "profile"]}

-----------------------------------------------------------------------------
(* Where behaviours start.                                                 *)

OthersLists == (o1 :> {o2}) @@ (o2 :> {o3}) @@ (o3 :> {o4}) @@ (o4 :> {})
MyContacts == (m1 :> (o1 :> TRUE)) @@ (m2 :> (o2 :> FALSE))

\* The profiles that are there, and the password of each.
Database(keys) ==
    LET there == DOMAIN OthersLists \cup DOMAIN keys IN
    [publicKeys |-> there,
     profiles |-> [p \in there |->
                      [iTrustList |-> IF p \in DOMAIN keys THEN TrustList(MyContacts[p])
                                      ELSE OthersLists[p],
                       iIsPrivate |-> FALSE]],
     privateKeys |-> keys,
     privateData |-> [p \in DOMAIN keys |-> [contacts |-> MyContacts[p], names |-> {}]],
     generated |-> Cardinality(DOMAIN keys),
     items |-> <<>>]

\* Trusted, but not here yet.
Without(d, p) == [d EXCEPT !.publicKeys = @ \ {p},
                           !.profiles = [q \in DOMAIN @ \ {p} |-> @[q]]]

TwoPasswords == Database((m1 :> a) @@ (m2 :> b))
MCDatabases == {Database(<<>>), Without(Database(m1 :> a), o2),
                Database((m1 :> a) @@ (m2 :> a)), TwoPasswords}

\* The user has given the first password, and the window has followed.
AtWork(s) == [UserProfileSelected(PasswordGiven(s, a), m1) EXCEPT !.events = <<>>]

Init ==
    /\ \E which \in DOMAIN Steps : plan = which /\ left = Steps[which]
    /\ IF plan = "manage" THEN DeskInit
       ELSE /\ desk = AtWork(Started(TwoPasswords))
            /\ stored = <<>>
            /\ lists = [NoLists EXCEPT !.own.search = m1, !.messages.search = m1]
            /\ script = NoScript

-----------------------------------------------------------------------------
(* A step of the plan; what the user does, what arrives and what a program *)
(* calls is counted.                                                       *)

Once(what) == left[what] > 0 /\ left' = [left EXCEPT ![what] = @ - 1] /\ UNCHANGED plan

UserActs ==
    /\ Once("acts")
    /\ \/ Switches
       \/ plan = "manage" /\ Manages({o1, o2})
       \/ plan # "run" /\ Views({m1, o1})
       \/ plan = "read" /\ Writes({m1, o1}, {m2, o1})
       \/ plan = "run" /\ (Shares \/ HouseKeeping)

Arrivals ==
    /\ Once("arrivals")
    /\ \/ plan = "manage" /\ ProfilesArrive({o1, o2}, {{}, {o3}, {o2, m1}})
       \/ plan = "read" /\ \/ ItemsArrive("message", {m1, m2}, {o1})
                           \/ ItemsArrive("comment", {m1, o1}, {o2})

Calling == plan = "run" /\ Once("calls") /\ ScriptCalls({m1, o1})

Next ==
    \/ UserActs \/ Arrivals \/ Calling
    \/ (EventLoop \/ ScriptThread) /\ UNCHANGED <<plan, left>>

Spec == Init /\ [][Next]_vars

TypeOK == TypeOfDesk(desk) /\ TypeOfItems /\ TypeOfLists /\ TypeOfScript
=============================================================================
