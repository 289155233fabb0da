---------------------------- MODULE AccountSwitch ----------------------------
(***************************************************************************)
(* Phones that change accounts: AccountSync with a history of the rows that *)
(* its split writes and sign-outs tear from the account they should speak   *)
(* of.  The history is written beside every step and read by no guard.      *)
(*                                                                          *)
(* Two writes of the code can tear rows.  A first link of another account   *)
(* is several transactions, and its link is saved with the last.  A         *)
(* sign-out saves the whole link it read before an await, over one that a   *)
(* pass saved meanwhile.  Both leave the link with one account and settled  *)
(* rows with another, which no later pass of the first looks at again.      *)
(***************************************************************************)
EXTENDS AccountSync

CONSTANT MaxEvents  \* bound on local writes and consent answers together

ASSUME SwitchAssumption == MaxEvents \in Nat

VARIABLE torn       \* torn[p]: rows settled for another account than the link's

switchVars == <<vars, torn>>

SwitchInit == Init /\ torn = [p \in Phones |-> {}]

\* A pass settled the row, or landed another version of it.
Settles(p, k) ==
    /\ ~row'[p][k].pending
    /\ row[p][k].pending \/ row'[p][k].ver # row[p][k].ver
Foreign(p) == pass[p].acct # link[p].last
\* A first link is complete, or a sign-out took the link back to another account.
Linked(p) == pass[p].step = "apply" /\ pass'[p].step = "upload"
TakenBack(p) == leaving[p].on /\ ~leaving'[p].on /\ link'[p].last # link[p].last

TornNow(p) ==
    IF Linked(p) THEN {}
    ELSE IF TakenBack(p) THEN Keys
    ELSE {k \in Keys : IF Settles(p, k) THEN Foreign(p) ELSE k \in torn[p] /\ ~row'[p][k].pending}

SwitchNext ==
    /\ Next
    /\ version' + instant' <= MaxEvents
    /\ torn' = [p \in Phones |-> TornNow(p)]

SwitchSpec == SwitchInit /\ [][SwitchNext]_switchVars

\* A pass of an account that is not signed in any more: its next request is
\* refused, or its next write is its last.
Outlived(p) == pass[p].acct # session[p] /\ EndPass(p)

\* Passes keep starting, go on and end; the world around them comes to rest.
SyncGoesOn(p) == PassStep(p) \/ Outlived(p) \/ \E a \in Accounts : StartPass(p, a)
FairSwitchSpec == SwitchSpec /\ \A p \in Phones : WF_vars(SyncGoesOn(p))
Rest == <>[][\E p \in Phones : SyncGoesOn(p)]_vars

\* However a phone changes accounts, in the middle of a pass, of a first link's
\* writes or of a sign-out: a settled row that the account it syncs with lacks,
\* with no newer arrival on its way, is one that a first link cut short or a
\* sign-out that saved an older link had torn.
OnlyTornApart ==
    \A p \in Phones, a \in Accounts, k \in Keys :
        SyncsWith(p, a) /\ ~row[p][k].pending
            => Same(row[p][k], srv[a][k]) \/ k \in behind[p] \/ k \in torn[p]

\* Once writes, answers, sign-outs and failures stop, nothing waits on a phone
\* whose account has the consent, and every row it holds is the account's unless
\* it was torn.
SwitchConverges ==
    Rest => <>[](\A p \in Phones, a \in Accounts, k \in Keys :
                    session[p] = a /\ consent[a].given
                        => /\ ~row[p][k].pending
                           /\ Same(row[p][k], srv[a][k]) \/ k \in torn[p])
=============================================================================
