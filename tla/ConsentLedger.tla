---------------------------- MODULE ConsentLedger ----------------------------
(***************************************************************************)
(* What the account database promises of one account, without locks and     *)
(* without transactions: a ledger on which every operation is one step.     *)
(* AccountGate implements it.                                               *)
(*                                                                          *)
(* A row is stored only while the latest answer is a consent and only within *)
(* the cap; rows are lost only all at once, by a withdrawal.  A withdrawal  *)
(* that a newer consent has overtaken still removes what was there before.  *)
(***************************************************************************)
CONSTANTS
    Rows,
    Holdings    \* the sets of rows an account may hold

VARIABLES
    consent,    \* the latest answer is a consent
    copies      \* the stored rows

Init == consent = FALSE /\ copies = {}

Give == consent' = TRUE /\ UNCHANGED copies

Store(r) ==
    /\ consent
    /\ copies' = copies \cup {r} /\ copies' \in Holdings
    /\ UNCHANGED consent

Withdraw ==
    /\ copies' = {}
    /\ consent' \in {FALSE, consent}

Next == Give \/ Withdraw \/ \E r \in Rows : Store(r)

Spec == Init /\ [][Next]_<<consent, copies>>
=============================================================================
