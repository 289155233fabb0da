----------------------------- MODULE AccountGate -----------------------------
(***************************************************************************)
(* The account database's own guard of one account: record uploads, consent *)
(* answers and withdrawals as concurrent transactions.                      *)
(*                                                                          *)
(* Three advisory locks of the account order them, all held to the end of   *)
(* the transaction.  An upload holds the account's lock shared and reads the *)
(* consent again once it has it; withdraw_sync_consent holds it alone.      *)
(* After its insert an upload takes the cap lock, counts the rows it can see *)
(* and is refused past the cap.  An answer, given or withdrawn, takes the   *)
(* answers' lock after its insert and is judged by the answers' cap; a      *)
(* withdrawal asks for it while it holds the account's lock.  Transactions  *)
(* are read committed: each statement sees what was committed when it began, *)
(* and its own transaction's writes.                                        *)
(*                                                                          *)
(* now() is fixed when a transaction begins; a withdrawal asks for its lock *)
(* as its first statement, so beginning and asking are one step, as it is   *)
(* for an answer's single statement.  The account's lock is granted in the  *)
(* order it was asked for, the other two in any order.  Each upload inserts *)
(* one new row, named by the upload; each transaction runs once.            *)
(***************************************************************************)
EXTENDS Naturals, FiniteSets

CONSTANTS
    Uploads, Withdrawals, Gives,    \* the transactions
    Cap,                            \* rows one account may hold in the table
    AnswerCap                       \* answers after which only a withdrawal may land

ASSUME GateAssumption ==
    /\ Uploads \cap Withdrawals = {} /\ Uploads \cap Gives = {}
    /\ Withdrawals \cap Gives = {}
    /\ IsFiniteSet(Uploads)
    /\ Cap \in Nat /\ AnswerCap \in Nat

Txns == Uploads \cup Withdrawals \cup Gives
Answerers == Withdrawals \cup Gives

VARIABLES
    now,        \* the server's clock, one instant per transaction
    step,       \* step[t]: how far t has come
    at,         \* at[t]: when t began
    joined,     \* joined[u]: recorded_at of the given answer u's phone read
    answers,    \* committed consent answers
    copies,     \* committed rows
    doomed,     \* doomed[w]: the rows withdrawal w has deleted
    capLock,    \* who holds the cap lock
    answerLock  \* who holds the answers' lock

vars == <<now, step, at, joined, answers, copies, doomed, capLock, answerLock>>

Answer == [at : Nat, given : BOOLEAN]

\* has_sync_consent: the latest answer by recorded_at.
has_sync_consent ==
    \E a \in answers : a.given /\ \A b \in answers : b.at <= a.at

Shared == {"locked", "inserted", "counting", "ready"}
Alone == {"locked", "judging", "judged", "deleted"}
Steps == {"idle", "read", "begun", "waiting", "done", "refused"} \cup Shared \cup Alone
SharedHolders == {u \in Uploads : step[u] \in Shared}
AloneHolders == {w \in Withdrawals : step[w] \in Alone}

\* Nobody who asked for the lock alone before t still waits for it.
NoEarlierWithdrawal(t) == \A w \in Withdrawals : step[w] = "waiting" => at[w] >= at[t]
NoEarlierUpload(t) == \A u \in Uploads : step[u] = "waiting" => at[u] >= at[t]

Init ==
    /\ now = 1
    /\ step = [t \in Txns |-> "idle"]
    /\ at = [t \in Txns |-> 0]
    /\ joined = [u \in Uploads |-> 0]
    /\ answers = {} /\ copies = {}
    /\ doomed = [w \in Withdrawals |-> {}]
    /\ capLock = {} /\ answerLock = {}

-----------------------------------------------------------------------------
(* An upload.                                                               *)

\* The pass that will upload reads the consent; it sends records only under it.
ReadConsent(u) ==
    /\ step[u] = "idle" /\ has_sync_consent
    /\ \E a \in answers :
        /\ a.given /\ \A b \in answers : b.at <= a.at
        /\ joined' = [joined EXCEPT ![u] = a.at]
    /\ step' = [step EXCEPT ![u] = "read"]
    /\ UNCHANGED <<now, at, answers, copies, doomed, capLock, answerLock>>

\* The statement begins: the row policy judges the consent of this snapshot,
\* then the trigger asks for the lock.
Upload(u) ==
    /\ step[u] = "read"
    /\ step' = [step EXCEPT ![u] = IF has_sync_consent THEN "waiting" ELSE "refused"]
    /\ at' = [at EXCEPT ![u] = now]
    /\ now' = now + 1
    /\ UNCHANGED <<joined, answers, copies, doomed, capLock, answerLock>>

\* Mutant: the lock is taken without waiting for the withdrawal.
LockSharedAtOnce(u) ==
    /\ step[u] = "waiting"
    /\ step' = [step EXCEPT ![u] = "locked"]
    /\ UNCHANGED <<now, at, joined, answers, copies, doomed, capLock, answerLock>>

\* Mutant: a shared request overtakes a withdrawal that waits.
LockSharedBarging(u) ==
    /\ step[u] = "waiting"
    /\ AloneHolders = {}
    /\ step' = [step EXCEPT ![u] = "locked"]
    /\ UNCHANGED <<now, at, joined, answers, copies, doomed, capLock, answerLock>>

LockShared(u) ==
    /\ step[u] = "waiting"
    /\ AloneHolders = {} /\ NoEarlierWithdrawal(u)
    /\ step' = [step EXCEPT ![u] = "locked"]
    /\ UNCHANGED <<now, at, joined, answers, copies, doomed, capLock, answerLock>>

\* require_sync_consent, with a fresh snapshot, then the insert.
require_sync_consent(u) ==
    /\ step[u] = "locked"
    /\ step' = [step EXCEPT ![u] = IF has_sync_consent THEN "inserted" ELSE "refused"]
    /\ UNCHANGED <<now, at, joined, answers, copies, doomed, capLock, answerLock>>

\* Mutant: the count is taken before the lock, with the insert's snapshot.
CountUnlocked(u) ==
    /\ step[u] = "inserted"
    /\ Cardinality(copies \cup {u}) <= Cap
    /\ step' = [step EXCEPT ![u] = "ready"]
    /\ UNCHANGED <<now, at, joined, answers, copies, doomed, capLock, answerLock>>

LockCap(u) ==
    /\ step[u] = "inserted" /\ capLock = {}
    /\ step' = [step EXCEPT ![u] = "counting"]
    /\ capLock' = {u}
    /\ UNCHANGED <<now, at, joined, answers, copies, doomed, answerLock>>

\* Mutant: a lock of the session, not of the transaction, outlives a refusal.
CountKeepingLock(u) ==
    /\ step[u] = "counting"
    /\ step' = [step EXCEPT ![u] =
           IF Cardinality(copies \cup {u}) > Cap THEN "refused" ELSE "ready"]
    /\ UNCHANGED <<now, at, joined, answers, copies, doomed, capLock, answerLock>>

\* enforce_user_row_cap: the committed rows and its own.
enforce_user_row_cap(u) ==
    /\ step[u] = "counting"
    /\ IF Cardinality(copies \cup {u}) > Cap
       THEN step' = [step EXCEPT ![u] = "refused"] /\ capLock' = {}
       ELSE step' = [step EXCEPT ![u] = "ready"] /\ UNCHANGED capLock
    /\ UNCHANGED <<now, at, joined, answers, copies, doomed, answerLock>>

CommitUpload(u) ==
    /\ step[u] = "ready"
    /\ step' = [step EXCEPT ![u] = "done"]
    /\ copies' = copies \cup {u}
    /\ capLock' = capLock \ {u}
    /\ UNCHANGED <<now, at, joined, answers, doomed, answerLock>>

\* The size guard, the statement limit or a lost connection rolls the upload back.
AbortUpload(u) ==
    /\ step[u] \in {"waiting"} \cup Shared
    /\ step' = [step EXCEPT ![u] = "refused"]
    /\ capLock' = capLock \ {u}
    /\ UNCHANGED <<now, at, joined, answers, copies, doomed, answerLock>>

-----------------------------------------------------------------------------
(* Consent answers.                                                         *)

\* Mutant: the answer is dated by the phone, whose clock runs ahead.
BeginGiveAhead(g) ==
    /\ step[g] = "idle"
    /\ step' = [step EXCEPT ![g] = "begun"]
    /\ at' = [at EXCEPT ![g] = now + 2]
    /\ now' = now + 1
    /\ UNCHANGED <<joined, answers, copies, doomed, capLock, answerLock>>

\* A plain insert of a given answer, whose trigger asks for the answers' lock.
BeginGive(g) ==
    /\ step[g] = "idle"
    /\ step' = [step EXCEPT ![g] = "begun"]
    /\ at' = [at EXCEPT ![g] = now]
    /\ now' = now + 1
    /\ UNCHANGED <<joined, answers, copies, doomed, capLock, answerLock>>

BeginWithdraw(w) ==
    /\ step[w] = "idle"
    /\ step' = [step EXCEPT ![w] = "waiting"]
    /\ at' = [at EXCEPT ![w] = now]
    /\ now' = now + 1
    /\ UNCHANGED <<joined, answers, copies, doomed, capLock, answerLock>>

\* The withdrawal inserts its answer at once, so it asks for the answers' lock.
LockAlone(w) ==
    /\ step[w] = "waiting"
    /\ AloneHolders = {} /\ SharedHolders = {}
    /\ NoEarlierWithdrawal(w) /\ NoEarlierUpload(w)
    /\ step' = [step EXCEPT ![w] = "locked"]
    /\ UNCHANGED <<now, at, joined, answers, copies, doomed, capLock, answerLock>>

LockAnswers(t) ==
    /\ step[t] = IF t \in Gives THEN "begun" ELSE "locked"
    /\ answerLock = {}
    /\ step' = [step EXCEPT ![t] = "judging"]
    /\ answerLock' = {t}
    /\ UNCHANGED <<now, at, joined, answers, copies, doomed, capLock>>

AnswerOf(t) == [at |-> at[t], given |-> t \in Gives]

\* Past the cap only a withdrawal lands, and only while the latest of the other
\* committed answers is a consent.
MayAnswer(t) ==
    \/ Cardinality(answers \cup {AnswerOf(t)}) <= AnswerCap
    \/ t \in Withdrawals /\ has_sync_consent

\* Mutant: a lock of the session, not of the transaction, outlives a refusal.
JudgeKeepingLock(t) ==
    /\ step[t] = "judging"
    /\ step' = [step EXCEPT ![t] = IF MayAnswer(t) THEN "judged" ELSE "refused"]
    /\ UNCHANGED <<now, at, joined, answers, copies, doomed, capLock, answerLock>>

enforce_consent_record_cap(t) ==
    /\ step[t] = "judging"
    /\ IF MayAnswer(t)
       THEN step' = [step EXCEPT ![t] = "judged"] /\ UNCHANGED answerLock
       ELSE step' = [step EXCEPT ![t] = "refused"] /\ answerLock' = {}
    /\ UNCHANGED <<now, at, joined, answers, copies, doomed, capLock>>

CommitGive(g) ==
    /\ step[g] = "judged"
    /\ step' = [step EXCEPT ![g] = "done"]
    /\ answers' = answers \cup {AnswerOf(g)}
    /\ answerLock' = answerLock \ {g}
    /\ UNCHANGED <<now, at, joined, copies, doomed, capLock>>

\* The deletes see the rows committed by then.
DeleteCopies(w) ==
    /\ step[w] = "judged"
    /\ step' = [step EXCEPT ![w] = "deleted"]
    /\ doomed' = [doomed EXCEPT ![w] = copies]
    /\ UNCHANGED <<now, at, joined, answers, copies, capLock, answerLock>>

CommitWithdraw(w) ==
    /\ step[w] = "deleted"
    /\ step' = [step EXCEPT ![w] = "done"]
    /\ answers' = answers \cup {AnswerOf(w)}
    /\ copies' = copies \ doomed[w]
    /\ answerLock' = answerLock \ {w}
    /\ UNCHANGED <<now, at, joined, doomed, capLock>>

AbortAnswer(t) ==
    /\ step[t] \in {"begun", "waiting"} \cup Alone
    /\ step' = [step EXCEPT ![t] = "refused"]
    /\ answerLock' = answerLock \ {t}
    /\ UNCHANGED <<now, at, joined, answers, copies, doomed, capLock>>

UploadStep(u) ==
    \/ Upload(u) \/ LockShared(u) \/ require_sync_consent(u)
    \/ LockCap(u) \/ enforce_user_row_cap(u) \/ CommitUpload(u)
Judged(t) == LockAnswers(t) \/ enforce_consent_record_cap(t)
WithdrawStep(w) == LockAlone(w) \/ Judged(w) \/ DeleteCopies(w) \/ CommitWithdraw(w)
GiveStep(g) == Judged(g) \/ CommitGive(g)

Next ==
    \/ \E u \in Uploads : ReadConsent(u) \/ UploadStep(u) \/ AbortUpload(u)
    \/ \E w \in Withdrawals : BeginWithdraw(w) \/ WithdrawStep(w) \/ AbortAnswer(w)
    \/ \E g \in Gives : BeginGive(g) \/ GiveStep(g) \/ AbortAnswer(g)

Spec == Init /\ [][Next]_vars

\* The database goes on with every transaction it has begun.
FairSpec ==
    /\ Spec
    /\ \A u \in Uploads : WF_vars(UploadStep(u))
    /\ \A w \in Withdrawals : WF_vars(WithdrawStep(w))
    /\ \A g \in Gives : WF_vars(GiveStep(g))

-----------------------------------------------------------------------------
\* Every variable has its type, and no transaction is dated after the clock.
TypeOK ==
    /\ now \in Nat
    /\ step \in [Txns -> Steps]
    /\ at \in [Txns -> Nat] /\ \A t \in Txns : at[t] <= now
    /\ joined \in [Uploads -> Nat]
    /\ answers \subseteq Answer /\ copies \subseteq Uploads
    /\ doomed \in [Withdrawals -> SUBSET Uploads]
    /\ capLock \subseteq Uploads /\ answerLock \subseteq Answerers

\* While the account's latest answer is a withdrawal, or there is no answer,
\* it holds no copy of a record, whatever was uploading when it was withdrawn.
NoCopyWithoutConsent == has_sync_consent \/ copies = {}

\* The phones' rule for joining again (syncPassFor) sees every loss: if no
\* withdrawal is recorded after the answer an upload's pass had read, the rows
\* it stored are still there.
JoinedCopiesKept ==
    \A u \in Uploads :
        step[u] = "done" /\ (\A a \in answers : a.given \/ a.at <= joined[u]) => u \in copies

\* Uploads that each fit under the cap do not pass it together.
CapHeld == Cardinality(copies) <= Cap

\* The locks make the transactions atomic to whoever reads the account: it
\* behaves as the ledger does, on which storing and withdrawing are one step.
Ledger == INSTANCE ConsentLedger WITH
    Rows <- Uploads,
    Holdings <- {rows \in SUBSET Uploads : Cardinality(rows) <= Cap},
    consent <- has_sync_consent
IsALedger == Ledger!Spec

\* Nobody waits forever for any of the three locks: every upload, answer and
\* withdrawal that began ends, although a withdrawal waits for the answers' lock
\* while everyone else of the account waits for the one it holds.
Begun(t) == step[t] \in {"waiting", "begun"} \cup Shared \cup Alone
Ended(t) == step[t] \in {"done", "refused"}
EveryoneEnds == \A t \in Txns : Begun(t) ~> Ended(t)
=============================================================================
