------------------------ MODULE AccountServiceProofs ------------------------
(***************************************************************************)
(* Proofs about the account's service.                                      *)
(*                                                                          *)
(* AccountGate, for any number of uploads, withdrawals and consents given:  *)
(* no copy survives a withdrawal, every loss is visible to the phones' rule *)
(* for joining again, and the row cap holds.                                *)
(*                                                                          *)
(* PullCursor: as long as a transaction and a pull together last no longer  *)
(* than the overlap, no committed row version falls behind the cursor, and  *)
(* a completed pull holds all that was there when it began.                 *)
(*                                                                          *)
(* AccountErasure: what the phone says of a deletion is so, no request      *)
(* deletes for a session that was signed out before it arrived, and no      *)
(* session ends by kuyara's own revocation with its account left behind,    *)
(* for any number of requests, attempts and failures.                       *)
(***************************************************************************)
EXTENDS AccountGate, PullCursor, AccountErasure, FiniteSetTheorems, TLAPS

(* The gate.                                                                 *)

\* The advisory lock: shared by uploads, or held alone.
Exclusion ==
    /\ \A u \in Uploads, w \in Withdrawals : ~(step[u] \in Shared /\ step[w] \in Alone)
    /\ \A v, w \in Withdrawals : step[v] \in Alone /\ step[w] \in Alone => v = w

\* An upload that passed its check does so under a consent that still stands.
StillGiven == \A u \in Uploads : step[u] \in {"inserted", "counting", "ready"} => has_sync_consent

\* No row arrives between a withdrawal's deletes and its commit.
AllDoomed == \A w \in Withdrawals : step[w] = "deleted" => doomed[w] = copies

\* Instants: what is recorded began before now, and an upload's pass read its
\* answer before the upload began.
Instants ==
    /\ \A a \in answers : a.at < now
    /\ \A t \in Txns : step[t] # "idle" /\ step[t] # "read" => at[t] < now
    /\ \A u \in Uploads : joined[u] < now
    /\ \A u \in Uploads : step[u] \in Shared \cup {"waiting", "done"} => joined[u] < at[u]

\* A withdrawal that may still delete u's row began after u did.
Order ==
    \A u \in Uploads, w \in Withdrawals :
        step[u] \in Shared \cup {"done"} /\ step[w] \in {"waiting"} \cup Alone => at[w] >= at[u]

\* A stored row is there, or a withdrawal recorded after its answer removed it.
Accounted ==
    \A u \in Uploads : step[u] = "done" =>
        u \in copies \/ \E a \in answers : ~a.given /\ a.at > joined[u]

ConsentInv == TypeOK /\ Exclusion /\ StillGiven /\ AllDoomed /\ Instants /\ Order
              /\ NoCopyWithoutConsent /\ Accounted

-----------------------------------------------------------------------------
\* The names of the steps of a transaction belong to its kind.
LEMMA Disjoint == /\ Uploads \subseteq Txns /\ Withdrawals \subseteq Txns /\ Gives \subseteq Txns
                  /\ Uploads \cap Withdrawals = {} /\ Uploads \cap Gives = {}
                  /\ Withdrawals \cap Gives = {}
                  /\ Answerers = Withdrawals \cup Gives
BY GateAssumption DEF Txns, Answerers

\* An answer is dated by its transaction and says what its kind says.
LEMMA AnswersOf ==
  /\ \A w \in Withdrawals : AnswerOf(w) = [at |-> at[w], given |-> FALSE]
  /\ \A x \in Gives : AnswerOf(x) = [at |-> at[x], given |-> TRUE]
<1>1. ASSUME NEW w \in Withdrawals PROVE (w \in Gives) = FALSE
  BY Disjoint
<1>2. ASSUME NEW x \in Gives PROVE (x \in Gives) = TRUE
  OBVIOUS
<1> QED
  BY <1>1, <1>2, Zenon DEF AnswerOf

\* TypeOK: every variable keeps its type.
THEOREM TypeCorrect == Spec => []TypeOK
<1>1. Init => TypeOK
  BY Disjoint DEF Init, TypeOK, Steps
<1>2. TypeOK /\ [Next]_vars => TypeOK'
  <2> SUFFICES ASSUME TypeOK, [Next]_vars PROVE TypeOK'
    OBVIOUS
  <2> USE Disjoint DEF TypeOK, Steps, Shared, Alone
  <2>1. ASSUME NEW u \in Uploads, ReadConsent(u) PROVE TypeOK'
    BY <2>1 DEF ReadConsent, Answer
  <2>2. ASSUME NEW u \in Uploads, Upload(u) PROVE TypeOK'
    BY <2>2 DEF Upload
  <2>3. ASSUME NEW u \in Uploads, LockShared(u) PROVE TypeOK'
    BY <2>3 DEF LockShared
  <2>4. ASSUME NEW u \in Uploads, require_sync_consent(u) PROVE TypeOK'
    BY <2>4 DEF require_sync_consent
  <2>5. ASSUME NEW u \in Uploads, LockCap(u) PROVE TypeOK'
    BY <2>5 DEF LockCap
  <2>6. ASSUME NEW u \in Uploads, enforce_user_row_cap(u) PROVE TypeOK'
    BY <2>6 DEF enforce_user_row_cap
  <2>7. ASSUME NEW u \in Uploads, CommitUpload(u) PROVE TypeOK'
    BY <2>7 DEF CommitUpload
  <2>8. ASSUME NEW u \in Uploads, AbortUpload(u) PROVE TypeOK'
    BY <2>8 DEF AbortUpload
  <2>9. ASSUME NEW g \in Gives, BeginGive(g) PROVE TypeOK'
    BY <2>9 DEF BeginGive
  <2>10. ASSUME NEW g \in Gives, CommitGive(g) PROVE TypeOK'
    <3>1. AnswerOf(g) \in Answer
      BY DEF Answer, AnswerOf
    <3> QED
      BY <2>10, <3>1 DEF CommitGive
  <2>11. ASSUME NEW w \in Withdrawals, BeginWithdraw(w) PROVE TypeOK'
    BY <2>11 DEF BeginWithdraw
  <2>12. ASSUME NEW w \in Withdrawals, LockAlone(w) PROVE TypeOK'
    BY <2>12 DEF LockAlone
  <2>13. ASSUME NEW w \in Withdrawals, DeleteCopies(w) PROVE TypeOK'
    BY <2>13 DEF DeleteCopies
  <2>14. ASSUME NEW w \in Withdrawals, CommitWithdraw(w) PROVE TypeOK'
    <3>1. AnswerOf(w) \in Answer
      BY DEF Answer, AnswerOf
    <3> QED
      BY <2>14, <3>1 DEF CommitWithdraw
  <2>15. ASSUME NEW t \in Answerers, AbortAnswer(t) PROVE TypeOK'
    BY <2>15 DEF AbortAnswer
  <2>17. ASSUME NEW t \in Answerers, LockAnswers(t) PROVE TypeOK'
    BY <2>17 DEF LockAnswers
  <2>18. ASSUME NEW t \in Answerers, enforce_consent_record_cap(t) PROVE TypeOK'
    BY <2>18 DEF enforce_consent_record_cap
  <2>16. CASE UNCHANGED vars
    BY <2>16 DEF vars
  <2> QED
    BY <2>1, <2>2, <2>3, <2>4, <2>5, <2>6, <2>7, <2>8, <2>9, <2>10, <2>11, <2>12, <2>13,
       <2>14, <2>15, <2>16, <2>17, <2>18 DEF Next, UploadStep, WithdrawStep, GiveStep, Judged
<1> QED
  BY <1>1, <1>2, PTL DEF Spec

-----------------------------------------------------------------------------
\* A consent added to the answers leaves a standing consent standing.
LEMMA GiveKeepsConsent ==
  ASSUME TypeOK, has_sync_consent, NEW n \in Nat,
         answers' = answers \cup {[at |-> n, given |-> TRUE]}
  PROVE  has_sync_consent'
<1>1. PICK a \in answers : a.given /\ \A b \in answers : b.at <= a.at
  BY DEF has_sync_consent
<1> DEFINE new == [at |-> n, given |-> TRUE]
<1>2. a.at \in Nat /\ new.at = n /\ new.given /\ a \in answers' /\ new \in answers'
  BY <1>1 DEF TypeOK, Answer
<1>3. \A b \in answers : b.at \in Nat
  BY DEF TypeOK, Answer
<1>4. CASE n <= a.at
  BY <1>1, <1>2, <1>4 DEF has_sync_consent
<1>5. CASE ~(n <= a.at)
  <2>1. \A b \in answers' : b.at <= new.at
    BY <1>1, <1>2, <1>3, <1>5
  <2> QED
    BY <1>2, <2>1 DEF has_sync_consent
<1> QED
  BY <1>4, <1>5

\* A withdrawal added to the answers makes no consent stand that did not.
LEMMA WithdrawalAddsNoConsent ==
  ASSUME has_sync_consent', NEW n,
         answers' = answers \cup {[at |-> n, given |-> FALSE]}
  PROVE  has_sync_consent
BY DEF has_sync_consent

\* has_sync_consent reads the committed answers and nothing else.
LEMMA ConsentOfAnswers == answers' = answers => (has_sync_consent' <=> has_sync_consent)
BY DEF has_sync_consent

\* Every step of an upload, an answer or a withdrawal keeps the consent invariant.
LEMMA ConsentStep == ConsentInv /\ [Next]_vars /\ TypeOK' => ConsentInv'
<1> SUFFICES ASSUME ConsentInv, [Next]_vars, TypeOK' PROVE ConsentInv'
  OBVIOUS
<1> USE Disjoint DEF ConsentInv, TypeOK, Steps, Shared, Alone
<1> DEFINE Rest == Exclusion' /\ StillGiven' /\ AllDoomed' /\ Instants' /\ Order'
                   /\ NoCopyWithoutConsent' /\ Accounted'
<1>1. ASSUME NEW u \in Uploads, ReadConsent(u) PROVE Rest
  <2>1. PICK a \in answers : a.given /\ joined' = [joined EXCEPT ![u] = a.at]
    BY <1>1 DEF ReadConsent
  <2>2. a.at \in Nat /\ a.at < now
    BY <2>1 DEF Instants, Answer
  <2>3. Instants'
    BY <1>1, <2>1, <2>2 DEF ReadConsent, Instants
  <2>4. Exclusion' /\ StillGiven' /\ AllDoomed' /\ Order' /\ NoCopyWithoutConsent'
    BY <1>1, ConsentOfAnswers DEF ReadConsent, Exclusion, StillGiven, AllDoomed, Order, NoCopyWithoutConsent
  <2>5. Accounted'
    BY <1>1 DEF ReadConsent, Accounted
  <2> QED
    BY <2>3, <2>4, <2>5
<1>2. ASSUME NEW u \in Uploads, Upload(u) PROVE Rest
  <2>1. Exclusion' /\ StillGiven' /\ AllDoomed' /\ NoCopyWithoutConsent' /\ Accounted'
    BY <1>2, ConsentOfAnswers DEF Upload, Exclusion, StillGiven, AllDoomed, NoCopyWithoutConsent, Accounted
  <2>2. Instants'
    <3>1. /\ now' = now + 1 /\ answers' = answers /\ joined' = joined
          /\ \A t \in Txns : t # u => step'[t] = step[t] /\ at'[t] = at[t]
          /\ at'[u] = now
      BY <1>2 DEF Upload
    <3>2. \A a \in answers : a.at \in Nat /\ a.at < now
      BY DEF Instants, Answer
    <3>3. \A t \in Txns : at[t] \in Nat
      OBVIOUS
    <3>4. \A v \in Uploads : joined[v] \in Nat /\ joined[v] < now
      BY DEF Instants
    <3>5. \A t \in Txns : step'[t] # "idle" /\ step'[t] # "read" => at'[t] < now'
      BY <3>1, <3>3 DEF Instants
    <3>6. \A v \in Uploads : step'[v] \in Shared \cup {"waiting", "done"} => joined'[v] < at'[v]
      BY <3>1, <3>3, <3>4, <1>2 DEF Instants, Upload
    <3> QED
      BY <3>1, <3>2, <3>4, <3>5, <3>6 DEF Instants
  <2>3. Order'
    BY <1>2 DEF Upload, Order
  <2> QED
    BY <2>1, <2>2, <2>3
<1>3. ASSUME NEW u \in Uploads, LockShared(u) PROVE Rest
  <2>1. Exclusion'
    BY <1>3 DEF LockShared, Exclusion, AloneHolders
  <2>2. Order'
    BY <1>3 DEF LockShared, Order, AloneHolders, NoEarlierWithdrawal
  <2>3. Instants'
    BY <1>3 DEF LockShared, Instants
  <2>4. StillGiven' /\ AllDoomed' /\ NoCopyWithoutConsent' /\ Accounted'
    BY <1>3, ConsentOfAnswers DEF LockShared, StillGiven, AllDoomed, NoCopyWithoutConsent, Accounted
  <2> QED
    BY <2>1, <2>2, <2>3, <2>4
<1>4. ASSUME NEW u \in Uploads, require_sync_consent(u) PROVE Rest
  <2>1. StillGiven'
    BY <1>4, ConsentOfAnswers DEF require_sync_consent, StillGiven
  <2>2. Exclusion' /\ AllDoomed' /\ NoCopyWithoutConsent' /\ Accounted'
    BY <1>4, ConsentOfAnswers DEF require_sync_consent, Exclusion, AllDoomed, NoCopyWithoutConsent, Accounted
  <2>3. Instants' /\ Order'
    BY <1>4 DEF require_sync_consent, Instants, Order
  <2> QED
    BY <2>1, <2>2, <2>3
<1>5. ASSUME NEW u \in Uploads, LockCap(u) PROVE Rest
  <2>1. Exclusion' /\ StillGiven' /\ AllDoomed' /\ NoCopyWithoutConsent' /\ Accounted'
    BY <1>5, ConsentOfAnswers DEF LockCap, Exclusion, StillGiven, AllDoomed, NoCopyWithoutConsent, Accounted
  <2>2. Instants' /\ Order'
    BY <1>5 DEF LockCap, Instants, Order
  <2> QED
    BY <2>1, <2>2
<1>6. ASSUME NEW u \in Uploads, enforce_user_row_cap(u) PROVE Rest
  <2>1. Exclusion' /\ StillGiven' /\ AllDoomed' /\ NoCopyWithoutConsent' /\ Accounted'
    BY <1>6, ConsentOfAnswers DEF enforce_user_row_cap, Exclusion, StillGiven, AllDoomed, NoCopyWithoutConsent, Accounted
  <2>2. Instants' /\ Order'
    BY <1>6 DEF enforce_user_row_cap, Instants, Order
  <2> QED
    BY <2>1, <2>2
<1>7. ASSUME NEW u \in Uploads, CommitUpload(u) PROVE Rest
  <2>1. has_sync_consent /\ has_sync_consent'
    BY <1>7, ConsentOfAnswers DEF CommitUpload, StillGiven
  <2>2. AllDoomed'
    BY <1>7 DEF CommitUpload, AllDoomed, Exclusion
  <2>3. Exclusion' /\ StillGiven' /\ NoCopyWithoutConsent' /\ Accounted'
    BY <1>7, <2>1 DEF CommitUpload, Exclusion, StillGiven, NoCopyWithoutConsent, Accounted
  <2>4. Instants' /\ Order'
    BY <1>7 DEF CommitUpload, Instants, Order
  <2> QED
    BY <2>2, <2>3, <2>4
<1>8. ASSUME NEW u \in Uploads, AbortUpload(u) PROVE Rest
  <2>1. Exclusion' /\ StillGiven' /\ AllDoomed' /\ NoCopyWithoutConsent' /\ Accounted'
    BY <1>8, ConsentOfAnswers DEF AbortUpload, Exclusion, StillGiven, AllDoomed, NoCopyWithoutConsent, Accounted
  <2>2. Instants' /\ Order'
    BY <1>8 DEF AbortUpload, Instants, Order
  <2> QED
    BY <2>1, <2>2
<1>9. ASSUME NEW g \in Gives, BeginGive(g) PROVE Rest
  <2>1. Exclusion' /\ StillGiven' /\ AllDoomed' /\ NoCopyWithoutConsent' /\ Accounted'
    BY <1>9, ConsentOfAnswers DEF BeginGive, Exclusion, StillGiven, AllDoomed, NoCopyWithoutConsent, Accounted
  <2>2. Instants'
    <3>1. /\ now' = now + 1 /\ answers' = answers /\ joined' = joined
          /\ \A t \in Txns : t # g => step'[t] = step[t] /\ at'[t] = at[t]
          /\ at'[g] = now
      BY <1>9 DEF BeginGive
    <3>2. \A a \in answers : a.at \in Nat /\ a.at < now
      BY DEF Instants, Answer
    <3>3. \A t \in Txns : at[t] \in Nat
      OBVIOUS
    <3>4. \A v \in Uploads : joined[v] \in Nat /\ joined[v] < now
      BY DEF Instants
    <3>5. \A t \in Txns : step'[t] # "idle" /\ step'[t] # "read" => at'[t] < now'
      BY <3>1, <3>3 DEF Instants
    <3>6. \A v \in Uploads : step'[v] \in Shared \cup {"waiting", "done"} => joined'[v] < at'[v]
      BY <3>1, <3>3, <3>4, <1>9 DEF Instants, BeginGive
    <3> QED
      BY <3>1, <3>2, <3>4, <3>5, <3>6 DEF Instants
  <2>3. Order'
    BY <1>9 DEF BeginGive, Order
  <2> QED
    BY <2>1, <2>2, <2>3
<1>10. ASSUME NEW g \in Gives, CommitGive(g) PROVE Rest
  <2>1. has_sync_consent => has_sync_consent'
    BY <1>10, GiveKeepsConsent, AnswersOf DEF CommitGive
  <2>2. StillGiven' /\ NoCopyWithoutConsent'
    BY <1>10, <2>1 DEF CommitGive, StillGiven, NoCopyWithoutConsent
  <2>3. Exclusion' /\ AllDoomed' /\ Order' /\ Accounted'
    BY <1>10 DEF CommitGive, Exclusion, AllDoomed, Order, Accounted
  <2>4. Instants'
    BY <1>10, AnswersOf DEF CommitGive, Instants
  <2> QED
    BY <2>2, <2>3, <2>4
<1>11. ASSUME NEW w \in Withdrawals, BeginWithdraw(w) PROVE Rest
  <2>1. Exclusion' /\ StillGiven' /\ AllDoomed' /\ NoCopyWithoutConsent' /\ Accounted'
    BY <1>11, ConsentOfAnswers DEF BeginWithdraw, Exclusion, StillGiven, AllDoomed, NoCopyWithoutConsent, Accounted
  <2>2. Instants'
    <3>1. /\ now' = now + 1 /\ answers' = answers /\ joined' = joined
          /\ \A t \in Txns : t # w => step'[t] = step[t] /\ at'[t] = at[t]
          /\ at'[w] = now
      BY <1>11 DEF BeginWithdraw
    <3>2. \A a \in answers : a.at \in Nat /\ a.at < now
      BY DEF Instants, Answer
    <3>3. \A t \in Txns : at[t] \in Nat
      OBVIOUS
    <3>4. \A v \in Uploads : joined[v] \in Nat /\ joined[v] < now
      BY DEF Instants
    <3>5. \A t \in Txns : step'[t] # "idle" /\ step'[t] # "read" => at'[t] < now'
      BY <3>1, <3>3 DEF Instants
    <3>6. \A v \in Uploads : step'[v] \in Shared \cup {"waiting", "done"} => joined'[v] < at'[v]
      BY <3>1, <3>3, <3>4, <1>11 DEF Instants, BeginWithdraw
    <3> QED
      BY <3>1, <3>2, <3>4, <3>5, <3>6 DEF Instants
  <2>3. Order'
    BY <1>11 DEF BeginWithdraw, Order, Instants
  <2> QED
    BY <2>1, <2>2, <2>3
<1>12. ASSUME NEW w \in Withdrawals, LockAlone(w) PROVE Rest
  <2>1. Exclusion'
    BY <1>12 DEF LockAlone, Exclusion, AloneHolders, SharedHolders
  <2>2. StillGiven' /\ AllDoomed' /\ NoCopyWithoutConsent' /\ Accounted'
    BY <1>12, ConsentOfAnswers DEF LockAlone, StillGiven, AllDoomed, NoCopyWithoutConsent, Accounted
  <2>3. Instants' /\ Order'
    BY <1>12 DEF LockAlone, Instants, Order
  <2> QED
    BY <2>1, <2>2, <2>3
<1>13. ASSUME NEW w \in Withdrawals, DeleteCopies(w) PROVE Rest
  <2>1. Exclusion' /\ StillGiven' /\ AllDoomed' /\ NoCopyWithoutConsent' /\ Accounted'
    BY <1>13, ConsentOfAnswers DEF DeleteCopies, Exclusion, StillGiven, AllDoomed, NoCopyWithoutConsent, Accounted
  <2>2. Instants' /\ Order'
    BY <1>13 DEF DeleteCopies, Instants, Order
  <2> QED
    BY <2>1, <2>2
<1>14. ASSUME NEW w \in Withdrawals, CommitWithdraw(w) PROVE Rest
  <2>1. copies' = {}
    BY <1>14 DEF CommitWithdraw, AllDoomed
  <2>2. Exclusion' /\ StillGiven' /\ AllDoomed' /\ NoCopyWithoutConsent'
    BY <1>14, <2>1 DEF CommitWithdraw, Exclusion, StillGiven, AllDoomed, NoCopyWithoutConsent
  <2>3. Accounted'
    <3> SUFFICES ASSUME NEW u \in Uploads, step'[u] = "done"
                 PROVE  \E a \in answers' : ~a.given /\ a.at > joined[u]
      BY <1>14 DEF Accounted, CommitWithdraw
    <3>1. step[u] = "done" /\ joined[u] < at[u] /\ at[w] >= at[u]
      BY <1>14 DEF CommitWithdraw, Instants, Order
    <3>2. [at |-> at[w], given |-> FALSE] \in answers'
      BY <1>14, AnswersOf DEF CommitWithdraw
    <3> QED
      BY <3>1, <3>2
  <2>4. Instants'
    BY <1>14, AnswersOf DEF CommitWithdraw, Instants
  <2>5. Order'
    BY <1>14 DEF CommitWithdraw, Order
  <2> QED
    BY <2>2, <2>3, <2>4, <2>5
<1>15. ASSUME NEW t \in Answerers, AbortAnswer(t) PROVE Rest
  <2>1. Exclusion' /\ StillGiven' /\ AllDoomed' /\ NoCopyWithoutConsent' /\ Accounted'
    BY <1>15, ConsentOfAnswers DEF AbortAnswer, Exclusion, StillGiven, AllDoomed, NoCopyWithoutConsent, Accounted
  <2>2. Instants' /\ Order'
    BY <1>15 DEF AbortAnswer, Instants, Order
  <2> QED
    BY <2>1, <2>2
<1>17. ASSUME NEW t \in Answerers, LockAnswers(t) PROVE Rest
  <2>1. Exclusion' /\ StillGiven' /\ AllDoomed' /\ NoCopyWithoutConsent' /\ Accounted'
    BY <1>17, ConsentOfAnswers DEF LockAnswers, Exclusion, StillGiven, AllDoomed, NoCopyWithoutConsent, Accounted
  <2>2. Instants' /\ Order'
    BY <1>17 DEF LockAnswers, Instants, Order
  <2> QED
    BY <2>1, <2>2
<1>18. ASSUME NEW t \in Answerers, enforce_consent_record_cap(t) PROVE Rest
  <2>1. Exclusion' /\ StillGiven' /\ AllDoomed' /\ NoCopyWithoutConsent' /\ Accounted'
    BY <1>18, ConsentOfAnswers DEF enforce_consent_record_cap, Exclusion, StillGiven, AllDoomed, NoCopyWithoutConsent, Accounted
  <2>2. Instants' /\ Order'
    BY <1>18 DEF enforce_consent_record_cap, Instants, Order
  <2> QED
    BY <2>1, <2>2
<1>16. CASE UNCHANGED vars
  BY <1>16, ConsentOfAnswers DEF vars, Exclusion, StillGiven, AllDoomed, Instants, Order, NoCopyWithoutConsent, Accounted
<1> QED
  BY <1>1, <1>2, <1>3, <1>4, <1>5, <1>6, <1>7, <1>8, <1>9, <1>10, <1>11, <1>12, <1>13,
     <1>14, <1>15, <1>16, <1>17, <1>18 DEF Next, UploadStep, WithdrawStep, GiveStep, Judged

\* ConsentInv: the strengthened invariant of the consent lock.
THEOREM ConsentInvariant == Spec => []ConsentInv
<1>1. Init /\ TypeOK => ConsentInv
  BY Disjoint DEF Init, ConsentInv, Exclusion, StillGiven, AllDoomed, Instants, Order,
     NoCopyWithoutConsent, Accounted, Shared, Alone
<1> QED
  BY <1>1, ConsentStep, TypeCorrect, PTL DEF Spec

\* NoCopyWithoutConsent: whatever runs beside a withdrawal, the account holds
\* no copy once it is the latest answer.
THEOREM NoCopySurvives == Spec => []NoCopyWithoutConsent
<1>1. ConsentInv => NoCopyWithoutConsent
  BY DEF ConsentInv
<1> QED
  BY <1>1, ConsentInvariant, PTL

\* JoinedCopiesKept: a phone that sees no withdrawal recorded after the answer
\* it joined under has lost no row it stored.
THEOREM NoSilentLoss == Spec => []JoinedCopiesKept
<1>1. ConsentInv => JoinedCopiesKept
  <2> SUFFICES ASSUME ConsentInv, NEW u \in Uploads, step[u] = "done",
                      \A a \in answers : a.given \/ a.at <= joined[u]
               PROVE  u \in copies
    BY DEF JoinedCopiesKept
  <2>1. u \in copies \/ \E a \in answers : ~a.given /\ a.at > joined[u]
    BY DEF ConsentInv, Accounted
  <2>2. \A a \in answers : a.at \in Nat /\ joined[u] \in Nat
    BY DEF ConsentInv, TypeOK, Answer
  <2> QED
    BY <2>1, <2>2
<1> QED
  BY <1>1, ConsentInvariant, PTL

-----------------------------------------------------------------------------
\* The cap lock belongs to the one upload that counts, and what it counted
\* still holds when it commits: nobody else can have added a row since.
CapInv ==
    /\ \A u \in Uploads : u \in capLock <=> step[u] \in {"counting", "ready"}
    /\ \A u, v \in capLock : u = v
    /\ \A u \in Uploads : step[u] = "ready" => Cardinality(copies \cup {u}) <= Cap
    /\ CapHeld

\* Fewer rows are under the cap too.
LEMMA Fewer ==
  ASSUME NEW big \in SUBSET Uploads, NEW small \in SUBSET big, Cardinality(big) <= Cap
  PROVE  Cardinality(small) <= Cap
<1>1. IsFiniteSet(big) /\ IsFiniteSet(small)
  BY GateAssumption, FS_Subset
<1>2. Cardinality(small) <= Cardinality(big) /\ Cardinality(small) \in Nat /\ Cardinality(big) \in Nat
  BY <1>1, FS_Subset, FS_CardinalityType
<1> QED
  BY <1>2, GateAssumption

\* Every step keeps the cap invariant: only the holder of the cap lock counts.
LEMMA CapStep == CapInv /\ TypeOK /\ [Next]_vars => CapInv'
<1> SUFFICES ASSUME CapInv, TypeOK, [Next]_vars PROVE CapInv'
  OBVIOUS
<1> USE Disjoint DEF CapInv, CapHeld, TypeOK, Steps, Shared, Alone
<1>1. ASSUME NEW u \in Uploads, LockCap(u) PROVE CapInv'
  BY <1>1 DEF LockCap
<1>2. ASSUME NEW u \in Uploads, enforce_user_row_cap(u) PROVE CapInv'
  <2>1. CASE Cardinality(copies \cup {u}) > Cap
    <3>1. capLock' = {} /\ step' = [step EXCEPT ![u] = "refused"] /\ copies' = copies
      BY <1>2, <2>1 DEF enforce_user_row_cap
    <3>2. \A v \in Uploads \ {u} : step'[v] = step[v] /\ step[v] \notin {"counting", "ready"}
      BY <1>2, <3>1 DEF enforce_user_row_cap
    <3>3. step'[u] = "refused"
      BY <3>1
    <3> QED
      BY <3>1, <3>2, <3>3
  <2>2. CASE ~(Cardinality(copies \cup {u}) > Cap)
    <3>1. capLock' = capLock /\ step' = [step EXCEPT ![u] = "ready"] /\ copies' = copies
      BY <1>2, <2>2 DEF enforce_user_row_cap
    <3>2. Cardinality(copies \cup {u}) <= Cap
      <4>1. IsFiniteSet(copies \cup {u})
        BY GateAssumption, FS_Subset, copies \cup {u} \subseteq Uploads
      <4> QED
        BY <4>1, <2>2, FS_CardinalityType, GateAssumption
    <3> QED
      BY <1>2, <3>1, <3>2 DEF enforce_user_row_cap
  <2> QED
    BY <2>1, <2>2
<1>3. ASSUME NEW u \in Uploads, CommitUpload(u) PROVE CapInv'
  <2>1. Cardinality(copies') <= Cap
    BY <1>3 DEF CommitUpload
  <2>2. \A v \in Uploads \ {u} : step'[v] = step[v] /\ step[v] # "ready"
    BY <1>3 DEF CommitUpload
  <2> QED
    BY <1>3, <2>1, <2>2 DEF CommitUpload
<1>4. ASSUME NEW u \in Uploads, AbortUpload(u) PROVE CapInv'
  BY <1>4 DEF AbortUpload
<1>5. ASSUME NEW w \in Withdrawals, CommitWithdraw(w) PROVE CapInv'
  <2>1. Cardinality(copies') <= Cap
    BY <1>5, Fewer DEF CommitWithdraw
  <2>2. ASSUME NEW u \in Uploads, step'[u] = "ready" PROVE Cardinality(copies' \cup {u}) <= Cap
    <3>1. step[u] = "ready" /\ copies' \cup {u} \subseteq copies \cup {u}
      BY <1>5, <2>2 DEF CommitWithdraw
    <3> QED
      BY <3>1, Fewer, copies \cup {u} \subseteq Uploads
  <2> QED
    BY <1>5, <2>1, <2>2 DEF CommitWithdraw
<1>6. CASE \/ \E u \in Uploads : ReadConsent(u) \/ Upload(u) \/ LockShared(u) \/ require_sync_consent(u)
           \/ \E w \in Withdrawals : BeginWithdraw(w) \/ LockAlone(w) \/ DeleteCopies(w)
           \/ \E t \in Answerers : LockAnswers(t) \/ enforce_consent_record_cap(t) \/ AbortAnswer(t)
           \/ \E g \in Gives : BeginGive(g) \/ CommitGive(g)
           \/ UNCHANGED vars
  BY <1>6 DEF ReadConsent, Upload, LockShared, require_sync_consent, BeginWithdraw, LockAlone,
     DeleteCopies, LockAnswers, enforce_consent_record_cap, AbortAnswer, BeginGive, CommitGive, vars
<1> QED
  BY <1>1, <1>2, <1>3, <1>4, <1>5, <1>6, Disjoint DEF Next, UploadStep, WithdrawStep, GiveStep, Judged

\* CapInv: the cap lock's invariant holds throughout.
THEOREM CapInvariant == Spec => []CapInv
<1>1. Init => CapInv
  BY Disjoint, FS_EmptySet, GateAssumption DEF Init, CapInv, CapHeld
<1> QED
  BY <1>1, CapStep, TypeCorrect, PTL DEF Spec

\* CapHeld: uploads that run at once never pass the row cap together, whatever
\* their number.
THEOREM CapKept == Spec => []CapHeld
<1>1. CapInv => CapHeld
  BY DEF CapInv
<1> QED
  BY <1>1, CapInvariant, PTL

-----------------------------------------------------------------------------
\* A step that leaves answers and copies alone stutters on the ledger, and each
\* of the others is one of its operations.
LEMMA LedgerStep ==
  ConsentInv /\ CapInv' /\ [Next]_vars => [Ledger!Next]_<<has_sync_consent, copies>>
<1> SUFFICES ASSUME ConsentInv, CapInv', [Next]_vars,
                    ~UNCHANGED <<has_sync_consent, copies>>
             PROVE  Ledger!Next
  OBVIOUS
<1> USE DEF ConsentInv
<1>1. ASSUME NEW u \in Uploads, CommitUpload(u) PROVE Ledger!Store(u)
  <2>1. has_sync_consent /\ UNCHANGED has_sync_consent
    BY <1>1 DEF CommitUpload, StillGiven, has_sync_consent
  <2>2. copies' = copies \cup {u} /\ copies' \subseteq Uploads /\ Cardinality(copies') <= Cap
    BY <1>1 DEF CommitUpload, CapInv, CapHeld, TypeOK
  <2> QED
    BY <2>1, <2>2 DEF Ledger!Store
<1>2. ASSUME NEW w \in Withdrawals, CommitWithdraw(w) PROVE Ledger!Withdraw
  <2>1. copies' = {}
    BY <1>2 DEF CommitWithdraw, AllDoomed
  <2>2. has_sync_consent' => has_sync_consent
    BY <1>2, WithdrawalAddsNoConsent, AnswersOf DEF CommitWithdraw
  <2>3. has_sync_consent \in BOOLEAN /\ has_sync_consent' \in BOOLEAN
    BY DEF has_sync_consent
  <2> QED
    BY <2>1, <2>2, <2>3 DEF Ledger!Withdraw
<1>3. ASSUME NEW g \in Gives, CommitGive(g) PROVE Ledger!Give
  <2>1. UNCHANGED copies
    BY <1>3 DEF CommitGive
  <2>2. has_sync_consent => has_sync_consent'
    BY <1>3, Disjoint, GiveKeepsConsent, AnswersOf DEF CommitGive, TypeOK
  <2>3. has_sync_consent \in BOOLEAN /\ has_sync_consent' \in BOOLEAN
    BY DEF has_sync_consent
  <2> QED
    BY <2>1, <2>2, <2>3 DEF Ledger!Give
<1>4. CASE \/ \E u \in Uploads : ReadConsent(u) \/ Upload(u) \/ LockShared(u) \/ require_sync_consent(u)
                                 \/ LockCap(u) \/ enforce_user_row_cap(u) \/ AbortUpload(u)
           \/ \E w \in Withdrawals : BeginWithdraw(w) \/ LockAlone(w) \/ DeleteCopies(w)
           \/ \E t \in Answerers : LockAnswers(t) \/ enforce_consent_record_cap(t) \/ AbortAnswer(t)
           \/ \E g \in Gives : BeginGive(g)
           \/ UNCHANGED vars
  <2>1. UNCHANGED <<answers, copies>>
    BY <1>4 DEF ReadConsent, Upload, LockShared, require_sync_consent, LockCap,
       enforce_user_row_cap, AbortUpload, BeginWithdraw, LockAlone, DeleteCopies,
       LockAnswers, enforce_consent_record_cap, AbortAnswer, BeginGive, vars
  <2> QED
    BY <2>1 DEF has_sync_consent
<1> QED
  BY <1>1, <1>2, <1>3, <1>4, Disjoint DEF Next, UploadStep, WithdrawStep, GiveStep, Judged, Ledger!Next

\* IsALedger: whatever the interleaving of uploads, answers and withdrawals, the
\* account behaves as the ledger without locks.
THEOREM GateIsALedger == Spec => IsALedger
<1>1. Init => Ledger!Init
  BY DEF Init, Ledger!Init, has_sync_consent
<1> QED
  BY <1>1, LedgerStep, ConsentInvariant, CapInvariant, PTL DEF Spec, IsALedger, Ledger!Spec

-----------------------------------------------------------------------------
(* Pulls.                                                                    *)

\* The bound under which the overlap is enough.
Margin == MaxTxn + MaxPull <= Overlap

\* Nothing carries a time later than now, and no transaction or pull outlives
\* its limit.
PullClock ==
    /\ cursor <= clock /\ newest <= clock
    /\ \A i \in Ids : stamp[i] <= clock
    /\ \A w \in Writers : writer[w] # 0 => writer[w] <= clock /\ clock <= writer[w] + MaxTxn
    /\ pulling => since <= clock /\ clock <= since + MaxPull

\* The pull's pages have gone past row i: no later page returns it.
Past(i) == done \/ (after # NoKey /\ ~KeyAfter(stamp[i], i, after))

\* A row the pull has gone past without reading it was committed after the
\* pull began, so its stamp is at most MaxTxn before that.
PastIsRecent == pulling => \A i \in unread \ got : Past(i) => stamp[i] + MaxTxn >= since

\* A row that was there when the pull began is read or still ahead of it.
Ahead == before \subseteq unread /\ \A i \in before \ got : ~Past(i)

PullInv ==
    /\ PullTypeOK /\ PullClock
    /\ \A i \in unread : stamp[i] # 0
    /\ NothingMissed /\ PastIsRecent
    /\ pulling => Ahead

-----------------------------------------------------------------------------
\* PullTypeOK: every variable keeps its type, whatever the bounds are.
THEOREM PullTypeCorrect == PullSpec => []PullTypeOK
<1>1. PullInit => PullTypeOK
  <2> SUFFICES ASSUME PullInit PROVE PullTypeOK
    OBVIOUS
  <2> USE DEF PullInit
  <2>1. after \in [at : Nat, id : Nat]
    BY DEF NoKey
  <2>2. stamp \in [Ids -> Nat] /\ writer \in [Writers -> Nat]
    OBVIOUS
  <2>3. pulling \in BOOLEAN /\ done \in BOOLEAN
    OBVIOUS
  <2>4. clock \in Nat \ {0} /\ cursor \in Nat /\ since \in Nat /\ newest \in Nat
    OBVIOUS
  <2>5. got \in SUBSET Ids /\ unread \in SUBSET Ids /\ before \in SUBSET Ids
    OBVIOUS
  <2> QED
    BY <2>1, <2>2, <2>3, <2>4, <2>5 DEF PullTypeOK
<1>2. PullTypeOK /\ [PullNext]_pullVars => PullTypeOK'
  <2> SUFFICES ASSUME PullTypeOK, [PullNext]_pullVars PROVE PullTypeOK'
    OBVIOUS
  <2> USE PullAssumption DEF PullTypeOK
  <2>1. ASSUME NEW w \in Writers, BeginTxn(w) PROVE PullTypeOK'
    BY <2>1 DEF BeginTxn, pass
  <2>2. ASSUME NEW w \in Writers, NEW rows \in SUBSET Ids, CommitTxn(w, rows) PROVE PullTypeOK'
    BY <2>2 DEF CommitTxn
  <2>3. ASSUME NEW w \in Writers, AbortTxn(w) PROVE PullTypeOK'
    BY <2>3 DEF AbortTxn, pass
  <2>4. CASE Tick
    BY <2>4 DEF Tick, pass
  <2>5. CASE StartPull
    BY <2>5 DEF StartPull, server, NoKey
  <2>6. CASE ReadPage
    <3>1. PICK page \in SUBSET Wanted :
            /\ got' = got \cup page
            /\ \/ after' = after /\ done' = TRUE
               \/ /\ done' = FALSE
                  /\ \E i \in page : IsLastOf(page, i) /\ after' = [at |-> stamp[i], id |-> i]
            /\ \/ page = {} /\ newest' = newest
               \/ \E i \in page : IsLastOf(page, i) /\ newest' = Larger(newest, stamp[i])
      BY <2>6 DEF ReadPage
    <3>2. page \subseteq Ids
      BY DEF Wanted, Stored
    <3>3. after' \in [at : Nat, id : Nat] /\ done' \in BOOLEAN
      <4>1. ASSUME NEW i \in page PROVE [at |-> stamp[i], id |-> i] \in [at : Nat, id : Nat]
        BY <3>2
      <4> QED
        BY <3>1, <4>1
    <3>4. newest' \in Nat
      BY <3>1, <3>2 DEF Larger
    <3> QED
      BY <2>6, <3>1, <3>2, <3>3, <3>4 DEF ReadPage, server
  <2>7. CASE FinishPull
    BY <2>7 DEF FinishPull, PassOver, server, nextCursor, Larger, NoKey
  <2>8. CASE FailPull
    BY <2>8 DEF FailPull, PassOver, server, NoKey
  <2>9. CASE ReaderChanged
    BY <2>9 DEF ReaderChanged, server, pass, Stored
  <2>10. CASE UNCHANGED pullVars
    BY <2>10 DEF pullVars, server, pass
  <2> QED
    BY <2>1, <2>2, <2>3, <2>4, <2>5, <2>6, <2>7, <2>8, <2>9, <2>10 DEF PullNext
<1> QED
  BY <1>1, <1>2, PTL DEF PullSpec

-----------------------------------------------------------------------------
\* What a request of readTable returns: a row of this phone's interest that the
\* pull had not gone past is in the page or still ahead of the next one.
LEMMA PageLosesNothing ==
  ASSUME PullTypeOK, NothingMissed, ReadPage,
         NEW i \in unread, stamp[i] # 0, i \notin got', ~Past(i)
  PROVE  ~Past(i)'
<1> USE DEF PullTypeOK
<1>1. PICK page \in SUBSET Wanted :
        /\ IsPage(page, Wanted)
        /\ got' = got \cup page
        /\ \/ Cardinality(page) < PageSize /\ done' = TRUE /\ after' = after
           \/ /\ done' = FALSE
              /\ \E k \in page : IsLastOf(page, k) /\ after' = [at |-> stamp[k], id |-> k]
  BY DEF ReadPage
<1>2. i \in Wanted
  BY DEF Wanted, Stored, NothingMissed, Past
<1>3. i \notin page
  BY <1>1
<1>4. page # Wanted /\ Cardinality(page) = PageSize
  BY <1>1, <1>2, <1>3 DEF IsPage
<1>5. PICK k \in page : done' = FALSE /\ after' = [at |-> stamp[k], id |-> k]
  BY <1>1, <1>4, PullAssumption
<1>6. KeyAfter(stamp[i], i, [at |-> stamp[k], id |-> k])
  BY <1>1, <1>2, <1>3, <1>5 DEF IsPage
<1>7. stamp' = stamp
  BY DEF ReadPage, server
<1> QED
  BY <1>5, <1>6, <1>7 DEF Past, KeyAfter

\* Times stay within their limits.
LEMMA PullClockStep == PullTypeOK /\ PullClock /\ [PullNext]_pullVars => PullClock'
<1> SUFFICES ASSUME PullTypeOK, PullClock, [PullNext]_pullVars PROVE PullClock'
  OBVIOUS
<1> USE PullAssumption DEF PullTypeOK, PullClock
<1>1. ASSUME NEW w \in Writers, BeginTxn(w) PROVE PullClock'
  BY <1>1 DEF BeginTxn, pass
<1>2. ASSUME NEW w \in Writers, NEW rows \in SUBSET Ids, CommitTxn(w, rows) PROVE PullClock'
  BY <1>2 DEF CommitTxn
<1>3. ASSUME NEW w \in Writers, AbortTxn(w) PROVE PullClock'
  BY <1>3 DEF AbortTxn, pass
<1>4. CASE Tick
  BY <1>4 DEF Tick, pass
<1>5. CASE StartPull
  BY <1>5 DEF StartPull, server
<1>6. CASE ReadPage
  <2>1. newest' <= clock
    <3>1. Wanted \subseteq Ids
      BY DEF Wanted, Stored
    <3> QED
      BY <1>6, <3>1 DEF ReadPage, Larger
  <2> QED
    BY <1>6, <2>1 DEF ReadPage, server
<1>7. CASE FinishPull
  BY <1>7 DEF FinishPull, PassOver, server, nextCursor, Larger
<1>8. CASE FailPull
  BY <1>8 DEF FailPull, PassOver, server
<1>9. CASE ReaderChanged
  BY <1>9 DEF ReaderChanged, server, pass
<1>10. CASE UNCHANGED pullVars
  BY <1>10 DEF pullVars, server, pass
<1> QED
  BY <1>1, <1>2, <1>3, <1>4, <1>5, <1>6, <1>7, <1>8, <1>9, <1>10 DEF PullNext

\* Every step of the server and of the pull keeps the inductive invariant.
LEMMA PullInvStep ==
  ASSUME Margin, PullInv, [PullNext]_pullVars, PullTypeOK', PullClock'
  PROVE  /\ (\A i \in unread : stamp[i] # 0)'
         /\ NothingMissed' /\ PastIsRecent'
         /\ (pulling => Ahead)'
<1> DEFINE Goal == /\ (\A i \in unread : stamp[i] # 0)'
                   /\ NothingMissed' /\ PastIsRecent'
                   /\ (pulling => Ahead)'
<1> USE PullAssumption DEF PullInv, PullTypeOK, Margin
<1>1. ASSUME NEW w \in Writers, BeginTxn(w) PROVE Goal
  BY <1>1 DEF BeginTxn, pass, NothingMissed, PastIsRecent, Ahead, Past, KeyAfter
<1>2. ASSUME NEW w \in Writers, NEW rows \in SUBSET Ids, CommitTxn(w, rows) PROVE Goal
  <2> USE <1>2 DEF CommitTxn
  <2>1. \A i \in rows : stamp'[i] = writer[w]
    OBVIOUS
  <2>2. \A i \in Ids \ rows : stamp'[i] = stamp[i]
    OBVIOUS
  <2>3. writer[w] \in Nat /\ writer[w] # 0 /\ clock <= writer[w] + MaxTxn
    BY DEF PullClock
  <2>4. (\A i \in unread : stamp[i] # 0)'
    BY <2>1, <2>2, <2>3
  <2>5. NothingMissed'
    <3> SUFFICES ASSUME NEW i \in unread' PROVE stamp'[i] >= cursor - Overlap
      BY DEF NothingMissed
    <3>1. CASE i \in rows
      BY <3>1, <2>1, <2>3 DEF PullClock
    <3>2. CASE i \notin rows
      BY <3>2, <2>2 DEF NothingMissed
    <3> QED
      BY <3>1, <3>2
  <2>6. PastIsRecent'
    <3> SUFFICES ASSUME pulling, NEW i \in unread' \ got', Past(i)'
                 PROVE  stamp'[i] + MaxTxn >= since
      BY DEF PastIsRecent
    <3>1. CASE i \in rows
      BY <3>1, <2>1, <2>3 DEF PullClock
    <3>2. CASE i \notin rows
      BY <3>2, <2>2 DEF PastIsRecent, Past
    <3> QED
      BY <3>1, <3>2
  <2>7. (pulling => Ahead)'
    BY <2>2 DEF Ahead, Past
  <2> QED
    BY <2>4, <2>5, <2>6, <2>7
<1>3. ASSUME NEW w \in Writers, AbortTxn(w) PROVE Goal
  BY <1>3 DEF AbortTxn, pass, NothingMissed, PastIsRecent, Ahead, Past, KeyAfter
<1>4. CASE Tick
  BY <1>4 DEF Tick, pass, NothingMissed, PastIsRecent, Ahead, Past, KeyAfter
<1>5. CASE StartPull
  BY <1>5 DEF StartPull, server, NothingMissed, PastIsRecent, Ahead, Past
<1>6. CASE ReadPage
  <2>1. stamp' = stamp /\ unread' = unread /\ cursor' = cursor /\ before' = before
        /\ since' = since /\ pulling /\ got \subseteq got'
    BY <1>6 DEF ReadPage, server
  <2>2. \A i \in unread : i \notin got' /\ ~Past(i) => ~Past(i)'
    BY <1>6, PageLosesNothing
  <2>3. (\A i \in unread : stamp[i] # 0)' /\ NothingMissed'
    BY <2>1 DEF NothingMissed
  <2>4. PastIsRecent'
    BY <2>1, <2>2 DEF PastIsRecent
  <2>5. (pulling => Ahead)'
    BY <2>1, <2>2 DEF Ahead
  <2> QED
    BY <2>3, <2>4, <2>5
<1>7. CASE FinishPull
  <2>1. pulling /\ done /\ ~pulling' /\ stamp' = stamp /\ unread' = unread \ got
        /\ cursor' = Larger(cursor, newest)
    BY <1>7 DEF FinishPull, PassOver, server, nextCursor
  <2>2. ASSUME NEW i \in unread \ got PROVE stamp[i] >= cursor' - Overlap
    <3>1. stamp[i] + MaxTxn >= since
      BY <2>1, <2>2 DEF PastIsRecent, Past
    <3>2. newest <= since + MaxPull
      BY <2>1 DEF PullClock
    <3>3. stamp[i] >= newest - Overlap
      BY <3>1, <3>2
    <3>4. stamp[i] >= cursor - Overlap
      BY <2>2 DEF NothingMissed
    <3> QED
      BY <2>1, <3>3, <3>4 DEF Larger
  <2> QED
    BY <2>1, <2>2 DEF NothingMissed, PastIsRecent
<1>8. CASE FailPull
  BY <1>8 DEF FailPull, PassOver, server, NothingMissed, PastIsRecent
<1>9. CASE ReaderChanged
  BY <1>9 DEF ReaderChanged, server, pass, Stored, NothingMissed, PastIsRecent, Ahead, Past, KeyAfter
<1>10. CASE UNCHANGED pullVars
  BY <1>10 DEF pullVars, server, pass, NothingMissed, PastIsRecent, Ahead, Past, KeyAfter
<1> QED
  BY <1>1, <1>2, <1>3, <1>4, <1>5, <1>6, <1>7, <1>8, <1>9, <1>10 DEF PullNext

\* PullInv: the strengthened invariant holds throughout, under the margin.
THEOREM PullInductive == ASSUME Margin PROVE PullSpec => []PullInv
<1>1. PullInit /\ PullTypeOK => PullInv
  BY DEF PullInit, PullInv, PullClock, NothingMissed, PastIsRecent, Ahead, NoKey
<1>2. PullInv /\ PullTypeOK' /\ [PullNext]_pullVars => PullInv'
  BY PullClockStep, PullInvStep DEF PullInv
<1> QED
  BY <1>1, <1>2, PullTypeCorrect, PTL DEF PullSpec

\* NothingMissed: with the margin, every row version the account holds and this
\* phone never received is still within reach of the next pull.
THEOREM NeverMissed == ASSUME Margin PROVE PullSpec => []NothingMissed
<1>1. PullInv => NothingMissed
  BY DEF PullInv
<1> QED
  BY <1>1, PullInductive, PTL

\* PullComplete: with the margin, a pull that read its last page has read every
\* version committed before it began, despite rewrites between its pages.
THEOREM AlwaysComplete == ASSUME Margin PROVE PullSpec => []PullComplete
<1>1. PullInv => PullComplete
  BY DEF PullInv, PullComplete, Ahead, Past
<1> QED
  BY <1>1, PullInductive, PTL

-----------------------------------------------------------------------------
(* The erasure of an account.                                                *)

Deciding == {"exchange", "revoke", "delete"}
Sending == {"send", "waits", "again", "waitsAgain"}
Waiting == {"waits", "waitsAgain"}

Asks == [pc : {"off", "sent", "reads", "exchange", "revoke", "delete", "answered"},
         code : 0 .. MaxAttempts, foreign : BOOLEAN, claims : BOOLEAN,
         lookup : {"asked", "failed", "null", "apple", "google"},
         session : {"asked", "failed", "user_gone", "alive"},
         unrevoked : BOOLEAN, lived : BOOLEAN,
         answer : {"none", "failed", "deleted", "unrevoked"}]
Works == [pc : {"idle", "reauth"} \cup Sending, on : Requests \cup {NoRequest},
          finishing : BOOLEAN, code : 0 .. MaxAttempts, foreign : BOOLEAN]
Phones == [work : Works, session : {"in", "signedOut", "ended", "gone", "deleted", "unrevoked"},
           deletion : {"idle", "deleting", "failed"}, mark : BOOLEAN, unfinished : BOOLEAN,
           revoked : BOOLEAN, claims : BOOLEAN]

Types ==
    /\ account \in [exists : BOOLEAN, apple : BOOLEAN, google : BOOLEAN, session : BOOLEAN]
    /\ grant \in [own : BOOLEAN, other : BOOLEAN]
    /\ spent \subseteq 1 .. MaxAttempts /\ attempts \in 0 .. MaxAttempts
    /\ req \in [Requests -> Asks] /\ phone \in Phones
    /\ past \in [code : BOOLEAN, asked : BOOLEAN]

\* The phone's own bookkeeping of a deletion.
PhoneInv ==
    /\ phone.deletion = "deleting" <=> phone.work.pc # "idle"
    /\ phone.work.pc # "idle" => SignedIn
    /\ phone.work.pc \in Waiting => phone.work.on \in Requests
    /\ phone.unfinished => phone.deletion = "failed" /\ SignedIn

\* A request acts on what it read, and what it read of a session that lives now
\* or of a user that is gone it may rely on for good.
GroundedAs(r, acct) ==
    /\ r.pc = "sent" => r.session = "asked"
    /\ r.lookup = "null" \/ r.session = "user_gone" => ~acct.exists
    /\ r.lookup = "apple" => acct.apple
    /\ r.lookup = "google" => ~acct.apple
    /\ (r.pc = "reads" /\ acct.session) \/ r.session = "alive" => r.lived
    /\ r.pc \in Deciding => r.lived
    /\ r.pc \in {"exchange", "revoke"} => r.code # 0
    /\ r.pc = "revoke" => ~r.foreign
    /\ r.answer \in {"deleted", "unrevoked"} => ~acct.exists
    /\ r.pc = "answered" => r.answer # "none"
Grounded(q) == GroundedAs(req[q], account)

ErasureInv == Types /\ PhoneInv /\ \A q \in Requests : Grounded(q)

\* The account is never made again, its session never comes back, and its
\* identities stay what they are.
LEMMA AccountFades ==
    ASSUME Types, [ErasureNext]_erasureVars
    PROVE  /\ account' \in [exists : BOOLEAN, apple : BOOLEAN, google : BOOLEAN, session : BOOLEAN]
           /\ account'.apple = account.apple
           /\ account'.exists => account.exists
           /\ account'.session => account.session
<1> SUFFICES ASSUME account' # account
             PROVE  /\ account' \in [exists : BOOLEAN, apple : BOOLEAN, google : BOOLEAN,
                                      session : BOOLEAN]
                    /\ account'.apple = account.apple
                    /\ account'.exists => account.exists
                    /\ account'.session => account.session
  BY DEF Types
<1>1. \/ account' = [account EXCEPT !.exists = FALSE, !.session = FALSE]
      \/ account' = [account EXCEPT !.session = FALSE]
  BY DEF ErasureNext, erasureVars, WorkerGoesOn, WorkerFails, DeletionGoesOn, Refuse, Verify, getAccount,
     confirmSession, Exchange, ExchangeFails, Revoke, RevokeFails, deleteUser, DeleteFails,
     deleteAccount, ReauthorizeEnds, reauthorizeDeletion, request, endSession, Failed,
     AnswerArrives, FirstLost, SecondLost, Unheard, SeesRevoked, endRevokedSession, signOut,
     foregroundGone, ProcessEnds, PersonRevokes
<1> QED
  BY <1>1 DEF Types

\* What a request that stands still or starts anew is.
LEMMA OffFacts == Off \in Asks /\ Idle \in Works
BY ErasureAssumption DEF Off, Idle, Asks, Works, Sending

\* What the handler makes of a request once it has read this much.
Decided(was, lookup, session, r) ==
    \/ /\ r.pc = "reads" /\ r.lookup = lookup /\ r.session = session
       /\ r.lived = was.lived /\ r.claims = was.claims /\ r.answer = was.answer
    \/ r = [Off EXCEPT !.pc = "answered", !.answer = "failed"]
    \/ /\ lookup = "null" \/ session = "user_gone"
       /\ r = [Off EXCEPT !.pc = "answered", !.answer = IF was.claims THEN "unrevoked" ELSE "deleted"]
    \/ /\ lookup \in {"apple", "google"} /\ session = "alive"
       /\ r.lookup = lookup /\ r.session = session /\ r.lived = was.lived /\ r.answer = was.answer
       /\ \/ r.pc = "exchange" /\ lookup = "apple" /\ r.code # 0
          \/ r.pc = "delete" /\ r.unrevoked = (lookup = "apple")

LEMMA DecideFacts ==
    ASSUME Types, NEW q \in Requests, req[q].pc = "reads",
           NEW lookup \in {"asked", "failed", "null", "apple", "google"},
           NEW session \in {"asked", "failed", "user_gone", "alive"},
           Decide(q, lookup, session)
    PROVE  \E r \in Asks : req' = [req EXCEPT ![q] = r] /\ Decided(req[q], lookup, session, r)
<1>1. req[q] \in Asks /\ req \in [Requests -> Asks]
  BY DEF Types
<1>2. CASE Waits(q, lookup, session)
  <2> DEFINE r == [req[q] EXCEPT !.lookup = lookup, !.session = session]
  <2>1. r \in Asks /\ Decided(req[q], lookup, session, r)
    BY <1>1 DEF Asks, Decided
  <2>2. req' = [req EXCEPT ![q] = r]
    BY <1>1, <1>2 DEF Waits
  <2> QED
    BY <2>1, <2>2
<1>3. CASE Answers(q, "failed")
  <2> DEFINE r == [Off EXCEPT !.pc = "answered", !.answer = "failed"]
  <2>1. r \in Asks /\ req' = [req EXCEPT ![q] = r]
    BY <1>3, OffFacts DEF Answers, Asks
  <2> QED
    BY <2>1 DEF Decided
<1>4. CASE /\ lookup = "null" \/ session = "user_gone"
           /\ Answers(q, IF req[q].claims THEN "unrevoked" ELSE "deleted")
  <2> DEFINE r == [Off EXCEPT !.pc = "answered",
                              !.answer = IF req[q].claims THEN "unrevoked" ELSE "deleted"]
  <2>1. r \in Asks /\ req' = [req EXCEPT ![q] = r]
    BY <1>4, OffFacts DEF Answers, Asks
  <2> QED
    BY <1>4, <2>1 DEF Decided
<1>5. CASE lookup \in {"apple", "google"} /\ session = "alive" /\ Erases(q, lookup, session)
  <2> DEFINE revokes == lookup = "apple" /\ req[q].code # 0
             next == IF revokes THEN "exchange" ELSE "delete"
             kept == lookup = "apple" /\ ~revokes
             r == [req[q] EXCEPT !.lookup = lookup, !.session = session,
                                 !.pc = next, !.unrevoked = kept]
  <2>0. next \in {"exchange", "delete"} /\ kept \in BOOLEAN
    OBVIOUS
  <2>1. r \in Asks
    <3> HIDE DEF next, kept
    <3> QED
      BY <1>1, <2>0 DEF Asks
  <2>2. req' = [req EXCEPT ![q] = r]
    BY <1>1, <1>5 DEF Erases
  <2>3. Decided(req[q], lookup, session, r)
    BY <1>1, <1>5 DEF Asks, Decided
  <2> QED
    BY <2>1, <2>2, <2>3
<1> QED
  BY <1>2, <1>3, <1>4, <1>5 DEF Decide

\* A grounded request stays so while the account fades.
LEMMA StaysGrounded ==
    ASSUME Types, [ErasureNext]_erasureVars, NEW r \in Asks, GroundedAs(r, account)
    PROVE  GroundedAs(r, account')
<1>1. account' \in [exists : BOOLEAN, apple : BOOLEAN, google : BOOLEAN, session : BOOLEAN]
      /\ account'.apple = account.apple /\ (account'.exists => account.exists)
      /\ (account'.session => account.session)
  BY AccountFades DEF Types
<1> QED
  BY <1>1 DEF GroundedAs, Types

\* The answer of a failed call, and a request that is no more.
LEMMA EmptyGrounded ==
    ASSUME NEW acct
    PROVE  LET r == [Off EXCEPT !.pc = "answered", !.answer = "failed"]
           IN  Off \in Asks /\ GroundedAs(Off, acct) /\ r \in Asks /\ GroundedAs(r, acct)
<1>1. Off \in Asks
  BY OffFacts
<1> QED
  BY <1>1, ErasureAssumption DEF Off, GroundedAs, Asks, Deciding

\* One step of the Worker turns one request into another that is grounded.
LEMMA WorkerStep ==
    ASSUME ErasureInv, NEW q \in Requests, ErasureNext,
           WorkerGoesOn(q) \/ WorkerFails(q) \/ Unheard(q)
    PROVE  \E r \in Asks : req' = [req EXCEPT ![q] = r] /\ GroundedAs(r, account')
<1> USE DEF ErasureInv, Grounded
<1>0. req[q] \in Asks /\ req \in [Requests -> Asks] /\ GroundedAs(req[q], account)
  BY DEF Types
<1>2. CASE Refuse(q) \/ ExchangeFails(q) \/ RevokeFails(q) \/ DeleteFails(q) \/ Unheard(q)
  BY <1>2, EmptyGrounded DEF Refuse, ExchangeFails, RevokeFails, DeleteFails, Unheard, Answers
<1>3. CASE Verify(q)
  <2> DEFINE r == [req[q] EXCEPT !.pc = "reads", !.lived = account.session]
  <2>1. r \in Asks /\ req' = [req EXCEPT ![q] = r]
    BY <1>0, <1>3 DEF Verify, Asks, Types
  <2>2. account' = account
    BY <1>3 DEF Verify
  <2>3. GroundedAs(r, account')
    BY <1>0, <1>3, <2>2 DEF Verify, GroundedAs, Asks, Deciding, Types
  <2> QED
    BY <2>1, <2>3
<1>4. CASE getAccount(q) \/ confirmSession(q)
  <2>1. account' = account /\ req[q].pc = "reads"
    BY <1>4 DEF getAccount, confirmSession
  <2>2. PICK lookup \in {"asked", "failed", "null", "apple", "google"},
             session \in {"asked", "failed", "user_gone", "alive"} :
           /\ Decide(q, lookup, session)
           /\ lookup = "null" \/ session = "user_gone" => ~account.exists
           /\ lookup = "apple" => account.apple
           /\ lookup = "google" => ~account.apple
           /\ session = "alive" => req[q].lived
    <3>1. CASE getAccount(q)
      <4>1. PICK lookup \in {"failed", IF ~account.exists THEN "null"
                              ELSE IF account.apple THEN "apple" ELSE "google"} :
              Decide(q, lookup, req[q].session)
        BY <3>1 DEF getAccount
      <4> QED
        BY <1>0, <4>1 DEF GroundedAs, Asks
    <3>2. CASE confirmSession(q)
      <4>1. PICK session \in {"failed", IF ~account.exists THEN "user_gone"
                              ELSE IF account.session THEN "alive" ELSE "failed"} :
              Decide(q, req[q].lookup, session)
        BY <3>2 DEF confirmSession
      <4> QED
        BY <1>0, <2>1, <4>1 DEF GroundedAs, Asks
    <3> QED
      BY <1>4, <3>1, <3>2
  <2>3. PICK r \in Asks : req' = [req EXCEPT ![q] = r] /\ Decided(req[q], lookup, session, r)
    BY <2>1, <2>2, DecideFacts
  <2>4. GroundedAs(r, account')
    <3>1. CASE \/ r = [Off EXCEPT !.pc = "answered", !.answer = "failed"]
               \/ r = [Off EXCEPT !.pc = "answered", !.answer = "unrevoked"]
               \/ r = [Off EXCEPT !.pc = "answered", !.answer = "deleted"]
      <4>1. /\ r.pc = "answered" /\ r.lookup = "asked" /\ r.session = "asked"
            /\ r.answer \in {"failed", "unrevoked", "deleted"}
        BY <3>1 DEF Off
      <4>2. r.answer # "failed" => lookup = "null" \/ session = "user_gone"
        BY <2>1, <2>3, <4>1, <1>0 DEF Decided, GroundedAs, Off
      <4> QED
        BY <2>1, <2>2, <4>1, <4>2 DEF GroundedAs, Deciding
    <3>2. CASE ~(\/ r = [Off EXCEPT !.pc = "answered", !.answer = "failed"]
                 \/ r = [Off EXCEPT !.pc = "answered", !.answer = "unrevoked"]
                 \/ r = [Off EXCEPT !.pc = "answered", !.answer = "deleted"])
      <4>1. CASE r.pc = "reads" /\ r.lookup = lookup /\ r.session = session
                 /\ r.lived = req[q].lived /\ r.answer = req[q].answer
        BY <1>0, <2>1, <2>2, <4>1 DEF GroundedAs, Deciding
      <4>2. CASE /\ lookup \in {"apple", "google"} /\ session = "alive" /\ r.lookup = lookup
                 /\ r.session = session /\ r.lived = req[q].lived /\ r.answer = req[q].answer
                 /\ r.pc \in {"exchange", "delete"} /\ (r.pc = "exchange" => r.code # 0)
        BY <1>0, <2>1, <2>2, <4>2 DEF GroundedAs, Deciding
      <4> QED
        BY <2>3, <3>2, <4>1, <4>2 DEF Decided
    <3> QED
      BY <3>1, <3>2
  <2> QED
    BY <2>3, <2>4
<1>5. CASE Exchange(q)
  <2> DEFINE r == IF req[q].code \in spent \/ req[q].foreign
                  THEN [req[q] EXCEPT !.pc = "delete", !.unrevoked = TRUE]
                  ELSE [req[q] EXCEPT !.pc = "revoke"]
  <2>1. r \in Asks /\ req' = [req EXCEPT ![q] = r] /\ account' = account
    BY <1>0, <1>5 DEF Exchange, Goes, Asks
  <2>2. GroundedAs(r, account')
    BY <1>0, <1>5, <2>1 DEF Exchange, GroundedAs, Asks, Deciding
  <2> QED
    BY <2>1, <2>2
<1>6. CASE Revoke(q)
  <2> DEFINE r == [req[q] EXCEPT !.pc = "delete"]
  <2>1. r \in Asks /\ req' = [req EXCEPT ![q] = r] /\ account' = account
    BY <1>0, <1>6 DEF Revoke, Goes, Asks
  <2>2. GroundedAs(r, account')
    BY <1>0, <1>6, <2>1 DEF Revoke, GroundedAs, Asks, Deciding
  <2> QED
    BY <2>1, <2>2
<1>7. CASE deleteUser(q)
  <2> DEFINE r == [Off EXCEPT !.pc = "answered",
                              !.answer = IF req[q].unrevoked THEN "unrevoked" ELSE "deleted"]
  <2>1. r \in Asks /\ req' = [req EXCEPT ![q] = r]
    BY <1>7, OffFacts DEF deleteUser, Answers, Asks
  <2>2. ~account'.exists
    BY <1>7 DEF deleteUser, Types
  <2>3. GroundedAs(r, account')
    BY <2>1, <2>2 DEF GroundedAs, Off, Asks, Deciding
  <2> QED
    BY <2>1, <2>3
<1> QED
  BY <1>2, <1>3, <1>4, <1>5, <1>6, <1>7 DEF WorkerGoesOn, WorkerFails

\* The phone goes idle after a failed attempt, or ends its session.
LEMMA FailedFacts ==
    ASSUME ErasureInv, phone.work.pc \in Waiting, Failed
    PROVE  /\ phone' \in Phones /\ phone'.work = Idle
           /\ \/ /\ phone.work.finishing /\ phone'.session = "ended" /\ ~phone'.unfinished
                 /\ phone'.deletion = "idle"
              \/ /\ ~phone.work.finishing /\ phone'.session = phone.session
                 /\ phone'.deletion = "failed" /\ phone'.claims = phone.claims
                 /\ phone'.unfinished = (phone.work.code # 0)
<1>1. phone \in Phones /\ Idle \in Works
  BY OffFacts DEF ErasureInv, Types
<1>2. CASE phone.work.finishing
  BY <1>1, <1>2 DEF Failed, endSession, Out, Phones
<1>3. CASE ~phone.work.finishing
  <2>1. phone' = [phone EXCEPT !.work = Idle, !.deletion = "failed",
                               !.unfinished = phone.work.code # 0]
    BY <1>3 DEF Failed
  <2>2. phone' \in Phones
    BY <1>1, <2>1 DEF Phones
  <2> QED
    BY <1>1, <1>3, <2>1, <2>2 DEF Phones
<1> QED
  BY <1>2, <1>3

\* Every action leaves the phone's bookkeeping right.
LEMMA PhoneStep ==
    ASSUME ErasureInv, ErasureNext
    PROVE  phone' \in Phones /\ PhoneInv'
<1>1. phone \in Phones /\ Idle \in Works /\ Idle.pc = "idle" /\ attempts \in 0 .. MaxAttempts
  BY OffFacts DEF ErasureInv, Types, Idle
<1> USE DEF ErasureInv, PhoneInv, SignedIn, Sending, Waiting
<1>2. CASE deleteAccount
  BY <1>1, <1>2 DEF deleteAccount, Phones, Works
<1>3. CASE ReauthorizeEnds
  BY <1>1, <1>3 DEF ReauthorizeEnds, Phones, Works
<1>4. CASE reauthorizeDeletion
  <2>1. PICK code \in {0, attempts}, foreign \in BOOLEAN, claims \in BOOLEAN :
           phone' = [phone EXCEPT !.claims = claims,
                       !.work = [@ EXCEPT !.pc = "send", !.code = code, !.foreign = foreign]]
    BY <1>4 DEF reauthorizeDeletion
  <2>2. [phone.work EXCEPT !.pc = "send", !.code = code, !.foreign = foreign] \in Works
    <3>1. code \in 0 .. MaxAttempts
      BY <1>1, ErasureAssumption
    <3>2. phone.work \in Works
      BY <1>1 DEF Phones
    <3> QED
      BY <3>1, <3>2 DEF Works
  <2>3. phone.work.pc = "reauth"
    BY <1>4 DEF reauthorizeDeletion
  <2> QED
    BY <1>1, <2>1, <2>2, <2>3 DEF Phones, Works
<1>5. CASE FirstLost
  BY <1>1, <1>5 DEF FirstLost, Phones, Works
<1>6. CASE SecondLost
  BY <1>1, <1>6, FailedFacts DEF SecondLost
<1>7. CASE SeesRevoked
  BY <1>1, <1>7 DEF SeesRevoked, Phones, Works
<1>8. CASE endRevokedSession
  <2> DEFINE work == [Idle EXCEPT !.pc = "send", !.finishing = TRUE]
  <2>1. work \in Works /\ work.pc = "send"
    BY <1>1 DEF Works
  <2>2. CASE phone' = [phone EXCEPT !.unfinished = FALSE, !.deletion = "deleting",
                                    !.revoked = FALSE, !.work = work]
    BY <1>1, <1>8, <2>1, <2>2 DEF endRevokedSession, Phones
  <2>3. CASE phone' = Out("ended")
    BY <1>1, <2>3 DEF Out, Phones, Works
  <2> QED
    BY <1>8, <2>2, <2>3 DEF endRevokedSession, endSession
<1>9. CASE signOut \/ foregroundGone
  <2>1. phone' \in {Out("signedOut"), Out("gone")}
    BY <1>9 DEF signOut, foregroundGone, endSession
  <2>2. phone' \in Phones /\ phone'.work = Idle /\ phone'.deletion = "idle" /\ ~phone'.unfinished
    BY <1>1, <2>1 DEF Out, Phones
  <2> QED
    BY <1>1, <2>2
<1>10. CASE ProcessEnds
  BY <1>1, <1>10 DEF ProcessEnds, Phones, Works
<1>11. CASE request
  <2>1. PICK q \in Requests : phone' = [phone EXCEPT !.work.on = q,
                     !.work.pc = IF @ = "send" THEN "waits" ELSE "waitsAgain"]
    BY <1>11 DEF request
  <2>2. phone' = [phone EXCEPT !.work = [phone.work EXCEPT !.on = q,
                     !.pc = IF phone.work.pc = "send" THEN "waits" ELSE "waitsAgain"]]
    BY <1>1, <2>1 DEF Phones, Works
  <2>3. [phone.work EXCEPT !.on = q,
            !.pc = IF phone.work.pc = "send" THEN "waits" ELSE "waitsAgain"] \in Works
    BY <1>1 DEF Phones, Works
  <2>4. phone.work.pc \in {"send", "again"}
    BY <1>11 DEF request
  <2> QED
    BY <1>1, <2>2, <2>3, <2>4 DEF Phones, Works
<1>12. CASE AnswerArrives
  <2>1. Failed \/ \E answer \in {"deleted", "unrevoked"} : phone' = Out(answer)
    <3>1. phone.work.on \in Requests
      BY <1>12 DEF AnswerArrives
    <3>2. req[phone.work.on] \in Asks /\ req[phone.work.on].answer # "none"
      BY <1>12, <3>1 DEF Types, Grounded, GroundedAs, AnswerArrives
    <3> QED
      BY <1>12, <3>2 DEF AnswerArrives, Asks
  <2>2. CASE Failed
    BY <1>1, <1>12, <2>2, FailedFacts DEF AnswerArrives
  <2>3. CASE \E answer \in {"deleted", "unrevoked"} : phone' = Out(answer)
    <3>1. phone' \in Phones /\ phone'.work = Idle /\ phone'.deletion = "idle" /\ ~phone'.unfinished
      BY <1>1, <2>3 DEF Out, Phones
    <3> QED
      BY <1>1, <3>1
  <2> QED
    BY <2>1, <2>2, <2>3
<1>13. CASE UNCHANGED phone
  BY <1>1, <1>13
<1> QED
  BY <1>2, <1>3, <1>4, <1>5, <1>6, <1>7, <1>8, <1>9, <1>10, <1>11, <1>12, <1>13
  DEF ErasureNext, DeletionGoesOn, PersonRevokes, WorkerGoesOn, WorkerFails, Refuse, Verify, getAccount,
     confirmSession, Exchange, ExchangeFails, Revoke, RevokeFails, deleteUser, DeleteFails, Unheard

\* A request the phone makes is grounded.
LEMMA AskedFacts ==
    ASSUME Types, NEW acct
    PROVE  LET r == Asked(phone.work, phone.claims)
           IN  /\ r \in Asks /\ GroundedAs(r, acct)
               /\ r.pc = "sent" /\ r.answer = "none" /\ r.claims = phone.claims
<1>1. phone.work \in Works /\ phone.claims \in BOOLEAN
  BY DEF Types, Phones
<1> QED
  BY <1>1, ErasureAssumption DEF Asked, Off, GroundedAs, Asks, Works, Deciding

\* How the requests move: one at a time, and to what is grounded.
LEMMA RequestStep ==
    ASSUME ErasureInv, [ErasureNext]_erasureVars
    PROVE  req' \in [Requests -> Asks] /\ \A q \in Requests : Grounded(q)'
<1>1. req \in [Requests -> Asks] /\ \A q \in Requests : GroundedAs(req[q], account)
  BY DEF ErasureInv, Types, Grounded
<1>2. \A q \in Requests : GroundedAs(req[q], account')
  BY <1>1, StaysGrounded DEF ErasureInv
<1> SUFFICES ASSUME req' # req
             PROVE  req' \in [Requests -> Asks] /\ \A q \in Requests : GroundedAs(req'[q], account')
  BY <1>1, <1>2 DEF Grounded
<1>3. PICK q \in Requests, r \in Asks : req' = [req EXCEPT ![q] = r] /\ GroundedAs(r, account')
  <2>1. CASE \E q \in Requests : WorkerGoesOn(q) \/ WorkerFails(q) \/ Unheard(q)
    BY <2>1, WorkerStep DEF erasureVars
  <2>2. CASE request
    BY <2>2, AskedFacts DEF request, ErasureInv
  <2>3. CASE AnswerArrives
    BY <2>3, EmptyGrounded DEF AnswerArrives, ErasureInv, PhoneInv, Waiting
  <2> QED
    BY <2>1, <2>2, <2>3 DEF ErasureNext, DeletionGoesOn, deleteAccount, ReauthorizeEnds,
       reauthorizeDeletion, FirstLost, SecondLost, SeesRevoked, endRevokedSession, signOut,
       foregroundGone, ProcessEnds, PersonRevokes, erasureVars
<1> QED
  BY <1>1, <1>2, <1>3

\* The invariant holds of every state.
LEMMA ErasureStep ==
    ASSUME ErasureInv, [ErasureNext]_erasureVars
    PROVE  ErasureInv'
<1>1. account' \in [exists : BOOLEAN, apple : BOOLEAN, google : BOOLEAN, session : BOOLEAN]
  BY AccountFades DEF ErasureInv
<1>2. req' \in [Requests -> Asks] /\ \A q \in Requests : Grounded(q)'
  BY RequestStep
<1>3. phone' \in Phones /\ PhoneInv'
  <2>1. CASE ErasureNext
    BY <2>1, PhoneStep
  <2>2. CASE UNCHANGED erasureVars
    BY <2>2 DEF erasureVars, ErasureInv, Types, PhoneInv, SignedIn
  <2> QED
    BY <2>1, <2>2
<1>4. grant' \in [own : BOOLEAN, other : BOOLEAN]
  <2>1. CASE reauthorizeDeletion
    BY <2>1 DEF reauthorizeDeletion, ErasureInv, Types
  <2>2. CASE \E q \in Requests : Revoke(q) \/ RevokeFails(q)
    BY <2>2 DEF Revoke, RevokeFails, Revoked, ErasureInv, Types
  <2>3. CASE PersonRevokes
    BY <2>3 DEF PersonRevokes, ErasureInv, Types
  <2>4. CASE UNCHANGED grant
    BY <2>4 DEF ErasureInv, Types
  <2> QED
    BY <2>1, <2>2, <2>3, <2>4 DEF ErasureNext, erasureVars, WorkerGoesOn, WorkerFails, DeletionGoesOn, Refuse,
       Verify, getAccount, confirmSession, Exchange, ExchangeFails, deleteUser, DeleteFails,
       deleteAccount, ReauthorizeEnds, request, AnswerArrives, FirstLost, SecondLost, Unheard,
       SeesRevoked, endRevokedSession, signOut, foregroundGone, ProcessEnds
<1>5. spent' \subseteq 1 .. MaxAttempts
  <2>1. CASE \E q \in Requests : Exchange(q) \/ ExchangeFails(q)
    <3>1. PICK q \in Requests : Exchange(q) \/ ExchangeFails(q)
      BY <2>1
    <3>2. req[q] \in Asks /\ GroundedAs(req[q], account) /\ req[q].pc = "exchange"
      BY <3>1 DEF ErasureInv, Types, Grounded, Exchange, ExchangeFails
    <3>3. req[q].code \in 1 .. MaxAttempts
      BY <3>2, ErasureAssumption DEF Asks, GroundedAs
    <3> QED
      BY <3>1, <3>3 DEF Exchange, ExchangeFails, ErasureInv, Types
  <2>2. CASE UNCHANGED spent
    BY <2>2 DEF ErasureInv, Types
  <2> QED
    BY <2>1, <2>2 DEF ErasureNext, erasureVars, WorkerGoesOn, WorkerFails, DeletionGoesOn, Refuse, Verify,
       getAccount, confirmSession, Revoke, RevokeFails, deleteUser, DeleteFails, deleteAccount,
       ReauthorizeEnds, reauthorizeDeletion, request, AnswerArrives, FirstLost, SecondLost, Unheard,
       SeesRevoked, endRevokedSession, signOut, foregroundGone, ProcessEnds, PersonRevokes
<1>6. attempts' \in 0 .. MaxAttempts
  <2>1. CASE deleteAccount
    BY <2>1, ErasureAssumption DEF deleteAccount, ErasureInv, Types
  <2>2. CASE UNCHANGED attempts
    BY <2>2 DEF ErasureInv, Types
  <2> QED
    BY <2>1, <2>2 DEF ErasureNext, erasureVars, WorkerGoesOn, WorkerFails, DeletionGoesOn, Refuse, Verify,
       getAccount, confirmSession, Exchange, ExchangeFails, Revoke, RevokeFails, deleteUser,
       DeleteFails, ReauthorizeEnds, reauthorizeDeletion, request, AnswerArrives, FirstLost,
       SecondLost, Unheard, SeesRevoked, endRevokedSession, signOut, foregroundGone, ProcessEnds,
       PersonRevokes
<1>7. past' \in [code : BOOLEAN, asked : BOOLEAN]
  <2>1. CASE deleteAccount \/ ProcessEnds
    <3>1. past' = NothingSent
      BY <2>1 DEF deleteAccount, ProcessEnds
    <3> QED
      BY <3>1 DEF NothingSent
  <2>2. CASE request
    <3>1. PICK code \in BOOLEAN, asked \in BOOLEAN :
             /\ code = (past.code \/ phone.work.code # 0)
             /\ asked = (past.asked \/ phone.work.finishing)
      OBVIOUS
    <3>2. past' = [code |-> code, asked |-> asked]
      BY <2>2, <3>1 DEF request
    <3> QED
      BY <3>2
  <2>3. CASE UNCHANGED past
    BY <2>3 DEF ErasureInv, Types
  <2> QED
    BY <2>1, <2>2, <2>3 DEF ErasureNext, erasureVars, WorkerGoesOn, WorkerFails, DeletionGoesOn, Refuse, Verify,
       getAccount, confirmSession, Exchange, ExchangeFails, Revoke, RevokeFails, deleteUser,
       DeleteFails, ReauthorizeEnds, reauthorizeDeletion, AnswerArrives, FirstLost, SecondLost,
       Unheard, SeesRevoked, endRevokedSession, signOut, foregroundGone, PersonRevokes
<1> QED
  BY <1>1, <1>2, <1>3, <1>4, <1>5, <1>6, <1>7 DEF ErasureInv, Types

LEMMA ErasureInvInit ==
    ASSUME ErasureInit
    PROVE  ErasureInv
<1>1. PICK mark \in BOOLEAN :
         phone = [work |-> Idle, session |-> "in", deletion |-> "idle", mark |-> mark,
                  unfinished |-> FALSE, revoked |-> FALSE, claims |-> FALSE]
  BY DEF ErasureInit
<1>2. phone \in Phones /\ PhoneInv
  BY <1>1, OffFacts DEF Phones, PhoneInv, Idle, SignedIn, Waiting
<1>3. \A q \in Requests : Grounded(q)
  BY EmptyGrounded DEF Grounded, ErasureInit
<1>4. req \in [Requests -> Asks]
  BY OffFacts DEF ErasureInit
<1>5. grant \in [own : BOOLEAN, other : BOOLEAN] /\ past \in [code : BOOLEAN, asked : BOOLEAN]
  BY DEF ErasureInit, NothingSent
<1>6. spent \subseteq 1 .. MaxAttempts /\ attempts \in 0 .. MaxAttempts
  BY ErasureAssumption DEF ErasureInit
<1> QED
  BY <1>2, <1>3, <1>4, <1>5, <1>6 DEF ErasureInit, ErasureInv, Types

\* ErasureTypeOK: every variable has its type.
THEOREM ErasureTypeCorrect == ErasureSpec => []ErasureTypeOK
<1>1. ErasureInv => ErasureTypeOK
  BY DEF ErasureInv, Types, PhoneInv, ErasureTypeOK, Asks, Phones, Works, Sending
<1> QED
  BY <1>1, ErasureInvInit, ErasureStep, PTL DEF ErasureSpec

\* OnlyLiveSessionDeletes: what deletes an account is a request whose session was
\* alive when its token was verified.
THEOREM LiveSessionDeletes == ErasureSpec => OnlyLiveSessionDeletes
<1>1. ErasureInv /\ [ErasureNext]_erasureVars => [account.exists /\ ~account'.exists
                                 => \E q \in Requests : req[q].pc = "delete" /\ req[q].lived]_erasureVars
  <2> SUFFICES ASSUME ErasureInv, ErasureNext, account.exists, ~account'.exists
               PROVE  \E q \in Requests : req[q].pc = "delete" /\ req[q].lived
    BY DEF erasureVars
  <2>1. PICK q \in Requests : deleteUser(q) \/ DeleteFails(q)
    BY DEF ErasureNext, WorkerGoesOn, WorkerFails, DeletionGoesOn, Refuse, Verify, getAccount,
       confirmSession, Exchange, ExchangeFails, Revoke, RevokeFails, deleteAccount, ReauthorizeEnds,
       reauthorizeDeletion, request, endSession, Failed, AnswerArrives, FirstLost, SecondLost,
       Unheard, SeesRevoked, endRevokedSession, signOut, foregroundGone, ProcessEnds, PersonRevokes,
       ErasureInv, Types
  <2>2. req[q].pc = "delete" /\ GroundedAs(req[q], account)
    BY <2>1 DEF ErasureInv, Grounded, deleteUser, DeleteFails
  <2> QED
    BY <2>2 DEF GroundedAs, Deciding
<1> QED
  BY <1>1, ErasureInvInit, ErasureStep, PTL DEF ErasureSpec, OnlyLiveSessionDeletes

-----------------------------------------------------------------------------
(* Consistent.                                                               *)

\* While a session lasts, a code that was sent is still being worked with, or
\* its deletion is unfinished, or the Worker has been asked once more; a session
\* ended so was asked for once more.
LeftInv ==
    /\ SignedIn /\ past.code => \/ phone.unfinished
                               \/ /\ phone.work.pc \in Sending
                                  /\ phone.work.code # 0 \/ phone.work.finishing
    /\ phone.work.finishing /\ phone.work.pc \in {"waits", "again", "waitsAgain"} => past.asked
    /\ phone.work.finishing => phone.work.pc \in Sending
    /\ NotLeftBehind

LEMMA LeftStep ==
    ASSUME ErasureInv, LeftInv, [ErasureNext]_erasureVars
    PROVE  LeftInv'
<1>0. /\ phone \in Phones /\ phone.work \in Works /\ attempts \in 0 .. MaxAttempts
      /\ Idle \in Works /\ Idle.pc = "idle" /\ ~Idle.finishing
  BY OffFacts DEF ErasureInv, Types, Phones, Idle
<1>1. account'.exists => account.exists
  BY AccountFades DEF ErasureInv
<1> USE DEF LeftInv, NotLeftBehind, SignedIn, Sending
<1>2. CASE deleteAccount
  <2>1. past' = NothingSent /\ phone'.session = phone.session /\ phone'.work = [phone.work EXCEPT !.pc = "reauth"]
        /\ phone.work.pc = "idle"
    BY <1>0, <1>2 DEF deleteAccount, Phones, Works
  <2> QED
    BY <1>0, <2>1 DEF NothingSent, Works
<1>3. CASE ReauthorizeEnds
  BY <1>0, <1>1, <1>3 DEF ReauthorizeEnds, Phones, Works, ErasureInv, PhoneInv
<1>4. CASE reauthorizeDeletion
  <2>1. PICK code \in {0, attempts}, foreign \in BOOLEAN, claims \in BOOLEAN :
           phone' = [phone EXCEPT !.claims = claims,
                       !.work = [@ EXCEPT !.pc = "send", !.code = code, !.foreign = foreign]]
    BY <1>4 DEF reauthorizeDeletion
  <2>2. phone.work.pc = "reauth" /\ past' = past /\ ~phone.unfinished
    BY <1>4 DEF reauthorizeDeletion, ErasureInv, PhoneInv
  <2>3. /\ phone'.session = phone.session /\ phone'.work.pc = "send"
        /\ phone'.work.finishing = phone.work.finishing
    BY <1>0, <2>1 DEF Phones, Works
  <2> QED
    BY <1>1, <2>2, <2>3 DEF ErasureInv, PhoneInv
<1>5. CASE request
  <2>1. PICK q \in Requests : phone' = [phone EXCEPT !.work.on = q,
                     !.work.pc = IF @ = "send" THEN "waits" ELSE "waitsAgain"]
    BY <1>5 DEF request
  <2>2. /\ phone'.session = phone.session /\ phone'.work.pc \in {"waits", "waitsAgain"}
        /\ phone'.work.finishing = phone.work.finishing /\ phone'.work.code = phone.work.code
        /\ phone'.unfinished = phone.unfinished
    BY <1>0, <2>1 DEF Phones, Works
  <2>3. /\ past'.code = (past.code \/ phone.work.code # 0)
        /\ past'.asked = (past.asked \/ phone.work.finishing)
        /\ phone.work.pc \in {"send", "again"} /\ SignedIn
    BY <1>5 DEF request, ErasureInv, PhoneInv
  <2> QED
    BY <2>2, <2>3
<1>6. CASE FirstLost
  BY <1>0, <1>1, <1>6 DEF FirstLost, Phones, Works
<1>7. CASE SecondLost \/ (AnswerArrives /\ Failed)
  <2>1. phone.work.pc \in Waiting /\ past' = past /\ SignedIn
    BY <1>7 DEF SecondLost, AnswerArrives, Waiting, ErasureInv, PhoneInv
  <2> QED
    BY <1>0, <1>1, <1>7, <2>1, FailedFacts DEF SecondLost, Waiting, ErasureInv, PhoneInv
<1>8. CASE AnswerArrives /\ ~Failed
  <2>1. past' = past /\ phone' = Out(req[phone.work.on].answer) /\ req[phone.work.on].answer # "failed"
    BY <1>8 DEF AnswerArrives
  <2>2. req[phone.work.on].answer \in {"deleted", "unrevoked"}
    <3>1. phone.work.on \in Requests /\ req[phone.work.on].pc = "answered"
      BY <1>8 DEF AnswerArrives, ErasureInv, PhoneInv, Waiting
    <3>2. req[phone.work.on] \in Asks /\ req[phone.work.on].answer # "none"
      BY <3>1 DEF ErasureInv, Types, Grounded, GroundedAs
    <3> QED
      BY <2>1, <3>2 DEF Asks
  <2>3. phone'.session \in {"deleted", "unrevoked"} /\ phone'.work = Idle
    BY <1>0, <2>1, <2>2 DEF Out, Phones
  <2> QED
    BY <1>0, <2>3
<1>9. CASE SeesRevoked
  BY <1>0, <1>1, <1>9 DEF SeesRevoked, Phones
<1>10. CASE endRevokedSession
  <2>1. past' = past /\ phone.work.pc = "idle" /\ SignedIn
    BY <1>10 DEF endRevokedSession
  <2>2. CASE phone.unfinished
    <3>1. /\ phone'.session = phone.session /\ phone'.work = [Idle EXCEPT !.pc = "send", !.finishing = TRUE]
      BY <1>0, <1>10, <2>2 DEF endRevokedSession, Phones
    <3>2. phone'.work.pc = "send" /\ phone'.work.finishing
      BY <1>0, <3>1 DEF Works
    <3> QED
      BY <2>1, <3>1, <3>2
  <2>3. CASE ~phone.unfinished
    <3>1. phone'.session = "ended" /\ phone'.work = Idle
      BY <1>0, <1>10, <2>3 DEF endRevokedSession, endSession, Out, Phones
    <3> QED
      BY <1>0, <2>1, <2>3, <3>1
  <2> QED
    BY <2>2, <2>3
<1>11. CASE signOut \/ foregroundGone
  <2>1. phone'.session \in {"signedOut", "gone"} /\ phone'.work = Idle
    BY <1>0, <1>11 DEF signOut, foregroundGone, endSession, Out, Phones
  <2> QED
    BY <1>0, <2>1
<1>12. CASE ProcessEnds
  <2>1. past' = NothingSent /\ phone'.work = Idle
    BY <1>0, <1>12 DEF ProcessEnds, Phones
  <2> QED
    BY <1>0, <2>1 DEF NothingSent
<1>13. CASE UNCHANGED <<phone, past>>
  BY <1>1, <1>13
<1> QED
  BY <1>2, <1>3, <1>4, <1>5, <1>6, <1>7, <1>8, <1>9, <1>10, <1>11, <1>12, <1>13
  DEF ErasureNext, erasureVars, DeletionGoesOn, PersonRevokes, WorkerGoesOn, WorkerFails, Refuse, Verify,
     getAccount, confirmSession, Exchange, ExchangeFails, Revoke, RevokeFails, deleteUser,
     DeleteFails, Unheard

\* The Worker revokes only what belongs to the account's own Apple ID.
LEMMA OtherGrantStep ==
    ASSUME ErasureInv, OtherGrantKept, [ErasureNext]_erasureVars
    PROVE  OtherGrantKept'
<1>1. CASE \E q \in Requests : Revoke(q) \/ RevokeFails(q)
  <2>1. PICK q \in Requests : Revoke(q) \/ RevokeFails(q)
    BY <1>1
  <2>2. ~req[q].foreign
    BY <2>1 DEF ErasureInv, Grounded, GroundedAs, Revoke, RevokeFails
  <2> QED
    BY <2>1, <2>2 DEF Revoke, RevokeFails, Revoked, OtherGrantKept, ErasureInv, Types
<1>2. CASE reauthorizeDeletion
  <2>1. PICK code \in {0, attempts}, foreign \in BOOLEAN :
           grant' = [own |-> grant.own \/ (code # 0 /\ ~foreign), other |-> grant.other \/ foreign]
    BY <1>2 DEF reauthorizeDeletion
  <2>2. grant'.other = (grant.other \/ foreign)
    BY <2>1
  <2> QED
    BY <2>2 DEF OtherGrantKept
<1>3. CASE PersonRevokes
  BY <1>3 DEF PersonRevokes, OtherGrantKept, ErasureInv, Types
<1>4. CASE UNCHANGED grant
  BY <1>4 DEF OtherGrantKept
<1> QED
  BY <1>1, <1>2, <1>3, <1>4 DEF ErasureNext, erasureVars, WorkerGoesOn, WorkerFails, DeletionGoesOn, Refuse,
     Verify, getAccount, confirmSession, Exchange, ExchangeFails, deleteUser, DeleteFails,
     deleteAccount, ReauthorizeEnds, request, AnswerArrives, FirstLost, SecondLost, Unheard,
     SeesRevoked, endRevokedSession, signOut, foregroundGone, ProcessEnds

\* Consistent: the types, that the grant of another Apple ID is never taken, and
\* that no session ends by kuyara's own revocation with the account left behind.
THEOREM ConsistentAlways == ErasureSpec => []Consistent
<1>1. ErasureInit => LeftInv /\ OtherGrantKept
  BY DEF ErasureInit, LeftInv, NotLeftBehind, NothingSent, OtherGrantKept, Idle, Sending
<1>2. ErasureInv /\ LeftInv /\ OtherGrantKept /\ [ErasureNext]_erasureVars => LeftInv' /\ OtherGrantKept'
  BY LeftStep, OtherGrantStep
<1>3. LeftInv => NotLeftBehind
  BY DEF LeftInv
<1> QED
  BY <1>1, <1>2, <1>3, ErasureInvInit, ErasureStep, ErasureTypeCorrect, PTL DEF ErasureSpec, Consistent

-----------------------------------------------------------------------------
(* ToldWhatIsSo.                                                             *)

\* What a request is about to say, or says, of Apple's grant, when it is the one
\* the phone waits for.
Speaks(r) == (r.pc = "delete" /\ ~r.unrevoked) \/ r.answer = "deleted"
Awaited(q) == phone.work.pc \in Waiting /\ q = phone.work.on

\* The claims of the token are those of the account, and a request that will say
\* "deleted" to the phone has seen to Apple's grant, which nobody gives again
\* while the phone waits.
ToldInv ==
    /\ phone.work.pc \in Sending \/ phone.unfinished => phone.claims = account.apple
    /\ \A q \in Requests :
        /\ req[q].pc \in {"sent", "reads"} => req[q].claims = account.apple
        /\ Awaited(q) /\ Speaks(req[q]) /\ account.apple => ~grant.own
    /\ ToldWhatIsSo

\* Only a confirmation by Apple grants, and the phone is about to ask then.
LEMMA GrantStep ==
    ASSUME ErasureInv, [ErasureNext]_erasureVars, ~grant.own, grant'.own
    PROVE  SignedIn /\ phone.work.pc = "reauth" /\ phone'.work.pc = "send"
<1>1. grant' # grant /\ phone \in Phones /\ phone.work \in Works
  BY DEF ErasureInv, Types, Phones
<1>2. CASE \E q \in Requests : Revoke(q) \/ RevokeFails(q)
  BY <1>2 DEF Revoke, RevokeFails, Revoked, ErasureInv, Types
<1>3. CASE PersonRevokes
  BY <1>3 DEF PersonRevokes, ErasureInv, Types
<1>4. CASE reauthorizeDeletion
  <2>1. PICK code \in {0, attempts}, foreign \in BOOLEAN, claims \in BOOLEAN :
          phone' = [phone EXCEPT !.claims = claims,
                     !.work = [@ EXCEPT !.pc = "send", !.code = code, !.foreign = foreign]]
    BY <1>4 DEF reauthorizeDeletion
  <2>2. phone'.work.pc = "send"
    BY <1>1, <2>1 DEF Phones, Works
  <2> QED
    BY <1>4, <2>2 DEF reauthorizeDeletion, ErasureInv, PhoneInv
<1> QED
  BY <1>1, <1>2, <1>3, <1>4 DEF ErasureNext, erasureVars, WorkerGoesOn, WorkerFails, DeletionGoesOn, Refuse,
     Verify, getAccount, confirmSession, Exchange, ExchangeFails, deleteUser, DeleteFails,
     deleteAccount, ReauthorizeEnds, request, AnswerArrives, FirstLost, SecondLost, Unheard,
     SeesRevoked, endRevokedSession, signOut, foregroundGone, ProcessEnds

\* What the Worker's step does to what its request says.
LEMMA SpeaksStep ==
    ASSUME ErasureInv, ToldInv, NEW q \in Requests, ErasureNext,
           WorkerGoesOn(q) \/ WorkerFails(q) \/ Unheard(q)
    PROVE  \E r \in Asks :
              /\ req' = [req EXCEPT ![q] = r] /\ UNCHANGED phone
              /\ r.pc \in {"sent", "reads"} => req[q].pc \in {"sent", "reads"} /\ r.claims = req[q].claims
              /\ Speaks(r) /\ account.apple => ~grant'.own \/ Speaks(req[q])
<1>0. req[q] \in Asks /\ req \in [Requests -> Asks] /\ GroundedAs(req[q], account)
  BY DEF ErasureInv, Types, Grounded
<1>1. Off \in Asks /\ ~Speaks(Off) /\ Off.pc = "off"
  BY OffFacts DEF Off, Speaks
<1> DEFINE failed == [Off EXCEPT !.pc = "answered", !.answer = "failed"]
<1>2. failed \in Asks /\ ~Speaks(failed) /\ failed.pc = "answered"
  BY <1>1 DEF Off, Asks, Speaks
<1>3. CASE WorkerFails(q) \/ Unheard(q)
  <2>1. UNCHANGED phone /\ \E r \in {Off, failed} : req' = [req EXCEPT ![q] = r]
    BY <1>3 DEF WorkerFails, Refuse, ExchangeFails, RevokeFails, DeleteFails, Unheard, Answers
  <2> HIDE DEF failed
  <2> QED
    BY <1>1, <1>2, <2>1
<1>4. CASE Verify(q)
  <2> DEFINE r == [req[q] EXCEPT !.pc = "reads", !.lived = account.session]
  <2>1. r \in Asks /\ req' = [req EXCEPT ![q] = r] /\ UNCHANGED phone
    BY <1>0, <1>4 DEF Verify, Asks, ErasureInv, Types
  <2>2. /\ r.pc = "reads" /\ r.claims = req[q].claims /\ r.answer = req[q].answer
        /\ req[q].pc = "sent"
    BY <1>0, <1>4 DEF Verify, Asks
  <2> QED
    BY <2>1, <2>2 DEF Speaks
<1>5. CASE getAccount(q) \/ confirmSession(q)
  <2>1. req[q].pc = "reads" /\ UNCHANGED <<phone, grant>>
    BY <1>5 DEF getAccount, confirmSession
  <2>2. PICK lookup \in {"asked", "failed", "null", "apple", "google"},
             session \in {"asked", "failed", "user_gone", "alive"} :
           Decide(q, lookup, session) /\ (lookup = "google" => ~account.apple)
    <3>1. CASE getAccount(q)
      <4>1. PICK lookup \in {"failed", IF ~account.exists THEN "null"
                              ELSE IF account.apple THEN "apple" ELSE "google"} :
              Decide(q, lookup, req[q].session)
        BY <3>1 DEF getAccount
      <4> QED
        BY <1>0, <4>1 DEF Asks
    <3>2. CASE confirmSession(q)
      <4>1. PICK session \in {"failed", IF ~account.exists THEN "user_gone"
                              ELSE IF account.session THEN "alive" ELSE "failed"} :
              Decide(q, req[q].lookup, session)
        BY <3>2 DEF confirmSession
      <4> QED
        BY <1>0, <4>1 DEF GroundedAs, Asks
    <3> QED
      BY <1>5, <3>1, <3>2
  <2>3. PICK r \in Asks : req' = [req EXCEPT ![q] = r] /\ Decided(req[q], lookup, session, r)
    BY <2>1, <2>2, DecideFacts DEF ErasureInv
  <2>4. req[q].claims = account.apple
    BY <2>1 DEF ToldInv
  <2>5. CASE r = failed
    BY <1>2, <2>1, <2>3, <2>5
  <2>6. CASE r = [Off EXCEPT !.pc = "answered", !.answer = IF req[q].claims THEN "unrevoked" ELSE "deleted"]
    <3>1. r.pc = "answered" /\ (r.answer = "deleted" => ~account.apple)
      BY <2>4, <2>6 DEF Off
    <3> QED
      BY <2>1, <2>3, <3>1 DEF Speaks
  <2>7. CASE r.pc = "reads" /\ r.claims = req[q].claims /\ r.answer = req[q].answer
    BY <2>1, <2>3, <2>7 DEF Speaks
  <2>8. CASE /\ r.answer = req[q].answer
             /\ r.pc = "exchange" \/ (r.pc = "delete" /\ (~r.unrevoked => lookup = "google"))
    BY <2>1, <2>2, <2>3, <2>8 DEF Speaks
  <2> HIDE DEF failed
  <2> QED
    BY <2>3, <2>5, <2>6, <2>7, <2>8 DEF Decided, failed
<1>6. CASE Exchange(q)
  <2> DEFINE r == IF req[q].code \in spent \/ req[q].foreign
                  THEN [req[q] EXCEPT !.pc = "delete", !.unrevoked = TRUE]
                  ELSE [req[q] EXCEPT !.pc = "revoke"]
  <2>1. r \in Asks /\ req' = [req EXCEPT ![q] = r] /\ UNCHANGED phone
    BY <1>0, <1>6 DEF Exchange, Goes, Asks
  <2>2. /\ r.answer = req[q].answer
        /\ r.pc = "revoke" \/ (r.pc = "delete" /\ r.unrevoked)
    BY <1>0 DEF Asks
  <2> HIDE DEF r
  <2> QED
    BY <2>1, <2>2 DEF Speaks
<1>7. CASE Revoke(q)
  <2> DEFINE r == [req[q] EXCEPT !.pc = "delete"]
  <2>1. r \in Asks /\ req' = [req EXCEPT ![q] = r] /\ UNCHANGED phone
    BY <1>0, <1>7 DEF Revoke, Goes, Asks
  <2>2. r.pc = "delete"
    BY <1>0 DEF Asks
  <2>3. ~grant'.own
    BY <1>0, <1>7 DEF Revoke, Revoked, GroundedAs, ErasureInv, Types
  <2> HIDE DEF r
  <2> QED
    BY <2>1, <2>2, <2>3
<1>8. CASE deleteUser(q)
  <2> DEFINE r == [Off EXCEPT !.pc = "answered",
                              !.answer = IF req[q].unrevoked THEN "unrevoked" ELSE "deleted"]
  <2>1. r \in Asks /\ req' = [req EXCEPT ![q] = r] /\ UNCHANGED phone
    BY <1>8, OffFacts DEF deleteUser, Answers, Asks
  <2>2. r.pc = "answered" /\ (r.answer = "deleted" => ~req[q].unrevoked) /\ req[q].pc = "delete"
    BY <1>8 DEF Off, deleteUser
  <2> HIDE DEF r
  <2> QED
    BY <2>1, <2>2 DEF Speaks
<1> QED
  BY <1>3, <1>4, <1>5, <1>6, <1>7, <1>8 DEF WorkerGoesOn

LEMMA ToldStep ==
    ASSUME ~StaleTokens, ErasureInv, ToldInv, [ErasureNext]_erasureVars
    PROVE  ToldInv'
<1>0. /\ phone \in Phones /\ phone.work \in Works /\ req \in [Requests -> Asks]
      /\ Idle \in Works /\ Idle.pc = "idle" /\ grant \in [own : BOOLEAN, other : BOOLEAN]
  BY OffFacts DEF ErasureInv, Types, Phones, Idle
<1>1. account'.apple = account.apple /\ (account'.exists => account.exists)
  BY AccountFades DEF ErasureInv
<1>2. phone'.work.pc \in Sending \/ phone'.unfinished => phone'.claims = account.apple
  <2> USE DEF ToldInv, Sending
  <2>1. CASE deleteAccount
    BY <1>0, <2>1 DEF deleteAccount, Phones, Works
  <2>2. CASE ReauthorizeEnds
    BY <1>0, <2>2 DEF ReauthorizeEnds, Phones
  <2>3. CASE reauthorizeDeletion
    <3>1. PICK code \in {0, attempts}, foreign \in BOOLEAN, claims \in BOOLEAN :
            /\ claims = account.apple
            /\ phone' = [phone EXCEPT !.claims = claims,
                       !.work = [@ EXCEPT !.pc = "send", !.code = code, !.foreign = foreign]]
      BY <2>3 DEF reauthorizeDeletion
    <3> QED
      BY <1>0, <3>1 DEF Phones
  <2>4. CASE request
    <3>1. PICK q \in Requests : phone' = [phone EXCEPT !.work.on = q,
                       !.work.pc = IF @ = "send" THEN "waits" ELSE "waitsAgain"]
      BY <2>4 DEF request
    <3>2. phone'.claims = phone.claims /\ phone.work.pc \in {"send", "again"}
      BY <1>0, <2>4, <3>1 DEF request, Phones
    <3> QED
      BY <3>2
  <2>5. CASE FirstLost
    BY <1>0, <2>5 DEF FirstLost, Phones
  <2>6. CASE SecondLost
    BY <1>0, <2>6, FailedFacts DEF SecondLost, Waiting
  <2>7. CASE AnswerArrives
    <3>1. CASE Failed
      BY <1>0, <2>7, <3>1, FailedFacts DEF AnswerArrives, Waiting
    <3>2. CASE ~Failed
      <4>1. phone' = Out(req[phone.work.on].answer)
        BY <2>7, <3>2 DEF AnswerArrives
      <4> QED
        BY <1>0, <4>1 DEF Out, Phones
    <3> QED
      BY <3>1, <3>2
  <2>8. CASE SeesRevoked
    BY <1>0, <2>8 DEF SeesRevoked, Phones
  <2>9. CASE endRevokedSession
    <3>1. CASE phone.unfinished
      <4>1. phone'.claims = phone.claims
        BY <1>0, <2>9, <3>1 DEF endRevokedSession, Phones
      <4> QED
        BY <3>1, <4>1
    <3>2. CASE phone' = Out("ended")
      BY <1>0, <3>2 DEF Out, Phones
    <3> QED
      BY <2>9, <3>1, <3>2 DEF endRevokedSession, endSession
  <2>10. CASE signOut \/ foregroundGone
    BY <1>0, <2>10 DEF signOut, foregroundGone, endSession, Out, Phones
  <2>11. CASE ProcessEnds
    BY <1>0, <2>11 DEF ProcessEnds, Phones
  <2>12. CASE UNCHANGED phone
    BY <2>12
  <2> QED
    BY <2>1, <2>2, <2>3, <2>4, <2>5, <2>6, <2>7, <2>8, <2>9, <2>10, <2>11, <2>12
    DEF ErasureNext, erasureVars, DeletionGoesOn, PersonRevokes, WorkerGoesOn, WorkerFails, Refuse, Verify,
       getAccount, confirmSession, Exchange, ExchangeFails, Revoke, RevokeFails, deleteUser,
       DeleteFails, Unheard
<1>3. ASSUME NEW p \in Requests
      PROVE  /\ req'[p].pc \in {"sent", "reads"} => req'[p].claims = account.apple
             /\ Awaited(p)' /\ Speaks(req'[p]) /\ account.apple => ~grant'.own
  <2>0. /\ req[p].pc \in {"sent", "reads"} => req[p].claims = account.apple
        /\ Awaited(p) /\ Speaks(req[p]) /\ account.apple => ~grant.own
    BY DEF ToldInv
  <2>1. CASE \E q \in Requests : WorkerGoesOn(q) \/ WorkerFails(q) \/ Unheard(q)
    <3>1. PICK q \in Requests : WorkerGoesOn(q) \/ WorkerFails(q) \/ Unheard(q)
      BY <2>1
    <3>2. ErasureNext
      BY <3>1 DEF ErasureNext
    <3>3. PICK r \in Asks :
              /\ req' = [req EXCEPT ![q] = r] /\ UNCHANGED phone
              /\ r.pc \in {"sent", "reads"} => req[q].pc \in {"sent", "reads"} /\ r.claims = req[q].claims
              /\ Speaks(r) /\ account.apple => ~grant'.own \/ Speaks(req[q])
      BY <3>1, <3>2, SpeaksStep
    <3>4. ~grant.own => ~grant'.own
      BY <3>3, GrantStep
    <3> QED
      BY <1>0, <2>0, <3>3, <3>4 DEF Awaited
  <2>2. CASE request
    <3>1. PICK q \in Requests :
            /\ req' = [req EXCEPT ![q] = Asked(phone.work, phone.claims)]
            /\ phone' = [phone EXCEPT !.work.on = q,
                       !.work.pc = IF @ = "send" THEN "waits" ELSE "waitsAgain"]
      BY <2>2 DEF request
    <3>2. phone'.work.on = q
      BY <1>0, <3>1 DEF Phones, Works
    <3>3. phone.claims = account.apple
      BY <2>2 DEF request, ToldInv, Sending
    <3>4. LET r == Asked(phone.work, phone.claims)
          IN  r.pc = "sent" /\ r.answer = "none" /\ r.claims = phone.claims
      BY AskedFacts DEF ErasureInv
    <3>5. CASE p = q
      BY <1>0, <3>1, <3>3, <3>4, <3>5 DEF Speaks
    <3>6. CASE p # q
      BY <1>0, <2>0, <3>1, <3>2, <3>6 DEF Awaited
    <3> QED
      BY <3>5, <3>6
  <2>3. CASE AnswerArrives
    <3>1. req' = [req EXCEPT ![phone.work.on] = Off] /\ phone'.work = Idle
      BY <1>0, <2>3, FailedFacts DEF AnswerArrives, Out, Phones, Waiting
    <3>2. req'[p] = Off \/ req'[p] = req[p]
      BY <1>0, <3>1
    <3> QED
      BY <1>0, <2>0, <3>1, <3>2 DEF Awaited, Waiting, Off
  <2>4. CASE reauthorizeDeletion
    <3>1. PICK code \in {0, attempts}, foreign \in BOOLEAN, claims \in BOOLEAN :
            phone' = [phone EXCEPT !.claims = claims,
                       !.work = [@ EXCEPT !.pc = "send", !.code = code, !.foreign = foreign]]
      BY <2>4 DEF reauthorizeDeletion
    <3>2. phone'.work.pc = "send" /\ req' = req
      BY <1>0, <2>4, <3>1 DEF Phones, Works, reauthorizeDeletion
    <3> QED
      BY <2>0, <3>2 DEF Awaited, Waiting
  <2>5. CASE PersonRevokes
    BY <1>0, <2>0, <2>5 DEF PersonRevokes, Awaited
  <2>6. CASE UNCHANGED <<phone, req, grant>>
    BY <2>0, <2>6 DEF Awaited
  <2>7. CASE ProcessEnds \/ SecondLost \/ signOut \/ foregroundGone
    <3>1. phone'.work = Idle /\ req' = req
      BY <1>0, <2>7, FailedFacts DEF ProcessEnds, SecondLost, signOut, foregroundGone, endSession,
         Out, Phones, Waiting
    <3> QED
      BY <1>0, <2>0, <3>1 DEF Awaited, Waiting
  <2>8. CASE FirstLost \/ deleteAccount \/ ReauthorizeEnds
    <3>1. req' = req
      BY <2>8 DEF FirstLost, deleteAccount, ReauthorizeEnds
    <3>2. CASE FirstLost
      BY <1>0, <2>0, <3>1, <3>2 DEF FirstLost, Phones, Works, Waiting, Awaited
    <3>3. CASE deleteAccount
      BY <1>0, <2>0, <3>1, <3>3 DEF deleteAccount, Phones, Works, Waiting, Awaited
    <3>4. CASE ReauthorizeEnds
      BY <1>0, <2>0, <3>1, <3>4 DEF ReauthorizeEnds, Phones, Works, Waiting, Awaited
    <3> QED
      BY <2>8, <3>2, <3>3, <3>4
  <2>9. CASE SeesRevoked
    BY <1>0, <2>0, <2>9 DEF SeesRevoked, Awaited, Phones
  <2>10. CASE endRevokedSession
    <3>1. phone' = Out("ended") \/ phone' = [phone EXCEPT !.unfinished = FALSE, !.deletion = "deleting",
                   !.revoked = FALSE, !.work = [Idle EXCEPT !.pc = "send", !.finishing = TRUE]]
      BY <2>10 DEF endRevokedSession, endSession
    <3>2. phone'.work = Idle \/ phone'.work = [Idle EXCEPT !.pc = "send", !.finishing = TRUE]
      BY <1>0, <3>1 DEF Out, Phones
    <3>3. phone'.work.pc \notin Waiting
      BY <1>0, <3>2 DEF Waiting, Works
    <3> QED
      BY <2>0, <2>10, <3>3 DEF Awaited, endRevokedSession
  <2> QED
    BY <2>1, <2>2, <2>3, <2>4, <2>5, <2>6, <2>7, <2>8, <2>9, <2>10 DEF ErasureNext, erasureVars, DeletionGoesOn
<1>4. ToldWhatIsSo'
  <2>1. CASE phone'.session = phone.session
    <3>1. SignedIn => phone.session \notin {"deleted", "unrevoked"}
      BY DEF SignedIn
    <3> QED
      BY <1>1, <2>1, <3>1, GrantStep DEF ToldInv, ToldWhatIsSo
  <2>2. CASE phone'.session # phone.session /\ phone'.session \in {"deleted", "unrevoked"}
    <3> DEFINE q == phone.work.on
    <3>1. AnswerArrives /\ phone' = Out(req[q].answer)
      <4>1. CASE deleteAccount \/ ReauthorizeEnds \/ FirstLost \/ SeesRevoked \/ ProcessEnds
        BY <1>0, <2>2, <4>1 DEF deleteAccount, ReauthorizeEnds, FirstLost, SeesRevoked,
           ProcessEnds, Phones
      <4>2. CASE reauthorizeDeletion \/ request
        BY <1>0, <2>2, <4>2 DEF reauthorizeDeletion, request, Phones
      <4>3. CASE SecondLost
        BY <2>2, <4>3, FailedFacts DEF SecondLost, Waiting
      <4>4. CASE endRevokedSession
        BY <1>0, <2>2, <4>4 DEF endRevokedSession, endSession, Out, Phones
      <4>5. CASE signOut \/ foregroundGone
        BY <1>0, <2>2, <4>5 DEF signOut, foregroundGone, endSession, Out, Phones
      <4>6. CASE UNCHANGED phone
        BY <2>2, <4>6
      <4>7. CASE AnswerArrives
        BY <2>2, <4>7, FailedFacts DEF AnswerArrives, Waiting
      <4> QED
        BY <4>1, <4>2, <4>3, <4>4, <4>5, <4>6, <4>7 DEF ErasureNext, erasureVars, DeletionGoesOn, PersonRevokes,
           WorkerGoesOn, WorkerFails, Refuse, Verify, getAccount, confirmSession, Exchange,
           ExchangeFails, Revoke, RevokeFails, deleteUser, DeleteFails, Unheard
    <3>2. phone'.session = req[q].answer
      BY <1>0, <3>1 DEF Out, Phones
    <3>3. q \in Requests /\ Awaited(q) /\ UNCHANGED grant
      BY <3>1 DEF AnswerArrives, ErasureInv, PhoneInv, Awaited, Waiting
    <3>4. ~account.exists
      BY <2>2, <3>2, <3>3 DEF ErasureInv, Grounded, GroundedAs
    <3>5. phone'.session = "deleted" /\ account.apple => ~grant.own
      BY <3>2, <3>3 DEF ToldInv, Speaks
    <3> QED
      BY <1>1, <3>3, <3>4, <3>5 DEF ToldWhatIsSo
  <2> QED
    BY <2>1, <2>2 DEF ToldWhatIsSo
<1> QED
  BY <1>1, <1>2, <1>3, <1>4 DEF ToldInv

\* ToldWhatIsSo: while tokens are no older than the Apple identity, the account is
\* gone when the phone says so, and Apple's grant with it unless the phone sends
\* the person to Apple's settings.
THEOREM ToldWhatIsSoHolds == ~StaleTokens /\ ErasureSpec => []ToldWhatIsSo
<1> SUFFICES ASSUME ~StaleTokens PROVE ErasureSpec => []ToldWhatIsSo
  OBVIOUS
<1>1. ErasureInit => ToldInv
  <2> SUFFICES ASSUME ErasureInit PROVE ToldInv
    OBVIOUS
  <2>1. /\ phone.work = Idle /\ ~phone.unfinished /\ phone.session = "in"
        /\ \A q \in Requests : req[q] = Off
    BY DEF ErasureInit
  <2> QED
    BY <2>1 DEF ToldInv, ToldWhatIsSo, Awaited, Idle, Off, Sending, Waiting
<1>2. ErasureInv /\ ToldInv /\ [ErasureNext]_erasureVars => ToldInv'
  BY ToldStep
<1>3. ToldInv => ToldWhatIsSo
  BY DEF ToldInv
<1> QED
  BY <1>1, <1>2, <1>3, ErasureInvInit, ErasureStep, PTL DEF ErasureSpec
=============================================================================
