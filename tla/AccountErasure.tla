--------------------------- MODULE AccountErasure ---------------------------
(***************************************************************************)
(* Deleting an account: the phone, the Worker's delete route, the auth server *)
(* and Apple.  The Worker keeps nothing between requests; a request the phone *)
(* gave up may still run, beside the one sent again and beside those of a     *)
(* later attempt.                                                             *)
(***************************************************************************)
EXTENDS Naturals, FiniteSets

CONSTANTS
    Requests,       \* requests the Worker may run at once (a bound)
    NoRequest,
    StaleTokens,    \* BOOLEAN: the token may be older than the Apple identity
    MaxAttempts,    \* bound: deletions the person starts
    MaxTrouble      \* bound: failures, losses and things done elsewhere

ASSUME ErasureAssumption ==
    /\ NoRequest \notin Requests /\ StaleTokens \in BOOLEAN
    /\ MaxAttempts \in Nat /\ MaxTrouble \in Nat

VARIABLES
    account,    \* the auth server: exists, apple, google, and the phone's session
    grant,      \* what Apple holds: the account's Apple ID and another one, each granted
    spent,      \* the attempts whose authorization code was exchanged
    req,        \* req[q]: one request at the Worker
    phone,      \* the session manager's deletion
    attempts,   \* the code of an attempt is its number
    past,       \* history: what the phone did since the last attempt or launch
    trouble     \* history: how much went wrong so far

erasureVars == <<account, grant, spent, req, phone, attempts, past, trouble>>

Off == [pc |-> "off", code |-> 0, foreign |-> FALSE, claims |-> FALSE, lookup |-> "asked",
        session |-> "asked", unrevoked |-> FALSE, lived |-> FALSE, answer |-> "none"]
Idle == [pc |-> "idle", on |-> NoRequest, finishing |-> FALSE, code |-> 0, foreign |-> FALSE]
\* What a request is asked to erase with.
Asked(work, claims) ==
    [Off EXCEPT !.pc = "sent", !.code = work.code, !.foreign = work.foreign, !.claims = claims]
NothingSent == [code |-> FALSE, asked |-> FALSE]
Active(q) == req[q].pc # "off"

ErasureInit ==
    /\ account \in [exists : {TRUE}, apple : BOOLEAN, google : BOOLEAN, session : {TRUE}]
    /\ account.apple \/ account.google
    /\ grant = [own |-> account.apple, other |-> TRUE]
    /\ spent = {} /\ attempts = 0
    /\ req = [q \in Requests |-> Off]
    /\ \E mark \in BOOLEAN :
        /\ mark => account.apple
        /\ phone = [work |-> Idle, session |-> "in", deletion |-> "idle", mark |-> mark,
                    unfinished |-> FALSE, revoked |-> FALSE, claims |-> FALSE]
    /\ past = NothingSent /\ trouble = 0

Goes(q, pc) == req' = [req EXCEPT ![q].pc = pc]
Trouble == trouble < MaxTrouble /\ trouble' = trouble + 1

-----------------------------------------------------------------------------
(* The Worker's route.                                                       *)

Answers(q, answer) ==
    req' = [req EXCEPT ![q] = [Off EXCEPT !.pc = "answered", !.answer = answer]]

\* The limiter, the token or its keys refuse the request, or it never arrives.
Refuse(q) ==
    /\ req[q].pc = "sent" /\ Trouble
    /\ Answers(q, "failed") \/ req' = [req EXCEPT ![q] = Off]
    /\ UNCHANGED <<account, grant, spent, phone, attempts, past>>

\* The token verifies, its session alive or not; two reads are asked at once.
Verify(q) ==
    /\ req[q].pc = "sent"
    /\ req' = [req EXCEPT ![q].pc = "reads", ![q].lived = account.session]
    /\ UNCHANGED <<account, grant, spent, phone, attempts, past, trouble>>

\* A live session: Apple first, when the account has its identity and a code came.
Erases(q, lookup, session) ==
    LET revokes == lookup = "apple" /\ req[q].code # 0
    IN  req' = [req EXCEPT ![q].lookup = lookup, ![q].session = session,
                           ![q].pc = IF revokes THEN "exchange" ELSE "delete",
                           ![q].unrevoked = lookup = "apple" /\ ~revokes]
Waits(q, lookup, session) == req' = [req EXCEPT ![q].lookup = lookup, ![q].session = session]

\* Mutant: an account already gone is always answered as deleted.
DecideGone(q, lookup, session) ==
    IF lookup = "asked" \/ session = "asked" THEN Waits(q, lookup, session)
    ELSE IF lookup = "failed" \/ (lookup # "null" /\ session = "failed") THEN Answers(q, "failed")
    ELSE IF lookup = "null" \/ session = "user_gone" THEN Answers(q, "deleted")
    ELSE Erases(q, lookup, session)

\* Mutant: the session is not asked for.
DecideUnconfirmed(q, lookup, session) ==
    IF lookup = "asked" \/ session = "asked" THEN Waits(q, lookup, session)
    ELSE IF lookup = "failed" THEN Answers(q, "failed")
    ELSE IF lookup = "null" THEN Answers(q, IF req[q].claims THEN "unrevoked" ELSE "deleted")
    ELSE Erases(q, lookup, session)

\* Both reads have settled: what the handler makes of them.
Decide(q, lookup, session) ==
    IF lookup = "asked" \/ session = "asked" THEN Waits(q, lookup, session)
    ELSE IF lookup = "failed" \/ (lookup # "null" /\ session = "failed") THEN Answers(q, "failed")
    ELSE IF lookup = "null" \/ session = "user_gone"
    THEN Answers(q, IF req[q].claims THEN "unrevoked" ELSE "deleted")
    ELSE Erases(q, lookup, session)

getAccount(q) ==
    /\ req[q].pc = "reads" /\ req[q].lookup = "asked"
    /\ \/ /\ Decide(q, IF ~account.exists THEN "null" ELSE IF account.apple THEN "apple" ELSE "google",
                    req[q].session)
          /\ UNCHANGED trouble
       \/ Decide(q, "failed", req[q].session) /\ Trouble
    /\ UNCHANGED <<account, grant, spent, phone, attempts, past>>

\* A session that was signed out is refused; one whose user is gone is not.
confirmSession(q) ==
    /\ req[q].pc = "reads" /\ req[q].session = "asked"
    /\ \/ /\ Decide(q, req[q].lookup,
                    IF ~account.exists THEN "user_gone" ELSE IF account.session THEN "alive" ELSE "failed")
          /\ UNCHANGED trouble
       \/ Decide(q, req[q].lookup, "failed") /\ Trouble
    /\ UNCHANGED <<account, grant, spent, phone, attempts, past>>

\* Mutant: whose code it is is not looked at.
ExchangeAny(q) ==
    /\ req[q].pc = "exchange"
    /\ IF req[q].code \in spent
       THEN req' = [req EXCEPT ![q].pc = "delete", ![q].unrevoked = TRUE] /\ UNCHANGED spent
       ELSE Goes(q, "revoke") /\ spent' = spent \cup {req[q].code}
    /\ UNCHANGED <<account, grant, phone, attempts, past, trouble>>

\* A code works once; a spent one and another Apple ID's are refused.
Exchange(q) ==
    /\ req[q].pc = "exchange"
    /\ IF req[q].code \in spent \/ req[q].foreign
       THEN req' = [req EXCEPT ![q].pc = "delete", ![q].unrevoked = TRUE]
       ELSE Goes(q, "revoke")
    /\ spent' = spent \cup {req[q].code}
    /\ UNCHANGED <<account, grant, phone, attempts, past, trouble>>

\* The code may be spent although Apple's answer was lost.
ExchangeFails(q) ==
    /\ req[q].pc = "exchange" /\ Trouble
    /\ spent' \in {spent, spent \cup {req[q].code}}
    /\ Answers(q, "failed")
    /\ UNCHANGED <<account, grant, phone, attempts, past>>

Revoked(q) == IF req[q].foreign THEN [grant EXCEPT !.other = FALSE] ELSE [grant EXCEPT !.own = FALSE]

Revoke(q) ==
    /\ req[q].pc = "revoke"
    /\ grant' = Revoked(q)
    /\ Goes(q, "delete")
    /\ UNCHANGED <<account, spent, phone, attempts, past, trouble>>

RevokeFails(q) ==
    /\ req[q].pc = "revoke" /\ Trouble
    /\ grant' \in {grant, Revoked(q)}
    /\ Answers(q, "failed")
    /\ UNCHANGED <<account, spent, phone, attempts, past>>

\* A user already gone counts as deleted.
deleteUser(q) ==
    /\ req[q].pc = "delete"
    /\ account' = [account EXCEPT !.exists = FALSE, !.session = FALSE]
    /\ Answers(q, IF req[q].unrevoked THEN "unrevoked" ELSE "deleted")
    /\ UNCHANGED <<grant, spent, phone, attempts, past, trouble>>

DeleteFails(q) ==
    /\ req[q].pc = "delete" /\ Trouble
    /\ account' \in {account, [account EXCEPT !.exists = FALSE, !.session = FALSE]}
    /\ Answers(q, "failed")
    /\ UNCHANGED <<grant, spent, phone, attempts, past>>

-----------------------------------------------------------------------------
(* The phone.                                                                *)

SignedIn == phone.session = "in"
Out(why) == [phone EXCEPT !.work = Idle, !.session = why, !.deletion = "idle", !.mark = FALSE,
                          !.unfinished = FALSE, !.revoked = FALSE, !.claims = FALSE]

\* Mutant: a new attempt keeps what the failed one left unfinished.
DeleteKeepingUnfinished ==
    /\ SignedIn /\ phone.work.pc = "idle" /\ phone.deletion # "deleting" /\ attempts < MaxAttempts
    /\ attempts' = attempts + 1
    /\ phone' = [phone EXCEPT !.deletion = "deleting", !.work.pc = "reauth"]
    /\ past' = NothingSent
    /\ UNCHANGED <<account, grant, spent, req, trouble>>

deleteAccount ==
    /\ SignedIn /\ phone.work.pc = "idle" /\ phone.deletion # "deleting" /\ attempts < MaxAttempts
    /\ attempts' = attempts + 1
    /\ phone' = [phone EXCEPT !.unfinished = FALSE, !.deletion = "deleting", !.work.pc = "reauth"]
    /\ past' = NothingSent
    /\ UNCHANGED <<account, grant, spent, req, trouble>>

\* With Apple only where this phone holds the credential, or the account has nothing else.
ByApple == account.apple /\ (phone.mark \/ ~account.google)

\* Cancelled, or not confirmed.
ReauthorizeEnds ==
    /\ phone.work.pc = "reauth"
    /\ \E deletion \in {"idle", "failed"} : phone' = [phone EXCEPT !.work = Idle, !.deletion = deletion]
    /\ UNCHANGED <<account, grant, spent, req, attempts, past, trouble>>

\* Apple confirms with a code, of this or of another Apple ID, or without one.
reauthorizeDeletion ==
    /\ phone.work.pc = "reauth"
    /\ \E code \in {0, attempts}, foreign \in BOOLEAN, claims \in BOOLEAN :
        /\ code # 0 => ByApple
        /\ foreign => code # 0 /\ ~phone.mark
        /\ claims = account.apple \/ (StaleTokens /\ ~claims)
        /\ phone' = [phone EXCEPT !.claims = claims,
               !.work = [@ EXCEPT !.pc = "send", !.code = code, !.foreign = foreign]]
        /\ grant' = [own |-> grant.own \/ (code # 0 /\ ~foreign), other |-> grant.other \/ foreign]
    /\ UNCHANGED <<account, spent, req, attempts, past, trouble>>

\* The request, and the same once more when its answer is lost.
request ==
    /\ phone.work.pc \in {"send", "again"}
    /\ \E q \in Requests :
        /\ ~Active(q)
        /\ req' = [req EXCEPT ![q] = Asked(phone.work, phone.claims)]
        /\ phone' = [phone EXCEPT !.work.on = q,
                                  !.work.pc = IF @ = "send" THEN "waits" ELSE "waitsAgain"]
    /\ past' = [code |-> past.code \/ phone.work.code # 0, asked |-> past.asked \/ phone.work.finishing]
    /\ UNCHANGED <<account, grant, spent, attempts, trouble>>

\* endSession: the server may not hear of it.
endSession(why) ==
    /\ phone' = Out(why)
    /\ \/ account' = [account EXCEPT !.session = FALSE] /\ UNCHANGED trouble
       \/ account.exists /\ UNCHANGED account /\ Trouble

\* Mutant: a failed attempt leaves nothing to finish.
FailedForgotten ==
    IF phone.work.finishing THEN endSession("ended")
    ELSE /\ phone' = [phone EXCEPT !.work = Idle, !.deletion = "failed"]
         /\ UNCHANGED <<account, trouble>>

\* Mutant: an unfinished deletion that failed again waits for another try.
FailedOpen ==
    /\ phone' = [phone EXCEPT !.work = Idle, !.unfinished = phone.work.code # 0,
           !.deletion = IF phone.work.finishing THEN "deleting" ELSE "failed"]
    /\ UNCHANGED <<account, trouble>>

\* One that sent Apple's code is unfinished; finishing one ends the session.
Failed ==
    IF phone.work.finishing THEN endSession("ended")
    ELSE /\ phone' = [phone EXCEPT !.work = Idle, !.deletion = "failed",
                                   !.unfinished = phone.work.code # 0]
         /\ UNCHANGED <<account, trouble>>

AnswerArrives ==
    /\ phone.work.pc \in {"waits", "waitsAgain"} /\ req[phone.work.on].pc = "answered"
    /\ req' = [req EXCEPT ![phone.work.on] = Off]
    /\ LET answer == req[phone.work.on].answer IN
        IF answer = "failed" THEN Failed
        ELSE phone' = Out(answer) /\ UNCHANGED <<account, trouble>>
    /\ UNCHANGED <<grant, spent, attempts, past>>

\* No answer in time: the request, if it runs, runs on.
FirstLost ==
    /\ phone.work.pc = "waits"
    /\ IF Active(phone.work.on) THEN Trouble ELSE UNCHANGED trouble
    /\ phone' = [phone EXCEPT !.work.pc = "again", !.work.on = NoRequest]
    /\ UNCHANGED <<account, grant, spent, req, attempts, past>>

SecondLost ==
    /\ phone.work.pc = "waitsAgain" /\ (Active(phone.work.on) => trouble < MaxTrouble)
    /\ Failed
    /\ UNCHANGED <<grant, spent, req, attempts, past>>

\* An answer nobody waits for.
Unheard(q) ==
    /\ req[q].pc = "answered" /\ phone.work.on # q
    /\ req' = [req EXCEPT ![q] = Off]
    /\ UNCHANGED <<account, grant, spent, phone, attempts, past, trouble>>

\* Apple tells the phone, or is asked at a launch or a foreground.
SeesRevoked ==
    /\ SignedIn /\ phone.mark /\ ~grant.own /\ ~phone.revoked
    /\ phone' = [phone EXCEPT !.revoked = TRUE]
    /\ UNCHANGED <<account, grant, spent, req, attempts, past, trouble>>

\* An unfinished deletion is finished, with its token and without a code.
endRevokedSession ==
    /\ phone.revoked /\ SignedIn /\ phone.work.pc = "idle"
    /\ IF phone.unfinished
       THEN /\ phone' = [phone EXCEPT !.unfinished = FALSE, !.deletion = "deleting", !.revoked = FALSE,
                             !.work = [Idle EXCEPT !.pc = "send", !.finishing = TRUE]]
            /\ UNCHANGED <<account, trouble>>
       ELSE endSession("ended")
    /\ UNCHANGED <<grant, spent, req, attempts, past>>

signOut ==
    /\ SignedIn /\ phone.work.pc = "idle"
    /\ endSession("signedOut")
    /\ UNCHANGED <<grant, spent, req, attempts, past>>

\* A foreground finds the session gone at the server.
foregroundGone ==
    /\ SignedIn /\ phone.work.pc = "idle" /\ ~account.session
    /\ phone' = Out("gone")
    /\ UNCHANGED <<account, grant, spent, req, attempts, past, trouble>>

\* The session and the mark survive the process, the unfinished deletion does not.
ProcessEnds ==
    /\ SignedIn /\ Trouble
    /\ phone' = [phone EXCEPT !.work = Idle, !.deletion = "idle", !.unfinished = FALSE,
                              !.revoked = FALSE]
    /\ past' = NothingSent
    /\ UNCHANGED <<account, grant, spent, req, attempts>>

\* The person removes kuyara in Apple's settings.
PersonRevokes ==
    /\ grant.own /\ Trouble
    /\ grant' = [grant EXCEPT !.own = FALSE]
    /\ UNCHANGED <<account, spent, req, phone, attempts, past>>

WorkerGoesOn(q) ==
    \/ Verify(q) \/ getAccount(q) \/ confirmSession(q) \/ Exchange(q) \/ Revoke(q) \/ deleteUser(q)
WorkerFails(q) == Refuse(q) \/ ExchangeFails(q) \/ RevokeFails(q) \/ DeleteFails(q)
DeletionGoesOn ==
    ReauthorizeEnds \/ reauthorizeDeletion \/ request \/ AnswerArrives \/ FirstLost \/ SecondLost

ErasureNext ==
    \/ \E q \in Requests : WorkerGoesOn(q) \/ WorkerFails(q) \/ Unheard(q)
    \/ deleteAccount \/ DeletionGoesOn
    \/ SeesRevoked \/ endRevokedSession \/ signOut \/ foregroundGone
    \/ ProcessEnds \/ PersonRevokes

ErasureSpec == ErasureInit /\ [][ErasureNext]_erasureVars

\* Every request ends within its deadlines, and the phone's own steps go on.
Fairness ==
    /\ \A q \in Requests : WF_erasureVars(WorkerGoesOn(q)) /\ WF_erasureVars(Unheard(q))
    /\ WF_erasureVars(DeletionGoesOn)
ErasureFairSpec == ErasureSpec /\ Fairness

-----------------------------------------------------------------------------
\* Every variable has its type; a deletion is shown under way exactly while it
\* is, and only a failed one is unfinished.
ErasureTypeOK ==
    /\ account \in [exists : BOOLEAN, apple : BOOLEAN, google : BOOLEAN, session : BOOLEAN]
    /\ grant \in [own : BOOLEAN, other : BOOLEAN]
    /\ spent \subseteq 1..MaxAttempts /\ attempts \in 0..MaxAttempts
    /\ \A q \in Requests :
        req[q].pc \in {"off", "sent", "reads", "exchange", "revoke", "delete", "answered"}
    /\ phone.session \in {"in", "signedOut", "ended", "gone", "deleted", "unrevoked"}
    /\ phone.work.pc \in {"idle", "reauth", "send", "waits", "again", "waitsAgain"}
    /\ phone.deletion \in {"idle", "deleting", "failed"}
    /\ phone.deletion = "deleting" <=> phone.work.pc # "idle"
    /\ phone.unfinished => phone.deletion = "failed" /\ SignedIn

\* What the phone says of a deletion is so: the account is gone, and unless it
\* names Apple's settings Apple holds no grant, whichever of the requests sent
\* did the work and whichever answered.
ToldWhatIsSo ==
    /\ phone.session \in {"deleted", "unrevoked"} => ~account.exists
    /\ phone.session = "deleted" /\ account.apple => ~grant.own

\* A request that reached the Worker after the session was signed out deletes
\* nothing: its token still verifies.
OnlyLiveSessionDeletes ==
    [][account.exists /\ ~account'.exists => \E q \in Requests : req[q].pc = "delete" /\ req[q].lived]_erasureVars

\* A session does not end because kuyara's own deletion revoked Apple's grant and
\* leave the account behind: the Worker was asked once more, unless a restart or
\* another attempt came between.
NotLeftBehind == phone.session = "ended" /\ account.exists /\ past.code => past.asked

\* The Worker never takes the grant of another Apple ID.
OtherGrantKept == grant.other

\* A deletion under way ends: deleted, cancelled, failed, or with its session.
DeletionEnds == phone.deletion = "deleting" ~> phone.deletion # "deleting"

\* The state hangs together: the Worker keeps to the account's own Apple ID, and
\* no session ends by kuyara's own revocation with the account left behind.
Consistent == ErasureTypeOK /\ OtherGrantKept /\ NotLeftBehind
=============================================================================
