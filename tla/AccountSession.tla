---------------------------- MODULE AccountSession ----------------------------
(***************************************************************************)
(* The session manager of one phone (account-session.ts): sign-in with its  *)
(* provider exchange and its consent question, the passes, sign-out,        *)
(* deletion, the foreground, Apple's revocation and the launch, as they     *)
(* interleave at every await of a single JavaScript thread.                 *)
(*                                                                          *)
(* Each call of the manager that has not returned is a slot of call; what   *)
(* runs between two awaits is one action, and a call whose promise settled  *)
(* resumes before anything else happens.  What the auth service, the        *)
(* provider, the account, Apple and the person answer is nondeterministic.  *)
(*                                                                          *)
(* Left out: analytics, counts, notices, which screen hosts a sheet, adding *)
(* a provider, development scenarios, which credential the Apple mark names *)
(* (whether this phone holds it is free), other device reads and writes     *)
(* that fail, and a sign-out that cannot remove the stored session.  Two    *)
(* awaits in a row between which nothing is read are one.                   *)
(***************************************************************************)
EXTENDS Naturals, FiniteSets

CONSTANTS
    Slots,          \* calls that may be under way at once
    Users, NoUser, NoSlot,
    LateAnswers,    \* answers may come in another order than they were asked
                    \* for, and a sign-in begin before the launch has restored
    Outlived,       \* the mark of an open question may outlive its session
    Unreadable,     \* reading the stored session at the launch may fail
    TrackWrites     \* whether the history of local writes is kept

ASSUME SessionAssumption ==
    /\ NoUser \notin Users /\ NoSlot \notin Slots
    /\ {LateAnswers, Outlived, Unreadable, TrackWrites} \subseteq BOOLEAN

VARIABLES
    call,       \* call[c]: where call c waits
    mgr,        \* the manager's state
    ui,         \* what the snapshot shows of it
    pass,       \* the pass in flight, the one that follows, and who awaits them
    disk,       \* the session the auth client stores, and the question's mark
    hist        \* history: the local writes, and what covered the question

vars == <<call, mgr, ui, pass, disk, hist>>

SignInSteps == {"exchange", "dropOrphan", "dropOwn", "consent", "markQ", "firstPass"}
AnswerSteps == {"give", "unmark", "withdraw"}
DeletionSteps == {"reauth", "settle", "erase", "retrySettle", "retryErase", "forgetDeleted"}
EndSteps == {"holds", "revokeWait", "endWait", "endPass", "endAuth", "goneWait", "goneAuth", "forget"}
CheckSteps == {"checkMark", "checkConsent"}
Steps == {"idle", "pass", "refresh", "apple", "current", "appleLaunch"}
         \cup SignInSteps \cup AnswerSteps \cup DeletionSteps \cup EndSteps \cup CheckSteps

\* A call: where it waits, the user it acts for, whether it answers the question
\* after sign-in (asked), whether its answer is saved, whether identity is still
\* the object it began with (same), whether it sent Apple's code, and whether
\* the auth client was asked for the token before it (behind).
NoCall == [pc |-> "idle", user |-> NoUser, asked |-> FALSE, saved |-> FALSE,
           same |-> TRUE, code |-> FALSE, behind |-> FALSE]
Call == [pc : Steps, user : Users \cup {NoUser}, asked : BOOLEAN, saved : BOOLEAN,
         same : BOOLEAN, code : BOOLEAN, behind : BOOLEAN]

\* current: the sign-in whose request is signInRequest.
Fresh == [identity |-> NoUser, orphaned |-> FALSE, awaiting |-> FALSE, unfinished |-> NoUser,
          current |-> NoSlot, exchanging |-> NoSlot, online |-> TRUE, launch |-> "off"]
SignedOut == [shown |-> FALSE, sheet |-> FALSE, host |-> FALSE, prompt |-> "none", status |-> "idle",
              pending |-> FALSE, deleting |-> FALSE]
NoPass == [step |-> "idle", user |-> NoUser, trailing |-> FALSE, now |-> {}, next |-> {}, token |-> FALSE]

\* A first launch.
Init ==
    /\ call = [c \in Slots |-> NoCall]
    /\ mgr = Fresh /\ ui = SignedOut /\ pass = NoPass
    /\ disk = [stored |-> NoUser, mark |-> FALSE]
    /\ hist = [writes |-> "read", covered |-> FALSE]

On(c, pc) == call[c].pc = pc
Idle(c) == On(c, "idle")
Quiet == \A c \in Slots : Idle(c)

\* Mutant: the end of a revoked session is held like the deletion it follows.
DeletingHeld == \E c \in Slots : call[c].pc \in DeletionSteps \cup {"endWait"}

\* A deletion in flight.
Deleting == \E c \in Slots : call[c].pc \in DeletionSteps
Checking == \E c \in Slots : call[c].pc \in CheckSteps
Awaits(c) == c \in pass.now \cup pass.next

\* The promise call c waits for has settled.
Resumable(c) ==
    \/ call[c].pc \in {"pass", "firstPass", "endPass"} /\ ~Awaits(c)
    \/ call[c].pc \in {"endWait", "revokeWait", "goneWait"} /\ ~Deleting
    \/ call[c].pc \in {"settle", "retrySettle"} /\ pass.step = "idle"
Still == \A c \in Slots : ~Resumable(c)

\* A write that waits for a pass now waits for the next trigger.
PutOff == [hist EXCEPT !.writes = IF @ = "due" THEN "late" ELSE @]

\* The question was on the sheet, and an answer of the Account screen took it off.
Covered == [hist EXCEPT !.covered = @ \/ ui.prompt = "signIn"]

\* A sign-in begins to wait for the question.
Uncovered == [hist EXCEPT !.covered = FALSE]

Goto(c, pc) == call' = [call EXCEPT ![c].pc = pc]
Return(c) == call' = [call EXCEPT ![c] = NoCall]
Waits(c, pc) == call' = [call EXCEPT ![c] = [NoCall EXCEPT !.pc = pc]]
Begins(c, pc) == Idle(c) /\ call' = [call EXCEPT ![c] = [NoCall EXCEPT !.pc = pc, !.user = mgr.identity]]

AsksAuth(c, pc) ==
    call' = [call EXCEPT ![c] = [NoCall EXCEPT !.pc = pc, !.user = mgr.identity, !.behind = pass.step = "token"]]

\* The identity is assigned: the foregrounds that watch it see another one.
Watching == {"refresh", "apple", "goneWait"}
Assigned(c, next) ==
    call' = [d \in Slots |-> IF d = c THEN next
             ELSE IF call[d].pc \in Watching THEN [call[d] EXCEPT !.same = FALSE] ELSE call[d]]

-----------------------------------------------------------------------------
(* Passes, one at a time.                                                    *)

\* Mutant: a pass starts while a restored session still checks.
CanPassUnchecked ==
    mgr.identity # NoUser /\ ui.shown /\ mgr.online /\ ~mgr.awaiting /\ ~Deleting

\* What pass asks before it reads the token.
CanPass ==
    /\ mgr.identity # NoUser /\ ui.shown /\ mgr.online
    /\ ~mgr.awaiting /\ ~Checking /\ ~Deleting

\* Mutant: a request made while a pass runs joins that pass.
runSyncJoin(w) ==
    pass' = IF pass.step # "idle" THEN [pass EXCEPT !.now = @ \cup w]
            ELSE IF CanPass' THEN [NoPass EXCEPT !.step = "token", !.user = mgr'.identity, !.now = w]
            ELSE pass

\* runSync for the callers w, in the state their step leaves behind.
runSync(w) ==
    pass' = IF pass.step # "idle" THEN [pass EXCEPT !.trailing = TRUE, !.next = @ \cup w]
            ELSE IF CanPass' THEN [NoPass EXCEPT !.step = "token", !.user = mgr'.identity, !.now = w]
            ELSE pass

\* The pass is over; the one that follows starts, if it may.
Follow(token) ==
    pass' = IF pass.trailing /\ CanPass
            THEN [NoPass EXCEPT !.step = "token", !.user = mgr.identity, !.now = pass.next]
            ELSE [NoPass EXCEPT !.token = token]

TokenAnswered == call' = [c \in Slots |-> [call[c] EXCEPT !.behind = FALSE]]

TokenRead ==
    /\ pass.step = "token"
    /\ \E has \in BOOLEAN :
        /\ has => disk.stored # NoUser
        /\ IF mgr.identity # pass.user \/ Deleting
           THEN Follow(pass.token) /\ UNCHANGED hist
           ELSE IF has THEN pass' = [pass EXCEPT !.step = "run"] /\ hist' = [hist EXCEPT !.writes = "read"]
           ELSE Follow(TRUE) /\ UNCHANGED hist
    /\ TokenAnswered /\ UNCHANGED <<mgr, ui, disk>>

\* sync.run answered or failed.
RunEnds ==
    /\ pass.step = "run" /\ Follow(pass.token)
    /\ UNCHANGED <<call, mgr, ui, disk, hist>>

\* A caller whose pass is over goes on to return.
PassAwaited(c) ==
    /\ On(c, "pass") /\ ~Awaits(c)
    /\ Return(c) /\ UNCHANGED <<mgr, ui, pass, disk, hist>>

\* A pass nobody waits for: a local write, or "Sync now".  No pass runs while
\* the account is being deleted: a write then waits for the next trigger.
localWrite ==
    /\ ui.shown
    /\ hist' = IF TrackWrites THEN [hist EXCEPT !.writes = IF Deleting THEN "late" ELSE "due"] ELSE hist
    /\ UNCHANGED <<call, mgr, ui, disk>>
    /\ runSync({})

tokenRefreshed ==
    /\ pass.token
    /\ UNCHANGED <<call, mgr, ui, disk, hist>>
    /\ runSync({})

setOnline ==
    /\ mgr' = [mgr EXCEPT !.online = ~@]
    /\ UNCHANGED <<call, ui, disk, hist>>
    /\ IF mgr'.online /\ mgr.identity # NoUser THEN runSync({}) ELSE UNCHANGED pass

-----------------------------------------------------------------------------
(* Sign-in.                                                                  *)

openSignIn ==
    /\ ~ui.shown /\ ~ui.sheet
    /\ ui' = [ui EXCEPT !.sheet = TRUE, !.pending = FALSE]
    /\ UNCHANGED <<call, mgr, pass, disk, hist>>

signIn(c) ==
    /\ mgr.launch \in {"on", "unread"} /\ ~ui.shown /\ ui.sheet
    /\ ~ui.pending /\ mgr.online
    /\ LateAnswers \/ \A d \in Slots : call[d].pc \notin {"current", "appleLaunch"}
    /\ Begins(c, "exchange")
    /\ ui' = [ui EXCEPT !.pending = TRUE]
    /\ mgr' = [mgr EXCEPT !.current = c, !.exchanging = c]
    /\ UNCHANGED <<pass, disk, hist>>

\* The auth client answers in turn: the token, the reads of the session, a sign-out.
Reads == {"refresh", "current"}
Answered(c, steps) ==
    LateAnswers \/ (~call[c].behind /\ \A d \in Slots : call[d].pc \notin steps)

\* A person goes through an exchange: it outlasts all that was asked before it.
Outlasts(c) ==
    LateAnswers \/ (pass.step # "token" /\ \A d \in Slots \ {c} :
        \/ call[d].pc \in {"idle", "pass", "firstPass"}
        \/ On(d, "exchange") /\ c # mgr.exchanging)

\* Mutant: the exchange that ended still counts as running.
EndedRunning(c) == mgr

Ended(c) == [mgr EXCEPT !.exchanging = IF @ = c THEN NoSlot ELSE @]

\* Cancelled or failed.  A current one first ends an abandoned session.
ExchangeFails(c) ==
    /\ On(c, "exchange")
    /\ LET drops == mgr.current = c /\ mgr.orphaned /\ mgr.identity = NoUser IN
        /\ mgr' = [Ended(c) EXCEPT !.orphaned = @ /\ ~drops]
        /\ IF drops THEN Goto(c, "dropOrphan") /\ UNCHANGED ui
           ELSE /\ Return(c)
                /\ ui' = [ui EXCEPT !.pending = @ /\ mgr.current # c]
    /\ UNCHANGED <<pass, disk, hist>>

\* Its sheet was closed, or another sign-in replaced it: not adopted.
ExchangeAbandoned(c) ==
    /\ On(c, "exchange") /\ mgr.current # c /\ Outlasts(c)
    /\ \E u \in Users : disk' = [disk EXCEPT !.stored = u]
    /\ LET alone == Ended(c).exchanging = NoSlot IN
        /\ mgr' = [Ended(c) EXCEPT !.orphaned = @ \/ (mgr.identity = NoUser /\ ~alone)]
        /\ IF mgr.identity = NoUser /\ alone THEN Goto(c, "dropOwn") ELSE Return(c)
    /\ UNCHANGED <<ui, pass, hist>>

\* auth.signOut for an abandoned session: an earlier sign-in's, or its own.
OrphanDropped(c) ==
    /\ call[c].pc \in {"dropOrphan", "dropOwn"} /\ Answered(c, Reads)
    /\ disk' = [disk EXCEPT !.stored = NoUser]
    /\ ui' = [ui EXCEPT !.pending = @ /\ On(c, "dropOwn")]
    /\ Return(c) /\ UNCHANGED <<mgr, pass, hist>>

ExchangeAdopted(c) ==
    /\ On(c, "exchange") /\ mgr.current = c /\ Outlasts(c)
    /\ \E u \in Users :
        /\ disk' = [disk EXCEPT !.stored = u]
        /\ mgr' = [Ended(c) EXCEPT !.identity = u, !.awaiting = TRUE, !.orphaned = FALSE]
        /\ Assigned(c, [NoCall EXCEPT !.pc = "consent", !.user = u])
    /\ ui' = [ui EXCEPT !.shown = TRUE]
    /\ hist' = Uncovered /\ UNCHANGED pass

-----------------------------------------------------------------------------
(* The consent question.                                                     *)

\* finishSignIn, up to its pass.
finishSignIn(c) ==
    IF mgr'.identity = NoUser THEN Return(c) /\ UNCHANGED pass
    ELSE /\ call' = [call EXCEPT ![c] = [NoCall EXCEPT !.pc = "firstPass", !.user = mgr'.identity]]
         /\ runSync({c})

\* The account's answer is read: none, or unread, is asked for while a sheet is open.
ConsentRead(c) ==
    /\ On(c, "consent")
    /\ \/ /\ mgr.identity # call[c].user
          /\ Return(c) /\ UNCHANGED <<mgr, pass>>
       \/ /\ mgr.identity = call[c].user /\ ui.sheet
          /\ Goto(c, "markQ") /\ UNCHANGED <<mgr, pass>>
       \/ /\ mgr.identity = call[c].user
          /\ mgr' = [mgr EXCEPT !.awaiting = FALSE]
          /\ UNCHANGED ui /\ finishSignIn(c)
    /\ UNCHANGED <<ui, disk, hist>>

\* Mutant: a sheet closed while the mark was written is not looked at.
QuestionShownBlind(c) ==
    /\ On(c, "markQ")
    /\ disk' = [disk EXCEPT !.mark = TRUE]
    /\ Return(c)
    /\ ui' = IF mgr.identity # call[c].user THEN ui
             ELSE [ui EXCEPT !.prompt = "signIn", !.status = "idle"]
    /\ UNCHANGED <<mgr, pass, hist>>

\* The mark is written; the question shows, or declines if its sheet has closed.
QuestionShown(c) ==
    /\ On(c, "markQ")
    /\ disk' = [disk EXCEPT !.mark = TRUE]
    /\ LET closed == mgr.current # c \/ ~ui.sheet IN
        IF mgr.identity # call[c].user THEN Return(c) /\ UNCHANGED ui
        ELSE /\ ui' = [ui EXCEPT !.prompt = "signIn", !.status = "idle", !.host = @ \/ closed]
             /\ IF closed THEN call' = [call EXCEPT ![c].pc = "unmark", ![c].asked = TRUE]
                ELSE Return(c)
    /\ UNCHANGED <<mgr, pass, hist>>

\* answerConsent(false) for the question after sign-in.
Declines(c) == Idle(c) /\ call' = [call EXCEPT ![c] =
    [NoCall EXCEPT !.pc = "unmark", !.user = mgr.identity, !.asked = TRUE]]

closeSheet(c) ==
    /\ ui.sheet
    /\ LET declining == ui.prompt = "signIn" IN
        /\ ui' = [ui EXCEPT !.sheet = FALSE, !.pending = FALSE, !.host = @ \/ declining]
        /\ IF declining /\ ui.status # "saving" /\ mgr.identity # NoUser
           THEN Declines(c) ELSE UNCHANGED call
    /\ mgr' = [mgr EXCEPT !.current = NoSlot]
    /\ UNCHANGED <<pass, disk, hist>>

answerConsent(c) ==
    /\ ui.prompt # "none" /\ ui.status # "saving" /\ mgr.identity # NoUser
    /\ \/ /\ Idle(c)
          /\ ui' = [ui EXCEPT !.status = "saving"]
          /\ call' = [call EXCEPT ![c] = [NoCall EXCEPT !.pc = "give", !.user = mgr.identity,
                                         !.asked = ui.prompt = "signIn"]]
       \/ ui.prompt = "signIn" /\ Declines(c) /\ UNCHANGED ui
       \/ ui.prompt = "account" /\ UNCHANGED call
          /\ ui' = [ui EXCEPT !.prompt = "none", !.status = "idle"]
    /\ UNCHANGED <<mgr, pass, disk, hist>>

\* The answer is saved, or it is not and its question shows so, or the sheet it
\* was asked on has closed and it declines.
ConsentGiven(c) ==
    /\ On(c, "give")
    /\ LET asked == call[c].asked  own == mgr.identity = call[c].user IN
        \/ ~own /\ Return(c) /\ UNCHANGED <<ui, pass, hist>>
        \/ /\ own /\ (~asked \/ ui.sheet)
           /\ Return(c) /\ UNCHANGED pass
           /\ ui' = [ui EXCEPT !.status = "failed", !.prompt = IF asked THEN "signIn" ELSE "account"]
           /\ hist' = IF asked THEN hist ELSE Covered
        \/ \E saved \in BOOLEAN :
           /\ own /\ asked /\ (saved \/ ~ui.sheet)
           /\ call' = [call EXCEPT ![c].pc = "unmark", ![c].saved = saved]
           /\ UNCHANGED <<ui, pass, hist>>
        \/ /\ own /\ ~asked
           /\ ui' = [ui EXCEPT !.prompt = "none", !.status = "idle"]
           /\ hist' = Covered
           /\ Waits(c, "pass") /\ UNCHANGED mgr /\ runSync({c})
    /\ UNCHANGED <<mgr, disk>>

\* The mark is cleared, and the sign-in that waited for its answer completes.
QuestionSettled(c) ==
    /\ On(c, "unmark")
    /\ disk' = [disk EXCEPT !.mark = FALSE]
    /\ ui' = [ui EXCEPT !.prompt = "none", !.status = "idle"]
    /\ mgr' = [mgr EXCEPT !.awaiting = FALSE]
    /\ \/ mgr.awaiting /\ finishSignIn(c)
       \/ ~mgr.awaiting /\ call[c].saved /\ Waits(c, "pass") /\ runSync({c})
       \/ ~mgr.awaiting /\ ~call[c].saved /\ Return(c) /\ UNCHANGED pass
    /\ hist' = Uncovered

\* The first pass is over: the sheet comes back with the result.
SignInFinished(c) ==
    /\ On(c, "firstPass") /\ ~Awaits(c)
    /\ ui' = IF mgr.identity = call[c].user /\ ui.shown
             THEN [ui EXCEPT !.host = FALSE, !.pending = FALSE, !.sheet = @ \/ ui.host]
             ELSE [ui EXCEPT !.host = FALSE]
    /\ Return(c) /\ UNCHANGED <<mgr, pass, disk, hist>>

\* The Account screen, which a sheet covers.
OnAccountScreen == ui.shown /\ ~ui.sheet /\ mgr.identity # NoUser

openConsent ==
    /\ OnAccountScreen /\ ui.status # "saving"
    /\ ui' = [ui EXCEPT !.prompt = "account", !.status = "idle"]
    /\ UNCHANGED <<call, mgr, pass, disk, hist>>

\* Confirmed on an alert, over which a sheet may have opened meanwhile.
withdrawConsent(c) ==
    /\ ui.shown /\ mgr.identity # NoUser /\ ui.status # "saving"
    /\ Begins(c, "withdraw")
    /\ ui' = [ui EXCEPT !.prompt = "none", !.status = "saving"]
    /\ hist' = Covered
    /\ UNCHANGED <<mgr, pass, disk>>

ConsentWithdrawn(c) ==
    /\ On(c, "withdraw")
    /\ \/ /\ mgr.identity # call[c].user
          /\ Return(c) /\ UNCHANGED <<ui, pass, hist>>
       \/ /\ mgr.identity = call[c].user
          /\ ui' = [ui EXCEPT !.prompt = "none", !.status = "failed"]
          /\ Return(c) /\ hist' = Covered /\ UNCHANGED pass
       \/ /\ mgr.identity = call[c].user
          /\ ui' = [ui EXCEPT !.prompt = "none", !.status = "idle"]
          /\ hist' = Covered
          /\ Waits(c, "pass") /\ UNCHANGED mgr /\ runSync({c})
    /\ UNCHANGED <<mgr, disk>>

-----------------------------------------------------------------------------
(* The ends of a session.                                                    *)

\* forgetSession, up to its writes on the device.
forgetSession(c, pc) ==
    /\ mgr' = [mgr EXCEPT !.identity = NoUser, !.awaiting = FALSE, !.unfinished = NoUser]
    /\ ui' = [ui EXCEPT !.host = FALSE]
    /\ pass' = [pass EXCEPT !.token = FALSE]
    /\ disk' = [disk EXCEPT !.stored = NoUser]
    /\ hist' = Uncovered
    /\ Assigned(c, [NoCall EXCEPT !.pc = pc])

\* The marks are cleared, after every write of a mark asked for before; the
\* screens show no session.
Forgotten(c) ==
    /\ call[c].pc \in {"forget", "forgetDeleted"}
    /\ \A d \in Slots : call[d].pc \notin {"markQ", "unmark"}
    /\ disk' = [disk EXCEPT !.mark = FALSE]
    /\ ui' = [SignedOut EXCEPT
           !.sheet = On(c, "forgetDeleted") \/ (ui.sheet /\ ui.prompt # "signIn")]
    /\ Return(c) /\ UNCHANGED <<mgr, pass, hist>>

signOut(c) ==
    /\ OnAccountScreen /\ Begins(c, "endWait")
    /\ UNCHANGED <<mgr, ui, pass, disk, hist>>

\* endSession, once no deletion is in flight: a last pass, if online.
EndWaited(c) ==
    /\ On(c, "endWait") /\ ~Deleting
    /\ \/ mgr.identity = NoUser /\ Return(c) /\ UNCHANGED pass
       \/ mgr.identity # NoUser /\ ~mgr.online /\ AsksAuth(c, "endAuth") /\ UNCHANGED pass
       \/ /\ mgr.identity # NoUser /\ mgr.online
          /\ Waits(c, "endPass") /\ UNCHANGED <<mgr, ui>> /\ runSync({c})
    /\ UNCHANGED <<mgr, ui, disk, hist>>

LastPassEnded(c) ==
    /\ On(c, "endPass") /\ ~Awaits(c)
    /\ AsksAuth(c, "endAuth") /\ UNCHANGED <<mgr, ui, pass, disk, hist>>

\* auth.signOut answered, or failed.
SignedOutOfAuth(c) ==
    /\ On(c, "endAuth") /\ Answered(c, Reads)
    /\ forgetSession(c, "forget")

deleteAccount(c) ==
    /\ OnAccountScreen /\ mgr.online /\ ~ui.deleting /\ ~Deleting
    /\ Begins(c, "reauth")
    /\ mgr' = [mgr EXCEPT !.unfinished = NoUser]
    /\ ui' = [ui EXCEPT !.deleting = TRUE]
    /\ hist' = PutOff
    /\ UNCHANGED <<pass, disk>>

\* Cancelled or failed; or confirmed, with Apple's code or without.
Reauthorized(c) ==
    /\ On(c, "reauth")
    /\ \/ Return(c) /\ ui' = [ui EXCEPT !.deleting = FALSE]
       \/ /\ disk.stored # NoUser /\ UNCHANGED ui
          /\ \E code \in BOOLEAN : call' = [call EXCEPT ![c].pc = "settle", ![c].code = code]
    /\ UNCHANGED <<mgr, pass, disk, hist>>

\* Mutant: the passes are not waited for.
passesSettledNot(c) ==
    /\ call[c].pc \in {"settle", "retrySettle"}
    /\ Goto(c, IF On(c, "settle") THEN "erase" ELSE "retryErase")
    /\ UNCHANGED <<mgr, ui, pass, disk, hist>>

passesSettled(c) ==
    /\ call[c].pc \in {"settle", "retrySettle"} /\ pass.step = "idle"
    /\ Goto(c, IF On(c, "settle") THEN "erase" ELSE "retryErase")
    /\ UNCHANGED <<mgr, ui, pass, disk, hist>>

\* The account is gone, and the phone forgets it.
Deleted(c) ==
    /\ call[c].pc \in {"erase", "retryErase"} /\ Answered(c, Reads)
    /\ forgetSession(c, "forgetDeleted")

\* The deletion failed, or its answer was lost twice.  One that sent Apple's
\* code may have revoked Apple's token.
DeletionFailed(c) ==
    /\ On(c, "erase")
    /\ mgr' = [mgr EXCEPT !.unfinished = IF call[c].code THEN call[c].user ELSE NoUser]
    /\ ui' = [ui EXCEPT !.deleting = FALSE]
    /\ Return(c) /\ UNCHANGED <<pass, disk, hist>>

RetryFailed(c) ==
    /\ On(c, "retryErase")
    /\ Goto(c, "endWait") /\ UNCHANGED <<mgr, ui, pass, disk, hist>>

appleRevoked(c) ==
    /\ mgr.identity # NoUser /\ Begins(c, "holds")
    /\ UNCHANGED <<mgr, ui, pass, disk, hist>>

\* Whether this phone holds the session's Apple credential.
HoldsRead(c) ==
    /\ On(c, "holds")
    /\ \/ mgr.identity = call[c].user /\ Goto(c, "revokeWait")
       \/ Return(c)
    /\ UNCHANGED <<mgr, ui, pass, disk, hist>>

\* endRevokedSession: an unfinished deletion of this account is finished first.
RevokeWaited(c) ==
    /\ On(c, "revokeWait") /\ ~Deleting
    /\ LET mine == mgr.unfinished # NoUser /\ mgr.unfinished = call[c].user
                   /\ mgr.identity = call[c].user IN
        /\ Goto(c, IF mine THEN "retrySettle" ELSE "endWait")
        /\ ui' = [ui EXCEPT !.deleting = @ \/ mine]
    /\ mgr' = [mgr EXCEPT !.unfinished = NoUser]
    /\ UNCHANGED <<pass, disk, hist>>

-----------------------------------------------------------------------------
(* The launch and the foreground.                                            *)

start(c) ==
    /\ mgr.launch = "off" /\ Idle(c) /\ AsksAuth(c, "current")
    /\ mgr' = [mgr EXCEPT !.launch = "reading"]
    /\ UNCHANGED <<ui, pass, disk, hist>>

\* The stored session cannot be read, is none (or the server ended it), or is read.
SessionRead(c) ==
    /\ On(c, "current") /\ Answered(c, {})
    /\ \/ /\ Unreadable
          /\ mgr' = [mgr EXCEPT !.launch = "unread"]
          /\ Return(c) /\ UNCHANGED <<ui, disk>>
       \/ /\ Outlived \/ ~disk.mark
          /\ mgr' = [mgr EXCEPT !.launch = "on", !.identity = NoUser]
          /\ disk' = [disk EXCEPT !.stored = NoUser]
          /\ ui' = [ui EXCEPT !.shown = FALSE]
          /\ Assigned(c, NoCall)
       \/ /\ disk.stored # NoUser
          /\ mgr' = [mgr EXCEPT !.launch = "on"]
          /\ call' = [call EXCEPT ![c] = [NoCall EXCEPT !.pc = "appleLaunch", !.user = disk.stored]]
          /\ UNCHANGED <<ui, disk>>
    /\ UNCHANGED <<pass, hist>>

foreground(c) ==
    /\ Idle(c)
    /\ \/ mgr.launch = "unread" /\ AsksAuth(c, "current") /\ UNCHANGED pass
       \/ /\ mgr.launch = "on" /\ mgr.identity # NoUser /\ AsksAuth(c, "refresh")
          /\ pass' = [pass EXCEPT !.token = FALSE]
    /\ UNCHANGED <<mgr, ui, disk, hist>>

\* Unknown, which leaves the session as it is; the session, refreshed or as
\* stored; or the server says it is gone.
Refreshed(c) ==
    /\ On(c, "refresh") /\ Answered(c, {})
    /\ \/ Return(c) /\ hist' = PutOff /\ UNCHANGED disk
       \/ /\ call[c].same /\ disk.stored # NoUser
          /\ call' = [call EXCEPT ![c].pc = "apple", ![c].user = disk.stored]
          /\ UNCHANGED <<disk, hist>>
       \/ /\ disk' = [disk EXCEPT !.stored = NoUser]
          /\ IF call[c].same THEN Goto(c, "goneWait") ELSE Return(c)
          /\ UNCHANGED hist
    /\ UNCHANGED <<mgr, ui, pass>>

\* restore, up to the read of the question's mark.
restore(c, pc) ==
    /\ mgr' = [mgr EXCEPT !.identity = call[c].user]
    /\ ui' = [ui EXCEPT !.shown = TRUE]
    /\ Assigned(c, [NoCall EXCEPT !.pc = pc, !.user = call[c].user])

\* Mutant: a foreground does not look whether the session changed either.
AppleAskedBlind(c) ==
    /\ call[c].pc \in {"apple", "appleLaunch"}
    /\ \/ restore(c, "revokeWait") /\ UNCHANGED pass
       \/ ~mgr.awaiting /\ restore(c, "checkMark") /\ UNCHANGED pass
       \/ mgr.awaiting /\ restore(c, "pass") /\ runSync({c})
    /\ UNCHANGED <<disk, hist>>

\* endIfAppleRevoked, then restore.  The launch does not look whether the
\* session changed while Apple was asked.
AppleAsked(c) ==
    /\ call[c].pc \in {"apple", "appleLaunch"}
    /\ \/ On(c, "apple") /\ ~call[c].same /\ Return(c) /\ UNCHANGED <<mgr, ui, pass>>
       \/ /\ On(c, "appleLaunch") \/ call[c].same
          /\ \/ restore(c, "revokeWait") /\ UNCHANGED pass
             \/ ~mgr.awaiting /\ restore(c, "checkMark") /\ UNCHANGED pass
             \/ mgr.awaiting /\ restore(c, "pass") /\ runSync({c})
    /\ UNCHANGED <<disk, hist>>

\* askConsentAgain: nothing to ask without a mark.
MarkRead(c) ==
    /\ On(c, "checkMark")
    /\ UNCHANGED <<mgr, ui, disk, hist>>
    /\ IF disk.mark THEN Goto(c, "checkConsent") /\ UNCHANGED pass
       ELSE Waits(c, "pass") /\ runSync({c})

\* The link or the account has settled the question, or it is asked again.
CheckRead(c) ==
    /\ On(c, "checkConsent")
    /\ \/ /\ mgr.identity # call[c].user
          /\ Return(c) /\ UNCHANGED <<mgr, ui, pass, disk, hist>>
       \/ /\ mgr.identity = call[c].user
          /\ disk' = [disk EXCEPT !.mark = FALSE]
          /\ UNCHANGED <<mgr, ui, hist>>
          /\ Waits(c, "pass") /\ runSync({c})
       \/ /\ mgr.identity = call[c].user
          /\ mgr' = [mgr EXCEPT !.awaiting = TRUE]
          /\ ui' = [ui EXCEPT !.sheet = TRUE, !.pending = FALSE, !.prompt = "signIn", !.status = "idle"]
          /\ hist' = Uncovered
          /\ Return(c) /\ UNCHANGED <<pass, disk>>

\* A deletion that ran meanwhile ended the session itself, or it ends here.
GoneWaited(c) ==
    /\ On(c, "goneWait") /\ ~Deleting
    /\ IF call[c].same THEN AsksAuth(c, "goneAuth") ELSE Return(c)
    /\ UNCHANGED <<mgr, ui, pass, disk, hist>>

GoneFromAuth(c) ==
    /\ On(c, "goneAuth") /\ Answered(c, Reads)
    /\ forgetSession(c, "forget")

\* The process ends; what the device keeps stays.
Killed ==
    /\ mgr.launch # "off"
    /\ Outlived \/ ~disk.mark \/ disk.stored # NoUser
    /\ call' = [c \in Slots |-> NoCall]
    /\ mgr' = Fresh /\ ui' = SignedOut /\ pass' = NoPass
    /\ hist' = Uncovered /\ UNCHANGED disk

-----------------------------------------------------------------------------
Resumes(c) ==
    \/ PassAwaited(c) \/ SignInFinished(c) \/ LastPassEnded(c)
    \/ EndWaited(c) \/ RevokeWaited(c) \/ GoneWaited(c) \/ passesSettled(c)

\* An await of the call is answered.
Answers(c) ==
    \/ ExchangeFails(c) \/ ExchangeAbandoned(c) \/ OrphanDropped(c) \/ ExchangeAdopted(c)
    \/ ConsentRead(c) \/ QuestionShown(c) \/ ConsentGiven(c) \/ QuestionSettled(c)
    \/ ConsentWithdrawn(c)
    \/ Forgotten(c) \/ SignedOutOfAuth(c) \/ GoneFromAuth(c)
    \/ Reauthorized(c) \/ Deleted(c) \/ DeletionFailed(c) \/ RetryFailed(c)
    \/ HoldsRead(c) \/ SessionRead(c) \/ Refreshed(c) \/ AppleAsked(c)
    \/ MarkRead(c) \/ CheckRead(c)

\* The person, the device or Apple starts a call.
Starts(c) ==
    \/ signIn(c) \/ closeSheet(c) \/ answerConsent(c) \/ withdrawConsent(c)
    \/ signOut(c) \/ deleteAccount(c) \/ appleRevoked(c)
    \/ start(c) \/ foreground(c)

Events == openSignIn \/ openConsent \/ localWrite \/ tokenRefreshed \/ setOnline \/ Killed

Next ==
    \/ \E c \in Slots : Resumes(c)
    \/ /\ Still
       /\ TokenRead \/ RunEnds \/ Events \/ \E c \in Slots : Answers(c) \/ Starts(c)

Spec == Init /\ [][Next]_vars

-----------------------------------------------------------------------------
\* The types of the manager's state; a trailing pass or a waiting call needs a
\* pass in flight, and an exchange that runs belongs to its call.
TypeOK ==
    /\ call \in [Slots -> Call]
    /\ mgr \in [identity : Users \cup {NoUser}, orphaned : BOOLEAN, awaiting : BOOLEAN,
               unfinished : Users \cup {NoUser}, current : Slots \cup {NoSlot},
               exchanging : Slots \cup {NoSlot}, online : BOOLEAN,
               launch : {"off", "reading", "unread", "on"}]
    /\ ui \in [shown : BOOLEAN, sheet : BOOLEAN, host : BOOLEAN, prompt : {"none", "signIn", "account"},
              status : {"idle", "saving", "failed"}, pending : BOOLEAN, deleting : BOOLEAN]
    /\ pass \in [step : {"idle", "token", "run"}, user : Users \cup {NoUser}, trailing : BOOLEAN,
                now : SUBSET Slots, next : SUBSET Slots, token : BOOLEAN]
    /\ disk \in [stored : Users \cup {NoUser}, mark : BOOLEAN]
    /\ hist \in [writes : {"read", "due", "late"}, covered : BOOLEAN]
    /\ pass.step = "idle" => pass.now = {} /\ ~pass.trailing
    /\ pass.next # {} => pass.trailing
    /\ mgr.exchanging # NoSlot => On(mgr.exchanging, "exchange")

\* No pass reads or writes the phone's rows while the account is erased and the
\* phone's link and flags are reset for it.
DeletionAlone ==
    (\E c \in Slots : call[c].pc \in {"erase", "retryErase"}) => pass.step # "run"

\* A call that ends the session signed in, whatever it is answered.
Enders == {"revokeWait", "retrySettle", "retryErase", "endWait", "endPass", "endAuth"}

\* A sign-in that waits for the consent question never waits for one nobody
\* sees: it shows on an open sheet, a call is about to show or settle it, or the
\* session is being ended.  One case apart: an answer or a withdrawal of the
\* Account screen, sent before the question came back, lands over it and takes it
\* off the sheet, and nothing shows it again.
QuestionVisible ==
    mgr.awaiting /\ mgr.identity # NoUser /\ ~hist.covered =>
        \/ ui.prompt = "signIn" /\ ui.sheet
        \/ \E c \in Slots : call[c].pc \in {"consent", "markQ"} /\ call[c].user = mgr.identity
        \/ \E c \in Slots : call[c].pc \in {"give", "unmark"} /\ call[c].asked
        \/ \E c \in Slots : call[c].pc \in Enders

\* A write made while the phone is signed in and online is read by a pass, also
\* one made while a pass ran, before a sign-out or before the process ended: none
\* is left for the next trigger, unless the pass waits for a token or the consent
\* question for its answer.  Two cases apart, which leave it for that trigger: a
\* deletion was in flight after the write, and failed; or a foreground, which
\* forgets that a pass waits for a token, could not refresh the session.
WritesServed ==
    hist.writes = "due" /\ Quiet /\ pass.step = "idle" /\ mgr.identity # NoUser /\ mgr.online
        => pass.token \/ mgr.awaiting

\* The account the screens show is the one whose session the requests carry.
StoredIsIdentity ==
    mgr.identity # NoUser /\ disk.stored # NoUser => disk.stored = mgr.identity

\* A phone shown signed out is signed in again only to a session the auth client
\* stores: no call that was under way when a session ended brings it back.
BringsNoneBack ==
    mgr.identity = NoUser /\ mgr'.identity # NoUser => disk'.stored = mgr'.identity

\* No pass starts its requests while a sign-in waits for the consent question,
\* unless its session is being ended.
WaitsForAnswer ==
    pass.step # "run" /\ pass'.step = "run" => ~mgr.awaiting \/ \E c \in Slots : call[c].pc \in EndSteps

\* Calls of the manager never all wait for one another: while one is under way,
\* a pass runs, or some call can go on.  A sign-out waits for a deletion and for
\* a pass, a deletion for the passes, and a pass for none of them.
NoStandstill ==
    Quiet \/ pass.step # "idle" \/ \E c \in Slots : ENABLED Resumes(c) \/ ENABLED Answers(c)

\* The state hangs together: the types, the deletion's exclusion of passes, and
\* the identity shown beside the session stored.
Consistent == TypeOK /\ DeletionAlone /\ StoredIsIdentity

\* What no step does: bring an ended session back, or start a pass before the
\* sign-in's question is answered.
StepsInOrder == [][BringsNoneBack /\ WaitsForAnswer]_vars
=============================================================================
