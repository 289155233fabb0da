--------------------------- MODULE Recommendation ---------------------------
(***************************************************************************)
(* Today's recommendation: the controller that asks for outfits, the          *)
(* evaluation of approved triggers in front of it, and the daily allowance of *)
(* re-asks.                                                                   *)
(*                                                                            *)
(* Every action runs one stretch of JavaScript between two awaits, and an     *)
(* evaluation that can go on does so before anything else, as the microtask   *)
(* queue has it.  SQLite answers in the order it is asked (db).  What was     *)
(* asked for is an approved signal (place, style, preference, day) and a      *)
(* departure, which is not one; outfits are told apart by a number.           *)
(***************************************************************************)
EXTENDS Naturals, Sequences, FiniteSets

CONSTANTS
    Signals,        \* what the person may have chosen
    Requests,       \* requests that may be in flight at once (a bound)
    NoRequest, NoSignal,
    DailyLimit,     \* re-asks of one day that may reach the AI
    MaxOutfits,     \* bound: outfits ever saved
    MaxChanges      \* bound: things the person does

ASSUME RecommendationAssumption ==
    /\ NoRequest \notin Requests /\ (Requests \cup {NoRequest}) \cap Nat = {}
    /\ NoSignal \notin Signals /\ IsFiniteSet(Requests)
    /\ DailyLimit \in Nat /\ MaxOutfits \in Nat /\ MaxChanges \in Nat

VARIABLES
    want,       \* the rendered settings: signal, departure, a render still owed
    outfits,    \* shown and stored outfit, and how many were ever made
    ui,         \* status, refreshing, failed, and whether the repository opened
    req,        \* req[r]: a PendingRefresh and where it waits
    latest,     \* the request of latestRequestKey, while it is in flight
    db,         \* what SQLite was asked and has not answered
    flight,     \* the evaluation in flight
    trailing,   \* the input queued behind it
    tracked,    \* reaskInFlight: its number, then its request
    budget,     \* the day's file, and what it was spent on
    missed,     \* history: what was not saved, not asked for, or joined too late
    changes     \* history: what the person did so far

vars == <<want, outfits, ui, req, latest, db, flight, trailing, tracked, budget, missed, changes>>

NoOutfit == [n |-> 0, signal |-> NoSignal]
Off == [pc |-> "off", signal |-> NoSignal, departure |-> 0, excluded |-> 0, reask |-> FALSE,
        aiPending |-> FALSE, asked |-> FALSE, got |-> FALSE, skip |-> "none"]
NoFlight == [pc |-> "off", signal |-> NoSignal, departure |-> 0, on |-> NoRequest,
             triggered |-> FALSE, clears |-> FALSE]
NoTrailing == [pc |-> "off", signal |-> NoSignal, departure |-> 0, clears |-> FALSE]
NoMiss == [save |-> FALSE, ask |-> FALSE, late |-> FALSE]

Ready == ui.status = "ready"
Active(r) == req[r].pc # "off"

Init ==
    /\ \E s \in Signals : want = [signal |-> s, departure |-> 0, owed |-> FALSE]
    /\ outfits = [shown |-> NoOutfit, stored |-> NoOutfit, made |-> 0]
    /\ ui = [status |-> "loading", refreshing |-> FALSE, failed |-> FALSE, repository |-> FALSE]
    /\ req = [r \in Requests |-> Off]
    /\ latest = NoRequest /\ db = <<>>
    /\ flight = NoFlight /\ trailing = NoTrailing /\ tracked = NoRequest
    /\ budget = [count |-> 0, sent |-> 0]
    /\ missed = NoMiss /\ changes = 0

-----------------------------------------------------------------------------
(* The evaluation of approved triggers and its coalescer.                    *)

\* refresh() reads the worn outfits before it prepares a request; a re-ask is
\* known by a number until then.
Worn(signal, departure, by, id) ==
    [job |-> "worn", signal |-> signal, departure |-> departure, by |-> by, id |-> id]

\* History: what was asked for last, or else what is shown, is for other
\* settings than these.
Elsewhere(signal) ==
    \/ \E i \in 1..Len(db) : /\ db[i].job = "worn" /\ db[i].signal # signal
                             /\ \A k \in 1..Len(db) : db[k].job = "worn" => k <= i
    \/ /\ \A i \in 1..Len(db) : db[i].job # "worn"
       /\ IF latest # NoRequest THEN req[latest].signal # signal ELSE outfits.shown.signal # signal

\* What is shown decides whether the evaluation asks.
Evaluate(go) ==
    IF outfits.shown.signal # go.signal
    THEN /\ flight' = [go EXCEPT !.pc = "worn", !.triggered = TRUE]
         /\ db' = Append(db, Worn(go.signal, go.departure, "evaluation", 0))
         /\ missed' = [missed EXCEPT !.ask = FALSE]
    ELSE /\ flight' = [go EXCEPT !.pc = "ended"] /\ UNCHANGED db
         /\ missed' = [missed EXCEPT !.ask = @ \/ Elsewhere(go.signal)]

\* evaluateOnce: the re-ask in flight is waited for first, and no other.
StartEvaluation(signal, departure, clears) ==
    LET go == [NoFlight EXCEPT !.signal = signal, !.departure = departure, !.clears = clears]
    IN  IF tracked # NoRequest
        THEN flight' = [go EXCEPT !.pc = "reask", !.on = tracked] /\ UNCHANGED <<db, missed>>
        ELSE Evaluate(go)

\* An input withdrawn from behind the evaluation leaves its callers waiting for
\* the evaluation itself.
submit(signal, departure, withdraws, clears) ==
    IF flight.pc = "off" THEN StartEvaluation(signal, departure, clears) /\ UNCHANGED trailing
    ELSE IF flight.signal = signal
    THEN /\ flight' = [flight EXCEPT !.clears = @ \/ clears]
         /\ trailing' = IF withdraws THEN [NoTrailing EXCEPT !.clears = trailing.clears] ELSE trailing
         /\ missed' = [missed EXCEPT !.ask = @ \/ (flight.pc # "reask" /\ Elsewhere(signal))]
         /\ UNCHANGED db
    ELSE /\ trailing' = [pc |-> "queued", signal |-> signal, departure |-> departure,
                         clears |-> trailing.clears \/ clears]
         /\ UNCHANGED <<db, flight, missed>>

\* The effect of a render whose input changed.
followRender ==
    /\ Ready /\ want.owed
    /\ want' = [want EXCEPT !.owed = FALSE]
    /\ submit(want.signal, want.departure, TRUE, FALSE)
    /\ UNCHANGED <<outfits, ui, req, latest, tracked, budget, changes>>

\* Today opens, or a pull finds outfits.
evaluate ==
    /\ Ready /\ changes < MaxChanges
    /\ changes' = changes + 1
    /\ submit(want.signal, want.departure, FALSE, TRUE)
    /\ UNCHANGED <<want, outfits, ui, req, latest, tracked, budget>>

\* The re-ask it waited for has settled.
EvaluationGoesOn ==
    /\ flight.pc = "resume"
    /\ Evaluate(flight)
    /\ UNCHANGED <<want, outfits, ui, req, latest, trailing, tracked, budget, changes>>

\* The callers whose evaluation this was, an input withdrawn behind it included.
Clearing == ~flight.triggered /\ (flight.clears \/ (trailing.pc = "off" /\ trailing.clears))

\* Mutant: an evaluation that ends drops what was queued behind it.
EvaluationEndsAlone ==
    /\ flight.pc = "ended"
    /\ flight' = NoFlight /\ trailing' = NoTrailing
    /\ ui' = [ui EXCEPT !.failed = @ /\ ~Clearing]
    /\ UNCHANGED <<want, outfits, req, latest, db, tracked, budget, missed, changes>>

\* Its callers go on (clearLastFailure), then what is queued runs.
EvaluationEnds ==
    /\ flight.pc = "ended"
    /\ ui' = [ui EXCEPT !.failed = @ /\ ~Clearing]
    /\ trailing' = NoTrailing
    /\ IF trailing.pc = "queued"
       THEN StartEvaluation(trailing.signal, trailing.departure, trailing.clears)
       ELSE flight' = NoFlight /\ UNCHANGED <<db, missed>>
    /\ UNCHANGED <<want, outfits, req, latest, tracked, budget, changes>>

-----------------------------------------------------------------------------
(* One request.                                                              *)

\* The evaluation that waits for x, a request or a re-ask, goes on.
Awoken(x) ==
    IF flight.on # x THEN flight
    ELSE [flight EXCEPT !.pc = IF @ = "wait" THEN "ended" ELSE "resume", !.on = NoRequest]

\* Mutant: a re-ask that ends stays in the way of evaluations.
FinishTracked(r, failed) ==
    /\ req' = [req EXCEPT ![r] = Off]
    /\ latest' = IF latest = r THEN NoRequest ELSE latest
    /\ ui' = [ui EXCEPT !.refreshing = @ /\ latest # r, !.failed = @ \/ failed]
    /\ flight' = Awoken(r)
    /\ UNCHANGED tracked

\* A request that ends without a new outfit shown; note says what it says.
Finish(r, failed) ==
    /\ req' = [req EXCEPT ![r] = Off]
    /\ latest' = IF latest = r THEN NoRequest ELSE latest
    /\ ui' = [ui EXCEPT !.refreshing = @ /\ latest # r, !.failed = @ \/ failed]
    /\ flight' = Awoken(r)
    /\ tracked' = IF tracked = r THEN NoRequest ELSE tracked

\* Mutant: a superseded request saves its outfit all the same.
SaveAnyway(r) ==
    IF ~ui.repository THEN Finish(r, TRUE) /\ missed' = [missed EXCEPT !.save = TRUE] /\ UNCHANGED db
    ELSE /\ req' = [req EXCEPT ![r].pc = "save"]
         /\ db' = Append(db, [job |-> "read", r |-> r, by |-> "save"])
         /\ UNCHANGED <<ui, latest, flight, tracked, missed>>

SaveIfLatest(r) ==
    IF latest # r THEN Finish(r, FALSE) /\ UNCHANGED <<db, missed>>
    ELSE IF ~ui.repository THEN Finish(r, TRUE) /\ missed' = [missed EXCEPT !.save = TRUE] /\ UNCHANGED db
    ELSE /\ req' = [req EXCEPT ![r].pc = "save"]
         /\ db' = Append(db, [job |-> "read", r |-> r, by |-> "save"])
         /\ UNCHANGED <<ui, latest, flight, tracked, missed>>

\* The standard composition, which may throw.
Compose(r) ==
    \/ Finish(r, TRUE) /\ missed' = [missed EXCEPT !.save = TRUE] /\ UNCHANGED db
    \/ SaveIfLatest(r)

\* Mutant: the allowance is compared one too late.
ReserveOnePast(r) ==
    /\ req[r].pc = "reserve"
    /\ \/ /\ budget.count <= DailyLimit
          /\ budget' = [budget EXCEPT !.count = @ + 1]
          /\ req' = [req EXCEPT ![r].pc = "ask", ![r].asked = TRUE]
       \/ /\ req' = [req EXCEPT ![r].pc = "skip", ![r].aiPending = FALSE]
          /\ UNCHANGED budget
    /\ UNCHANGED <<want, outfits, ui, latest, db, flight, trailing, tracked, missed, changes>>

\* The allowance is asked for; a file that fails denies it.
reserveAiReask(r) ==
    /\ req[r].pc = "reserve"
    /\ \/ /\ budget.count < DailyLimit
          /\ budget' = [budget EXCEPT !.count = @ + 1]
          /\ req' = [req EXCEPT ![r].pc = "ask", ![r].asked = TRUE]
       \/ /\ req' = [req EXCEPT ![r].pc = "skip", ![r].aiPending = FALSE]
          /\ UNCHANGED budget
    /\ UNCHANGED <<want, outfits, ui, latest, db, flight, trailing, tracked, missed, changes>>

\* Last evening's preview serves again, or the AI is asked.
loadPreview(r) ==
    /\ req[r].pc = "preview"
    /\ \/ req' = [req EXCEPT ![r].pc = "skip", ![r].got = TRUE, ![r].aiPending = FALSE]
       \/ req' = [req EXCEPT ![r].pc = "ask", ![r].asked = TRUE]
    /\ UNCHANGED <<want, outfits, ui, latest, db, flight, trailing, tracked, budget, missed, changes>>

\* Mutant: any failure gives the slot back.
AnswerRefundingAll(r) ==
    /\ req[r].pc = "ask"
    /\ \E reached, answered \in BOOLEAN :
        /\ answered => reached
        /\ req' = [req EXCEPT ![r].got = answered,
                              ![r].pc = IF req[r].reask /\ ~answered THEN "release" ELSE "skip",
                              ![r].aiPending = req[r].reask /\ ~answered]
        /\ budget' = [budget EXCEPT !.sent = @ + (IF req[r].reask /\ reached THEN 1 ELSE 0)]
    /\ UNCHANGED <<want, outfits, ui, latest, db, flight, trailing, tracked, missed, changes>>

\* The chain answers or fails; a failure may have reached the Worker.
recommendRouted(r) ==
    /\ req[r].pc = "ask"
    /\ \E reached, answered \in BOOLEAN :
        /\ answered => reached
        /\ req' = [req EXCEPT ![r].got = answered,
                              ![r].pc = IF req[r].reask /\ ~reached THEN "release" ELSE "skip",
                              ![r].aiPending = req[r].reask /\ ~reached]
        /\ budget' = [budget EXCEPT !.sent = @ + (IF req[r].reask /\ reached THEN 1 ELSE 0)]
    /\ UNCHANGED <<want, outfits, ui, latest, db, flight, trailing, tracked, missed, changes>>

\* The slot is given back, unless its file fails.
releaseAiReask(r) ==
    /\ req[r].pc = "release"
    /\ budget' \in {budget, [budget EXCEPT !.count = IF @ = 0 THEN 0 ELSE @ - 1]}
    /\ req' = [req EXCEPT ![r].pc = "skip", ![r].aiPending = FALSE]
    /\ UNCHANGED <<want, outfits, ui, latest, db, flight, trailing, tracked, missed, changes>>

\* Once a skip of the wait has been saved, the answer is used, or what the skip
\* saved stands, or the standard outfits are shown after a moment.
refreshOnce(r) ==
    /\ req[r].pc = "skip" /\ req[r].skip # "saving"
    /\ IF req[r].got THEN SaveIfLatest(r)
       ELSE IF req[r].skip = "done" /\ outfits.shown # NoOutfit
       THEN Finish(r, FALSE) /\ UNCHANGED <<db, missed>>
       ELSE IF req[r].asked
       THEN req' = [req EXCEPT ![r].pc = "hold"] /\ UNCHANGED <<ui, latest, db, flight, tracked, missed>>
       ELSE Compose(r)
    /\ UNCHANGED <<want, outfits, trailing, budget, changes>>

holdPhase(r) ==
    /\ req[r].pc = "hold"
    /\ Compose(r)
    /\ UNCHANGED <<want, outfits, trailing, budget, changes>>

\* Show the standard outfits now; the answer is still awaited.
skipWait ==
    /\ latest # NoRequest /\ changes < MaxChanges
    /\ req[latest].aiPending /\ req[latest].skip = "none"
    /\ changes' = changes + 1
    /\ \/ /\ ui.repository
          /\ req' = [req EXCEPT ![latest].skip = "saving"]
          /\ db' = Append(db, [job |-> "read", r |-> latest, by |-> "skip"])
          /\ UNCHANGED <<ui, missed>>
       \/ /\ req' = [req EXCEPT ![latest].skip = "done"]
          /\ ui' = [ui EXCEPT !.failed = TRUE] /\ missed' = [missed EXCEPT !.save = TRUE]
          /\ UNCHANGED db
    /\ UNCHANGED <<want, outfits, latest, flight, trailing, tracked, budget>>

-----------------------------------------------------------------------------
(* What SQLite answers, first asked first.                                   *)

Key(signal, departure, reask) ==
    <<signal, departure, IF reask THEN 0 ELSE outfits.shown.n>>
KeyOf(r) == <<req[r].signal, req[r].departure, req[r].excluded>>

\* SQLite has an outfit of request r, or of another, to store.
Storing(r) == \E i \in 1..Len(db) : db[i].job # "worn" /\ db[i].r = r
OthersStoring(r) == \E i \in 1..Len(db) : db[i].job # "worn" /\ db[i].r # r

\* The callers of a refresh that prepared nothing go on.
Unprepared(j) ==
    /\ ui' = [ui EXCEPT !.failed = TRUE]
    /\ flight' = IF j.by = "evaluation" THEN [flight EXCEPT !.pc = "ended"]
                 ELSE IF j.by = "reask" THEN Awoken(j.id) ELSE flight
    /\ tracked' = IF j.by = "reask" /\ tracked = j.id THEN NoRequest ELSE tracked
    /\ missed' = [missed EXCEPT !.ask = TRUE]
    /\ UNCHANGED <<req, latest>>

\* The callers of a refresh wait for request r.
WaitFor(j, r) ==
    /\ flight' = IF j.by = "evaluation" THEN [flight EXCEPT !.pc = "wait", !.on = r]
                 ELSE IF j.by = "reask" /\ flight.on = j.id THEN [flight EXCEPT !.on = r]
                 ELSE flight
    /\ tracked' = IF j.by = "reask" /\ tracked = j.id THEN r ELSE tracked

\* History: a request is joined too late when another's outfit will be stored
\* over its own; or when a skip of it was saved, so that it may end with what is
\* shown, and that is for other settings or not what is or will be stored.
JoinMisses(r) ==
    LET skipped == req[r].skip = "done"
    IN  [ask |-> missed.ask \/ (skipped /\ outfits.shown.signal # req[r].signal),
         save |-> missed.save \/ (skipped /\ (OthersStoring(r) \/ outfits.shown # outfits.stored)),
         late |-> Storing(r) /\ OthersStoring(r)]

\* Mutant: joining a request in flight leaves the newer one the latest.
JoinLeavingLatest(j, r) ==
    /\ WaitFor(j, r)
    /\ ui' = [ui EXCEPT !.refreshing = TRUE]
    /\ missed' = JoinMisses(r)
    /\ UNCHANGED <<req, latest>>

Join(j, r) ==
    /\ WaitFor(j, r)
    /\ latest' = r
    /\ ui' = [ui EXCEPT !.refreshing = TRUE]
    /\ missed' = JoinMisses(r)
    /\ UNCHANGED req

\* Without enough options there is nothing to ask the AI.
Begin(j, r) ==
    /\ ~Active(r)
    /\ WaitFor(j, r)
    /\ latest' = r
    /\ ui' = [ui EXCEPT !.refreshing = TRUE]
    /\ missed' = [missed EXCEPT !.late = FALSE]
    /\ \E ask \in BOOLEAN :
        req' = [req EXCEPT ![r] =
            [Off EXCEPT !.pc = IF ~ask THEN "skip" ELSE IF j.by = "reask" THEN "reserve" ELSE "preview",
                        !.signal = j.signal, !.departure = j.departure,
                        !.excluded = IF j.by = "reask" THEN 0 ELSE outfits.shown.n,
                        !.reask = j.by = "reask", !.aiPending = ask]]

refreshPrepared(j) ==
    LET same == {r \in Requests : Active(r) /\ KeyOf(r) = Key(j.signal, j.departure, j.by = "reask")}
    IN  \/ Unprepared(j)
        \/ \E r \in same : Join(j, r)
        \/ same = {} /\ \E r \in Requests : Begin(j, r)

\* A skip's failure only tells; the request goes on.
SaveFails(j) ==
    IF j.by = "save" THEN Finish(j.r, TRUE)
    ELSE /\ req' = [req EXCEPT ![j.r].skip = "done"]
         /\ ui' = [ui EXCEPT !.failed = TRUE]
         /\ UNCHANGED <<latest, flight, tracked>>

\* The outfit is stored, and shown if no later request has been made.
Saved(j, outfit) ==
    LET shows == latest = j.r
    IN  /\ outfits' = [outfits EXCEPT !.stored = outfit, !.shown = IF shows THEN outfit ELSE @]
        /\ missed' = [missed EXCEPT !.save = IF shows THEN missed.late /\ OthersStoring(j.r) ELSE @]
        /\ req' = [req EXCEPT ![j.r] = IF j.by = "save" THEN Off ELSE [@ EXCEPT !.skip = "done"]]
        /\ IF j.by = "save" THEN /\ latest' = IF shows THEN NoRequest ELSE latest
                                 /\ tracked' = IF tracked = j.r THEN NoRequest ELSE tracked
                                 /\ flight' = Awoken(j.r)
           ELSE UNCHANGED <<latest, tracked, flight>>
        /\ ui' = [ui EXCEPT !.failed = @ /\ ~shows, !.refreshing = @ /\ ~(shows /\ j.by = "save")]

AnswerWorn ==
    /\ db # <<>> /\ Head(db).job = "worn"
    /\ db' = Tail(db)
    /\ refreshPrepared(Head(db))
    /\ UNCHANGED <<want, outfits, trailing, budget, changes>>

\* saveSnapshot reads the row before it writes it.
AnswerRead ==
    /\ db # <<>> /\ Head(db).job = "read"
    /\ LET j == Head(db)
       IN  \/ /\ outfits.made < MaxOutfits
              /\ outfits' = [outfits EXCEPT !.made = @ + 1]
              /\ db' = Append(Tail(db), [job |-> "write", r |-> j.r, by |-> j.by, n |-> outfits.made + 1])
              /\ UNCHANGED <<ui, req, latest, flight, tracked, missed>>
           \/ /\ SaveFails(j) /\ missed' = [missed EXCEPT !.save = TRUE]
              /\ db' = Tail(db) /\ UNCHANGED outfits
    /\ UNCHANGED <<want, trailing, budget, changes>>

AnswerWrite ==
    /\ db # <<>> /\ Head(db).job = "write"
    /\ db' = Tail(db)
    /\ LET j == Head(db)
       IN  \/ Saved(j, [n |-> j.n, signal |-> req[j.r].signal])
           \/ SaveFails(j) /\ missed' = [missed EXCEPT !.save = TRUE] /\ UNCHANGED outfits
    /\ UNCHANGED <<want, trailing, budget, changes>>

-----------------------------------------------------------------------------
(* The person, and the process.                                              *)

\* The effects of a render have run before the person's next touch.
Changes(signal, departure) ==
    /\ Ready /\ ~want.owed /\ changes < MaxChanges
    /\ changes' = changes + 1
    /\ want' = [signal |-> signal, departure |-> departure, owed |-> TRUE]

\* A setting of the profile or the place: only the next render tells.
ChangeSetting ==
    /\ \E s \in Signals \ {want.signal} : Changes(s, want.departure)
    /\ UNCHANGED <<outfits, ui, req, latest, db, flight, trailing, tracked, budget, missed>>

\* A formality for the day asks at once, before the render.
chooseFormality ==
    /\ \E s \in Signals :
        Changes(s, want.departure) /\ db' = Append(db, Worn(s, want.departure, "direct", 0))
    /\ UNCHANGED <<outfits, ui, req, latest, flight, trailing, tracked, budget, missed>>

setDeparture ==
    /\ Changes(want.signal, 1 - want.departure)
    /\ db' = Append(db, Worn(want.signal, 1 - want.departure, "direct", 0))
    /\ UNCHANGED <<outfits, ui, req, latest, flight, trailing, tracked, budget, missed>>

\* A re-ask, with the formality it was confirmed for, is tracked until it settles.
reask ==
    /\ \E s \in Signals :
        Changes(s, want.departure) /\ db' = Append(db, Worn(s, want.departure, "reask", changes'))
    /\ tracked' = changes'
    /\ UNCHANGED <<outfits, ui, req, latest, flight, trailing, budget, missed>>

\* The stored outfit is read; the first render with it owes an evaluation.
initialize ==
    /\ ui.status = "loading"
    /\ \E opens, reads \in BOOLEAN :
        /\ ui' = [ui EXCEPT !.status = "ready", !.repository = opens, !.failed = ~(opens /\ reads)]
        /\ outfits' = [outfits EXCEPT !.shown = IF opens /\ reads THEN outfits.stored ELSE NoOutfit]
        /\ missed' = [NoMiss EXCEPT !.save = ~(opens /\ reads)]
    /\ want' = [want EXCEPT !.owed = TRUE]
    /\ UNCHANGED <<req, latest, db, flight, trailing, tracked, budget, changes>>

\* The process ends, between any two awaits; the row and the file stay.
ProcessEnds ==
    /\ Ready /\ changes < MaxChanges
    /\ changes' = changes + 1
    /\ outfits' = [outfits EXCEPT !.shown = NoOutfit]
    /\ ui' = [status |-> "loading", refreshing |-> FALSE, failed |-> FALSE, repository |-> FALSE]
    /\ req' = [r \in Requests |-> Off]
    /\ latest' = NoRequest /\ db' = <<>>
    /\ flight' = NoFlight /\ trailing' = NoTrailing /\ tracked' = NoRequest
    /\ missed' = NoMiss
    /\ UNCHANGED <<want, budget>>

Resumes == EvaluationEnds \/ EvaluationGoesOn
Resuming == flight.pc \in {"ended", "resume"}

RequestStep(r) ==
    \/ reserveAiReask(r) \/ loadPreview(r) \/ recommendRouted(r) \/ releaseAiReask(r)
    \/ refreshOnce(r) \/ holdPhase(r)
Answers == AnswerWorn \/ AnswerRead \/ AnswerWrite

Next ==
    \/ Resumes
    \/ /\ ~Resuming
       /\ \/ \E r \in Requests : RequestStep(r)
          \/ Answers
          \/ followRender \/ evaluate \/ skipWait
          \/ ChangeSetting \/ chooseFormality \/ setDeparture \/ reask
          \/ initialize \/ ProcessEnds

Spec == Init /\ [][Next]_vars

-----------------------------------------------------------------------------
\* Every variable has its type; a day's count stays within its allowance.
TypeOK ==
    /\ want \in [signal : Signals, departure : 0..1, owed : BOOLEAN]
    /\ outfits.shown.n \in 0..MaxOutfits /\ outfits.stored.n \in 0..MaxOutfits
    /\ ui \in [status : {"loading", "ready"}, refreshing : BOOLEAN, failed : BOOLEAN, repository : BOOLEAN]
    /\ \A r \in Requests :
        req[r].pc \in {"off", "reserve", "preview", "ask", "release", "skip", "hold", "save"}
    /\ latest \in Requests \cup {NoRequest}
    /\ flight.pc \in {"off", "reask", "resume", "worn", "wait", "ended"}
    /\ trailing.pc \in {"off", "queued"}
    /\ tracked \in Requests \cup {NoRequest} \cup 1..MaxChanges
    /\ budget \in [count : 0..DailyLimit, sent : Nat]

Quiet ==
    /\ Ready /\ ~want.owed /\ flight.pc = "off" /\ db = <<>> /\ \A r \in Requests : ~Active(r)

\* Once nothing is under way, the outfit shown is for the settings in force, or
\* a failure is shown, whichever requests were superseded, joined, skipped or
\* withdrawn on the way; unless, since an evaluation last asked, a refresh could
\* not ask or joined a request skipped for other settings, or an evaluation
\* asked for nothing while what was asked for beside it was for other settings.
FitsTheSettings == Quiet => outfits.shown.signal = want.signal \/ ui.failed \/ missed.ask

\* Once nothing is under way, what is shown is what the next launch will show,
\* unless since an outfit was last shown a save failed, or a refresh joined a
\* request that another's save came behind, or one skipped while another's
\* outfit was stored.
ShowsWhatIsStored == Quiet => outfits.shown = outfits.stored \/ missed.save

\* At rest: once nothing is under way, what is shown is right and is stored.
RestsRight == FitsTheSettings /\ ShowsWhatIsStored

\* Today says that it is choosing exactly while the latest request is in flight.
BusyShown == Ready => (ui.refreshing <=> latest # NoRequest)

\* No more re-asks of a day reach the Worker than its allowance, whatever was
\* given back.
AllowanceHeld == budget.sent <= budget.count

\* Everyone who waits waits for something that will answer: an evaluation for a
\* request in flight or a re-ask, a re-ask's followers for it, a request for
\* SQLite.
Answering(x) ==
    IF x \in Requests THEN Active(x)
    ELSE \E i \in 1..Len(db) : db[i].job = "worn" /\ db[i].by = "reask" /\ db[i].id = x
NobodyLeftWaiting ==
    /\ flight.pc = "wait" => Active(flight.on)
    /\ flight.pc = "worn" => \E i \in 1..Len(db) : db[i].job = "worn" /\ db[i].by = "evaluation"
    /\ flight.pc = "reask" => Answering(flight.on)
    /\ tracked # NoRequest => Answering(tracked)
    /\ trailing.pc = "queued" => flight.pc # "off"
    /\ \A r \in Requests : req[r].pc = "save" \/ req[r].skip = "saving" => Storing(r)

\* The state hangs together: Today's indicator is right and nobody waits for an
\* answer that will not come.
Consistent == TypeOK /\ BusyShown /\ NobodyLeftWaiting
=============================================================================
