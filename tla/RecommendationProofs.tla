------------------------ MODULE RecommendationProofs ------------------------
(***************************************************************************)
(* Proofs about Recommendation: that Today's indicator is right and nobody    *)
(* waits for an answer that will not come, that the day's allowance holds,    *)
(* and that what is shown at rest fits the settings in force and is what is   *)
(* stored, for any number of requests, settings and outfits.                  *)
(***************************************************************************)
EXTENDS Recommendation, FiniteSetTheorems, SequenceTheorems, TLAPS

Chosen == Signals \cup {NoSignal}
Outfits == [n : 0..MaxOutfits, signal : Chosen]
Pending == [pc : {"off", "reserve", "preview", "ask", "release", "skip", "hold", "save"},
            signal : Chosen, departure : 0..1, excluded : 0..MaxOutfits, reask : BOOLEAN,
            aiPending : BOOLEAN, asked : BOOLEAN, got : BOOLEAN, skip : {"none", "saving", "done"}]
Awaitable == Requests \cup {NoRequest} \cup 1..MaxChanges
Evaluations == [pc : {"off", "reask", "resume", "worn", "wait", "ended"}, signal : Chosen, departure : 0..1,
                on : Awaitable, triggered : BOOLEAN, clears : BOOLEAN]
Behind == [pc : {"off", "queued"}, signal : Chosen, departure : 0..1, clears : BOOLEAN]
WornJobs == [job : {"worn"}, signal : Chosen, departure : 0..1, by : {"evaluation", "direct", "reask"},
             id : 0..MaxChanges]
ReadJobs == [job : {"read"}, r : Requests, by : {"save", "skip"}]
WriteJobs == [job : {"write"}, r : Requests, by : {"save", "skip"}, n : 0..MaxOutfits]
Jobs == WornJobs \cup ReadJobs \cup WriteJobs
Misses == [save : BOOLEAN, ask : BOOLEAN, late : BOOLEAN]

\* The types alone.
Types ==
    /\ want \in [signal : Signals, departure : 0..1, owed : BOOLEAN]
    /\ outfits \in [shown : Outfits, stored : Outfits, made : 0..MaxOutfits]
    /\ ui \in [status : {"loading", "ready"}, refreshing : BOOLEAN, failed : BOOLEAN, repository : BOOLEAN]
    /\ req \in [Requests -> Pending] /\ latest \in Requests \cup {NoRequest}
    /\ db \in Seq(Jobs) /\ flight \in Evaluations /\ trailing \in Behind
    /\ tracked \in Awaitable
    /\ budget \in [count : 0..DailyLimit, sent : Nat]
    /\ missed \in Misses /\ changes \in 0..MaxChanges

-----------------------------------------------------------------------------
(* What the operators return.                                                *)

LEMMA ConstantFacts ==
    /\ 0 \in 0..MaxOutfits /\ NoOutfit \in Outfits /\ Off \in Pending /\ NoFlight \in Evaluations
    /\ NoTrailing \in Behind /\ NoRequest \notin Requests /\ NoMiss \in Misses
    /\ MaxChanges \in Nat /\ Requests \subseteq Awaitable /\ NoRequest \in Awaitable
    /\ \A n \in Nat : n \notin Requests /\ n # NoRequest
<1>1. /\ 0 \in 0..MaxOutfits /\ NoRequest \notin Requests /\ MaxChanges \in Nat
      /\ \A n \in Nat : n \notin Requests /\ n # NoRequest
  BY RecommendationAssumption
<1> QED
  BY <1>1 DEF NoOutfit, Outfits, Off, Pending, NoFlight, Evaluations, NoTrailing, Behind, Chosen, NoMiss, Misses,
     Awaitable

\* What is asked of SQLite, whatever the order.
Among(s) == {s[i] : i \in 1..Len(s)}
Asked == Among(db)

LEMMA AppendFacts ==
    ASSUME NEW s \in Seq(Jobs), NEW e \in Jobs
    PROVE  /\ Append(s, e) \in Seq(Jobs) /\ Among(Append(s, e)) = Among(s) \cup {e}
           /\ Len(s) \in Nat /\ Len(Append(s, e)) = Len(s) + 1 /\ Append(s, e)[Len(s) + 1] = e
           /\ \A i \in 1..Len(s) : Append(s, e)[i] = s[i]
<1> DEFINE t == Append(s, e)
<1>1. /\ t \in Seq(Jobs) /\ Len(t) = Len(s) + 1 /\ t[Len(s) + 1] = e
      /\ \A i \in 1..Len(s) : t[i] = s[i]
  BY AppendProperties
<1>2. Len(s) \in Nat
  BY LenProperties
<1>3. 1..Len(t) = 1..Len(s) \cup {Len(s) + 1}
  BY <1>1, <1>2
<1>4. Among(t) = Among(s) \cup {e}
  <2> HIDE DEF t
  <2> QED
    BY <1>1, <1>3 DEF Among
<1> QED
  BY <1>1, <1>2, <1>4

LEMMA TailFacts ==
    ASSUME NEW s \in Seq(Jobs), s # <<>>
    PROVE  /\ Tail(s) \in Seq(Jobs) /\ Head(s) \in Jobs /\ Head(s) \in Among(s) /\ Head(s) = s[1]
           /\ Among(s) = Among(Tail(s)) \cup {Head(s)} /\ Len(s) \in Nat \ {0}
           /\ Len(Tail(s)) = Len(s) - 1 /\ \A i \in 1..Len(Tail(s)) : Tail(s)[i] = s[i + 1]
<1> DEFINE t == Tail(s)
<1>1. /\ t \in Seq(Jobs) /\ Head(s) \in Jobs /\ Len(t) = Len(s) - 1
      /\ \A i \in 1..Len(t) : t[i] = s[i + 1]
  BY HeadTailProperties
<1>2. Len(s) \in Nat \ {0} /\ Head(s) = s[1]
  BY EmptySeq, LenProperties
<1> HIDE DEF t
<1>3. ASSUME NEW e \in Among(s) PROVE e \in Among(t) \cup {Head(s)}
  <2>1. PICK i \in 1..Len(s) : e = s[i]
    BY DEF Among
  <2>2. CASE i = 1
    BY <2>1, <2>2, <1>2
  <2>3. CASE i # 1
    <3>1. i - 1 \in 1..Len(t) /\ t[i - 1] = s[i]
      BY <2>3, <1>1, <1>2
    <3> QED
      BY <3>1, <2>1 DEF Among
  <2> QED
    BY <2>2, <2>3
<1>4. Head(s) \in Among(s)
  BY <1>2 DEF Among
<1>5. ASSUME NEW e \in Among(t) PROVE e \in Among(s)
  <2>1. PICK i \in 1..Len(t) : e = t[i]
    BY DEF Among
  <2>2. i + 1 \in 1..Len(s) /\ e = s[i + 1]
    BY <2>1, <1>1, <1>2
  <2> QED
    BY <2>2 DEF Among
<1>6. Among(s) = Among(t) \cup {Head(s)}
  BY <1>3, <1>4, <1>5
<1> QED
  BY <1>1, <1>2, <1>4, <1>6 DEF t

LEMMA AskedTypes ==
    ASSUME Types
    PROVE  /\ \A e \in Asked : e \in Jobs
           /\ \A e \in Asked : e.job = "worn" => e \in WornJobs
           /\ \A e \in Asked : e.job = "read" => e \in ReadJobs
           /\ \A e \in Asked : e.job = "write" => e \in WriteJobs
           /\ \A e \in Asked : e.job # "worn" => e.r \in Requests /\ e.by \in {"save", "skip"}
<1>1. \A e \in Asked : e \in Jobs
  BY DEF Asked, Among, Types
<1> QED
  BY <1>1 DEF Jobs, WornJobs, ReadJobs, WriteJobs

\* The evaluation that starts here.
Evaluates(e) == e \in WornJobs /\ e.by = "evaluation" /\ db' = Append(db, e)
\* What was not saved, or joined too late, stays on record.
SavesKept == missed' \in Misses /\ missed'.save = missed.save /\ missed'.late = missed.late

LEMMA EvaluateFacts ==
    ASSUME Types, NEW go \in Evaluations, Evaluate(go)
    PROVE  /\ flight' \in Evaluations /\ flight'.pc \in {"worn", "ended"} /\ flight'.on = go.on /\ SavesKept
           /\ \/ db' = db /\ flight'.pc # "worn"
              \/ \E e : Evaluates(e) /\ flight'.pc = "worn"
<1>1. /\ [go EXCEPT !.pc = "worn", !.triggered = TRUE] \in Evaluations
      /\ [go EXCEPT !.pc = "ended"] \in Evaluations
  BY DEF Evaluations
<1>2. Worn(go.signal, go.departure, "evaluation", 0) \in WornJobs
      /\ Worn(go.signal, go.departure, "evaluation", 0).by = "evaluation"
  BY ConstantFacts DEF Worn, WornJobs, Evaluations
<1>3. SavesKept
  BY DEF Evaluate, SavesKept, Types, Misses
<1>4. CASE outfits.shown.signal # go.signal
  <2>1. Evaluates(Worn(go.signal, go.departure, "evaluation", 0))
    BY <1>4, <1>2 DEF Evaluate, Evaluates
  <2>2. flight' \in Evaluations /\ flight'.pc = "worn" /\ flight'.on = go.on
    BY <1>1, <1>4 DEF Evaluate, Evaluations
  <2> QED
    BY <1>3, <2>1, <2>2
<1>5. CASE outfits.shown.signal = go.signal
  BY <1>1, <1>3, <1>5 DEF Evaluate, Evaluations
<1> QED
  BY <1>4, <1>5

\* It waits for the re-ask in flight, or decides.
LEMMA StartFacts ==
    ASSUME Types, NEW signal \in Chosen, NEW departure \in 0..1, NEW clears \in BOOLEAN,
           StartEvaluation(signal, departure, clears)
    PROVE  /\ flight' \in Evaluations /\ flight'.pc \in {"reask", "worn", "ended"} /\ SavesKept
           /\ IF flight'.pc = "reask" THEN flight'.on = tracked /\ tracked # NoRequest
              ELSE flight'.on = NoRequest
           /\ \/ db' = db /\ flight'.pc # "worn"
              \/ \E e : Evaluates(e) /\ flight'.pc = "worn"
<1> DEFINE go == [NoFlight EXCEPT !.signal = signal, !.departure = departure, !.clears = clears]
<1>1. go \in Evaluations /\ [go EXCEPT !.pc = "reask", !.on = tracked] \in Evaluations
  BY ConstantFacts DEF Evaluations, Types
<1>2. go.on = NoRequest
  BY DEF NoFlight
<1>3. CASE tracked # NoRequest
  <2>1. flight' = [go EXCEPT !.pc = "reask", !.on = tracked] /\ db' = db /\ missed' = missed
    BY <1>3 DEF StartEvaluation
  <2>2. flight' \in Evaluations /\ flight'.pc = "reask" /\ flight'.on = tracked
    BY <1>1, <2>1 DEF Evaluations
  <2> QED
    BY <1>3, <2>1, <2>2 DEF SavesKept, Types
<1>4. CASE tracked = NoRequest
  <2>1. Evaluate(go)
    BY <1>4 DEF StartEvaluation
  <2> HIDE DEF go
  <2> QED
    BY <1>1, <1>2, <2>1, EvaluateFacts
<1> QED
  BY <1>3, <1>4

LEMMA SubmitFacts ==
    ASSUME Types, NEW signal \in Chosen, NEW departure \in 0..1, NEW withdraws \in BOOLEAN,
           NEW clears \in BOOLEAN, submit(signal, departure, withdraws, clears)
    PROVE  /\ flight' \in Evaluations /\ flight'.pc # "off" /\ trailing' \in Behind /\ SavesKept
           /\ \/ flight.pc # "off" /\ flight'.pc = flight.pc /\ flight'.on = flight.on
              \/ flight'.pc = "reask" /\ flight'.on = tracked /\ tracked # NoRequest
              \/ flight'.pc \in {"worn", "ended"} /\ flight'.on = NoRequest
           /\ \/ db' = db /\ (flight'.pc = "worn" => flight.pc = "worn")
              \/ \E e : Evaluates(e)
<1>0. trailing \in Behind /\ flight \in Evaluations /\ missed \in Misses
  BY DEF Types
<1>1. CASE flight.pc = "off"
  <2>1. StartEvaluation(signal, departure, clears) /\ trailing' = trailing
    BY <1>1 DEF submit
  <2> QED
    BY <1>0, <2>1, StartFacts
<1>2. CASE flight.pc # "off" /\ flight.signal = signal
  <2>1. flight' = [flight EXCEPT !.clears = @ \/ clears] /\ db' = db
    BY <1>2 DEF submit
  <2>2. flight' \in Evaluations /\ flight'.pc = flight.pc /\ flight'.on = flight.on
    BY <1>0, <2>1 DEF Evaluations
  <2>3. [NoTrailing EXCEPT !.clears = trailing.clears] \in Behind
    BY <1>0, ConstantFacts DEF Behind
  <2>4. trailing' \in Behind
    BY <1>0, <1>2, <2>3 DEF submit
  <2>5. SavesKept
    BY <1>0, <1>2 DEF submit, SavesKept, Misses
  <2> QED
    BY <1>2, <2>1, <2>2, <2>4, <2>5
<1>3. CASE flight.pc # "off" /\ flight.signal # signal
  <2>1. /\ flight' = flight /\ db' = db /\ missed' = missed
        /\ trailing' = [pc |-> "queued", signal |-> signal, departure |-> departure,
                        clears |-> trailing.clears \/ clears]
    BY <1>3 DEF submit
  <2> QED
    BY <1>0, <2>1, <1>3 DEF Behind, SavesKept
<1> QED
  BY <1>1, <1>2, <1>3

\* The evaluation goes on if it waits for x.
Stays == UNCHANGED flight
Goes(x) ==
    /\ flight.on = x /\ flight'.on = NoRequest /\ flight'.pc = IF flight.pc = "wait" THEN "ended" ELSE "resume"
    /\ flight'.signal = flight.signal /\ flight'.departure = flight.departure
    /\ flight'.triggered = flight.triggered /\ flight'.clears = flight.clears

LEMMA AwokenFacts ==
    ASSUME Types, NEW x, flight' = Awoken(x)
    PROVE  flight' \in Evaluations /\ ((flight.on # x /\ Stays) \/ Goes(x))
<1>1. CASE flight.on # x
  BY <1>1 DEF Awoken, Stays, Types
<1>2. CASE flight.on = x
  <2> DEFINE pc == IF flight.pc = "wait" THEN "ended" ELSE "resume"
  <2>1. flight' = [flight EXCEPT !.pc = pc, !.on = NoRequest]
    BY <1>2 DEF Awoken
  <2>2. pc \in {"ended", "resume"}
    OBVIOUS
  <2> HIDE DEF pc
  <2>3. flight' \in Evaluations
    BY <2>1, <2>2, ConstantFacts DEF Types, Evaluations
  <2> QED
    BY <1>2, <2>1, <2>3 DEF Goes, Types, Evaluations, pc
<1> QED
  BY <1>1, <1>2

LEMMA FinishFacts ==
    ASSUME Types, NEW r \in Requests, NEW failed \in BOOLEAN, Finish(r, failed)
    PROVE  /\ req' = [req EXCEPT ![r] = Off] /\ req' \in [Requests -> Pending]
           /\ latest' = (IF latest = r THEN NoRequest ELSE latest)
           /\ ui' \in [status : {ui.status}, refreshing : BOOLEAN, failed : BOOLEAN, repository : {ui.repository}]
           /\ ui'.refreshing = (ui.refreshing /\ latest # r)
           /\ flight' \in Evaluations /\ ((flight.on # r /\ Stays) \/ Goes(r))
           /\ tracked' = (IF tracked = r THEN NoRequest ELSE tracked) /\ tracked' \in Awaitable
<1>1. req' \in [Requests -> Pending]
  BY ConstantFacts DEF Finish, Types
<1>2. /\ ui' \in [status : {ui.status}, refreshing : BOOLEAN, failed : BOOLEAN, repository : {ui.repository}]
      /\ ui'.refreshing = (ui.refreshing /\ latest # r)
  BY DEF Finish, Types
<1>3. flight' \in Evaluations /\ ((flight.on # r /\ Stays) \/ Goes(r))
  BY AwokenFacts DEF Finish
<1>4. tracked' \in Awaitable
  BY ConstantFacts DEF Finish, Types
<1> QED
  BY <1>1, <1>2, <1>3, <1>4 DEF Finish

\* A request turns to saving its outfit.
Saves(r) ==
    /\ latest = r /\ ui.repository /\ req' = [req EXCEPT ![r].pc = "save"]
    /\ db' = Append(db, [job |-> "read", r |-> r, by |-> "save"])
    /\ UNCHANGED <<ui, latest, flight, tracked, missed>>
\* It ends, and tells if it had an outfit to save.
Ends(r) ==
    /\ \E failed \in BOOLEAN : Finish(r, failed)
    /\ missed' \in {missed, [missed EXCEPT !.save = TRUE]} /\ db' = db
    /\ latest = r => missed'.save

LEMMA SaveIfLatestFacts ==
    ASSUME Types, NEW r \in Requests, SaveIfLatest(r)
    PROVE  Saves(r) \/ Ends(r)
BY DEF SaveIfLatest, Saves, Ends, Types, Misses

LEMMA ComposeFacts ==
    ASSUME Types, NEW r \in Requests, Compose(r)
    PROVE  Saves(r) \/ Ends(r)
<1>1. CASE SaveIfLatest(r)
  BY <1>1, SaveIfLatestFacts
<1>2. CASE Finish(r, TRUE) /\ missed' = [missed EXCEPT !.save = TRUE] /\ UNCHANGED db
  BY <1>2 DEF Ends, Types, Misses
<1> QED
  BY <1>1, <1>2 DEF Compose

\* What one turn of refreshOnce or of the hold does.
LEMMA TurnFacts ==
    ASSUME Types, NEW r \in Requests, refreshOnce(r) \/ holdPhase(r)
    PROVE  /\ req[r].pc \in {"skip", "hold"} /\ (req[r].pc = "skip" => req[r].skip # "saving")
           /\ UNCHANGED <<want, outfits, trailing, budget, changes>>
           /\ \/ Saves(r) \/ Ends(r)
              \/ req[r].skip = "done" /\ Finish(r, FALSE) /\ UNCHANGED <<db, missed>>
              \/ /\ req[r].pc = "skip" /\ req' = [req EXCEPT ![r].pc = "hold"]
                 /\ UNCHANGED <<ui, latest, db, flight, tracked, missed>>
BY SaveIfLatestFacts, ComposeFacts DEF refreshOnce, holdPhase

\* A job for the worn outfits is answered: nothing was prepared, or its callers
\* wait for a request that is joined or made.
LEMMA UnpreparedFacts ==
    ASSUME Types, NEW j \in WornJobs, Unprepared(j)
    PROVE  /\ req' = req /\ latest' = latest /\ ui' = [ui EXCEPT !.failed = TRUE]
           /\ SavesKept /\ missed'.ask /\ flight' \in Evaluations /\ tracked' \in Awaitable
           /\ j.by = "evaluation" => flight'.pc = "ended" /\ flight'.on = flight.on
                                      /\ flight'.signal = flight.signal /\ flight'.triggered = flight.triggered
           /\ j.by = "direct" => Stays
           /\ j.by = "reask" => (flight.on # j.id /\ Stays) \/ Goes(j.id)
           /\ tracked' = NoRequest \/ (tracked' = tracked /\ ~(j.by = "reask" /\ tracked = j.id))
<1>1. missed \in Misses /\ flight \in Evaluations /\ tracked \in Awaitable
  BY DEF Types
<1>2. SavesKept /\ missed'.ask
  BY <1>1 DEF Unprepared, SavesKept, Misses
<1>3. j.by = "evaluation" => /\ flight' \in Evaluations /\ flight'.pc = "ended" /\ flight'.on = flight.on
                             /\ flight'.signal = flight.signal /\ flight'.triggered = flight.triggered
  BY <1>1 DEF Unprepared, Evaluations
<1>4. j.by = "direct" => Stays /\ flight' \in Evaluations
  BY <1>1 DEF Unprepared, Stays
<1>5. j.by = "reask" => flight' \in Evaluations /\ ((flight.on # j.id /\ Stays) \/ Goes(j.id))
  BY AwokenFacts DEF Unprepared
<1>6. j.by \in {"evaluation", "direct", "reask"}
  BY DEF WornJobs
<1> QED
  BY <1>1, <1>2, <1>3, <1>4, <1>5, <1>6, ConstantFacts DEF Unprepared

LEMMA WaitForFacts ==
    ASSUME Types, NEW j \in WornJobs, NEW r \in Requests, WaitFor(j, r)
    PROVE  /\ flight' \in Evaluations /\ tracked' \in Awaitable
           /\ flight'.signal = flight.signal /\ flight'.triggered = flight.triggered
           /\ j.by = "evaluation" => flight'.pc = "wait" /\ flight'.on = r
           /\ j.by # "evaluation" => flight'.pc = flight.pc
           /\ j.by # "evaluation" =>
                flight'.on = r \/ (flight'.on = flight.on /\ ~(j.by = "reask" /\ flight.on = j.id))
           /\ flight'.on = flight.on \/ j.by = "evaluation" \/ (j.by = "reask" /\ flight.on = j.id)
           /\ tracked' = r \/ (tracked' = tracked /\ ~(j.by = "reask" /\ tracked = j.id))
<1>1. flight \in Evaluations /\ tracked \in Awaitable /\ r \in Awaitable
  BY ConstantFacts DEF Types
<1> QED
  BY <1>1 DEF WaitFor, Evaluations

LEMMA JoinFacts ==
    ASSUME Types, NEW r \in Requests, missed' = JoinMisses(r)
    PROVE  /\ missed' \in Misses /\ (missed.save => missed'.save) /\ (missed.ask => missed'.ask)
           /\ missed'.late <=> (Storing(r) /\ OthersStoring(r))
           /\ req[r].skip = "done" /\ outfits.shown.signal # req[r].signal => missed'.ask
           /\ req[r].skip = "done" /\ (OthersStoring(r) \/ outfits.shown # outfits.stored) => missed'.save
BY DEF JoinMisses, Types, Misses

LEMMA BeginFacts ==
    ASSUME Types, NEW j \in WornJobs, NEW r \in Requests, Begin(j, r)
    PROVE  /\ ~Active(r) /\ WaitFor(j, r) /\ latest' = r /\ ui' = [ui EXCEPT !.refreshing = TRUE]
           /\ \E p \in Pending :
                /\ req' = [req EXCEPT ![r] = p] /\ p.pc \in {"skip", "reserve", "preview"} /\ p.skip = "none"
                /\ (p.pc = "reserve") <=> (p.aiPending /\ p.reask)
                /\ (p.pc = "preview") <=> (p.aiPending /\ ~p.reask)
                /\ p.signal = j.signal /\ p.departure = j.departure /\ p.reask = (j.by = "reask")
           /\ missed' \in Misses /\ missed'.save = missed.save /\ missed'.ask = missed.ask /\ ~missed'.late
<1>0. missed' \in Misses /\ missed'.save = missed.save /\ missed'.ask = missed.ask /\ ~missed'.late
  BY DEF Begin, Types, Misses
<1>1. PICK ask \in BOOLEAN : req' = [req EXCEPT ![r] =
            [Off EXCEPT !.pc = IF ~ask THEN "skip" ELSE IF j.by = "reask" THEN "reserve" ELSE "preview",
                        !.signal = j.signal, !.departure = j.departure,
                        !.excluded = IF j.by = "reask" THEN 0 ELSE outfits.shown.n,
                        !.reask = j.by = "reask", !.aiPending = ask]]
  BY DEF Begin
<1> DEFINE p == [Off EXCEPT !.pc = IF ~ask THEN "skip" ELSE IF j.by = "reask" THEN "reserve" ELSE "preview",
                        !.signal = j.signal, !.departure = j.departure,
                        !.excluded = IF j.by = "reask" THEN 0 ELSE outfits.shown.n,
                        !.reask = j.by = "reask", !.aiPending = ask]
<1>2. outfits.shown.n \in 0..MaxOutfits /\ j.signal \in Chosen /\ j.departure \in 0..1
  BY DEF Types, Outfits, WornJobs
<1>3. p \in Pending
  BY <1>2, ConstantFacts DEF Pending
<1>4. /\ p.pc \in {"skip", "reserve", "preview"} /\ p.skip = "none"
      /\ (p.pc = "reserve") <=> (p.aiPending /\ p.reask)
      /\ (p.pc = "preview") <=> (p.aiPending /\ ~p.reask)
      /\ p.signal = j.signal /\ p.departure = j.departure /\ p.reask = (j.by = "reask")
  BY DEF Off
<1> QED
  BY <1>0, <1>1, <1>3, <1>4 DEF Begin

\* One of the three.
LEMMA PreparedFacts ==
    ASSUME Types, NEW j \in WornJobs, refreshPrepared(j)
    PROVE  \/ Unprepared(j)
           \/ \E r \in Requests : Active(r) /\ req[r].signal = j.signal /\ Join(j, r)
           \/ \E r \in Requests : Begin(j, r)
BY DEF refreshPrepared, KeyOf, Key

LEMMA SkippedFacts ==
    ASSUME Types, NEW r \in Requests, NEW how \in {"saving", "done"}
    PROVE  [req EXCEPT ![r].skip = how] \in [Requests -> Pending]
<1>1. req[r] \in Pending
  BY DEF Types
<1>2. [req[r] EXCEPT !.skip = how] \in Pending
  BY <1>1 DEF Pending
<1> QED
  BY <1>2 DEF Types

LEMMA SaveFailsFacts ==
    ASSUME Types, NEW j \in ReadJobs \cup WriteJobs, SaveFails(j)
    PROVE  \/ j.by = "save" /\ Finish(j.r, TRUE)
           \/ /\ j.by = "skip" /\ req' = [req EXCEPT ![j.r].skip = "done"]
              /\ req' \in [Requests -> Pending] /\ ui' = [ui EXCEPT !.failed = TRUE]
              /\ UNCHANGED <<latest, flight, tracked>>
<1>1. j.r \in Requests /\ j.by \in {"save", "skip"}
  BY DEF ReadJobs, WriteJobs
<1>2. [req EXCEPT ![j.r].skip = "done"] \in [Requests -> Pending]
  BY <1>1, SkippedFacts
<1> QED
  BY <1>1, <1>2 DEF SaveFails

\* A save that ends well ends its request; one of a skip does not.
LEMMA SavedFacts ==
    ASSUME Types, NEW j \in WriteJobs, NEW outfit \in Outfits, Saved(j, outfit)
    PROVE  /\ outfits' \in [shown : Outfits, stored : Outfits, made : {outfits.made}]
           /\ outfits'.stored = outfit
           /\ outfits'.shown = (IF latest = j.r THEN outfit ELSE outfits.shown)
           /\ missed' \in Misses /\ missed'.ask = missed.ask /\ missed'.late = missed.late
           /\ latest # j.r => missed'.save = missed.save
           /\ latest = j.r => (missed'.save <=> (missed.late /\ OthersStoring(j.r)))
           /\ req' \in [Requests -> Pending]
           /\ ui' \in [status : {ui.status}, refreshing : BOOLEAN, failed : BOOLEAN, repository : {ui.repository}]
           /\ j.by = "save" \/ j.by = "skip"
           /\ j.by = "save" =>
                /\ req' = [req EXCEPT ![j.r] = Off]
                /\ latest' = (IF latest = j.r THEN NoRequest ELSE latest)
                /\ ui'.refreshing = (ui.refreshing /\ latest # j.r)
                /\ flight' \in Evaluations /\ ((flight.on # j.r /\ Stays) \/ Goes(j.r))
                /\ tracked' = (IF tracked = j.r THEN NoRequest ELSE tracked) /\ tracked' \in Awaitable
           /\ j.by = "skip" =>
                /\ req' = [req EXCEPT ![j.r].skip = "done"] /\ ui'.refreshing = ui.refreshing
                /\ UNCHANGED <<latest, flight, tracked>>
<1>1. j.r \in Requests /\ j.by \in {"save", "skip"}
  BY DEF WriteJobs
<1>2. /\ outfits' \in [shown : Outfits, stored : Outfits, made : {outfits.made}]
      /\ outfits'.stored = outfit
      /\ outfits'.shown = (IF latest = j.r THEN outfit ELSE outfits.shown)
  BY DEF Saved, Types
<1>a. /\ missed' \in Misses /\ missed'.ask = missed.ask /\ missed'.late = missed.late
      /\ latest # j.r => missed'.save = missed.save
      /\ latest = j.r => (missed'.save <=> (missed.late /\ OthersStoring(j.r)))
  BY DEF Saved, Types, Misses
<1>3. /\ j.by = "save" => req' = [req EXCEPT ![j.r] = Off]
      /\ j.by = "skip" => req' = [req EXCEPT ![j.r].skip = "done"]
  BY DEF Saved
<1>4. req' \in [Requests -> Pending]
  <2>1. [req EXCEPT ![j.r].skip = "done"] \in [Requests -> Pending]
    BY <1>1, SkippedFacts
  <2>2. [req EXCEPT ![j.r] = Off] \in [Requests -> Pending]
    BY ConstantFacts DEF Types
  <2> QED
    BY <1>1, <1>3, <2>1, <2>2
<1>5. /\ ui' \in [status : {ui.status}, refreshing : BOOLEAN, failed : BOOLEAN, repository : {ui.repository}]
      /\ ui'.refreshing = (ui.refreshing /\ ~(latest = j.r /\ j.by = "save"))
  BY DEF Saved, Types
<1>6. j.by = "save" =>
        /\ latest' = (IF latest = j.r THEN NoRequest ELSE latest)
        /\ flight' \in Evaluations /\ ((flight.on # j.r /\ Stays) \/ Goes(j.r))
        /\ tracked' = (IF tracked = j.r THEN NoRequest ELSE tracked) /\ tracked' \in Awaitable
  BY AwokenFacts, ConstantFacts DEF Saved, Types
<1>7. j.by = "skip" => UNCHANGED <<latest, flight, tracked>>
  BY DEF Saved
<1>8. j.by = "save" => ui'.refreshing = (ui.refreshing /\ latest # j.r)
  BY <1>5
<1>9. j.by = "skip" => ui'.refreshing = ui.refreshing
  BY <1>5 DEF Types
<1> QED
  BY <1>1, <1>2, <1>a, <1>3, <1>4, <1>5, <1>6, <1>7, <1>8, <1>9

\* A request's step towards its answer, apart from what it does to the day's file.
Proceeds(r, p) ==
    /\ req' = [req EXCEPT ![r] = p] /\ req[r].pc \in {"reserve", "preview", "ask", "release"}
    /\ p.pc \in {"ask", "release", "skip"} /\ (p.aiPending => p.pc # "skip")
    /\ (p.pc = "release" => p.reask /\ req[r].pc = "ask")
    /\ p.skip = req[r].skip /\ p.reask = req[r].reask
    /\ p.signal = req[r].signal /\ p.departure = req[r].departure /\ p.excluded = req[r].excluded

Underway(r) == reserveAiReask(r) \/ loadPreview(r) \/ recommendRouted(r) \/ releaseAiReask(r)

LEMMA ProceedsFacts ==
    ASSUME Types, NEW r \in Requests, Underway(r)
    PROVE  /\ \E p \in Pending : Proceeds(r, p)
           /\ UNCHANGED <<want, outfits, ui, latest, db, flight, trailing, tracked, missed, changes>>
<1>1. req[r] \in Pending
  BY DEF Types
<1>2. CASE reserveAiReask(r)
  <2> DEFINE p == [req[r] EXCEPT !.pc = "ask", !.asked = TRUE]
             q == [req[r] EXCEPT !.pc = "skip", !.aiPending = FALSE]
  <2>1. p \in Pending /\ q \in Pending
    BY <1>1 DEF Pending
  <2>2. CASE req' = [req EXCEPT ![r].pc = "ask", ![r].asked = TRUE]
    <3>1. Proceeds(r, p)
      BY <1>1, <1>2, <2>2 DEF reserveAiReask, Proceeds, Pending, Types
    <3> QED
      BY <2>1, <3>1, <1>2 DEF reserveAiReask
  <2>3. CASE req' = [req EXCEPT ![r].pc = "skip", ![r].aiPending = FALSE]
    <3>1. Proceeds(r, q)
      BY <1>1, <1>2, <2>3 DEF reserveAiReask, Proceeds, Pending, Types
    <3> QED
      BY <2>1, <3>1, <1>2 DEF reserveAiReask
  <2> QED
    BY <1>2, <2>2, <2>3 DEF reserveAiReask
<1>3. CASE loadPreview(r)
  <2> DEFINE p == [req[r] EXCEPT !.pc = "ask", !.asked = TRUE]
             q == [req[r] EXCEPT !.pc = "skip", !.got = TRUE, !.aiPending = FALSE]
  <2>1. p \in Pending /\ q \in Pending
    BY <1>1 DEF Pending
  <2>2. CASE req' = [req EXCEPT ![r].pc = "ask", ![r].asked = TRUE]
    <3>1. Proceeds(r, p)
      BY <1>1, <1>3, <2>2 DEF loadPreview, Proceeds, Pending, Types
    <3> QED
      BY <2>1, <3>1, <1>3 DEF loadPreview
  <2>3. CASE req' = [req EXCEPT ![r].pc = "skip", ![r].got = TRUE, ![r].aiPending = FALSE]
    <3>1. Proceeds(r, q)
      BY <1>1, <1>3, <2>3 DEF loadPreview, Proceeds, Pending, Types
    <3> QED
      BY <2>1, <3>1, <1>3 DEF loadPreview
  <2> QED
    BY <1>3, <2>2, <2>3 DEF loadPreview
<1>4. CASE recommendRouted(r)
  <2>1. PICK reached \in BOOLEAN, answered \in BOOLEAN :
          req' = [req EXCEPT ![r].got = answered,
                             ![r].pc = IF req[r].reask /\ ~reached THEN "release" ELSE "skip",
                             ![r].aiPending = req[r].reask /\ ~reached]
    BY <1>4 DEF recommendRouted
  <2> DEFINE p == [req[r] EXCEPT !.got = answered,
                                 !.pc = IF req[r].reask /\ ~reached THEN "release" ELSE "skip",
                                 !.aiPending = req[r].reask /\ ~reached]
  <2>2. p \in Pending
    BY <1>1 DEF Pending
  <2>3. Proceeds(r, p)
    BY <1>1, <1>4, <2>1 DEF recommendRouted, Proceeds, Pending, Types
  <2> QED
    BY <2>2, <2>3, <1>4 DEF recommendRouted
<1>5. CASE releaseAiReask(r)
  <2> DEFINE p == [req[r] EXCEPT !.pc = "skip", !.aiPending = FALSE]
  <2>1. p \in Pending
    BY <1>1 DEF Pending
  <2>2. Proceeds(r, p)
    BY <1>1, <1>5 DEF releaseAiReask, Proceeds, Pending, Types
  <2> QED
    BY <2>1, <2>2, <1>5 DEF releaseAiReask
<1> QED
  BY <1>2, <1>3, <1>4, <1>5 DEF Underway

LEMMA BudgetFacts ==
    ASSUME Types, NEW r \in Requests, Underway(r)
    PROVE  budget' \in [count : 0..DailyLimit, sent : Nat]
<1>1. budget.count \in 0..DailyLimit /\ budget.sent \in Nat /\ DailyLimit \in Nat
      /\ budget = [count |-> budget.count, sent |-> budget.sent]
  BY RecommendationAssumption DEF Types
<1>2. CASE reserveAiReask(r)
  BY <1>1, <1>2 DEF reserveAiReask
<1>3. CASE loadPreview(r)
  BY <1>3 DEF loadPreview, Types
<1>4. CASE recommendRouted(r)
  BY <1>1, <1>4 DEF recommendRouted
<1>5. CASE releaseAiReask(r)
  BY <1>1, <1>5 DEF releaseAiReask
<1> QED
  BY <1>2, <1>3, <1>4, <1>5 DEF Underway

-----------------------------------------------------------------------------
(* Type correctness.                                                         *)

LEMMA TypesInit == Init => Types
<1> SUFFICES ASSUME Init PROVE Types
  OBVIOUS
<1>1. PICK s \in Signals : want = [signal |-> s, departure |-> 0, owed |-> FALSE]
  BY DEF Init
<1>2. outfits \in [shown : Outfits, stored : Outfits, made : 0..MaxOutfits]
  BY ConstantFacts DEF Init
<1>3. req \in [Requests -> Pending] /\ latest \in Requests \cup {NoRequest} /\ db \in Seq(Jobs)
  BY ConstantFacts DEF Init
<1>4. flight \in Evaluations /\ trailing \in Behind /\ tracked \in Awaitable
  BY ConstantFacts DEF Init
<1>5. /\ budget \in [count : 0..DailyLimit, sent : Nat] /\ changes \in 0..MaxChanges
      /\ missed \in Misses
  BY RecommendationAssumption, ConstantFacts DEF Init
<1>6. ui \in [status : {"loading", "ready"}, refreshing : BOOLEAN, failed : BOOLEAN, repository : BOOLEAN]
  BY DEF Init
<1> QED
  BY <1>1, <1>2, <1>3, <1>4, <1>5, <1>6 DEF Types

\* A request's turn.
LEMMA TypesRequestStep ==
    ASSUME Types, NEW r \in Requests, RequestStep(r)
    PROVE  Types'
<1>1. CASE Underway(r)
  <2>1. PICK p \in Pending : req' = [req EXCEPT ![r] = p]
    BY <1>1, ProceedsFacts DEF Proceeds
  <2>2. req' \in [Requests -> Pending]
    BY <2>1 DEF Types
  <2> QED
    BY <2>2, <1>1, ProceedsFacts, BudgetFacts DEF Types
<1>2. CASE refreshOnce(r) \/ holdPhase(r)
  <2>0. UNCHANGED <<want, outfits, trailing, budget, changes>>
    BY <1>2, TurnFacts
  <2>9. req[r] \in Pending
    BY DEF Types
  <2>1. CASE Saves(r)
    <3>1. [job |-> "read", r |-> r, by |-> "save"] \in Jobs
      BY DEF Jobs, ReadJobs
    <3>2. db' \in Seq(Jobs)
      BY <2>1, <3>1, AppendFacts DEF Saves, Types
    <3>3. [req[r] EXCEPT !.pc = "save"] \in Pending
      BY <2>9 DEF Pending
    <3>4. req' \in [Requests -> Pending]
      BY <2>1, <3>3 DEF Saves, Types
    <3> QED
      BY <2>0, <2>1, <3>2, <3>4 DEF Saves, Types
  <2>2. CASE (\E failed \in BOOLEAN : Finish(r, failed))
             /\ missed' \in {missed, [missed EXCEPT !.save = TRUE]} /\ db' = db
    <3>1. PICK failed \in BOOLEAN : Finish(r, failed)
      BY <2>2
    <3>2. /\ req' \in [Requests -> Pending] /\ latest' \in Requests \cup {NoRequest}
          /\ ui' \in [status : {"loading", "ready"}, refreshing : BOOLEAN, failed : BOOLEAN, repository : BOOLEAN]
          /\ flight' \in Evaluations /\ tracked' \in Awaitable
      BY <3>1, FinishFacts DEF Types
    <3>3. missed' \in Misses
      BY <2>2 DEF Types, Misses
    <3> QED
      BY <2>0, <2>2, <3>2, <3>3 DEF Types
  <2>3. CASE req' = [req EXCEPT ![r].pc = "hold"]
             /\ UNCHANGED <<ui, latest, db, flight, tracked, missed>>
    <3>1. [req[r] EXCEPT !.pc = "hold"] \in Pending
      BY <2>9 DEF Pending
    <3>2. req' \in [Requests -> Pending]
      BY <2>3, <3>1 DEF Types
    <3> QED
      BY <2>0, <2>3, <3>2 DEF Types
  <2> QED
    BY <1>2, <2>1, <2>2, <2>3, TurnFacts DEF Ends
<1> QED
  BY <1>1, <1>2 DEF RequestStep, Underway

\* What SQLite answers.
LEMMA TypesAnswers ==
    ASSUME Types, Answers
    PROVE  Types'
<1>1. db \in Seq(Jobs)
  BY DEF Types
<1>2. CASE AnswerWorn
  <2>1. db # <<>> /\ Head(db).job = "worn" /\ db' = Tail(db) /\ refreshPrepared(Head(db))
    BY <1>2 DEF AnswerWorn
  <2>2. Head(db) \in WornJobs /\ db' \in Seq(Jobs)
    BY <1>1, <2>1, TailFacts, AskedTypes DEF Asked
  <2>3. CASE Unprepared(Head(db))
    <3>1. /\ missed' \in Misses /\ req' = req /\ latest' = latest /\ ui' = [ui EXCEPT !.failed = TRUE]
          /\ flight' \in Evaluations /\ tracked' \in Awaitable
      BY <2>2, <2>3, UnpreparedFacts DEF SavesKept
    <3> QED
      BY <1>2, <2>2, <3>1 DEF AnswerWorn, Types
  <2>4. CASE \E r \in Requests : Active(r) /\ Join(Head(db), r)
    <3>1. PICK r \in Requests : Join(Head(db), r)
      BY <2>4
    <3>2. missed' \in Misses /\ flight' \in Evaluations /\ tracked' \in Awaitable
      BY <2>2, <3>1, WaitForFacts, JoinFacts DEF Join
    <3> QED
      BY <1>2, <2>2, <3>1, <3>2 DEF AnswerWorn, Join, Types
  <2>5. CASE \E r \in Requests : Begin(Head(db), r)
    <3>1. PICK r \in Requests : Begin(Head(db), r)
      BY <2>5
    <3>2. PICK p \in Pending : req' = [req EXCEPT ![r] = p]
      BY <2>2, <3>1, BeginFacts
    <3>3. /\ missed' \in Misses /\ flight' \in Evaluations /\ tracked' \in Awaitable
          /\ latest' = r /\ ui' = [ui EXCEPT !.refreshing = TRUE]
      BY <2>2, <2>5, <3>1, BeginFacts, WaitForFacts
    <3>4. req' \in [Requests -> Pending]
      BY <3>2 DEF Types
    <3> QED
      BY <1>2, <2>2, <3>3, <3>4 DEF AnswerWorn, Types
  <2> QED
    BY <2>1, <2>2, <2>3, <2>4, <2>5, PreparedFacts
<1>3. ASSUME NEW j \in ReadJobs \cup WriteJobs, SaveFails(j),
             missed' = [missed EXCEPT !.save = TRUE]
      PROVE  /\ req' \in [Requests -> Pending] /\ latest' \in Requests \cup {NoRequest}
             /\ ui' \in [status : {"loading", "ready"}, refreshing : BOOLEAN, failed : BOOLEAN, repository : BOOLEAN]
             /\ flight' \in Evaluations /\ tracked' \in Awaitable
             /\ missed' \in Misses
  <2>1. j.r \in Requests
    BY DEF ReadJobs, WriteJobs
  <2>2. missed' \in Misses
    BY <1>3 DEF Types, Misses
  <2>3. CASE Finish(j.r, TRUE)
    BY <2>1, <2>2, <2>3, FinishFacts DEF Types
  <2>4. CASE /\ req' \in [Requests -> Pending] /\ ui' = [ui EXCEPT !.failed = TRUE]
             /\ UNCHANGED <<latest, flight, tracked>>
    BY <2>2, <2>4 DEF Types
  <2> QED
    BY <1>3, <2>3, <2>4, SaveFailsFacts
<1>4. CASE AnswerRead
  <2>1. db # <<>> /\ Head(db).job = "read" /\ Head(db) \in ReadJobs /\ Tail(db) \in Seq(Jobs)
    BY <1>1, <1>4, TailFacts, AskedTypes DEF AnswerRead, Asked
  <2>2. CASE /\ outfits.made < MaxOutfits
             /\ outfits' = [outfits EXCEPT !.made = @ + 1]
             /\ db' = Append(Tail(db), [job |-> "write", r |-> Head(db).r, by |-> Head(db).by, n |-> outfits.made + 1])
             /\ UNCHANGED <<ui, req, latest, flight, tracked, missed>>
    <3>1. outfits.made + 1 \in 0..MaxOutfits
      BY <2>2, RecommendationAssumption DEF Types
    <3>2. [job |-> "write", r |-> Head(db).r, by |-> Head(db).by, n |-> outfits.made + 1] \in Jobs
      BY <2>1, <3>1 DEF Jobs, ReadJobs, WriteJobs
    <3>3. db' \in Seq(Jobs)
      BY <2>1, <2>2, <3>2, AppendFacts
    <3>4. outfits' \in [shown : Outfits, stored : Outfits, made : 0..MaxOutfits]
      BY <2>2, <3>1 DEF Types
    <3> QED
      BY <1>4, <2>2, <3>3, <3>4 DEF AnswerRead, Types
  <2>3. CASE SaveFails(Head(db)) /\ missed' = [missed EXCEPT !.save = TRUE]
             /\ db' = Tail(db) /\ UNCHANGED outfits
    BY <1>4, <2>1, <2>3, <1>3 DEF AnswerRead, Types
  <2> QED
    BY <1>4, <2>2, <2>3 DEF AnswerRead
<1>5. CASE AnswerWrite
  <2>1. db # <<>> /\ Head(db).job = "write" /\ db' = Tail(db)
    BY <1>5 DEF AnswerWrite
  <2>2. Head(db) \in WriteJobs /\ db' \in Seq(Jobs)
    BY <1>1, <2>1, TailFacts, AskedTypes DEF Asked
  <2>3. CASE Saved(Head(db), [n |-> Head(db).n, signal |-> req[Head(db).r].signal])
    <3>0. Head(db).r \in Requests /\ Head(db).n \in 0..MaxOutfits
      BY <2>2 DEF WriteJobs
    <3>1. req[Head(db).r] \in Pending
      BY <3>0 DEF Types
    <3>2. [n |-> Head(db).n, signal |-> req[Head(db).r].signal] \in Outfits
      BY <3>0, <3>1 DEF Outfits, Pending
    <3>3. /\ outfits' \in [shown : Outfits, stored : Outfits, made : {outfits.made}]
          /\ missed' \in Misses
          /\ req' \in [Requests -> Pending]
          /\ ui' \in [status : {ui.status}, refreshing : BOOLEAN, failed : BOOLEAN, repository : {ui.repository}]
          /\ latest' \in {NoRequest, latest} /\ tracked' \in Awaitable /\ flight' \in Evaluations
      <4>1. flight \in Evaluations /\ tracked \in Awaitable
        BY DEF Types
      <4> QED
        BY <2>2, <2>3, <3>2, <4>1, SavedFacts
    <3>4. outfits' \in [shown : Outfits, stored : Outfits, made : 0..MaxOutfits]
      BY <3>3 DEF Types
    <3>5. ui' \in [status : {"loading", "ready"}, refreshing : BOOLEAN, failed : BOOLEAN, repository : BOOLEAN]
      BY <3>3 DEF Types
    <3> QED
      BY <1>5, <2>2, <3>3, <3>4, <3>5 DEF AnswerWrite, Types
  <2>4. CASE SaveFails(Head(db)) /\ missed' = [missed EXCEPT !.save = TRUE] /\ UNCHANGED outfits
    BY <1>5, <2>2, <2>4, <1>3 DEF AnswerWrite, Types
  <2> QED
    BY <1>5, <2>3, <2>4 DEF AnswerWrite
<1> QED
  BY <1>2, <1>4, <1>5 DEF Answers

\* What the evaluation does, and what makes it start.
Evaluating == followRender \/ evaluate \/ EvaluationGoesOn \/ EvaluationEnds

LEMMA EvaluatingFacts ==
    ASSUME Types, Evaluating
    PROVE  /\ flight' \in Evaluations /\ trailing' \in Behind /\ SavesKept
           /\ trailing'.pc = "queued" => flight'.pc # "off"
           /\ \/ flight.pc # "off" /\ flight'.pc = flight.pc /\ flight'.on = flight.on
              \/ flight'.pc = "reask" /\ flight'.on = tracked /\ tracked # NoRequest
              \/ flight'.pc = "off" /\ flight'.on = NoRequest
              \/ flight'.pc \in {"worn", "ended"} /\ flight'.on \in {NoRequest, flight.on}
           /\ \/ db' = db /\ (flight'.pc = "worn" => flight.pc = "worn")
              \/ \E e : Evaluates(e)
           /\ UNCHANGED <<outfits, req, latest, tracked, budget>>
           /\ ui' \in [status : {ui.status}, refreshing : {ui.refreshing}, failed : BOOLEAN, repository : {ui.repository}]
           /\ want' \in {want, [want EXCEPT !.owed = FALSE]} /\ changes' \in 0..MaxChanges
<1>1. /\ want.signal \in Chosen /\ want.departure \in 0..1 /\ trailing.signal \in Chosen
      /\ trailing.departure \in 0..1 /\ trailing.clears \in BOOLEAN /\ flight \in Evaluations
      /\ changes \in 0..MaxChanges /\ trailing \in Behind
  BY DEF Types, Chosen, Behind
<1>2. ui \in [status : {ui.status}, refreshing : {ui.refreshing}, failed : BOOLEAN, repository : {ui.repository}]
  BY DEF Types
<1>3. CASE followRender
  <2>1. submit(want.signal, want.departure, TRUE, FALSE)
    BY <1>3 DEF followRender
  <2> QED
    BY <1>1, <1>2, <1>3, <2>1, SubmitFacts DEF followRender
<1>4. CASE evaluate
  <2>1. submit(want.signal, want.departure, FALSE, TRUE)
    BY <1>4 DEF evaluate
  <2>2. changes' \in 0..MaxChanges
    BY <1>4, RecommendationAssumption DEF evaluate, Types
  <2> QED
    BY <1>1, <1>2, <1>4, <2>1, <2>2, SubmitFacts DEF evaluate
<1>5. CASE EvaluationGoesOn
  <2>1. Evaluate(flight)
    BY <1>5 DEF EvaluationGoesOn
  <2> QED
    BY <1>1, <1>2, <1>5, <2>1, EvaluateFacts DEF EvaluationGoesOn
<1>6. CASE EvaluationEnds
  <2>1. ui' \in [status : {ui.status}, refreshing : {ui.refreshing}, failed : BOOLEAN, repository : {ui.repository}]
    BY <1>6 DEF EvaluationEnds, Types
  <2>2. /\ trailing' = NoTrailing /\ trailing' \in Behind /\ trailing'.pc = "off"
        /\ UNCHANGED <<want, outfits, req, latest, tracked, budget, changes>>
    BY <1>6, ConstantFacts DEF EvaluationEnds, NoTrailing
  <2>3. CASE trailing.pc = "queued"
    <3>1. StartEvaluation(trailing.signal, trailing.departure, trailing.clears)
      BY <1>6, <2>3 DEF EvaluationEnds
    <3> QED
      BY <1>1, <2>1, <2>2, <3>1, StartFacts
  <2>4. CASE trailing.pc # "queued"
    <3>1. flight' = NoFlight /\ db' = db /\ missed' = missed
      BY <1>6, <2>4 DEF EvaluationEnds
    <3>2. flight' \in Evaluations /\ flight'.pc = "off" /\ flight'.on = NoRequest /\ SavesKept
      BY <3>1, ConstantFacts DEF NoFlight, SavesKept, Types
    <3> QED
      BY <1>1, <2>1, <2>2, <3>1, <3>2
  <2> QED
    BY <2>3, <2>4
<1> QED
  BY <1>3, <1>4, <1>5, <1>6 DEF Evaluating

\* What the person does: a changed setting, and what it asks for at once.
Touching == ChangeSetting \/ chooseFormality \/ setDeparture \/ reask
AsksFor(e) == e \in WornJobs /\ e.by # "evaluation" /\ db' = Append(db, e)

LEMMA TouchingFacts ==
    ASSUME Types, Touching
    PROVE  /\ want' \in [signal : Signals, departure : 0..1, owed : {TRUE}] /\ changes' \in 0..MaxChanges
           /\ Ready /\ ~want.owed
           /\ UNCHANGED <<outfits, ui, req, latest, flight, trailing, budget, missed>>
           /\ \/ db' = db /\ tracked' = tracked
              \/ \E e : AsksFor(e) /\ e.by = "direct" /\ tracked' = tracked
              \/ \E e : AsksFor(e) /\ e.by = "reask" /\ tracked' = e.id /\ tracked' \in Awaitable
<1>0. /\ want.departure \in 0..1 /\ want.signal \in Signals
      /\ 1 - want.departure \in 0..1 /\ changes \in Nat /\ MaxChanges \in Nat
  BY RecommendationAssumption DEF Types
<1>1. ASSUME NEW s \in Signals, NEW d \in 0..1, NEW by \in {"evaluation", "direct", "reask"}
      PROVE  \A id \in 0..MaxChanges : /\ Worn(s, d, by, id) \in WornJobs /\ Worn(s, d, by, id).by = by
                                        /\ Worn(s, d, by, id).id = id
  BY DEF Worn, WornJobs, Chosen
<1>2. ASSUME NEW s \in Signals, NEW d \in 0..1, Changes(s, d)
      PROVE  /\ want' \in [signal : Signals, departure : 0..1, owed : {TRUE}] /\ changes' \in 0..MaxChanges
             /\ Ready /\ ~want.owed /\ changes' \in 1..MaxChanges
  BY <1>2, <1>0 DEF Changes
<1>3. CASE ChangeSetting
  BY <1>0, <1>2, <1>3 DEF ChangeSetting
<1>4. CASE chooseFormality
  <2>1. PICK s \in Signals : Changes(s, want.departure) /\ db' = Append(db, Worn(s, want.departure, "direct", 0))
    BY <1>4 DEF chooseFormality
  <2>2. AsksFor(Worn(s, want.departure, "direct", 0)) /\ Worn(s, want.departure, "direct", 0).by = "direct"
    BY <2>1, <1>0, <1>1 DEF AsksFor
  <2> QED
    BY <1>0, <1>1, <1>2, <1>4, <2>1, <2>2 DEF chooseFormality
<1>5. CASE setDeparture
  <2>1. /\ Changes(want.signal, 1 - want.departure)
        /\ db' = Append(db, Worn(want.signal, 1 - want.departure, "direct", 0))
    BY <1>5 DEF setDeparture
  <2>2. /\ AsksFor(Worn(want.signal, 1 - want.departure, "direct", 0))
        /\ Worn(want.signal, 1 - want.departure, "direct", 0).by = "direct"
    BY <2>1, <1>0, <1>1 DEF AsksFor
  <2> QED
    BY <1>0, <1>1, <1>2, <1>5, <2>1, <2>2 DEF setDeparture
<1>6. CASE reask
  <2>1. PICK s \in Signals : Changes(s, want.departure) /\ db' = Append(db, Worn(s, want.departure, "reask", changes'))
    BY <1>6 DEF reask
  <2>2. changes' \in 1..MaxChanges /\ changes' \in 0..MaxChanges /\ changes' \in Awaitable
    BY <1>0, <1>2, <2>1 DEF Awaitable
  <2>3. /\ AsksFor(Worn(s, want.departure, "reask", changes')) /\ Worn(s, want.departure, "reask", changes').by = "reask"
        /\ Worn(s, want.departure, "reask", changes').id = changes'
    BY <2>1, <2>2, <1>0, <1>1 DEF AsksFor
  <2> QED
    BY <1>0, <1>2, <1>6, <2>1, <2>2, <2>3 DEF reask
<1> QED
  BY <1>3, <1>4, <1>5, <1>6 DEF Touching

\* The wait is skipped: a save is asked for, or it cannot be.
LEMMA SkipWaitFacts ==
    ASSUME Types, skipWait
    PROVE  /\ latest \in Requests /\ req[latest].aiPending /\ req[latest].skip = "none"
           /\ changes' \in 0..MaxChanges /\ req' \in [Requests -> Pending]
           /\ UNCHANGED <<want, outfits, latest, flight, trailing, tracked, budget>>
           /\ \/ /\ req' = [req EXCEPT ![latest].skip = "saving"] /\ UNCHANGED <<ui, missed>>
                 /\ db' = Append(db, [job |-> "read", r |-> latest, by |-> "skip"])
              \/ /\ req' = [req EXCEPT ![latest].skip = "done"] /\ db' = db
                 /\ ui' = [ui EXCEPT !.failed = TRUE] /\ missed' = [missed EXCEPT !.save = TRUE]
<1>1. latest \in Requests /\ req[latest].aiPending /\ req[latest].skip = "none"
  BY DEF skipWait, Types
<1>2. changes' \in 0..MaxChanges
  BY RecommendationAssumption DEF skipWait, Types
<1> QED
  BY <1>1, <1>2, SkippedFacts DEF skipWait

LEMMA TypesStep == Types /\ [Next]_vars => Types'
<1> SUFFICES ASSUME Types, [Next]_vars PROVE Types'
  OBVIOUS
<1>1. db \in Seq(Jobs)
  BY DEF Types
<1>2. CASE \E r \in Requests : RequestStep(r)
  BY <1>2, TypesRequestStep
<1>3. CASE Answers
  BY <1>3, TypesAnswers
<1>4. CASE Evaluating
  <2>1. db' \in Seq(Jobs)
    <3>1. ASSUME NEW e, Evaluates(e) PROVE db' \in Seq(Jobs)
      BY <3>1, <1>1, AppendFacts DEF Evaluates, Jobs
    <3> QED
      BY <1>1, <1>4, <3>1, EvaluatingFacts
  <2>2. ui' \in [status : {"loading", "ready"}, refreshing : BOOLEAN, failed : BOOLEAN, repository : BOOLEAN]
    <3>1. ui' \in [status : {ui.status}, refreshing : {ui.refreshing}, failed : BOOLEAN, repository : {ui.repository}]
      BY <1>4, EvaluatingFacts
    <3> QED
      BY <3>1 DEF Types
  <2>3. want' \in [signal : Signals, departure : 0..1, owed : BOOLEAN]
    BY <1>4, EvaluatingFacts DEF Types
  <2> QED
    BY <1>4, <2>1, <2>2, <2>3, EvaluatingFacts DEF Types, SavesKept
<1>5. CASE Touching
  <2>1. db' \in Seq(Jobs)
    <3>1. ASSUME NEW e, AsksFor(e) PROVE db' \in Seq(Jobs)
      BY <3>1, <1>1, AppendFacts DEF AsksFor, Jobs
    <3> QED
      BY <1>1, <1>5, <3>1, TouchingFacts
  <2>2. want' \in [signal : Signals, departure : 0..1, owed : BOOLEAN]
    BY <1>5, TouchingFacts
  <2> QED
    BY <1>5, <2>1, <2>2, TouchingFacts DEF Types
<1>6. CASE skipWait
  <2>0. latest \in Requests
    BY <1>6, SkipWaitFacts
  <2>1. [job |-> "read", r |-> latest, by |-> "skip"] \in Jobs
    BY <2>0 DEF Jobs, ReadJobs
  <2>2. db' \in Seq(Jobs)
    BY <1>1, <1>6, <2>1, AppendFacts, SkipWaitFacts
  <2>3. ui' \in {ui, [ui EXCEPT !.failed = TRUE]} /\ missed' \in {missed, [missed EXCEPT !.save = TRUE]}
    BY <1>6, SkipWaitFacts
  <2>4. /\ ui' \in [status : {"loading", "ready"}, refreshing : BOOLEAN, failed : BOOLEAN, repository : BOOLEAN]
        /\ missed' \in Misses
    BY <2>3 DEF Types, Misses
  <2>5. /\ changes' \in 0..MaxChanges /\ req' \in [Requests -> Pending]
        /\ UNCHANGED <<want, outfits, latest, flight, trailing, tracked, budget>>
    BY <1>6, SkipWaitFacts
  <2> QED
    BY <2>2, <2>4, <2>5 DEF Types
<1>7. CASE initialize
  <2>1. PICK opens \in BOOLEAN, reads \in BOOLEAN :
        /\ ui' = [ui EXCEPT !.status = "ready", !.repository = opens, !.failed = ~(opens /\ reads)]
        /\ outfits' = [outfits EXCEPT !.shown = IF opens /\ reads THEN outfits.stored ELSE NoOutfit]
        /\ missed' = [NoMiss EXCEPT !.save = ~(opens /\ reads)]
    BY <1>7 DEF initialize
  <2>3. missed' \in Misses
    BY <2>1 DEF NoMiss, Misses
  <2>2. outfits' \in [shown : Outfits, stored : Outfits, made : 0..MaxOutfits]
    BY <2>1, ConstantFacts DEF Types
  <2> QED
    BY <1>7, <2>1, <2>2, <2>3 DEF initialize, Types
<1>8. CASE ProcessEnds
  <2>1. outfits' \in [shown : Outfits, stored : Outfits, made : 0..MaxOutfits]
    BY <1>8, ConstantFacts DEF ProcessEnds, Types
  <2>2. changes' \in 0..MaxChanges
    BY <1>8, RecommendationAssumption DEF ProcessEnds, Types
  <2> QED
    BY <1>8, <2>1, <2>2, ConstantFacts DEF ProcessEnds, Types
<1>9. CASE UNCHANGED vars
  BY <1>9 DEF vars, Types
<1> QED
  BY <1>2, <1>3, <1>4, <1>5, <1>6, <1>7, <1>8, <1>9 DEF Next, Resumes, Evaluating, Touching

\* Every variable of the controller keeps its type, and a day's count stays
\* within its allowance, whatever the steps.
THEOREM TypeCorrect == Spec => []TypeOK
<1>1. Types => TypeOK
  BY DEF Types, TypeOK, Outfits, Pending, Evaluations, Behind, Awaitable
<1> QED
  BY <1>1, TypesInit, TypesStep, PTL DEF Spec

-----------------------------------------------------------------------------
(* What holds together in every state.                                       *)

\* One job of SQLite for a request.
Alone(s) ==
    \A i, k \in 1..Len(s) : s[i].job # "worn" /\ s[k].job # "worn" /\ s[i].r = s[k].r => i = k

LEMMA AppendAlone ==
    ASSUME NEW s \in Seq(Jobs), NEW e \in Jobs, Alone(s),
           e.job # "worn" => \A f \in Among(s) : f.job # "worn" => f.r # e.r
    PROVE  Alone(Append(s, e))
<1> DEFINE t == Append(s, e)
<1>1. /\ Len(s) \in Nat /\ Len(t) = Len(s) + 1 /\ t[Len(s) + 1] = e
      /\ \A i \in 1..Len(s) : t[i] = s[i]
  BY AppendFacts
<1> HIDE DEF t
<1>2. \A i \in 1..Len(s) : s[i] \in Among(s)
  BY DEF Among
<1>3. ASSUME NEW i \in 1..Len(t), NEW k \in 1..Len(t), t[i].job # "worn", t[k].job # "worn",
             t[i].r = t[k].r
      PROVE  i = k
  <2>1. i \in 1..Len(s) \/ i = Len(s) + 1
    BY <1>1
  <2>2. k \in 1..Len(s) \/ k = Len(s) + 1
    BY <1>1
  <2>3. CASE i \in 1..Len(s) /\ k \in 1..Len(s)
    BY <1>1, <1>3, <2>3 DEF Alone
  <2>4. CASE i = Len(s) + 1 /\ k \in 1..Len(s)
    BY <1>1, <1>2, <1>3, <2>4
  <2>5. CASE i \in 1..Len(s) /\ k = Len(s) + 1
    BY <1>1, <1>2, <1>3, <2>5
  <2> QED
    BY <2>1, <2>2, <2>3, <2>4, <2>5
<1>4. Alone(t)
  BY <1>3 DEF Alone
<1> QED
  BY <1>4 DEF t

LEMMA TailAlone ==
    ASSUME NEW s \in Seq(Jobs), s # <<>>, Alone(s)
    PROVE  /\ Alone(Tail(s))
           /\ Head(s).job # "worn" => \A f \in Among(Tail(s)) : f.job # "worn" => f.r # Head(s).r
<1> DEFINE t == Tail(s)
<1>1. /\ Len(s) \in Nat \ {0} /\ Len(t) = Len(s) - 1 /\ Head(s) = s[1]
      /\ \A i \in 1..Len(t) : t[i] = s[i + 1]
  BY TailFacts
<1> HIDE DEF t
<1>2. \A i \in 1..Len(t) : i + 1 \in 1..Len(s) /\ i + 1 # 1
  BY <1>1
<1>3. ASSUME NEW i \in 1..Len(t), NEW k \in 1..Len(t), t[i].job # "worn", t[k].job # "worn",
             t[i].r = t[k].r
      PROVE  i = k
  <2>1. i + 1 \in 1..Len(s) /\ k + 1 \in 1..Len(s) /\ t[i] = s[i + 1] /\ t[k] = s[k + 1]
    BY <1>1, <1>2
  <2>2. s[i + 1].job # "worn" /\ s[k + 1].job # "worn" /\ s[i + 1].r = s[k + 1].r
    BY <1>3, <2>1
  <2> DEFINE a == i + 1
             b == k + 1
  <2>3. a \in 1..Len(s) /\ b \in 1..Len(s) /\ s[a].job # "worn" /\ s[b].job # "worn" /\ s[a].r = s[b].r
    BY <2>1, <2>2
  <2>4. (a = b) => (i = k)
    OBVIOUS
  <2> HIDE DEF a, b
  <2>5. a = b
    BY <2>3 DEF Alone
  <2> QED
    BY <2>4, <2>5
<1>4. ASSUME NEW f \in Among(t), f.job # "worn", Head(s).job # "worn" PROVE f.r # Head(s).r
  <2>1. PICK i \in 1..Len(t) : f = t[i]
    BY DEF Among
  <2>2. 1 \in 1..Len(s)
    BY <1>1
  <2> QED
    BY <2>1, <2>2, <1>1, <1>2, <1>4 DEF Alone
<1>5. Alone(t)
  BY <1>3 DEF Alone
<1> QED
  BY <1>4, <1>5 DEF t

\* SQLite has a save of request r to do, and a read of the worn outfits.
Serving(s, r, by) == \E e \in Among(s) : e.job # "worn" /\ e.r = r /\ e.by = by
Reading(s, by) == \E e \in Among(s) : e.job = "worn" /\ e.by = by
Reasking(s, x) == \E e \in Among(s) : e.job = "worn" /\ e.by = "reask" /\ e.id = x
\* What s has to read, t has.
Reads(s, t) == (\A by : Reading(s, by) => Reading(t, by)) /\ (\A x : Reasking(s, x) => Reasking(t, x))

LEMMA WornFacts ==
    ASSUME NEW s \in Seq(Jobs), NEW e \in WornJobs, Alone(s)
    PROVE  /\ Alone(Append(s, e)) /\ \A r, by : Serving(Append(s, e), r, by) <=> Serving(s, r, by)
           /\ Reads(s, Append(s, e)) /\ Reading(Append(s, e), e.by)
           /\ e.by = "reask" => Reasking(Append(s, e), e.id)
<1>1. e \in Jobs /\ e.job = "worn"
  BY DEF Jobs, WornJobs
<1>2. Among(Append(s, e)) = Among(s) \cup {e}
  BY <1>1, AppendFacts
<1> QED
  BY <1>1, <1>2, AppendAlone DEF Serving, Reads, Reading, Reasking

LEMMA SaveFacts ==
    ASSUME NEW s \in Seq(Jobs), NEW e \in ReadJobs \cup WriteJobs, Alone(s),
           \A by \in {"save", "skip"} : ~Serving(s, e.r, by), \A f \in Among(s) : f \in Jobs
    PROVE  /\ Alone(Append(s, e))
           /\ \A r, by : Serving(Append(s, e), r, by) <=> (Serving(s, r, by) \/ (r = e.r /\ by = e.by))
           /\ Reads(s, Append(s, e))
<1>1. e \in Jobs /\ e.job # "worn"
  BY DEF Jobs, ReadJobs, WriteJobs
<1>2. Among(Append(s, e)) = Among(s) \cup {e}
  BY <1>1, AppendFacts
<1>3. \A f \in Among(s) : f.job # "worn" => f.by \in {"save", "skip"}
  BY DEF Jobs, WornJobs, ReadJobs, WriteJobs
<1>4. \A f \in Among(s) : f.job # "worn" => f.r # e.r
  BY <1>3 DEF Serving
<1> QED
  BY <1>1, <1>2, <1>4, AppendAlone DEF Serving, Reads, Reading, Reasking

LEMMA AnsweredFacts ==
    ASSUME NEW s \in Seq(Jobs), s # <<>>, Alone(s)
    PROVE  /\ Alone(Tail(s))
           /\ Head(s).job = "worn" => \A r, by : Serving(Tail(s), r, by) <=> Serving(s, r, by)
           /\ Head(s).job # "worn" => \A r, by : Serving(Tail(s), r, by) <=> (Serving(s, r, by) /\ r # Head(s).r)
           /\ Head(s).job # "worn" => Reads(s, Tail(s))
           /\ \A by : Reading(s, by) => Reading(Tail(s), by) \/ (Head(s).job = "worn" /\ by = Head(s).by)
           /\ \A x : Reasking(s, x) => Reasking(Tail(s), x) \/ (Head(s).job = "worn" /\ Head(s).by = "reask" /\ x = Head(s).id)
<1>1. Among(s) = Among(Tail(s)) \cup {Head(s)}
  BY TailFacts
<1>2. Alone(Tail(s)) /\ (Head(s).job # "worn" => \A f \in Among(Tail(s)) : f.job # "worn" => f.r # Head(s).r)
  BY TailAlone
<1> QED
  BY <1>1, <1>2 DEF Serving, Reads, Reading, Reasking

\* A request's own fields.
Fine(p) ==
    /\ p.pc = "off" => p = Off
    /\ p.aiPending => p.pc \in {"reserve", "preview", "ask", "release"}
    /\ p.pc \in {"hold", "save"} => p.skip # "saving"
    /\ p.pc = "preview" => ~p.reask
    /\ p.pc \in {"reserve", "release"} => p.reask

\* SQLite has a save to do for exactly the requests that wait for one.
Served(r) ==
    /\ (req[r].pc = "save") <=> Serving(db, r, "save")
    /\ (req[r].skip = "saving") <=> Serving(db, r, "skip")

\* A request is in flight, a re-ask still reads the worn outfits.
Promised(x) == (x \in Requests => Active(x)) /\ (x \notin Requests \cup {NoRequest} => Reasking(db, x))

\* Who waits for what.
Waiting ==
    /\ latest # NoRequest => Active(latest)
    /\ flight.pc = "wait" => flight.on \in Requests
    /\ flight.pc = "reask" => flight.on # NoRequest
    /\ flight.pc = "worn" => Reading(db, "evaluation")
    /\ Promised(flight.on) /\ Promised(tracked)
    /\ trailing.pc = "queued" => flight.pc # "off"

\* Before the stored outfit has been read nothing is under way.
Asleep == ~Ready =>
    /\ latest = NoRequest /\ db = <<>> /\ flight.pc = "off" /\ trailing.pc = "off"
    /\ tracked = NoRequest /\ ~ui.refreshing /\ \A r \in Requests : ~Active(r)

Requested == Alone(db) /\ \A r \in Requests : Fine(req[r]) /\ Served(r)

Steady == Types /\ Asleep /\ BusyShown /\ Requested /\ Waiting

LEMMA SteadyInit == Init => Steady
<1> SUFFICES ASSUME Init PROVE Steady
  OBVIOUS
<1>0. Types
  BY TypesInit
<1>1. Among(db) = {} /\ Alone(db)
  BY DEF Init, Among, Alone
<1>2. \A r \in Requests : req[r] = Off
  BY DEF Init
<1>3. Fine(Off) /\ Off.pc = "off" /\ Off.skip = "none"
  BY DEF Fine, Off
<1>4. Requested
  BY <1>1, <1>2, <1>3 DEF Requested, Served, Serving
<1>5. ~Ready /\ BusyShown /\ Asleep /\ Waiting
  BY <1>2, <1>3, ConstantFacts DEF Init, Ready, BusyShown, Asleep, Waiting, Promised, Active, NoFlight, NoTrailing
<1> QED
  BY <1>0, <1>4, <1>5 DEF Steady

\* While the stored outfit is being read nothing else runs.
LEMMA AwakeFacts ==
    ASSUME Steady, Next
    PROVE  Ready \/ initialize
<1>1. CASE \E r \in Requests : RequestStep(r)
  BY <1>1 DEF Steady, Asleep, Active, RequestStep, reserveAiReask, loadPreview, recommendRouted, releaseAiReask,
     refreshOnce, holdPhase
<1>2. CASE Answers
  BY <1>2 DEF Steady, Asleep, Answers, AnswerWorn, AnswerRead, AnswerWrite
<1>3. CASE Evaluating
  BY <1>3 DEF Steady, Asleep, Evaluating, followRender, evaluate, EvaluationGoesOn, EvaluationEnds
<1>4. CASE Touching
  BY <1>4, TouchingFacts DEF Steady
<1>5. CASE skipWait \/ ProcessEnds
  BY <1>5 DEF skipWait, ProcessEnds, Steady, Asleep
<1> QED
  BY <1>1, <1>2, <1>3, <1>4, <1>5 DEF Next, Resumes, Evaluating, Touching

\* A request that ends leaves nothing of itself behind.
LEMMA EndsRequested ==
    ASSUME Steady, NEW r \in Requests, req' = [req EXCEPT ![r] = Off], Alone(db)',
           \A s \in Requests, by \in {"save", "skip"} : Serving(db', s, by) <=> (Serving(db, s, by) /\ s # r)
    PROVE  Requested'
<1>1. Fine(Off) /\ Off.pc = "off" /\ Off.skip = "none"
  BY DEF Fine, Off
<1>2. ASSUME NEW s \in Requests PROVE Fine(req'[s]) /\ Served(s)'
  <2>1. Fine(req[s]) /\ Served(s)
    BY DEF Steady, Requested
  <2>2. req'[s] = (IF s = r THEN Off ELSE req[s])
    BY DEF Steady, Types
  <2> QED
    BY <1>1, <2>1, <2>2 DEF Served
<1> QED
  BY <1>2 DEF Requested

LEMMA RequestStepRequested ==
    ASSUME Steady, Types', NEW r \in Requests, RequestStep(r)
    PROVE  Requested'
<1>0. Types /\ Alone(db) /\ db \in Seq(Jobs) /\ \A s \in Requests : Fine(req[s]) /\ Served(s)
  BY DEF Steady, Requested, Types
<1>1. CASE Underway(r)
  <2>1. PICK p \in Pending : Proceeds(r, p)
    BY <1>0, <1>1, ProceedsFacts
  <2>2. db' = db
    BY <1>0, <1>1, ProceedsFacts
  <2>3. Fine(p) /\ (p.pc = "save") = (req[r].pc = "save") /\ p.skip = req[r].skip
    BY <2>1 DEF Proceeds, Fine
  <2>4. ASSUME NEW s \in Requests PROVE Fine(req'[s]) /\ Served(s)'
    <3>1. req'[s] = (IF s = r THEN p ELSE req[s])
      BY <1>0, <2>1 DEF Proceeds, Types
    <3> QED
      BY <1>0, <2>2, <2>3, <3>1 DEF Served
  <2> QED
    BY <1>0, <2>2, <2>4 DEF Requested
<1>2. CASE refreshOnce(r) \/ holdPhase(r)
  <2>1. req[r].pc \in {"skip", "hold"} /\ req[r].skip # "saving" /\ req[r].pc # "save"
    BY <1>0, <1>2, TurnFacts DEF Fine
  <2>2. ~Serving(db, r, "save") /\ ~Serving(db, r, "skip")
    BY <1>0, <2>1 DEF Served
  <2>3. CASE Saves(r)
    <3> DEFINE e == [job |-> "read", r |-> r, by |-> "save"]
               p == [req[r] EXCEPT !.pc = "save"]
    <3>1. e \in ReadJobs /\ e.r = r /\ e.by = "save"
      BY DEF ReadJobs
    <3>2. \A f \in Among(db) : f \in Jobs
      BY <1>0, AskedTypes DEF Asked
    <3>3. db' = Append(db, e) /\ req' = [req EXCEPT ![r] = p]
      BY <2>3 DEF Saves
    <3> HIDE DEF e
    <3>4. /\ Alone(db')
          /\ \A s, by : Serving(db', s, by) <=> (Serving(db, s, by) \/ (s = r /\ by = "save"))
      BY <1>0, <2>2, <3>1, <3>2, <3>3, SaveFacts
    <3>5. req[r] \in Pending
      BY <1>0 DEF Types
    <3>6. p.pc = "save" /\ p.skip = req[r].skip /\ p.aiPending = req[r].aiPending
      BY <3>5 DEF Pending
    <3>7. Fine(p)
      BY <1>0, <2>1, <3>6 DEF Fine
    <3>8. ASSUME NEW s \in Requests PROVE Fine(req'[s]) /\ Served(s)'
      <4>1. req'[s] = (IF s = r THEN p ELSE req[s])
        BY <1>0, <3>3 DEF Types
      <4> QED
        BY <1>0, <2>1, <2>2, <3>4, <3>6, <3>7, <4>1 DEF Served
    <3> QED
      BY <3>4, <3>8 DEF Requested
  <2>4. CASE (\E failed \in BOOLEAN : Finish(r, failed)) /\ db' = db
    <3>1. req' = [req EXCEPT ![r] = Off]
      BY <1>0, <2>4, FinishFacts
    <3>2. \A s \in Requests, by \in {"save", "skip"} : Serving(db', s, by) <=> (Serving(db, s, by) /\ s # r)
      BY <2>2, <2>4
    <3> QED
      BY <1>0, <2>4, <3>1, <3>2, EndsRequested
  <2>5. CASE req[r].pc = "skip" /\ req' = [req EXCEPT ![r].pc = "hold"] /\ db' = db
    <3> DEFINE p == [req[r] EXCEPT !.pc = "hold"]
    <3>1. req[r] \in Pending
      BY <1>0 DEF Types
    <3>2. p.pc = "hold" /\ p.skip = req[r].skip /\ p.aiPending = req[r].aiPending
      BY <3>1 DEF Pending
    <3>3. Fine(p)
      BY <1>0, <2>1, <2>5, <3>2 DEF Fine
    <3>4. ASSUME NEW s \in Requests PROVE Fine(req'[s]) /\ Served(s)'
      <4>1. req'[s] = (IF s = r THEN p ELSE req[s])
        BY <1>0, <2>5 DEF Types
      <4> QED
        BY <1>0, <2>1, <2>5, <3>2, <3>3, <4>1 DEF Served
    <3> QED
      BY <1>0, <2>5, <3>4 DEF Requested
  <2> QED
    BY <1>0, <1>2, <2>3, <2>4, <2>5, TurnFacts DEF Ends
<1> QED
  BY <1>1, <1>2 DEF RequestStep, Underway

LEMMA AnswersRequested ==
    ASSUME Steady, Types', Answers
    PROVE  Requested'
<1>0. Types /\ Alone(db) /\ db \in Seq(Jobs) /\ \A s \in Requests : Fine(req[s]) /\ Served(s)
  BY DEF Steady, Requested, Types
<1>1. db # <<>>
  BY DEF Answers, AnswerWorn, AnswerRead, AnswerWrite
<1> DEFINE j == Head(db)
<1>2. j \in Asked /\ Among(Tail(db)) \subseteq Among(db) /\ Tail(db) \in Seq(Jobs)
  BY <1>0, <1>1, TailFacts DEF Asked
<1>3. CASE AnswerWorn
  <2>1. j \in WornJobs /\ j.job = "worn" /\ db' = Tail(db) /\ refreshPrepared(j)
    BY <1>0, <1>2, <1>3, AskedTypes DEF AnswerWorn
  <2> HIDE DEF j
  <2>2. Alone(db') /\ \A s, by : Serving(db', s, by) <=> Serving(db, s, by)
    BY <1>0, <1>1, <2>1, AnsweredFacts DEF j
  <2>3. CASE req' = req
    BY <1>0, <2>2, <2>3 DEF Requested, Served
  <2>4. CASE \E r \in Requests : Begin(j, r)
    <3>1. PICK r \in Requests : Begin(j, r)
      BY <2>4
    <3>2. PICK p \in Pending :
             /\ req' = [req EXCEPT ![r] = p] /\ p.pc \in {"skip", "reserve", "preview"} /\ p.skip = "none"
             /\ (p.pc = "reserve") <=> (p.aiPending /\ p.reask)
             /\ (p.pc = "preview") <=> (p.aiPending /\ ~p.reask)
      BY <1>0, <2>1, <3>1, BeginFacts
    <3>3. ~Active(r)
      BY <3>1 DEF Begin
    <3>4. Fine(p) /\ p.pc # "save" /\ p.skip # "saving" /\ req[r].pc # "save" /\ req[r].skip # "saving"
      BY <1>0, <3>2, <3>3 DEF Fine, Active, Off
    <3>5. ASSUME NEW s \in Requests PROVE Fine(req'[s]) /\ Served(s)'
      <4>1. req'[s] = (IF s = r THEN p ELSE req[s])
        BY <1>0, <3>2 DEF Types
      <4> QED
        BY <1>0, <2>2, <3>4, <4>1 DEF Served
    <3> QED
      BY <2>2, <3>5 DEF Requested
  <2> QED
    BY <1>0, <2>1, <2>3, <2>4, PreparedFacts DEF Unprepared, Join
<1>4. ASSUME j.job # "worn", j \in ReadJobs \cup WriteJobs, db' = Tail(db),
             \/ req' = [req EXCEPT ![j.r] = Off] /\ j.by = "save"
             \/ req' = [req EXCEPT ![j.r].skip = "done"] /\ j.by = "skip"
      PROVE  Requested'
  <2> HIDE DEF j
  <2>1. j.r \in Requests
    BY <1>4 DEF ReadJobs, WriteJobs
  <2>2. Alone(db') /\ \A s, by : Serving(db', s, by) <=> (Serving(db, s, by) /\ s # j.r)
    BY <1>0, <1>1, <1>4, AnsweredFacts DEF j
  <2>3. CASE req' = [req EXCEPT ![j.r] = Off]
    BY <2>1, <2>2, <2>3, EndsRequested
  <2>4. CASE req' = [req EXCEPT ![j.r].skip = "done"] /\ j.by = "skip"
    <3> DEFINE p == [req[j.r] EXCEPT !.skip = "done"]
    <3>1. Serving(db, j.r, "skip")
      BY <1>2, <1>4, <2>4 DEF Serving, Asked
    <3>2. req[j.r].skip = "saving" /\ Fine(req[j.r])
      BY <1>0, <2>1, <3>1 DEF Served
    <3>3. req[j.r] \in Pending
      BY <1>0, <2>1 DEF Types
    <3>4. /\ p.pc = req[j.r].pc /\ p.skip = "done" /\ p.aiPending = req[j.r].aiPending
          /\ p.reask = req[j.r].reask
      BY <3>3 DEF Pending
    <3>5. Fine(p) /\ p.pc # "save"
      BY <3>2, <3>4 DEF Fine, Off
    <3>6. ASSUME NEW s \in Requests PROVE Fine(req'[s]) /\ Served(s)'
      <4>1. req'[s] = (IF s = j.r THEN p ELSE req[s])
        BY <1>0, <2>1, <2>4 DEF Types
      <4> QED
        BY <1>0, <2>2, <3>2, <3>4, <3>5, <4>1 DEF Served
    <3> QED
      BY <2>2, <3>6 DEF Requested
  <2> QED
    BY <1>4, <2>3, <2>4
<1>5. CASE AnswerRead
  <2>1. j.job = "read" /\ j \in ReadJobs
    BY <1>0, <1>2, <1>5, AskedTypes DEF AnswerRead
  <2>2. CASE /\ outfits.made < MaxOutfits
             /\ db' = Append(Tail(db), [job |-> "write", r |-> Head(db).r, by |-> Head(db).by, n |-> outfits.made + 1])
             /\ req' = req
    <3> DEFINE e == [job |-> "write", r |-> j.r, by |-> j.by, n |-> outfits.made + 1]
    <3>1. outfits.made + 1 \in 0..MaxOutfits
      BY <1>0, <2>2, RecommendationAssumption DEF Types
    <3>2. e \in WriteJobs /\ e.r = j.r /\ e.by = j.by /\ db' = Append(Tail(db), e)
      BY <2>1, <2>2, <3>1 DEF ReadJobs, WriteJobs
    <3> HIDE DEF e, j
    <3>3. /\ Alone(Tail(db))
          /\ \A s, by : Serving(Tail(db), s, by) <=> (Serving(db, s, by) /\ s # j.r)
      BY <1>0, <1>1, <2>1, AnsweredFacts DEF j
    <3>4. \A f \in Among(Tail(db)) : f \in Jobs
      BY <1>0, <1>2, AskedTypes DEF Asked
    <3>5. /\ Alone(db')
          /\ \A s, by : Serving(db', s, by) <=> (Serving(Tail(db), s, by) \/ (s = j.r /\ by = j.by))
      BY <1>2, <3>2, <3>3, <3>4, SaveFacts
    <3>6. j.r \in Requests /\ j.by \in {"save", "skip"} /\ Serving(db, j.r, j.by)
      BY <1>2, <2>1 DEF ReadJobs, Serving, Asked
    <3>7. \A by \in {"save", "skip"} : by # j.by => ~Serving(db, j.r, by)
      BY <1>0, <3>6 DEF Served, Fine
    <3>8. \A s \in Requests, by \in {"save", "skip"} : Serving(db', s, by) <=> Serving(db, s, by)
      BY <3>3, <3>5, <3>6, <3>7
    <3> QED
      BY <1>0, <2>2, <3>5, <3>8 DEF Requested, Served
  <2>3. CASE SaveFails(Head(db)) /\ db' = Tail(db)
    BY <1>0, <1>4, <2>1, <2>3, SaveFailsFacts, FinishFacts DEF ReadJobs
  <2> QED
    BY <1>5, <2>2, <2>3 DEF AnswerRead
<1>6. CASE AnswerWrite
  <2>1. j.job = "write" /\ j \in WriteJobs /\ db' = Tail(db)
    BY <1>0, <1>2, <1>6, AskedTypes DEF AnswerWrite
  <2>2. CASE Saved(Head(db), [n |-> Head(db).n, signal |-> req[Head(db).r].signal])
    <3>1. /\ j.by = "save" => req' = [req EXCEPT ![j.r] = Off]
          /\ j.by = "skip" => req' = [req EXCEPT ![j.r].skip = "done"]
      BY <2>2 DEF Saved
    <3> QED
      BY <1>4, <2>1, <3>1 DEF WriteJobs
  <2>3. CASE SaveFails(Head(db))
    BY <1>0, <1>4, <2>1, <2>3, SaveFailsFacts, FinishFacts DEF WriteJobs
  <2> QED
    BY <1>6, <2>2, <2>3 DEF AnswerWrite
<1> QED
  BY <1>3, <1>5, <1>6 DEF Answers

LEMMA RequestedStep ==
    ASSUME Steady, Types', [Next]_vars
    PROVE  Requested'
<1>0. Types /\ Alone(db) /\ db \in Seq(Jobs) /\ \A s \in Requests : Fine(req[s]) /\ Served(s)
  BY DEF Steady, Requested, Types
<1>1. CASE \E r \in Requests : RequestStep(r)
  BY <1>1, RequestStepRequested
<1>2. CASE Answers
  BY <1>2, AnswersRequested
<1>3. ASSUME NEW e \in WornJobs, db' = Append(db, e), req' = req PROVE Requested'
  BY <1>0, <1>3, WornFacts DEF Requested, Served
<1>4. ASSUME db' = db, req' = req PROVE Requested'
  BY <1>0, <1>4 DEF Requested, Served
<1>5. CASE Evaluating
  BY <1>0, <1>3, <1>4, <1>5, EvaluatingFacts DEF Evaluates
<1>6. CASE Touching
  BY <1>0, <1>3, <1>4, <1>6, TouchingFacts DEF AsksFor
<1>7. CASE skipWait
  <2>1. /\ latest \in Requests /\ req[latest].aiPending /\ req[latest].skip = "none"
        /\ \/ /\ req' = [req EXCEPT ![latest].skip = "saving"]
              /\ db' = Append(db, [job |-> "read", r |-> latest, by |-> "skip"])
           \/ req' = [req EXCEPT ![latest].skip = "done"] /\ db' = db
    BY <1>0, <1>7, SkipWaitFacts
  <2>2. PICK how \in {"saving", "done"} : req' = [req EXCEPT ![latest].skip = how]
    BY <2>1
  <2> DEFINE p == [req[latest] EXCEPT !.skip = how]
             e == [job |-> "read", r |-> latest, by |-> "skip"]
  <2>3. req[latest] \in Pending
    BY <1>0, <2>1 DEF Types
  <2>4. p.pc = req[latest].pc /\ p.skip = how /\ p.aiPending = req[latest].aiPending /\ p.reask = req[latest].reask
    BY <2>3 DEF Pending
  <2>5. req[latest].pc \in {"reserve", "preview", "ask", "release"} /\ Fine(p)
    BY <1>0, <2>1, <2>4 DEF Fine
  <2>6. \A s \in Requests : req'[s] = (IF s = latest THEN p ELSE req[s])
    BY <1>0, <2>1, <2>2 DEF Types
  <2>7. CASE how = "done" /\ db' = db
    <3>1. ASSUME NEW s \in Requests PROVE Fine(req'[s]) /\ Served(s)'
      <4>1. Fine(req[s]) /\ Served(s)
        BY <1>0
      <4>2. CASE s # latest
        BY <2>6, <2>7, <4>1, <4>2 DEF Served
      <4>3. CASE s = latest
        BY <2>1, <2>4, <2>5, <2>6, <2>7, <4>1, <4>3 DEF Served
      <4> QED
        BY <4>2, <4>3
    <3> QED
      BY <1>0, <2>7, <3>1 DEF Requested
  <2>8. CASE how = "saving" /\ db' = Append(db, e)
    <3>1. e \in ReadJobs /\ e.r = latest /\ e.by = "skip"
      BY <2>1 DEF ReadJobs
    <3>2. \A by \in {"save", "skip"} : ~Serving(db, latest, by)
      BY <1>0, <2>1, <2>5 DEF Served
    <3>3. \A f \in Among(db) : f \in Jobs
      BY <1>0, AskedTypes DEF Asked
    <3> HIDE DEF e
    <3>4. /\ Alone(db')
          /\ \A s, by : Serving(db', s, by) <=> (Serving(db, s, by) \/ (s = latest /\ by = "skip"))
      BY <1>0, <2>8, <3>1, <3>2, <3>3, SaveFacts
    <3>5. ASSUME NEW s \in Requests PROVE Fine(req'[s]) /\ Served(s)'
      BY <1>0, <2>1, <2>4, <2>5, <2>6, <2>8, <3>4 DEF Served
    <3> QED
      BY <3>4, <3>5 DEF Requested
  <2>9. (how = "saving" /\ db' = Append(db, e)) \/ (how = "done" /\ db' = db)
    <3>1. req'[latest].skip = how
      BY <2>1, <2>4, <2>6
    <3>2. /\ [req EXCEPT ![latest].skip = "saving"][latest].skip = "saving"
          /\ [req EXCEPT ![latest].skip = "done"][latest].skip = "done"
      BY <1>0, <2>1, <2>3 DEF Types, Pending
    <3> QED
      BY <2>1, <3>1, <3>2
  <2> QED
    BY <2>7, <2>8, <2>9
<1>8. CASE initialize
  BY <1>4, <1>8 DEF initialize
<1>9. CASE ProcessEnds
  <2>1. db' = <<>> /\ \A r \in Requests : req'[r] = Off
    BY <1>9 DEF ProcessEnds
  <2>2. Among(db') = {} /\ Alone(db')
    BY <2>1 DEF Among, Alone
  <2>3. Fine(Off) /\ Off.pc = "off" /\ Off.skip = "none"
    BY DEF Fine, Off
  <2>4. ASSUME NEW s \in Requests PROVE Fine(req'[s]) /\ Served(s)'
    BY <2>1, <2>2, <2>3 DEF Served, Serving
  <2> QED
    BY <2>2, <2>4 DEF Requested
<1>10. CASE UNCHANGED vars
  BY <1>4, <1>10 DEF vars
<1> QED
  BY <1>1, <1>2, <1>5, <1>6, <1>7, <1>8, <1>9, <1>10 DEF Next, Resumes, Evaluating, Touching

\* Who waited for a request that ends goes on.
LEMMA FinishWaiting ==
    ASSUME Steady, NEW r \in Requests, req' = [req EXCEPT ![r] = Off],
           latest' = (IF latest = r THEN NoRequest ELSE latest), (flight.on # r /\ Stays) \/ Goes(r),
           tracked' = (IF tracked = r THEN NoRequest ELSE tracked), trailing' = trailing, Reads(db, db')
    PROVE  Waiting'
<1>1. Types /\ Waiting
  BY DEF Steady
<1>2. \A s \in Requests : Active(s)' <=> s # r /\ Active(s)
  BY <1>1 DEF Types, Active, Off
<1>3. latest \in Requests \cup {NoRequest}
  BY <1>1 DEF Types
<1>4. (latest # NoRequest => Active(latest))'
  BY <1>1, <1>2, <1>3, ConstantFacts DEF Waiting
<1>5. \A x : x # r /\ Promised(x) => Promised(x)'
  BY <1>2 DEF Promised, Reads
<1>6. Promised(NoRequest)'
  BY ConstantFacts DEF Promised
<1>7. Promised(tracked)'
  BY <1>1, <1>5, <1>6 DEF Waiting
<1>8. CASE flight.on # r /\ Stays
  BY <1>1, <1>4, <1>5, <1>7, <1>8 DEF Waiting, Stays, Reads
<1>9. CASE Goes(r)
  BY <1>1, <1>4, <1>6, <1>7, <1>9 DEF Waiting, Goes
<1> QED
  BY <1>8, <1>9

\* Requests in flight stay so, and SQLite's reads.
LEMMA KeptWaiting ==
    ASSUME Steady, Types', UNCHANGED <<latest, flight, trailing, tracked>>,
           \A s \in Requests : Active(s) => Active(s)', Reads(db, db')
    PROVE  Waiting'
<1>1. \A x : Promised(x) => Promised(x)'
  BY DEF Promised, Reads
<1> QED
  BY <1>1 DEF Steady, Waiting, Types, Reads

LEMMA RequestStepWaiting ==
    ASSUME Steady, Types', NEW r \in Requests, RequestStep(r)
    PROVE  Waiting'
<1>0. Types /\ Alone(db) /\ db \in Seq(Jobs) /\ \A s \in Requests : Fine(req[s]) /\ Served(s)
  BY DEF Steady, Requested, Types
<1>1. CASE Underway(r)
  <2>1. PICK p \in Pending : Proceeds(r, p)
    BY <1>0, <1>1, ProceedsFacts
  <2>2. UNCHANGED <<db, latest, flight, trailing, tracked>>
    BY <1>0, <1>1, ProceedsFacts
  <2>3. \A s \in Requests : Active(s) => Active(s)'
    BY <1>0, <2>1 DEF Proceeds, Active, Types
  <2> QED
    BY <2>2, <2>3, KeptWaiting DEF Reads
<1>2. CASE refreshOnce(r) \/ holdPhase(r)
  <2>0. trailing' = trailing
    BY <1>0, <1>2, TurnFacts
  <2>1. CASE Saves(r)
    <3> DEFINE e == [job |-> "read", r |-> r, by |-> "save"]
    <3>1. e \in Jobs /\ db' = Append(db, e)
      BY <2>1 DEF Jobs, ReadJobs, Saves
    <3>2. Reads(db, db')
      <4> HIDE DEF e
      <4> QED
        BY <1>0, <3>1, AppendFacts DEF Reads, Reading, Reasking
    <3>3. \A s \in Requests : Active(s) => Active(s)'
      BY <1>0, <2>1 DEF Saves, Active, Types, Pending
    <3> QED
      BY <2>0, <2>1, <3>2, <3>3, KeptWaiting DEF Saves
  <2>2. CASE (\E failed \in BOOLEAN : Finish(r, failed)) /\ db' = db
    <3>1. PICK failed \in BOOLEAN : Finish(r, failed)
      BY <2>2
    <3>2. /\ req' = [req EXCEPT ![r] = Off] /\ latest' = (IF latest = r THEN NoRequest ELSE latest)
          /\ ((flight.on # r /\ Stays) \/ Goes(r))
          /\ tracked' = (IF tracked = r THEN NoRequest ELSE tracked)
      BY <1>0, <3>1, FinishFacts
    <3> QED
      BY <2>0, <2>2, <3>2, FinishWaiting DEF Reads
  <2>3. CASE req' = [req EXCEPT ![r].pc = "hold"] /\ UNCHANGED <<latest, db, flight, tracked>>
    <3>1. \A s \in Requests : Active(s) => Active(s)'
      BY <1>0, <2>3 DEF Active, Types, Pending
    <3> QED
      BY <2>0, <2>3, <3>1, KeptWaiting DEF Reads
  <2> QED
    BY <1>0, <1>2, <2>1, <2>2, <2>3, TurnFacts DEF Ends
<1> QED
  BY <1>1, <1>2 DEF RequestStep, Underway

LEMMA AnswersWaiting ==
    ASSUME Steady, Types', Answers
    PROVE  Waiting'
<1>0. Types /\ Alone(db) /\ db \in Seq(Jobs) /\ Waiting /\ \A s \in Requests : Fine(req[s]) /\ Served(s)
  BY DEF Steady, Requested, Types
<1>1. db # <<>>
  BY DEF Answers, AnswerWorn, AnswerRead, AnswerWrite
<1> DEFINE j == Head(db)
<1>2. j \in Asked /\ Tail(db) \in Seq(Jobs)
  BY <1>0, <1>1, TailFacts DEF Asked
<1>3. CASE AnswerWorn
  <2>1. /\ j \in WornJobs /\ j.job = "worn" /\ db' = Tail(db) /\ refreshPrepared(j)
        /\ trailing' = trailing
    BY <1>0, <1>2, <1>3, AskedTypes DEF AnswerWorn
  <2> HIDE DEF j
  <2>2. /\ \A by : Reading(db, by) => Reading(db', by) \/ by = j.by
        /\ \A x : Reasking(db, x) => Reasking(db', x) \/ (j.by = "reask" /\ x = j.id)
    BY <1>0, <1>1, <2>1, AnsweredFacts DEF j
  <2>3. j.by \in {"evaluation", "direct", "reask"} /\ flight \in Evaluations
    BY <1>0, <2>1 DEF WornJobs, Types
  <2>4. CASE Unprepared(j)
    <3>1. /\ req' = req /\ latest' = latest
          /\ j.by = "evaluation" => flight'.pc = "ended" /\ flight'.on = flight.on
          /\ j.by = "direct" => Stays
          /\ j.by = "reask" => (flight.on # j.id /\ Stays) \/ Goes(j.id)
          /\ tracked' = NoRequest \/ (tracked' = tracked /\ ~(j.by = "reask" /\ tracked = j.id))
      BY <1>0, <2>1, <2>4, UnpreparedFacts
    <3>2. \A x : Promised(x) /\ ~(j.by = "reask" /\ x = j.id) => Promised(x)'
      BY <2>2, <3>1 DEF Promised, Active
    <3>3. Promised(NoRequest)'
      BY ConstantFacts DEF Promised
    <3>4. Promised(tracked)' /\ (latest # NoRequest => Active(latest))'
      BY <1>0, <3>1, <3>2, <3>3 DEF Waiting, Active
    <3>5. CASE j.by = "evaluation"
      BY <1>0, <2>1, <3>1, <3>2, <3>4, <3>5 DEF Waiting
    <3>6. CASE j.by # "evaluation" /\ Stays /\ ~(j.by = "reask" /\ flight.on = j.id)
      BY <1>0, <2>1, <2>2, <3>2, <3>4, <3>6 DEF Waiting, Stays
    <3>7. CASE j.by = "reask" /\ Goes(j.id)
      BY <1>0, <2>1, <3>3, <3>4, <3>7 DEF Waiting, Goes
    <3> QED
      BY <2>3, <3>1, <3>5, <3>6, <3>7
  <2>5. ASSUME NEW r \in Requests, WaitFor(j, r), latest' = r, Active(r)',
               \A s \in Requests : Active(s) => Active(s)'
        PROVE  Waiting'
    <3>1. /\ j.by = "evaluation" => flight'.pc = "wait" /\ flight'.on = r
          /\ j.by # "evaluation" => flight'.pc = flight.pc
          /\ j.by # "evaluation" =>
                flight'.on = r \/ (flight'.on = flight.on /\ ~(j.by = "reask" /\ flight.on = j.id))
          /\ flight'.on = flight.on \/ j.by = "evaluation" \/ (j.by = "reask" /\ flight.on = j.id)
          /\ tracked' = r \/ (tracked' = tracked /\ ~(j.by = "reask" /\ tracked = j.id))
      BY <1>0, <2>1, <2>5, WaitForFacts
    <3>2. \A x : Promised(x) /\ ~(j.by = "reask" /\ x = j.id) => Promised(x)'
      BY <2>2, <2>5 DEF Promised
    <3>3. Promised(r)' /\ r # NoRequest
      BY <2>5, ConstantFacts DEF Promised
    <3>4. Promised(tracked)' /\ (latest # NoRequest => Active(latest))'
      BY <1>0, <2>5, <3>1, <3>2, <3>3 DEF Waiting
    <3>5. Promised(flight.on)'
      BY <1>0, <3>1, <3>2, <3>3 DEF Waiting
    <3>6. (flight.pc = "wait" => flight.on \in Requests)' /\ (flight.pc = "reask" => flight.on # NoRequest)'
      BY <1>0, <2>5, <3>1, <3>3 DEF Waiting
    <3>7. (flight.pc = "worn" => Reading(db, "evaluation"))' /\ (trailing.pc = "queued" => flight.pc # "off")'
      BY <1>0, <2>1, <2>2, <3>1 DEF Waiting
    <3> QED
      BY <3>4, <3>5, <3>6, <3>7 DEF Waiting
  <2>6. CASE \E r \in Requests : Active(r) /\ Join(j, r)
    BY <2>5, <2>6 DEF Join, Active
  <2>7. CASE \E r \in Requests : Begin(j, r)
    <3>1. PICK r \in Requests : Begin(j, r)
      BY <2>7
    <3>2. PICK p \in Pending : req' = [req EXCEPT ![r] = p] /\ p.pc \in {"skip", "reserve", "preview"}
      BY <1>0, <2>1, <3>1, BeginFacts
    <3>3. Active(r)' /\ \A s \in Requests : Active(s) => Active(s)'
      BY <1>0, <3>2 DEF Active, Types
    <3> QED
      BY <2>5, <2>7, <3>1, <3>3 DEF Begin
  <2> QED
    BY <1>0, <2>1, <2>4, <2>6, <2>7, PreparedFacts
<1>4. ASSUME NEW r \in Requests, req' = [req EXCEPT ![r].skip = "done"],
             UNCHANGED <<latest, flight, tracked, trailing>>, Reads(db, db')
      PROVE  Waiting'
  <2>1. \A s \in Requests : Active(s) => Active(s)'
    BY <1>0, <1>4 DEF Active, Types, Pending
  <2> QED
    BY <1>4, <2>1, KeptWaiting
<1>5. ASSUME j.job # "worn", j \in ReadJobs \cup WriteJobs, db' = Tail(db), SaveFails(j), trailing' = trailing
      PROVE  Waiting'
  <2> HIDE DEF j
  <2>1. j.r \in Requests
    BY <1>5 DEF ReadJobs, WriteJobs
  <2>2. Reads(db, db')
    BY <1>0, <1>1, <1>5, AnsweredFacts DEF j
  <2>3. CASE Finish(j.r, TRUE)
    <3>1. /\ req' = [req EXCEPT ![j.r] = Off] /\ latest' = (IF latest = j.r THEN NoRequest ELSE latest)
          /\ ((flight.on # j.r /\ Stays) \/ Goes(j.r))
          /\ tracked' = (IF tracked = j.r THEN NoRequest ELSE tracked)
      BY <1>0, <2>1, <2>3, FinishFacts
    <3> QED
      BY <1>5, <2>1, <2>2, <3>1, FinishWaiting
  <2> QED
    BY <1>0, <1>4, <1>5, <2>1, <2>2, <2>3, SaveFailsFacts
<1>6. CASE AnswerRead
  <2>1. j.job = "read" /\ j \in ReadJobs /\ trailing' = trailing
    BY <1>0, <1>2, <1>6, AskedTypes DEF AnswerRead
  <2>2. CASE /\ outfits.made < MaxOutfits
             /\ db' = Append(Tail(db), [job |-> "write", r |-> Head(db).r, by |-> Head(db).by, n |-> outfits.made + 1])
             /\ UNCHANGED <<req, latest, flight, tracked>>
    <3> DEFINE e == [job |-> "write", r |-> j.r, by |-> j.by, n |-> outfits.made + 1]
    <3>1. outfits.made + 1 \in 0..MaxOutfits
      BY <1>0, <2>2, RecommendationAssumption DEF Types
    <3>2. e \in Jobs /\ db' = Append(Tail(db), e)
      BY <2>1, <2>2, <3>1 DEF Jobs, ReadJobs, WriteJobs
    <3> HIDE DEF e, j
    <3>3. Reads(db, Tail(db))
      BY <1>0, <1>1, <2>1, AnsweredFacts DEF j
    <3>4. Reads(db, db')
      <4>1. Among(db') = Among(Tail(db)) \cup {e}
        BY <1>2, <3>2, AppendFacts
      <4> QED
        BY <3>3, <4>1 DEF Reads, Reading, Reasking
    <3>5. \A s \in Requests : Active(s) => Active(s)'
      BY <2>2 DEF Active
    <3> QED
      BY <2>1, <2>2, <3>4, <3>5, KeptWaiting
  <2>3. CASE SaveFails(Head(db)) /\ db' = Tail(db)
    BY <1>5, <2>1, <2>3
  <2> QED
    BY <1>6, <2>2, <2>3 DEF AnswerRead
<1>7. CASE AnswerWrite
  <2>1. j.job = "write" /\ j \in WriteJobs /\ db' = Tail(db) /\ trailing' = trailing
    BY <1>0, <1>2, <1>7, AskedTypes DEF AnswerWrite
  <2>2. CASE Saved(Head(db), [n |-> Head(db).n, signal |-> req[Head(db).r].signal])
    <3>1. [n |-> j.n, signal |-> req[j.r].signal] \in Outfits
      <4>1. req[j.r] \in Pending /\ j.n \in 0..MaxOutfits
        BY <1>0, <2>1 DEF WriteJobs, Types
      <4> QED
        BY <4>1 DEF Outfits, Pending
    <3>2. Reads(db, db')
      BY <1>0, <1>1, <2>1, AnsweredFacts
    <3>3. j.r \in Requests /\ j.by \in {"save", "skip"}
      BY <2>1 DEF WriteJobs
    <3>4. CASE j.by = "save"
      <4>1. /\ req' = [req EXCEPT ![j.r] = Off] /\ latest' = (IF latest = j.r THEN NoRequest ELSE latest)
            /\ ((flight.on # j.r /\ Stays) \/ Goes(j.r))
            /\ tracked' = (IF tracked = j.r THEN NoRequest ELSE tracked)
        BY <1>0, <2>1, <2>2, <3>1, <3>4, SavedFacts
      <4> QED
        BY <2>1, <3>2, <3>3, <4>1, FinishWaiting
    <3>5. CASE j.by = "skip"
      <4>1. req' = [req EXCEPT ![j.r].skip = "done"] /\ UNCHANGED <<latest, flight, tracked>>
        BY <1>0, <2>1, <2>2, <3>1, <3>5, SavedFacts
      <4> QED
        BY <1>4, <2>1, <3>2, <3>3, <4>1
    <3> QED
      BY <3>3, <3>4, <3>5
  <2>3. CASE SaveFails(Head(db))
    BY <1>5, <2>1, <2>3
  <2> QED
    BY <1>7, <2>2, <2>3 DEF AnswerWrite
<1> QED
  BY <1>3, <1>6, <1>7 DEF Answers

LEMMA WaitingStep ==
    ASSUME Steady, Types', [Next]_vars
    PROVE  Waiting'
<1>0. Types /\ Alone(db) /\ db \in Seq(Jobs) /\ Waiting
  BY DEF Steady, Requested, Types
<1>1. CASE \E r \in Requests : RequestStep(r)
  BY <1>1, RequestStepWaiting
<1>2. CASE Answers
  BY <1>2, AnswersWaiting
<1>3. CASE Evaluating
  <2>1. /\ trailing'.pc = "queued" => flight'.pc # "off"
        /\ \/ flight.pc # "off" /\ flight'.pc = flight.pc /\ flight'.on = flight.on
           \/ flight'.pc = "reask" /\ flight'.on = tracked /\ tracked # NoRequest
           \/ flight'.pc = "off" /\ flight'.on = NoRequest
           \/ flight'.pc \in {"worn", "ended"} /\ flight'.on \in {NoRequest, flight.on}
        /\ UNCHANGED <<req, latest, tracked>>
    BY <1>0, <1>3, EvaluatingFacts
  <2>2. \A s : Active(s)' <=> Active(s)
    BY <2>1 DEF Active
  <2>3. Reads(db, db') /\ (flight'.pc = "worn" => Reading(db', "evaluation"))
    <3>1. CASE db' = db /\ (flight'.pc = "worn" => flight.pc = "worn")
      BY <1>0, <3>1 DEF Waiting, Reads
    <3>2. ASSUME NEW e, Evaluates(e) PROVE Reads(db, db') /\ Reading(db', "evaluation")
      BY <1>0, <3>2, WornFacts DEF Evaluates
    <3> QED
      BY <1>0, <1>3, <3>1, <3>2, EvaluatingFacts
  <2>4. \A x : Promised(x) => Promised(x)'
    BY <2>2, <2>3 DEF Promised, Reads
  <2>5. Promised(NoRequest)'
    BY ConstantFacts DEF Promised
  <2>6. Promised(tracked)' /\ (latest # NoRequest => Active(latest))'
    BY <1>0, <2>1, <2>2, <2>4 DEF Waiting
  <2>7. CASE flight'.pc = flight.pc /\ flight'.on = flight.on
    BY <1>0, <2>1, <2>3, <2>4, <2>6, <2>7 DEF Waiting
  <2>8. CASE flight'.pc = "reask" /\ flight'.on = tracked /\ tracked # NoRequest
    BY <1>0, <2>1, <2>4, <2>6, <2>8 DEF Waiting
  <2>9. CASE flight'.pc \in {"off", "worn", "ended"} /\ flight'.on \in {NoRequest, flight.on}
    BY <1>0, <2>1, <2>3, <2>4, <2>5, <2>6, <2>9 DEF Waiting
  <2> QED
    BY <2>1, <2>7, <2>8, <2>9
<1>4. CASE Touching
  <2>1. UNCHANGED <<req, latest, flight, trailing>>
    BY <1>0, <1>4, TouchingFacts
  <2>2. \A s : Active(s)' <=> Active(s)
    BY <2>1 DEF Active
  <2>3. Reads(db, db') /\ (tracked' = tracked \/ (tracked' \in 0..MaxChanges /\ Reasking(db', tracked')))
    <3>1. ASSUME NEW e, AsksFor(e)
          PROVE  Reads(db, db') /\ e.id \in 0..MaxChanges /\ (e.by = "reask" => Reasking(db', e.id))
      BY <1>0, <3>1, WornFacts DEF AsksFor, WornJobs
    <3>2. CASE db' = db /\ tracked' = tracked
      BY <3>2 DEF Reads
    <3> QED
      BY <1>0, <1>4, <3>1, <3>2, TouchingFacts
  <2>4. \A x : Promised(x) => Promised(x)'
    BY <2>2, <2>3 DEF Promised, Reads
  <2>5. Promised(tracked)'
    <3>1. CASE tracked' = tracked
      BY <1>0, <2>4, <3>1 DEF Waiting
    <3>2. CASE tracked' # tracked
      BY <2>3, <3>2, ConstantFacts DEF Promised
    <3> QED
      BY <3>1, <3>2
  <2> QED
    BY <1>0, <2>1, <2>2, <2>3, <2>4, <2>5 DEF Waiting, Reads
<1>5. CASE skipWait
  <2>1. /\ latest \in Requests /\ UNCHANGED <<latest, flight, trailing, tracked>>
        /\ \/ req' = [req EXCEPT ![latest].skip = "saving"]
           \/ req' = [req EXCEPT ![latest].skip = "done"]
        /\ db' = Append(db, [job |-> "read", r |-> latest, by |-> "skip"]) \/ db' = db
    BY <1>0, <1>5, SkipWaitFacts
  <2>2. \A s \in Requests : Active(s) => Active(s)'
    <3>1. PICK how \in {"saving", "done"} : req' = [req EXCEPT ![latest].skip = how]
      BY <2>1
    <3>2. req[latest] \in Pending
      BY <1>0, <2>1 DEF Types
    <3>3. [req[latest] EXCEPT !.skip = how].pc = req[latest].pc
      BY <3>2 DEF Pending
    <3> QED
      BY <1>0, <2>1, <3>1, <3>3 DEF Active, Types
  <2>3. [job |-> "read", r |-> latest, by |-> "skip"] \in Jobs
    BY <2>1 DEF Jobs, ReadJobs
  <2>4. Reads(db, db')
    <3>1. Among(db) \subseteq Among(db')
      BY <1>0, <2>1, <2>3, AppendFacts
    <3> QED
      BY <3>1 DEF Reads, Reading, Reasking
  <2> QED
    BY <2>1, <2>2, <2>4, KeptWaiting
<1>6. CASE initialize
  <2>1. UNCHANGED <<req, latest, db, flight, trailing, tracked>>
    BY <1>6 DEF initialize
  <2> QED
    BY <2>1, KeptWaiting DEF Active, Reads
<1>7. CASE ProcessEnds
  BY <1>7, ConstantFacts DEF ProcessEnds, Waiting, Promised, NoFlight, NoTrailing
<1>8. CASE UNCHANGED vars
  BY <1>8, KeptWaiting DEF vars, Active, Reads
<1> QED
  BY <1>1, <1>2, <1>3, <1>4, <1>5, <1>6, <1>7, <1>8 DEF Next, Resumes, Evaluating, Touching

\* Today's indicator: what a step does to it and to the latest request.
LEMMA BusyStep ==
    ASSUME Steady, Types', [Next]_vars
    PROVE  BusyShown' /\ (ui'.status = ui.status \/ initialize \/ ProcessEnds)
<1> DEFINE Kept == ui'.status = ui.status /\ ui'.refreshing = ui.refreshing /\ latest' = latest
           Ended(r) == /\ ui'.status = ui.status /\ ui'.refreshing = (ui.refreshing /\ latest # r)
                       /\ latest' = (IF latest = r THEN NoRequest ELSE latest)
           Begun == ui'.status = ui.status /\ ui'.refreshing /\ latest' \in Requests
<1>0. Types /\ db \in Seq(Jobs) /\ BusyShown
  BY DEF Steady, Types
<1>1. Kept => BusyShown' /\ ui'.status = ui.status
  BY <1>0 DEF BusyShown, Ready
<1>2. ASSUME NEW r \in Requests, Ended(r) PROVE BusyShown' /\ ui'.status = ui.status
  BY <1>0, <1>2 DEF BusyShown, Ready
<1>3. Begun => BusyShown' /\ ui'.status = ui.status
  BY <1>0, ConstantFacts DEF BusyShown, Ready
<1>4. ASSUME NEW r \in Requests, NEW failed \in BOOLEAN, Finish(r, failed) PROVE Ended(r)
  BY <1>0, <1>4, FinishFacts
<1>5. ASSUME NEW r \in Requests, RequestStep(r) PROVE Kept \/ Ended(r)
  <2>1. CASE Underway(r)
    BY <1>0, <2>1, ProceedsFacts
  <2>2. CASE refreshOnce(r) \/ holdPhase(r)
    BY <1>0, <1>4, <2>2, TurnFacts DEF Saves, Ends
  <2> QED
    BY <1>5, <2>1, <2>2 DEF RequestStep, Underway
<1>6. ASSUME NEW j \in ReadJobs \cup WriteJobs, SaveFails(j) PROVE Kept \/ Ended(j.r)
  <2>1. j.r \in Requests
    BY DEF ReadJobs, WriteJobs
  <2>2. CASE Finish(j.r, TRUE)
    BY <1>4, <2>1, <2>2
  <2>3. CASE ui' = [ui EXCEPT !.failed = TRUE] /\ latest' = latest
    BY <1>0, <2>3 DEF Types
  <2> QED
    BY <1>0, <1>6, <2>2, <2>3, SaveFailsFacts
<1>7. CASE Answers
  <2>1. db # <<>>
    BY <1>7 DEF Answers, AnswerWorn, AnswerRead, AnswerWrite
  <2>2. Head(db) \in Asked
    BY <1>0, <2>1, TailFacts DEF Asked
  <2>3. CASE AnswerWorn
    <3>1. Head(db) \in WornJobs /\ refreshPrepared(Head(db))
      BY <1>0, <2>2, <2>3, AskedTypes DEF AnswerWorn
    <3>2. Kept \/ Begun
      <4>1. CASE Unprepared(Head(db))
        BY <1>0, <4>1 DEF Unprepared, Types
      <4>2. CASE \E r \in Requests : Join(Head(db), r)
        BY <1>0, <4>2 DEF Join, Types
      <4>3. CASE \E r \in Requests : Begin(Head(db), r)
        BY <1>0, <4>3 DEF Begin, Types
      <4> QED
        BY <1>0, <3>1, <4>1, <4>2, <4>3, PreparedFacts
    <3> QED
      BY <1>1, <1>3, <3>2
  <2>4. CASE AnswerRead
    <3>1. Head(db) \in ReadJobs
      BY <1>0, <2>2, <2>4, AskedTypes DEF AnswerRead
    <3>2. Head(db).r \in Requests
      BY <3>1 DEF ReadJobs
    <3>3. Kept \/ SaveFails(Head(db))
      BY <2>4 DEF AnswerRead
    <3> QED
      BY <1>1, <1>2, <1>6, <3>1, <3>2, <3>3
  <2>5. CASE AnswerWrite
    <3> DEFINE j == Head(db)
               outfit == [n |-> j.n, signal |-> req[j.r].signal]
    <3>1. j \in WriteJobs
      BY <1>0, <2>2, <2>5, AskedTypes DEF AnswerWrite
    <3>2. j.r \in Requests /\ j.n \in 0..MaxOutfits
      BY <3>1 DEF WriteJobs
    <3>3. req[j.r] \in Pending
      BY <1>0, <3>2 DEF Types
    <3>4. outfit \in Outfits
      BY <3>2, <3>3 DEF Outfits, Pending
    <3>5. Saved(j, outfit) => Kept \/ Ended(j.r)
      <4> HIDE DEF j, outfit
      <4> QED
        BY <1>0, <3>1, <3>4, SavedFacts
    <3>6. Saved(j, outfit) \/ SaveFails(j)
      BY <2>5 DEF AnswerWrite
    <3> QED
      BY <1>1, <1>2, <1>6, <3>1, <3>2, <3>5, <3>6
  <2> QED
    BY <1>7, <2>3, <2>4, <2>5 DEF Answers
<1>8. CASE Evaluating
  BY <1>0, <1>1, <1>8, EvaluatingFacts
<1>9. CASE Touching
  BY <1>0, <1>1, <1>9, TouchingFacts
<1>10. CASE skipWait
  <2>1. Kept
    BY <1>0, <1>10, SkipWaitFacts DEF Types
  <2> QED
    BY <1>1, <2>1
<1>11. CASE initialize
  <2>1. latest = NoRequest /\ ~ui.refreshing
    BY <1>11 DEF Steady, Asleep, Ready, initialize, BusyShown
  <2> QED
    BY <1>0, <1>11, <2>1 DEF initialize, BusyShown, Types
<1>12. CASE ProcessEnds
  BY <1>12 DEF ProcessEnds, BusyShown, Ready
<1>13. CASE UNCHANGED vars
  BY <1>1, <1>13 DEF vars
<1> QED
  BY <1>1, <1>2, <1>5, <1>7, <1>8, <1>9, <1>10, <1>11, <1>12, <1>13 DEF Next, Resumes, Evaluating, Touching

LEMMA AsleepStep ==
    ASSUME Steady, Types', [Next]_vars
    PROVE  Asleep'
<1>1. CASE ProcessEnds
  BY <1>1 DEF ProcessEnds, Asleep, NoFlight, NoTrailing, Active, Off
<1>2. CASE initialize
  BY <1>2 DEF initialize, Asleep, Ready, Steady, Types
<1>3. CASE Next /\ ~initialize /\ ~ProcessEnds
  BY <1>3, AwakeFacts, BusyStep DEF Asleep, Ready
<1>4. CASE UNCHANGED vars
  BY <1>4 DEF vars, Steady, Asleep, Ready, Active
<1> QED
  BY <1>1, <1>2, <1>3, <1>4

LEMMA SteadyStep == Steady /\ [Next]_vars => Steady'
<1> SUFFICES ASSUME Steady, [Next]_vars PROVE Steady'
  OBVIOUS
<1>1. Types'
  BY TypesStep DEF Steady
<1> QED
  BY <1>1, AsleepStep, BusyStep, RequestedStep, WaitingStep DEF Steady

\* Today says that it is choosing exactly while the latest request is in flight,
\* and nobody waits for an answer that will not come: an evaluation and the
\* followers of a re-ask wait for a request in flight, a request that saves for
\* a job SQLite still has, and what is queued for an evaluation that runs.
THEOREM AlwaysConsistent == Spec => []Consistent
<1>1. Steady => Consistent
  <2> SUFFICES ASSUME Steady PROVE Consistent
    OBVIOUS
  <2>1. TypeOK
    BY DEF Steady, Types, TypeOK, Outfits, Pending, Evaluations, Behind, Awaitable
  <2>2. \A e \in Among(db) : \E i \in 1..Len(db) : db[i] = e
    BY DEF Among
  <2>3. \A by : Reading(db, by) => \E i \in 1..Len(db) : db[i].job = "worn" /\ db[i].by = by
    BY <2>2 DEF Reading
  <2>4. \A r, by : Serving(db, r, by) => \E i \in 1..Len(db) : db[i].job # "worn" /\ db[i].r = r
    BY <2>2 DEF Serving
  <2>5. \A x : x # NoRequest /\ Promised(x) => Answering(x)
    BY <2>2 DEF Promised, Answering, Reasking
  <2>6. flight.pc = "wait" => Active(flight.on)
    BY DEF Steady, Waiting, Promised
  <2>7. ASSUME NEW r \in Requests, req[r].pc = "save" \/ req[r].skip = "saving" PROVE Storing(r)
    BY <2>4, <2>7 DEF Steady, Requested, Served, Storing
  <2>8. NobodyLeftWaiting
    BY <2>3, <2>5, <2>6, <2>7 DEF Steady, Waiting, NobodyLeftWaiting
  <2> QED
    BY <2>1, <2>8 DEF Steady, Consistent
<1> QED
  BY <1>1, SteadyInit, SteadyStep, PTL DEF Spec

-----------------------------------------------------------------------------
(* The day's allowance.                                                      *)

\* A re-ask holds a slot from its reservation to its answer, or to its return.
Holding == {r \in Requests : req[r].reask /\ req[r].pc \in {"ask", "release"}}

\* Every slot is spent, or held, or was given back.
Reserved == budget.sent + Cardinality(Holding) <= budget.count

Allowed == Steady /\ Reserved

LEMMA HoldingFacts ==
    ASSUME Types, Types'
    PROVE  /\ Cardinality(Holding) \in Nat /\ Cardinality(Holding') \in Nat
           /\ Holding' \subseteq Holding => Cardinality(Holding') <= Cardinality(Holding)
           /\ \A r \in Requests : Holding' \subseteq Holding \cup {r} => Cardinality(Holding') <= Cardinality(Holding) + 1
           /\ \A r \in Holding : Holding' \subseteq Holding \ {r} => Cardinality(Holding') <= Cardinality(Holding) - 1
<1>0. Holding \subseteq Requests /\ Holding' \subseteq Requests
  BY DEF Holding
<1>1. IsFiniteSet(Holding) /\ IsFiniteSet(Holding')
  BY <1>0, RecommendationAssumption, FS_Subset
<1> HIDE DEF Holding
<1>2. Cardinality(Holding) \in Nat /\ Cardinality(Holding') \in Nat
  BY <1>1, FS_CardinalityType
<1>3. Holding' \subseteq Holding => Cardinality(Holding') <= Cardinality(Holding)
  BY <1>1, FS_Subset
<1>4. ASSUME NEW r \in Requests, Holding' \subseteq Holding \cup {r}
      PROVE  Cardinality(Holding') <= Cardinality(Holding) + 1
  <2>1. IsFiniteSet(Holding \cup {r}) /\ Cardinality(Holding \cup {r}) \in {Cardinality(Holding), Cardinality(Holding) + 1}
    BY <1>1, FS_AddElement
  <2>2. Cardinality(Holding') <= Cardinality(Holding \cup {r})
    BY <1>4, <2>1, FS_Subset
  <2> QED
    BY <1>2, <2>1, <2>2
<1>5. ASSUME NEW r \in Holding, Holding' \subseteq Holding \ {r}
      PROVE  Cardinality(Holding') <= Cardinality(Holding) - 1
  <2>1. IsFiniteSet(Holding \ {r}) /\ Cardinality(Holding \ {r}) = Cardinality(Holding) - 1
    BY <1>1, FS_RemoveElement
  <2>2. Cardinality(Holding') <= Cardinality(Holding \ {r})
    BY <1>5, <2>1, FS_Subset
  <2> QED
    BY <1>2, <2>1, <2>2
<1> QED
  BY <1>2, <1>3, <1>4, <1>5

LEMMA AllowedInit == Init => Allowed
<1> SUFFICES ASSUME Init PROVE Allowed
  OBVIOUS
<1>1. Holding = {}
  BY DEF Init, Holding, Off
<1>2. Cardinality(Holding) = 0 /\ budget.sent = 0 /\ budget.count = 0
  BY <1>1, FS_EmptySet DEF Init
<1> QED
  BY <1>2, SteadyInit DEF Allowed, Reserved

\* Nothing but a reservation and an answer touches a slot.
LEMMA ReservedStep ==
    ASSUME Allowed, [Next]_vars, Steady'
    PROVE  Reserved'
<1>0. /\ Types /\ Types' /\ Reserved /\ db \in Seq(Jobs) /\ \A s \in Requests : Fine(req[s])
      /\ budget.count \in Nat /\ budget.sent \in Nat
      /\ budget = [count |-> budget.count, sent |-> budget.sent]
  BY RecommendationAssumption DEF Allowed, Steady, Types, Requested
<1>1. ASSUME budget' = budget, Holding' \subseteq Holding PROVE Reserved'
  BY <1>0, <1>1, HoldingFacts DEF Reserved
<1>2. ASSUME NEW r \in Requests, NEW p, req' = [req EXCEPT ![r] = p], ~(p.reask /\ p.pc \in {"ask", "release"})
      PROVE  Holding' \subseteq Holding \ {r}
  BY <1>0, <1>2 DEF Holding, Types
<1>3. ASSUME NEW r \in Requests, Underway(r) PROVE Reserved'
  <2>1. PICK p \in Pending : Proceeds(r, p)
    BY <1>0, <1>3, ProceedsFacts
  <2>2. req' = [req EXCEPT ![r] = p] /\ p.reask = req[r].reask
    BY <2>1 DEF Proceeds
  <2>3. Holding' \subseteq Holding \cup {r}
    BY <1>0, <2>2 DEF Holding, Types
  <2>4. CASE reserveAiReask(r)
    <3>1. CASE budget' = [budget EXCEPT !.count = @ + 1]
      BY <1>0, <2>3, <3>1, HoldingFacts DEF Reserved
    <3>2. CASE budget' = budget /\ req' = [req EXCEPT ![r].pc = "skip", ![r].aiPending = FALSE]
      <4>1. p.pc = "skip"
        BY <1>0, <2>2, <3>2 DEF Types, Pending
      <4> QED
        BY <1>1, <1>2, <2>2, <3>2, <4>1
    <3> QED
      BY <2>4, <3>1, <3>2 DEF reserveAiReask
  <2>5. CASE loadPreview(r)
    <3>1. ~req[r].reask /\ budget' = budget
      BY <1>0, <2>5 DEF loadPreview, Fine
    <3> QED
      BY <1>1, <1>2, <2>2, <3>1
  <2>6. CASE recommendRouted(r)
    <3>1. PICK reached \in BOOLEAN, answered \in BOOLEAN :
            /\ answered => reached
            /\ req' = [req EXCEPT ![r].got = answered,
                                  ![r].pc = IF req[r].reask /\ ~reached THEN "release" ELSE "skip",
                                  ![r].aiPending = req[r].reask /\ ~reached]
            /\ budget' = [budget EXCEPT !.sent = @ + (IF req[r].reask /\ reached THEN 1 ELSE 0)]
      BY <2>6 DEF recommendRouted
    <3>2. p.pc = IF req[r].reask /\ ~reached THEN "release" ELSE "skip"
      BY <1>0, <2>2, <3>1 DEF Types, Pending
    <3>3. req[r].pc = "ask"
      BY <2>6 DEF recommendRouted
    <3>4. CASE req[r].reask /\ reached
      <4>1. r \in Holding /\ Holding' \subseteq Holding \ {r}
        BY <1>2, <2>2, <3>2, <3>3, <3>4 DEF Holding
      <4>2. budget' = [budget EXCEPT !.sent = @ + 1]
        BY <3>1, <3>4
      <4> QED
        BY <1>0, <4>1, <4>2, HoldingFacts DEF Reserved
    <3>5. CASE req[r].reask /\ ~reached
      <4>1. r \in Holding
        BY <3>3, <3>5 DEF Holding
      <4>2. budget' = budget
        BY <1>0, <3>1, <3>5
      <4> QED
        BY <1>1, <2>3, <4>1, <4>2
    <3>6. CASE ~req[r].reask
      <4>1. budget' = budget
        BY <1>0, <3>1, <3>6
      <4> QED
        BY <1>1, <1>2, <2>2, <3>6, <4>1
    <3> QED
      BY <3>4, <3>5, <3>6
  <2>7. CASE releaseAiReask(r)
    <3>1. req[r].reask /\ req[r].pc = "release"
      BY <1>0, <2>7 DEF releaseAiReask, Fine
    <3>2. p.pc = "skip"
      BY <1>0, <2>2, <2>7 DEF releaseAiReask, Types, Pending
    <3>3. r \in Holding /\ Holding' \subseteq Holding \ {r}
      BY <1>2, <2>2, <3>1, <3>2 DEF Holding
    <3>4. budget' \in {budget, [budget EXCEPT !.count = IF @ = 0 THEN 0 ELSE @ - 1]}
      BY <2>7 DEF releaseAiReask
    <3> QED
      BY <1>0, <3>3, <3>4, HoldingFacts DEF Reserved
  <2> QED
    BY <1>3, <2>4, <2>5, <2>6, <2>7 DEF Underway
<1>4. ASSUME NEW r \in Requests, req' = [req EXCEPT ![r] = Off] PROVE Holding' \subseteq Holding
  BY <1>2, <1>4 DEF Off
<1>5. ASSUME NEW r \in Requests, NEW how \in {"saving", "done"}, req' = [req EXCEPT ![r].skip = how]
      PROVE  Holding' \subseteq Holding
  <2>1. /\ [req[r] EXCEPT !.skip = how].pc = req[r].pc
        /\ [req[r] EXCEPT !.skip = how].reask = req[r].reask
    BY <1>0 DEF Types, Pending
  <2> QED
    BY <1>0, <1>5, <2>1 DEF Holding, Types
<1>6. CASE \E r \in Requests : RequestStep(r)
  <2>1. PICK r \in Requests : RequestStep(r)
    BY <1>6
  <2>2. CASE refreshOnce(r) \/ holdPhase(r)
    <3>1. budget' = budget
      BY <1>0, <2>2, TurnFacts
    <3>2. CASE \E how \in {"save", "hold"} : req' = [req EXCEPT ![r].pc = how]
      <4>1. PICK how \in {"save", "hold"} : req' = [req EXCEPT ![r].pc = how]
        BY <3>2
      <4>2. [req[r] EXCEPT !.pc = how].pc = how
        BY <1>0 DEF Types, Pending
      <4> QED
        BY <1>1, <1>2, <3>1, <4>1, <4>2
    <3>3. CASE req' = [req EXCEPT ![r] = Off]
      BY <1>1, <1>4, <3>1, <3>3
    <3> QED
      BY <1>0, <2>2, <3>2, <3>3, TurnFacts, FinishFacts DEF Saves, Ends
  <2> QED
    BY <1>3, <2>1, <2>2 DEF RequestStep, Underway
<1>7. CASE Answers
  <2>1. budget' = budget /\ db # <<>>
    BY <1>7 DEF Answers, AnswerWorn, AnswerRead, AnswerWrite
  <2>2. Head(db) \in Asked
    BY <1>0, <2>1, TailFacts DEF Asked
  <2>3. ASSUME NEW j \in ReadJobs \cup WriteJobs, SaveFails(j) PROVE Holding' \subseteq Holding
    <3>1. j.r \in Requests
      BY DEF ReadJobs, WriteJobs
    <3> QED
      BY <1>0, <1>4, <1>5, <2>3, <3>1, SaveFailsFacts, FinishFacts
  <2>4. CASE AnswerWorn
    <3>1. Head(db) \in WornJobs /\ refreshPrepared(Head(db))
      BY <1>0, <2>2, <2>4, AskedTypes DEF AnswerWorn
    <3>2. CASE \E r \in Requests : Begin(Head(db), r)
      <4>1. PICK r \in Requests : Begin(Head(db), r)
        BY <3>2
      <4>2. PICK p \in Pending : req' = [req EXCEPT ![r] = p] /\ p.pc \in {"skip", "reserve", "preview"}
        BY <1>0, <3>1, <4>1, BeginFacts
      <4> QED
        BY <1>1, <1>2, <2>1, <4>2
    <3>3. CASE req' = req
      BY <1>1, <2>1, <3>3 DEF Holding
    <3> QED
      BY <1>0, <3>1, <3>2, <3>3, PreparedFacts DEF Unprepared, Join
  <2>5. CASE AnswerRead
    <3>1. Head(db) \in ReadJobs
      BY <1>0, <2>2, <2>5, AskedTypes DEF AnswerRead
    <3>2. req' = req => Holding' \subseteq Holding
      BY DEF Holding
    <3> QED
      BY <1>1, <2>1, <2>3, <2>5, <3>1, <3>2 DEF AnswerRead
  <2>6. CASE AnswerWrite
    <3> DEFINE j == Head(db)
    <3>1. j \in WriteJobs
      BY <1>0, <2>2, <2>6, AskedTypes DEF AnswerWrite
    <3>2. j.r \in Requests /\ j.by \in {"save", "skip"}
      BY <3>1 DEF WriteJobs
    <3>3. CASE Saved(j, [n |-> j.n, signal |-> req[j.r].signal])
      <4>1. /\ j.by = "save" => req' = [req EXCEPT ![j.r] = Off]
            /\ j.by = "skip" => req' = [req EXCEPT ![j.r].skip = "done"]
        BY <3>3 DEF Saved
      <4> QED
        BY <1>1, <1>4, <1>5, <2>1, <3>2, <4>1
    <3> QED
      BY <1>1, <2>1, <2>3, <2>6, <3>1, <3>3 DEF AnswerWrite
  <2> QED
    BY <1>7, <2>4, <2>5, <2>6 DEF Answers
<1>8. CASE Evaluating \/ Touching \/ initialize \/ UNCHANGED vars
  <2>1. req' = req /\ budget' = budget
    BY <1>0, <1>8, EvaluatingFacts, TouchingFacts DEF initialize, vars
  <2> QED
    BY <1>1, <2>1 DEF Holding
<1>9. CASE skipWait
  <2>1. /\ budget' = budget /\ latest \in Requests
        /\ \E how \in {"saving", "done"} : req' = [req EXCEPT ![latest].skip = how]
    BY <1>0, <1>9, SkipWaitFacts
  <2> QED
    BY <1>1, <1>5, <2>1
<1>10. CASE ProcessEnds
  <2>1. budget' = budget /\ Holding' = {}
    BY <1>10 DEF ProcessEnds, Holding, Off
  <2> QED
    BY <1>1, <2>1
<1> QED
  BY <1>6, <1>7, <1>8, <1>9, <1>10 DEF Next, Resumes, Evaluating, Touching

LEMMA AllowedStep == Allowed /\ [Next]_vars => Allowed'
BY SteadyStep, ReservedStep DEF Allowed

\* No more re-asks of a day reach the Worker than its allowance, however many
\* are under way at once, whatever was given back, and wherever the process ends.
THEOREM AllowanceAlwaysHeld == Spec => []AllowanceHeld
<1>1. Allowed => AllowanceHeld
  BY RecommendationAssumption, HoldingFacts, FS_CardinalityType, FS_Subset
     DEF Allowed, Steady, Types, Reserved, AllowanceHeld, Holding
<1> QED
  BY <1>1, AllowedInit, AllowedStep, PTL DEF Spec

-----------------------------------------------------------------------------
(* What is shown is what is stored.                                          *)

\* A save of request l comes after the others', and is past its read only when
\* no other has one to do.
Last(s, l) ==
    \A i, k \in 1..Len(s) :
        s[i].job # "worn" /\ s[k].job # "worn" /\ s[i].r = l /\ i # k =>
            (s[i].job = s[k].job => k < i) /\ ~(s[i].job = "write" /\ s[k].job = "read")

LEMMA LastNone ==
    ASSUME NEW s, NEW l, \A f \in Among(s) : f.job # "worn" => f.r # l
    PROVE  Last(s, l)
BY DEF Last, Among

LEMMA LastTail ==
    ASSUME NEW s \in Seq(Jobs), s # <<>>, NEW l, Last(s, l)
    PROVE  /\ Last(Tail(s), l)
           /\ Head(s).r = l /\ Head(s).job = "read" => \A f \in Among(Tail(s)) : f.job # "read"
           /\ Head(s).r = l /\ Head(s).job = "write" => \A f \in Among(Tail(s)) : f.job = "worn"
           /\ Head(s).job = "read" /\ Head(s).r # l => \A f \in Among(Tail(s)) : f.job = "write" => f.r # l
<1> DEFINE t == Tail(s)
<1>1. /\ Len(s) \in Nat \ {0} /\ Len(t) = Len(s) - 1 /\ Head(s) = s[1]
      /\ \A i \in 1..Len(t) : t[i] = s[i + 1]
  BY TailFacts
<1>0. \A f \in Among(s) : f.job \in {"worn", "read", "write"}
  BY DEF Among, Jobs, WornJobs, ReadJobs, WriteJobs
<1> HIDE DEF t
<1>2. \A i \in 1..Len(t) : i + 1 \in 1..Len(s) /\ i + 1 > 1
  BY <1>1
<1>3. 1 \in 1..Len(s)
  BY <1>1
<1>4. Last(t, l)
  <2> SUFFICES ASSUME NEW i \in 1..Len(t), NEW k \in 1..Len(t), t[i].job # "worn", t[k].job # "worn",
                      t[i].r = l, i # k
               PROVE  (t[i].job = t[k].job => k < i) /\ ~(t[i].job = "write" /\ t[k].job = "read")
    BY DEF Last
  <2>1. /\ s[i + 1].job = s[k + 1].job => k + 1 < i + 1
        /\ ~(s[i + 1].job = "write" /\ s[k + 1].job = "read")
    <3>1. i + 1 # k + 1 /\ i + 1 \in 1..Len(s) /\ k + 1 \in 1..Len(s)
      BY <1>2
    <3> QED
      BY <1>1, <3>1 DEF Last
  <2>2. t[i] = s[i + 1] /\ t[k] = s[k + 1] /\ i \in Nat /\ k \in Nat
    BY <1>1
  <2> QED
    BY <2>1, <2>2
<1>5. ASSUME NEW f \in Among(t)
      PROVE  \E k \in 1..Len(s) : f = s[k] /\ k > 1
  <2>1. PICK i \in 1..Len(t) : f = t[i]
    BY DEF Among
  <2> QED
    BY <1>1, <1>2, <2>1
<1>6. ASSUME Head(s).r = l, Head(s).job = "read", NEW f \in Among(t), f.job = "read" PROVE FALSE
  <2>1. PICK k \in 1..Len(s) : f = s[k] /\ k > 1
    BY <1>5
  <2> QED
    BY <1>1, <1>3, <1>6, <2>1 DEF Last
<1>7. ASSUME Head(s).r = l, Head(s).job = "write", NEW f \in Among(t) PROVE f.job = "worn"
  <2>1. PICK k \in 1..Len(s) : f = s[k] /\ k > 1
    BY <1>5
  <2>2. f.job \in {"worn", "read", "write"}
    BY <1>0, <2>1 DEF Among
  <2> QED
    BY <1>1, <1>3, <1>7, <2>1, <2>2 DEF Last
<1>8. ASSUME Head(s).job = "read", Head(s).r # l, NEW f \in Among(t), f.job = "write", f.r = l PROVE FALSE
  <2>1. PICK k \in 1..Len(s) : f = s[k] /\ k > 1
    BY <1>5
  <2> QED
    BY <1>1, <1>3, <1>8, <2>1 DEF Last
<1> QED
  BY <1>4, <1>6, <1>7, <1>8 DEF t

LEMMA LastAppend ==
    ASSUME NEW s \in Seq(Jobs), NEW e \in Jobs, NEW l, Last(s, l),
           \/ e.job = "worn"
           \/ /\ e.r = l /\ \A f \in Among(s) : f.job # "worn" => f.r # l
              /\ e.job = "write" => \A f \in Among(s) : f.job # "read"
           \/ e.job = "write" /\ e.r # l /\ \A f \in Among(s) : f.job = "write" => f.r # l
    PROVE  Last(Append(s, e), l)
<1> DEFINE t == Append(s, e)
<1>1. /\ Len(s) \in Nat /\ Len(t) = Len(s) + 1 /\ t[Len(s) + 1] = e
      /\ \A i \in 1..Len(s) : t[i] = s[i]
  BY AppendFacts
<1> HIDE DEF t
<1>2. \A i \in 1..Len(s) : s[i] \in Among(s)
  BY DEF Among
<1>3. ASSUME NEW i \in 1..Len(t), NEW k \in 1..Len(t), t[i].job # "worn", t[k].job # "worn",
             t[i].r = l, i # k
      PROVE  (t[i].job = t[k].job => k < i) /\ ~(t[i].job = "write" /\ t[k].job = "read")
  <2>1. i \in 1..Len(s) \/ i = Len(s) + 1
    BY <1>1
  <2>2. k \in 1..Len(s) \/ k = Len(s) + 1
    BY <1>1
  <2>3. CASE i \in 1..Len(s) /\ k \in 1..Len(s)
    BY <1>1, <1>3, <2>3 DEF Last
  <2>4. CASE i = Len(s) + 1 /\ k \in 1..Len(s)
    <3>1. t[i] = e /\ t[k] = s[k] /\ s[k] \in Among(s) /\ k < i
      BY <1>1, <1>2, <2>4
    <3> QED
      BY <1>3, <3>1
  <2>5. CASE i \in 1..Len(s) /\ k = Len(s) + 1
    <3>1. t[i] = s[i] /\ t[k] = e /\ s[i] \in Among(s)
      BY <1>1, <1>2, <2>5
    <3> QED
      BY <1>3, <3>1
  <2> QED
    BY <1>3, <2>1, <2>2, <2>3, <2>4, <2>5
<1>4. Last(t, l)
  BY <1>3 DEF Last
<1> QED
  BY <1>4 DEF t

\* SQLite has a save to do for another request than l.
Others(s, l) == \E e \in Among(s) : e.job # "worn" /\ e.r # l

\* What is shown and what is stored differ, or may come to, only while the
\* latest request can still end that; or a save has failed.
Settles ==
    Ready /\ ~missed.save /\ (outfits.shown # outfits.stored \/ Others(db, latest)) =>
        latest # NoRequest /\ req[latest].skip # "done"

\* The latest request's save comes last, unless it was joined too late for that.
InOrder == missed.late \/ Last(db, latest)

Stored == Steady /\ InOrder /\ Settles

\* What SQLite has to store.
LEMMA StoringFacts ==
    /\ \A r : Storing(r) <=> \E e \in Among(db) : e.job # "worn" /\ e.r = r
    /\ \A r : OthersStoring(r) <=> Others(db, r)
BY DEF Storing, OthersStoring, Others, Among

LEMMA LastAlone ==
    ASSUME NEW s, NEW l, Alone(s), ~Others(s, l)
    PROVE  Last(s, l)
BY DEF Last, Others, Alone, Among

LEMMA StoredInit == Init => Stored
<1> SUFFICES ASSUME Init PROVE Stored
  OBVIOUS
<1>1. Among(db) = {} /\ ~Ready
  BY DEF Init, Among, Ready
<1> QED
  BY <1>1, LastNone, SteadyInit DEF Stored, InOrder, Settles

\* A request that SQLite has no save of ends.
LEMMA EndsStored ==
    ASSUME Stored, NEW r \in Requests, ~Serving(db, r, "save"), ~Serving(db, r, "skip"),
           req' = [req EXCEPT ![r] = Off], latest' = (IF latest = r THEN NoRequest ELSE latest),
           ui'.status = ui.status, UNCHANGED <<db, outfits>>,
           ~missed'.save => ~missed.save, missed'.late = missed.late,
           latest = r => missed'.save \/ req[r].skip = "done"
    PROVE  InOrder' /\ Settles'
<1>0. Types /\ Ready' = Ready
  BY DEF Stored, Steady, Ready
<1>1. \A f \in Among(db) : f.job # "worn" => f.r \in Requests /\ f.r # r
  BY <1>0, AskedTypes DEF Asked, Serving
<1>2. CASE latest = r
  <2>1. latest' = NoRequest /\ Last(db', latest')
    BY <1>1, <1>2, LastNone, ConstantFacts
  <2>2. ASSUME Ready', ~missed'.save PROVE outfits'.shown = outfits'.stored /\ ~Others(db', latest')
    <3>1. outfits.shown = outfits.stored /\ ~Others(db, r)
      BY <1>0, <1>2, <2>2 DEF Stored, InOrder, Settles
    <3> QED
      BY <1>1, <3>1 DEF Others
  <2> QED
    BY <2>1, <2>2 DEF InOrder, Settles
<1>3. CASE latest # r
  BY <1>0, <1>3 DEF Stored, InOrder, Settles, Types, Ready
<1> QED
  BY <1>2, <1>3

\* Nothing of it changes.
LEMMA KeptStored ==
    ASSUME Stored, UNCHANGED <<db, outfits, latest>>, ui'.status = ui.status,
           ~missed'.save => ~missed.save, missed'.late = missed.late,
           latest \in Requests => req'[latest].skip = req[latest].skip
    PROVE  InOrder' /\ Settles'
BY DEF Stored, InOrder, Settles, Ready, Steady, Types

LEMMA RequestStepStored ==
    ASSUME Stored, NEW r \in Requests, RequestStep(r)
    PROVE  InOrder' /\ Settles'
<1>0. Steady /\ Types /\ db \in Seq(Jobs) /\ \A s \in Requests : Fine(req[s]) /\ Served(s)
  BY DEF Stored, Steady, Requested, Types
<1>1. CASE Underway(r)
  <2>1. PICK p \in Pending : Proceeds(r, p)
    BY <1>0, <1>1, ProceedsFacts
  <2>2. \A s \in Requests : req'[s].skip = req[s].skip
    BY <1>0, <2>1 DEF Proceeds, Types
  <2> QED
    BY <1>0, <1>1, <2>2, ProceedsFacts, KeptStored
<1>2. CASE refreshOnce(r) \/ holdPhase(r)
  <2>1. req[r].skip # "saving" /\ req[r].pc # "save" /\ outfits' = outfits
    BY <1>0, <1>2, TurnFacts DEF Fine
  <2>2. ~Serving(db, r, "save") /\ ~Serving(db, r, "skip")
    BY <1>0, <2>1 DEF Served
  <2>3. CASE Saves(r)
    <3> DEFINE e == [job |-> "read", r |-> r, by |-> "save"]
    <3>1. e \in Jobs /\ e.r = r /\ e.job = "read" /\ db' = Append(db, e)
      BY <2>3 DEF Jobs, ReadJobs, Saves
    <3>2. latest = r /\ latest' = r /\ missed' = missed /\ ui' = ui
      BY <2>3 DEF Saves
    <3>3. \A f \in Among(db) : f.job # "worn" => f.r # r
      BY <1>0, <2>2, AskedTypes DEF Asked, Serving
    <3> HIDE DEF e
    <3>4. missed.late \/ Last(db', r)
      BY <1>0, <3>1, <3>2, <3>3, LastAppend DEF Stored, InOrder
    <3>5. Others(db', r) => Others(db, r)
      BY <1>0, <3>1, AppendFacts DEF Others
    <3>6. req'[r].skip = req[r].skip
      BY <1>0, <2>3 DEF Saves, Types, Pending
    <3> QED
      BY <2>1, <3>2, <3>4, <3>5, <3>6 DEF Stored, InOrder, Settles, Ready
  <2>4. CASE Ends(r)
    <3>1. PICK failed \in BOOLEAN : Finish(r, failed)
      BY <2>4 DEF Ends
    <3>2. /\ req' = [req EXCEPT ![r] = Off] /\ latest' = (IF latest = r THEN NoRequest ELSE latest)
          /\ ui'.status = ui.status
      BY <1>0, <3>1, FinishFacts
    <3>3. /\ db' = db /\ (latest = r => missed'.save) /\ (~missed'.save => ~missed.save)
          /\ missed'.late = missed.late
      BY <1>0, <2>4 DEF Ends, Types, Misses
    <3> QED
      BY <2>1, <2>2, <3>2, <3>3, EndsStored
  <2>5. CASE req[r].skip = "done" /\ Finish(r, FALSE) /\ UNCHANGED <<db, missed>>
    <3>1. /\ req' = [req EXCEPT ![r] = Off] /\ latest' = (IF latest = r THEN NoRequest ELSE latest)
          /\ ui'.status = ui.status
      BY <1>0, <2>5, FinishFacts
    <3> QED
      BY <2>1, <2>2, <2>5, <3>1, EndsStored
  <2>6. CASE /\ req' = [req EXCEPT ![r].pc = "hold"]
             /\ UNCHANGED <<ui, latest, db, flight, tracked, missed>>
    <3>1. [req[r] EXCEPT !.pc = "hold"].skip = req[r].skip
      BY <1>0 DEF Types, Pending
    <3>2. \A s \in Requests : req'[s].skip = req[s].skip
      BY <1>0, <2>6, <3>1 DEF Types
    <3> QED
      BY <2>1, <2>6, <3>2, KeptStored
  <2> QED
    BY <1>0, <1>2, <2>3, <2>4, <2>5, <2>6, TurnFacts
<1> QED
  BY <1>1, <1>2 DEF RequestStep, Underway

LEMMA AnswersStored ==
    ASSUME Stored, Steady', [Next]_vars, Answers
    PROVE  InOrder' /\ Settles'
<1>0. /\ Steady /\ Types /\ Types' /\ Alone(db) /\ db \in Seq(Jobs) /\ \A s \in Requests : Fine(req[s]) /\ Served(s)
      /\ InOrder /\ Settles
  BY DEF Stored, Steady, Requested, Types
<1>1. db # <<>>
  BY DEF Answers, AnswerWorn, AnswerRead, AnswerWrite
<1> DEFINE j == Head(db)
<1>2. j \in Asked /\ Tail(db) \in Seq(Jobs) /\ Among(db) = Among(Tail(db)) \cup {j}
  BY <1>0, <1>1, TailFacts DEF Asked
<1>3. \A f \in Among(db) : f.job # "worn" => f.r \in Requests
  BY <1>0, AskedTypes DEF Asked
<1>4. Ready' = Ready
  <2>1. ~ProcessEnds
    <3>1. changes' = changes /\ changes \in Nat
      BY <1>0, RecommendationAssumption DEF Answers, AnswerWorn, AnswerRead, AnswerWrite, Types
    <3> QED
      BY <3>1 DEF ProcessEnds
  <2>2. ~initialize
    BY <1>0, <1>1 DEF initialize, Steady, Asleep, Ready
  <2> QED
    BY <1>0, <2>1, <2>2, BusyStep DEF Ready
<1>5. CASE AnswerWorn
  <2>1. j \in WornJobs /\ j.job = "worn" /\ db' = Tail(db) /\ refreshPrepared(j) /\ outfits' = outfits
    BY <1>0, <1>2, <1>5, AskedTypes DEF AnswerWorn
  <2> HIDE DEF j
  <2>2. (missed.late \/ Last(db', latest)) /\ \A l : Others(db', l) => Others(db, l)
    BY <1>0, <1>1, <1>2, <2>1, LastTail DEF InOrder, Others
  <2>3. CASE Unprepared(j)
    <3>1. req' = req /\ latest' = latest /\ missed'.save = missed.save /\ missed'.late = missed.late
      BY <1>0, <2>1, <2>3, UnpreparedFacts DEF SavesKept
    <3> QED
      BY <1>0, <1>4, <2>1, <2>2, <3>1 DEF InOrder, Settles
  <2>4. ASSUME NEW r \in Requests, latest' = r, req'[r].skip = "none",
               ~Serving(db, r, "save"), ~Serving(db, r, "skip")
        PROVE  InOrder' /\ Settles'
    <3>1. \A f \in Among(db') : f.job # "worn" => f.r # r
      BY <1>0, <1>2, <2>1, <2>4, AskedTypes DEF Asked, Serving
    <3> QED
      BY <2>4, <3>1, LastNone, ConstantFacts DEF InOrder, Settles
  <2>5. CASE \E r \in Requests : Join(j, r)
    <3>1. PICK r \in Requests : Join(j, r)
      BY <2>5
    <3>2. latest' = r /\ req' = req /\ missed' = JoinMisses(r)
      BY <3>1 DEF Join
    <3>3. /\ missed'.late <=> (Storing(r) /\ Others(db, r))
          /\ req[r].skip = "done" /\ (Others(db, r) \/ outfits.shown # outfits.stored) => missed'.save
      BY <1>0, <3>2, JoinFacts, StoringFacts
    <3>4. ~Storing(r) => \A f \in Among(db') : f.job # "worn" => f.r # r
      BY <1>2, <2>1, StoringFacts
    <3>5. Alone(db')
      BY <1>0, <1>1, <2>1, AnsweredFacts DEF j
    <3>6. InOrder'
      BY <2>2, <3>2, <3>3, <3>4, <3>5, LastNone, LastAlone DEF InOrder
    <3>7. Settles'
      BY <2>1, <2>2, <3>2, <3>3, ConstantFacts DEF Settles
    <3> QED
      BY <3>6, <3>7
  <2>6. CASE \E r \in Requests : Begin(j, r)
    <3>1. PICK r \in Requests : Begin(j, r)
      BY <2>6
    <3>2. PICK p \in Pending : req' = [req EXCEPT ![r] = p] /\ p.skip = "none"
      BY <1>0, <2>1, <3>1, BeginFacts
    <3>3. req[r] = Off
      BY <1>0, <3>1 DEF Begin, Active, Fine
    <3>4. req'[r].skip = "none" /\ latest' = r /\ req[r].pc # "save" /\ req[r].skip # "saving"
      BY <1>0, <3>1, <3>2, <3>3 DEF Begin, Types, Off
    <3> QED
      BY <1>0, <2>4, <3>4 DEF Served
  <2> QED
    BY <1>0, <2>1, <2>3, <2>5, <2>6, PreparedFacts
<1>6. ASSUME j.job # "worn", j \in ReadJobs \cup WriteJobs, SaveFails(j),
             missed' = [missed EXCEPT !.save = TRUE], db' = Tail(db)
      PROVE  InOrder' /\ Settles'
  <2> HIDE DEF j
  <2>1. latest' \in {latest, NoRequest} /\ missed'.save /\ missed'.late = missed.late
    BY <1>0, <1>6 DEF SaveFails, Finish, Types, Misses
  <2>2. Last(db', NoRequest)
    BY <1>2, <1>3, <1>6, LastNone, ConstantFacts
  <2>3. missed.late \/ Last(db', latest)
    BY <1>0, <1>1, <1>6, LastTail DEF InOrder
  <2> QED
    BY <2>1, <2>2, <2>3 DEF InOrder, Settles
<1>7. CASE AnswerRead
  <2>1. j.job = "read" /\ j \in ReadJobs
    BY <1>0, <1>2, <1>7, AskedTypes DEF AnswerRead
  <2>2. CASE /\ outfits.made < MaxOutfits /\ outfits' = [outfits EXCEPT !.made = @ + 1]
             /\ db' = Append(Tail(db), [job |-> "write", r |-> Head(db).r, by |-> Head(db).by, n |-> outfits.made + 1])
             /\ UNCHANGED <<req, latest, missed>>
    <3> DEFINE e == [job |-> "write", r |-> j.r, by |-> j.by, n |-> outfits.made + 1]
    <3>1. outfits.made + 1 \in 0..MaxOutfits
      BY <1>0, <2>2, RecommendationAssumption DEF Types
    <3>2. e \in Jobs /\ e.r = j.r /\ e.job = "write" /\ db' = Append(Tail(db), e)
      BY <2>1, <2>2, <3>1 DEF Jobs, ReadJobs, WriteJobs
    <3> HIDE DEF e, j
    <3>3. Last(db, latest) =>
             /\ Last(Tail(db), latest)
             /\ j.r = latest => \A f \in Among(Tail(db)) : f.job # "read"
             /\ j.r # latest => \A f \in Among(Tail(db)) : f.job = "write" => f.r # latest
      BY <1>0, <1>1, <2>1, LastTail DEF j
    <3>4. \A f \in Among(Tail(db)) : f.job # "worn" => f.r # j.r
      BY <1>0, <1>1, <2>1, TailAlone DEF j
    <3>5. missed.late \/ Last(db', latest)
      BY <1>0, <1>2, <3>2, <3>3, <3>4, LastAppend DEF InOrder
    <3>6. Others(db', latest) => Others(db, latest)
      <4>1. Among(db') = Among(Tail(db)) \cup {e} /\ j \in Among(db) /\ j.job # "worn"
        BY <1>2, <2>1, <3>2, AppendFacts DEF Asked
      <4> QED
        BY <1>2, <3>2, <4>1 DEF Others
    <3>7. outfits'.shown = outfits.shown /\ outfits'.stored = outfits.stored
      BY <1>0, <2>2 DEF Types
    <3> QED
      BY <1>0, <1>4, <2>2, <3>5, <3>6, <3>7 DEF InOrder, Settles
  <2>3. CASE SaveFails(Head(db)) /\ missed' = [missed EXCEPT !.save = TRUE] /\ db' = Tail(db)
    BY <1>6, <2>1, <2>3
  <2> QED
    BY <1>7, <2>2, <2>3 DEF AnswerRead
<1>8. CASE AnswerWrite
  <2>1. j.job = "write" /\ j \in WriteJobs /\ db' = Tail(db)
    BY <1>0, <1>2, <1>8, AskedTypes DEF AnswerWrite
  <2>2. j.r \in Requests /\ j.by \in {"save", "skip"}
    BY <2>1 DEF WriteJobs
  <2>3. CASE Saved(j, [n |-> j.n, signal |-> req[j.r].signal])
    <3> DEFINE outfit == [n |-> j.n, signal |-> req[j.r].signal]
    <3>1. outfit \in Outfits
      <4>1. req[j.r] \in Pending /\ j.n \in 0..MaxOutfits
        BY <1>0, <2>1, <2>2 DEF WriteJobs, Types
      <4> QED
        BY <4>1 DEF Outfits, Pending
    <3>2. Saved(j, outfit)
      BY <2>3
    <3> HIDE DEF outfit, j
    <3>3. /\ outfits'.stored = outfit /\ outfits'.shown = (IF latest = j.r THEN outfit ELSE outfits.shown)
          /\ latest = j.r => (missed'.save <=> (missed.late /\ OthersStoring(j.r)))
          /\ missed'.late = missed.late /\ latest' \in {latest, NoRequest}
          /\ latest # j.r => latest' = latest /\ missed'.save = missed.save
          /\ req' = [req EXCEPT ![j.r] = Off] \/ req' = [req EXCEPT ![j.r].skip = "done"]
      BY <1>0, <2>1, <2>2, <3>1, <3>2, SavedFacts
    <3>4. CASE latest = j.r
      <4>1. Last(db, latest) => Last(db', latest) /\ \A f \in Among(db') : f.job = "worn"
        BY <1>0, <1>1, <2>1, <3>4, LastTail DEF j
      <4>2. Last(db', NoRequest)
        BY <1>2, <1>3, <2>1, LastNone, ConstantFacts
      <4>3. InOrder'
        BY <1>0, <3>3, <4>1, <4>2 DEF InOrder
      <4>4. ~Others(db, j.r) => \A f \in Among(db') : f.job = "worn"
        BY <1>0, <1>1, <1>2, <2>1, TailAlone DEF Others, j
      <4>5. missed'.save \/ \A f \in Among(db') : f.job = "worn"
        BY <1>0, <3>3, <3>4, <4>1, <4>4, StoringFacts DEF InOrder
      <4>6. Settles'
        BY <3>3, <3>4, <4>5 DEF Settles, Others
      <4> QED
        BY <4>3, <4>6
    <3>5. CASE latest # j.r
      <4>1. (missed.late \/ Last(db', latest)) /\ Others(db, latest)
        BY <1>0, <1>1, <1>2, <2>1, <3>5, LastTail DEF j, InOrder, Others, Asked
      <4>2. latest \in Requests => req'[latest] = req[latest]
        BY <1>0, <3>3, <3>5 DEF Types
      <4> QED
        BY <1>0, <1>4, <3>3, <3>5, <4>1, <4>2 DEF InOrder, Settles, Types
    <3> QED
      BY <3>4, <3>5
  <2>4. CASE SaveFails(j) /\ missed' = [missed EXCEPT !.save = TRUE]
    BY <1>6, <2>1, <2>4
  <2> QED
    BY <1>8, <2>3, <2>4 DEF AnswerWrite
<1> QED
  BY <1>5, <1>7, <1>8 DEF Answers

LEMMA StoredStep ==
    ASSUME Stored, [Next]_vars
    PROVE  Stored'
<1>0. /\ Steady /\ Steady' /\ Types /\ Types' /\ db \in Seq(Jobs) /\ InOrder /\ Settles
      /\ \A s \in Requests : Fine(req[s]) /\ Served(s)
  BY SteadyStep DEF Stored, Steady, Types, Requested
<1>1. CASE \E r \in Requests : RequestStep(r)
  BY <1>0, <1>1, RequestStepStored DEF Stored
<1>2. CASE Answers
  BY <1>0, <1>2, AnswersStored DEF Stored
<1>3. CASE Evaluating \/ Touching
  <2>1. /\ UNCHANGED <<outfits, req, latest>> /\ ui'.status = ui.status
        /\ missed'.save = missed.save /\ missed'.late = missed.late
    BY <1>0, <1>3, EvaluatingFacts, TouchingFacts DEF SavesKept
  <2>2. CASE db' = db
    BY <1>0, <2>1, <2>2, KeptStored DEF Stored
  <2>3. CASE \E e \in WornJobs : db' = Append(db, e)
    <3>1. PICK e \in WornJobs : db' = Append(db, e)
      BY <2>3
    <3>2. e \in Jobs /\ e.job = "worn"
      BY DEF Jobs, WornJobs
    <3>3. (missed.late \/ Last(db', latest)) /\ (Others(db', latest) => Others(db, latest))
      BY <1>0, <3>1, <3>2, LastAppend, AppendFacts DEF InOrder, Others
    <3> QED
      BY <1>0, <2>1, <3>3 DEF Stored, InOrder, Settles, Ready
  <2> QED
    BY <1>0, <1>3, <2>2, <2>3, EvaluatingFacts, TouchingFacts DEF Evaluates, AsksFor
<1>4. CASE skipWait
  <2>1. /\ latest \in Requests /\ req[latest].aiPending /\ req[latest].skip = "none"
        /\ UNCHANGED <<outfits, latest>>
    BY <1>0, <1>4, SkipWaitFacts
  <2>2. CASE /\ req' = [req EXCEPT ![latest].skip = "saving"] /\ UNCHANGED <<ui, missed>>
             /\ db' = Append(db, [job |-> "read", r |-> latest, by |-> "skip"])
    <3> DEFINE e == [job |-> "read", r |-> latest, by |-> "skip"]
    <3>1. e \in Jobs /\ e.r = latest /\ e.job = "read" /\ db' = Append(db, e)
      BY <2>1, <2>2 DEF Jobs, ReadJobs
    <3> HIDE DEF e
    <3>2. \A f \in Among(db) : f.job # "worn" => f.r # latest
      <4>1. ~Serving(db, latest, "save") /\ ~Serving(db, latest, "skip")
        BY <1>0, <2>1 DEF Served, Fine
      <4> QED
        BY <1>0, <4>1, AskedTypes DEF Asked, Serving
    <3>3. (missed.late \/ Last(db', latest)) /\ (Others(db', latest) => Others(db, latest))
      BY <1>0, <3>1, <3>2, LastAppend, AppendFacts DEF InOrder, Others
    <3>4. req'[latest].skip = "saving"
      BY <1>0, <2>1, <2>2 DEF Types, Pending
    <3> QED
      BY <1>0, <2>1, <2>2, <3>3, <3>4, ConstantFacts DEF Stored, InOrder, Settles, Ready
  <2>3. CASE missed' = [missed EXCEPT !.save = TRUE] /\ db' = db
    <3>1. missed'.save /\ missed'.late = missed.late
      BY <1>0, <2>3 DEF Types, Misses
    <3> QED
      BY <1>0, <2>1, <2>3, <3>1 DEF Stored, InOrder, Settles
  <2> QED
    BY <1>0, <1>4, <2>2, <2>3, SkipWaitFacts
<1>5. CASE initialize
  <2>1. db = <<>> /\ UNCHANGED <<db, latest>>
    BY <1>0, <1>5 DEF initialize, Steady, Asleep, Ready
  <2>2. Among(db') = {} /\ Last(db', latest')
    BY <2>1, LastNone DEF Among
  <2>3. missed'.save \/ outfits'.shown = outfits'.stored
    BY <1>0, <1>5 DEF initialize, Types, NoMiss
  <2> QED
    BY <1>0, <2>1, <2>2, <2>3 DEF Stored, InOrder, Settles, Others
<1>6. CASE ProcessEnds
  <2>1. db' = <<>> /\ ~Ready'
    BY <1>6 DEF ProcessEnds, Ready
  <2>2. Last(db', latest')
    BY <2>1, LastNone DEF Among
  <2> QED
    BY <1>0, <2>1, <2>2 DEF Stored, InOrder, Settles
<1>7. CASE UNCHANGED vars
  BY <1>0, <1>7, KeptStored DEF vars, Stored
<1> QED
  BY <1>1, <1>2, <1>3, <1>4, <1>5, <1>6, <1>7 DEF Next, Resumes, Evaluating, Touching

\* Once nothing is under way, what Today shows is what the next launch will
\* show, whichever requests were superseded, joined or skipped on the way;
\* unless, since an outfit was last shown, a save failed, or a refresh joined a
\* request that another's save came behind, or one skipped while another's
\* outfit was, or was to be, stored.
THEOREM AlwaysShowsWhatIsStored == Spec => []ShowsWhatIsStored
<1>1. Stored => ShowsWhatIsStored
  BY DEF Stored, InOrder, Settles, Steady, Waiting, Types, ShowsWhatIsStored, Quiet
<1>2. Stored /\ [Next]_vars => Stored'
  BY StoredStep
<1> QED
  BY <1>1, <1>2, StoredInit, PTL DEF Spec

-----------------------------------------------------------------------------
(* What is shown fits the settings.                                          *)

\* The reads of the worn outfits among the jobs of SQLite: none, the newest, one
\* of the evaluation at most.
NoWorn(s) == \A e \in Among(s) : e.job # "worn"
Newest(s, e) ==
    \E i \in 1..Len(s) : s[i] = e /\ e.job = "worn" /\ \A k \in 1..Len(s) : s[k].job = "worn" => k <= i
Sole(s) ==
    \A i, k \in 1..Len(s) :
        s[i].job = "worn" /\ s[k].job = "worn" /\ s[i].by = "evaluation" /\ s[k].by = "evaluation" => i = k

\* Nothing of this changes from s to t, where a save may be new or done.
SameWorn(s, t) ==
    /\ NoWorn(t) <=> NoWorn(s)
    /\ \A e : Newest(t, e) <=> Newest(s, e)
    /\ Sole(s) => Sole(t)
    /\ \A e \in Among(t) : e.job = "worn" => e \in Among(s)

LEMMA NewestFacts ==
    ASSUME NEW s \in Seq(Jobs), NEW e, Newest(s, e)
    PROVE  e \in Among(s) /\ e.job = "worn" /\ ~NoWorn(s)
BY DEF Newest, NoWorn, Among

LEMMA AppendSave ==
    ASSUME NEW s \in Seq(Jobs), NEW e \in Jobs, e.job # "worn"
    PROVE  SameWorn(s, Append(s, e))
<1> DEFINE t == Append(s, e)
<1>1. /\ Len(s) \in Nat /\ Len(t) = Len(s) + 1 /\ t[Len(s) + 1] = e
      /\ \A i \in 1..Len(s) : t[i] = s[i]
      /\ Among(t) = Among(s) \cup {e}
  BY AppendFacts
<1> HIDE DEF t
<1>2. \A i \in 1..Len(t) : i \in 1..Len(s) \/ i = Len(s) + 1
  BY <1>1
<1>3. \A i \in 1..Len(s) : i \in 1..Len(t)
  BY <1>1
<1>4. \A i \in 1..Len(t) : t[i].job = "worn" => i \in 1..Len(s) /\ t[i] = s[i]
  BY <1>1, <1>2
<1>5. NoWorn(t) <=> NoWorn(s)
  BY <1>1 DEF NoWorn
<1>6. ASSUME NEW f PROVE Newest(t, f) <=> Newest(s, f)
  <2>1. ASSUME Newest(s, f) PROVE Newest(t, f)
    BY <1>1, <1>3, <1>4, <2>1 DEF Newest
  <2>2. ASSUME Newest(t, f) PROVE Newest(s, f)
    BY <1>1, <1>3, <1>4, <2>2 DEF Newest
  <2> QED
    BY <2>1, <2>2
<1>7. Sole(s) => Sole(t)
  BY <1>4 DEF Sole
<1>8. \A f \in Among(t) : f.job = "worn" => f \in Among(s)
  BY <1>1
<1> QED
  BY <1>5, <1>6, <1>7, <1>8 DEF SameWorn, t

\* The jobs that are left are one place nearer.
LEMMA TailWorn ==
    ASSUME NEW s \in Seq(Jobs), s # <<>>
    PROVE  /\ Sole(s) => Sole(Tail(s))
           /\ \A e : Newest(Tail(s), e) => Newest(s, e)
           /\ \A e : Newest(s, e) => Newest(Tail(s), e) \/ (e = Head(s) /\ NoWorn(Tail(s)))
           /\ \A e \in Among(Tail(s)) : e \in Among(s)
<1> DEFINE t == Tail(s)
<1>1. /\ Len(s) \in Nat \ {0} /\ Len(t) = Len(s) - 1 /\ Head(s) = s[1] /\ Len(t) \in Nat
      /\ \A i \in 1..Len(t) : t[i] = s[i + 1]
      /\ Among(s) = Among(t) \cup {Head(s)}
  BY TailFacts
<1> HIDE DEF t
<1>2. \A i \in 1..Len(t) : i \in Nat /\ i + 1 \in 1..Len(s) /\ t[i] = s[i + 1]
  BY <1>1
<1>3. ASSUME NEW i \in 1..Len(s), i # 1
      PROVE  i - 1 \in 1..Len(t) /\ t[i - 1] = s[i]
  <2>1. i - 1 \in 1..Len(t) /\ (i - 1) + 1 = i
    BY <1>1, <1>3
  <2> QED
    BY <1>1, <2>1
<1>4. Sole(s) => Sole(t)
  <2> SUFFICES ASSUME Sole(s), NEW i \in 1..Len(t), NEW k \in 1..Len(t), t[i].job = "worn", t[k].job = "worn",
                      t[i].by = "evaluation", t[k].by = "evaluation"
               PROVE  i = k
    BY DEF Sole
  <2>1. i + 1 = k + 1
    BY <1>2 DEF Sole
  <2> QED
    BY <1>2, <2>1
<1>5. ASSUME NEW e, Newest(t, e) PROVE Newest(s, e)
  <2>1. PICK i \in 1..Len(t) : t[i] = e /\ e.job = "worn" /\ \A k \in 1..Len(t) : t[k].job = "worn" => k <= i
    BY <1>5 DEF Newest
  <2>2. i + 1 \in 1..Len(s) /\ s[i + 1] = e /\ i \in Nat
    BY <1>2, <2>1
  <2>3. ASSUME NEW k \in 1..Len(s), s[k].job = "worn" PROVE k <= i + 1
    <3>1. CASE k = 1
      BY <2>2, <3>1
    <3>2. CASE k # 1
      <4>1. k - 1 <= i
        BY <1>3, <2>1, <2>3, <3>2
      <4> QED
        BY <2>2, <4>1
    <3> QED
      BY <3>1, <3>2
  <2> QED
    BY <2>1, <2>2, <2>3 DEF Newest
<1>6. ASSUME NEW e, Newest(s, e) PROVE Newest(t, e) \/ (e = Head(s) /\ NoWorn(t))
  <2>1. PICK i \in 1..Len(s) : s[i] = e /\ e.job = "worn" /\ \A k \in 1..Len(s) : s[k].job = "worn" => k <= i
    BY <1>6 DEF Newest
  <2>2. CASE i = 1
    <3>1. ASSUME NEW f \in Among(t), f.job = "worn" PROVE FALSE
      <4>1. PICK k \in 1..Len(t) : f = t[k]
        BY DEF Among
      <4>2. k + 1 <= 1
        BY <1>2, <2>1, <2>2, <3>1, <4>1
      <4> QED
        BY <4>2
    <3> QED
      BY <1>1, <2>1, <2>2, <3>1 DEF NoWorn
  <2>3. CASE i # 1
    <3>1. i - 1 \in 1..Len(t) /\ t[i - 1] = e
      BY <1>3, <2>1, <2>3
    <3>2. ASSUME NEW k \in 1..Len(t), t[k].job = "worn" PROVE k <= i - 1
      <4>1. k + 1 <= i
        BY <1>2, <2>1, <3>2
      <4> QED
        BY <4>1
    <3> QED
      BY <2>1, <3>1, <3>2 DEF Newest
  <2> QED
    BY <2>2, <2>3
<1> QED
  BY <1>1, <1>4, <1>5, <1>6 DEF t

\* A save at the head is answered.
LEMMA TailSave ==
    ASSUME NEW s \in Seq(Jobs), s # <<>>, Head(s).job # "worn"
    PROVE  SameWorn(s, Tail(s))
<1>1. Among(s) = Among(Tail(s)) \cup {Head(s)}
  BY TailFacts
<1>2. NoWorn(Tail(s)) <=> NoWorn(s)
  BY <1>1 DEF NoWorn
<1>3. ASSUME NEW e PROVE Newest(Tail(s), e) <=> Newest(s, e)
  <2>1. e = Head(s) => ~Newest(s, e)
    BY DEF Newest
  <2> QED
    BY <2>1, TailWorn
<1> QED
  BY <1>2, <1>3, TailWorn DEF SameWorn

\* A read of the worn outfits at the head is answered.
LEMMA TailAnswered ==
    ASSUME NEW s \in Seq(Jobs), s # <<>>, Head(s).job = "worn"
    PROVE  /\ ~NoWorn(s) /\ (NoWorn(Tail(s)) => Newest(s, Head(s)))
           /\ Sole(s) /\ Head(s).by = "evaluation" =>
                \A e \in Among(Tail(s)) : e.job = "worn" => e.by # "evaluation"
<1> DEFINE t == Tail(s)
<1>1. /\ Len(s) \in Nat \ {0} /\ Len(t) = Len(s) - 1 /\ Head(s) = s[1] /\ Head(s) \in Among(s)
      /\ \A i \in 1..Len(t) : t[i] = s[i + 1]
  BY TailFacts
<1> HIDE DEF t
<1>2. \A i \in 1..Len(t) : i + 1 \in 1..Len(s) /\ i + 1 # 1 /\ t[i] = s[i + 1]
  BY <1>1
<1>3. 1 \in 1..Len(s)
  BY <1>1
<1>4. ASSUME NoWorn(t) PROVE Newest(s, Head(s))
  <2>1. ASSUME NEW k \in 1..Len(s), s[k].job = "worn" PROVE k <= 1
    <3>1. CASE k # 1
      <4>1. k - 1 \in 1..Len(t) /\ (k - 1) + 1 = k
        BY <1>1, <3>1
      <4>2. t[k - 1] = s[k]
        BY <1>1, <4>1
      <4>3. t[k - 1] \in Among(t)
        BY <4>1 DEF Among
      <4> QED
        BY <1>4, <2>1, <4>2, <4>3 DEF NoWorn
    <3> QED
      BY <3>1
  <2> QED
    BY <1>1, <1>3, <2>1 DEF Newest
<1>5. ASSUME Sole(s), Head(s).by = "evaluation", NEW e \in Among(t), e.job = "worn" PROVE e.by # "evaluation"
  <2>1. PICK i \in 1..Len(t) : e = t[i]
    BY DEF Among
  <2> QED
    BY <1>1, <1>2, <1>3, <1>5, <2>1 DEF Sole
<1> QED
  BY <1>1, <1>4, <1>5 DEF NoWorn, t

\* The worn outfits are to be read once more.
LEMMA AppendWorn ==
    ASSUME NEW s \in Seq(Jobs), NEW e \in WornJobs
    PROVE  LET t == Append(s, e)
           IN  /\ ~NoWorn(t) /\ \A f : Newest(t, f) <=> f = e
               /\ Among(t) = Among(s) \cup {e}
               /\ Sole(s) /\ (e.by = "evaluation" =>
                    \A f \in Among(s) : f.job = "worn" => f.by # "evaluation") => Sole(t)
<1> DEFINE t == Append(s, e)
<1>0. e \in Jobs /\ e.job = "worn"
  BY DEF Jobs, WornJobs
<1>1. /\ Len(s) \in Nat /\ Len(t) = Len(s) + 1 /\ t[Len(s) + 1] = e
      /\ \A i \in 1..Len(s) : t[i] = s[i]
      /\ Among(t) = Among(s) \cup {e}
  BY <1>0, AppendFacts
<1> HIDE DEF t
<1>2. \A i \in 1..Len(t) : i \in 1..Len(s) \/ i = Len(s) + 1
  BY <1>1
<1>3. Len(s) + 1 \in 1..Len(t) /\ \A i \in 1..Len(t) : i <= Len(s) + 1
  BY <1>1
<1>4. ~NoWorn(t)
  BY <1>0, <1>1 DEF NoWorn
<1>5. Newest(t, e)
  BY <1>0, <1>1, <1>3 DEF Newest
<1>6. ASSUME NEW f, Newest(t, f) PROVE f = e
  <2>1. PICK i \in 1..Len(t) : t[i] = f /\ \A k \in 1..Len(t) : t[k].job = "worn" => k <= i
    BY <1>6 DEF Newest
  <2>2. i = Len(s) + 1
    BY <1>0, <1>1, <1>3, <2>1
  <2> QED
    BY <1>1, <2>1, <2>2
<1>7. ASSUME Sole(s), e.by = "evaluation" => \A f \in Among(s) : f.job = "worn" => f.by # "evaluation"
      PROVE  Sole(t)
  <2> SUFFICES ASSUME NEW i \in 1..Len(t), NEW k \in 1..Len(t), t[i].job = "worn", t[k].job = "worn",
                      t[i].by = "evaluation", t[k].by = "evaluation"
               PROVE  i = k
    BY DEF Sole
  <2>1. \A n \in 1..Len(s) : s[n] \in Among(s)
    BY DEF Among
  <2>2. CASE i \in 1..Len(s) /\ k \in 1..Len(s)
    BY <1>1, <1>7, <2>2 DEF Sole
  <2>3. CASE i \in 1..Len(s) /\ k = Len(s) + 1
    BY <1>1, <1>7, <2>1, <2>3
  <2>4. CASE i = Len(s) + 1 /\ k \in 1..Len(s)
    BY <1>1, <1>7, <2>1, <2>4
  <2> QED
    BY <1>2, <2>2, <2>3, <2>4
<1> QED
  BY <1>1, <1>4, <1>5, <1>6, <1>7 DEF t

\* What the evaluation reads and waits for is for the signal it evaluates.
Linked ==
    /\ Sole(db)
    /\ \A e \in Asked : e.job = "worn" /\ e.by = "evaluation" => flight.pc = "worn" /\ e.signal = flight.signal
    /\ flight.pc = "wait" => req[flight.on].signal = flight.signal
    /\ flight.pc \in {"worn", "wait"} => flight.triggered
    /\ flight.pc \notin {"wait", "reask"} => flight.on = NoRequest
    /\ flight.pc \in {"reask", "resume"} => ~flight.triggered
    /\ flight.pc = "ended" /\ ~flight.triggered => outfits.shown.signal = flight.signal

\* Once rendered, the settings in force are what the last evaluation under way
\* or behind it is for.
Follows == Ready /\ ~want.owed =>
    /\ trailing.pc = "queued" => trailing.signal = want.signal
    /\ flight.pc # "off" /\ trailing.pc = "off" => flight.signal = want.signal

\* The newest that was asked for is for other settings than those in force.
Astray == \/ \E e : Newest(db, e) /\ e.signal # want.signal
          \/ NoWorn(db) /\ latest # NoRequest /\ req[latest].signal # want.signal
Right == outfits.shown.signal = want.signal \/ ui.failed

\* The evaluation has asked, and has its answer or waits for it.
Waits == flight.pc = "wait" \/ (flight.pc = "ended" /\ flight.triggered)
\* What a skip saved is what its request was for.
Skipped ==
    /\ NoWorn(db) /\ latest # NoRequest /\ req[latest].skip = "done"
    /\ Waits \/ (flight.pc = "off" /\ ~want.owed)
    => outfits.shown.signal = req[latest].signal \/ ui.failed

\* Once the evaluation of what is rendered has decided, what is asked for, or
\* else shown, is right.
Rendered == Ready /\ ~want.owed /\ trailing.pc = "off"
Settled == Rendered /\ flight.pc \notin {"reask", "resume"} =>
    ~Astray /\ (NoWorn(db) /\ latest = NoRequest => Right)

Fitting == Linked /\ Follows /\ (~missed.ask => Skipped /\ Settled)
Fitted == Steady /\ Fitting

\* Nothing is asked for, and nothing is shown or a render is owed.
Blank ==
    /\ db = <<>> /\ latest = NoRequest /\ flight.pc = "off" /\ flight.on = NoRequest
    /\ ~Ready \/ want.owed

LEMMA BlankFits == Blank => Fitting
<1> SUFFICES ASSUME Blank PROVE Fitting
  OBVIOUS
<1>1. Among(db) = {} /\ Sole(db)
  BY DEF Blank, Among, Sole
<1>2. Linked
  BY <1>1 DEF Linked, Asked, Blank
<1> QED
  BY <1>2 DEF Fitting, Follows, Skipped, Settled, Rendered, Blank

\* Who the evaluation waits for: a request, or a re-ask that has none yet.
LEMMA FittedFacts ==
    ASSUME Fitted
    PROVE  /\ Steady /\ Types /\ db \in Seq(Jobs) /\ Linked /\ Follows
           /\ latest \in Requests \cup {NoRequest} /\ NoRequest \notin Requests
           /\ \A r \in Requests : Fine(req[r]) /\ Served(r)
           /\ flight \in Evaluations /\ req \in [Requests -> Pending]
           /\ flight.pc = "wait" => flight.on \in Requests
           /\ flight.pc = "worn" => ~NoWorn(db)
           /\ flight.pc # "worn" => \A e \in Asked : e.job = "worn" => e.by # "evaluation"
           /\ trailing.pc = "queued" => flight.pc # "off"
           /\ trailing.pc \in {"off", "queued"} /\ Ready \in BOOLEAN
<1>1. /\ Steady /\ Types /\ db \in Seq(Jobs) /\ Linked /\ Follows
      /\ latest \in Requests \cup {NoRequest} /\ NoRequest \notin Requests
      /\ \A r \in Requests : Fine(req[r]) /\ Served(r)
      /\ flight \in Evaluations /\ req \in [Requests -> Pending]
      /\ flight.pc = "wait" => flight.on \in Requests
      /\ trailing.pc = "queued" => flight.pc # "off"
      /\ trailing.pc \in {"off", "queued"} /\ Ready \in BOOLEAN
  BY ConstantFacts DEF Fitted, Fitting, Steady, Types, Requested, Waiting, Behind, Ready
<1>2. flight.pc # "worn" => \A e \in Asked : e.job = "worn" => e.by # "evaluation"
  BY <1>1 DEF Linked
<1>3. flight.pc = "worn" => ~NoWorn(db)
  BY <1>1 DEF Steady, Waiting, Reading, NoWorn
<1> QED
  BY <1>1, <1>2, <1>3

\* The settings, what is shown and what is waited for stay; a save comes or goes.
LEMMA KeptFits ==
    ASSUME Fitted, SameWorn(db, db'), UNCHANGED <<want, latest, flight, trailing>>,
           outfits'.shown = outfits.shown, ui'.status = ui.status, ui.failed => ui'.failed, missed'.ask = missed.ask,
           \A r \in Requests : req'[r].signal = req[r].signal,
           latest \in Requests /\ req'[latest].skip = "done" => req[latest].skip = "done" \/ ui'.failed
    PROVE  Fitting'
<1>0. /\ Linked /\ Follows /\ latest \in Requests \cup {NoRequest} /\ NoRequest \notin Requests
      /\ flight.pc = "wait" => flight.on \in Requests
  BY FittedFacts
<1>1. Linked' /\ Follows'
  BY <1>0 DEF Linked, Follows, SameWorn, Asked, Ready
<1>2. (Astray' <=> Astray) /\ (Waits' <=> Waits) /\ (Right => Right')
  BY <1>0 DEF Astray, Waits, Right, SameWorn
<1>3. Skipped => Skipped'
  BY <1>0, <1>2 DEF Skipped, SameWorn
<1>4. Settled => Settled'
  BY <1>0, <1>2 DEF Settled, Rendered, SameWorn, Ready
<1> QED
  BY <1>1, <1>3, <1>4 DEF Fitted, Fitting

\* Request r ends: with a failure shown, or superseded or once a skip of it has
\* been saved, or with its outfit shown.
LEMMA OverFits ==
    ASSUME Fitted, NEW r \in Requests, ~Resuming, SameWorn(db, db'), UNCHANGED <<want, trailing>>,
           req' = [req EXCEPT ![r] = Off], latest' = (IF latest = r THEN NoRequest ELSE latest),
           (flight.on # r /\ Stays) \/ Goes(r), ui'.status = ui.status, missed'.ask = missed.ask,
           \/ ui'.failed /\ outfits'.shown = outfits.shown
           \/ /\ outfits'.shown = outfits.shown /\ (ui.failed => ui'.failed)
              /\ latest # r \/ req[r].skip = "done"
           \/ latest = r /\ outfits'.shown.signal = req[r].signal
    PROVE  Fitting'
<1>0. /\ Linked /\ Follows /\ latest \in Requests \cup {NoRequest} /\ NoRequest \notin Requests
      /\ flight.pc = "wait" => flight.on \in Requests
      /\ flight.pc = "worn" => ~NoWorn(db)
      /\ flight \in Evaluations /\ Types /\ flight.pc \notin {"ended", "resume"}
  BY FittedFacts DEF Types, Resuming
<1>1. /\ latest = r => latest' = NoRequest
      /\ latest # r => latest' = latest /\ (latest \in Requests => req'[latest] = req[latest])
  BY <1>0 DEF Types
<1>2. \/ flight' = flight /\ flight.on # r
      \/ /\ flight.pc = "wait" /\ flight'.pc = "ended" /\ flight'.on = NoRequest
         /\ flight'.signal = flight.signal /\ flight'.triggered = flight.triggered
      \/ /\ flight.pc = "reask" /\ flight'.pc = "resume" /\ flight'.on = NoRequest
         /\ flight'.signal = flight.signal /\ flight'.triggered = flight.triggered
  BY <1>0 DEF Linked, Stays, Goes
<1>3. Linked'
  <2>1. flight.pc = "wait" /\ flight.on # r => req'[flight.on] = req[flight.on]
    BY <1>0 DEF Types
  <2>2. CASE flight' = flight /\ flight.on # r
    BY <1>0, <2>1, <2>2 DEF Linked, SameWorn, Asked
  <2>3. CASE flight' # flight
    BY <1>0, <1>2, <2>3 DEF Linked, SameWorn, Asked
  <2> QED
    BY <1>2, <2>2, <2>3
<1>4. Follows'
  BY <1>0, <1>2 DEF Follows, Ready
<1>5. Waits' => Waits
  BY <1>2 DEF Waits
<1>6. ASSUME Skipped PROVE Skipped'
  BY <1>0, <1>1, <1>2, <1>5, <1>6 DEF Skipped, SameWorn
<1>7. ASSUME Skipped, Settled PROVE Settled'
  <2> SUFFICES ASSUME Rendered', flight'.pc \notin {"reask", "resume"}
               PROVE  ~Astray' /\ (NoWorn(db') /\ latest' = NoRequest => Right')
    BY DEF Settled
  <2>1. Ready /\ ~want.owed /\ ~Astray /\ (NoWorn(db) /\ latest = NoRequest => Right)
    BY <1>2, <1>7 DEF Settled, Rendered, Ready
  <2>2. ~Astray'
    BY <1>0, <1>1, <2>1 DEF Astray, SameWorn
  <2>3. ASSUME NoWorn(db'), latest' = NoRequest PROVE Right'
    <3>1. NoWorn(db) /\ (flight.pc = "off" \/ flight.pc = "wait")
      BY <1>0, <1>2, <2>3 DEF SameWorn, Evaluations
    <3>2. CASE latest # r
      BY <1>1, <2>1, <2>3, <3>1, <3>2 DEF Right
    <3>3. CASE latest = r
      <4>1. req[r].signal = want.signal
        BY <1>0, <2>1, <3>1, <3>3 DEF Astray
      <4>2. req[r].skip = "done" => outfits.shown.signal = req[r].signal \/ ui.failed
        BY <1>0, <1>7, <2>1, <3>1, <3>3 DEF Skipped, Waits
      <4> QED
        BY <3>3, <4>1, <4>2 DEF Right
    <3> QED
      BY <3>2, <3>3
  <2> QED
    BY <2>2, <2>3
<1> QED
  BY <1>3, <1>4, <1>6, <1>7 DEF Fitted, Fitting

\* What was asked for last is for these settings, or else what is shown.
LEMMA ElsewhereFacts ==
    ASSUME NEW s, ~Elsewhere(s)
    PROVE  /\ \A e : Newest(db, e) => e.signal = s
           /\ NoWorn(db) => IF latest # NoRequest THEN req[latest].signal = s ELSE outfits.shown.signal = s
<1>1. ASSUME NEW e, Newest(db, e) PROVE e.signal = s
  <2>1. PICK i \in 1..Len(db) : db[i] = e /\ e.job = "worn" /\ \A k \in 1..Len(db) : db[k].job = "worn" => k <= i
    BY <1>1 DEF Newest
  <2> QED
    BY <2>1 DEF Elsewhere
<1>2. ASSUME NoWorn(db) PROVE \A i \in 1..Len(db) : db[i].job # "worn"
  BY <1>2 DEF NoWorn, Among
<1> QED
  BY <1>1, <1>2 DEF Elsewhere

\* The evaluation decides: it asks, or what is shown is right and nothing else
\* was asked for.
LEMMA EvaluateFits ==
    ASSUME Fitted, NEW go \in Evaluations, Evaluate(go), flight.pc \notin {"worn", "wait"}, go.on = NoRequest,
           ~go.triggered, UNCHANGED <<outfits, req, latest>>, want'.signal = want.signal,
           flight'.signal = go.signal => Follows'
    PROVE  Fitting'
<1>0. /\ Types /\ Linked /\ db \in Seq(Jobs)
      /\ \A e \in Asked : e.job = "worn" => e.by # "evaluation"
  BY FittedFacts
<1>1. CASE outfits.shown.signal # go.signal
  <2> DEFINE e == Worn(go.signal, go.departure, "evaluation", 0)
  <2>1. e \in WornJobs /\ e.by = "evaluation" /\ e.signal = go.signal /\ e.job = "worn"
    BY ConstantFacts DEF Worn, WornJobs, Evaluations
  <2>2. db' = Append(db, e)
    BY <1>1 DEF Evaluate
  <2> HIDE DEF e
  <2>3. flight'.signal = go.signal /\ flight'.pc = "worn" /\ flight'.triggered /\ flight'.on = NoRequest
    BY <1>1 DEF Evaluate, Evaluations
  <2>4. /\ ~NoWorn(db') /\ \A f : Newest(db', f) <=> f = e
        /\ Among(db') = Among(db) \cup {e} /\ Sole(db')
    BY <1>0, <2>1, <2>2, AppendWorn DEF Linked, Asked
  <2>5. Linked'
    BY <1>0, <2>1, <2>3, <2>4 DEF Linked, Asked
  <2>6. Settled'
    <3>1. Rendered' => want'.signal = go.signal
      BY <2>3 DEF Follows, Rendered
    <3> QED
      BY <2>1, <2>4, <3>1 DEF Settled, Astray
  <2> QED
    BY <2>3, <2>4, <2>5, <2>6 DEF Fitting, Skipped
<1>2. CASE outfits.shown.signal = go.signal
  <2>1. /\ flight'.signal = go.signal /\ flight'.pc = "ended" /\ flight'.triggered = go.triggered
        /\ flight'.on = NoRequest /\ db' = db
        /\ ~missed'.ask => ~Elsewhere(go.signal)
    BY <1>0, <1>2 DEF Evaluate, Evaluations, Types, Misses
  <2>2. Linked'
    BY <1>0, <1>2, <2>1 DEF Linked, Asked
  <2>3. Skipped'
    BY <2>1 DEF Skipped, Waits
  <2>4. ASSUME ~missed'.ask PROVE Settled'
    <3>1. /\ \A e : Newest(db, e) => e.signal = go.signal
          /\ NoWorn(db) => IF latest # NoRequest THEN req[latest].signal = go.signal
                           ELSE outfits.shown.signal = go.signal
      BY <2>1, <2>4, ElsewhereFacts
    <3>2. Rendered' => want'.signal = go.signal
      BY <2>1 DEF Follows, Rendered
    <3> QED
      BY <1>2, <2>1, <3>1, <3>2 DEF Settled, Astray, Right
  <2> QED
    BY <2>1, <2>2, <2>3, <2>4 DEF Fitting
<1> QED
  BY <1>1, <1>2

\* It starts with nothing under way; a re-ask in flight it waits for first.
LEMMA StartFits ==
    ASSUME Fitted, NEW signal \in Chosen, NEW departure \in 0..1, NEW clears \in BOOLEAN,
           StartEvaluation(signal, departure, clears), flight.pc \notin {"worn", "wait"},
           UNCHANGED <<outfits, req, latest>>, want'.signal = want.signal,
           flight'.signal = signal => Follows'
    PROVE  Fitting'
<1>0. /\ Types /\ Linked /\ db \in Seq(Jobs)
      /\ \A e \in Asked : e.job = "worn" => e.by # "evaluation"
  BY FittedFacts
<1> DEFINE go == [NoFlight EXCEPT !.signal = signal, !.departure = departure, !.clears = clears]
<1>1. go \in Evaluations /\ go.on = NoRequest /\ ~go.triggered /\ go.signal = signal
  BY ConstantFacts DEF Evaluations, NoFlight
<1>2. CASE tracked # NoRequest
  <2>1. flight'.pc = "reask" /\ flight'.signal = signal /\ ~flight'.triggered /\ db' = db
    BY <1>2 DEF StartEvaluation, NoFlight
  <2>2. Linked'
    BY <1>0, <2>1 DEF Linked, Asked
  <2> QED
    BY <2>1, <2>2 DEF Fitting, Skipped, Waits, Settled
<1>3. CASE tracked = NoRequest
  <2>1. Evaluate(go)
    BY <1>3 DEF StartEvaluation
  <2> HIDE DEF go
  <2> QED
    BY <1>1, <2>1, EvaluateFits
<1> QED
  BY <1>2, <1>3

\* The evaluation under way stays, whatever comes behind it.
LEMMA UnderFits ==
    ASSUME Fitted, flight.pc # "off", flight' = flight \/ flight' = [flight EXCEPT !.clears = flight'.clears],
           UNCHANGED <<db, outfits, req, latest, ui>>, want'.signal = want.signal
    PROVE  /\ Linked' /\ (Skipped => Skipped')
           /\ flight'.pc = flight.pc /\ flight'.signal = flight.signal
<1>0. Linked /\ flight \in Evaluations
  BY FittedFacts DEF Types
<1>1. /\ flight'.pc = flight.pc /\ flight'.on = flight.on /\ flight'.signal = flight.signal
      /\ flight'.triggered = flight.triggered
  BY <1>0 DEF Evaluations
<1>2. Linked'
  BY <1>0, <1>1 DEF Linked, Asked
<1>3. Skipped => Skipped'
  BY <1>1 DEF Skipped, Waits
<1> QED
  BY <1>1, <1>2, <1>3

\* An input is submitted: what is rendered.
LEMMA SubmitFits ==
    ASSUME Fitted, Ready, NEW withdraws \in BOOLEAN, NEW clears \in BOOLEAN,
           submit(want.signal, want.departure, withdraws, clears), withdraws \/ want' = want,
           UNCHANGED <<outfits, ui, req, latest>>, want'.signal = want.signal
    PROVE  Fitting'
<1>0. /\ Types /\ Linked /\ Follows /\ (trailing.pc = "queued" => flight.pc # "off")
      /\ trailing.pc \in {"off", "queued"}
      /\ want.signal \in Chosen /\ want.departure \in 0..1 /\ flight \in Evaluations
  BY FittedFacts DEF Types, Chosen
<1>1. CASE flight.pc = "off"
  <2>1. StartEvaluation(want.signal, want.departure, clears) /\ trailing' = trailing
    BY <1>1 DEF submit
  <2>2. flight'.signal = want.signal => Follows'
    BY <1>0, <1>1, <2>1 DEF Follows
  <2> QED
    BY <1>0, <1>1, <2>1, <2>2, StartFits
<1>2. CASE flight.pc # "off" /\ flight.signal = want.signal
  <2>1. /\ flight' = [flight EXCEPT !.clears = @ \/ clears] /\ db' = db
        /\ trailing' = IF withdraws THEN [NoTrailing EXCEPT !.clears = trailing.clears] ELSE trailing
        /\ missed' = [missed EXCEPT !.ask = @ \/ (flight.pc # "reask" /\ Elsewhere(want.signal))]
    BY <1>2 DEF submit
  <2>2. flight' = [flight EXCEPT !.clears = flight'.clears]
    BY <1>0, <2>1 DEF Evaluations
  <2>3. Linked' /\ (Skipped => Skipped') /\ flight'.pc = flight.pc /\ flight'.signal = flight.signal
    BY <1>2, <2>1, <2>2, UnderFits
  <2>4. Follows'
    BY <1>0, <1>2, <2>1, <2>3 DEF Follows, NoTrailing
  <2>5. ~missed'.ask => ~missed.ask /\ (flight.pc = "reask" \/ ~Elsewhere(want.signal))
    BY <1>0, <2>1 DEF Types, Misses
  <2>6. ASSUME ~missed'.ask PROVE Settled'
    <3>1. CASE flight.pc = "reask"
      BY <2>3, <3>1 DEF Settled
    <3>2. CASE ~Elsewhere(want.signal)
      <4>1. /\ \A e : Newest(db, e) => e.signal = want.signal
            /\ NoWorn(db) => IF latest # NoRequest THEN req[latest].signal = want.signal
                             ELSE outfits.shown.signal = want.signal
        BY <3>2, ElsewhereFacts
      <4> QED
        BY <2>1, <4>1 DEF Settled, Astray, Right
    <3> QED
      BY <2>5, <2>6, <3>1, <3>2
  <2> QED
    BY <2>3, <2>4, <2>5, <2>6 DEF Fitted, Fitting
<1>3. CASE flight.pc # "off" /\ flight.signal # want.signal
  <2>1. flight' = flight /\ db' = db /\ missed' = missed /\ trailing'.pc = "queued" /\ trailing'.signal = want.signal
    BY <1>3 DEF submit
  <2>2. Linked' /\ (Skipped => Skipped')
    BY <1>3, <2>1, UnderFits
  <2>3. Follows' /\ Settled'
    BY <2>1 DEF Follows, Settled, Rendered
  <2> QED
    BY <2>1, <2>2, <2>3 DEF Fitted, Fitting
<1> QED
  BY <1>1, <1>2, <1>3

\* The evaluation ends with nothing behind it: what it leaves is right.
LEMMA EndsAloneFits ==
    ASSUME Fitted, EvaluationEnds, trailing.pc # "queued"
    PROVE  Fitting'
<1>0. /\ Types /\ Linked /\ Follows /\ db \in Seq(Jobs)
      /\ trailing.pc = "off" /\ flight.pc = "ended"
      /\ \A e \in Asked : e.job = "worn" => e.by # "evaluation"
  BY FittedFacts DEF EvaluationEnds
<1>1. /\ flight' = NoFlight /\ db' = db /\ trailing' = NoTrailing /\ missed' = missed
      /\ ui'.status = ui.status /\ (flight.triggered /\ ui.failed => ui'.failed)
      /\ UNCHANGED <<want, outfits, req, latest>>
  BY <1>0 DEF EvaluationEnds, Clearing, Types
<1>2. flight'.pc = "off" /\ flight'.on = NoRequest /\ trailing'.pc = "off"
  BY <1>1 DEF NoFlight, NoTrailing
<1>3. Linked' /\ Follows'
  BY <1>0, <1>1, <1>2 DEF Linked, Follows, Asked
<1>4. (Astray' <=> Astray) /\ ~Waits' /\ (Waits <=> flight.triggered)
  BY <1>0, <1>1, <1>2 DEF Astray, Waits
<1>5. Ready
  BY <1>0 DEF Fitted, Steady, Asleep
<1>6. ~flight.triggered /\ ~want.owed => outfits.shown.signal = want.signal
  BY <1>0, <1>5 DEF Linked, Follows
<1>7. ASSUME Settled, ~want.owed PROVE ~Astray /\ (NoWorn(db) /\ latest = NoRequest => Right)
  BY <1>0, <1>5, <1>7 DEF Settled, Rendered
<1>8. ASSUME Skipped, Settled PROVE Skipped'
  <2> SUFFICES ASSUME NoWorn(db), latest # NoRequest, req[latest].skip = "done", ~want.owed
               PROVE  outfits.shown.signal = req[latest].signal \/ ui'.failed
    BY <1>1, <1>4 DEF Skipped
  <2>1. CASE flight.triggered
    BY <1>1, <1>4, <1>8, <2>1 DEF Skipped
  <2>2. CASE ~flight.triggered
    BY <1>6, <1>7, <1>8, <2>2 DEF Astray
  <2> QED
    BY <2>1, <2>2
<1>9. ASSUME Settled PROVE Settled'
  <2> SUFFICES ASSUME ~want.owed
               PROVE  ~Astray' /\ (NoWorn(db') /\ latest' = NoRequest => Right')
    BY <1>1 DEF Settled, Rendered
  <2>1. ASSUME NoWorn(db), latest = NoRequest PROVE Right'
    BY <1>1, <1>6, <1>7, <1>9, <2>1 DEF Right
  <2> QED
    BY <1>1, <1>4, <1>7, <1>9, <2>1
<1> QED
  BY <1>1, <1>3, <1>8, <1>9 DEF Fitted, Fitting

LEMMA EvaluatingFits ==
    ASSUME Fitted, Evaluating
    PROVE  Fitting'
<1>0. /\ Types /\ Linked /\ Follows /\ UNCHANGED <<outfits, req, latest>>
      /\ trailing.signal \in Chosen /\ trailing.departure \in 0..1 /\ trailing.clears \in BOOLEAN
      /\ flight \in Evaluations
  BY FittedFacts, EvaluatingFacts DEF Types, Behind
<1>1. CASE followRender
  BY <1>0, <1>1, SubmitFits DEF followRender, Types
<1>2. CASE evaluate
  BY <1>0, <1>2, SubmitFits DEF evaluate
<1>3. CASE EvaluationGoesOn
  <2>1. Evaluate(flight) /\ flight.pc = "resume" /\ UNCHANGED <<want, ui, trailing>>
    BY <1>3 DEF EvaluationGoesOn
  <2>2. flight.on = NoRequest /\ ~flight.triggered
    BY <1>0, <2>1 DEF Linked
  <2>3. flight'.signal = flight.signal => Follows'
    BY <1>0, <2>1 DEF Follows, Ready
  <2> QED
    BY <1>0, <2>1, <2>2, <2>3, EvaluateFits
<1>4. CASE EvaluationEnds /\ trailing.pc = "queued"
  <2>1. /\ StartEvaluation(trailing.signal, trailing.departure, trailing.clears) /\ flight.pc = "ended"
        /\ trailing' = NoTrailing /\ want' = want /\ ui'.status = ui.status
    BY <1>0, <1>4 DEF EvaluationEnds, Types
  <2>2. flight'.signal = trailing.signal => Follows'
    BY <1>0, <1>4, <2>1 DEF Follows, Ready, NoTrailing
  <2> QED
    BY <1>0, <2>1, <2>2, StartFits
<1>5. CASE EvaluationEnds /\ trailing.pc # "queued"
  BY <1>5, EndsAloneFits
<1> QED
  BY <1>1, <1>2, <1>3, <1>4, <1>5 DEF Evaluating

LEMMA SameWornRefl == ASSUME NEW s PROVE SameWorn(s, s)
BY DEF SameWorn

LEMMA RequestStepFits ==
    ASSUME Fitted, NEW r \in Requests, RequestStep(r), ~Resuming
    PROVE  Fitting'
<1>0. Types /\ db \in Seq(Jobs) /\ latest \in Requests \cup {NoRequest} /\ req \in [Requests -> Pending]
  BY FittedFacts DEF Types
<1>1. CASE Underway(r)
  <2>1. PICK p \in Pending : Proceeds(r, p)
    BY <1>0, <1>1, ProceedsFacts
  <2>2. \A s \in Requests : req'[s].signal = req[s].signal /\ req'[s].skip = req[s].skip
    BY <1>0, <2>1 DEF Proceeds
  <2>3. UNCHANGED <<want, outfits, ui, latest, db, flight, trailing, missed>>
    BY <1>0, <1>1, ProceedsFacts
  <2> QED
    BY <2>2, <2>3, SameWornRefl, KeptFits
<1>2. CASE refreshOnce(r) \/ holdPhase(r)
  <2>1. UNCHANGED <<want, outfits, trailing>>
    BY <1>0, <1>2, TurnFacts
  <2>2. CASE Saves(r)
    <3> DEFINE e == [job |-> "read", r |-> r, by |-> "save"]
    <3>1. e \in Jobs /\ e.job # "worn" /\ db' = Append(db, e)
      BY <2>2 DEF Jobs, ReadJobs, Saves
    <3> HIDE DEF e
    <3>2. SameWorn(db, db')
      BY <1>0, <3>1, AppendSave
    <3>3. \A s \in Requests : req'[s].signal = req[s].signal /\ req'[s].skip = req[s].skip
      BY <1>0, <2>2 DEF Saves, Pending
    <3> QED
      BY <2>1, <2>2, <3>2, <3>3, KeptFits DEF Saves
  <2>3. ASSUME NEW failed \in BOOLEAN, Finish(r, failed), db' = db, missed'.ask = missed.ask,
               failed \/ latest # r \/ req[r].skip = "done"
        PROVE  Fitting'
    <3>1. /\ req' = [req EXCEPT ![r] = Off] /\ latest' = (IF latest = r THEN NoRequest ELSE latest)
          /\ (flight.on # r /\ Stays) \/ Goes(r)
      BY <1>0, <2>3, FinishFacts
    <3>2. ui'.status = ui.status /\ ui'.failed = (ui.failed \/ failed)
      BY <1>0, <2>3 DEF Finish, Types
    <3> QED
      BY <2>1, <2>3, <3>1, <3>2, SameWornRefl, OverFits
  <2>4. CASE req[r].skip = "done" /\ Finish(r, FALSE) /\ UNCHANGED <<db, missed>>
    BY <2>3, <2>4
  <2>5. CASE req' = [req EXCEPT ![r].pc = "hold"] /\ UNCHANGED <<ui, latest, db, flight, tracked, missed>>
    <3>1. \A s \in Requests : req'[s].signal = req[s].signal /\ req'[s].skip = req[s].skip
      BY <1>0, <2>5 DEF Pending
    <3> QED
      BY <2>1, <2>5, <3>1, SameWornRefl, KeptFits
  <2>6. CASE SaveIfLatest(r)
    <3>1. CASE latest # r
      BY <2>3, <2>6, <3>1 DEF SaveIfLatest
    <3>2. CASE latest = r /\ ~ui.repository
      <4>1. Finish(r, TRUE) /\ missed' = [missed EXCEPT !.save = TRUE] /\ db' = db
        BY <2>6, <3>2 DEF SaveIfLatest
      <4>2. missed'.ask = missed.ask
        BY <1>0, <4>1 DEF Types, Misses
      <4> QED
        BY <2>3, <4>1, <4>2
    <3>3. CASE latest = r /\ ui.repository
      BY <2>2, <2>6, <3>3 DEF SaveIfLatest, Saves
    <3> QED
      BY <3>1, <3>2, <3>3
  <2>7. CASE Finish(r, TRUE) /\ missed' = [missed EXCEPT !.save = TRUE] /\ UNCHANGED db
    <3>1. missed'.ask = missed.ask
      BY <1>0, <2>7 DEF Types, Misses
    <3> QED
      BY <2>3, <2>7, <3>1
  <2> QED
    BY <1>2, <2>4, <2>5, <2>6, <2>7 DEF refreshOnce, holdPhase, Compose
<1> QED
  BY <1>1, <1>2 DEF RequestStep, Underway

\* A read of the worn outfits is answered: the request it prepared is the latest.
LEMMA AnswerWornFits ==
    ASSUME Fitted, AnswerWorn, ~Resuming
    PROVE  Fitting'
<1>0. /\ Types /\ Linked /\ Follows /\ db \in Seq(Jobs) /\ db # <<>>
      /\ latest \in Requests \cup {NoRequest} /\ NoRequest \notin Requests
      /\ flight.pc = "wait" => flight.on \in Requests
      /\ flight.pc \notin {"ended", "resume"}
      /\ req \in [Requests -> Pending] /\ flight \in Evaluations /\ outfits' = outfits
  BY FittedFacts DEF AnswerWorn, Types, Resuming
<1> DEFINE j == Head(db)
<1>1. /\ Among(db) = Among(Tail(db)) \cup {j} /\ j \in Asked
      /\ Sole(db')
      /\ \A e : Newest(db', e) => Newest(db, e)
      /\ NoWorn(db') => Newest(db, j)
      /\ j.by = "evaluation" => \A e \in Among(db') : e.job = "worn" => e.by # "evaluation"
      /\ db' = Tail(db)
  BY <1>0, TailFacts, TailWorn, TailAnswered DEF AnswerWorn, Asked, Linked
<1>2. j \in WornJobs /\ j.job = "worn" /\ refreshPrepared(j) /\ want' = want /\ trailing' = trailing
  BY <1>0, <1>1, AskedTypes DEF AnswerWorn
<1> HIDE DEF j
<1>3. j.by = "evaluation" => flight.pc = "worn" /\ flight.signal = j.signal /\ flight.triggered
  BY <1>0, <1>1, <1>2 DEF Linked
\* A re-ask is no request yet, and only the evaluation that waits for one has it.
<1>4. j.id \notin Requests /\ j.id # NoRequest /\ (flight.on = j.id => flight.pc = "reask")
  <2>1. j.id \in Nat
    BY <1>2, ConstantFacts DEF WornJobs
  <2> QED
    BY <1>0, <2>1, ConstantFacts DEF Linked
\* Nothing has been prepared: the evaluation goes on.
<1>5. CASE Unprepared(j)
  <2>1. /\ req' = req /\ latest' = latest /\ missed'.ask /\ ui'.status = ui.status
        /\ j.by = "evaluation" => flight'.pc = "ended" /\ flight'.on = flight.on
                                  /\ flight'.signal = flight.signal /\ flight'.triggered = flight.triggered
        /\ j.by # "evaluation" => flight' = flight \/ Goes(j.id)
    BY <1>0, <1>2, <1>5, UnpreparedFacts DEF WornJobs, Stays, Types
  <2>2. CASE j.by = "evaluation"
    <3>1. Linked'
      BY <1>0, <1>1, <1>3, <2>1, <2>2 DEF Linked, Asked
    <3>2. Follows'
      BY <1>0, <1>2, <1>3, <2>1, <2>2 DEF Follows, Ready
    <3> QED
      BY <2>1, <3>1, <3>2 DEF Fitting
  <2>3. CASE j.by # "evaluation" /\ flight' = flight
    <3>1. Linked'
      BY <1>0, <1>1, <2>1, <2>3 DEF Linked, Asked
    <3>2. Follows'
      BY <1>0, <1>2, <2>1, <2>3 DEF Follows, Ready
    <3> QED
      BY <2>1, <3>1, <3>2 DEF Fitting
  <2>4. CASE Goes(j.id)
    <3>1. /\ flight.pc = "reask" /\ flight'.pc = "resume" /\ flight'.on = NoRequest
          /\ flight'.signal = flight.signal /\ ~flight'.triggered
      BY <1>0, <1>4, <2>4 DEF Goes, Linked
    <3>2. Linked'
      BY <1>0, <1>1, <3>1, <2>1 DEF Linked, Asked
    <3>3. Follows'
      BY <1>0, <1>2, <2>1, <3>1 DEF Follows, Ready
    <3> QED
      BY <2>1, <3>2, <3>3 DEF Fitting
  <2> QED
    BY <2>1, <2>2, <2>3, <2>4
\* Request r serves it.
<1>6. ASSUME NEW r \in Requests, WaitFor(j, r), latest' = r, ui'.status = ui.status,
             missed.ask => missed'.ask, req'[r].signal = j.signal,
             req'[r].skip = "done" /\ ~missed'.ask => outfits.shown.signal = req'[r].signal,
             flight.pc = "wait" => req'[flight.on].signal = req[flight.on].signal
      PROVE  Fitting'
  <2>1. /\ flight'.signal = flight.signal /\ flight'.triggered = flight.triggered
        /\ j.by = "evaluation" => flight'.pc = "wait" /\ flight'.on = r
        /\ j.by # "evaluation" =>
             flight'.pc = flight.pc /\ (flight'.on = flight.on \/ flight.pc = "reask")
    BY <1>0, <1>2, <1>4, <1>6, WaitForFacts
  <2>2. Linked'
    <3>1. CASE j.by = "evaluation"
      BY <1>0, <1>1, <1>3, <1>6, <2>1, <3>1 DEF Linked, Asked
    <3>2. CASE j.by # "evaluation"
      BY <1>0, <1>1, <1>6, <2>1, <3>2 DEF Linked, Asked
    <3> QED
      BY <3>1, <3>2
  <2>3. Follows'
    BY <1>0, <1>2, <1>3, <1>6, <2>1 DEF Follows, Ready
  <2>4. Astray' => Astray
    BY <1>1, <1>2, <1>6 DEF Astray
  <2>5. Settled => Settled'
    BY <1>0, <1>2, <1>3, <1>6, <2>1, <2>4 DEF Settled, Rendered, Ready
  <2>6. ~missed'.ask => Skipped'
    BY <1>0, <1>6 DEF Skipped
  <2> QED
    BY <1>6, <2>2, <2>3, <2>5, <2>6 DEF Fitted, Fitting
<1>7. ASSUME NEW r \in Requests, req[r].signal = j.signal, Join(j, r)
      PROVE  Fitting'
  <2>1. /\ WaitFor(j, r) /\ latest' = r /\ ui'.status = ui.status /\ req' = req /\ missed' = JoinMisses(r)
    BY <1>0, <1>7 DEF Join, Types
  <2>2. /\ missed.ask => missed'.ask
        /\ req[r].skip = "done" /\ outfits.shown.signal # req[r].signal => missed'.ask
    BY <1>0, <2>1, JoinFacts
  <2> QED
    BY <1>6, <1>7, <2>1, <2>2
<1>8. ASSUME NEW r \in Requests, Begin(j, r)
      PROVE  Fitting'
  <2>1. ~Active(r) /\ WaitFor(j, r) /\ latest' = r /\ ui'.status = ui.status /\ missed'.ask = missed.ask
    BY <1>0, <1>2, <1>8, BeginFacts DEF Types
  <2>2. PICK p \in Pending : req' = [req EXCEPT ![r] = p] /\ p.skip = "none" /\ p.signal = j.signal
    BY <1>0, <1>2, <1>8, BeginFacts
  <2>3. flight.pc = "wait" => flight.on # r
    BY <1>0, <2>1 DEF Fitted, Steady, Waiting, Promised
  <2> QED
    BY <1>0, <1>6, <2>1, <2>2, <2>3
<1> QED
  BY <1>0, <1>2, <1>5, <1>7, <1>8, PreparedFacts

\* A save fails, and tells.
LEMMA SaveFailsFits ==
    ASSUME Fitted, db # <<>>, Head(db) \in ReadJobs \cup WriteJobs, SaveFails(Head(db)), ~Resuming,
           db' = Tail(db), missed'.ask = missed.ask, UNCHANGED <<want, outfits, trailing>>
    PROVE  Fitting'
<1>0. Types /\ db \in Seq(Jobs) /\ req \in [Requests -> Pending]
  BY FittedFacts DEF Types
<1> DEFINE j == Head(db)
<1>1. j.job # "worn" /\ j.r \in Requests
  BY DEF ReadJobs, WriteJobs
<1>2. SameWorn(db, db')
  BY <1>0, <1>1, TailSave
<1> HIDE DEF j
<1>3. CASE j.by = "save"
  <2>1. Finish(j.r, TRUE)
    BY <1>3 DEF SaveFails, j
  <2>2. /\ req' = [req EXCEPT ![j.r] = Off] /\ latest' = (IF latest = j.r THEN NoRequest ELSE latest)
        /\ (flight.on # j.r /\ Stays) \/ Goes(j.r)
    BY <1>0, <1>1, <2>1, FinishFacts
  <2>3. ui'.status = ui.status /\ ui'.failed
    BY <1>0, <2>1 DEF Finish, Types
  <2> QED
    BY <1>1, <1>2, <2>2, <2>3, OverFits
<1>4. CASE j.by # "save"
  <2>1. /\ req' = [req EXCEPT ![j.r].skip = "done"] /\ UNCHANGED <<latest, flight>>
        /\ ui' = [ui EXCEPT !.failed = TRUE]
    BY <1>4 DEF SaveFails, j
  <2>2. \A s \in Requests : req'[s].signal = req[s].signal
    BY <1>0, <1>1, <2>1 DEF Pending
  <2>3. ui'.status = ui.status /\ ui'.failed
    BY <1>0, <2>1 DEF Types
  <2> QED
    BY <1>2, <2>1, <2>2, <2>3, KeptFits
<1> QED
  BY <1>3, <1>4

LEMMA AnswerReadFits ==
    ASSUME Fitted, AnswerRead, ~Resuming
    PROVE  Fitting'
<1>0. Types /\ db \in Seq(Jobs) /\ db # <<>> /\ UNCHANGED <<want, trailing>>
  BY FittedFacts DEF AnswerRead
<1>1. Head(db) \in ReadJobs /\ Head(db).job # "worn" /\ Tail(db) \in Seq(Jobs)
  BY <1>0, TailFacts, AskedTypes DEF AnswerRead, Asked
<1>2. CASE /\ outfits.made < MaxOutfits /\ outfits' = [outfits EXCEPT !.made = @ + 1]
           /\ db' = Append(Tail(db), [job |-> "write", r |-> Head(db).r, by |-> Head(db).by, n |-> outfits.made + 1])
           /\ UNCHANGED <<ui, req, latest, flight, missed>>
  <2> DEFINE e == [job |-> "write", r |-> Head(db).r, by |-> Head(db).by, n |-> outfits.made + 1]
  <2>1. outfits.made + 1 \in 0..MaxOutfits
    BY <1>0, <1>2, RecommendationAssumption DEF Types
  <2>2. e \in Jobs /\ e.job # "worn" /\ db' = Append(Tail(db), e)
    BY <1>1, <1>2, <2>1 DEF Jobs, ReadJobs, WriteJobs
  <2> HIDE DEF e
  <2>3. SameWorn(Tail(db), db') /\ SameWorn(db, Tail(db))
    BY <1>0, <1>1, <2>2, AppendSave, TailSave
  <2>4. SameWorn(db, db')
    BY <2>3 DEF SameWorn
  <2>5. outfits'.shown = outfits.shown
    BY <1>0, <1>2 DEF Types
  <2> QED
    BY <1>0, <1>2, <2>4, <2>5, KeptFits
<1>3. CASE /\ SaveFails(Head(db)) /\ missed' = [missed EXCEPT !.save = TRUE]
           /\ db' = Tail(db) /\ UNCHANGED outfits
  <2>1. missed'.ask = missed.ask
    BY <1>0, <1>3 DEF Types, Misses
  <2> QED
    BY <1>0, <1>1, <1>3, <2>1, SaveFailsFits
<1> QED
  BY <1>2, <1>3 DEF AnswerRead

\* A skip of the latest request has been saved, and is shown.
LEMMA SkipShownFits ==
    ASSUME Fitted, SameWorn(db, db'), UNCHANGED <<want, latest, flight, trailing>>, ~Resuming,
           latest \in Requests, outfits'.shown.signal = req[latest].signal,
           ui'.status = ui.status, missed'.ask = missed.ask, \A r \in Requests : req'[r].signal = req[r].signal
    PROVE  Fitting'
<1>0. /\ Linked /\ Follows /\ NoRequest \notin Requests /\ db \in Seq(Jobs)
      /\ flight.pc = "wait" => flight.on \in Requests
  BY FittedFacts
<1>1. Linked' /\ Follows'
  BY <1>0 DEF Linked, Follows, SameWorn, Asked, Ready, Resuming
<1>2. Astray' <=> Astray
  BY <1>0 DEF Astray, SameWorn
<1>3. Skipped'
  BY <1>0 DEF Skipped
<1>4. Settled => Settled'
  BY <1>0, <1>2 DEF Settled, Rendered, Ready
<1> QED
  BY <1>1, <1>3, <1>4 DEF Fitted, Fitting

LEMMA AnswerWriteFits ==
    ASSUME Fitted, AnswerWrite, ~Resuming
    PROVE  Fitting'
<1>0. /\ Types /\ db \in Seq(Jobs) /\ db # <<>> /\ UNCHANGED <<want, trailing>> /\ db' = Tail(db)
      /\ latest \in Requests \cup {NoRequest} /\ req \in [Requests -> Pending]
  BY FittedFacts DEF AnswerWrite, Types
<1> DEFINE j == Head(db)
<1>1. /\ j \in WriteJobs /\ j.job # "worn" /\ j.r \in Requests /\ j.by \in {"save", "skip"}
      /\ j.n \in 0..MaxOutfits
  BY <1>0, TailFacts, AskedTypes DEF AnswerWrite, Asked, WriteJobs
<1>2. SameWorn(db, db')
  BY <1>0, <1>1, TailSave
<1> HIDE DEF j
<1>3. CASE Saved(j, [n |-> j.n, signal |-> req[j.r].signal])
  <2> DEFINE outfit == [n |-> j.n, signal |-> req[j.r].signal]
  <2>1. outfit \in Outfits
    <3>1. req[j.r] \in Pending
      BY <1>0, <1>1
    <3> QED
      BY <1>1, <3>1 DEF Outfits, Pending
  <2>2. outfit.signal = req[j.r].signal /\ Saved(j, outfit)
    BY <1>3
  <2> HIDE DEF outfit
  <2>3. /\ outfits'.shown = (IF latest = j.r THEN outfit ELSE outfits.shown) /\ missed'.ask = missed.ask
        /\ j.by = "save" =>
             /\ req' = [req EXCEPT ![j.r] = Off] /\ latest' = (IF latest = j.r THEN NoRequest ELSE latest)
             /\ (flight.on # j.r /\ Stays) \/ Goes(j.r)
        /\ j.by = "skip" => req' = [req EXCEPT ![j.r].skip = "done"] /\ UNCHANGED <<latest, flight>>
    BY <1>0, <1>1, <2>1, <2>2, SavedFacts
  <2>4. ui'.status = ui.status /\ ui'.failed = (ui.failed /\ latest # j.r)
    BY <1>0, <2>2 DEF Saved, Types
  <2>5. CASE j.by = "save"
    <3>1. \/ outfits'.shown = outfits.shown /\ (ui.failed => ui'.failed) /\ latest # j.r
          \/ latest = j.r /\ outfits'.shown.signal = req[j.r].signal
      BY <2>2, <2>3, <2>4
    <3> QED
      BY <1>0, <1>1, <1>2, <2>3, <2>4, <2>5, <3>1, OverFits
  <2>6. CASE j.by = "skip"
    <3>1. \A s \in Requests : req'[s].signal = req[s].signal /\ (s # j.r => req'[s].skip = req[s].skip)
      BY <1>0, <2>3, <2>6 DEF Pending
    <3>2. CASE latest = j.r
      BY <1>0, <1>1, <1>2, <2>2, <2>3, <2>4, <2>6, <3>1, <3>2, SkipShownFits
    <3>3. CASE latest # j.r
      <4>1. outfits'.shown = outfits.shown /\ (ui.failed => ui'.failed)
        BY <2>3, <2>4, <3>3
      <4> QED
        BY <1>0, <1>2, <2>3, <2>4, <2>6, <3>1, <3>3, <4>1, KeptFits
    <3> QED
      BY <3>2, <3>3
  <2> QED
    BY <1>1, <2>5, <2>6
<1>4. CASE SaveFails(j) /\ missed' = [missed EXCEPT !.save = TRUE] /\ UNCHANGED outfits
  <2>1. missed'.ask = missed.ask
    BY <1>0, <1>4 DEF Types, Misses
  <2> QED
    BY <1>0, <1>1, <1>4, <2>1, SaveFailsFits DEF j
<1> QED
  BY <1>3, <1>4 DEF AnswerWrite, j

LEMMA SkipWaitFits ==
    ASSUME Fitted, skipWait
    PROVE  Fitting'
<1>0. Types /\ db \in Seq(Jobs) /\ req \in [Requests -> Pending]
  BY FittedFacts DEF Types
<1>1. latest \in Requests /\ UNCHANGED <<want, outfits, latest, flight, trailing>>
  BY <1>0, SkipWaitFacts
<1>2. CASE /\ req' = [req EXCEPT ![latest].skip = "saving"] /\ UNCHANGED <<ui, missed>>
           /\ db' = Append(db, [job |-> "read", r |-> latest, by |-> "skip"])
  <2> DEFINE e == [job |-> "read", r |-> latest, by |-> "skip"]
  <2>1. e \in Jobs /\ e.job # "worn" /\ db' = Append(db, e)
    BY <1>1, <1>2 DEF Jobs, ReadJobs
  <2> HIDE DEF e
  <2>2. SameWorn(db, db')
    BY <1>0, <2>1, AppendSave
  <2>3. req'[latest].skip = "saving" /\ \A s \in Requests : req'[s].signal = req[s].signal
    BY <1>0, <1>1, <1>2 DEF Pending
  <2> QED
    BY <1>1, <1>2, <2>2, <2>3, KeptFits
<1>3. CASE /\ req' = [req EXCEPT ![latest].skip = "done"] /\ db' = db
           /\ ui' = [ui EXCEPT !.failed = TRUE] /\ missed' = [missed EXCEPT !.save = TRUE]
  <2>1. /\ \A s \in Requests : req'[s].signal = req[s].signal
        /\ ui'.status = ui.status /\ ui'.failed /\ missed'.ask = missed.ask
    BY <1>0, <1>1, <1>3 DEF Types, Pending, Misses
  <2> QED
    BY <1>1, <1>3, <2>1, SameWornRefl, KeptFits
<1> QED
  BY <1>0, <1>2, <1>3, SkipWaitFacts

\* A changed setting waits for its render, whatever is asked for at once.
LEMMA TouchingFits ==
    ASSUME Fitted, Touching
    PROVE  Fitting'
<1>0. /\ Types /\ db \in Seq(Jobs) /\ Linked
      /\ want'.owed /\ UNCHANGED <<outfits, ui, req, latest, flight, trailing, missed>>
  BY FittedFacts, TouchingFacts
<1>1. Follows' /\ Settled'
  BY <1>0 DEF Follows, Settled, Rendered
<1>2. CASE db' = db
  <2>1. Linked' /\ (Skipped => Skipped')
    BY <1>0, <1>2 DEF Linked, Asked, Skipped, Waits
  <2> QED
    BY <1>0, <1>1, <2>1 DEF Fitted, Fitting
<1>3. CASE \E e : AsksFor(e)
  <2>1. PICK e \in WornJobs : e.by # "evaluation" /\ db' = Append(db, e)
    BY <1>3 DEF AsksFor
  <2>2. ~NoWorn(db') /\ Among(db') = Among(db) \cup {e} /\ Sole(db')
    BY <1>0, <2>1, AppendWorn DEF Linked
  <2>3. Linked' /\ Skipped'
    BY <1>0, <2>1, <2>2 DEF Linked, Asked, Skipped
  <2> QED
    BY <1>0, <1>1, <2>3 DEF Fitting
<1> QED
  BY <1>0, <1>2, <1>3, TouchingFacts

LEMMA FittedStep ==
    ASSUME Fitted, [Next]_vars
    PROVE  Fitted'
<1>0. Steady /\ Steady' /\ Types /\ Linked
  BY SteadyStep, FittedFacts DEF Fitted
<1>1. CASE Evaluating
  BY <1>0, <1>1, EvaluatingFits DEF Fitted
<1>2. CASE ~Resuming /\ ((\E r \in Requests : RequestStep(r)) \/ Answers)
  BY <1>0, <1>2, RequestStepFits, AnswerWornFits, AnswerReadFits, AnswerWriteFits DEF Fitted, Answers
<1>3. CASE skipWait
  BY <1>0, <1>3, SkipWaitFits DEF Fitted
<1>4. CASE Touching
  BY <1>0, <1>4, TouchingFits DEF Fitted
<1>5. CASE initialize
  <2>1. ~Ready /\ want'.owed /\ UNCHANGED <<db, latest, flight>>
    BY <1>0, <1>5 DEF initialize, Ready, Types
  <2>2. Blank'
    BY <1>0, <2>1 DEF Blank, Steady, Asleep, Linked
  <2>3. Fitting'
    BY <2>2, BlankFits, PTL
  <2> QED
    BY <1>0, <2>3 DEF Fitted
<1>6. CASE ProcessEnds
  <2>1. Blank'
    BY <1>6 DEF ProcessEnds, Blank, Ready, NoFlight
  <2>2. Fitting'
    BY <2>1, BlankFits, PTL
  <2> QED
    BY <1>0, <2>2 DEF Fitted
<1>7. CASE UNCHANGED vars
  BY <1>0, <1>7, SameWornRefl, KeptFits DEF vars, Fitted
<1> QED
  BY <1>1, <1>2, <1>3, <1>4, <1>5, <1>6, <1>7 DEF Next, Resumes, Evaluating, Touching

\* At rest, what is shown is for the settings in force, or a failure is shown, and
\* it is what the next launch will show.  Excepted is what is recorded in missed:
\* since an evaluation last asked, a refresh could not ask or joined a request
\* skipped for other settings, or an evaluation asked for nothing, or was joined,
\* while what was asked for beside it was for other settings; since an outfit was
\* last shown, a save failed, or a refresh joined a request whose outfit another's
\* is or will be stored over.
THEOREM RestsRightAlways == Spec => []RestsRight
<1>1. Init => Fitted
  <2>1. Init => Blank
    BY DEF Init, Blank, Ready, NoFlight
  <2> QED
    BY <2>1, BlankFits, SteadyInit DEF Fitted
<1>2. Fitted /\ [Next]_vars => Fitted'
  BY FittedStep
<1>3. Fitted => FitsTheSettings
  <2> SUFFICES ASSUME Fitted, Quiet, ~missed.ask PROVE outfits.shown.signal = want.signal \/ ui.failed
    BY DEF FitsTheSettings
  <2>1. Among(db) = {} /\ Settled
    BY DEF Quiet, Among, Fitted, Fitting
  <2>2. NoWorn(db)
    BY <2>1 DEF NoWorn
  <2>3. latest = NoRequest /\ trailing.pc = "off"
    BY FittedFacts DEF Quiet, Fitted, Steady, Waiting, Types
  <2> QED
    BY <2>1, <2>2, <2>3 DEF Settled, Rendered, Right, Quiet
<1>4. Spec => []FitsTheSettings
  BY <1>1, <1>2, <1>3, PTL DEF Spec
<1>5. FitsTheSettings /\ ShowsWhatIsStored => RestsRight
  BY DEF RestsRight
<1> QED
  BY <1>4, <1>5, AlwaysShowsWhatIsStored, PTL

=============================================================================
