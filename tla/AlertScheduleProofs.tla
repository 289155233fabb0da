------------------------ MODULE AlertScheduleProofs ------------------------
(***************************************************************************)
(* Proofs about AlertSchedule: the types, that the last thing the app was     *)
(* asked is taken up, that nothing announced on record is announced again,    *)
(* that a kind switched off stays silent, and that the system and the ledger  *)
(* agree once a run got through alone, for any number of alerts, forecasts    *)
(* and failures.                                                              *)
(***************************************************************************)
EXTENDS AlertSchedule, TLAPS

\* Never is past the last instant.
LEMMA NeverFacts == Never \in Nat /\ MaxTime \in Nat /\ Never > MaxTime
BY AlertsAssumption DEF Never

\* What has come by some instant is not Never.
LEMMA NeverLate == \A t \in 0 .. MaxTime : ~(Never <= t)
BY AlertsAssumption DEF Never

\* The idle run.
LEMMA IdleFacts == Idle \in Runs /\ Idle.step = "idle" /\ Idle.todo = {} /\ Idle.scheduled = {}
BY AlertsAssumption DEF Idle, Runs, Steps

\* The run that begins: its type, its clock, and that it has handed over nothing.
LEMMA NewRunFacts ==
    ASSUME TypeOK, NEW input \in Inputs, NEW alone \in BOOLEAN, NEW wasCalm \in BOOLEAN
    PROVE  LET r == NewRun(input, alone, wasCalm)
           IN  /\ r \in Runs /\ r.step \in {"pending", "list"}
               /\ r.now = clock /\ r.todo = {} /\ r.scheduled = {} /\ r.on = input.on
<1> DEFINE r == [Idle EXCEPT !.on = input.on, !.snapshot = input.snapshot, !.now = clock,
                             !.alone = alone, !.wasCalm = wasCalm]
<1>1. input.on \in SUBSET Kinds /\ input.snapshot \in Snapshots \cup {None} /\ clock \in 0 .. MaxTime
  BY DEF Inputs, TypeOK
<1>0. /\ r \in Runs /\ r.now = clock /\ r.todo = {} /\ r.scheduled = {} /\ r.on = input.on
  BY <1>1, IdleFacts DEF Runs
<1>2. PICK step \in {"pending", "list"} : NewRun(input, alone, wasCalm) = [r EXCEPT !.step = step]
  BY DEF NewRun
<1>3. [r EXCEPT !.step = "pending"] \in Runs /\ [r EXCEPT !.step = "list"] \in Runs
  BY <1>0 DEF Runs, Steps
<1> QED
  BY <1>0, <1>2, <1>3 DEF Runs

\* A run of s begins: the other one is as it was, but not alone.
LEMMA BeginFacts ==
    ASSUME TypeOK, NEW s \in Schedulers, NEW input \in Inputs, Begin(s, input)
    PROVE  /\ run' \in [Schedulers -> Runs] /\ calm' \in BOOLEAN
           /\ run'[s].step \in {"pending", "list"} /\ run'[s].now = clock
           /\ run'[s].todo = {} /\ run'[s].scheduled = {}
           /\ \A t \in Schedulers \ {s} :
                /\ run'[t].step = run[t].step /\ run'[t].now = run[t].now
                /\ run'[t].todo = run[t].todo /\ run'[t].scheduled = run[t].scheduled
<1> DEFINE t == Other(s)
<1>1. t \in Schedulers /\ t # s /\ Schedulers = {s, t}
  BY DEF Other, Schedulers
<1>2. PICK alone \in BOOLEAN : alone = ~AtWork(t)
  BY DEF AtWork
<1>3. calm \in BOOLEAN /\ run \in [Schedulers -> Runs] /\ run[t].alone \in BOOLEAN
  BY <1>1 DEF TypeOK, Runs
<1>4. NewRun(input, alone, calm) \in Runs
  BY <1>3, NewRunFacts
<1>5. run' = [run EXCEPT ![s] = NewRun(input, alone, calm), ![t].alone = @ /\ alone]
  BY <1>2 DEF Begin
<1>6. run'[s] = NewRun(input, alone, calm) /\ run'[t] = [run[t] EXCEPT !.alone = run[t].alone /\ alone]
  BY <1>1, <1>3, <1>5
<1>7. run'[t] \in Runs
  BY <1>1, <1>3, <1>6 DEF Runs
<1>8. run' \in [Schedulers -> Runs]
  BY <1>1, <1>3, <1>4, <1>5, <1>6, <1>7
<1>9. /\ run'[t].step = run[t].step /\ run'[t].now = run[t].now
      /\ run'[t].todo = run[t].todo /\ run'[t].scheduled = run[t].scheduled
  BY <1>1, <1>3, <1>6 DEF Runs
<1>10. /\ run'[s].step \in {"pending", "list"} /\ run'[s].now = clock
       /\ run'[s].todo = {} /\ run'[s].scheduled = {}
  BY <1>3, <1>6, NewRunFacts
<1>11. calm' \in BOOLEAN
  BY <1>3 DEF Begin
<1>12. \A u \in Schedulers \ {s} : u = t
  BY <1>1
<1> QED
  BY <1>8, <1>9, <1>10, <1>11, <1>12

\* A run of s ends: it goes idle, or the app's takes up what was queued.
LEMMA EndFacts ==
    ASSUME TypeOK, NEW s \in Schedulers, NEW good \in BOOLEAN, End(s, good)
    PROVE  /\ run' \in [Schedulers -> Runs] /\ calm' \in BOOLEAN /\ silent' \in SUBSET Kinds
           /\ queued' \in Inputs \cup {None}
           /\ asked' \in [last : Inputs \cup {None}, taken : Inputs \cup {None}]
           /\ \A t \in Schedulers \ {s} : run'[t] = run[t]
           /\ \/ /\ run'[s] = Idle /\ (s = "app" => queued = None)
                 /\ queued' = queued /\ asked' = asked
              \/ /\ s = "app" /\ queued # None /\ queued' = None
                 /\ asked'.last = asked.last /\ asked'.taken = queued
                 /\ run'[s].step \in {"pending", "list"} /\ run'[s].now = clock
                 /\ run'[s].todo = {} /\ run'[s].scheduled = {}
<1> DEFINE r == run[s]
           rest == good /\ r.alone /\ (Replans(r.on, r.snapshot, r.now) \/ r.wasCalm)
           next == s = "app" /\ queued # None
<1>1. run[s] \in Runs /\ run \in [Schedulers -> Runs]
  BY DEF TypeOK
<1>2. PICK free \in BOOLEAN : free = ~AtWork("task")
  BY DEF AtWork
<1>3. PICK was \in BOOLEAN : was = rest
  BY <1>1 DEF Runs
<1>4. /\ run' = [run EXCEPT ![s] = IF next THEN NewRun(queued, free, was) ELSE Idle]
      /\ calm' = (was /\ ~next)
      /\ queued' = IF next THEN None ELSE queued
      /\ asked' = IF next THEN [asked EXCEPT !.taken = queued] ELSE asked
      /\ silent' \in {silent, silent \cup (Kinds \ (r.on \cup opt \cup run["task"].on))}
  BY <1>2, <1>3 DEF End, EndTaking
<1>5. silent' \in SUBSET Kinds /\ calm' \in BOOLEAN
  BY <1>3, <1>4 DEF TypeOK
<1>6. CASE next
  <2>1. queued \in Inputs
    BY <1>6 DEF TypeOK
  <2>2. /\ NewRun(queued, free, was) \in Runs
        /\ NewRun(queued, free, was).step \in {"pending", "list"}
        /\ NewRun(queued, free, was).now = clock
        /\ NewRun(queued, free, was).todo = {} /\ NewRun(queued, free, was).scheduled = {}
    BY <2>1, NewRunFacts
  <2>3. run' = [run EXCEPT ![s] = NewRun(queued, free, was)]
    BY <1>4, <1>6
  <2>4. asked' = [asked EXCEPT !.taken = queued] /\ queued' = None
    BY <1>4, <1>6
  <2>5. /\ asked' \in [last : Inputs \cup {None}, taken : Inputs \cup {None}]
        /\ asked'.last = asked.last /\ asked'.taken = queued
    BY <2>1, <2>4 DEF TypeOK
  <2> QED
    BY <1>1, <1>5, <1>6, <2>1, <2>2, <2>3, <2>4, <2>5
<1>7. CASE ~next
  <2>1. run' = [run EXCEPT ![s] = Idle] /\ queued' = queued /\ asked' = asked
    BY <1>4, <1>7
  <2> QED
    BY <1>1, <1>5, <1>7, <2>1, IdleFacts DEF TypeOK
<1> QED
  BY <1>6, <1>7

\* The observer asks: nothing, or the input is queued, or a run of the app begins.
LEMMA AskFacts ==
    ASSUME TypeOK, opt' \in SUBSET Kinds, shown' \in Snapshots \cup {None}, Ask
    PROVE  /\ run' \in [Schedulers -> Runs] /\ calm' \in BOOLEAN
           /\ \/ run' = run /\ queued' = queued /\ asked' = asked
              \/ /\ AtWork("app") /\ run' = run /\ queued' \in Inputs
                 /\ asked' = [asked EXCEPT !.last = queued']
              \/ /\ ~AtWork("app") /\ queued' = queued
                 /\ asked' \in [last : Inputs, taken : Inputs] /\ asked'.last = asked'.taken
                 /\ run'["app"].step \in {"pending", "list"} /\ run'["app"].now = clock
                 /\ run'["app"].todo = {} /\ run'["app"].scheduled = {}
                 /\ run'["task"].step = run["task"].step /\ run'["task"].now = run["task"].now
                 /\ run'["task"].todo = run["task"].todo
                 /\ run'["task"].scheduled = run["task"].scheduled
<1> DEFINE cancels == opt' = {} \/ permission' = "denied"
           plans == opt' # {} /\ permission' = "granted" /\ shown' # None
           disables == opt' # Kinds
           input == [on |-> IF cancels THEN {} ELSE opt',
                     snapshot |-> IF permission' = "granted" THEN shown' ELSE None]
<1>1. input \in Inputs
  BY DEF Inputs
<1>2. CASE ~(cancels \/ plans \/ disables)
  BY <1>2 DEF Ask, TypeOK
<1>3. CASE (cancels \/ plans \/ disables) /\ AtWork("app")
  <2>1. queued' = input /\ asked' = [asked EXCEPT !.last = input] /\ run' = run /\ calm' = calm
    BY <1>3 DEF Ask
  <2> QED
    BY <1>1, <1>3, <2>1 DEF TypeOK
<1>4. CASE (cancels \/ plans \/ disables) /\ ~AtWork("app")
  <2>1. /\ Begin("app", input) /\ asked' = [last |-> input, taken |-> input]
        /\ queued' = queued
    BY <1>4 DEF Ask
  <2> HIDE DEF input
  <2>2. "app" \in Schedulers /\ "task" \in Schedulers \ {"app"}
    BY DEF Schedulers
  <2> QED
    BY <1>1, <1>4, <2>1, <2>2, BeginFacts
<1> QED
  BY <1>2, <1>3, <1>4

\* A plan's notifications are some.
LEMMA PlanFacts ==
    ASSUME NEW s, NEW on, NEW forecast, NEW now, NEW delivered
    PROVE  PlannedNotifications(s, on, forecast, now, delivered) \in SUBSET Notifications
BY DEF PlannedNotifications

\* The rows read as pending are notifications.
LEMMA PendingRows ==
    ASSUME TypeOK, NEW now \in 0 .. MaxTime
    PROVE  ListPending(now) \in SUBSET Notifications
<1>1. \A i \in Ids : HasRow(i) => ledger[i] \in 0 .. MaxTime
  BY NeverFacts DEF TypeOK, HasRow, Never
<1> QED
  BY <1>1 DEF ListPending, Notifications

\* A failure is counted within its bound.
LEMMA FailedFacts ==
    ASSUME TypeOK, Failed
    PROVE  spent' \in [changes : 0 .. MaxChanges, tasks : 0 .. MaxTasks, failures : 0 .. MaxFailures]
<1>1. spent.failures + 1 \in 0 .. MaxFailures
  BY AlertsAssumption DEF TypeOK, Failed
<1> QED
  BY <1>1 DEF TypeOK, Failed

\* One step of a run keeps the types.
LEMMA RunStepTypes ==
    ASSUME TypeOK, NEW s \in Schedulers, RunStep(s)
    PROVE  TypeOK'
<1> USE DEF TypeOK
<1>0. run[s] \in Runs /\ Never \in 0 .. Never
  BY NeverFacts
<1>1. ASSUME List(s) PROVE TypeOK'
  <2>1. PICK found \in SUBSET Ids, step \in {"delete", "cancel"} :
          run' = [run EXCEPT ![s].left = found, ![s].step = step]
    BY <1>1 DEF List
  <2>2. run' \in [Schedulers -> Runs]
    BY <1>0, <2>1 DEF Runs, Steps
  <2> QED
    BY <1>1, <2>2 DEF List, settings, device
<1>2. ASSUME Cancel(s) \/ CancelRefused(s) PROVE TypeOK'
  <2>1. PICK id \in run[s].left, step \in {"delete", "cancel"} :
          \/ run' = [run EXCEPT ![s].left = @ \ {id}, ![s].step = step]
          \/ run' = [run EXCEPT ![s].left = @ \ {id}, ![s].cancelled = FALSE, ![s].step = step]
    <3>1. CASE Cancel(s)
      BY <3>1 DEF Cancel
    <3>2. CASE CancelRefused(s)
      BY <3>2 DEF CancelRefused
    <3> QED
      BY <1>2, <3>1, <3>2
  <2>2. run' \in [Schedulers -> Runs]
    BY <1>0, <2>1 DEF Runs, Steps
  <2>3. system' \in [Ids -> 0 .. Never]
    BY <1>0, <1>2 DEF Cancel, CancelRefused, device
  <2>4. spent' \in [changes : 0 .. MaxChanges, tasks : 0 .. MaxTasks, failures : 0 .. MaxFailures]
    BY <1>2, FailedFacts DEF Cancel, CancelRefused
  <2> QED
    BY <1>2, <2>2, <2>3, <2>4 DEF Cancel, CancelRefused, settings, device
<1>3. ASSUME GiveUp(s) PROVE TypeOK'
  BY <1>3, EndFacts DEF GiveUp, settings, device
<1>4. ASSUME Delete(s) PROVE TypeOK'
  <2>1. ledger' \in [Ids -> 0 .. Never]
    BY <1>0, <1>4 DEF Delete, DeletePending
  <2>2. PICK step \in Steps : End(s, TRUE) \/ (run' = To(s, step) /\ UNCHANGED <<queued, asked, silent, calm>>)
    BY <1>4 DEF Delete, Steps
  <2>3. CASE End(s, TRUE)
    BY <1>4, <2>1, <2>3, EndFacts DEF Delete, settings
  <2>4. CASE run' = To(s, step) /\ UNCHANGED <<queued, asked, silent, calm>>
    BY <1>0, <1>4, <2>1, <2>4 DEF Delete, To, Runs, settings
  <2> QED
    BY <2>2, <2>3, <2>4
<1>5. ASSUME Plan(s) PROVE TypeOK'
  <2>1. PICK plan \in SUBSET Notifications, step \in {"save", "schedule"} :
          run' = [run EXCEPT ![s].todo = plan, ![s].step = step]
    BY <1>5, PlanFacts DEF Plan
  <2>2. run' \in [Schedulers -> Runs]
    BY <1>0, <2>1 DEF Runs, Steps
  <2> QED
    BY <1>5, <2>2 DEF Plan, settings, device
<1>6. ASSUME Pending(s) PROVE TypeOK'
  <2>1. CASE End(s, TRUE)
    BY <1>6, <2>1, EndFacts DEF Pending, settings, device
  <2>2. CASE /\ run' = [run EXCEPT ![s].scheduled = ListPending(run[s].now), ![s].step = "rewriting"]
             /\ UNCHANGED <<queued, asked, silent, calm>>
    <3>1. ListPending(run[s].now) \in SUBSET Notifications
      BY <1>0, PendingRows DEF Runs
    <3>2. run' \in [Schedulers -> Runs]
      BY <1>0, <2>2, <3>1 DEF Runs, Steps
    <3> QED
      BY <1>6, <2>2, <3>2 DEF Pending, settings, device
  <2> QED
    BY <1>6, <2>1, <2>2 DEF Pending
<1>7. ASSUME Rewrite(s) PROVE TypeOK'
  <2>1. PICK todo \in SUBSET run[s].scheduled :
          run' = [run EXCEPT ![s].todo = todo, ![s].step = "rewrite"]
    BY <1>7 DEF Rewrite
  <2>2. run' \in [Schedulers -> Runs]
    BY <1>0, <2>1 DEF Runs, Steps
  <2> QED
    BY <1>7, <2>2 DEF Rewrite, settings, device
<1>8. ASSUME Rewritten(s) PROVE TypeOK'
  BY <1>8, EndFacts DEF Rewritten, settings, device
<1>9. ASSUME Save(s) PROVE TypeOK'
  <2>1. ledger' \in [Ids -> 0 .. Never]
    <3>1. \A id \in Ids : (\E t \in 0 .. MaxTime : [id |-> id, at |-> t] \in run[s].scheduled) =>
            (CHOOSE t \in 0 .. MaxTime : [id |-> id, at |-> t] \in run[s].scheduled) \in 0 .. MaxTime
      OBVIOUS
    <3> QED
      BY <1>9, <3>1, NeverFacts DEF Save
  <2> QED
    BY <1>9, <2>1, EndFacts DEF Save, settings
<1>10. ASSUME Fails(s) PROVE TypeOK'
  <2>1. spent' \in [changes : 0 .. MaxChanges, tasks : 0 .. MaxTasks, failures : 0 .. MaxFailures]
    BY <1>10, FailedFacts DEF Fails
  <2> QED
    BY <1>10, <2>1, EndFacts DEF Fails, settings, device
<1>11. ASSUME NEW n \in run[s].todo, Schedule(s, n) PROVE TypeOK'
  <2>1. n \in Notifications
    BY <1>0 DEF Runs
  <2>2. system' \in [Ids -> 0 .. Never]
    BY <1>0, <1>11, <2>1, NeverFacts DEF Schedule, Notifications
  <2>0. heard' \in [Ids -> Hearings]
    <3>1. heard' = heard \/ heard' = [heard EXCEPT ![n.id] = Hearing(heard[n.id], FALSE)]
      BY <1>11, <2>1 DEF Schedule
    <3>2. \A before : Hearing(before, FALSE) \in Hearings
      BY DEF Hearing, Hearings
    <3>3. PICK hearing \in Hearings : heard' = heard \/ heard' = [heard EXCEPT ![n.id] = hearing]
      BY <3>1, <3>2
    <3> QED
      BY <3>3
  <2>3. PICK step \in {"save", run[s].step}, scheduled \in SUBSET Notifications :
          run' = [run EXCEPT ![s].todo = @ \ {n}, ![s].scheduled = scheduled, ![s].step = step]
    BY <1>0, <1>11, <2>1 DEF Schedule, Runs
  <2>4. run' \in [Schedulers -> Runs]
    <3>1. [run[s] EXCEPT !.todo = @ \ {n}, !.scheduled = scheduled, !.step = step] \in Runs
      BY <1>0 DEF Runs, Steps
    <3>2. run' = [run EXCEPT ![s] = [run[s] EXCEPT !.todo = @ \ {n}, !.scheduled = scheduled, !.step = step]]
      BY <1>0, <2>3
    <3> QED
      BY <1>0, <3>1, <3>2
  <2> QED
    BY <1>11, <2>0, <2>2, <2>4 DEF Schedule, settings
<1>12. ASSUME NEW n \in run[s].todo, ScheduleRefused(s, n) PROVE TypeOK'
  <2>1. PICK step \in {"save", run[s].step} :
          run' = [run EXCEPT ![s].todo = @ \ {n}, ![s].step = step]
    BY <1>0, <1>12 DEF ScheduleRefused, Runs
  <2>2. run' \in [Schedulers -> Runs]
    BY <1>0, <2>1 DEF Runs, Steps
  <2>3. spent' \in [changes : 0 .. MaxChanges, tasks : 0 .. MaxTasks, failures : 0 .. MaxFailures]
    BY <1>12, FailedFacts DEF ScheduleRefused
  <2> QED
    BY <1>12, <2>2, <2>3 DEF ScheduleRefused, settings, device
<1> QED
  BY <1>1, <1>2, <1>3, <1>4, <1>5, <1>6, <1>7, <1>8, <1>9, <1>10, <1>11, <1>12 DEF RunStep

\* A change in what the app sees, and what it asks then, keeps the types.
LEMMA ChangeTypes ==
    ASSUME TypeOK, UNCHANGED <<clock, device>>, Ask,
           opt' \in SUBSET Kinds, permission' \in {"granted", "denied", "unread"},
           shown' \in Snapshots \cup {None}, stored' \in Snapshots \cup {None},
           silent' \in SUBSET Kinds,
           spent' \in [changes : 0 .. MaxChanges, tasks : 0 .. MaxTasks, failures : 0 .. MaxFailures]
    PROVE  TypeOK'
<1>1. run' \in [Schedulers -> Runs] /\ calm' \in BOOLEAN
  BY AskFacts
<1>2. queued' \in Inputs \cup {None} /\ asked' \in [last : Inputs \cup {None}, taken : Inputs \cup {None}]
  BY AskFacts DEF TypeOK
<1> QED
  BY <1>1, <1>2 DEF TypeOK, device

\* A change is counted within its bound.
LEMMA ChangeFacts ==
    ASSUME TypeOK, Change
    PROVE  spent' \in [changes : 0 .. MaxChanges, tasks : 0 .. MaxTasks, failures : 0 .. MaxFailures]
<1>1. spent.changes + 1 \in 0 .. MaxChanges
  BY AlertsAssumption DEF TypeOK, Change
<1> QED
  BY <1>1 DEF TypeOK, Change

\* The types hold at first.
LEMMA InitTypes == Init => TypeOK
<1> SUFFICES ASSUME Init PROVE TypeOK
  OBVIOUS
<1>1. 0 \in 0 .. MaxTime /\ Never \in 0 .. Never /\ 0 \in 0 .. MaxChanges /\ 0 \in 0 .. MaxTasks
      /\ 0 \in 0 .. MaxFailures
  BY AlertsAssumption, NeverFacts
<1> QED
  BY <1>1, IdleFacts DEF Init, TypeOK, Hearings

\* Every step keeps the types.
LEMMA NextTypes == TypeOK /\ [Next]_vars => TypeOK'
<1> SUFFICES ASSUME TypeOK, [Next]_vars PROVE TypeOK'
  OBVIOUS
<1>1. ASSUME NEW s \in Schedulers, RunStep(s) PROVE TypeOK'
  BY <1>1, RunStepTypes
<1>2. ASSUME NEW kind \in Kinds, Switch(kind) PROVE TypeOK'
  <2>1. opt' \in SUBSET Kinds /\ silent' \in SUBSET Kinds
    BY <1>2 DEF Switch, TypeOK
  <2>2. Change /\ Ask /\ UNCHANGED <<clock, permission, shown, stored, device>>
    BY <1>2 DEF Switch
  <2> QED
    BY <2>1, <2>2, ChangeTypes, ChangeFacts DEF TypeOK
<1>3. ASSUME NEW read \in {"granted", "denied", "unread"}, Activate(read) PROVE TypeOK'
  <2>1. Change /\ Ask /\ permission' = read /\ UNCHANGED <<clock, opt, shown, stored, silent, device>>
    BY <1>3 DEF Activate
  <2> QED
    BY <2>1, ChangeTypes, ChangeFacts DEF TypeOK
<1>4. ASSUME NEW f \in Forecasts, Refresh(f) PROVE TypeOK'
  <2>1. /\ Change /\ Ask /\ shown' = [of |-> f, at |-> clock] /\ stored' = shown'
        /\ UNCHANGED <<clock, opt, permission, silent, device>>
    BY <1>4 DEF Refresh
  <2>2. shown' \in Snapshots
    BY <2>1 DEF TypeOK, Snapshots
  <2> QED
    BY <2>1, <2>2, ChangeTypes, ChangeFacts DEF TypeOK
<1>5. ASSUME ShowStored PROVE TypeOK'
  <2>1. /\ Ask /\ shown' = stored
        /\ UNCHANGED <<clock, opt, permission, stored, silent, spent, device>>
    BY <1>5 DEF ShowStored
  <2> QED
    BY <2>1, ChangeTypes DEF TypeOK
<1>6. ASSUME TaskProfile PROVE TypeOK'
  <2>1. spent.tasks + 1 \in 0 .. MaxTasks
    BY <1>6, AlertsAssumption DEF TaskProfile, TypeOK
  <2>2. spent' \in [changes : 0 .. MaxChanges, tasks : 0 .. MaxTasks, failures : 0 .. MaxFailures]
    BY <1>6, <2>1 DEF TaskProfile, TypeOK
  <2>3. run' \in [Schedulers -> Runs]
    <3>1. "task" \in Schedulers /\ run["task"] \in Runs /\ opt \in SUBSET Kinds
      BY DEF TypeOK, Schedulers
    <3>2. [run["task"] EXCEPT !.step = "profile", !.on = opt] \in Runs
      BY <3>1 DEF Runs, Steps
    <3>3. run' = [run EXCEPT !["task"] = [run["task"] EXCEPT !.step = "profile", !.on = opt]]
      BY <1>6, <3>1 DEF TaskProfile, TypeOK
    <3> QED
      BY <3>1, <3>2, <3>3 DEF TypeOK
  <2> QED
    BY <1>6, <2>2, <2>3 DEF TaskProfile, TypeOK, settings, device
<1>7. ASSUME TaskPlans PROVE TypeOK'
  <2>1. stored' \in Snapshots \cup {None}
    BY <1>7 DEF TaskPlans, TypeOK, Snapshots
  <2>2. [on |-> run["task"].on, snapshot |-> stored'] \in Inputs /\ "task" \in Schedulers
    BY <2>1 DEF TypeOK, Runs, Inputs, Schedulers
  <2>3. run' \in [Schedulers -> Runs] /\ calm' \in BOOLEAN
    BY <1>7, <2>2, BeginFacts DEF TaskPlans
  <2> QED
    BY <1>7, <2>1, <2>3 DEF TaskPlans, TypeOK, device
<1>8. ASSUME TaskFails PROVE TypeOK'
  BY <1>8, IdleFacts DEF TaskFails, TypeOK, settings, device
<1>9. ASSUME Tick PROVE TypeOK'
  <2>1. clock' \in 0 .. MaxTime
    BY <1>9, AlertsAssumption DEF Tick, TypeOK
  <2>2. system' \in [Ids -> 0 .. Never]
    BY <1>9, NeverFacts DEF Tick, TypeOK
  <2>3. heard' \in [Ids -> Hearings]
    <3>1. \A before, onRecord : Hearing(before, onRecord) \in Hearings
      BY DEF Hearing, Hearings
    <3> QED
      BY <1>9, <3>1 DEF Tick, TypeOK
  <2> QED
    BY <1>9, <2>1, <2>2, <2>3 DEF Tick, TypeOK
<1>10. ASSUME Crash PROVE TypeOK'
  BY <1>10, IdleFacts, FailedFacts DEF Crash, TypeOK, device
<1>11. ASSUME UNCHANGED vars PROVE TypeOK'
  BY <1>11 DEF TypeOK, vars
<1> QED
  BY <1>1, <1>2, <1>3, <1>4, <1>5, <1>6, <1>7, <1>8, <1>9, <1>10, <1>11 DEF Next

\* The types of the scheduler's state hold in every behaviour.
THEOREM TypeCorrect == Spec => []TypeOK
BY InitTypes, NextTypes, PTL DEF Spec

-----------------------------------------------------------------------------
(* The last thing asked is taken up.                                         *)

\* An input waits only behind a run, and is the last one given.
QueueInv ==
    /\ queued = None => asked.taken = asked.last
    /\ queued # None => AtWork("app") /\ asked.last = queued

\* The run of s goes on: what it then holds to hand over it held before, or it
\* had not fired by its clock.
GoesOn(s) ==
    /\ queued' = queued /\ asked' = asked /\ AtWork(s)'
    /\ run'[s].now = run[s].now
    /\ \A n \in run'[s].todo \cup run'[s].scheduled :
         n \in run[s].todo \cup run[s].scheduled \/ n.id \notin ListFired(run[s].now)

\* The steps that change only the run of s, whose record becomes r.
LEMMA Proceeds ==
    ASSUME TypeOK, NEW s \in Schedulers, NEW r, run' = [run EXCEPT ![s] = r],
           r.step \notin {"idle", "profile"}, r.now = run[s].now,
           \A n \in r.todo \cup r.scheduled :
             n \in run[s].todo \cup run[s].scheduled \/ n.id \notin ListFired(run[s].now),
           UNCHANGED <<queued, asked>>
    PROVE  GoesOn(s) /\ \A t \in Schedulers \ {s} : run'[t] = run[t]
<1>1. run'[s] = r /\ \A t \in Schedulers \ {s} : run'[t] = run[t]
  BY DEF TypeOK
<1> QED
  BY <1>1 DEF GoesOn, AtWork

\* A step of s leaves the other scheduler's run alone; it goes on, or ends.
LEMMA RunStepFacts ==
    ASSUME TypeOK, NEW s \in Schedulers, RunStep(s)
    PROVE  /\ AtWork(s)
           /\ \A t \in Schedulers \ {s} : run'[t] = run[t]
           /\ GoesOn(s) \/ \E good \in BOOLEAN : End(s, good)
<1> DEFINE Goal == GoesOn(s) /\ \A t \in Schedulers \ {s} : run'[t] = run[t]
<1>0. run[s] \in Runs /\ run \in [Schedulers -> Runs]
  BY DEF TypeOK
<1>1. AtWork(s)
  BY DEF RunStep, AtWork, List, Cancel, CancelRefused, GiveUp, Delete, Plan, Pending, Rewrite,
         Rewritten, Save, Fails, Schedule, ScheduleRefused
<1>2. CASE \E good \in BOOLEAN : End(s, good)
  BY <1>1, <1>2, EndFacts
<1>3. CASE ~\E good \in BOOLEAN : End(s, good)
  <2>1. ASSUME List(s) PROVE Goal
    <3>1. PICK found \in SUBSET Ids, step \in {"delete", "cancel"} :
            run' = [run EXCEPT ![s] = [run[s] EXCEPT !.left = found, !.step = step]]
      BY <1>0, <2>1 DEF List
    <3> QED
      BY <1>0, <2>1, <3>1, Proceeds DEF List, Runs
  <2>2. ASSUME Cancel(s) \/ CancelRefused(s) PROVE Goal
    <3>1. PICK r \in Runs : /\ run' = [run EXCEPT ![s] = r] /\ r.step \in {"delete", "cancel"}
                            /\ r.now = run[s].now /\ r.todo = run[s].todo
                            /\ r.scheduled = run[s].scheduled
      <4>1. PICK id \in run[s].left :
              LET step == IF run[s].left = {id} THEN "delete" ELSE "cancel"
                  left == run[s].left \ {id}
              IN  \/ run' = [run EXCEPT ![s] = [run[s] EXCEPT !.left = left, !.step = step]]
                  \/ run' = [run EXCEPT ![s] = [run[s] EXCEPT !.left = left, !.cancelled = FALSE,
                                                              !.step = step]]
        BY <1>0, <2>2 DEF Cancel, CancelRefused
      <4>2. PICK step \in {"delete", "cancel"}, left \in SUBSET Ids :
                  \/ run' = [run EXCEPT ![s] = [run[s] EXCEPT !.left = left, !.step = step]]
                  \/ run' = [run EXCEPT ![s] = [run[s] EXCEPT !.left = left, !.cancelled = FALSE,
                                                              !.step = step]]
        BY <1>0, <4>1 DEF Runs
      <4>3. CASE run' = [run EXCEPT ![s] = [run[s] EXCEPT !.left = left, !.step = step]]
        <5> DEFINE r == [run[s] EXCEPT !.left = left, !.step = step]
        <5>1. /\ r \in Runs /\ r.step = step /\ r.now = run[s].now /\ r.todo = run[s].todo
              /\ r.scheduled = run[s].scheduled
          BY <1>0 DEF Runs, Steps
        <5> HIDE DEF r
        <5> QED
          BY <4>3, <5>1 DEF r
      <4>4. CASE run' = [run EXCEPT ![s] = [run[s] EXCEPT !.left = left, !.cancelled = FALSE, !.step = step]]
        <5> DEFINE r == [run[s] EXCEPT !.left = left, !.cancelled = FALSE, !.step = step]
        <5>1. /\ r \in Runs /\ r.step = step /\ r.now = run[s].now /\ r.todo = run[s].todo
              /\ r.scheduled = run[s].scheduled
          BY <1>0 DEF Runs, Steps
        <5> HIDE DEF r
        <5> QED
          BY <4>4, <5>1 DEF r
      <4> QED
        BY <4>2, <4>3, <4>4
    <3>2. UNCHANGED <<queued, asked>>
      BY <2>2 DEF Cancel, CancelRefused
    <3> QED
      BY <3>1, <3>2, Proceeds
  <2>3. ASSUME Plan(s) PROVE Goal
    <3> DEFINE r == run[s]
               plan == PlannedNotifications(s, r.on, r.snapshot.of, r.now, ListFired(r.now))
    <3>1. PICK step \in {"save", "schedule"} :
            run' = [run EXCEPT ![s] = [run[s] EXCEPT !.todo = plan, !.step = step]]
      BY <1>0, <2>3 DEF Plan
    <3>2. \A n \in plan : n.id \notin ListFired(r.now)
      BY DEF PlannedNotifications
    <3> HIDE DEF plan
    <3> QED
      BY <1>0, <2>3, <3>1, <3>2, Proceeds DEF Plan, Runs
  <2>4. ASSUME Rewrite(s) PROVE Goal
    <3>1. PICK todo \in SUBSET run[s].scheduled :
            run' = [run EXCEPT ![s] = [run[s] EXCEPT !.todo = todo, !.step = "rewrite"]]
      BY <1>0, <2>4 DEF Rewrite
    <3> QED
      BY <1>0, <2>4, <3>1, Proceeds DEF Rewrite, Runs
  <2>5. ASSUME Delete(s) PROVE Goal
    <3>1. PICK step \in {"fired", "pending"} : run' = [run EXCEPT ![s] = [run[s] EXCEPT !.step = step]]
      BY <1>0, <1>3, <2>5 DEF Delete, To
    <3>2. UNCHANGED <<queued, asked>>
      BY <1>3, <2>5 DEF Delete
    <3> QED
      BY <1>0, <3>1, <3>2, Proceeds DEF Runs
  <2>6. ASSUME Pending(s) PROVE Goal
    <3> DEFINE rows == ListPending(run[s].now)
    <3>1. /\ run' = [run EXCEPT ![s] = [run[s] EXCEPT !.scheduled = rows, !.step = "rewriting"]]
          /\ UNCHANGED <<queued, asked>>
      BY <1>0, <1>3, <2>6 DEF Pending
    <3>2. \A n \in rows : n.id \notin ListFired(run[s].now)
      BY <1>0, NeverFacts DEF ListPending, ListFired, TypeOK, Runs
    <3> HIDE DEF rows
    <3> QED
      BY <1>0, <3>1, <3>2, Proceeds DEF Runs
  <2>7. ASSUME NEW n \in run[s].todo, Schedule(s, n) \/ ScheduleRefused(s, n) PROVE Goal
    <3>1. PICK scheduled \in SUBSET (run[s].scheduled \cup {n}), step \in {"save", run[s].step} :
            run' = [run EXCEPT ![s] = [run[s] EXCEPT !.todo = run[s].todo \ {n},
                                                     !.scheduled = scheduled, !.step = step]]
      <4>1. CASE Schedule(s, n)
        BY <1>0, <4>1 DEF Schedule
      <4>2. CASE ScheduleRefused(s, n)
        <5>1. PICK step \in {"save", run[s].step} :
                run' = [run EXCEPT ![s] = [run[s] EXCEPT !.todo = run[s].todo \ {n}, !.step = step]]
          BY <1>0, <4>2 DEF ScheduleRefused
        <5>2. [run[s] EXCEPT !.todo = run[s].todo \ {n}, !.step = step]
                = [run[s] EXCEPT !.todo = run[s].todo \ {n}, !.scheduled = run[s].scheduled, !.step = step]
          BY <1>0 DEF Runs
        <5> QED
          BY <5>1, <5>2
      <4> QED
        BY <2>7, <4>1, <4>2
    <3>2. UNCHANGED <<queued, asked>> /\ run[s].step \in {"schedule", "rewrite"}
      BY <2>7 DEF Schedule, ScheduleRefused
    <3> QED
      BY <1>0, <3>1, <3>2, Proceeds DEF Runs
  <2>8. ~GiveUp(s) /\ ~Rewritten(s) /\ ~Save(s) /\ ~Fails(s)
    BY <1>3 DEF GiveUp, Rewritten, Save, Fails
  <2> QED
    BY <1>1, <2>1, <2>2, <2>3, <2>4, <2>5, <2>6, <2>7, <2>8 DEF RunStep
<1> QED
  BY <1>2, <1>3

\* Every step keeps the queue's invariant.
LEMMA QueueStep == TypeOK /\ QueueInv /\ [Next]_vars => QueueInv'
<1> SUFFICES ASSUME TypeOK, QueueInv, [Next]_vars PROVE QueueInv'
  OBVIOUS
<1>0. /\ "app" \in Schedulers /\ "task" \in Schedulers /\ Schedulers = {"app", "task"}
      /\ None \notin Inputs
  BY IdleFacts, NoneAssumption DEF Schedulers
<1>1. ASSUME NEW s \in Schedulers, RunStep(s) PROVE QueueInv'
  <2>1. CASE s = "task"
    <3>1. run'["app"] = run["app"] /\ queued' = queued /\ asked' = asked
      <4>1. run'["app"] = run["app"] /\ (GoesOn("task") \/ \E good \in BOOLEAN : End("task", good))
        BY <1>0, <1>1, <2>1, RunStepFacts
      <4>2. ASSUME NEW good \in BOOLEAN, End("task", good) PROVE queued' = queued /\ asked' = asked
        BY <1>0, <4>2, EndFacts
      <4> QED
        BY <4>1, <4>2 DEF GoesOn
    <3> QED
      BY <3>1 DEF QueueInv, AtWork
  <2>2. CASE s = "app"
    <3>1. CASE GoesOn("app")
      BY <3>1 DEF QueueInv, GoesOn
    <3>2. ASSUME NEW good \in BOOLEAN, End("app", good) PROVE QueueInv'
      <4>1. \/ queued = None /\ queued' = queued /\ asked' = asked
            \/ /\ queued # None /\ queued' = None
               /\ asked'.last = asked.last /\ asked'.taken = queued
        BY <1>0, <3>2, EndFacts
      <4> QED
        BY <4>1 DEF QueueInv
    <3> QED
      BY <1>1, <2>2, <3>1, <3>2, RunStepFacts
  <2> QED
    BY <1>0, <2>1, <2>2
<1>2. ASSUME opt' \in SUBSET Kinds, shown' \in Snapshots \cup {None}, Ask PROVE QueueInv'
  <2>1. CASE run' = run /\ queued' = queued /\ asked' = asked
    BY <2>1 DEF QueueInv, AtWork
  <2>2. CASE AtWork("app") /\ run' = run /\ queued' \in Inputs /\ asked' = [asked EXCEPT !.last = queued']
    BY <1>0, <2>2 DEF QueueInv, AtWork, TypeOK
  <2>3. CASE ~AtWork("app") /\ queued' = queued /\ asked'.last = asked'.taken
    BY <2>3 DEF QueueInv
  <2> QED
    BY <1>2, <2>1, <2>2, <2>3, AskFacts
<1>3. ASSUME NEW kind \in Kinds, Switch(kind) PROVE QueueInv'
  BY <1>2, <1>3 DEF Switch, TypeOK
<1>4. ASSUME NEW read, Activate(read) PROVE QueueInv'
  BY <1>2, <1>4 DEF Activate, TypeOK
<1>5. ASSUME NEW f \in Forecasts, Refresh(f) PROVE QueueInv'
  <2>1. shown' \in Snapshots
    BY <1>5 DEF Refresh, TypeOK, Snapshots
  <2> QED
    BY <1>2, <1>5, <2>1 DEF Refresh, TypeOK
<1>6. ASSUME ShowStored PROVE QueueInv'
  BY <1>2, <1>6 DEF ShowStored, TypeOK
<1>7. ASSUME TaskProfile \/ TaskFails PROVE QueueInv'
  <2>1. run'["app"] = run["app"] /\ queued' = queued /\ asked' = asked
    BY <1>0, <1>7 DEF TaskProfile, TaskFails, TypeOK
  <2> QED
    BY <2>1 DEF QueueInv, AtWork
<1>8. ASSUME TaskPlans PROVE QueueInv'
  <2>1. stored' \in Snapshots \cup {None}
    BY <1>8 DEF TaskPlans, TypeOK, Snapshots
  <2>2. [on |-> run["task"].on, snapshot |-> stored'] \in Inputs
    BY <1>0, <2>1 DEF TypeOK, Runs, Inputs
  <2>3. run'["app"].step = run["app"].step
    BY <1>0, <1>8, <2>2, BeginFacts DEF TaskPlans
  <2> QED
    BY <1>8, <2>3 DEF TaskPlans, QueueInv, AtWork
<1>9. ASSUME Tick \/ UNCHANGED vars PROVE QueueInv'
  BY <1>9 DEF Tick, vars, QueueInv, AtWork
<1>10. ASSUME Crash PROVE QueueInv'
  BY <1>10 DEF Crash, QueueInv
<1> QED
  BY <1>1, <1>3, <1>4, <1>5, <1>6, <1>7, <1>8, <1>9, <1>10 DEF Next

\* The app's scheduler at rest has taken up the last thing the observer asked,
\* whichever of its runs failed.
THEOREM HeededAlways == Spec => []Heeded
<1>1. Init => QueueInv
  BY DEF Init, QueueInv
<1>2. QueueInv => Heeded
  BY DEF QueueInv, Heeded
<1> QED
  BY <1>1, <1>2, InitTypes, NextTypes, QueueStep, PTL DEF Spec

-----------------------------------------------------------------------------
(* What was announced on record is not announced again.                      *)

\* What was announced on record keeps its row, in the past of every run's clock,
\* and no run and no notification of the system holds it any more.
RecordInv ==
    \A id \in Ids :
        /\ heard[id] # "again"
        /\ heard[id] = "on record" =>
             /\ ledger[id] <= clock /\ system[id] = Never
             /\ \A s \in Schedulers : AtWork(s) =>
                  /\ ledger[id] <= run[s].now
                  /\ \A n \in run[s].todo \cup run[s].scheduled : n.id # id

\* A run that just begins holds nothing, and its clock is now.
JustBegun(s) ==
    run'[s].now = clock /\ run'[s].todo = {} /\ run'[s].scheduled = {}
AsItWas(s) ==
    /\ run'[s].step = run[s].step /\ run'[s].now = run[s].now
    /\ run'[s].todo = run[s].todo /\ run'[s].scheduled = run[s].scheduled

\* What a step of one run makes of either run.
LEMMA RunStepRuns ==
    ASSUME TypeOK, NEW s \in Schedulers, RunStep(s), NEW t \in Schedulers
    PROVE  AsItWas(t) \/ JustBegun(t) \/ ~AtWork(t)' \/ (t = s /\ GoesOn(s) /\ AtWork(s))
<1>1. CASE t # s
  BY <1>1, RunStepFacts DEF AsItWas
<1>2. CASE t = s /\ GoesOn(s)
  BY <1>2, RunStepFacts
<1>3. ASSUME t = s, NEW good \in BOOLEAN, End(s, good) PROVE JustBegun(t) \/ ~AtWork(t)'
  <2>1. run'[s] = Idle \/ (run'[s].now = clock /\ run'[s].todo = {} /\ run'[s].scheduled = {})
    BY <1>3, EndFacts
  <2> QED
    BY <1>3, <2>1, IdleFacts DEF JustBegun, AtWork
<1> QED
  BY <1>1, <1>2, <1>3, RunStepFacts

\* What is on record stays so when its row stays, nothing else gets on record,
\* the system does not get it again and each run is as it was, begins, ends or
\* goes on.
LEMMA RecordHeld ==
    ASSUME TypeOK, RecordInv, clock' = clock,
           \A id \in Ids : heard'[id] # "again" /\ (heard'[id] = "on record" => heard[id] = "on record"),
           \A id \in Ids : heard[id] = "on record" =>
               ledger'[id] = ledger[id] /\ system'[id] = Never,
           \A t \in Schedulers : AsItWas(t) \/ JustBegun(t) \/ ~AtWork(t)' \/ (GoesOn(t) /\ AtWork(t))
    PROVE  RecordInv'
<1>0. SUFFICES ASSUME NEW id \in Ids, heard[id] = "on record", NEW t \in Schedulers, AtWork(t)'
               PROVE  /\ ledger'[id] <= run'[t].now
                      /\ \A n \in run'[t].todo \cup run'[t].scheduled : n.id # id
  BY DEF RecordInv, AtWork
<1>1. /\ ledger'[id] = ledger[id] /\ ledger[id] <= clock
      /\ AtWork(t) => /\ ledger[id] <= run[t].now
                      /\ \A n \in run[t].todo \cup run[t].scheduled : n.id # id
  BY <1>0 DEF RecordInv
<1>2. CASE AsItWas(t)
  BY <1>0, <1>1, <1>2 DEF AsItWas, AtWork
<1>3. CASE JustBegun(t)
  BY <1>1, <1>3 DEF JustBegun
<1>4. CASE GoesOn(t) /\ AtWork(t)
  <2>1. ledger[id] \in 0 .. Never /\ clock \in 0 .. MaxTime
    BY DEF TypeOK
  <2>2. ledger[id] # Never
    BY <1>1, <2>1, NeverLate
  <2>3. id \in ListFired(run[t].now)
    BY <1>1, <1>4, <2>2 DEF ListFired, HasRow
  <2> QED
    BY <1>1, <1>4, <2>3 DEF GoesOn
<1> QED
  BY <1>0, <1>2, <1>3, <1>4

\* The same when nothing is announced.
LEMMA RecordKept ==
    ASSUME TypeOK, RecordInv, clock' = clock, heard' = heard,
           \A id \in Ids : heard[id] = "on record" =>
               ledger'[id] = ledger[id] /\ system'[id] = Never,
           \A t \in Schedulers : AsItWas(t) \/ JustBegun(t) \/ ~AtWork(t)' \/ (GoesOn(t) /\ AtWork(t))
    PROVE  RecordInv'
<1>1. \A id \in Ids : heard'[id] # "again" /\ (heard'[id] = "on record" => heard[id] = "on record")
  BY DEF RecordInv
<1> QED
  BY <1>1, RecordHeld

\* Every step keeps what is on record.
LEMMA RecordStep == TypeOK /\ RecordInv /\ [Next]_vars => RecordInv'
<1> SUFFICES ASSUME TypeOK, RecordInv, [Next]_vars PROVE RecordInv'
  OBVIOUS
<1>0. "app" \in Schedulers /\ "task" \in Schedulers /\ Schedulers = {"app", "task"}
  BY DEF Schedulers
<1>1. ASSUME NEW s \in Schedulers, RunStep(s) PROVE RecordInv'
  <2>1. AtWork(s) /\ run[s] \in Runs
    BY <1>1, RunStepFacts DEF TypeOK
  <2>2. clock' = clock /\ UNCHANGED settings
    BY <1>1 DEF RunStep, List, Cancel, CancelRefused, GiveUp, Delete, Plan, Pending, Rewrite,
                Rewritten, Save, Fails, Schedule, ScheduleRefused, settings
  <2>3. \A id \in Ids : heard[id] = "on record" =>
          /\ ledger[id] <= run[s].now /\ system[id] = Never /\ ledger[id] <= clock
          /\ \A n \in run[s].todo \cup run[s].scheduled : n.id # id
    BY <2>1 DEF RecordInv
  <2>4. CASE UNCHANGED device
    BY <1>1, <2>2, <2>3, <2>4, RunStepRuns, RecordKept DEF device
  <2>5. CASE Cancel(s)
    <3>1. \A id \in Ids : heard[id] = "on record" => ledger'[id] = ledger[id] /\ system'[id] = Never
      BY <2>3, <2>5 DEF Cancel, TypeOK
    <3> QED
      BY <1>1, <2>2, <2>5, <3>1, RunStepRuns, RecordKept DEF Cancel
  <2>6. CASE Delete(s)
    <3>1. \A id \in Ids : heard[id] = "on record" => ledger'[id] = ledger[id] /\ system'[id] = Never
      <4>1. \A id \in Ids : ledger[id] <= run[s].now => ~(ledger[id] > run[s].now)
        BY <2>1, NeverFacts DEF TypeOK, Runs
      <4> QED
        BY <2>3, <2>6, <4>1 DEF Delete, DeletePending
    <3> QED
      BY <1>1, <2>2, <2>6, <3>1, RunStepRuns, RecordKept DEF Delete
  <2>7. CASE Save(s)
    <3>1. \A id \in Ids : heard[id] = "on record" => ledger'[id] = ledger[id] /\ system'[id] = Never
      <4>1. \A id \in Ids : heard[id] = "on record" =>
              ~\E t \in 0 .. MaxTime : [id |-> id, at |-> t] \in run[s].scheduled
        BY <2>3
      <4> QED
        BY <2>3, <2>7, <4>1 DEF Save, TypeOK
    <3> QED
      BY <1>1, <2>2, <2>7, <3>1, RunStepRuns, RecordKept DEF Save
  <2>8. ASSUME NEW n \in run[s].todo, Schedule(s, n) PROVE RecordInv'
    <3>1. n \in Notifications
      BY <2>1 DEF Runs
    <3>2. \A id \in Ids : heard[id] = "on record" => n.id # id
      BY <2>3
    <3>3. \A id \in Ids : heard[id] = "on record" => ledger'[id] = ledger[id] /\ system'[id] = Never
      BY <2>3, <2>8, <3>1, <3>2 DEF Schedule, TypeOK, Notifications
    <3>4. CASE heard' = heard
      BY <1>1, <2>2, <3>3, <3>4, RunStepRuns, RecordKept
    <3>5. CASE heard' = [heard EXCEPT ![n.id] = Hearing(heard[n.id], FALSE)]
      <4>1. n.id \in Ids /\ heard[n.id] # "on record"
        BY <3>1, <3>2 DEF Notifications
      <4>2. heard' = [heard EXCEPT ![n.id] = "off record"]
        BY <3>5, <4>1 DEF Hearing
      <4>3. \A id \in Ids : /\ heard'[id] # "again"
                            /\ heard'[id] = "on record" => heard[id] = "on record"
        BY <4>1, <4>2 DEF RecordInv, TypeOK
      <4> QED
        BY <1>1, <2>2, <3>3, <4>3, RunStepRuns, RecordHeld
    <3> QED
      BY <2>8, <3>4, <3>5 DEF Schedule
  <2>9. \/ UNCHANGED device \/ Cancel(s) \/ Delete(s) \/ Save(s)
        \/ \E n \in run[s].todo : Schedule(s, n)
    BY <1>1 DEF RunStep, List, CancelRefused, GiveUp, Plan, Pending, Rewrite, Rewritten, Fails,
                ScheduleRefused
  <2> QED
    BY <2>4, <2>5, <2>6, <2>7, <2>8, <2>9
<1>2. ASSUME opt' \in SUBSET Kinds, shown' \in Snapshots \cup {None}, Ask, UNCHANGED <<clock, device>>
      PROVE RecordInv'
  <2>1. \A t \in Schedulers : AsItWas(t) \/ JustBegun(t)
    BY <1>0, <1>2, AskFacts DEF AsItWas, JustBegun
  <2> QED
    BY <1>2, <2>1, RecordKept DEF device, RecordInv
<1>3. ASSUME NEW kind \in Kinds, Switch(kind) PROVE RecordInv'
  BY <1>2, <1>3 DEF Switch, TypeOK, device
<1>4. ASSUME NEW read, Activate(read) PROVE RecordInv'
  BY <1>2, <1>4 DEF Activate, TypeOK, device
<1>5. ASSUME NEW f \in Forecasts, Refresh(f) PROVE RecordInv'
  <2>1. shown' \in Snapshots
    BY <1>5 DEF Refresh, TypeOK, Snapshots
  <2> QED
    BY <1>2, <1>5, <2>1 DEF Refresh, TypeOK, device
<1>6. ASSUME ShowStored PROVE RecordInv'
  BY <1>2, <1>6 DEF ShowStored, TypeOK, device
<1>7. ASSUME TaskProfile \/ TaskFails PROVE RecordInv'
  <2>1. ~AtWork("task")' /\ run'["app"] = run["app"] /\ UNCHANGED <<clock, device>>
    BY <1>0, <1>7, IdleFacts DEF TaskProfile, TaskFails, TypeOK, AtWork, settings, Runs
  <2>2. \A t \in Schedulers : AsItWas(t) \/ ~AtWork(t)'
    BY <1>0, <2>1 DEF AsItWas
  <2> QED
    BY <2>1, <2>2, RecordKept DEF device, RecordInv
<1>8. ASSUME TaskPlans PROVE RecordInv'
  <2>1. stored' \in Snapshots \cup {None}
    BY <1>8 DEF TaskPlans, TypeOK, Snapshots
  <2>2. [on |-> run["task"].on, snapshot |-> stored'] \in Inputs
    BY <1>0, <2>1 DEF TypeOK, Runs, Inputs
  <2>3. \A t \in Schedulers : AsItWas(t) \/ JustBegun(t)
    BY <1>0, <1>8, <2>2, BeginFacts DEF TaskPlans, AsItWas, JustBegun
  <2> QED
    BY <1>8, <2>3, RecordKept DEF TaskPlans, device, RecordInv
<1>9. ASSUME Tick PROVE RecordInv'
  <2> DEFINE due == {id \in Ids : system[id] <= clock + 1}
             settled == \A s \in Schedulers : ~AtWork(s)
  <2>1. /\ clock' = clock + 1 /\ run' = run /\ ledger' = ledger /\ clock \in 0 .. MaxTime
        /\ clock < MaxTime
    BY <1>9 DEF Tick, TypeOK
  <2>2. \A id \in Ids : heard[id] = "on record" => id \notin due
    <3>1. clock + 1 \in 0 .. MaxTime
      BY <2>1, NeverFacts
    <3>2. ~(Never <= clock + 1)
      BY <3>1, NeverLate
    <3> QED
      BY <3>2 DEF RecordInv
  <2>3. \A id \in Ids :
          /\ system'[id] = IF id \in due THEN Never ELSE system[id]
          /\ heard'[id] = IF id \in due THEN Hearing(heard[id], settled /\ ledger[id] = system[id])
                          ELSE heard[id]
    BY <1>9 DEF Tick
  <2>4. ASSUME NEW id \in Ids, id \in due
        PROVE  /\ heard'[id] # "again" /\ system'[id] = Never
               /\ heard'[id] = "on record" => settled /\ ledger[id] <= clock + 1
    BY <2>2, <2>3, <2>4 DEF Hearing, RecordInv
  <2>5. ASSUME NEW id \in Ids, id \notin due
        PROVE  heard'[id] = heard[id] /\ system'[id] = system[id]
    BY <2>3, <2>5
  <2>6. \A id \in Ids : ledger[id] <= clock => ledger[id] <= clock + 1
    BY <2>1, NeverFacts DEF TypeOK
  <2> HIDE DEF due, settled
  <2>7. ASSUME NEW id \in Ids
        PROVE /\ heard'[id] # "again"
              /\ heard'[id] = "on record" =>
                   /\ ledger'[id] <= clock' /\ system'[id] = Never
                   /\ \A s \in Schedulers : AtWork(s)' =>
                        /\ ledger'[id] <= run'[s].now
                        /\ \A n \in run'[s].todo \cup run'[s].scheduled : n.id # id
    <3>1. CASE id \in due
      BY <2>1, <2>4, <3>1 DEF settled, AtWork
    <3>2. CASE id \notin due
      BY <2>1, <2>5, <2>6, <3>2 DEF RecordInv, AtWork
    <3> QED
      BY <3>1, <3>2
  <2> QED
    BY <2>7 DEF RecordInv
<1>10. ASSUME Crash PROVE RecordInv'
  <2>1. \A t \in Schedulers : ~AtWork(t)'
    BY <1>10, IdleFacts DEF Crash, AtWork
  <2>2. UNCHANGED <<clock, device>>
    BY <1>10 DEF Crash
  <2> QED
    BY <2>1, <2>2, RecordKept DEF device, RecordInv
<1>11. ASSUME UNCHANGED vars PROVE RecordInv'
  BY <1>11 DEF vars, RecordInv, AtWork
<1> QED
  BY <1>1, <1>3, <1>4, <1>5, <1>6, <1>7, <1>8, <1>9, <1>10, <1>11 DEF Next

\* What was announced while no run was under way and its row was in the ledger
\* is never announced again, whatever overlaps, fails or ends afterwards.
THEOREM AnnouncedOnceAlways == Spec => []AnnouncedOnce
<1>1. Init => RecordInv
  BY DEF Init, RecordInv
<1>2. RecordInv => AnnouncedOnce
  BY DEF RecordInv, AnnouncedOnce
<1> QED
  BY <1>1, <1>2, InitTypes, NextTypes, RecordStep, PTL DEF Spec

-----------------------------------------------------------------------------
(* A kind that was switched off stays silent.                                *)

LateSteps == {"fired", "schedule", "save", "pending", "rewriting", "rewrite"}

\* What the run of s has taken back of the kinds that are off: all that is not
\* left to cancel, and everything once it has gone past the cancellation.
TakenBack(s) ==
    \A id \in Ids : NotificationKind(id) \notin run[s].on =>
        /\ run[s].step = "cancel" /\ run[s].cancelled /\ system[id] # Never => id \in run[s].left
        /\ run[s].step = "delete" /\ run[s].cancelled => system[id] = Never
        /\ run[s].step \in LateSteps => system[id] = Never

\* A run hands over only kinds it was asked for; a silent kind is asked for by
\* nobody; and an app's run with no other beside it takes back what is off.
OptInv ==
    /\ \A id \in Ids : NotificationKind(id) \in silent => system[id] = Never
    /\ \A k \in silent : k \notin opt /\ \A s \in Schedulers : k \notin run[s].on
    /\ \A s \in Schedulers :
         /\ \A n \in run[s].todo : NotificationKind(n.id) \in run[s].on
         /\ ~AtWork(s) => run[s].todo = {}
    /\ queued # None => queued.on \subseteq opt
    /\ run["app"].alone /\ AtWork("app") => ~AtWork("task") /\ TakenBack("app")

\* The run of s goes on with the same kinds and hands over none that is off.
Keeps(s) ==
    /\ run'[s].on = run[s].on /\ run'[s].alone = run[s].alone /\ AtWork(s)'
    /\ queued' = queued /\ silent' = silent
    /\ \A n \in run'[s].todo : NotificationKind(n.id) \in run[s].on

\* The steps that change only the run of s, whose record becomes r.
LEMMA KeepsOn ==
    ASSUME TypeOK, NEW s \in Schedulers, NEW r \in Runs, run' = [run EXCEPT ![s] = r],
           r.on = run[s].on, r.alone = run[s].alone, r.step \notin {"idle", "profile"},
           UNCHANGED <<queued, silent>>,
           \A n \in r.todo : NotificationKind(n.id) \in run[s].on
    PROVE  Keeps(s) /\ run'[s] = r
<1>1. run'[s] = r
  BY DEF TypeOK
<1> QED
  BY <1>1 DEF Keeps, AtWork

\* Every kind is one the run was asked for or one it cancels.
LEMMA CancelsOff ==
    ASSUME NEW r, NEW id \in Ids, NotificationKind(id) \notin r.on
    PROVE  NotificationKind(id) \in ToCancel(r)
BY DEF ToCancel, NotificationKind, Kinds

\* A run that begins has nothing to take back only when every kind is on.
LEMMA NewRunTakesBack ==
    ASSUME TypeOK, NEW input \in Inputs, NEW alone \in BOOLEAN, NEW wasCalm \in BOOLEAN
    PROVE  LET r == NewRun(input, alone, wasCalm)
           IN  r.alone = alone /\ (r.step = "pending" => r.on = Kinds)
<1> DEFINE r == [Idle EXCEPT !.on = input.on, !.snapshot = input.snapshot, !.now = clock,
                             !.alone = alone, !.wasCalm = wasCalm]
<1>1. input.on \in SUBSET Kinds
  BY DEF Inputs
<1>2. r.on = input.on /\ r.alone = alone
  BY DEF Idle
<1>3. ToCancel(r) = {} => r.on = Kinds
  BY <1>1, <1>2 DEF ToCancel, Kinds
<1> HIDE DEF r
<1>4. r \in Runs
  BY <1>1, IdleFacts DEF r, Runs, TypeOK, Inputs
<1>5. PICK step \in {"pending", "list"} :
        /\ NewRun(input, alone, wasCalm) = [r EXCEPT !.step = step]
        /\ step = "pending" => ToCancel(r) = {}
  BY DEF NewRun, r
<1> QED
  BY <1>2, <1>3, <1>4, <1>5 DEF Runs

\* What a run that begins is asked for, and whether it is alone.
LEMMA BeginOpt ==
    ASSUME TypeOK, NEW s \in Schedulers, NEW input \in Inputs, Begin(s, input)
    PROVE  /\ run'[s].on = input.on /\ run'[s].todo = {} /\ AtWork(s)'
           /\ run'[s].alone => ~AtWork(Other(s))
           /\ run'[s].step = "pending" => run'[s].on = Kinds
           /\ run'[s].step \in {"pending", "list"}
           /\ run'[Other(s)].on = run[Other(s)].on /\ run'[Other(s)].todo = run[Other(s)].todo
           /\ run'[Other(s)].step = run[Other(s)].step
           /\ run'[Other(s)].alone => ~AtWork(Other(s))
<1> DEFINE t == Other(s)
<1>1. t \in Schedulers /\ t # s
  BY DEF Other, Schedulers
<1>2. PICK free \in BOOLEAN : free = ~AtWork(t)
  BY DEF AtWork
<1>3. calm \in BOOLEAN /\ run \in [Schedulers -> Runs] /\ run[t] \in Runs
  BY <1>1 DEF TypeOK
<1>4. run' = [run EXCEPT ![s] = NewRun(input, free, calm), ![t].alone = run[t].alone /\ free]
  BY <1>1, <1>2, <1>3 DEF Begin
<1>5. /\ run'[s] = NewRun(input, free, calm)
      /\ run'[t] = [run[t] EXCEPT !.alone = run[t].alone /\ free]
  BY <1>1, <1>3, <1>4
<1>6. /\ run'[t].on = run[t].on /\ run'[t].todo = run[t].todo /\ run'[t].step = run[t].step
      /\ run'[t].alone = (run[t].alone /\ free)
  BY <1>3, <1>5 DEF Runs
<1>7. /\ NewRun(input, free, calm).on = input.on /\ NewRun(input, free, calm).todo = {}
      /\ NewRun(input, free, calm).step \in {"pending", "list"}
      /\ NewRun(input, free, calm).alone = free
      /\ NewRun(input, free, calm).step = "pending" => NewRun(input, free, calm).on = Kinds
  BY <1>3, NewRunFacts, NewRunTakesBack
<1> QED
  BY <1>2, <1>5, <1>6, <1>7 DEF AtWork

\* What the end of a run makes silent, and what the run after it is asked for.
LEMMA EndOpt ==
    ASSUME TypeOK, NEW s \in Schedulers, NEW good \in BOOLEAN, End(s, good)
    PROVE  /\ silent' = silent
              \/ /\ s = "app" /\ good /\ run[s].alone
                 /\ silent' = silent \cup (Kinds \ (run[s].on \cup opt \cup run["task"].on))
           /\ \/ run'[s] = Idle /\ queued' = queued
              \/ /\ s = "app" /\ queued # None /\ queued' = None /\ run'[s].on = queued.on
                 /\ run'[s].todo = {} /\ AtWork(s)'
                 /\ run'[s].alone => ~AtWork("task")
                 /\ run'[s].step \in {"pending", "list"}
                 /\ run'[s].step = "pending" => run'[s].on = Kinds
<1> DEFINE r == run[s]
           rest == good /\ r.alone /\ (Replans(r.on, r.snapshot, r.now) \/ r.wasCalm)
           next == s = "app" /\ queued # None
<1>1. run[s] \in Runs /\ run \in [Schedulers -> Runs]
  BY DEF TypeOK
<1>2. PICK free \in BOOLEAN : free = ~AtWork("task")
  BY DEF AtWork
<1>3. PICK was \in BOOLEAN : was = rest
  BY <1>1 DEF Runs
<1>4. /\ run' = [run EXCEPT ![s] = IF next THEN NewRun(queued, free, was) ELSE Idle]
      /\ queued' = IF next THEN None ELSE queued
      /\ silent' = IF s = "app" /\ good /\ r.alone
                   THEN silent \cup (Kinds \ (r.on \cup opt \cup run["task"].on)) ELSE silent
  BY <1>2, <1>3 DEF End, EndTaking
<1>5. CASE next
  <2>1. queued \in Inputs
    BY <1>5 DEF TypeOK
  <2>2. run'[s] = NewRun(queued, free, was)
    BY <1>1, <1>4, <1>5
  <2>3. /\ NewRun(queued, free, was).on = queued.on /\ NewRun(queued, free, was).todo = {}
        /\ NewRun(queued, free, was).step \in {"pending", "list"}
        /\ NewRun(queued, free, was).alone = free
        /\ NewRun(queued, free, was).step = "pending" => NewRun(queued, free, was).on = Kinds
    BY <2>1, NewRunFacts, NewRunTakesBack
  <2> QED
    BY <1>2, <1>4, <1>5, <2>2, <2>3 DEF AtWork
<1>6. CASE ~next
  BY <1>1, <1>4, <1>6
<1> QED
  BY <1>5, <1>6

\* A step of a run: it goes on, taking back and handing over as it should, or
\* ends; when it ends well, all that is off has been taken back.
LEMMA RunStepOpt ==
    ASSUME TypeOK, NEW s \in Schedulers, RunStep(s),
           \A n \in run[s].todo : NotificationKind(n.id) \in run[s].on
    PROVE  \/ /\ Keeps(s) /\ (TakenBack(s) => TakenBack(s)')
              /\ \A id \in Ids : NotificationKind(id) \notin run[s].on /\ system[id] = Never
                                     => system'[id] = Never
           \/ /\ system' = system
              /\ \E good \in BOOLEAN :
                   /\ End(s, good)
                   /\ good /\ TakenBack(s) =>
                        \A id \in Ids : NotificationKind(id) \notin run[s].on => system[id] = Never
<1> DEFINE Goal ==
      /\ Keeps(s) /\ (TakenBack(s) => TakenBack(s)')
      /\ \A id \in Ids : NotificationKind(id) \notin run[s].on /\ system[id] = Never
                             => system'[id] = Never
    Done == \A id \in Ids : NotificationKind(id) \notin run[s].on => system[id] = Never
<1>0. run[s] \in Runs /\ run \in [Schedulers -> Runs]
  BY DEF TypeOK
<1>1. ASSUME List(s) PROVE Goal
  <2> DEFINE found == {id \in Ids : system[id] # Never /\ NotificationKind(id) \in ToCancel(run[s])}
  <2>1. PICK step \in {"delete", "cancel"} :
          /\ run' = [run EXCEPT ![s] = [run[s] EXCEPT !.left = found, !.step = step]]
          /\ step = "delete" => found = {}
    BY <1>0, <1>1 DEF List
  <2> DEFINE r == [run[s] EXCEPT !.left = found, !.step = step]
  <2>2. /\ r \in Runs /\ r.on = run[s].on /\ r.alone = run[s].alone /\ r.step = step
        /\ r.todo = run[s].todo /\ r.left = found
    BY <1>0 DEF Runs, Steps
  <2> HIDE DEF r
  <2>3. run' = [run EXCEPT ![s] = r] /\ UNCHANGED <<queued, silent>> /\ system' = system
    BY <1>1, <2>1 DEF r, List, device
  <2>4. Keeps(s) /\ run'[s] = r
    BY <2>2, <2>3, KeepsOn
  <2>5. \A id \in Ids : NotificationKind(id) \notin r.on /\ system[id] # Never => id \in found
    BY <2>2, CancelsOff
  <2> HIDE DEF found
  <2>6. TakenBack(s)'
    BY <2>1, <2>2, <2>3, <2>4, <2>5 DEF TakenBack, LateSteps
  <2> QED
    BY <2>3, <2>4, <2>6
<1>2. ASSUME Cancel(s) \/ CancelRefused(s) PROVE Goal
  <2>1. PICK id \in run[s].left :
          LET left == run[s].left \ {id}
              step == IF run[s].left = {id} THEN "delete" ELSE "cancel"
          IN  \/ /\ run' = [run EXCEPT ![s] = [run[s] EXCEPT !.left = left, !.step = step]]
                 /\ system' = [system EXCEPT ![id] = Never]
              \/ /\ run' = [run EXCEPT ![s] = [run[s] EXCEPT !.left = left, !.cancelled = FALSE,
                                                             !.step = step]]
                 /\ system' = system
    BY <1>0, <1>2 DEF Cancel, CancelRefused, device
  <2>2. PICK step \in {"delete", "cancel"}, left \in SUBSET Ids :
          /\ left = run[s].left \ {id} /\ (step = "delete" => left = {})
          /\ \/ /\ run' = [run EXCEPT ![s] = [run[s] EXCEPT !.left = left, !.step = step]]
                /\ system' = [system EXCEPT ![id] = Never]
             \/ /\ run' = [run EXCEPT ![s] = [run[s] EXCEPT !.left = left, !.cancelled = FALSE,
                                                            !.step = step]]
                /\ system' = system
    BY <1>0, <2>1 DEF Runs
  <2>3. run[s].step = "cancel" /\ UNCHANGED <<queued, silent>>
    BY <1>2 DEF Cancel, CancelRefused
  <2>4. CASE /\ run' = [run EXCEPT ![s] = [run[s] EXCEPT !.left = left, !.step = step]]
             /\ system' = [system EXCEPT ![id] = Never]
    <3> DEFINE r == [run[s] EXCEPT !.left = left, !.step = step]
    <3>1. /\ r \in Runs /\ r.on = run[s].on /\ r.alone = run[s].alone /\ r.step = step
          /\ r.todo = run[s].todo /\ r.left = left /\ r.cancelled = run[s].cancelled
      BY <1>0 DEF Runs, Steps
    <3> HIDE DEF r
    <3>2. Keeps(s) /\ run'[s] = r
      BY <2>3, <2>4, <3>1, KeepsOn DEF r
    <3>3. \A i \in Ids : system'[i] = IF i = id THEN Never ELSE system[i]
      BY <2>4 DEF TypeOK
    <3>4. TakenBack(s) => TakenBack(s)'
      BY <2>2, <2>3, <3>1, <3>2, <3>3 DEF TakenBack, LateSteps
    <3> QED
      BY <3>2, <3>3, <3>4
  <2>5. CASE /\ run' = [run EXCEPT ![s] = [run[s] EXCEPT !.left = left, !.cancelled = FALSE, !.step = step]]
             /\ system' = system
    <3> DEFINE r == [run[s] EXCEPT !.left = left, !.cancelled = FALSE, !.step = step]
    <3>1. /\ r \in Runs /\ r.on = run[s].on /\ r.alone = run[s].alone /\ r.step = step
          /\ r.todo = run[s].todo /\ ~r.cancelled
      BY <1>0 DEF Runs, Steps
    <3> HIDE DEF r
    <3>2. Keeps(s) /\ run'[s] = r
      BY <2>3, <2>5, <3>1, KeepsOn DEF r
    <3>3. TakenBack(s)'
      BY <3>1, <3>2 DEF TakenBack, LateSteps
    <3> QED
      BY <2>5, <3>2, <3>3
  <2> QED
    BY <2>2, <2>4, <2>5
<1>3. ASSUME NEW r \in Runs, run' = [run EXCEPT ![s] = r], r.on = run[s].on, r.alone = run[s].alone,
             r.step \in LateSteps, UNCHANGED <<queued, silent>>,
             \A n \in r.todo : NotificationKind(n.id) \in run[s].on,
             \A id \in Ids : NotificationKind(id) \notin run[s].on => system'[id] = system[id],
             run[s].step \in LateSteps \/ (run[s].step = "delete" /\ run[s].cancelled)
      PROVE  Goal
  <2>1. Keeps(s) /\ run'[s] = r
    BY <1>3, KeepsOn DEF LateSteps
  <2>2. TakenBack(s) => TakenBack(s)'
    BY <1>3, <2>1 DEF TakenBack, LateSteps
  <2> QED
    BY <1>3, <2>1, <2>2
<1> HIDE DEF Goal
<1>4. ASSUME Delete(s), ~End(s, TRUE) PROVE Goal
  <2>1. PICK step \in {"fired", "pending"} : run' = [run EXCEPT ![s] = [run[s] EXCEPT !.step = step]]
    BY <1>0, <1>4 DEF Delete, To
  <2>2. UNCHANGED <<queued, silent, system>> /\ run[s].step = "delete" /\ run[s].cancelled
    BY <1>4 DEF Delete, AllCancelled
  <2> DEFINE r == [run[s] EXCEPT !.step = step]
  <2>3. r \in Runs /\ r.on = run[s].on /\ r.alone = run[s].alone /\ r.step = step /\ r.todo = run[s].todo
    BY <1>0 DEF Runs, Steps
  <2> HIDE DEF r
  <2> QED
    BY <1>3, <2>1, <2>2, <2>3 DEF r, LateSteps
<1>5. ASSUME Plan(s) PROVE Goal
  <2> DEFINE plan == PlannedNotifications(s, run[s].on, run[s].snapshot.of, run[s].now, ListFired(run[s].now))
  <2>1. PICK step \in {"save", "schedule"} :
          run' = [run EXCEPT ![s] = [run[s] EXCEPT !.todo = plan, !.step = step]]
    BY <1>0, <1>5 DEF Plan
  <2>2. plan \in SUBSET Notifications /\ \A n \in plan : NotificationKind(n.id) \in run[s].on
    BY DEF PlannedNotifications
  <2>3. UNCHANGED <<queued, silent, system>> /\ run[s].step = "fired"
    BY <1>5 DEF Plan, device
  <2> HIDE DEF plan
  <2> DEFINE r == [run[s] EXCEPT !.todo = plan, !.step = step]
  <2>4. r \in Runs /\ r.on = run[s].on /\ r.alone = run[s].alone /\ r.step = step /\ r.todo = plan
    BY <1>0, <2>2 DEF Runs, Steps
  <2> HIDE DEF r
  <2> QED
    BY <1>3, <2>1, <2>2, <2>3, <2>4 DEF r, LateSteps
<1>6. ASSUME Pending(s), ~End(s, TRUE) PROVE Goal
  <2> DEFINE rows == ListPending(run[s].now)
  <2>1. /\ run' = [run EXCEPT ![s] = [run[s] EXCEPT !.scheduled = rows, !.step = "rewriting"]]
        /\ UNCHANGED <<queued, silent, system>> /\ run[s].step = "pending"
    BY <1>0, <1>6 DEF Pending, device
  <2>2. rows \in SUBSET Notifications
    BY <1>0, PendingRows DEF Runs
  <2> HIDE DEF rows
  <2> DEFINE r == [run[s] EXCEPT !.scheduled = rows, !.step = "rewriting"]
  <2>3. /\ r \in Runs /\ r.on = run[s].on /\ r.alone = run[s].alone /\ r.step = "rewriting"
        /\ r.todo = run[s].todo
    BY <1>0, <2>2 DEF Runs, Steps
  <2> HIDE DEF r
  <2> QED
    BY <1>3, <2>1, <2>3 DEF r, LateSteps
<1>7. ASSUME Rewrite(s) PROVE Goal
  <2>1. PICK todo \in SUBSET run[s].scheduled :
          /\ run' = [run EXCEPT ![s] = [run[s] EXCEPT !.todo = todo, !.step = "rewrite"]]
          /\ \A n \in todo : NotificationKind(n.id) \in run[s].on
    <3>1. PICK source \in {run[s].snapshot} \cup (IF stored.at > run[s].snapshot.at THEN {stored} ELSE {}) :
            run' = [run EXCEPT ![s].todo = {n \in run[s].scheduled :
                        \E m \in PlannedNotifications(s, run[s].on, source.of, run[s].now,
                                                     ListFired(run[s].now)) : m.id = n.id},
                               ![s].step = "rewrite"]
      BY <1>7 DEF Rewrite
    <3> DEFINE plan == PlannedNotifications(s, run[s].on, source.of, run[s].now, ListFired(run[s].now))
               todo == {n \in run[s].scheduled : \E m \in plan : m.id = n.id}
    <3>2. \A m \in plan : NotificationKind(m.id) \in run[s].on
      BY DEF PlannedNotifications
    <3>3. run' = [run EXCEPT ![s] = [run[s] EXCEPT !.todo = todo, !.step = "rewrite"]]
      BY <1>0, <3>1
    <3> HIDE DEF plan
    <3>4. todo \in SUBSET run[s].scheduled /\ \A n \in todo : NotificationKind(n.id) \in run[s].on
      BY <3>2
    <3> QED
      BY <3>3, <3>4
  <2>2. UNCHANGED <<queued, silent, system>> /\ run[s].step = "rewriting"
    BY <1>7 DEF Rewrite, device
  <2> DEFINE r == [run[s] EXCEPT !.todo = todo, !.step = "rewrite"]
  <2>3. r \in Runs /\ r.on = run[s].on /\ r.alone = run[s].alone /\ r.step = "rewrite" /\ r.todo = todo
    BY <1>0, <2>1 DEF Runs, Steps
  <2> HIDE DEF r
  <2> QED
    BY <1>3, <2>1, <2>2, <2>3 DEF r, LateSteps
<1>8. ASSUME NEW n \in run[s].todo, Schedule(s, n) \/ ScheduleRefused(s, n) PROVE Goal
  <2>0. n \in Notifications /\ n.id \in Ids
    BY <1>0 DEF Runs, Notifications
  <2>1. PICK scheduled \in SUBSET Notifications, step \in {"save", run[s].step} :
          run' = [run EXCEPT ![s] = [run[s] EXCEPT !.todo = run[s].todo \ {n},
                                                   !.scheduled = scheduled, !.step = step]]
    <3>1. CASE Schedule(s, n)
      <4>1. run[s].scheduled \in SUBSET Notifications
        BY <1>0 DEF Runs
      <4>2. PICK scheduled \in {run[s].scheduled, run[s].scheduled \cup {n}}, step \in {"save", run[s].step} :
              run' = [run EXCEPT ![s] = [run[s] EXCEPT !.todo = run[s].todo \ {n},
                                                       !.scheduled = scheduled, !.step = step]]
        BY <1>0, <3>1 DEF Schedule
      <4> QED
        BY <2>0, <4>1, <4>2
    <3>2. CASE ScheduleRefused(s, n)
      <4>1. PICK step \in {"save", run[s].step} :
              run' = [run EXCEPT ![s] = [run[s] EXCEPT !.todo = run[s].todo \ {n}, !.step = step]]
        BY <1>0, <3>2 DEF ScheduleRefused
      <4>2. [run[s] EXCEPT !.todo = run[s].todo \ {n}, !.step = step]
              = [run[s] EXCEPT !.todo = run[s].todo \ {n}, !.scheduled = run[s].scheduled, !.step = step]
        BY <1>0 DEF Runs
      <4> QED
        BY <1>0, <4>1, <4>2 DEF Runs
    <3> QED
      BY <1>8, <3>1, <3>2
  <2>2. UNCHANGED <<queued, silent>> /\ run[s].step \in {"schedule", "rewrite"}
    BY <1>8 DEF Schedule, ScheduleRefused
  <2>3. \A id \in Ids : NotificationKind(id) \notin run[s].on => system'[id] = system[id]
    BY <1>8, <2>0 DEF Schedule, ScheduleRefused, device, TypeOK
  <2> DEFINE r == [run[s] EXCEPT !.todo = run[s].todo \ {n}, !.scheduled = scheduled, !.step = step]
  <2>4. /\ r \in Runs /\ r.on = run[s].on /\ r.alone = run[s].alone /\ r.step = step
        /\ r.todo = run[s].todo \ {n}
    BY <1>0, <2>1, <2>2 DEF Runs, Steps
  <2> HIDE DEF r
  <2> QED
    BY <1>3, <2>1, <2>2, <2>3, <2>4 DEF r, LateSteps
<1>9. ASSUME End(s, FALSE), system' = system
      PROVE  /\ system' = system
             /\ \E good \in BOOLEAN : End(s, good) /\ (good /\ TakenBack(s) => Done)
  BY <1>9
<1>10. ASSUME End(s, TRUE), system' = system,
              run[s].step \in LateSteps \/ (run[s].step = "delete" /\ run[s].cancelled)
       PROVE  /\ system' = system
              /\ \E good \in BOOLEAN : End(s, good) /\ (good /\ TakenBack(s) => Done)
  <2>1. TakenBack(s) => Done
    BY <1>10 DEF TakenBack
  <2> QED
    BY <1>10, <2>1
<1> HIDE DEF Done
<1>11. CASE GiveUp(s) \/ Fails(s)
  BY <1>9, <1>11 DEF GiveUp, Fails, device, Done
<1>12. CASE Delete(s) /\ End(s, TRUE)
  BY <1>10, <1>12 DEF Delete, AllCancelled, Done
<1>13. CASE Pending(s) /\ End(s, TRUE)
  BY <1>10, <1>13 DEF Pending, LateSteps, device, Done
<1>14. CASE Rewritten(s) \/ Save(s)
  BY <1>10, <1>14 DEF Rewritten, Save, LateSteps, device, Done
<1>15. CASE Goal
  BY <1>15 DEF Goal
<1> QED
  BY <1>1, <1>2, <1>4, <1>5, <1>6, <1>7, <1>8, <1>11, <1>12, <1>13, <1>14, <1>15 DEF RunStep

\* Every step keeps the invariant of the opt-outs.
LEMMA OptStep == TypeOK /\ QueueInv /\ OptInv /\ [Next]_vars => OptInv'
<1> SUFFICES ASSUME TypeOK, QueueInv, OptInv, [Next]_vars PROVE OptInv'
  OBVIOUS
<1>0. /\ "app" \in Schedulers /\ "task" \in Schedulers /\ Schedulers = {"app", "task"}
      /\ Other("app") = "task" /\ Other("task") = "app"
      /\ Idle.on = {} /\ Idle.todo = {} /\ Idle.step = "idle"
      /\ run \in [Schedulers -> Runs] /\ opt \in SUBSET Kinds
  BY DEF Schedulers, Other, Idle, TypeOK
<1>1. ASSUME NEW s \in Schedulers, RunStep(s) PROVE OptInv'
  <2>1. /\ AtWork(s) /\ opt' = opt /\ \A t \in Schedulers \ {s} : run'[t] = run[t]
    BY <1>1, RunStepFacts DEF RunStep, List, Cancel, CancelRefused, GiveUp, Delete, Plan, Pending,
          Rewrite, Rewritten, Save, Fails, Schedule, ScheduleRefused, settings
  <2>2. \A n \in run[s].todo : NotificationKind(n.id) \in run[s].on
    BY DEF OptInv
  <2>3. CASE /\ Keeps(s) /\ (TakenBack(s) => TakenBack(s)')
             /\ \A id \in Ids : NotificationKind(id) \notin run[s].on /\ system[id] = Never
                                    => system'[id] = Never
    <3>1. \A id \in Ids : NotificationKind(id) \in silent' => system'[id] = Never
      BY <1>0, <2>3 DEF OptInv, Keeps
    <3>2. \A k \in silent' : k \notin opt' /\ \A t \in Schedulers : k \notin run'[t].on
      BY <2>1, <2>3 DEF OptInv, Keeps
    <3>3. \A t \in Schedulers : /\ \A n \in run'[t].todo : NotificationKind(n.id) \in run'[t].on
                                /\ ~AtWork(t)' => run'[t].todo = {}
      BY <2>1, <2>3 DEF OptInv, Keeps, AtWork
    <3>4. queued' # None => queued'.on \subseteq opt'
      BY <2>1, <2>3 DEF OptInv, Keeps
    <3>5. run'["app"].alone /\ AtWork("app")' => ~AtWork("task")' /\ TakenBack("app")'
      BY <1>0, <2>1, <2>3 DEF OptInv, Keeps, AtWork
    <3> QED
      BY <3>1, <3>2, <3>3, <3>4, <3>5 DEF OptInv
  <2>4. ASSUME system' = system, NEW good \in BOOLEAN, End(s, good),
               good /\ TakenBack(s) =>
                   \A id \in Ids : NotificationKind(id) \notin run[s].on => system[id] = Never
        PROVE  OptInv'
    <3>1. /\ silent' = silent
             \/ /\ s = "app" /\ good /\ run[s].alone
                /\ silent' = silent \cup (Kinds \ (run[s].on \cup opt \cup run["task"].on))
          /\ \/ run'[s] = Idle /\ queued' = queued
             \/ /\ s = "app" /\ queued # None /\ queued' = None /\ run'[s].on = queued.on
                /\ run'[s].todo = {} /\ AtWork(s)'
                /\ run'[s].alone => ~AtWork("task")
                /\ run'[s].step \in {"pending", "list"}
                /\ run'[s].step = "pending" => run'[s].on = Kinds
      BY <2>4, EndOpt
    <3>2. \A id \in Ids : NotificationKind(id) \in silent' => system'[id] = Never
      BY <2>1, <2>4, <3>1 DEF OptInv
    <3>3. run'[s].on \subseteq opt /\ run'[s].todo = {}
      BY <1>0, <3>1 DEF OptInv
    <3>4. \A k \in silent' : k \notin opt' /\ \A t \in Schedulers : k \notin run'[t].on
      BY <1>0, <2>1, <3>1, <3>3 DEF OptInv
    <3>5. \A t \in Schedulers : /\ \A n \in run'[t].todo : NotificationKind(n.id) \in run'[t].on
                                /\ ~AtWork(t)' => run'[t].todo = {}
      BY <2>1, <3>3 DEF OptInv, AtWork
    <3>6. queued' # None => queued'.on \subseteq opt'
      BY <2>1, <3>1 DEF OptInv
    <3>7. run'["app"].alone /\ AtWork("app")' => ~AtWork("task")' /\ TakenBack("app")'
      <4>1. CASE s = "task"
        <5>1. ~AtWork("task")' /\ run'["app"] = run["app"]
          BY <1>0, <2>1, <3>1, <4>1 DEF AtWork
        <5>2. ~(run["app"].alone /\ AtWork("app"))
          BY <2>1, <4>1 DEF OptInv
        <5> QED
          BY <5>1, <5>2 DEF AtWork
      <4>2. CASE s = "app" /\ run'[s] = Idle
        BY <1>0, <4>2 DEF AtWork
      <4>3. CASE s = "app" /\ run'[s] # Idle
        <5>1. TakenBack("app")'
          BY <3>1, <4>3 DEF TakenBack, LateSteps, NotificationKind, Kinds
        <5> QED
          BY <1>0, <2>1, <3>1, <4>3, <5>1 DEF AtWork
      <4> QED
        BY <1>0, <4>1, <4>2, <4>3
    <3> QED
      BY <3>2, <3>4, <3>5, <3>6, <3>7 DEF OptInv
  <2> QED
    BY <1>1, <2>2, <2>3, <2>4, RunStepOpt
<1>2. ASSUME opt' \in SUBSET Kinds, shown' \in Snapshots \cup {None}, Ask, system' = system,
             silent' \subseteq silent, \A k \in silent' : k \notin opt'
      PROVE  OptInv'
  <2> DEFINE cancels == opt' = {} \/ permission' = "denied"
             plans == opt' # {} /\ permission' = "granted" /\ shown' # None
             disables == opt' # Kinds
             input == [on |-> IF cancels THEN {} ELSE opt',
                       snapshot |-> IF permission' = "granted" THEN shown' ELSE None]
  <2>1. input \in Inputs /\ input.on \subseteq opt'
    BY <1>2 DEF Inputs
  <2>2. CASE ~(cancels \/ plans \/ disables)
    <3>1. UNCHANGED <<run, queued>> /\ opt' = Kinds
      BY <1>2, <2>2 DEF Ask
    <3>2. queued # None => queued.on \subseteq Kinds
      BY DEF TypeOK, Inputs
    <3> QED
      BY <1>2, <3>1, <3>2 DEF OptInv, TakenBack, AtWork
  <2>3. CASE (cancels \/ plans \/ disables) /\ AtWork("app")
    <3>1. run' = run /\ queued' = input
      BY <1>2, <2>3 DEF Ask
    <3> HIDE DEF input
    <3> QED
      BY <1>2, <2>1, <3>1 DEF OptInv, TakenBack, AtWork
  <2>4. CASE (cancels \/ plans \/ disables) /\ ~AtWork("app")
    <3>1. Begin("app", input) /\ queued' = queued /\ queued = None
      BY <1>2, <2>4 DEF Ask, QueueInv
    <3> HIDE DEF input
    <3>2. /\ run'["app"].on = input.on /\ run'["app"].todo = {} /\ AtWork("app")'
          /\ run'["app"].alone => ~AtWork("task")
          /\ run'["app"].step = "pending" => run'["app"].on = Kinds
          /\ run'["app"].step \in {"pending", "list"}
          /\ run'["task"].on = run["task"].on /\ run'["task"].todo = run["task"].todo
          /\ run'["task"].step = run["task"].step
      BY <1>0, <2>1, <3>1, BeginOpt
    <3>3. TakenBack("app")'
      BY <3>2 DEF TakenBack, LateSteps, NotificationKind, Kinds
    <3>4. \A k \in silent' : k \notin run'["app"].on /\ k \notin run'["task"].on
      BY <1>0, <1>2, <2>1, <3>2 DEF OptInv
    <3>5. \A t \in Schedulers : /\ \A n \in run'[t].todo : NotificationKind(n.id) \in run'[t].on
                                /\ ~AtWork(t)' => run'[t].todo = {}
      BY <1>0, <3>2 DEF OptInv, AtWork
    <3> QED
      BY <1>0, <1>2, <3>1, <3>2, <3>3, <3>4, <3>5 DEF OptInv, AtWork
  <2> QED
    BY <2>2, <2>3, <2>4
<1>3. ASSUME NEW kind \in Kinds, Switch(kind) PROVE OptInv'
  BY <1>2, <1>3 DEF Switch, TypeOK, device
<1>4. ASSUME NEW read, Activate(read) PROVE OptInv'
  BY <1>2, <1>4 DEF Activate, TypeOK, device, OptInv
<1>5. ASSUME NEW f \in Forecasts, Refresh(f) PROVE OptInv'
  <2>1. shown' \in Snapshots
    BY <1>5 DEF Refresh, TypeOK, Snapshots
  <2> QED
    BY <1>2, <1>5, <2>1 DEF Refresh, TypeOK, device, OptInv
<1>6. ASSUME ShowStored PROVE OptInv'
  BY <1>2, <1>6 DEF ShowStored, TypeOK, device, OptInv
<1>7. ASSUME TaskProfile \/ TaskFails PROVE OptInv'
  <2>1. /\ ~AtWork("task") /\ ~AtWork("task")' /\ run'["app"] = run["app"]
        /\ run'["task"].on \in {{}, opt} /\ run'["task"].todo \in {{}, run["task"].todo}
        /\ UNCHANGED <<opt, system, queued, silent>>
    BY <1>0, <1>7 DEF TaskProfile, TaskFails, AtWork, settings, device, Runs
  <2>2. run["task"].todo = {}
    BY <1>0, <2>1 DEF OptInv
  <2>3. \A t \in Schedulers : /\ \A n \in run'[t].todo : NotificationKind(n.id) \in run'[t].on
                              /\ ~AtWork(t)' => run'[t].todo = {}
    BY <1>0, <2>1, <2>2 DEF OptInv, AtWork
  <2>4. \A k \in silent' : k \notin opt' /\ \A t \in Schedulers : k \notin run'[t].on
    BY <1>0, <2>1 DEF OptInv
  <2>5. run'["app"].alone /\ AtWork("app")' => ~AtWork("task")' /\ TakenBack("app")'
    BY <2>1 DEF OptInv, AtWork, TakenBack
  <2> QED
    BY <2>1, <2>3, <2>4, <2>5 DEF OptInv
<1>8. ASSUME TaskPlans PROVE OptInv'
  <2>1. stored' \in Snapshots \cup {None}
    BY <1>8 DEF TaskPlans, TypeOK, Snapshots
  <2> DEFINE input == [on |-> run["task"].on, snapshot |-> stored']
  <2>2. input \in Inputs /\ input.on = run["task"].on
    BY <1>0, <2>1 DEF Runs, Inputs
  <2>3. Begin("task", input) /\ ~AtWork("task") /\ UNCHANGED <<opt, system, queued, silent>>
    BY <1>8 DEF TaskPlans, AtWork, device
  <2> HIDE DEF input
  <2>4. /\ run'["task"].on = run["task"].on /\ run'["task"].todo = {} /\ AtWork("task")'
        /\ run'["app"].on = run["app"].on /\ run'["app"].todo = run["app"].todo
        /\ run'["app"].step = run["app"].step
        /\ run'["app"].alone => ~AtWork("app")
    BY <1>0, <2>2, <2>3, BeginOpt
  <2>5. \A t \in Schedulers : /\ \A n \in run'[t].todo : NotificationKind(n.id) \in run'[t].on
                              /\ ~AtWork(t)' => run'[t].todo = {}
    BY <1>0, <2>4 DEF OptInv, AtWork
  <2>6. \A k \in silent' : k \notin opt' /\ \A t \in Schedulers : k \notin run'[t].on
    BY <1>0, <2>3, <2>4 DEF OptInv
  <2>7. ~(run'["app"].alone /\ AtWork("app")')
    BY <2>4 DEF AtWork
  <2> QED
    BY <2>3, <2>5, <2>6, <2>7 DEF OptInv
<1>9. ASSUME Tick PROVE OptInv'
  <2>1. /\ UNCHANGED <<opt, run, queued, silent>>
        /\ \A id \in Ids : system'[id] \in {system[id], Never}
    BY <1>9 DEF Tick
  <2> QED
    BY <2>1 DEF OptInv, AtWork, TakenBack
<1>10. ASSUME Crash PROVE OptInv'
  <2>1. /\ UNCHANGED <<opt, system, silent>> /\ queued' = None
        /\ \A t \in Schedulers : run'[t] = Idle
    BY <1>10 DEF Crash, device
  <2> QED
    BY <1>0, <2>1 DEF OptInv, AtWork
<1>11. ASSUME UNCHANGED vars PROVE OptInv'
  BY <1>11 DEF vars, OptInv, AtWork, TakenBack
<1> QED
  BY <1>1, <1>3, <1>4, <1>5, <1>6, <1>7, <1>8, <1>9, <1>10, <1>11 DEF Next

\* A kind that was switched off, and taken back with nothing else at work, has no
\* notification pending until it is switched on again, whatever fails meanwhile.
THEOREM OptOutHoldsAlways == Spec => []OptOutHolds
<1>1. Init => QueueInv /\ OptInv
  <2> SUFFICES ASSUME Init PROVE QueueInv /\ OptInv
    OBVIOUS
  <2>1. QueueInv /\ silent = {} /\ queued = None
    BY DEF Init, QueueInv
  <2>2. \A s \in Schedulers : run[s].todo = {} /\ ~AtWork(s)
    BY IdleFacts DEF Init, AtWork
  <2>3. "app" \in Schedulers
    BY DEF Schedulers
  <2> QED
    BY <2>1, <2>2, <2>3 DEF OptInv
<1>2. OptInv => OptOutHolds
  BY DEF OptInv, OptOutHolds
<1> QED
  BY <1>1, <1>2, InitTypes, NextTypes, QueueStep, OptStep, PTL DEF Spec

-----------------------------------------------------------------------------
(* After a run that got through alone, the system and the ledger agree.      *)

\* The system holds, of what fires at some instant, what is still to come.
Mirrors(held, fire, now) == held = IF fire > now THEN fire ELSE Never
Mirrored(sys, rows, now) == \A id \in Ids : Mirrors(sys[id], rows[id], now)

\* There is no row, or it has fired.
Over(fire, now) == fire = Never \/ fire <= now

\* A run with no other beside it.  Before the deletion: what it does not cancel
\* is as the last run left it, and what it has cancelled is gone.
CancelsAt(r, sys, rows, now) ==
    /\ ~Replans(r.on, r.snapshot, r.now) /\ r.wasCalm =>
          \A id \in Ids : NotificationKind(id) \notin ToCancel(r) => Mirrors(sys[id], rows[id], now)
    /\ r.step = "cancel" => \A id \in r.left : NotificationKind(id) \in ToCancel(r)
    /\ r.step = "cancel" /\ r.cancelled =>
          \A id \in Ids \ r.left : NotificationKind(id) \in ToCancel(r) => sys[id] = Never
    /\ r.step = "delete" /\ r.cancelled =>
          \A id \in Ids : NotificationKind(id) \in ToCancel(r) => sys[id] = Never

\* From the deletion to the save: no row is left to come, and the system holds
\* what it accepted of the plan, which names each identity once.
PlansAt(r, sys, rows, now) ==
    /\ \A id \in Ids : Over(rows[id], r.now)
    /\ \A id \in Ids : (\A n \in r.scheduled : n.id # id) => sys[id] = Never
    /\ r.step # "fired" =>
         /\ \A n \in r.scheduled : Mirrors(sys[n.id], n.at, now)
         /\ \A n, m \in r.scheduled \cup r.todo : n.id = m.id => n = m
         /\ r.scheduled \cap r.todo = {}

\* While texts are written again: each to the time its row already has.
RewritesAt(r, sys, rows, now) ==
    /\ Replans(r.on, r.snapshot, r.now) \/ r.wasCalm => Mirrored(sys, rows, now)
    /\ r.step # "pending" => \A n \in r.scheduled : rows[n.id] = n.at
    /\ r.step = "rewrite" => r.todo \subseteq r.scheduled

RunAt(r, sys, rows, now) ==
    /\ r.now <= now
    /\ r.step \in {"list", "cancel", "delete", "fired"} => r.scheduled = {}
    /\ r.step \in {"list", "cancel", "delete"} => CancelsAt(r, sys, rows, now)
    /\ r.step \in {"fired", "schedule", "save"} => PlansAt(r, sys, rows, now)
    /\ r.step \in {"pending", "rewriting", "rewrite"} => RewritesAt(r, sys, rows, now)

CalmInv ==
    /\ calm => /\ \A s \in Schedulers : ~AtWork(s)
               /\ Mirrored(system, ledger, clock)
    /\ \A s \in Schedulers : run[s].alone /\ AtWork(s) =>
          ~AtWork(Other(s)) /\ RunAt(run[s], system, ledger, clock)

\* Time that passes takes from the system what the row says has come.
LEMMA MirrorsTick ==
    ASSUME NEW held \in 0 .. Never, NEW fire \in 0 .. Never, NEW now \in 0 .. MaxTime, now < MaxTime,
           Mirrors(held, fire, now)
    PROVE  Mirrors(IF held <= now + 1 THEN Never ELSE held, fire, now + 1)
BY NeverFacts DEF Mirrors

LEMMA TickAt ==
    ASSUME TypeOK, Tick
    PROVE  /\ Mirrored(system, ledger, clock) => Mirrored(system', ledger, clock')
           /\ \A r \in Runs : RunAt(r, system, ledger, clock) => RunAt(r, system', ledger, clock')
<1>1. /\ clock' = clock + 1 /\ clock < MaxTime /\ clock \in 0 .. MaxTime
      /\ \A id \in Ids : /\ system'[id] = IF system[id] <= clock + 1 THEN Never ELSE system[id]
                         /\ system[id] \in 0 .. Never /\ ledger[id] \in 0 .. Never
  BY DEF Tick, TypeOK
<1>2. \A id \in Ids, fire \in 0 .. Never :
        /\ Mirrors(system[id], fire, clock) => Mirrors(system'[id], fire, clock')
        /\ system[id] = Never => system'[id] = Never
  BY <1>1, MirrorsTick
<1>3. Mirrored(system, ledger, clock) => Mirrored(system', ledger, clock')
  BY <1>1, <1>2 DEF Mirrored
<1>4. ASSUME NEW r \in Runs, RunAt(r, system, ledger, clock)
      PROVE  RunAt(r, system', ledger, clock')
  <2>1. r.now <= clock'
    BY <1>1, <1>4 DEF RunAt, Runs
  <2>2. CancelsAt(r, system, ledger, clock) => CancelsAt(r, system', ledger, clock')
    BY <1>1, <1>2 DEF CancelsAt
  <2>3. PlansAt(r, system, ledger, clock) => PlansAt(r, system', ledger, clock')
    <3>1. \A n \in r.scheduled : n.id \in Ids /\ n.at \in 0 .. Never
      BY NeverFacts DEF Runs, Notifications
    <3>2. \A n \in r.scheduled :
            Mirrors(system[n.id], n.at, clock) => Mirrors(system'[n.id], n.at, clock')
      BY <1>2, <3>1
    <3>3. \A id \in Ids : system[id] = Never => system'[id] = Never
      BY <1>2, NeverFacts
    <3> QED
      BY <3>2, <3>3 DEF PlansAt
  <2>4. RewritesAt(r, system, ledger, clock) => RewritesAt(r, system', ledger, clock')
    BY <1>3 DEF RewritesAt
  <2> QED
    BY <1>4, <2>1, <2>2, <2>3, <2>4 DEF RunAt
<1> QED
  BY <1>3, <1>4

\* A run that begins after a calm one finds the two as they should be.
LEMMA NewRunAt ==
    ASSUME TypeOK, NEW input \in Inputs, NEW alone \in BOOLEAN, NEW was \in BOOLEAN,
           NEW sys, NEW rows, was => Mirrored(sys, rows, clock)
    PROVE  /\ NewRun(input, alone, was) \in Runs /\ NewRun(input, alone, was).alone = alone
           /\ NewRun(input, alone, was).step \in {"pending", "list"}
           /\ RunAt(NewRun(input, alone, was), sys, rows, clock)
<1> DEFINE r == [Idle EXCEPT !.on = input.on, !.snapshot = input.snapshot, !.now = clock,
                             !.alone = alone, !.wasCalm = was]
           new == NewRun(input, alone, was)
<1>1. input.on \in SUBSET Kinds /\ input.snapshot \in Snapshots \cup {None} /\ clock \in 0 .. MaxTime
  BY DEF Inputs, TypeOK
<1>2. /\ r \in Runs /\ r.now = clock /\ r.scheduled = {} /\ r.wasCalm = was /\ r.alone = alone
  BY <1>1, IdleFacts DEF Runs
<1>3. PICK step \in {"pending", "list"} :
        new = [r EXCEPT !.step = step] /\ (step = "pending" => ToCancel(r) = {})
  BY DEF NewRun
<1> HIDE DEF r, new
<1>4. /\ new \in Runs /\ new.step = step /\ new.now = clock /\ new.scheduled = {} /\ new.alone = alone
      /\ new.wasCalm = was /\ new.on = r.on /\ new.snapshot = r.snapshot
  BY <1>2, <1>3 DEF Runs, Steps
<1>5. ToCancel(new) = ToCancel(r)
  BY <1>2, <1>4 DEF ToCancel
<1>6. step = "pending" => ~Replans(new.on, new.snapshot, new.now)
  BY <1>2, <1>3, <1>4, <1>5 DEF ToCancel, Kinds
<1>7. RunAt(new, sys, rows, clock)
  BY <1>1, <1>3, <1>4, <1>6 DEF RunAt, CancelsAt, RewritesAt, Mirrored
<1> QED
  BY <1>4, <1>7 DEF new

\* A run begins: the other one is no longer alone.
LEMMA BeginCalm ==
    ASSUME TypeOK, CalmInv, NEW s \in Schedulers, NEW input \in Inputs, Begin(s, input),
           UNCHANGED <<system, ledger, clock>>
    PROVE  CalmInv'
<1> DEFINE t == Other(s)
<1>1. t \in Schedulers /\ t # s /\ Schedulers = {s, t} /\ Other(t) = s
  BY DEF Other, Schedulers
<1>2. PICK free \in BOOLEAN : free = ~AtWork(t)
  BY DEF AtWork
<1>3. calm \in BOOLEAN /\ run \in [Schedulers -> Runs] /\ run[t] \in Runs
  BY <1>1 DEF TypeOK
<1>4. /\ run' = [run EXCEPT ![s] = NewRun(input, free, calm), ![t].alone = run[t].alone /\ free]
      /\ calm' = FALSE
  BY <1>1, <1>2, <1>3 DEF Begin
<1>5. /\ run'[s] = NewRun(input, free, calm)
      /\ run'[t] = [run[t] EXCEPT !.alone = run[t].alone /\ free]
  BY <1>1, <1>3, <1>4
<1>6. run'[t].step = run[t].step /\ run'[t].alone = (run[t].alone /\ free)
  BY <1>3, <1>5 DEF Runs
<1>7. /\ NewRun(input, free, calm).alone = free
      /\ RunAt(NewRun(input, free, calm), system, ledger, clock)
  BY <1>3, NewRunAt DEF CalmInv
<1> QED
  BY <1>1, <1>2, <1>4, <1>5, <1>6, <1>7 DEF CalmInv, AtWork

\* A run ends: if it was alone and got through, the two agree.
LEMMA EndCalm ==
    ASSUME TypeOK, CalmInv, NEW s \in Schedulers, NEW good \in BOOLEAN, End(s, good), AtWork(s),
           clock' = clock,
           good /\ run[s].alone /\ (Replans(run[s].on, run[s].snapshot, run[s].now) \/ run[s].wasCalm)
             => Mirrored(system', ledger', clock)
    PROVE  CalmInv'
<1> DEFINE t == Other(s)
           r == run[s]
           rest == good /\ r.alone /\ (Replans(r.on, r.snapshot, r.now) \/ r.wasCalm)
           next == s = "app" /\ queued # None
<1>1. t \in Schedulers /\ t # s /\ Schedulers = {s, t} /\ Other(t) = s /\ (s = "app" => t = "task")
  BY DEF Other, Schedulers
<1>2. PICK free \in BOOLEAN : free = ~AtWork("task")
  BY DEF AtWork
<1>3. run \in [Schedulers -> Runs] /\ run[s] \in Runs
  BY DEF TypeOK
<1>4. PICK was \in BOOLEAN : was = rest
  BY <1>3 DEF Runs
<1>5. /\ run' = [run EXCEPT ![s] = IF next THEN NewRun(queued, free, was) ELSE Idle]
      /\ calm' = (was /\ ~next)
  BY <1>2, <1>4 DEF End, EndTaking
<1>6. was => Mirrored(system', ledger', clock) /\ ~AtWork(t)
  BY <1>4 DEF CalmInv
<1>7. run'[t] = run[t] /\ ~(run[t].alone /\ AtWork(t))
  BY <1>1, <1>3, <1>5 DEF CalmInv
<1>8. CASE next
  <2>1. queued \in Inputs
    BY <1>8 DEF TypeOK
  <2>2. run'[s] = NewRun(queued, free, was) /\ ~calm'
    BY <1>3, <1>5, <1>8
  <2>3. /\ NewRun(queued, free, was).alone = free
        /\ RunAt(NewRun(queued, free, was), system', ledger', clock)
    BY <1>6, <2>1, NewRunAt
  <2> QED
    BY <1>1, <1>2, <1>7, <1>8, <2>2, <2>3 DEF CalmInv, AtWork
<1>9. CASE ~next
  <2>1. run'[s] = Idle /\ calm' = was
    BY <1>3, <1>5, <1>9
  <2>2. ~AtWork(s)'
    BY <2>1, IdleFacts DEF AtWork
  <2> QED
    BY <1>1, <1>6, <1>7, <2>1, <2>2 DEF CalmInv, AtWork
<1> QED
  BY <1>8, <1>9

\* What a run keeps from its beginning to its end.
SameTask(r, q) ==
    /\ r.on = q.on /\ r.snapshot = q.snapshot /\ r.now = q.now
    /\ r.alone = q.alone /\ r.wasCalm = q.wasCalm

LEMMA SameTaskFacts ==
    ASSUME NEW r, NEW q, SameTask(r, q)
    PROVE  ToCancel(r) = ToCancel(q) /\ Replans(r.on, r.snapshot, r.now) = Replans(q.on, q.snapshot, q.now)
BY DEF SameTask, ToCancel

\* The run of s goes on as it should, or stops with the two in agreement.
Continues(s) ==
    \E r \in Runs : /\ run' = [run EXCEPT ![s] = r] /\ calm' = calm
                    /\ r.alone = run[s].alone /\ r.step \notin {"idle", "profile"}
                    /\ r.alone => RunAt(r, system', ledger', clock)
GetsThrough(s) ==
    LET r == run[s] IN r.alone /\ (Replans(r.on, r.snapshot, r.now) \/ r.wasCalm)
Stops(s) ==
    \E good \in BOOLEAN :
        End(s, good) /\ (good /\ GetsThrough(s) => Mirrored(system', ledger', clock))

\* What is to be cancelled is listed, then cancelled one by one.
LEMMA ListAt ==
    ASSUME TypeOK, NEW s \in Schedulers, List(s),
           run[s].alone => RunAt(run[s], system, ledger, clock)
    PROVE  Continues(s)
<1> DEFINE found == {id \in Ids : system[id] # Never /\ NotificationKind(id) \in ToCancel(run[s])}
<1>0. run[s] \in Runs /\ run \in [Schedulers -> Runs]
  BY DEF TypeOK
<1>1. PICK step \in {"delete", "cancel"} :
        /\ run' = [run EXCEPT ![s] = [run[s] EXCEPT !.left = found, !.step = step]]
        /\ step = "delete" => found = {}
  BY <1>0 DEF List
<1>2. run[s].step = "list" /\ UNCHANGED <<clock, system, ledger, calm>>
  BY DEF List, device, settings
<1> DEFINE r == [run[s] EXCEPT !.left = found, !.step = step]
<1>3. /\ r \in Runs /\ r.step = step /\ r.left = found /\ r.scheduled = run[s].scheduled
      /\ SameTask(r, run[s])
  BY <1>0 DEF Runs, Steps, SameTask
<1>4. run' = [run EXCEPT ![s] = r]
  BY <1>1
<1> HIDE DEF r
<1>5. /\ ToCancel(r) = ToCancel(run[s])
      /\ Replans(r.on, r.snapshot, r.now) = Replans(run[s].on, run[s].snapshot, run[s].now)
  BY <1>3, SameTaskFacts
<1>6. \A id \in Ids \ found : NotificationKind(id) \in ToCancel(r) => system[id] = Never
  BY <1>5
<1>7. \A id \in found : NotificationKind(id) \in ToCancel(r)
  BY <1>5
<1> HIDE DEF found
<1>8. r.alone => RunAt(r, system, ledger, clock)
  BY <1>1, <1>2, <1>3, <1>5, <1>6, <1>7 DEF RunAt, CancelsAt, SameTask
<1> QED
  BY <1>1, <1>2, <1>3, <1>4, <1>8 DEF Continues, SameTask

LEMMA CancelAt ==
    ASSUME TypeOK, NEW s \in Schedulers, Cancel(s) \/ CancelRefused(s),
           run[s].alone => RunAt(run[s], system, ledger, clock)
    PROVE  Continues(s)
<1>0. run[s] \in Runs /\ run \in [Schedulers -> Runs]
  BY DEF TypeOK
<1>1. PICK id \in run[s].left :
        LET left == run[s].left \ {id}
            step == IF run[s].left = {id} THEN "delete" ELSE "cancel"
        IN  \/ /\ run' = [run EXCEPT ![s] = [run[s] EXCEPT !.left = left, !.step = step]]
               /\ system' = [system EXCEPT ![id] = Never]
            \/ /\ run' = [run EXCEPT ![s] = [run[s] EXCEPT !.left = left, !.cancelled = FALSE,
                                                           !.step = step]]
               /\ system' = system
  BY <1>0 DEF Cancel, CancelRefused, device
<1>2. PICK step \in {"delete", "cancel"}, left \in SUBSET Ids :
        /\ left = run[s].left \ {id} /\ (step = "delete" => left = {})
        /\ \/ /\ run' = [run EXCEPT ![s] = [run[s] EXCEPT !.left = left, !.step = step]]
              /\ system' = [system EXCEPT ![id] = Never]
           \/ /\ run' = [run EXCEPT ![s] = [run[s] EXCEPT !.left = left, !.cancelled = FALSE,
                                                          !.step = step]]
              /\ system' = system
  BY <1>0, <1>1 DEF Runs
<1>3. run[s].step = "cancel" /\ UNCHANGED <<clock, ledger, calm>> /\ id \in Ids
  BY <1>0, <1>1 DEF Cancel, CancelRefused, device, settings, Runs
<1>4. CASE /\ run' = [run EXCEPT ![s] = [run[s] EXCEPT !.left = left, !.step = step]]
           /\ system' = [system EXCEPT ![id] = Never]
  <2> DEFINE r == [run[s] EXCEPT !.left = left, !.step = step]
  <2>1. /\ r \in Runs /\ r.step = step /\ r.left = left /\ r.scheduled = run[s].scheduled
        /\ r.cancelled = run[s].cancelled /\ SameTask(r, run[s])
    BY <1>0 DEF Runs, Steps, SameTask
  <2>2. run' = [run EXCEPT ![s] = r]
    BY <1>4
  <2> HIDE DEF r
  <2>3. /\ ToCancel(r) = ToCancel(run[s])
        /\ Replans(r.on, r.snapshot, r.now) = Replans(run[s].on, run[s].snapshot, run[s].now)
    BY <2>1, SameTaskFacts
  <2>4. \A i \in Ids : system'[i] = IF i = id THEN Never ELSE system[i]
    BY <1>4 DEF TypeOK
  <2>5. ASSUME CancelsAt(run[s], system, ledger, clock) PROVE CancelsAt(r, system', ledger, clock)
    <3>1. /\ \A i \in run[s].left : NotificationKind(i) \in ToCancel(run[s])
          /\ run[s].cancelled =>
                \A i \in Ids \ run[s].left :
                   NotificationKind(i) \in ToCancel(run[s]) => system[i] = Never
      BY <1>3, <2>5 DEF CancelsAt
    <3>2. /\ \A i \in r.left : NotificationKind(i) \in ToCancel(r)
          /\ r.cancelled =>
                \A i \in Ids \ r.left : NotificationKind(i) \in ToCancel(r) => system'[i] = Never
      BY <1>2, <2>1, <2>3, <2>4, <3>1
    <3>3. ~Replans(r.on, r.snapshot, r.now) /\ r.wasCalm =>
             \A i \in Ids : NotificationKind(i) \notin ToCancel(r) => Mirrors(system'[i], ledger[i], clock)
      BY <1>1, <2>1, <2>3, <2>4, <2>5, <3>1 DEF CancelsAt, SameTask
    <3>4. r.step = "delete" => r.left = {}
      BY <1>2, <2>1
    <3> QED
      BY <3>2, <3>3, <3>4 DEF CancelsAt
  <2>6. r.alone => RunAt(r, system', ledger, clock)
    BY <1>3, <2>1, <2>5 DEF RunAt, SameTask
  <2> QED
    BY <1>3, <2>1, <2>2, <2>6 DEF Continues, SameTask
<1>5. CASE /\ run' = [run EXCEPT ![s] = [run[s] EXCEPT !.left = left, !.cancelled = FALSE, !.step = step]]
           /\ system' = system
  <2> DEFINE r == [run[s] EXCEPT !.left = left, !.cancelled = FALSE, !.step = step]
  <2>1. /\ r \in Runs /\ r.step = step /\ r.left = left /\ r.scheduled = run[s].scheduled
        /\ ~r.cancelled /\ SameTask(r, run[s])
    BY <1>0 DEF Runs, Steps, SameTask
  <2>2. run' = [run EXCEPT ![s] = r]
    BY <1>5
  <2> HIDE DEF r
  <2>3. /\ ToCancel(r) = ToCancel(run[s])
        /\ Replans(r.on, r.snapshot, r.now) = Replans(run[s].on, run[s].snapshot, run[s].now)
    BY <2>1, SameTaskFacts
  <2>4. CancelsAt(run[s], system, ledger, clock) => CancelsAt(r, system, ledger, clock)
    BY <1>2, <1>3, <2>1, <2>3 DEF CancelsAt, SameTask
  <2>5. r.alone => RunAt(r, system, ledger, clock)
    BY <1>3, <2>1, <2>4 DEF RunAt, SameTask
  <2> QED
    BY <1>3, <1>5, <2>1, <2>2, <2>5 DEF Continues, SameTask
<1> QED
  BY <1>2, <1>4, <1>5

\* The deletion leaves no row to come of what was cancelled.
LEMMA DeleteAt ==
    ASSUME TypeOK, NEW s \in Schedulers, Delete(s),
           run[s].alone => RunAt(run[s], system, ledger, clock)
    PROVE  Continues(s) \/ Stops(s)
<1> DEFINE q == run[s]
           replans == Replans(q.on, q.snapshot, q.now)
<1>0. q \in Runs /\ run \in [Schedulers -> Runs] /\ clock \in Nat /\ q.now \in Nat
  BY DEF TypeOK, Runs
<1>1. /\ q.step = "delete" /\ q.cancelled /\ UNCHANGED <<clock, system>>
      /\ ledger' = DeletePending(ledger, ToCancel(q), q.now)
  BY DEF Delete, AllCancelled, settings
<1>2. ASSUME NEW id \in Ids
      PROVE  /\ NotificationKind(id) \notin ToCancel(q) => ledger'[id] = ledger[id]
             /\ NotificationKind(id) \in ToCancel(q) => Over(ledger'[id], q.now)
  <2>1. ledger[id] \in Nat
    BY NeverFacts DEF TypeOK
  <2> QED
    BY <1>0, <1>1, <2>1 DEF DeletePending, Over
<1>3. replans => \A id \in Ids : NotificationKind(id) \in ToCancel(q)
  BY DEF ToCancel, NotificationKind, Kinds
<1> HIDE DEF replans
<1>4. ASSUME q.alone
      PROVE  /\ q.now <= clock /\ q.scheduled = {}
             /\ replans => \A id \in Ids : system[id] = Never /\ Over(ledger'[id], q.now)
             /\ replans \/ q.wasCalm => Mirrored(system, ledger', clock)
  <2>1. /\ q.now <= clock /\ q.scheduled = {}
        /\ ~replans /\ q.wasCalm =>
             \A id \in Ids : NotificationKind(id) \notin ToCancel(q) => Mirrors(system[id], ledger[id], clock)
        /\ \A id \in Ids : NotificationKind(id) \in ToCancel(q) => system[id] = Never
    BY <1>1, <1>4 DEF RunAt, CancelsAt, replans
  <2>2. \A fire : Over(fire, q.now) /\ fire \in Nat => Mirrors(Never, fire, clock)
    BY <1>0, <2>1 DEF Mirrors, Over
  <2>3. \A id \in Ids : NotificationKind(id) \in ToCancel(q) => Mirrors(system[id], ledger'[id], clock)
    <3>1. \A id \in Ids : ledger'[id] \in Nat
      BY <1>1, NeverFacts DEF DeletePending, TypeOK
    <3> QED
      BY <1>2, <2>1, <2>2, <3>1
  <2>4. replans \/ q.wasCalm => Mirrored(system, ledger', clock)
    BY <1>2, <1>3, <2>1, <2>3 DEF Mirrored
  <2> QED
    BY <1>2, <1>3, <2>1, <2>4
<1>5. CASE End(s, TRUE)
  <2>1. GetsThrough(s) => Mirrored(system', ledger', clock)
    BY <1>1, <1>4 DEF GetsThrough, replans
  <2> QED
    BY <1>5, <2>1 DEF Stops
<1>6. CASE ~End(s, TRUE)
  <2>1. PICK step \in {"fired", "pending"} :
          /\ run' = [run EXCEPT ![s] = [q EXCEPT !.step = step]] /\ calm' = calm
          /\ step = "fired" <=> replans
    BY <1>0, <1>6 DEF Delete, To, replans
  <2> DEFINE r == [q EXCEPT !.step = step]
  <2>2. r \in Runs /\ r.step = step /\ r.scheduled = q.scheduled /\ SameTask(r, q)
    BY <1>0 DEF Runs, Steps, SameTask
  <2>3. run' = [run EXCEPT ![s] = r]
    BY <2>1
  <2> HIDE DEF r, q
  <2>4. Replans(r.on, r.snapshot, r.now) = replans
    BY <2>2, SameTaskFacts DEF replans
  <2>5. ASSUME r.alone PROVE RunAt(r, system, ledger', clock)
    <3>1. q.alone /\ r.now = q.now /\ r.wasCalm = q.wasCalm
      BY <2>2, <2>5 DEF SameTask
    <3>2. step = "fired" => PlansAt(r, system, ledger', clock)
      BY <1>4, <2>1, <2>2, <3>1 DEF PlansAt
    <3>3. step = "pending" => RewritesAt(r, system, ledger', clock)
      BY <1>4, <2>1, <2>2, <2>4, <3>1 DEF RewritesAt
    <3> QED
      BY <1>4, <2>1, <2>2, <3>1, <3>2, <3>3 DEF RunAt
  <2> QED
    BY <1>1, <2>1, <2>2, <2>3, <2>5 DEF Continues, SameTask, q
<1> QED
  BY <1>5, <1>6

\* A plan names each identity once.
LEMMA PlanOnce ==
    ASSUME NEW s, NEW on, NEW forecast, NEW now, NEW delivered,
           NEW n \in PlannedNotifications(s, on, forecast, now, delivered),
           NEW m \in PlannedNotifications(s, on, forecast, now, delivered), n.id = m.id
    PROVE  n = m
<1>1. n \in Notifications /\ m \in Notifications /\ n.at = m.at
  BY DEF PlannedNotifications
<1> QED
  BY <1>1 DEF Notifications

LEMMA PlanAt ==
    ASSUME TypeOK, NEW s \in Schedulers, Plan(s),
           run[s].alone => RunAt(run[s], system, ledger, clock)
    PROVE  Continues(s)
<1> DEFINE q == run[s]
           plan == PlannedNotifications(s, q.on, q.snapshot.of, q.now, ListFired(q.now))
<1>0. q \in Runs /\ run \in [Schedulers -> Runs]
  BY DEF TypeOK
<1>1. PICK step \in {"save", "schedule"} :
        run' = [run EXCEPT ![s] = [q EXCEPT !.todo = plan, !.step = step]]
  BY <1>0 DEF Plan
<1>2. q.step = "fired" /\ UNCHANGED <<clock, system, ledger, calm>>
  BY DEF Plan, device, settings
<1>3. plan \in SUBSET Notifications /\ \A n, m \in plan : n.id = m.id => n = m
  BY PlanFacts, PlanOnce
<1> HIDE DEF plan
<1> DEFINE r == [q EXCEPT !.todo = plan, !.step = step]
<1>4. /\ r \in Runs /\ r.step = step /\ r.todo = plan /\ r.scheduled = q.scheduled /\ SameTask(r, q)
  BY <1>0, <1>3 DEF Runs, Steps, SameTask
<1>5. run' = [run EXCEPT ![s] = r]
  BY <1>1
<1> HIDE DEF r, q
<1>6. r.alone => RunAt(r, system, ledger, clock)
  BY <1>2, <1>3, <1>4 DEF RunAt, PlansAt, SameTask, q
<1> QED
  BY <1>1, <1>2, <1>4, <1>5, <1>6 DEF Continues, SameTask, q

\* One notification is handed over, or refused.
LEMMA ScheduleAt ==
    ASSUME TypeOK, NEW s \in Schedulers, NEW n \in run[s].todo, Schedule(s, n),
           run[s].alone => RunAt(run[s], system, ledger, clock)
    PROVE  Continues(s)
<1> DEFINE q == run[s]
           scheduled == IF q.step = "schedule" THEN q.scheduled \cup {n} ELSE q.scheduled
           step == IF q.step = "schedule" /\ q.todo \ {n} = {} THEN "save" ELSE q.step
           r == [q EXCEPT !.todo = q.todo \ {n}, !.scheduled = scheduled, !.step = step]
<1>0. q \in Runs /\ run \in [Schedulers -> Runs] /\ n \in Notifications /\ n.id \in Ids
  BY DEF TypeOK, Runs, Notifications
<1>1. /\ q.step \in {"schedule", "rewrite"} /\ UNCHANGED <<clock, ledger, calm>>
      /\ run' = [run EXCEPT ![s] = r]
      /\ system' = [system EXCEPT ![n.id] = IF n.at > clock THEN n.at ELSE Never]
  BY <1>0 DEF Schedule, settings
<1>2. \A i \in Ids : system'[i] = IF i = n.id THEN (IF n.at > clock THEN n.at ELSE Never) ELSE system[i]
  BY <1>1 DEF TypeOK
<1>3. scheduled \in SUBSET Notifications /\ step \in Steps
  BY <1>0, <1>1 DEF Runs, Steps
<1>4. /\ scheduled = IF q.step = "schedule" THEN q.scheduled \cup {n} ELSE q.scheduled
      /\ IF q.step = "schedule" THEN step \in {"schedule", "save"} ELSE step = "rewrite"
  BY <1>1
<1> HIDE DEF scheduled, step
<1>5. /\ r \in Runs /\ r.step = step /\ r.todo = q.todo \ {n} /\ r.scheduled = scheduled
      /\ SameTask(r, q)
  BY <1>0, <1>3 DEF Runs, SameTask
<1> HIDE DEF r
<1>6. Replans(r.on, r.snapshot, r.now) = Replans(q.on, q.snapshot, q.now)
  BY <1>5, SameTaskFacts
<1>7. \A m \in q.scheduled : m.id \in Ids
  BY <1>0 DEF Runs, Notifications
<1> HIDE DEF q
<1>8. ASSUME q.step = "schedule", PlansAt(q, system, ledger, clock) PROVE PlansAt(r, system', ledger, clock)
  <2>1. /\ \A id \in Ids : Over(ledger[id], q.now)
        /\ \A id \in Ids : (\A m \in q.scheduled : m.id # id) => system[id] = Never
        /\ \A m \in q.scheduled : Mirrors(system[m.id], m.at, clock)
        /\ \A m, o \in q.scheduled \cup q.todo : m.id = o.id => m = o
        /\ q.scheduled \cap q.todo = {}
    BY <1>8 DEF PlansAt
  <2>2. scheduled = q.scheduled \cup {n} /\ n \in q.todo /\ n \notin q.scheduled
    BY <1>4, <1>8, <2>1 DEF q
  <2>3. \A m \in q.scheduled : m.id # n.id
    BY <2>1, <2>2
  <2>4. \A id \in Ids : (\A m \in scheduled : m.id # id) => system'[id] = Never
    BY <1>2, <2>1, <2>2
  <2>5. \A m \in scheduled : Mirrors(system'[m.id], m.at, clock)
    BY <1>0, <1>2, <1>7, <2>1, <2>2, <2>3 DEF Mirrors
  <2>6. /\ \A m, o \in scheduled \cup r.todo : m.id = o.id => m = o
        /\ scheduled \cap r.todo = {}
    BY <1>5, <2>1, <2>2
  <2> QED
    BY <1>5, <2>1, <2>4, <2>5, <2>6 DEF PlansAt, SameTask
<1>9. ASSUME q.step = "rewrite", RewritesAt(q, system, ledger, clock) PROVE RewritesAt(r, system', ledger, clock)
  <2>1. n \in q.scheduled /\ ledger[n.id] = n.at /\ scheduled = q.scheduled
    BY <1>4, <1>9 DEF RewritesAt, q
  <2>2. Mirrored(system, ledger, clock) => Mirrored(system', ledger, clock)
    BY <1>2, <2>1 DEF Mirrored, Mirrors
  <2> QED
    BY <1>4, <1>5, <1>6, <1>9, <2>1, <2>2 DEF RewritesAt, SameTask
<1>10. ASSUME r.alone PROVE RunAt(r, system', ledger, clock)
  <2>1. RunAt(q, system, ledger, clock)
    BY <1>5, <1>10 DEF SameTask, q
  <2>2. q.now <= clock /\ r.now = q.now
    BY <1>5, <2>1 DEF RunAt, SameTask
  <2>3. q.step = "schedule" => r.step \in {"schedule", "save"} /\ PlansAt(r, system', ledger, clock)
    BY <1>4, <1>5, <1>8, <2>1 DEF RunAt
  <2>4. q.step = "rewrite" => r.step = "rewrite" /\ RewritesAt(r, system', ledger, clock)
    BY <1>4, <1>5, <1>9, <2>1 DEF RunAt
  <2>5. q.step \in {"schedule", "rewrite"}
    BY <1>1 DEF q
  <2> QED
    BY <2>2, <2>3, <2>4, <2>5 DEF RunAt
<1>11. step \notin {"idle", "profile"} /\ run' = [run EXCEPT ![s] = r]
  BY <1>1, <1>4 DEF q
<1> QED
  BY <1>1, <1>5, <1>10, <1>11 DEF Continues, SameTask, q

LEMMA RefusedAt ==
    ASSUME TypeOK, NEW s \in Schedulers, NEW n \in run[s].todo, ScheduleRefused(s, n),
           run[s].alone => RunAt(run[s], system, ledger, clock)
    PROVE  Continues(s)
<1> DEFINE q == run[s]
           step == IF q.step = "schedule" /\ q.todo \ {n} = {} THEN "save" ELSE q.step
           r == [q EXCEPT !.todo = q.todo \ {n}, !.step = step]
<1>0. q \in Runs /\ run \in [Schedulers -> Runs]
  BY DEF TypeOK
<1>1. /\ q.step \in {"schedule", "rewrite"} /\ UNCHANGED <<clock, ledger, system, calm>>
      /\ run' = [run EXCEPT ![s] = r]
  BY <1>0 DEF ScheduleRefused, settings, device
<1>2. IF q.step = "schedule" THEN step \in {"schedule", "save"} ELSE step = "rewrite"
  BY <1>1
<1> HIDE DEF step
<1>3. /\ r \in Runs /\ r.step = step /\ r.todo = q.todo \ {n} /\ r.scheduled = q.scheduled
      /\ SameTask(r, q)
  BY <1>0, <1>1, <1>2 DEF Runs, Steps, SameTask
<1> HIDE DEF r
<1>4. Replans(r.on, r.snapshot, r.now) = Replans(q.on, q.snapshot, q.now)
  BY <1>3, SameTaskFacts
<1> HIDE DEF q
<1>5. r.alone => RunAt(r, system, ledger, clock)
  BY <1>1, <1>2, <1>3, <1>4 DEF RunAt, PlansAt, RewritesAt, SameTask, q
<1>6. step \notin {"idle", "profile"} /\ run' = [run EXCEPT ![s] = r]
  BY <1>1, <1>2 DEF q
<1> QED
  BY <1>1, <1>3, <1>5, <1>6 DEF Continues, SameTask, q

\* The texts that are written again are of rows as they are.
LEMMA PendingAt ==
    ASSUME TypeOK, NEW s \in Schedulers, Pending(s) \/ Rewrite(s) \/ Rewritten(s),
           run[s].alone => RunAt(run[s], system, ledger, clock)
    PROVE  Continues(s) \/ Stops(s)
<1> DEFINE q == run[s]
<1>0. q \in Runs /\ run \in [Schedulers -> Runs] /\ q.now \in 0 .. MaxTime
  BY DEF TypeOK, Runs
<1>1. /\ q.step \in {"pending", "rewriting", "rewrite"} /\ UNCHANGED <<clock, system, ledger>>
      /\ q.step = "pending" => Pending(s)
      /\ q.step = "rewriting" => Rewrite(s)
      /\ q.step = "rewrite" => End(s, TRUE)
  BY DEF Pending, Rewrite, Rewritten, device, settings
<1>2. q.alone => RewritesAt(q, system, ledger, clock) /\ q.now <= clock
  BY <1>1 DEF RunAt
<1>3. CASE End(s, TRUE)
  BY <1>1, <1>2, <1>3 DEF Stops, GetsThrough, RewritesAt
<1>4. CASE q.step = "pending" /\ ~End(s, TRUE)
  <2> DEFINE rows == ListPending(q.now)
  <2>1. /\ run' = [run EXCEPT ![s] = [q EXCEPT !.scheduled = rows, !.step = "rewriting"]]
        /\ calm' = calm
    BY <1>0, <1>1, <1>4 DEF Pending
  <2>2. rows \in SUBSET Notifications
    BY <1>0, PendingRows
  <2>3. \A n \in rows : ledger[n.id] = n.at
    BY DEF ListPending
  <2> HIDE DEF rows
  <2> DEFINE r == [q EXCEPT !.scheduled = rows, !.step = "rewriting"]
  <2>4. r \in Runs /\ r.step = "rewriting" /\ r.scheduled = rows /\ SameTask(r, q)
    BY <1>0, <2>2 DEF Runs, Steps, SameTask
  <2> HIDE DEF r, q
  <2>5. Replans(r.on, r.snapshot, r.now) = Replans(q.on, q.snapshot, q.now)
    BY <2>4, SameTaskFacts
  <2>6. r.alone => RunAt(r, system, ledger, clock)
    BY <1>2, <2>3, <2>4, <2>5 DEF RunAt, RewritesAt, SameTask
  <2> QED
    BY <1>1, <2>1, <2>4, <2>6 DEF Continues, SameTask, q, r
<1>5. CASE q.step = "rewriting" /\ ~End(s, TRUE)
  <2>1. PICK todo \in SUBSET q.scheduled :
          run' = [run EXCEPT ![s] = [q EXCEPT !.todo = todo, !.step = "rewrite"]]
    BY <1>0, <1>1, <1>5 DEF Rewrite
  <2>2. calm' = calm
    BY <1>1, <1>5 DEF Rewrite
  <2> DEFINE r == [q EXCEPT !.todo = todo, !.step = "rewrite"]
  <2>3. /\ r \in Runs /\ r.step = "rewrite" /\ r.scheduled = q.scheduled /\ r.todo = todo
        /\ SameTask(r, q)
    BY <1>0, <2>1 DEF Runs, Steps, SameTask
  <2> HIDE DEF r, q
  <2>4. Replans(r.on, r.snapshot, r.now) = Replans(q.on, q.snapshot, q.now)
    BY <2>3, SameTaskFacts
  <2>5. r.alone => RunAt(r, system, ledger, clock)
    BY <1>2, <1>5, <2>1, <2>3, <2>4 DEF RunAt, RewritesAt, SameTask
  <2> QED
    BY <1>1, <2>1, <2>2, <2>3, <2>5 DEF Continues, SameTask, q, r
<1> QED
  BY <1>1, <1>3, <1>4, <1>5

\* The save gives what the system accepted its rows.
LEMMA SaveAt ==
    ASSUME TypeOK, NEW s \in Schedulers, Save(s),
           run[s].alone => RunAt(run[s], system, ledger, clock)
    PROVE  Stops(s)
<1> DEFINE q == run[s]
           saved(id) == {t \in 0 .. MaxTime : [id |-> id, at |-> t] \in q.scheduled}
<1>1. /\ q.step = "save" /\ End(s, TRUE) /\ UNCHANGED <<clock, system>> /\ q \in Runs
      /\ \A id \in Ids : ledger'[id] = IF \E t \in 0 .. MaxTime : [id |-> id, at |-> t] \in q.scheduled
           THEN CHOOSE t \in 0 .. MaxTime : [id |-> id, at |-> t] \in q.scheduled ELSE ledger[id]
  BY DEF Save, settings, TypeOK
<1>2. ASSUME q.alone, NEW id \in Ids PROVE Mirrors(system[id], ledger'[id], clock)
  <2>1. /\ q.now <= clock /\ Over(ledger[id], q.now)
        /\ (\A n \in q.scheduled : n.id # id) => system[id] = Never
        /\ \A n \in q.scheduled : Mirrors(system[n.id], n.at, clock)
    BY <1>1, <1>2 DEF RunAt, PlansAt
  <2>2. CASE \E t \in 0 .. MaxTime : [id |-> id, at |-> t] \in q.scheduled
    <3>1. PICK t \in 0 .. MaxTime : ledger'[id] = t /\ [id |-> id, at |-> t] \in q.scheduled
      BY <1>1, <2>2
    <3>2. Mirrors(system[id], t, clock)
      BY <2>1, <3>1
    <3> QED
      BY <3>1, <3>2
  <2>3. CASE ~\E t \in 0 .. MaxTime : [id |-> id, at |-> t] \in q.scheduled
    <3>1. ASSUME NEW n \in q.scheduled, n.id = id PROVE FALSE
      <4>1. n \in Notifications
        BY <1>1, <3>1 DEF Runs
      <4>2. n = [id |-> id, at |-> n.at] /\ n.at \in 0 .. MaxTime
        BY <3>1, <4>1 DEF Notifications
      <4> QED
        BY <2>3, <3>1, <4>2
    <3>2. system[id] = Never /\ ledger'[id] = ledger[id]
      BY <1>1, <2>1, <2>3, <3>1
    <3>3. ledger[id] \in Nat /\ clock \in Nat /\ q.now \in Nat
      BY <1>1, NeverFacts DEF TypeOK, Runs
    <3> QED
      BY <2>1, <3>2, <3>3 DEF Mirrors, Over
  <2> QED
    BY <2>2, <2>3
<1>3. GetsThrough(s) => Mirrored(system', ledger', clock)
  BY <1>1, <1>2 DEF GetsThrough, Mirrored
<1> QED
  BY <1>1, <1>3 DEF Stops

\* One step of a run: it goes on, or stops.
LEMMA StepAt ==
    ASSUME TypeOK, NEW s \in Schedulers, RunStep(s),
           run[s].alone => RunAt(run[s], system, ledger, clock)
    PROVE  clock' = clock /\ AtWork(s) /\ (Continues(s) \/ Stops(s))
<1>1. clock' = clock
  BY DEF RunStep, List, Cancel, CancelRefused, GiveUp, Delete, Plan, Pending, Rewrite,
         Rewritten, Save, Fails, Schedule, ScheduleRefused, settings
<1>2. AtWork(s)
  BY RunStepFacts
<1>3. CASE GiveUp(s) \/ Fails(s)
  <2>1. End(s, FALSE)
    BY <1>3 DEF GiveUp, Fails
  <2>2. Stops(s)
    BY <2>1 DEF Stops
  <2> QED
    BY <1>1, <1>2, <2>2
<1>4. CASE \E n \in run[s].todo : Schedule(s, n) \/ ScheduleRefused(s, n)
  <2>1. PICK n \in run[s].todo : Schedule(s, n) \/ ScheduleRefused(s, n)
    BY <1>4
  <2>2. CASE Schedule(s, n)
    BY <1>1, <1>2, <2>2, ScheduleAt
  <2>3. CASE ScheduleRefused(s, n)
    BY <1>1, <1>2, <2>3, RefusedAt
  <2> QED
    BY <2>1, <2>2, <2>3
<1>5. CASE List(s)
  BY <1>1, <1>2, <1>5, ListAt
<1>6. CASE Cancel(s) \/ CancelRefused(s)
  BY <1>1, <1>2, <1>6, CancelAt
<1>7. CASE Delete(s)
  BY <1>1, <1>2, <1>7, DeleteAt
<1>8. CASE Plan(s)
  BY <1>1, <1>2, <1>8, PlanAt
<1>9. CASE Pending(s) \/ Rewrite(s) \/ Rewritten(s)
  BY <1>1, <1>2, <1>9, PendingAt
<1>10. CASE Save(s)
  BY <1>1, <1>2, <1>10, SaveAt
<1> QED
  BY <1>1, <1>2, <1>3, <1>4, <1>5, <1>6, <1>7, <1>8, <1>9, <1>10 DEF RunStep

LEMMA CalmStep == TypeOK /\ CalmInv /\ [Next]_vars => CalmInv'
<1> SUFFICES ASSUME TypeOK, CalmInv, [Next]_vars PROVE CalmInv'
  OBVIOUS
<1>0. /\ "app" \in Schedulers /\ "task" \in Schedulers /\ Schedulers = {"app", "task"}
      /\ Other("app") = "task" /\ Other("task") = "app" /\ Idle.step = "idle"
      /\ run \in [Schedulers -> Runs]
  BY DEF Schedulers, Other, Idle, TypeOK
<1>1. ASSUME NEW s \in Schedulers, RunStep(s) PROVE CalmInv'
  <2>0. AtWork(s)
    BY <1>1, RunStepFacts
  <2>1. run[s].alone => ~AtWork(Other(s)) /\ RunAt(run[s], system, ledger, clock)
    BY <2>0 DEF CalmInv
  <2>2. clock' = clock /\ (Continues(s) \/ Stops(s))
    BY <1>1, <2>1, StepAt
  <2>3. CASE Stops(s)
    <3>1. PICK good \in BOOLEAN :
            End(s, good) /\ (good /\ GetsThrough(s) => Mirrored(system', ledger', clock))
      BY <2>3 DEF Stops
    <3>2. good /\ run[s].alone /\ (Replans(run[s].on, run[s].snapshot, run[s].now) \/ run[s].wasCalm)
            => Mirrored(system', ledger', clock)
      BY <3>1 DEF GetsThrough
    <3> QED
      BY <2>0, <2>2, <3>1, <3>2, EndCalm
  <2>4. CASE Continues(s)
    <3>1. PICK t \in Schedulers : t # s /\ Schedulers = {s, t} /\ Other(t) = s /\ Other(s) = t
      BY <1>0
    <3>2. PICK r \in Runs : /\ run' = [run EXCEPT ![s] = r] /\ calm' = calm
                            /\ r.alone = run[s].alone /\ r.step \notin {"idle", "profile"}
                            /\ r.alone => RunAt(r, system', ledger', clock)
      BY <2>4 DEF Continues
    <3>3. run'[s] = r /\ run'[t] = run[t]
      BY <1>0, <3>1, <3>2
    <3>4. ~calm /\ ~(run[t].alone /\ AtWork(t)) /\ (run[s].alone => ~AtWork(t))
      BY <2>0, <3>1 DEF CalmInv
    <3>5. AtWork(t)' = AtWork(t) /\ AtWork(s)'
      BY <3>2, <3>3 DEF AtWork
    <3>6. run'[s].alone => ~AtWork(t)' /\ RunAt(run'[s], system', ledger', clock')
      BY <2>2, <3>2, <3>3, <3>4, <3>5
    <3>7. ~(run'[t].alone /\ AtWork(t)')
      BY <3>3, <3>4, <3>5
    <3> QED
      BY <3>1, <3>2, <3>4, <3>6, <3>7 DEF CalmInv
  <2> QED
    BY <2>2, <2>3, <2>4
<1>2. ASSUME UNCHANGED <<system, ledger, clock, run, calm>> PROVE CalmInv'
  BY <1>2 DEF CalmInv, AtWork
<1>3. ASSUME opt' \in SUBSET Kinds, shown' \in Snapshots \cup {None}, Ask,
             UNCHANGED <<system, ledger, clock>>
      PROVE  CalmInv'
  <2> DEFINE cancels == opt' = {} \/ permission' = "denied"
             plans == opt' # {} /\ permission' = "granted" /\ shown' # None
             disables == opt' # Kinds
             input == [on |-> IF cancels THEN {} ELSE opt',
                       snapshot |-> IF permission' = "granted" THEN shown' ELSE None]
  <2>1. input \in Inputs
    BY <1>3 DEF Inputs
  <2>2. CASE ~((cancels \/ plans \/ disables) /\ ~AtWork("app"))
    BY <1>2, <1>3, <2>2 DEF Ask
  <2>3. CASE (cancels \/ plans \/ disables) /\ ~AtWork("app")
    <3>1. Begin("app", input)
      BY <1>3, <2>3 DEF Ask
    <3> HIDE DEF input
    <3> QED
      BY <1>0, <1>3, <2>1, <3>1, BeginCalm
  <2> QED
    BY <2>2, <2>3
<1>4. ASSUME NEW kind \in Kinds, Switch(kind) PROVE CalmInv'
  BY <1>3, <1>4 DEF Switch, TypeOK, device
<1>5. ASSUME NEW read, Activate(read) PROVE CalmInv'
  BY <1>3, <1>5 DEF Activate, TypeOK, device
<1>6. ASSUME NEW f \in Forecasts, Refresh(f) PROVE CalmInv'
  <2>1. shown' \in Snapshots
    BY <1>6 DEF Refresh, TypeOK, Snapshots
  <2> QED
    BY <1>3, <1>6, <2>1 DEF Refresh, TypeOK, device
<1>7. ASSUME ShowStored PROVE CalmInv'
  BY <1>3, <1>7 DEF ShowStored, TypeOK, device
<1>8. ASSUME TaskProfile \/ TaskFails PROVE CalmInv'
  <2>1. /\ ~AtWork("task") /\ ~AtWork("task")' /\ run'["app"] = run["app"]
        /\ UNCHANGED <<system, ledger, clock, calm>>
    BY <1>0, <1>8 DEF TaskProfile, TaskFails, AtWork, settings, device, Runs
  <2>2. AtWork("app")' = AtWork("app")
    BY <2>1 DEF AtWork
  <2> QED
    BY <1>0, <2>1, <2>2 DEF CalmInv
<1>9. ASSUME TaskPlans PROVE CalmInv'
  <2>1. stored' \in Snapshots \cup {None}
    BY <1>9 DEF TaskPlans, TypeOK, Snapshots
  <2> DEFINE input == [on |-> run["task"].on, snapshot |-> stored']
  <2>2. input \in Inputs
    BY <1>0, <2>1 DEF Runs, Inputs
  <2>3. Begin("task", input) /\ UNCHANGED <<system, ledger, clock>>
    BY <1>9 DEF TaskPlans, device
  <2> HIDE DEF input
  <2> QED
    BY <1>0, <2>2, <2>3, BeginCalm
<1>10. ASSUME Tick PROVE CalmInv'
  <2>1. UNCHANGED <<run, ledger, calm>>
    BY <1>10 DEF Tick
  <2>2. /\ Mirrored(system, ledger, clock) => Mirrored(system', ledger, clock')
        /\ \A r \in Runs : RunAt(r, system, ledger, clock) => RunAt(r, system', ledger, clock')
    BY <1>10, TickAt
  <2>3. \A s \in Schedulers : run[s] \in Runs
    BY <1>0
  <2> QED
    BY <2>1, <2>2, <2>3 DEF CalmInv, AtWork
<1>11. ASSUME Crash PROVE CalmInv'
  <2>1. UNCHANGED <<system, ledger, clock, calm>> /\ \A s \in Schedulers : run'[s] = Idle
    BY <1>11 DEF Crash, device
  <2>2. \A s \in Schedulers : ~AtWork(s)'
    BY <1>0, <2>1 DEF AtWork
  <2> QED
    BY <2>1, <2>2 DEF CalmInv
<1> QED
  BY <1>1, <1>2, <1>4, <1>5, <1>6, <1>7, <1>8, <1>9, <1>10, <1>11 DEF Next, vars

\* After a run that got through alone, and until the next begins, the system
\* holds a notification for every row that is still to come, at the row's time,
\* and nothing else, whatever failed, overlapped or ended before.
THEOREM ConsistentAlways == Spec => []Consistent
<1>1. Init => CalmInv
  <2> SUFFICES ASSUME Init PROVE CalmInv
    OBVIOUS
  <2>1. \A s \in Schedulers : ~AtWork(s)
    BY IdleFacts DEF Init, AtWork
  <2>2. Mirrored(system, ledger, clock)
    BY DEF Init, Mirrored, Mirrors
  <2> QED
    BY <2>1, <2>2 DEF CalmInv
<1>2. TypeOK /\ CalmInv => Consistent
  BY DEF CalmInv, Consistent, Mirrored, Mirrors
<1> QED
  BY <1>1, <1>2, InitTypes, NextTypes, CalmStep, PTL DEF Spec
=============================================================================
