---------------------------- MODULE AlertSchedule ----------------------------
(***************************************************************************)
(* What is announced: the scheduler that plans the weather alerts and the     *)
(* morning briefing, on the app's side (asked by the observer, one run at a   *)
(* time with the newest input queued) and in the background task (a scheduler *)
(* of its own), over the notifications the operating system holds and the     *)
(* ledger of deliveries.                                                      *)
(*                                                                            *)
(* Every action ends at an await.  A forecast is told apart by when what it   *)
(* announces comes; the text of a notification is left out, and with it the   *)
(* key of the text: a run that may only write texts again does or does not.   *)
(***************************************************************************)
EXTENDS Naturals

CONSTANTS
    Alerts,         \* identities of the day's weather alerts
    Briefing,       \* the identity of the morning briefing
    Forecasts,
    Comes,          \* Comes[f][id]: when what id announces comes, Never if it does not
    Lead, ShortLead, \* the lead of an alert; the one the task may shorten it to
    FreshFor,       \* how long a snapshot can be planned from
    None,
    MaxTime,        \* bound: the clock
    MaxChanges,     \* bound: what the person, the permission and the weather do
    MaxTasks,       \* bound: background tasks
    MaxFailures     \* bound: failed calls and ends of the process

Ids == Alerts \cup {Briefing}
Kinds == {"weather_alert", "morning_briefing"}
NotificationKind(id) == IF id = Briefing THEN "morning_briefing" ELSE "weather_alert"
Never == MaxTime + 1

ASSUME AlertsAssumption ==
    /\ MaxTime \in Nat /\ Lead \in Nat /\ ShortLead \in Nat /\ FreshFor \in Nat
    /\ MaxChanges \in Nat /\ MaxTasks \in Nat /\ MaxFailures \in Nat
    /\ Briefing \notin Alerts
    /\ Comes \in [Forecasts -> [Ids -> 0 .. Never]]

\* What is planned from, what the scheduler is asked, what it hands over.
Snapshots == [of : Forecasts, at : 0 .. MaxTime]
Inputs == [on : SUBSET Kinds, snapshot : Snapshots \cup {None}]
Notifications == [id : Ids, at : 0 .. MaxTime]
ASSUME NoneAssumption == None \notin Inputs /\ None \notin Snapshots

VARIABLES
    clock,
    opt,        \* the kinds the profile has opted in to
    permission, \* as the app has read it
    shown,      \* the snapshot the app shows
    stored,     \* the newest snapshot stored
    queued,     \* queuedInput
    run,        \* run[s]: where the run of s waits
    system,     \* system[id]: when the notification held by the system fires
    ledger,     \* ledger[id]: fire_at of its row
    asked,      \* history: the last input the observer gave, the last one taken up
    heard,      \* history: heard[id]: was id announced
    silent,     \* history: kinds that were switched off with nothing else at work
    calm,       \* history: the last run got through alone
    spent       \* history: changes, tasks and failures so far

vars == <<clock, opt, permission, shown, stored, queued, run, system, ledger,
          asked, heard, silent, calm, spent>>
settings == <<clock, opt, permission, shown, stored>>
device == <<system, ledger, heard>>

Schedulers == {"app", "task"}

Steps == {"idle", "profile", "list", "cancel", "delete", "fired", "schedule", "save",
          "pending", "rewriting", "rewrite"}
Runs == [step : Steps, on : SUBSET Kinds, snapshot : Snapshots \cup {None}, now : 0 .. MaxTime,
         left : SUBSET Ids, cancelled : BOOLEAN, todo : SUBSET Notifications,
         scheduled : SUBSET Notifications, alone : BOOLEAN, wasCalm : BOOLEAN]
Idle == [step |-> "idle", on |-> {}, snapshot |-> None, now |-> 0, left |-> {}, cancelled |-> TRUE,
         todo |-> {}, scheduled |-> {}, alone |-> FALSE, wasCalm |-> FALSE]
AtWork(s) == run[s].step \notin {"idle", "profile"}
Other(s) == IF s = "app" THEN "task" ELSE "app"

Init ==
    /\ clock = 0 /\ opt = Kinds /\ permission = "granted"
    /\ shown = None /\ stored = None /\ queued = None
    /\ run = [s \in Schedulers |-> Idle]
    /\ system = [id \in Ids |-> Never] /\ ledger = [id \in Ids |-> Never]
    /\ asked = [last |-> None, taken |-> None]
    /\ heard = [id \in Ids |-> "no"]
    /\ silent = {} /\ calm = TRUE
    /\ spent = [changes |-> 0, tasks |-> 0, failures |-> 0]

-----------------------------------------------------------------------------
(* Planning, and the rows of the ledger as a run at now reads them.          *)

\* weatherFreshness
Fresh(snapshot, now) == snapshot # None /\ now - snapshot.at <= FreshFor

\* leadFireAt: the full lead, or the scheduler's own when the crossing is nearer.
LeadFireAt(s, comes, now) ==
    LET lead == IF s = "task" /\ comes - now < Lead THEN ShortLead ELSE Lead
    IN  IF now + lead <= comes THEN comes - lead ELSE Never

\* planWeatherAlerts and planMorningBriefing for the kinds that are on.
PlannedNotifications(s, on, forecast, now, delivered) ==
    {n \in Notifications :
        /\ NotificationKind(n.id) \in on /\ n.id \notin delivered
        /\ Comes[forecast][n.id] \in (now + 1) .. MaxTime
        /\ n.at = IF n.id = Briefing THEN Comes[forecast][n.id]
                  ELSE LeadFireAt(s, Comes[forecast][n.id], now)}

HasRow(id) == ledger[id] # Never
ListFired(now) == {id \in Ids : HasRow(id) /\ ledger[id] <= now}
ListPending(now) == {[id |-> id, at |-> ledger[id]] : id \in {i \in Ids : HasRow(i) /\ ledger[i] > now}}

\* Mutant: every row of the kinds goes, the announced ones too.
DeleteAll(rows, kinds, now) ==
    [id \in Ids |-> IF NotificationKind(id) \in kinds THEN Never ELSE rows[id]]

\* deletePending
DeletePending(rows, kinds, now) ==
    [id \in Ids |-> IF NotificationKind(id) \in kinds /\ rows[id] > now THEN Never ELSE rows[id]]

-----------------------------------------------------------------------------
(* One run: its beginning and its end.                                       *)

\* A run that cancels everything and plans anew, or, without a fresh snapshot,
\* one that only takes back the kinds that are off.
Replans(on, snapshot, now) == on = {} \/ Fresh(snapshot, now)

\* Mutant: without a fresh snapshot nothing is taken back.
ToCancelFresh(r) == IF Replans(r.on, r.snapshot, r.now) THEN Kinds ELSE {}

ToCancel(r) == IF Replans(r.on, r.snapshot, r.now) THEN Kinds ELSE Kinds \ r.on

\* run, up to its first await.
NewRun(input, alone, wasCalm) ==
    LET r == [Idle EXCEPT !.on = input.on, !.snapshot = input.snapshot, !.now = clock,
                          !.alone = alone, !.wasCalm = wasCalm]
    IN  [r EXCEPT !.step = IF ToCancel(r) = {} THEN "pending" ELSE "list"]

\* A run of s begins beside whatever the other scheduler does.
Begin(s, input) ==
    LET t == Other(s) IN
    /\ run' = [run EXCEPT ![s] = NewRun(input, ~AtWork(t), calm),
                          ![t].alone = @ /\ ~AtWork(t)]
    /\ calm' = FALSE

\* The end of a run of s; next: it takes the queued input.  good: it got through
\* what it set out to do.
EndTaking(s, good, next) ==
    LET r == run[s]
        rest == good /\ r.alone /\ (Replans(r.on, r.snapshot, r.now) \/ r.wasCalm)
    IN  /\ run' = [run EXCEPT ![s] = IF next THEN NewRun(queued, ~AtWork("task"), rest) ELSE Idle]
        /\ calm' = (rest /\ ~next)
        /\ queued' = IF next THEN None ELSE queued
        /\ asked' = IF next THEN [asked EXCEPT !.taken = queued] ELSE asked
        /\ silent' = IF s = "app" /\ good /\ r.alone
                     THEN silent \cup (Kinds \ (r.on \cup opt \cup run["task"].on)) ELSE silent

\* Mutant: a failed run leaves the loop.
EndAtFailure(s, good) == EndTaking(s, good, s = "app" /\ queued # None /\ good)

\* runQueued: what is queued behind a run follows it, failed or not.
End(s, good) == EndTaking(s, good, s = "app" /\ queued # None)

Failed == spent.failures < MaxFailures /\ spent' = [spent EXCEPT !.failures = @ + 1]

\* The ledger does not open or answer, or the system's list cannot be read.
Fails(s) ==
    /\ run[s].step \in {"list", "delete", "fired", "save", "pending", "rewriting"}
    /\ Failed /\ End(s, FALSE)
    /\ UNCHANGED <<settings, device>>

-----------------------------------------------------------------------------
(* The steps of a run.                                                       *)

To(s, step) == [run EXCEPT ![s].step = step]

\* cancelScheduledWeatherAlerts: what the system holds is listed, then cancelled
\* one by one; a re-plan has opened the ledger before.
List(s) ==
    LET found == {id \in Ids : system[id] # Never /\ NotificationKind(id) \in ToCancel(run[s])} IN
    /\ run[s].step = "list"
    /\ run' = [run EXCEPT ![s].left = found, ![s].step = IF found = {} THEN "delete" ELSE "cancel"]
    /\ UNCHANGED <<settings, device, queued, asked, silent, calm, spent>>

\* The system takes one back, or refuses; the others are still tried.
Cancel(s) ==
    /\ run[s].step = "cancel"
    /\ \E id \in run[s].left :
        /\ run' = [run EXCEPT ![s].left = @ \ {id},
                              ![s].step = IF run[s].left = {id} THEN "delete" ELSE "cancel"]
        /\ system' = [system EXCEPT ![id] = Never]
    /\ UNCHANGED <<settings, ledger, heard, queued, asked, silent, calm, spent>>

CancelRefused(s) ==
    /\ run[s].step = "cancel" /\ Failed
    /\ \E id \in run[s].left :
        run' = [run EXCEPT ![s].left = @ \ {id}, ![s].cancelled = FALSE,
                           ![s].step = IF run[s].left = {id} THEN "delete" ELSE "cancel"]
    /\ UNCHANGED <<settings, device, queued, asked, silent, calm>>

\* Mutant: what could not be cancelled is planned over.
MayReplan(r) == TRUE

\* A failed cancellation leaves the schedule and the ledger as they are.
AllCancelled(r) == r.cancelled

GiveUp(s) ==
    /\ run[s].step = "delete" /\ ~AllCancelled(run[s])
    /\ End(s, FALSE)
    /\ UNCHANGED <<settings, device, spent>>

Delete(s) ==
    LET r == run[s] IN
    /\ r.step = "delete" /\ AllCancelled(r)
    /\ ledger' = DeletePending(ledger, ToCancel(r), r.now)
    /\ IF r.on = {} \/ r.snapshot = None THEN End(s, TRUE)
       ELSE /\ run' = To(s, IF Replans(r.on, r.snapshot, r.now) THEN "fired" ELSE "pending")
            /\ UNCHANGED <<queued, asked, silent, calm>>
    /\ UNCHANGED <<settings, system, heard, spent>>

\* What has fired is read, and the plan made of the snapshot.
Plan(s) ==
    LET r == run[s]
        plan == PlannedNotifications(s, r.on, r.snapshot.of, r.now, ListFired(r.now))
    IN  /\ r.step = "fired"
        /\ run' = [run EXCEPT ![s].todo = plan, ![s].step = IF plan = {} THEN "save" ELSE "schedule"]
        /\ UNCHANGED <<settings, device, queued, asked, silent, calm, spent>>

\* rewritePending: nothing to write again, or the rows that have not fired.
Pending(s) ==
    LET r == run[s] IN
    /\ r.step = "pending"
    /\ \/ End(s, TRUE)
       \/ /\ r.snapshot # None /\ ListPending(r.now) # {}
          /\ run' = [run EXCEPT ![s].scheduled = ListPending(r.now), ![s].step = "rewriting"]
          /\ UNCHANGED <<queued, asked, silent, calm>>
    /\ UNCHANGED <<settings, device, spent>>

\* The rows the snapshot, or a newer stored one that can be read, still plans.
Rewrite(s) ==
    LET r == run[s] IN
    /\ r.step = "rewriting"
    /\ \E source \in {r.snapshot} \cup (IF stored.at > r.snapshot.at THEN {stored} ELSE {}) :
        LET plan == PlannedNotifications(s, r.on, source.of, r.now, ListFired(r.now)) IN
        run' = [run EXCEPT ![s].todo = {n \in r.scheduled : \E m \in plan : m.id = n.id},
                           ![s].step = "rewrite"]
    /\ UNCHANGED <<settings, device, queued, asked, silent, calm, spent>>

\* How an announcement was heard, now that it is heard (again).
Hearing(before, onRecord) ==
    IF before = "on record" THEN "again" ELSE IF onRecord THEN "on record" ELSE "off record"

\* The next notification goes to the system, alerts first.  One whose time has
\* passed meanwhile is announced at once or never.
IsNext(s, n) == n \in run[s].todo /\ (n.id = Briefing => run[s].todo = {n})
Schedule(s, n) ==
    LET rest == run[s].todo \ {n} IN
    /\ run[s].step \in {"schedule", "rewrite"} /\ IsNext(s, n)
    /\ run' = [run EXCEPT ![s].todo = rest,
           ![s].scheduled = IF run[s].step = "schedule" THEN @ \cup {n} ELSE @,
           ![s].step = IF run[s].step = "schedule" /\ rest = {} THEN "save" ELSE @]
    /\ system' = [system EXCEPT ![n.id] = IF n.at > clock THEN n.at ELSE Never]
    /\ \/ UNCHANGED heard
       \/ n.at <= clock /\ heard' = [heard EXCEPT ![n.id] = Hearing(@, FALSE)]
    /\ UNCHANGED <<settings, ledger, queued, asked, silent, calm, spent>>

ScheduleRefused(s, n) ==
    LET rest == run[s].todo \ {n} IN
    /\ run[s].step \in {"schedule", "rewrite"} /\ IsNext(s, n) /\ Failed
    /\ run' = [run EXCEPT ![s].todo = rest,
           ![s].step = IF run[s].step = "schedule" /\ rest = {} THEN "save" ELSE @]
    /\ UNCHANGED <<settings, device, queued, asked, silent, calm>>

Rewritten(s) ==
    /\ run[s].step = "rewrite" /\ run[s].todo = {}
    /\ End(s, TRUE)
    /\ UNCHANGED <<settings, device, spent>>

\* upsertScheduled: the rows of what the system accepted.
Save(s) ==
    /\ run[s].step = "save"
    /\ ledger' = [id \in Ids |-> IF \E t \in 0 .. MaxTime : [id |-> id, at |-> t] \in run[s].scheduled
           THEN CHOOSE t \in 0 .. MaxTime : [id |-> id, at |-> t] \in run[s].scheduled ELSE ledger[id]]
    /\ End(s, TRUE)
    /\ UNCHANGED <<settings, system, heard, spent>>

-----------------------------------------------------------------------------
(* The observer: what it sees, and what it asks.                             *)

\* rescheduleWeatherAlerts on what is rendered after the change.
Ask ==
    LET cancels == opt' = {} \/ permission' = "denied"
        plans == opt' # {} /\ permission' = "granted" /\ shown' # None
        disables == opt' # Kinds
        input == [on |-> IF cancels THEN {} ELSE opt',
                  snapshot |-> IF permission' = "granted" THEN shown' ELSE None]
    IN  IF ~(cancels \/ plans \/ disables) THEN UNCHANGED <<run, queued, asked, calm>>
        ELSE IF AtWork("app")
        THEN queued' = input /\ asked' = [asked EXCEPT !.last = input] /\ UNCHANGED <<run, calm>>
        ELSE /\ Begin("app", input) /\ asked' = [last |-> input, taken |-> input]
             /\ UNCHANGED queued

Change == spent.changes < MaxChanges /\ spent' = [spent EXCEPT !.changes = @ + 1]

\* A kind is switched on or off in the profile.
Switch(kind) ==
    /\ Change
    /\ opt' = IF kind \in opt THEN opt \ {kind} ELSE opt \cup {kind}
    /\ silent' = silent \ opt'
    /\ UNCHANGED <<clock, permission, shown, stored>>
    /\ Ask /\ UNCHANGED device

\* The app becomes active and reads the permission, the same or another.
Activate(read) ==
    /\ Change
    /\ permission' = read
    /\ UNCHANGED <<clock, opt, shown, stored, silent>>
    /\ Ask /\ UNCHANGED device

\* The weather of the app: a refresh, which is stored, or what is stored.
Refresh(f) ==
    /\ Change
    /\ shown' = [of |-> f, at |-> clock] /\ stored' = shown'
    /\ UNCHANGED <<clock, opt, permission, silent>>
    /\ Ask /\ UNCHANGED device

ShowStored ==
    /\ shown = None /\ stored # None
    /\ shown' = stored
    /\ UNCHANGED <<clock, opt, permission, stored, silent, spent>>
    /\ Ask /\ UNCHANGED device

-----------------------------------------------------------------------------
(* The background task, the clock, and the end of the process.               *)

\* runBackgroundWeatherAlertTask reads the profile ...
TaskProfile ==
    /\ run["task"].step = "idle" /\ opt # {} /\ spent.tasks < MaxTasks
    /\ run' = [run EXCEPT !["task"].step = "profile", !["task"].on = opt]
    /\ spent' = [spent EXCEPT !.tasks = @ + 1]
    /\ UNCHANGED <<settings, device, queued, asked, silent, calm>>

\* ... plans from a fresh snapshot that is stored, or from one it fetches ...
TaskPlans ==
    /\ run["task"].step = "profile"
    /\ IF Fresh(stored, clock) THEN UNCHANGED stored
       ELSE \E f \in Forecasts : stored' = [of |-> f, at |-> clock]
    /\ Begin("task", [on |-> run["task"].on, snapshot |-> stored'])
    /\ UNCHANGED <<clock, opt, permission, shown, device, queued, asked, silent, spent>>

\* ... or fails to.
TaskFails ==
    /\ run["task"].step = "profile"
    /\ run' = [run EXCEPT !["task"] = Idle]
    /\ UNCHANGED <<settings, device, queued, asked, silent, calm, spent>>

\* Time passes and what is due is announced: on record when no run is under way
\* and its row says so.
Tick ==
    LET due == {id \in Ids : system[id] <= clock + 1}
        settled == \A s \in Schedulers : ~AtWork(s)
    IN  /\ clock < MaxTime
        /\ clock' = clock + 1
        /\ system' = [id \in Ids |-> IF id \in due THEN Never ELSE system[id]]
        /\ heard' = [id \in Ids |-> IF id \in due
               THEN Hearing(heard[id], settled /\ ledger[id] = system[id]) ELSE heard[id]]
        /\ UNCHANGED <<opt, permission, shown, stored, queued, run, ledger,
                       asked, silent, calm, spent>>

\* The process ends: both schedulers are gone, and what the app showed.
Crash ==
    /\ Failed
    /\ run' = [s \in Schedulers |-> Idle]
    /\ queued' = None /\ shown' = None /\ permission' = "unread"
    /\ asked' = [last |-> None, taken |-> None]
    /\ UNCHANGED <<clock, opt, stored, device, silent, calm>>

-----------------------------------------------------------------------------
RunStep(s) ==
    \/ List(s) \/ Cancel(s) \/ CancelRefused(s) \/ GiveUp(s) \/ Delete(s) \/ Plan(s)
    \/ Pending(s) \/ Rewrite(s) \/ Rewritten(s) \/ Save(s) \/ Fails(s)
    \/ \E n \in run[s].todo : Schedule(s, n) \/ ScheduleRefused(s, n)

Next ==
    \/ \E s \in Schedulers : RunStep(s)
    \/ \E kind \in Kinds : Switch(kind)
    \/ \E read \in {"granted", "denied", "unread"} : Activate(read)
    \/ \E f \in Forecasts : Refresh(f)
    \/ ShowStored
    \/ TaskProfile \/ TaskPlans \/ TaskFails
    \/ Tick \/ Crash

Spec == Init /\ [][Next]_vars

-----------------------------------------------------------------------------
Hearings == {"no", "off record", "on record", "again"}
TypeOK ==
    /\ clock \in 0 .. MaxTime /\ opt \in SUBSET Kinds
    /\ permission \in {"granted", "denied", "unread"}
    /\ shown \in Snapshots \cup {None} /\ stored \in Snapshots \cup {None}
    /\ queued \in Inputs \cup {None} /\ run \in [Schedulers -> Runs]
    /\ system \in [Ids -> 0 .. Never] /\ ledger \in [Ids -> 0 .. Never]
    /\ asked \in [last : Inputs \cup {None}, taken : Inputs \cup {None}]
    /\ heard \in [Ids -> Hearings] /\ silent \in SUBSET Kinds /\ calm \in BOOLEAN
    /\ spent \in [changes : 0 .. MaxChanges, tasks : 0 .. MaxTasks, failures : 0 .. MaxFailures]

\* Once a run has got through alone, the system and the ledger hold the same
\* notifications for the same times, whatever failed or overlapped before.
Consistent ==
    /\ TypeOK
    /\ calm => \A id \in Ids : system[id] = IF ledger[id] > clock THEN ledger[id] ELSE Never

\* The app at rest has taken up the last thing it was asked.
Heeded == ~AtWork("app") => asked.taken = asked.last

\* A kind that was switched off, and taken back with nothing else at work, stays
\* silent until it is switched on again.
OptOutHolds == \A id \in Ids : NotificationKind(id) \in silent => system[id] = Never

\* What was announced on record is not announced again.
AnnouncedOnce == \A id \in Ids : heard[id] # "again"
=============================================================================
