------------------------------- MODULE Weather -------------------------------
(***************************************************************************)
(* The place in use and its weather: the controller's selections (a tap on    *)
(* "use my location", a place picked by name, a return from Settings, a       *)
(* location read again on the foreground), its refreshes and revalidations,   *)
(* the rows they store, and the background task that stores beside them.      *)
(*                                                                            *)
(* Every action runs one stretch of JavaScript between two awaits.  A write   *)
(* and what its caller does with the answer are one step; a read of the cache *)
(* and what is done with it are two.  A place is its key and its time zone.   *)
(* Left out: the permission shown, names and accuracy (a device place may be  *)
(* selected again for them), which card shows but for a denial for good,      *)
(* telemetry, and a clock that moves backwards.                               *)
(***************************************************************************)
EXTENDS Naturals, FiniteSets

CONSTANTS
    Device, Manual,     \* places the device finds, and places picked by name
    NoPlace,
    Slots, NoSlot,      \* calls that may be under way at once (a bound)
    Window,             \* how long a snapshot is fresh
    Overtakes,          \* BOOLEAN: a device lookup may be answered before an earlier one
    MaxNow              \* bound: the clock

ASSUME WeatherAssumption ==
    /\ Device \cap Manual = {} /\ NoPlace \notin Device \cup Manual /\ NoSlot \notin Slots
    /\ Window \in Nat /\ MaxNow \in Nat \ {0} /\ Overtakes \in BOOLEAN

VARIABLES
    st,         \* the controller's state
    call,       \* call[c]: where a selection, a foreground or a Settings trip waits
    trip,       \* the trip that endSettingsTrip ends
    check,      \* the revalidation that reads the cache
    refreshes,  \* the places whose refresh is in flight
    disk,       \* the stored location, and when each place's stored snapshot was fetched
    access,     \* the system's answer: may ask, denied for good, granted
    now

vars == <<st, call, trip, check, refreshes, disk, access, now>>

Places == Device \cup Manual
NoSnapshot == [place |-> NoPlace, at |-> 0]
Loading == [status |-> "loading", active |-> NoPlace, snapshot |-> NoSnapshot, fresh |-> "none",
            flow |-> "idle", selecting |-> FALSE, refreshing |-> FALSE, failed |-> FALSE]
\* place: to be saved, or the one the lookup may correct.  tap: the trip it
\* finishes.  behind: the calls whose lookups were asked for before.  outdone:
\* another place was selected since it was asked for.
NoCall == [pc |-> "idle", place |-> NoPlace, read |-> 0, tap |-> NoSlot,
           behind |-> {}, outdone |-> FALSE]
NoCheck == [pc |-> "idle", place |-> NoPlace, read |-> 0]

Init ==
    /\ st = Loading /\ call = [c \in Slots |-> NoCall] /\ trip = NoSlot
    /\ check = NoCheck /\ refreshes = {}
    /\ disk = [active |-> NoPlace, at |-> [p \in Places |-> 0]]
    /\ access = "ask" /\ now = 1

Ready == st.status = "ready"
On(c, pc) == call[c].pc = pc
Idle(c) == On(c, "idle")
Selecting(c) == call[c].pc \in {"ask", "fix", "save", "cache", "cached"}

\* weatherFreshness of a snapshot fetched at some time; none was fetched at 0.
Freshness(at) == IF at = 0 THEN "none" ELSE IF now - at <= Window THEN "fresh" ELSE "stale"
Describes(s, p) == p # NoPlace /\ s.place = p

\* Mutant: every snapshot is kept.
AllKept(at, active) == {at}

\* pruneSnapshots: the active place's, and a newest one of the others.
Pruned(at, active) ==
    LET others == Places \ {active}
        newest == IF others = {} THEN {active} ELSE {q \in others : \A p \in others : at[q] >= at[p]}
    IN  {[p \in Places |-> IF p \in {active, q} THEN at[p] ELSE 0] : q \in newest}

\* replaceSnapshot: an older one never replaces what is stored.
Stores(p, at) ==
    IF disk.at[p] >= at THEN UNCHANGED disk
    ELSE \E kept \in Pruned([disk.at EXCEPT ![p] = at], disk.active) : disk' = [disk EXCEPT !.at = kept]

-----------------------------------------------------------------------------
(* Refreshes, one in flight for each place.                                  *)

\* refreshLocation from state s: joining a running one shows it too.
Asks(s, p) ==
    /\ st' = IF s.active = p THEN [s EXCEPT !.refreshing = TRUE] ELSE s
    /\ refreshes' = refreshes \cup {p}

refresh ==
    /\ Ready /\ st.active # NoPlace
    /\ Asks(st, st.active)
    /\ UNCHANGED <<call, trip, check, disk, access, now>>

\* The Worker may answer with weather it had cached.
RefreshLands(p) ==
    /\ p \in refreshes
    /\ \E at \in 1..now :
        /\ Stores(p, at)
        /\ LET held == IF disk.at[p] >= at THEN disk.at[p] ELSE at IN
           st' = IF st.active # p THEN st
                 ELSE [st EXCEPT !.snapshot = [place |-> p, at |-> held], !.fresh = Freshness(held),
                                 !.refreshing = FALSE, !.failed = FALSE]
    /\ refreshes' = refreshes \ {p}
    /\ UNCHANGED <<call, trip, check, access, now>>

\* Mutant: the failure is not shown.
RefreshFailsQuietly(p) ==
    /\ p \in refreshes
    /\ st' = IF st.active # p THEN st ELSE [st EXCEPT !.refreshing = FALSE]
    /\ refreshes' = refreshes \ {p}
    /\ UNCHANGED <<call, trip, check, disk, access, now>>

RefreshFails(p) ==
    /\ p \in refreshes
    /\ st' = IF st.active # p THEN st ELSE [st EXCEPT !.refreshing = FALSE, !.failed = TRUE]
    /\ refreshes' = refreshes \ {p}
    /\ UNCHANGED <<call, trip, check, disk, access, now>>

-----------------------------------------------------------------------------
(* Revalidation, on focus and on the foreground.                             *)

\* Mutant: the label speaks of the snapshot, whichever place it describes.
RevaluedAnywhere(s) == [s EXCEPT !.fresh = Freshness(s.snapshot.at)]

\* revalidated: another place's snapshot is never fresh.
Revalued(s) ==
    [s EXCEPT !.fresh = IF s.snapshot = NoSnapshot THEN "none"
                        ELSE IF Describes(s.snapshot, s.active) THEN Freshness(s.snapshot.at) ELSE "stale"]

\* revalidateFreshness from state s, up to its read.  One reads at a time (a bound).
Revalidates(s) ==
    IF s.active # NoPlace /\ Revalued(s).fresh # "fresh"
    THEN check.pc = "idle" /\ check' = [NoCheck EXCEPT !.pc = "read", !.place = s.active] /\ st' = s
    ELSE st' = Revalued(s) /\ UNCHANGED check

revalidateFreshness ==
    /\ Ready /\ Revalidates(st)
    /\ UNCHANGED <<call, trip, refreshes, disk, access, now>>

\* Unreadable is no snapshot.
CheckReads ==
    /\ check.pc = "read"
    /\ \E at \in {0, disk.at[check.place]} : check' = [check EXCEPT !.pc = "have", !.read = at]
    /\ UNCHANGED <<st, call, trip, refreshes, disk, access, now>>

CheckLands ==
    /\ check.pc = "have"
    /\ check' = NoCheck
    /\ LET at == check.read
           s == Revalued(st) IN
       IF Freshness(at) = "fresh" /\ check.place = st.active /\ at > st.snapshot.at
       THEN /\ st' = [st EXCEPT !.snapshot = [place |-> st.active, at |-> at], !.fresh = "fresh", !.failed = FALSE]
            /\ UNCHANGED refreshes
       ELSE IF s.fresh = "fresh" THEN st' = s /\ UNCHANGED refreshes
       ELSE Asks(s, s.active)
    /\ UNCHANGED <<call, trip, disk, access, now>>

-----------------------------------------------------------------------------
(* Selections.                                                               *)

\* The call is over; a foreground that finishes a Settings trip ends it.
Returned(c) == [d \in Slots |-> IF d \in {c, call[c].tap} THEN NoCall ELSE call[d]]

\* Mutant: the trip's caller is not told.
EndsTripSilently(c, next) == call' = [d \in Slots |-> IF d = c THEN next ELSE call[d]] /\ trip' = NoSlot

\* cancelSettingsTrip, and call c goes on as next.
EndsTrip(c, next) ==
    /\ call' = [d \in Slots |-> IF d = c THEN next ELSE IF d = trip THEN NoCall ELSE call[d]]
    /\ trip' = NoSlot

\* A device lookup is asked for; lookups are answered in turn unless Overtakes.
Behind == {d \in Slots : call[d].pc \in {"fix", "refix"}}
LookupAnswered(c) == Overtakes \/ call[c].behind = {}
InTurn(c, calls) == [d \in Slots |-> [calls[d] EXCEPT !.behind = IF d = c THEN {} ELSE @ \ {c}]]
Acquiring(s) == [s EXCEPT !.selecting = TRUE, !.flow = "idle"]

\* The button, which does nothing while a selection is under way.
beginDeviceLocationSelection(c) ==
    /\ Ready /\ Idle(c) /\ ~st.selecting
    /\ EndsTrip(c, [NoCall EXCEPT !.pc = "ask"])
    /\ st' = Acquiring(st)
    /\ UNCHANGED <<check, refreshes, disk, access, now>>

\* The permission is read, and asked for where it may be.
PermissionAnswered(c) ==
    /\ On(c, "ask")
    /\ access' \in IF access = "ask" THEN {"ask", "denied", "granted"} ELSE {access}
    /\ IF access' = "granted"
       THEN /\ call' = [call EXCEPT ![c].pc = "fix", ![c].behind = Behind]
            /\ UNCHANGED st
       ELSE /\ call' = Returned(c)
            /\ st' = [st EXCEPT !.selecting = FALSE, !.flow = IF access' = "ask" THEN "card" ELSE "denied"]
    /\ UNCHANGED <<trip, check, refreshes, disk, now>>

FixAnswered(c) ==
    /\ On(c, "fix") /\ LookupAnswered(c)
    /\ \/ /\ call' = InTurn(c, Returned(c))
          /\ st' = [st EXCEPT !.selecting = FALSE, !.flow = "card"]
       \/ /\ \E d \in Device : call' = InTurn(c, [call EXCEPT ![c].pc = "save", ![c].place = d])
          /\ st' = Acquiring(st)
    /\ UNCHANGED <<trip, check, refreshes, disk, access, now>>

selectPlaceSearchResult(c) ==
    /\ Ready /\ Idle(c) /\ ~st.selecting
    /\ \E p \in Manual : EndsTrip(c, [NoCall EXCEPT !.pc = "save", !.place = p])
    /\ st' = Acquiring(st)
    /\ UNCHANGED <<check, refreshes, disk, access, now>>

\* Mutant: the indicator of the place before stays on.
SwitchedBusy(p) ==
    [st EXCEPT !.active = p, !.failed = FALSE, !.fresh = IF p # st.active /\ @ # "none" THEN "stale" ELSE @]

\* The place before keeps its weather on screen, never as fresh.
Switched(p) ==
    [st EXCEPT !.active = p, !.failed = FALSE, !.refreshing = FALSE,
               !.fresh = IF p # st.active /\ @ # "none" THEN "stale" ELSE @]

\* selectLocation: the place is stored and shown.
Saved(c) ==
    /\ On(c, "save")
    /\ LET p == call[c].place IN
        /\ \E kept \in Pruned(disk.at, p) : disk' = [active |-> p, at |-> kept]
        /\ st' = Switched(p)
        /\ call' = [d \in Slots |-> IF d = c THEN [call[c] EXCEPT !.pc = "cache"]
                     ELSE [call[d] EXCEPT !.outdone = ~Idle(d) /\ (@ \/ p # st.active)]]
    /\ UNCHANGED <<trip, check, refreshes, access, now>>

SaveFails(c) ==
    /\ On(c, "save")
    /\ call' = Returned(c)
    /\ st' = [st EXCEPT !.selecting = FALSE, !.flow = "card"]
    /\ UNCHANGED <<trip, check, refreshes, disk, access, now>>

CacheReads(c) ==
    /\ On(c, "cache")
    /\ \E at \in {0, disk.at[call[c].place]} : call' = [call EXCEPT ![c].pc = "cached", ![c].read = at]
    /\ UNCHANGED <<st, trip, check, refreshes, disk, access, now>>

\* Mutant: what landed while the cache was read is not looked at.
Cached(c) == call[c].read

\* The newer of the cached snapshot and one that landed meanwhile.
Newer(c) ==
    IF Describes(st.snapshot, call[c].place) /\ st.snapshot.at > call[c].read
    THEN st.snapshot.at ELSE call[c].read

\* A place that is not fresh is asked for.
CacheLands(c) ==
    /\ On(c, "cached")
    /\ call' = Returned(c)
    /\ LET p == call[c].place
           at == Newer(c)
           shown == IF at = 0 THEN st
                    ELSE [st EXCEPT !.snapshot = [place |-> p, at |-> at], !.fresh = Freshness(at)]
           s == [shown EXCEPT !.selecting = FALSE, !.refreshing = FALSE, !.failed = FALSE]
       IN  IF Freshness(at) = "fresh" THEN st' = s /\ UNCHANGED refreshes ELSE Asks(s, p)
    /\ UNCHANGED <<trip, check, disk, access, now>>

-----------------------------------------------------------------------------
(* Settings, the foreground and the launch.                                  *)

\* Offered while the denial is shown; system Settings open, or they do not.
openApplicationSettings(c) ==
    /\ Ready /\ st.flow = "denied" /\ Idle(c)
    /\ \/ /\ call' = [d \in Slots |-> IF d = c THEN [NoCall EXCEPT !.pc = "trip"]
                                      ELSE IF d = trip THEN NoCall ELSE call[d]]
          /\ trip' = c /\ UNCHANGED st
       \/ /\ EndsTrip(c, NoCall)
          /\ st' = [st EXCEPT !.flow = "card"]
    /\ UNCHANGED <<check, refreshes, disk, access, now>>

dismissLocationFlow ==
    /\ Ready /\ st.flow # "idle"
    /\ EndsTrip(NoSlot, NoCall)
    /\ st' = [st EXCEPT !.flow = "idle"]
    /\ UNCHANGED <<check, refreshes, disk, access, now>>

GrantedInSettings ==
    /\ trip # NoSlot /\ access = "denied"
    /\ access' = "granted"
    /\ UNCHANGED <<st, call, trip, check, refreshes, disk, now>>

onForeground(c) ==
    /\ Idle(c)
    /\ \/ Ready /\ call' = [call EXCEPT ![c].pc = "return"] /\ UNCHANGED st
       \/ st.status = "error" /\ st' = Loading /\ UNCHANGED call
    /\ UNCHANGED <<trip, check, refreshes, disk, access, now>>

\* The permission is read.  Access granted in Settings finishes the tap that
\* sent the person there; otherwise a device location is read again.
Foregrounded(c) ==
    /\ On(c, "return")
    /\ trip' = NoSlot
    /\ LET granted == access = "granted"
           s == [st EXCEPT !.flow = IF granted THEN "idle" ELSE @]
           finishes == trip # NoSlot /\ granted
           corrects == ~finishes /\ granted /\ st.active \in Device
           next == IF finishes THEN [NoCall EXCEPT !.pc = "fix", !.tap = trip, !.behind = Behind,
                                                   !.outdone = call[trip].outdone]
                   ELSE IF corrects THEN [NoCall EXCEPT !.pc = "refix", !.place = st.active, !.behind = Behind]
                   ELSE NoCall
       IN  /\ call' = [d \in Slots |-> IF d = c THEN next
                                       ELSE IF d = trip /\ ~finishes THEN NoCall ELSE call[d]]
           /\ Revalidates(IF finishes THEN Acquiring(s) ELSE s)
    /\ UNCHANGED <<refreshes, disk, access, now>>

\* Mutant: a selection being saved is not looked at.
MayCorrectBlind(c) == st.active = call[c].place

\* Mutant: a selection made meanwhile is not looked at.
MayCorrectLate(c) == ~st.selecting

\* No selection was made, nor is being saved, since the lookup began.
MayCorrect(c) == st.active = call[c].place /\ ~st.selecting

\* reacquireDeviceLocation: nothing new, or another place (or name) is selected.
RefixAnswered(c) ==
    /\ On(c, "refix") /\ LookupAnswered(c)
    /\ \/ call' = InTurn(c, Returned(c)) /\ UNCHANGED st
       \/ /\ MayCorrect(c)
          /\ \E d \in Device : call' = InTurn(c, [call EXCEPT ![c].pc = "save", ![c].place = d])
          /\ st' = Acquiring(st)
    /\ UNCHANGED <<trip, check, refreshes, disk, access, now>>

\* initialize: the stored place and its cached weather, or nothing can be read.
Loaded ==
    /\ st.status = "loading"
    /\ \/ /\ st' = [st EXCEPT !.status = "error"] /\ UNCHANGED refreshes
       \/ LET p == disk.active IN \E at \in {0, IF p = NoPlace THEN 0 ELSE disk.at[p]} :
          LET s == [Loading EXCEPT !.status = "ready", !.active = p, !.fresh = Freshness(at),
                                   !.snapshot = IF at = 0 THEN NoSnapshot ELSE [place |-> p, at |-> at]]
          IN  IF p = NoPlace \/ s.fresh = "fresh" THEN st' = s /\ UNCHANGED refreshes ELSE Asks(s, p)
    /\ UNCHANGED <<call, trip, check, disk, access, now>>

\* The process ends, and may come back with another permission.
Killed ==
    /\ Ready
    /\ st' = Loading /\ call' = [c \in Slots |-> NoCall] /\ trip' = NoSlot
    /\ check' = NoCheck /\ refreshes' = {}
    /\ access' \in IF access = "ask" THEN {"ask"} ELSE {"denied", "granted"}
    /\ UNCHANGED <<disk, now>>

-----------------------------------------------------------------------------
(* The background task and the clock.                                        *)

\* Unless what is stored is fresh.  A place that another one replaces before its
\* weather is stored is as one whose refresh lands late.
BackgroundStores ==
    /\ disk.active # NoPlace /\ Freshness(disk.at[disk.active]) # "fresh"
    /\ \E at \in 1..now : Stores(disk.active, at)
    /\ UNCHANGED <<st, call, trip, check, refreshes, access, now>>

Tick ==
    /\ now < MaxNow
    /\ now' = now + 1
    /\ UNCHANGED <<st, call, trip, check, refreshes, disk, access>>

-----------------------------------------------------------------------------
Next ==
    \/ refresh \/ revalidateFreshness \/ CheckReads \/ CheckLands
    \/ \E p \in Places : RefreshLands(p) \/ RefreshFails(p)
    \/ \E c \in Slots :
        \/ beginDeviceLocationSelection(c) \/ PermissionAnswered(c) \/ FixAnswered(c)
        \/ selectPlaceSearchResult(c) \/ Saved(c) \/ SaveFails(c) \/ CacheReads(c) \/ CacheLands(c)
        \/ openApplicationSettings(c) \/ onForeground(c) \/ Foregrounded(c) \/ RefixAnswered(c)
    \/ dismissLocationFlow \/ GrantedInSettings \/ Loaded \/ Killed
    \/ BackgroundStores \/ Tick

Spec == Init /\ [][Next]_vars

-----------------------------------------------------------------------------
\* The types of the state; a snapshot has a label, and beside the active place
\* only one other keeps its stored weather.
TypeOK ==
    /\ st \in [status : {"loading", "error", "ready"}, active : Places \cup {NoPlace},
              snapshot : [place : Places \cup {NoPlace}, at : 0..MaxNow],
              fresh : {"none", "fresh", "stale"},
              flow : {"idle", "card", "denied"},
              selecting : BOOLEAN, refreshing : BOOLEAN, failed : BOOLEAN]
    /\ call \in [Slots -> [pc : {"idle", "ask", "fix", "save", "cache", "cached", "trip", "return", "refix"},
                           place : Places \cup {NoPlace}, read : 0..MaxNow,
                           tap : Slots \cup {NoSlot}, behind : SUBSET Slots, outdone : BOOLEAN]]
    /\ trip \in Slots \cup {NoSlot}
    /\ check \in [pc : {"idle", "read", "have"}, place : Places \cup {NoPlace}, read : 0..MaxNow]
    /\ refreshes \subseteq Places
    /\ disk \in [active : Places \cup {NoPlace}, at : [Places -> 0..MaxNow]]
    /\ access \in {"ask", "denied", "granted"} /\ now \in 1..MaxNow
    /\ st.fresh = "none" <=> st.snapshot = NoSnapshot
    /\ Cardinality({p \in Places \ {disk.active} : disk.at[p] # 0}) <= 1

\* The screen says a location is being selected exactly while one selection is
\* under way, and two never run at once, whatever the buttons, the return from
\* Settings and the foreground's own lookup start.
OneSelection ==
    Cardinality({c \in Slots : Selecting(c)}) = IF st.selecting THEN 1 ELSE 0

\* Weather kept on screen from another place is never labelled fresh.
FreshIsOwn == st.fresh = "fresh" => Describes(st.snapshot, st.active)

\* The refresh indicator is on only while a request of the place in use runs
\* that will switch it off.
RefreshShown == st.refreshing => st.active \in refreshes

\* A place in use that has no weather on screen is being asked for, or its
\* failure is shown: no selection, revalidation or launch leaves it blank.
NeverLeftBlank ==
    Ready /\ st.active # NoPlace /\ ~st.selecting /\ ~Describes(st.snapshot, st.active)
        => st.failed \/ st.active \in refreshes

\* Every trip to Settings ends: the next foreground ends it, or has begun to.
TripEnds ==
    \A c \in Slots : On(c, "trip") => trip = c \/ \E d \in Slots : call[d].tap = c

\* While a place stays in use, weather on screen that is stored too is never
\* dropped, nor replaced by weather fetched earlier, whichever of a refresh, a
\* selection, a revalidation and the background task answers last.
NeverBack ==
    [][st.active = st'.active /\ st'.status = "ready" /\ Describes(st.snapshot, st.active)
        => \/ disk.at[st.active] < st.snapshot.at
           \/ Describes(st'.snapshot, st.active) /\ st'.snapshot.at >= st.snapshot.at]_vars

\* What a lookup found is never stored over another place that was selected
\* after the lookup, or the tap it finishes, was asked for.
LastTapWins ==
    [][\A c \in Slots : On(c, "save") /\ call'[c].pc = "cache" => ~call[c].outdone]_vars

\* The state hangs together: what the screen says of selections, refreshes and
\* freshness is so, a place is never left blank, and a trip to Settings is ended
\* by someone.
Consistent ==
    TypeOK /\ OneSelection /\ FreshIsOwn /\ RefreshShown /\ NeverLeftBlank /\ TripEnds
=============================================================================
