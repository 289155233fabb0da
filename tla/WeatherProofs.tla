---------------------------- MODULE WeatherProofs ----------------------------
(***************************************************************************)
(* Proofs about Weather: that what the screen says of selections, refreshes   *)
(* and freshness is so, that weather on screen never gives way to older       *)
(* weather, and that no lookup overrides a later selection, for any number of *)
(* places and of calls under way.                                             *)
(***************************************************************************)
EXTENDS Weather, FiniteSetTheorems, TLAPS

States == [status : {"loading", "error", "ready"}, active : Places \cup {NoPlace},
           snapshot : [place : Places \cup {NoPlace}, at : 0..MaxNow],
           fresh : {"none", "fresh", "stale"}, flow : {"idle", "card", "denied"},
           selecting : BOOLEAN, refreshing : BOOLEAN, failed : BOOLEAN]
CallSteps == {"idle", "ask", "fix", "save", "cache", "cached", "trip", "return", "refix"}
Calls == [pc : CallSteps, place : Places \cup {NoPlace}, read : 0..MaxNow,
          tap : Slots \cup {NoSlot}, behind : SUBSET Slots, outdone : BOOLEAN]
Checks == [pc : {"idle", "read", "have"}, place : Places \cup {NoPlace}, read : 0..MaxNow]
Disks == [active : Places \cup {NoPlace}, at : [Places -> 0..MaxNow]]

\* The types alone.
Types ==
    /\ st \in States /\ call \in [Slots -> Calls] /\ trip \in Slots \cup {NoSlot}
    /\ check \in Checks /\ refreshes \subseteq Places /\ disk \in Disks
    /\ access \in {"ask", "denied", "granted"} /\ now \in 1..MaxNow

-----------------------------------------------------------------------------
(* What the operators return.                                                *)

LEMMA ConstantFacts ==
    /\ 0 \in 0..MaxNow /\ 1 \in 1..MaxNow /\ NoSnapshot \in [place : Places \cup {NoPlace}, at : 0..MaxNow]
    /\ Loading \in States /\ [Loading EXCEPT !.status = "error"] \in States
    /\ NoCall \in Calls /\ NoCheck \in Checks /\ NoPlace \notin Places
    /\ \A p \in Manual : p \notin Device
<1>1. 0 \in 0..MaxNow /\ 1 \in 1..MaxNow /\ NoPlace \notin Places /\ \A p \in Manual : p \notin Device
  BY WeatherAssumption DEF Places
<1>2. NoSnapshot \in [place : Places \cup {NoPlace}, at : 0..MaxNow]
  BY <1>1 DEF NoSnapshot
<1>3. Loading \in States /\ [Loading EXCEPT !.status = "error"] \in States
  BY <1>2 DEF Loading, States
<1>4. NoCall \in Calls /\ NoCheck \in Checks
  BY <1>1 DEF NoCall, Calls, CallSteps, NoCheck, Checks
<1> QED
  BY <1>1, <1>2, <1>3, <1>4

LEMMA FreshnessFacts ==
    ASSUME NEW at
    PROVE  /\ Freshness(at) \in {"none", "fresh", "stale"}
           /\ Freshness(at) = "none" <=> at = 0
BY DEF Freshness

\* A label given again changes nothing else, and is fresh of its own place only.
LEMMA RevaluedFacts ==
    ASSUME NEW s \in States
    PROVE  LET r == Revalued(s) IN
           /\ r \in States
           /\ r.status = s.status /\ r.active = s.active /\ r.snapshot = s.snapshot /\ r.flow = s.flow
           /\ r.selecting = s.selecting /\ r.refreshing = s.refreshing /\ r.failed = s.failed
           /\ r.fresh = "fresh" => Describes(s.snapshot, s.active)
           /\ s.snapshot = NoSnapshot => r.fresh = "none"
           /\ s.snapshot # NoSnapshot /\ s.snapshot.at # 0 => r.fresh # "none"
<1>1. PICK fresh \in {"none", "fresh", "stale"} :
        /\ Revalued(s) = [s EXCEPT !.fresh = fresh]
        /\ fresh = "fresh" => Describes(s.snapshot, s.active)
        /\ s.snapshot = NoSnapshot => fresh = "none"
        /\ s.snapshot # NoSnapshot /\ s.snapshot.at # 0 => fresh # "none"
  BY FreshnessFacts DEF Revalued
<1> QED
  BY <1>1 DEF States

\* A refresh asked for from state s is shown while its place is in use.
LEMMA AsksFacts ==
    ASSUME NEW s \in States, NEW p \in Places, Asks(s, p)
    PROVE  /\ st' \in States /\ refreshes' = refreshes \cup {p}
           /\ st'.status = s.status /\ st'.active = s.active /\ st'.snapshot = s.snapshot
           /\ st'.fresh = s.fresh /\ st'.flow = s.flow /\ st'.selecting = s.selecting
           /\ st'.failed = s.failed
           /\ st'.refreshing = (s.refreshing \/ s.active = p)
BY DEF Asks, States

\* A revalidation from state s leaves it, or gives its label again.
LEMMA RevalidatesFacts ==
    ASSUME Types, NEW s \in States, Revalidates(s)
    PROVE  /\ st' \in {s, Revalued(s)} /\ st' \in States /\ check' \in Checks
           /\ \/ check' = check
              \/ check'.pc = "read" /\ check'.place = s.active /\ s.active \in Places
<1>1. CASE s.active # NoPlace /\ Revalued(s).fresh # "fresh"
  <2>1. check' = [NoCheck EXCEPT !.pc = "read", !.place = s.active] /\ st' = s
    BY <1>1 DEF Revalidates
  <2>2. s.active \in Places
    BY <1>1 DEF States
  <2> QED
    BY <2>1, <2>2, ConstantFacts DEF Checks, NoCheck
<1>2. CASE ~(s.active # NoPlace /\ Revalued(s).fresh # "fresh")
  BY <1>2, RevaluedFacts DEF Revalidates, Types
<1> QED
  BY <1>1, <1>2

\* What is kept: the active place's snapshot and one other's.
LEMMA PrunedFacts ==
    ASSUME NEW at \in [Places -> 0..MaxNow], NEW active \in Places \cup {NoPlace},
           NEW kept \in Pruned(at, active)
    PROVE  /\ kept \in [Places -> 0..MaxNow] /\ \A p \in Places : kept[p] \in {0, at[p]}
           /\ active \in Places => kept[active] = at[active]
           /\ \E q : \A p \in Places \ {active} : kept[p] # 0 => p = q
<1>1. PICK q : kept = [p \in Places |-> IF p \in {active, q} THEN at[p] ELSE 0]
  BY DEF Pruned
<1> QED
  BY <1>1, ConstantFacts

\* At most one place beside the active one keeps its snapshot.
Retained == \E q : \A p \in Places \ {disk.active} : disk.at[p] # 0 => p = q

LEMMA StoresFacts ==
    ASSUME Types, NEW p \in Places, NEW at \in 1..now, Stores(p, at)
    PROVE  disk' \in Disks /\ disk'.active = disk.active /\ (Retained => Retained')
<1>1. CASE disk.at[p] >= at
  <2>1. disk' = disk
    BY <1>1 DEF Stores
  <2> QED
    BY <2>1 DEF Types, Retained
<1>2. CASE ~(disk.at[p] >= at)
  <2> DEFINE new == [disk.at EXCEPT ![p] = at]
  <2>1. PICK kept \in Pruned(new, disk.active) : disk' = [disk EXCEPT !.at = kept]
    BY <1>2 DEF Stores
  <2>2. new \in [Places -> 0..MaxNow]
    <3>1. at \in 0..MaxNow
      BY WeatherAssumption DEF Types
    <3> QED
      BY <3>1 DEF Types, Disks
  <2> HIDE DEF new
  <2>3. /\ kept \in [Places -> 0..MaxNow]
        /\ \E q : \A r \in Places \ {disk.active} : kept[r] # 0 => r = q
    <3>1. disk.active \in Places \cup {NoPlace}
      BY DEF Types, Disks
    <3> QED
      BY <2>1, <2>2, <3>1, PrunedFacts
  <2>4. disk' \in Disks /\ disk'.active = disk.active /\ disk'.at = kept
    BY <2>1, <2>3 DEF Types, Disks
  <2> QED
    BY <2>3, <2>4 DEF Retained
<1> QED
  BY <1>1, <1>2

\* What a call that returns leaves: itself and the tap it finished are over.
LEMMA ReturnedFacts ==
    ASSUME Types, NEW c \in Slots
    PROVE  /\ Returned(c) \in [Slots -> Calls]
           /\ \A d \in Slots : Returned(c)[d] = IF d = c \/ d = call[c].tap THEN NoCall ELSE call[d]
BY ConstantFacts DEF Types, Returned

\* A lookup that was answered is ahead of nobody.
Turned(calls, turned, c) ==
    \A d \in Slots :
        /\ turned[d].pc = calls[d].pc /\ turned[d].place = calls[d].place
        /\ turned[d].read = calls[d].read /\ turned[d].tap = calls[d].tap
        /\ turned[d].outdone = calls[d].outdone
        /\ turned[d].behind = IF d = c THEN {} ELSE calls[d].behind \ {c}

LEMMA InTurnFacts ==
    ASSUME NEW c \in Slots, NEW calls \in [Slots -> Calls]
    PROVE  InTurn(c, calls) \in [Slots -> Calls] /\ Turned(calls, InTurn(c, calls), c)
<1> DEFINE turned == InTurn(c, calls)
<1>1. ASSUME NEW d \in Slots
      PROVE  /\ turned[d] \in Calls
             /\ turned[d].pc = calls[d].pc /\ turned[d].place = calls[d].place
             /\ turned[d].read = calls[d].read /\ turned[d].tap = calls[d].tap
             /\ turned[d].outdone = calls[d].outdone
             /\ turned[d].behind = IF d = c THEN {} ELSE calls[d].behind \ {c}
  <2>1. calls[d] \in Calls
    OBVIOUS
  <2>2. turned[d] = [calls[d] EXCEPT !.behind = IF d = c THEN {} ELSE calls[d].behind \ {c}]
    BY DEF InTurn
  <2> QED
    BY <2>1, <2>2 DEF Calls
<1>2. turned = [d \in Slots |-> turned[d]]
  BY DEF InTurn
<1> HIDE DEF turned
<1>3. turned \in [Slots -> Calls] /\ Turned(calls, turned, c)
  BY <1>1, <1>2 DEF Turned
<1> QED
  BY <1>3 DEF turned

\* A call goes on as next, and the trip is over.
LEMMA EndsTripFacts ==
    ASSUME Types, NEW c, NEW next \in Calls, EndsTrip(c, next)
    PROVE  /\ call' \in [Slots -> Calls] /\ trip' = NoSlot
           /\ \A d \in Slots : call'[d] = IF d = c THEN next ELSE IF d = trip THEN NoCall ELSE call[d]
BY ConstantFacts DEF Types, EndsTrip

\* A lookup is answered: what it found is to be saved, or its call returns.
Untouched(d, c) ==
    /\ call'[d].pc = call[d].pc /\ call'[d].place = call[d].place /\ call'[d].read = call[d].read
    /\ call'[d].tap = call[d].tap /\ call'[d].outdone = call[d].outdone
    /\ call'[d].behind = call[d].behind \ {c}
LookupReturns(c) ==
    /\ st' \in {st, [st EXCEPT !.selecting = FALSE, !.flow = "card"]}
    /\ \A d \in Slots : IF d = c \/ d = call[c].tap
         THEN /\ call'[d].pc = "idle" /\ call'[d].tap = NoSlot
         ELSE Untouched(d, c)
LookupFound(c) ==
    /\ st' = Acquiring(st)
    /\ call'[c].pc = "save" /\ call'[c].place \in Device
    /\ call'[c].tap = call[c].tap /\ call'[c].outdone = call[c].outdone
    /\ \A d \in Slots \ {c} : Untouched(d, c)

LEMMA LookupFacts ==
    ASSUME Types, NEW c \in Slots, FixAnswered(c) \/ RefixAnswered(c)
    PROVE  /\ LookupAnswered(c) /\ call' \in [Slots -> Calls]
           /\ UNCHANGED <<trip, check, refreshes, disk, access, now>>
           /\ \/ LookupReturns(c)
                 /\ IF FixAnswered(c) THEN st' = [st EXCEPT !.selecting = FALSE, !.flow = "card"]
                    ELSE st' = st
              \/ LookupFound(c) /\ (FixAnswered(c) \/ MayCorrect(c))
<1>0. call[c] \in Calls /\ call \in [Slots -> Calls] /\ \A d \in Slots : call[d] \in Calls
  BY DEF Types
<1> DEFINE found(d) == [call EXCEPT ![c] = [call[c] EXCEPT !.pc = "save", !.place = d]]
<1>1. /\ LookupAnswered(c) /\ UNCHANGED <<trip, check, refreshes, disk, access, now>>
      /\ \/ call' = InTurn(c, Returned(c))
            /\ IF FixAnswered(c) THEN st' = [st EXCEPT !.selecting = FALSE, !.flow = "card"]
               ELSE st' = st
         \/ /\ st' = Acquiring(st) /\ (FixAnswered(c) \/ MayCorrect(c))
            /\ \E d \in Device : call' = InTurn(c, found(d))
  <2>1. CASE FixAnswered(c)
    BY <1>0, <2>1 DEF FixAnswered
  <2>2. CASE RefixAnswered(c) /\ ~FixAnswered(c)
    BY <1>0, <2>2 DEF RefixAnswered
  <2> QED
    BY <2>1, <2>2
<1>2. CASE /\ call' = InTurn(c, Returned(c))
           /\ IF FixAnswered(c) THEN st' = [st EXCEPT !.selecting = FALSE, !.flow = "card"]
              ELSE st' = st
  <2>1. PICK left \in [Slots -> Calls] :
          /\ call' = InTurn(c, left)
          /\ \A d \in Slots : left[d] = IF d = c \/ d = call[c].tap THEN NoCall ELSE call[d]
    BY <1>2, ReturnedFacts
  <2>2. ASSUME NEW d \in Slots
        PROVE  IF d = c \/ d = call[c].tap THEN call'[d].pc = "idle" /\ call'[d].tap = NoSlot
               ELSE Untouched(d, c)
    <3>1. Turned(left, call', c)
      BY <2>1, InTurnFacts
    <3>2. /\ call'[d].pc = left[d].pc /\ call'[d].place = left[d].place /\ call'[d].read = left[d].read
          /\ call'[d].tap = left[d].tap /\ call'[d].outdone = left[d].outdone
          /\ d # c => call'[d].behind = left[d].behind \ {c}
      BY <3>1 DEF Turned
    <3>3. CASE d = c \/ d = call[c].tap
      BY <2>1, <3>2, <3>3 DEF NoCall
    <3>4. CASE ~(d = c \/ d = call[c].tap)
      BY <2>1, <3>2, <3>4 DEF Untouched
    <3> QED
      BY <3>3, <3>4
  <2>3. call' \in [Slots -> Calls]
    BY <2>1, InTurnFacts
  <2>4. LookupReturns(c)
    BY <1>2, <2>2 DEF LookupReturns
  <2> QED
    BY <1>1, <1>2, <2>3, <2>4
<1>3. CASE /\ st' = Acquiring(st) /\ (FixAnswered(c) \/ MayCorrect(c))
           /\ \E d \in Device : call' = InTurn(c, found(d))
  <2>1. PICK p \in Device : call' = InTurn(c, found(p))
    BY <1>3
  <2>2. [call[c] EXCEPT !.pc = "save", !.place = p] \in Calls
    BY <1>0 DEF Calls, CallSteps, Places
  <2>3. /\ found(p) \in [Slots -> Calls] /\ found(p)[c].pc = "save" /\ found(p)[c].place = p
        /\ found(p)[c].tap = call[c].tap /\ found(p)[c].outdone = call[c].outdone
        /\ \A d \in Slots \ {c} : found(p)[d] = call[d]
    BY <1>0, <2>2 DEF Calls
  <2>4. PICK left \in [Slots -> Calls] : left = found(p) /\ call' = InTurn(c, left)
    BY <2>1, <2>3
  <2> HIDE DEF found
  <2>5. ASSUME NEW d \in Slots
        PROVE  /\ call'[d].pc = left[d].pc /\ call'[d].place = left[d].place
               /\ call'[d].read = left[d].read /\ call'[d].tap = left[d].tap
               /\ call'[d].outdone = left[d].outdone
               /\ d # c => call'[d].behind = left[d].behind \ {c}
    <3>1. Turned(left, call', c)
      BY <2>4, InTurnFacts
    <3> QED
      BY <3>1 DEF Turned
  <2>6. \A d \in Slots \ {c} : Untouched(d, c)
    BY <2>3, <2>4, <2>5 DEF Untouched
  <2>7. call' \in [Slots -> Calls]
    BY <2>4, InTurnFacts
  <2>8. LookupFound(c)
    BY <1>3, <2>3, <2>4, <2>5, <2>6 DEF LookupFound
  <2> QED
    BY <1>1, <1>3, <2>7, <2>8
<1> QED
  BY <1>1, <1>2, <1>3

\* The end of a selection: the cached weather is shown, and asked for anew unless
\* it is fresh.
LEMMA CacheLandsFacts ==
    ASSUME Types, NEW c \in Slots, CacheLands(c), call[c].place \in Places
    PROVE  \E s \in States, at \in 0..MaxNow :
             /\ at = Newer(c)
             /\ s.status = st.status /\ s.active = st.active /\ s.flow = st.flow
             /\ ~s.selecting /\ ~s.refreshing /\ ~s.failed
             /\ at = 0 => s.snapshot = st.snapshot /\ s.fresh = st.fresh
             /\ at # 0 => s.snapshot = [place |-> call[c].place, at |-> at] /\ s.fresh = Freshness(at)
             /\ \/ Freshness(at) = "fresh" /\ st' = s /\ refreshes' = refreshes
                \/ Asks(s, call[c].place)
<1> DEFINE p == call[c].place
           at == Newer(c)
           shown == IF at = 0 THEN st
                    ELSE [st EXCEPT !.snapshot = [place |-> p, at |-> at], !.fresh = Freshness(at)]
           s == [shown EXCEPT !.selecting = FALSE, !.refreshing = FALSE, !.failed = FALSE]
<1>0. st \in States /\ call[c] \in Calls
  BY DEF Types
<1>1. at \in 0..MaxNow /\ p \in Places
  BY <1>0 DEF Newer, Calls, States
<1>2. Freshness(at) \in {"none", "fresh", "stale"}
  BY FreshnessFacts
<1>3. \/ Freshness(at) = "fresh" /\ st' = s /\ refreshes' = refreshes
      \/ Asks(s, p)
  BY DEF CacheLands
<1> HIDE DEF at, p
<1>4. /\ s \in States /\ s.status = st.status /\ s.active = st.active /\ s.flow = st.flow
      /\ ~s.selecting /\ ~s.refreshing /\ ~s.failed
      /\ at = 0 => s.snapshot = st.snapshot /\ s.fresh = st.fresh
      /\ at # 0 => s.snapshot = [place |-> p, at |-> at] /\ s.fresh = Freshness(at)
  BY <1>0, <1>1, <1>2 DEF States
<1> HIDE DEF s
<1> QED
  BY <1>1, <1>3, <1>4 DEF at, p

-----------------------------------------------------------------------------
(* The types.                                                                *)

\* A step of a selection, of a foreground or of a trip.
SlotStep(c) ==
    \/ beginDeviceLocationSelection(c) \/ PermissionAnswered(c) \/ FixAnswered(c)
    \/ selectPlaceSearchResult(c) \/ Saved(c) \/ SaveFails(c) \/ CacheReads(c) \/ CacheLands(c)
    \/ openApplicationSettings(c) \/ onForeground(c) \/ Foregrounded(c) \/ RefixAnswered(c)

LEMMA SlotTypes ==
    ASSUME Types, Retained, NEW c \in Slots, SlotStep(c),
           call[c].pc \in {"save", "cache", "cached"} => call[c].place \in Places
    PROVE  Types' /\ Retained'
<1>0. /\ call[c] \in Calls /\ call \in [Slots -> Calls] /\ st \in States /\ check \in Checks
      /\ refreshes \subseteq Places /\ disk \in Disks /\ trip \in Slots \cup {NoSlot}
      /\ now \in 1..MaxNow
  BY DEF Types
<1>1. CASE beginDeviceLocationSelection(c)
  <2>1. [NoCall EXCEPT !.pc = "ask"] \in Calls
    BY ConstantFacts DEF Calls, CallSteps, NoCall
  <2>2. Acquiring(st) \in States
    BY <1>0 DEF Acquiring, States
  <2> QED
    BY <1>1, <2>1, <2>2, EndsTripFacts DEF beginDeviceLocationSelection, Types, Retained
<1>2. CASE PermissionAnswered(c)
  <2>1. call' \in [Slots -> Calls]
    <3>1. CASE access' = "granted"
      <4>1. [call[c] EXCEPT !.pc = "fix", !.behind = Behind] \in Calls
        BY <1>0 DEF Calls, CallSteps, Behind
      <4>2. call' = [call EXCEPT ![c] = [call[c] EXCEPT !.pc = "fix", !.behind = Behind]]
        BY <1>0, <1>2, <3>1 DEF PermissionAnswered
      <4> QED
        BY <1>0, <4>1, <4>2
    <3>2. CASE access' # "granted"
      BY <1>2, <3>2, ReturnedFacts DEF PermissionAnswered
    <3> QED
      BY <3>1, <3>2
  <2>2. st' \in {st, [st EXCEPT !.selecting = FALSE, !.flow = "card"],
                 [st EXCEPT !.selecting = FALSE, !.flow = "denied"]}
    BY <1>2 DEF PermissionAnswered
  <2>3. [st EXCEPT !.selecting = FALSE, !.flow = "card"] \in States
    BY <1>0 DEF States
  <2>4. [st EXCEPT !.selecting = FALSE, !.flow = "denied"] \in States
    BY <1>0 DEF States
  <2>5. st' \in States
    BY <1>0, <2>2, <2>3, <2>4
  <2> QED
    BY <1>2, <2>1, <2>5 DEF PermissionAnswered, Types, Retained
<1>3. CASE FixAnswered(c) \/ RefixAnswered(c)
  <2>1. st' \in {st, [st EXCEPT !.selecting = FALSE, !.flow = "card"], Acquiring(st)}
    BY <1>3, LookupFacts DEF LookupReturns, LookupFound
  <2>2. [st EXCEPT !.selecting = FALSE, !.flow = "card"] \in States /\ Acquiring(st) \in States
    BY <1>0 DEF States, Acquiring
  <2>3. st' \in States
    BY <1>0, <2>1, <2>2
  <2> QED
    BY <1>3, <2>3, LookupFacts DEF Types, Retained
<1>4. CASE selectPlaceSearchResult(c)
  <2>1. PICK p \in Manual : EndsTrip(c, [NoCall EXCEPT !.pc = "save", !.place = p])
    BY <1>4 DEF selectPlaceSearchResult
  <2>2. [NoCall EXCEPT !.pc = "save", !.place = p] \in Calls
    BY ConstantFacts DEF Calls, CallSteps, NoCall, Places
  <2>3. Acquiring(st) \in States
    BY <1>0 DEF Acquiring, States
  <2> QED
    BY <1>4, <2>1, <2>2, <2>3, EndsTripFacts DEF selectPlaceSearchResult, Types, Retained
<1>5. CASE Saved(c)
  <2> DEFINE p == call[c].place
  <2>0. p \in Places
    BY <1>5 DEF Saved, On
  <2>1. PICK kept \in Pruned(disk.at, p) : disk' = [active |-> p, at |-> kept]
    BY <1>5 DEF Saved
  <2>2. /\ kept \in [Places -> 0..MaxNow]
        /\ \E q : \A r \in Places \ {p} : kept[r] # 0 => r = q
    BY <1>0, <2>0, PrunedFacts DEF Disks
  <2>3. disk' \in Disks /\ Retained'
    BY <2>0, <2>1, <2>2 DEF Disks, Retained
  <2>4. st' \in States
    BY <1>0, <1>5, <2>0 DEF Saved, Switched, States
  <2>5. call' \in [Slots -> Calls]
    <3>1. \A d \in Slots : call[d] \in Calls
      BY <1>0
    <3>2. [call[c] EXCEPT !.pc = "cache"] \in Calls
      BY <1>0 DEF Calls, CallSteps
    <3>3. \A d \in Slots, outdone \in BOOLEAN : [call[d] EXCEPT !.outdone = outdone] \in Calls
      BY <3>1 DEF Calls
    <3>4. \A d \in Slots : (~Idle(d) /\ (call[d].outdone \/ p # st.active)) \in BOOLEAN
      OBVIOUS
    <3>5. call' = [d \in Slots |-> IF d = c THEN [call[c] EXCEPT !.pc = "cache"]
                   ELSE [call[d] EXCEPT !.outdone = ~Idle(d) /\ (call[d].outdone \/ p # st.active)]]
      BY <1>5 DEF Saved
    <3> HIDE DEF p
    <3> QED
      BY <3>2, <3>3, <3>4, <3>5
  <2> QED
    BY <1>5, <2>3, <2>4, <2>5 DEF Saved, Types
<1>6. CASE SaveFails(c)
  <2>1. st' \in States
    BY <1>0, <1>6 DEF SaveFails, States
  <2> QED
    BY <1>6, <2>1, ReturnedFacts DEF SaveFails, Types, Retained
<1>7. CASE CacheReads(c)
  <2>1. PICK at \in {0, disk.at[call[c].place]} :
          call' = [call EXCEPT ![c] = [call[c] EXCEPT !.pc = "cached", !.read = at]]
    BY <1>0, <1>7 DEF CacheReads
  <2>2. at \in 0..MaxNow
    BY <1>0, <1>7, ConstantFacts DEF CacheReads, On, Disks
  <2>3. [call[c] EXCEPT !.pc = "cached", !.read = at] \in Calls
    BY <1>0, <2>2 DEF Calls, CallSteps
  <2> QED
    BY <1>0, <1>7, <2>1, <2>3 DEF CacheReads, Types, Retained
<1>8. CASE CacheLands(c)
  <2>1. call[c].place \in Places
    BY <1>8 DEF CacheLands, On
  <2>2. PICK s \in States : (st' = s /\ refreshes' = refreshes) \/ Asks(s, call[c].place)
    BY <1>8, <2>1, CacheLandsFacts
  <2>3. st' \in States /\ refreshes' \subseteq Places
    BY <1>0, <2>1, <2>2, AsksFacts
  <2> QED
    BY <1>8, <2>3, ReturnedFacts DEF CacheLands, Types, Retained
<1>9. CASE openApplicationSettings(c)
  <2>1. st' \in States
    BY <1>0, <1>9 DEF openApplicationSettings, States
  <2>2. CASE /\ call' = [d \in Slots |-> IF d = c THEN [NoCall EXCEPT !.pc = "trip"]
                                        ELSE IF d = trip THEN NoCall ELSE call[d]]
             /\ trip' = c
    <3>1. [NoCall EXCEPT !.pc = "trip"] \in Calls
      BY ConstantFacts DEF Calls, CallSteps
    <3> QED
      BY <1>0, <1>9, <2>1, <2>2, <3>1, ConstantFacts DEF openApplicationSettings, Types, Retained
  <2>3. CASE EndsTrip(c, NoCall)
    BY <1>9, <2>1, <2>3, ConstantFacts, EndsTripFacts DEF openApplicationSettings, Types, Retained
  <2> QED
    BY <1>9, <2>2, <2>3 DEF openApplicationSettings
<1>10. CASE onForeground(c)
  <2>1. call' = call \/ call' = [call EXCEPT ![c] = [call[c] EXCEPT !.pc = "return"]]
    BY <1>0, <1>10 DEF onForeground
  <2>2. [call[c] EXCEPT !.pc = "return"] \in Calls
    BY <1>0 DEF Calls, CallSteps
  <2>3. st' \in States
    BY <1>0, <1>10, ConstantFacts DEF onForeground
  <2> QED
    BY <1>0, <1>10, <2>1, <2>2, <2>3 DEF onForeground, Types, Retained
<1>11. CASE Foregrounded(c)
  <2>1. PICK next \in Calls, left \in Calls \cup {NoCall} :
          /\ call' = [d \in Slots |-> IF d = c THEN next ELSE IF d = trip THEN left ELSE call[d]]
          /\ trip' = NoSlot /\ UNCHANGED <<refreshes, disk, access, now>>
          /\ Foregrounded(c)
    <3> DEFINE granted == access = "granted"
               finishes == trip # NoSlot /\ granted
               corrects == ~finishes /\ granted /\ st.active \in Device
               next == IF finishes THEN [NoCall EXCEPT !.pc = "fix", !.tap = trip, !.behind = Behind,
                                                       !.outdone = call[trip].outdone]
                       ELSE IF corrects THEN [NoCall EXCEPT !.pc = "refix", !.place = st.active,
                                                            !.behind = Behind]
                       ELSE NoCall
               left == IF finishes THEN call[trip] ELSE NoCall
    <3>1. finishes => [NoCall EXCEPT !.pc = "fix", !.tap = trip, !.behind = Behind,
                                     !.outdone = call[trip].outdone] \in Calls /\ call[trip] \in Calls
      BY <1>0, ConstantFacts DEF Calls, CallSteps, NoCall, Behind
    <3>2. corrects => [NoCall EXCEPT !.pc = "refix", !.place = st.active, !.behind = Behind] \in Calls
      BY <1>0, ConstantFacts DEF Calls, CallSteps, NoCall, Behind, Places
    <3>3. next \in Calls /\ left \in Calls
      BY <3>1, <3>2, ConstantFacts
    <3>4. /\ call' = [d \in Slots |-> IF d = c THEN next
                                       ELSE IF d = trip /\ ~finishes THEN NoCall ELSE call[d]]
          /\ trip' = NoSlot /\ UNCHANGED <<refreshes, disk, access, now>>
      BY <1>11 DEF Foregrounded
    <3>5. call' = [d \in Slots |-> IF d = c THEN next ELSE IF d = trip THEN left ELSE call[d]]
      BY <3>4
    <3> HIDE DEF next, left
    <3> QED
      BY <1>11, <3>3, <3>4, <3>5
  <2>2. call' \in [Slots -> Calls]
    BY <1>0, <2>1, ConstantFacts
  <2> DEFINE s == [st EXCEPT !.flow = IF access = "granted" THEN "idle" ELSE @]
  <2>3. s \in States /\ Acquiring(s) \in States
    BY <1>0 DEF States, Acquiring
  <2>4. PICK t \in {s, Acquiring(s)} : Revalidates(t)
    BY <1>11 DEF Foregrounded
  <2>5. st' \in States /\ check' \in Checks
    BY <2>3, <2>4, RevalidatesFacts
  <2> QED
    BY <2>1, <2>2, <2>5 DEF Types, Retained
<1> QED
  BY <1>1, <1>2, <1>3, <1>4, <1>5, <1>6, <1>7, <1>8, <1>9, <1>10, <1>11 DEF SlotStep

-----------------------------------------------------------------------------
(* Calls: one selection at a time, and every trip to Settings ends.          *)

OneInv ==
    /\ st.selecting <=> \E c \in Slots : Selecting(c)
    /\ \A c, d \in Slots : Selecting(c) /\ Selecting(d) => c = d
    /\ st.selecting => trip = NoSlot /\ st.flow = "idle"

\* The trip waits, and so does the one a selection finishes, which is another.
TripInv ==
    /\ trip # NoSlot => On(trip, "trip")
    /\ \A c \in Slots : call[c].tap # NoSlot =>
          Selecting(c) /\ On(call[c].tap, "trip") /\ call[c].tap # trip
    /\ TripEnds

\* What is to be saved, shown or corrected.
PlaceInv ==
    \A c \in Slots :
        /\ On(c, "save") => call[c].place \in Places
        /\ call[c].pc \in {"cache", "cached"} => call[c].place \in Places /\ call[c].place = st.active
        /\ On(c, "refix") => call[c].place \in Device

\* Unless the app is ready nothing is under way.
RestInv ==
    ~Ready => /\ st \in {Loading, [Loading EXCEPT !.status = "error"]}
              /\ \A c \in Slots : call[c] = NoCall
              /\ trip = NoSlot /\ check = NoCheck /\ refreshes = {}

CallInv == Types /\ OneInv /\ TripInv /\ PlaceInv

LEMMA BeginCalls ==
    ASSUME CallInv, NEW c \in Slots,
           beginDeviceLocationSelection(c) \/ selectPlaceSearchResult(c)
    PROVE  OneInv' /\ TripInv' /\ PlaceInv'
<1> USE DEF CallInv
<1>1. /\ Idle(c) /\ ~st.selecting /\ st' = Acquiring(st) /\ call \in [Slots -> Calls] /\ st \in States
      /\ trip \in Slots \cup {NoSlot} /\ \A d \in Slots : call[d] \in Calls
  BY DEF beginDeviceLocationSelection, selectPlaceSearchResult, Types
<1>2. PICK next \in Calls : /\ EndsTrip(c, next) /\ next.pc \in {"ask", "save"} /\ next.tap = NoSlot
                            /\ next.pc = "save" => next.place \in Places
  <2>1. [NoCall EXCEPT !.pc = "ask"] \in Calls
    BY ConstantFacts DEF Calls, CallSteps, NoCall
  <2>2. \A p \in Manual : [NoCall EXCEPT !.pc = "save", !.place = p] \in Calls /\ p \in Places
    BY ConstantFacts DEF Calls, CallSteps, NoCall, Places
  <2> QED
    BY <2>1, <2>2 DEF beginDeviceLocationSelection, selectPlaceSearchResult, NoCall
<1>3. /\ call'[c] = next /\ trip' = NoSlot
      /\ \A d \in Slots : d # c => call'[d] = IF d = trip THEN NoCall ELSE call[d]
  BY <1>2, EndsTripFacts
<1>4. st'.selecting /\ st'.flow = "idle" /\ st'.active = st.active
  BY <1>1 DEF Acquiring, States
<1>5. \A d \in Slots : ~Selecting(d) /\ call[d].tap = NoSlot
  BY <1>1 DEF OneInv, TripInv
<1>6. \A d \in Slots : d # c => ~Selecting(d)' /\ call'[d].tap = NoSlot
  BY <1>3, <1>5 DEF Selecting, NoCall
<1>7. OneInv'
  BY <1>2, <1>3, <1>4, <1>6 DEF OneInv, Selecting
<1>8. TripInv'
  BY <1>1, <1>2, <1>3, <1>5, <1>6 DEF TripInv, TripEnds, On, NoCall
<1>9. PlaceInv'
  BY <1>2, <1>3, <1>4 DEF PlaceInv, On, NoCall
<1> QED
  BY <1>7, <1>8, <1>9

\* A selection is over, and so is the trip it finished.
Ends(c) ==
    \A d \in Slots :
        IF d = c \/ d = call[c].tap THEN call'[d].pc = "idle" /\ call'[d].tap = NoSlot
        ELSE call'[d].pc = call[d].pc /\ call'[d].place = call[d].place /\ call'[d].tap = call[d].tap

LEMMA ReturnedEnds == ASSUME Types, NEW c \in Slots, call' = Returned(c) PROVE Ends(c)
<1>1. \A d \in Slots : call'[d] = IF d = c \/ d = call[c].tap THEN NoCall ELSE call[d]
  BY ReturnedFacts
<1> QED
  BY <1>1 DEF Ends, NoCall

LEMMA EndCalls ==
    ASSUME CallInv, NEW c \in Slots, Selecting(c), Ends(c),
           ~st'.selecting, st'.active = st.active, trip' = trip
    PROVE  OneInv' /\ TripInv' /\ PlaceInv'
<1> USE DEF CallInv
<1>1. /\ trip = NoSlot /\ \A d \in Slots : d # c => ~Selecting(d) /\ call[d].tap = NoSlot
  BY DEF OneInv, TripInv
<1>2. \A d \in Slots : ~Selecting(d)' /\ call'[d].tap = NoSlot
  BY <1>1 DEF Ends, Selecting
<1>3. OneInv'
  BY <1>2 DEF OneInv
<1>4. TripInv'
  BY <1>1, <1>2 DEF TripInv, TripEnds, On, Ends, Types, Calls
<1>5. PlaceInv'
  BY DEF PlaceInv, On, Ends
<1> QED
  BY <1>3, <1>4, <1>5

LEMMA PermissionCalls ==
    ASSUME CallInv, NEW c \in Slots, PermissionAnswered(c)
    PROVE  OneInv' /\ TripInv' /\ PlaceInv'
<1> USE DEF CallInv
<1>1. /\ call \in [Slots -> Calls] /\ st \in States /\ call[c] \in Calls /\ On(c, "ask") /\ trip' = trip
  BY DEF PermissionAnswered, Types
<1>2. /\ st.selecting /\ trip = NoSlot /\ st.flow = "idle"
      /\ \A d \in Slots : d # c => ~Selecting(d) /\ call[d].tap = NoSlot
  BY <1>1 DEF OneInv, TripInv, Selecting, On
<1>3. CASE access' = "granted"
  <2>1. st' = st /\ call' = [call EXCEPT ![c] = [call[c] EXCEPT !.pc = "fix", !.behind = Behind]]
    BY <1>1, <1>3 DEF PermissionAnswered
  <2>2. /\ call'[c].pc = "fix" /\ call'[c].tap = call[c].tap
        /\ \A d \in Slots : d # c => call'[d] = call[d]
    BY <1>1, <2>1 DEF Calls
  <2>3. OneInv'
    BY <1>1, <1>2, <2>1, <2>2 DEF OneInv, Selecting
  <2>4. TripInv'
    BY <1>1, <1>2, <2>1, <2>2, <2>3 DEF TripInv, TripEnds, On, Selecting
  <2>5. PlaceInv'
    BY <1>1, <2>1, <2>2 DEF PlaceInv, On
  <2> QED
    BY <2>3, <2>4, <2>5
<1>4. CASE access' # "granted"
  <2>1. call' = Returned(c) /\ ~st'.selecting /\ st'.active = st.active /\ Selecting(c)
    BY <1>1, <1>4 DEF PermissionAnswered, States, On, Selecting
  <2> QED
    BY <1>1, <2>1, ReturnedEnds, EndCalls
<1> QED
  BY <1>3, <1>4

\* What leaves every trip, tap and selection where it was.
LEMMA TripKept ==
    ASSUME CallInv, trip' = trip,
           \A d \in Slots : /\ call'[d].tap = call[d].tap
                            /\ call'[d].pc = "trip" <=> call[d].pc = "trip"
                            /\ Selecting(d) => Selecting(d)'
    PROVE  TripInv'
<1>1. /\ trip \in Slots \cup {NoSlot}
      /\ \A d \in Slots : call[d].tap \in Slots \cup {NoSlot}
  BY DEF CallInv, Types, Calls
<1>2. trip # NoSlot => On(trip, "trip")'
  BY <1>1 DEF CallInv, TripInv, On
<1>3. ASSUME NEW d \in Slots, call'[d].tap # NoSlot
      PROVE  Selecting(d)' /\ On(call[d].tap, "trip")' /\ call'[d].tap # trip'
  BY <1>1, <1>3 DEF CallInv, TripInv, On
<1>4. \A d \in Slots : On(d, "trip")' => trip' = d \/ \E e \in Slots : call'[e].tap = d
  BY DEF CallInv, TripInv, TripEnds, On
<1> QED
  BY <1>2, <1>3, <1>4 DEF TripInv, TripEnds, On

LEMMA LookupCalls ==
    ASSUME CallInv, NEW c \in Slots, FixAnswered(c) \/ RefixAnswered(c),
           On(c, "refix") => trip = NoSlot /\ st.flow # "denied"
    PROVE  OneInv' /\ TripInv' /\ PlaceInv'
<1> USE DEF CallInv
<1>0. /\ call \in [Slots -> Calls] /\ st \in States /\ call[c] \in Calls /\ trip' = trip
      /\ call' \in [Slots -> Calls] /\ call[c].pc = IF FixAnswered(c) THEN "fix" ELSE "refix"
  BY LookupFacts DEF Types, FixAnswered, RefixAnswered, On
<1>1. CASE LookupReturns(c) /\ FixAnswered(c) /\ st' = [st EXCEPT !.selecting = FALSE, !.flow = "card"]
  <2>1. Ends(c) /\ ~st'.selecting /\ st'.active = st.active /\ Selecting(c)
    BY <1>0, <1>1 DEF LookupReturns, Ends, Untouched, States, Selecting
  <2> QED
    BY <1>0, <2>1, EndCalls
<1>2. CASE LookupReturns(c) /\ ~FixAnswered(c) /\ st' = st
  <2>1. call[c].tap = NoSlot /\ ~Selecting(c)
    BY <1>0, <1>2 DEF TripInv, Selecting
  <2>2. /\ call'[c].pc = "idle" /\ call'[c].tap = NoSlot
        /\ \A d \in Slots : d # c => /\ call'[d].pc = call[d].pc /\ call'[d].place = call[d].place
                                     /\ call'[d].tap = call[d].tap
    <3>1. NoSlot \notin Slots
      BY WeatherAssumption
    <3> QED
      BY <1>2, <2>1, <3>1 DEF LookupReturns, Untouched
  <2>3. OneInv'
    BY <1>0, <1>2, <2>1, <2>2 DEF OneInv, Selecting
  <2>4. TripInv'
    BY <1>0, <2>1, <2>2, TripKept DEF Selecting
  <2>5. PlaceInv'
    BY <1>0, <1>2, <2>2 DEF PlaceInv, On
  <2> QED
    BY <2>3, <2>4, <2>5
<1>3. CASE LookupFound(c) /\ (FixAnswered(c) \/ MayCorrect(c))
  <2>1. /\ st'.selecting /\ st'.flow = "idle" /\ st'.active = st.active
        /\ call'[c].pc = "save" /\ call'[c].place \in Device /\ call'[c].tap = call[c].tap
        /\ \A d \in Slots : d # c => /\ call'[d].pc = call[d].pc /\ call'[d].place = call[d].place
                                     /\ call'[d].tap = call[d].tap
    BY <1>0, <1>3 DEF LookupFound, Untouched, Acquiring, States
  <2>2. trip = NoSlot /\ \A d \in Slots : d # c => ~Selecting(d)
    BY <1>0, <1>3 DEF OneInv, MayCorrect, Selecting, On
  <2>3. OneInv'
    BY <1>0, <2>1, <2>2 DEF OneInv, Selecting
  <2>4. TripInv'
    BY <1>0, <2>1, TripKept DEF Selecting
  <2>5. PlaceInv'
    BY <1>0, <2>1 DEF PlaceInv, On, Places
  <2> QED
    BY <2>3, <2>4, <2>5
<1> QED
  BY <1>1, <1>2, <1>3, LookupFacts

LEMMA SavedCalls ==
    ASSUME CallInv, NEW c \in Slots, Saved(c)
    PROVE  OneInv' /\ TripInv' /\ PlaceInv'
<1> USE DEF CallInv
<1>0. /\ call \in [Slots -> Calls] /\ st \in States /\ call[c] \in Calls /\ trip' = trip
      /\ On(c, "save") /\ Selecting(c) /\ call[c].place \in Places
  BY DEF Types, Saved, PlaceInv, On, Selecting
<1>1. /\ st'.selecting = st.selecting /\ st'.flow = st.flow /\ st'.active = call[c].place
  BY <1>0 DEF Saved, Switched, States
<1>2. /\ call'[c].pc = "cache" /\ call'[c].tap = call[c].tap /\ call'[c].place = call[c].place
      /\ \A d \in Slots : d # c => /\ call'[d].pc = call[d].pc /\ call'[d].place = call[d].place
                                   /\ call'[d].tap = call[d].tap
  BY <1>0 DEF Saved, Calls
<1>3. \A d \in Slots : d # c => ~Selecting(d)
  BY <1>0 DEF OneInv
<1>4. OneInv'
  BY <1>0, <1>1, <1>2, <1>3 DEF OneInv, Selecting
<1>5. TripInv'
  BY <1>0, <1>2, TripKept DEF Selecting, On
<1>6. PlaceInv'
  BY <1>0, <1>1, <1>2, <1>3 DEF PlaceInv, On, Selecting
<1> QED
  BY <1>4, <1>5, <1>6

LEMMA CacheCalls ==
    ASSUME CallInv, NEW c \in Slots, SaveFails(c) \/ CacheReads(c) \/ CacheLands(c)
    PROVE  OneInv' /\ TripInv' /\ PlaceInv'
<1> USE DEF CallInv
<1>0. /\ call \in [Slots -> Calls] /\ st \in States /\ call[c] \in Calls /\ trip' = trip /\ Selecting(c)
  BY DEF Types, SaveFails, CacheReads, CacheLands, On, Selecting
<1>1. CASE SaveFails(c)
  BY <1>0, <1>1, ReturnedEnds, EndCalls DEF SaveFails, States
<1>2. CASE CacheLands(c)
  <2>1. call' = Returned(c) /\ ~st'.selecting /\ st'.active = st.active
    <3>1. call[c].place \in Places
      BY <1>2 DEF CacheLands, On, PlaceInv
    <3>2. PICK s \in States : /\ s.active = st.active /\ ~s.selecting
                              /\ st' = s \/ Asks(s, call[c].place)
      BY <1>2, <3>1, CacheLandsFacts
    <3> QED
      BY <1>2, <3>1, <3>2, AsksFacts DEF CacheLands
  <2> QED
    BY <1>0, <2>1, ReturnedEnds, EndCalls
<1>3. CASE CacheReads(c)
  <2>1. PICK at \in {0, disk.at[call[c].place]} :
          call' = [call EXCEPT ![c] = [call[c] EXCEPT !.pc = "cached", !.read = at]]
    BY <1>0, <1>3 DEF CacheReads
  <2>2. /\ call[c].pc = "cache" /\ st' = st
        /\ call'[c].pc = "cached" /\ call'[c].tap = call[c].tap /\ call'[c].place = call[c].place
        /\ \A d \in Slots : d # c => call'[d] = call[d]
    BY <1>0, <1>3, <2>1 DEF CacheReads, Calls, On
  <2>3. OneInv'
    BY <1>0, <2>2 DEF OneInv, Selecting
  <2>4. TripInv'
    BY <1>0, <2>2, TripKept DEF Selecting
  <2>5. PlaceInv'
    BY <1>0, <2>2 DEF PlaceInv, On
  <2> QED
    BY <2>3, <2>4, <2>5
<1> QED
  BY <1>1, <1>2, <1>3

\* What is left of state s when at most its label was given again.
Relabelled(s) ==
    /\ st'.status = s.status /\ st'.active = s.active /\ st'.snapshot = s.snapshot
    /\ st'.flow = s.flow /\ st'.selecting = s.selecting
    /\ st'.refreshing = s.refreshing /\ st'.failed = s.failed
    /\ \/ st'.fresh = s.fresh
       \/ /\ st'.fresh = "fresh" => Describes(s.snapshot, s.active)
          /\ s.snapshot = NoSnapshot => st'.fresh = "none"
          /\ s.snapshot # NoSnapshot /\ s.snapshot.at # 0 => st'.fresh # "none"

LEMMA RevalidatesRelabels ==
    ASSUME Types, NEW s \in States, Revalidates(s)
    PROVE  Relabelled(s)
<1>1. st' = s \/ st' = Revalued(s)
  BY RevalidatesFacts
<1>2. CASE st' = s
  BY <1>2 DEF Relabelled
<1>3. CASE st' = Revalued(s)
  BY <1>3, RevaluedFacts DEF Relabelled
<1> QED
  BY <1>1, <1>2, <1>3

\* What a foreground does: it finishes the tap, asks where the device is now, or
\* neither; and no trip waits any more.
Finishes(c) ==
    /\ trip # NoSlot /\ access = "granted"
    /\ call'[c] = [NoCall EXCEPT !.pc = "fix", !.tap = trip, !.behind = Behind,
                                 !.outdone = call[trip].outdone]
    /\ \A d \in Slots \ {c} : call'[d] = call[d]
    /\ Relabelled(Acquiring([st EXCEPT !.flow = "idle"]))
Corrects(c) ==
    /\ access = "granted" /\ trip = NoSlot /\ st.active \in Device
    /\ call'[c] = [NoCall EXCEPT !.pc = "refix", !.place = st.active, !.behind = Behind]
    /\ \A d \in Slots \ {c} : call'[d] = call[d]
    /\ Relabelled([st EXCEPT !.flow = "idle"])
Looks(c) ==
    /\ call'[c] = NoCall
    /\ \A d \in Slots \ {c} : call'[d] = IF d = trip THEN NoCall ELSE call[d]
    /\ \/ Relabelled(st)
       \/ Relabelled([st EXCEPT !.flow = "idle"])

LEMMA ForegroundFacts ==
    ASSUME Types, NEW c \in Slots, Foregrounded(c)
    PROVE  /\ On(c, "return") /\ trip' = NoSlot /\ UNCHANGED <<refreshes, disk, access, now>>
           /\ Finishes(c) \/ Corrects(c) \/ Looks(c)
           /\ check' = check \/ (check'.pc = "read" /\ check'.place = st.active /\ st.active \in Places)
<1> DEFINE granted == access = "granted"
           s == [st EXCEPT !.flow = IF granted THEN "idle" ELSE @]
           finishes == trip # NoSlot /\ granted
           corrects == ~finishes /\ granted /\ st.active \in Device
           next == IF finishes THEN [NoCall EXCEPT !.pc = "fix", !.tap = trip, !.behind = Behind,
                                                   !.outdone = call[trip].outdone]
                   ELSE IF corrects THEN [NoCall EXCEPT !.pc = "refix", !.place = st.active, !.behind = Behind]
                   ELSE NoCall
<1>0. st \in States /\ call[c] \in Calls
  BY DEF Types
<1>1. /\ On(c, "return") /\ trip' = NoSlot /\ UNCHANGED <<refreshes, disk, access, now>>
      /\ call' = [d \in Slots |-> IF d = c THEN next
                                  ELSE IF d = trip /\ ~finishes THEN NoCall ELSE call[d]]
      /\ Revalidates(IF finishes THEN Acquiring(s) ELSE s)
  BY DEF Foregrounded
<1>2. s \in States /\ Acquiring(s) \in States /\ [st EXCEPT !.flow = "idle"] \in States
  BY <1>0 DEF States, Acquiring
<1>3. s = IF granted THEN [st EXCEPT !.flow = "idle"] ELSE st
  BY <1>0 DEF States
<1>4. call'[c] = next /\ \A d \in Slots \ {c} : call'[d] = IF d = trip /\ ~finishes THEN NoCall ELSE call[d]
  BY <1>1
<1>5. CASE finishes
  <2>1. call'[c] = [NoCall EXCEPT !.pc = "fix", !.tap = trip, !.behind = Behind,
                                  !.outdone = call[trip].outdone]
    BY <1>4, <1>5
  <2>2. Relabelled(Acquiring([st EXCEPT !.flow = "idle"]))
    BY <1>1, <1>2, <1>3, <1>5, RevalidatesRelabels
  <2>3. Finishes(c)
    BY <1>4, <1>5, <2>1, <2>2 DEF Finishes
  <2>4. check' = check \/ (check'.pc = "read" /\ check'.place = st.active /\ st.active \in Places)
    <3>1. PICK t \in States : Revalidates(t) /\ t.active = st.active
      BY <1>0, <1>1, <1>2, <1>5 DEF Acquiring, States
    <3> QED
      BY <3>1, RevalidatesFacts
  <2> QED
    BY <1>1, <2>3, <2>4
<1>6. CASE ~finishes
  <2>1. Relabelled(s) /\ (check' = check \/ (check'.pc = "read" /\ check'.place = st.active /\ st.active \in Places))
    <3>1. PICK t \in States : Revalidates(t) /\ t = s /\ t.active = st.active
      BY <1>0, <1>1, <1>2, <1>6 DEF States
    <3> QED
      BY <3>1, RevalidatesFacts, RevalidatesRelabels
  <2>2. CASE corrects
    <3>1. call'[c] = [NoCall EXCEPT !.pc = "refix", !.place = st.active, !.behind = Behind]
      BY <1>4, <1>6, <2>2
    <3>2. Corrects(c)
      BY <1>3, <1>4, <1>6, <2>1, <2>2, <3>1, WeatherAssumption DEF Corrects
    <3> QED
      BY <1>1, <2>1, <3>2
  <2>3. CASE ~corrects
    <3>1. Looks(c)
      BY <1>3, <1>4, <1>6, <2>1, <2>3 DEF Looks
    <3> QED
      BY <1>1, <2>1, <3>1
  <2> QED
    BY <2>2, <2>3
<1> QED
  BY <1>5, <1>6

LEMMA ForegroundCalls ==
    ASSUME CallInv, NEW c \in Slots, Foregrounded(c)
    PROVE  OneInv' /\ TripInv' /\ PlaceInv'
<1> USE DEF CallInv
<1>0. /\ call \in [Slots -> Calls] /\ st \in States /\ call[c] \in Calls /\ trip' = NoSlot
      /\ On(c, "return") /\ trip \in Slots \cup {NoSlot} /\ NoSlot \notin Slots /\ ~Selecting(c)
  BY ForegroundFacts, WeatherAssumption DEF Types, On, Selecting
<1>1. CASE Finishes(c)
  <2>1. /\ call'[c].pc = "fix" /\ call'[c].tap = trip
        /\ \A d \in Slots : d # c => call'[d] = call[d]
    BY <1>1 DEF Finishes, NoCall
  <2>2. st'.selecting /\ st'.flow = "idle" /\ st'.active = st.active
    BY <1>0, <1>1 DEF Finishes, Relabelled, Acquiring, States
  <2>3. /\ On(trip, "trip") /\ trip \in Slots /\ trip # c
        /\ \A d \in Slots : ~Selecting(d) /\ call[d].tap = NoSlot
    BY <1>0, <1>1 DEF Finishes, OneInv, TripInv, On
  <2>4. OneInv'
    BY <1>0, <2>1, <2>2, <2>3 DEF OneInv, Selecting
  <2>5. TripInv'
    BY <1>0, <2>1, <2>3 DEF TripInv, TripEnds, On, Selecting
  <2>6. PlaceInv'
    BY <1>0, <2>1, <2>2 DEF PlaceInv, On
  <2> QED
    BY <2>4, <2>5, <2>6
<1>2. CASE Corrects(c) \/ Looks(c)
  <2>1. /\ call'[c].pc \in {"idle", "refix"} /\ call'[c].tap = NoSlot
        /\ call'[c].pc = "refix" => call'[c].place \in Device
        /\ \A d \in Slots : d # c => call'[d] = call[d] \/ (d = trip /\ call'[d] = NoCall)
    <3>1. CASE Corrects(c)
      BY <1>0, <3>1 DEF Corrects, NoCall
    <3>2. CASE Looks(c)
      <4>1. NoCall.pc = "idle" /\ NoCall.tap = NoSlot
        BY DEF NoCall
      <4> QED
        BY <1>0, <3>2, <4>1 DEF Looks
    <3> QED
      BY <1>2, <3>1, <3>2
  <2>2. /\ st'.selecting = st.selecting /\ st'.active = st.active /\ st'.flow \in {st.flow, "idle"}
    BY <1>0, <1>2 DEF Corrects, Looks, Relabelled, States
  <2>3. \A d \in Slots : d = trip => ~Selecting(d) /\ On(d, "trip")
    BY <1>0 DEF TripInv, On, Selecting
  <2>4. \A d \in Slots : Selecting(d)' <=> Selecting(d)
    BY <1>0, <2>1, <2>3 DEF Selecting, NoCall
  <2>5. OneInv'
    BY <1>0, <2>2, <2>4 DEF OneInv
  <2>6. ASSUME NEW d \in Slots, call'[d].tap # NoSlot
        PROVE  /\ Selecting(d)' /\ call'[d].tap = call[d].tap
               /\ call[d].tap \in Slots /\ call'[call[d].tap].pc = "trip"
    <3>1. d # c /\ call'[d] = call[d]
      BY <2>1, <2>6 DEF NoCall
    <3>2. Selecting(d) /\ On(call[d].tap, "trip") /\ call[d].tap # trip /\ call[d].tap \in Slots
      BY <1>0, <2>6, <3>1 DEF TripInv, Calls
    <3>3. call[d].tap # c
      BY <1>0, <3>2 DEF On
    <3> QED
      BY <2>1, <2>4, <3>1, <3>2, <3>3 DEF On
  <2>7. ASSUME NEW d \in Slots, On(d, "trip")'
        PROVE  \E e \in Slots : call'[e].tap = d
    <3>1. d # c /\ call'[d] = call[d] /\ d # trip /\ On(d, "trip")
      BY <1>0, <1>2, <2>1, <2>7 DEF On, NoCall, Looks, Corrects
    <3>2. PICK e \in Slots : call[e].tap = d
      BY <3>1 DEF TripInv, TripEnds
    <3>3. Selecting(e)
      BY <1>0, <3>2 DEF TripInv
    <3>4. e # c /\ e # trip
      BY <1>0, <2>3, <3>3
    <3> QED
      BY <2>1, <3>2, <3>4
  <2>8. TripInv'
    BY <1>0, <2>6, <2>7 DEF TripInv, TripEnds, On
  <2>9. PlaceInv'
    BY <1>0, <2>1, <2>2 DEF PlaceInv, On, NoCall
  <2> QED
    BY <2>5, <2>8, <2>9
<1> QED
  BY <1>1, <1>2, ForegroundFacts

LEMMA SettingsCalls ==
    ASSUME CallInv, NEW c \in Slots, openApplicationSettings(c)
    PROVE  OneInv' /\ TripInv' /\ PlaceInv'
<1> USE DEF CallInv
<1>0. /\ call \in [Slots -> Calls] /\ st \in States /\ trip \in Slots \cup {NoSlot} /\ NoSlot \notin Slots
      /\ Idle(c) /\ st.flow = "denied"
  BY WeatherAssumption DEF Types, openApplicationSettings
<1>1. /\ \A d \in Slots : ~Selecting(d) /\ call[d].tap = NoSlot
      /\ \A d \in Slots : On(d, "trip") => trip = d
  BY <1>0 DEF OneInv, TripInv, TripEnds
<1>2. st'.active = st.active /\ ~st'.selecting
  BY <1>0, <1>1 DEF openApplicationSettings, States, OneInv
<1>3. /\ trip' \in {c, NoSlot} /\ call'[c].tap = NoSlot
      /\ call'[c].pc = IF trip' = c THEN "trip" ELSE "idle"
      /\ \A d \in Slots : d # c => call'[d] = IF d = trip THEN NoCall ELSE call[d]
  <2>1. CASE /\ call' = [d \in Slots |-> IF d = c THEN [NoCall EXCEPT !.pc = "trip"]
                                       ELSE IF d = trip THEN NoCall ELSE call[d]]
             /\ trip' = c
    BY <2>1 DEF NoCall
  <2>2. CASE EndsTrip(c, NoCall)
    <3>1. NoCall.pc = "idle" /\ NoCall.tap = NoSlot
      BY DEF NoCall
    <3> QED
      BY <1>0, <2>2, <3>1 DEF EndsTrip
  <2> QED
    BY <1>0, <2>1, <2>2 DEF openApplicationSettings
<1>4. \A d \in Slots : ~Selecting(d)' /\ call'[d].tap = NoSlot
  BY <1>1, <1>3 DEF Selecting, NoCall
<1>5. OneInv'
  BY <1>2, <1>4 DEF OneInv
<1>6. TripInv'
  BY <1>0, <1>1, <1>3, <1>4 DEF TripInv, TripEnds, On, NoCall
<1>7. PlaceInv'
  BY <1>1, <1>2, <1>3 DEF PlaceInv, On, NoCall, Selecting
<1> QED
  BY <1>5, <1>6, <1>7

LEMMA DismissCalls ==
    ASSUME CallInv, dismissLocationFlow
    PROVE  OneInv' /\ TripInv' /\ PlaceInv'
<1> USE DEF CallInv
<1>0. /\ call \in [Slots -> Calls] /\ st \in States /\ trip \in Slots \cup {NoSlot} /\ NoSlot \notin Slots
      /\ trip' = NoSlot /\ st.flow # "idle"
  BY WeatherAssumption DEF Types, dismissLocationFlow, EndsTrip
<1>1. /\ \A d \in Slots : ~Selecting(d) /\ call[d].tap = NoSlot
      /\ \A d \in Slots : On(d, "trip") => trip = d
  BY <1>0 DEF OneInv, TripInv, TripEnds
<1>2. st'.active = st.active /\ ~st'.selecting
  BY <1>0, <1>1 DEF dismissLocationFlow, States, OneInv
<1>3. \A d \in Slots : call'[d] = IF d = trip THEN NoCall ELSE call[d]
  BY <1>0 DEF dismissLocationFlow, EndsTrip
<1>4. \A d \in Slots : ~Selecting(d)' /\ call'[d].tap = NoSlot
  BY <1>1, <1>3 DEF Selecting, NoCall
<1>5. OneInv'
  BY <1>2, <1>4 DEF OneInv
<1>6. TripInv'
  BY <1>0, <1>1, <1>3, <1>4 DEF TripInv, TripEnds, On, NoCall
<1>7. PlaceInv'
  BY <1>1, <1>2, <1>3 DEF PlaceInv, On, NoCall, Selecting
<1> QED
  BY <1>5, <1>6, <1>7

\* What leaves the calls, and of the state what they speak of.
LEMMA KeptCalls ==
    ASSUME CallInv, call' = call, trip' = trip, st'.active = st.active,
           st'.flow = st.flow, st'.selecting = st.selecting
    PROVE  OneInv' /\ TripInv' /\ PlaceInv'
<1> USE DEF CallInv
<1>1. OneInv'
  BY DEF OneInv, Selecting
<1>2. TripInv'
  BY DEF TripInv, TripEnds, On, Selecting
<1>3. PlaceInv'
  BY DEF PlaceInv, On
<1> QED
  BY <1>1, <1>2, <1>3

\* A launch, an end of the process, a foreground that starts the launch again.
LEMMA RestCalls ==
    ASSUME \A c \in Slots : call'[c] = NoCall, trip' = NoSlot, ~st'.selecting
    PROVE  OneInv' /\ TripInv' /\ PlaceInv'
BY DEF OneInv, TripInv, TripEnds, PlaceInv, On, Selecting, NoCall

LEMMA ReturnCalls ==
    ASSUME CallInv, NEW c \in Slots, Idle(c), trip' = trip, st' = st,
           call' = [call EXCEPT ![c] = [call[c] EXCEPT !.pc = "return"]]
    PROVE  OneInv' /\ TripInv' /\ PlaceInv'
<1> USE DEF CallInv
<1>1. /\ call \in [Slots -> Calls] /\ call[c] \in Calls /\ call[c].pc = "idle"
  BY DEF Types, Idle, On
<1>2. /\ call'[c].pc = "return" /\ call'[c].tap = call[c].tap
      /\ \A d \in Slots : d # c => call'[d] = call[d]
  BY <1>1 DEF Calls
<1>3. OneInv'
  BY <1>1, <1>2 DEF OneInv, Selecting
<1>4. TripInv'
  BY <1>1, <1>2, TripKept DEF Selecting
<1>5. PlaceInv'
  BY <1>1, <1>2 DEF PlaceInv, On
<1> QED
  BY <1>3, <1>4, <1>5

-----------------------------------------------------------------------------
(* The calls and what they stand on, together.                               *)

\* While a device location is read again access is granted, and nothing sends
\* the person to Settings.
RefixInv ==
    \A c \in Slots : On(c, "refix") => access = "granted" /\ st.flow # "denied" /\ trip = NoSlot

\* A revalidation is of a place, and a place is in use.
CheckInv == check.pc # "idle" => check.place \in Places /\ st.active \in Places

BaseInv == CallInv /\ Retained /\ RestInv /\ RefixInv /\ CheckInv

\* The status changes only where a foreground starts the launch again.
LEMMA SlotStatus ==
    ASSUME BaseInv, NEW c \in Slots, SlotStep(c)
    PROVE  \/ Ready /\ st'.status = st.status
           \/ /\ onForeground(c) /\ ~Ready /\ st' = Loading /\ call' = call
              /\ UNCHANGED <<trip, check, refreshes, disk, access, now>>
<1>0. /\ st \in States /\ Types /\ CallInv
      /\ ~Idle(c) => Ready
  BY DEF BaseInv, CallInv, Types, RestInv, Idle, On, NoCall
<1>1. CASE onForeground(c)
  BY <1>1 DEF onForeground, Ready
<1>2. CASE \/ beginDeviceLocationSelection(c) \/ selectPlaceSearchResult(c)
           \/ openApplicationSettings(c)
  BY <1>0, <1>2 DEF beginDeviceLocationSelection, selectPlaceSearchResult, openApplicationSettings,
                    Acquiring, States
<1>3. CASE PermissionAnswered(c) \/ Saved(c) \/ SaveFails(c) \/ CacheReads(c)
  BY <1>0, <1>3 DEF PermissionAnswered, Saved, SaveFails, CacheReads, Switched, States, Idle, On
<1>4. CASE FixAnswered(c) \/ RefixAnswered(c)
  <2>1. Ready
    BY <1>0, <1>4 DEF FixAnswered, RefixAnswered, Idle, On
  <2>2. st' \in {st, [st EXCEPT !.selecting = FALSE, !.flow = "card"], Acquiring(st)}
    BY <1>0, <1>4, LookupFacts DEF LookupReturns, LookupFound
  <2> QED
    BY <1>0, <2>1, <2>2 DEF States, Acquiring
<1>5. CASE CacheLands(c)
  <2>1. Ready /\ call[c].place \in Places
    BY <1>0, <1>5 DEF CacheLands, CallInv, PlaceInv, Idle, On
  <2>2. PICK s \in States : s.status = st.status /\ (st' = s \/ Asks(s, call[c].place))
    BY <1>0, <1>5, <2>1, CacheLandsFacts
  <2> QED
    BY <2>1, <2>2, AsksFacts
<1>6. CASE Foregrounded(c)
  <2>1. Ready /\ (Finishes(c) \/ Corrects(c) \/ Looks(c))
    BY <1>0, <1>6, ForegroundFacts DEF Idle, On
  <2>2. st'.status = st.status
    BY <1>0, <2>1 DEF Finishes, Corrects, Looks, Relabelled, Acquiring, States
  <2> QED
    BY <2>1, <2>2
<1> QED
  BY <1>1, <1>2, <1>3, <1>4, <1>5, <1>6 DEF SlotStep

LEMMA SlotRefix ==
    ASSUME BaseInv, NEW c \in Slots, SlotStep(c), NEW d \in Slots, On(d, "refix")'
    PROVE  access' = "granted" /\ st'.flow # "denied" /\ trip' = NoSlot
<1>0. /\ st \in States /\ Types /\ CallInv /\ call \in [Slots -> Calls] /\ \A e \in Slots : call[e] \in Calls
      /\ NoCall.pc = "idle"
      /\ On(d, "refix") => access = "granted" /\ st.flow # "denied" /\ trip = NoSlot
  BY DEF BaseInv, CallInv, Types, RefixInv, NoCall
<1>1. CASE onForeground(c)
  BY <1>0, <1>1, ConstantFacts DEF onForeground, On, Loading, Calls, States
<1>2. CASE beginDeviceLocationSelection(c)
  BY <1>0, <1>2 DEF beginDeviceLocationSelection, EndsTrip, Acquiring, On, States, NoCall
<1>3. CASE selectPlaceSearchResult(c)
  BY <1>0, <1>3 DEF selectPlaceSearchResult, EndsTrip, Acquiring, On, States, NoCall
<1>4. CASE openApplicationSettings(c)
  <2>1. ~On(d, "refix")
    BY <1>0, <1>4 DEF openApplicationSettings
  <2> QED
    BY <1>0, <1>4, <2>1 DEF openApplicationSettings, EndsTrip, On, NoCall
<1>5. CASE PermissionAnswered(c)
  <2>1. CASE access' = "granted"
    BY <1>0, <1>5, <2>1 DEF PermissionAnswered, On, Calls
  <2>2. CASE access' # "granted"
    <3>1. call'[d] \in {NoCall, call[d]}
      BY <1>0, <1>5, <2>2, ReturnedFacts DEF PermissionAnswered
    <3> QED
      BY <1>0, <1>5, <2>2, <3>1 DEF PermissionAnswered, On
  <2> QED
    BY <2>1, <2>2
<1>6. CASE FixAnswered(c) \/ RefixAnswered(c)
  <2>1. call[d].pc = "refix"
    BY <1>0, <1>6, LookupFacts DEF LookupReturns, LookupFound, Untouched, On
  <2>2. st'.flow \in {st.flow, "card", "idle"}
    BY <1>0, <1>6, LookupFacts DEF LookupReturns, LookupFound, Acquiring, States
  <2> QED
    BY <1>0, <1>6, <2>1, <2>2, LookupFacts DEF On
<1>7. CASE Saved(c)
  <2>1. call'[d].pc \in {call[d].pc, "cache"}
    BY <1>0, <1>7 DEF Saved, Calls
  <2> QED
    BY <1>0, <1>7, <2>1 DEF Saved, Switched, On, States
<1>8. CASE SaveFails(c)
  <2>1. call'[d] \in {NoCall, call[d]}
    BY <1>0, <1>8, ReturnedFacts DEF SaveFails
  <2> QED
    BY <1>0, <1>8, <2>1 DEF SaveFails, On, States
<1>9. CASE CacheReads(c)
  <2>1. call'[d].pc \in {call[d].pc, "cached"}
    BY <1>0, <1>9 DEF CacheReads, Calls
  <2> QED
    BY <1>0, <1>9, <2>1 DEF CacheReads, On
<1>10. CASE CacheLands(c)
  <2>1. call'[d] \in {NoCall, call[d]} /\ call[c].place \in Places
    BY <1>0, <1>10, ReturnedFacts DEF CacheLands, CallInv, PlaceInv, On
  <2>2. PICK s \in States : s.flow = st.flow /\ (st' = s \/ Asks(s, call[c].place))
    BY <1>0, <1>10, <2>1, CacheLandsFacts
  <2>3. st'.flow = st.flow
    BY <2>1, <2>2, AsksFacts
  <2> QED
    BY <1>0, <1>10, <2>1, <2>3 DEF CacheLands, On
<1>11. CASE Foregrounded(c)
  <2>1. CASE Corrects(c)
    <3>1. st'.flow = "idle"
      BY <1>0, <2>1 DEF Corrects, Relabelled, States
    <3> QED
      BY <1>0, <1>11, <2>1, <3>1, ForegroundFacts DEF Corrects
  <2>2. CASE Finishes(c) \/ Looks(c)
    <3>1. call'[d].pc \in {call[d].pc, "idle", "fix"}
      BY <1>0, <2>2 DEF Finishes, Looks, NoCall
    <3>2. st'.flow \in {st.flow, "idle"}
      BY <1>0, <2>2 DEF Finishes, Looks, Relabelled, Acquiring, States
    <3> QED
      BY <1>0, <1>11, <3>1, <3>2, ForegroundFacts DEF On
  <2> QED
    BY <1>0, <1>11, <2>1, <2>2, ForegroundFacts
<1> QED
  BY <1>1, <1>2, <1>3, <1>4, <1>5, <1>6, <1>7, <1>8, <1>9, <1>10, <1>11 DEF SlotStep

LEMMA SlotBase ==
    ASSUME BaseInv, NEW c \in Slots, SlotStep(c)
    PROVE  BaseInv'
<1>0. CallInv /\ Types /\ Retained /\ st \in States /\ OneInv /\ TripInv /\ PlaceInv
  BY DEF BaseInv, CallInv, Types
<1>1. call[c].pc \in {"save", "cache", "cached"} => call[c].place \in Places
  BY <1>0 DEF PlaceInv, On
<1>2. Types' /\ Retained'
  BY <1>0, <1>1, SlotTypes
<1>3. OneInv' /\ TripInv' /\ PlaceInv'
  <2>1. CASE beginDeviceLocationSelection(c) \/ selectPlaceSearchResult(c)
    BY <1>0, <2>1, BeginCalls
  <2>2. CASE PermissionAnswered(c)
    BY <1>0, <2>2, PermissionCalls
  <2>3. CASE FixAnswered(c) \/ RefixAnswered(c)
    <3>1. On(c, "refix") => trip = NoSlot /\ st.flow # "denied"
      BY DEF BaseInv, RefixInv
    <3> QED
      BY <1>0, <2>3, <3>1, LookupCalls
  <2>4. CASE Saved(c)
    BY <1>0, <2>4, SavedCalls
  <2>5. CASE SaveFails(c) \/ CacheReads(c) \/ CacheLands(c)
    BY <1>0, <2>5, CacheCalls
  <2>6. CASE openApplicationSettings(c)
    BY <1>0, <2>6, SettingsCalls
  <2>7. CASE onForeground(c)
    <3>1. CASE Ready
      <4>1. call' = [call EXCEPT ![c] = [call[c] EXCEPT !.pc = "return"]] /\ st' = st /\ trip' = trip /\ Idle(c)
        BY <2>7, <3>1 DEF onForeground, Ready
      <4> QED
        BY <1>0, <4>1, ReturnCalls
    <3>2. CASE ~Ready
      <4>1. /\ \A d \in Slots : call'[d] = NoCall
            /\ trip' = NoSlot /\ ~st'.selecting
        BY <2>7, <3>2 DEF onForeground, BaseInv, RestInv, Loading, Ready
      <4> QED
        BY <4>1, RestCalls
    <3> QED
      BY <3>1, <3>2
  <2>8. CASE Foregrounded(c)
    BY <1>0, <2>8, ForegroundCalls
  <2> QED
    BY <2>1, <2>2, <2>3, <2>4, <2>5, <2>6, <2>7, <2>8 DEF SlotStep
<1>4. RestInv'
  <2>1. CASE Ready /\ st'.status = st.status
    BY <2>1 DEF RestInv, Ready
  <2>2. CASE /\ ~Ready /\ st' = Loading /\ call' = call
             /\ UNCHANGED <<trip, check, refreshes, disk, access, now>>
    BY <2>2 DEF BaseInv, RestInv
  <2> QED
    BY <2>1, <2>2, SlotStatus
<1>5. RefixInv'
  BY SlotRefix DEF RefixInv
<1>6. CheckInv'
  <2>1. CASE Foregrounded(c)
    <3>1. check' = check \/ (check'.place = st.active /\ st.active \in Places)
      BY <1>0, <2>1, ForegroundFacts
    <3>2. st'.active = st.active
      BY <1>0, <2>1, ForegroundFacts DEF Finishes, Corrects, Looks, Relabelled, Acquiring, States
    <3> QED
      BY <3>1, <3>2 DEF BaseInv, CheckInv
  <2>2. CASE onForeground(c)
    BY <2>2, ConstantFacts DEF onForeground, BaseInv, CheckInv, RestInv, Ready, NoCheck
  <2>3. CASE \/ beginDeviceLocationSelection(c) \/ selectPlaceSearchResult(c) \/ openApplicationSettings(c)
             \/ PermissionAnswered(c) \/ SaveFails(c) \/ CacheReads(c)
    <3>1. check' = check /\ st'.active = st.active
      BY <1>0, <2>3 DEF beginDeviceLocationSelection, selectPlaceSearchResult, openApplicationSettings,
                        PermissionAnswered, SaveFails, CacheReads, Acquiring, States
    <3> QED
      BY <3>1 DEF BaseInv, CheckInv
  <2>4. CASE FixAnswered(c) \/ RefixAnswered(c)
    <3>1. check' = check /\ st'.active = st.active
      BY <1>0, <2>4, LookupFacts DEF LookupReturns, LookupFound, Acquiring, States
    <3> QED
      BY <3>1 DEF BaseInv, CheckInv
  <2>5. CASE Saved(c)
    <3>1. check' = check /\ st'.active = call[c].place
      BY <1>0, <2>5 DEF Saved, Switched, States
    <3> QED
      BY <1>1, <2>5, <3>1 DEF BaseInv, CheckInv, Saved, On
  <2>6. CASE CacheLands(c)
    <3>1. check' = check /\ call[c].place \in Places
      BY <1>1, <2>6 DEF CacheLands, On
    <3>2. PICK s \in States : s.active = st.active /\ (st' = s \/ Asks(s, call[c].place))
      BY <1>0, <2>6, <3>1, CacheLandsFacts
    <3>3. st'.active = st.active
      BY <3>1, <3>2, AsksFacts
    <3> QED
      BY <3>1, <3>3 DEF BaseInv, CheckInv
  <2> QED
    BY <2>1, <2>2, <2>3, <2>4, <2>5, <2>6 DEF SlotStep
<1> QED
  BY <1>2, <1>3, <1>4, <1>5, <1>6 DEF BaseInv, CallInv

\* The other steps.
Quiet ==
    \/ refresh \/ revalidateFreshness \/ CheckReads \/ CheckLands
    \/ \E p \in Places : RefreshLands(p) \/ RefreshFails(p)
    \/ GrantedInSettings \/ BackgroundStores \/ Tick

\* They leave the calls, the trip, the place in use and what is being selected,
\* and need an app that is ready, or leave what the controller holds.
LEMMA QuietFacts ==
    ASSUME BaseInv, Quiet
    PROVE  /\ call' = call /\ trip' = trip /\ Types' /\ Retained' /\ CheckInv'
           /\ st'.status = st.status /\ st'.active = st.active
           /\ st'.flow = st.flow /\ st'.selecting = st.selecting
           /\ Ready \/ UNCHANGED <<st, check, refreshes>>
           /\ access' \in {access, "granted"}
<1>0. /\ st \in States /\ Types /\ CallInv /\ RestInv /\ Retained /\ CheckInv
      /\ check \in Checks /\ refreshes \subseteq Places /\ disk \in Disks /\ now \in 1..MaxNow
      /\ check.pc # "idle" => Ready
      /\ refreshes # {} => Ready
  BY DEF BaseInv, CallInv, Types, RestInv, NoCheck
<1>1. CASE refresh
  <2>1. Ready /\ st.active \in Places /\ Asks(st, st.active)
    BY <1>0, <1>1 DEF refresh, States
  <2>2. st' \in States /\ refreshes' \subseteq Places
    BY <1>0, <2>1, AsksFacts
  <2>3. /\ st'.status = st.status /\ st'.active = st.active
        /\ st'.flow = st.flow /\ st'.selecting = st.selecting
    BY <1>0, <2>1, AsksFacts
  <2> QED
    BY <1>0, <1>1, <2>1, <2>2, <2>3 DEF refresh, Types, Retained, CheckInv
<1>2. CASE revalidateFreshness
  <2>1. Ready /\ Revalidates(st)
    BY <1>2 DEF revalidateFreshness
  <2>2. st' \in States /\ check' \in Checks
    BY <1>0, <2>1, RevalidatesFacts
  <2>3. /\ st'.status = st.status /\ st'.active = st.active
        /\ st'.flow = st.flow /\ st'.selecting = st.selecting
    BY <1>0, <2>1, RevalidatesRelabels DEF Relabelled
  <2>4. check' = check \/ (check'.place = st.active /\ st.active \in Places)
    BY <1>0, <2>1, RevalidatesFacts
  <2> QED
    BY <1>0, <1>2, <2>1, <2>2, <2>3, <2>4 DEF revalidateFreshness, Types, Retained, CheckInv
<1>3. CASE CheckReads
  <2>1. PICK at \in {0, disk.at[check.place]} : check' = [check EXCEPT !.pc = "have", !.read = at]
    BY <1>3 DEF CheckReads
  <2>2. check.pc = "read" /\ check.place \in Places
    BY <1>0, <1>3 DEF CheckReads, CheckInv
  <2>3. at \in 0..MaxNow
    BY <1>0, <2>1, <2>2, ConstantFacts DEF Disks
  <2>4. check' \in Checks /\ check'.place = check.place
    BY <1>0, <2>1, <2>3 DEF Checks
  <2> QED
    BY <1>0, <1>3, <2>2, <2>4 DEF CheckReads, Types, Retained, CheckInv
<1>4. CASE CheckLands
  <2>1. /\ check.pc = "have" /\ check' = NoCheck /\ st.active \in Places /\ Ready
        /\ UNCHANGED <<call, trip, disk, access, now>>
    BY <1>0, <1>4 DEF CheckLands, CheckInv
  <2> DEFINE at == check.read
             s == Revalued(st)
  <2>2. \/ st' = [st EXCEPT !.snapshot = [place |-> st.active, at |-> at], !.fresh = "fresh", !.failed = FALSE]
           /\ UNCHANGED refreshes
        \/ st' = s /\ UNCHANGED refreshes
        \/ Asks(s, s.active)
    BY <1>4 DEF CheckLands
  <2>3. at \in 0..MaxNow
    BY <1>0 DEF Checks
  <2>4. s \in States /\ s.status = st.status /\ s.active = st.active /\ s.flow = st.flow /\ s.selecting = st.selecting
    BY <1>0, RevaluedFacts
  <2> HIDE DEF at, s
  <2>5. /\ st' \in States /\ refreshes' \subseteq Places
        /\ st'.status = st.status /\ st'.active = st.active
        /\ st'.flow = st.flow /\ st'.selecting = st.selecting
    <3>1. CASE /\ st' = [st EXCEPT !.snapshot = [place |-> st.active, at |-> at], !.fresh = "fresh", !.failed = FALSE]
               /\ UNCHANGED refreshes
      BY <1>0, <2>1, <2>3, <3>1 DEF States
    <3>2. CASE st' = s /\ UNCHANGED refreshes
      BY <1>0, <2>4, <3>2
    <3>3. CASE Asks(s, s.active)
      BY <1>0, <2>1, <2>4, <3>3, AsksFacts
    <3> QED
      BY <2>2, <3>1, <3>2, <3>3
  <2>6. NoCheck.pc = "idle"
    BY DEF NoCheck
  <2> QED
    BY <1>0, <2>1, <2>5, <2>6, ConstantFacts DEF Types, Retained, CheckInv
<1>5. CASE \E p \in Places : RefreshLands(p)
  <2>1. PICK p \in Places : RefreshLands(p)
    BY <1>5
  <2>2. PICK at \in 1..now :
          /\ Stores(p, at)
          /\ LET held == IF disk.at[p] >= at THEN disk.at[p] ELSE at IN
             st' = IF st.active # p THEN st
                   ELSE [st EXCEPT !.snapshot = [place |-> p, at |-> held], !.fresh = Freshness(held),
                                   !.refreshing = FALSE, !.failed = FALSE]
    BY <2>1 DEF RefreshLands
  <2>3. disk' \in Disks /\ Retained'
    BY <1>0, <2>2, StoresFacts
  <2>4. PICK held \in 0..MaxNow :
          st' \in {st, [st EXCEPT !.snapshot = [place |-> p, at |-> held], !.fresh = Freshness(held),
                                  !.refreshing = FALSE, !.failed = FALSE]}
    <3>1. at \in 0..MaxNow /\ disk.at[p] \in 0..MaxNow
      BY <1>0, WeatherAssumption DEF Disks
    <3> QED
      BY <2>2, <3>1
  <2>5. /\ st' \in States /\ st'.status = st.status /\ st'.active = st.active
        /\ st'.flow = st.flow /\ st'.selecting = st.selecting
    <3>1. PICK f \in {"none", "fresh", "stale"} : f = Freshness(held)
      BY FreshnessFacts
    <3>2. st' \in {st, [st EXCEPT !.snapshot = [place |-> p, at |-> held], !.fresh = f,
                                  !.refreshing = FALSE, !.failed = FALSE]}
      BY <2>4, <3>1
    <3>3. [place |-> p, at |-> held] \in [place : Places \cup {NoPlace}, at : 0..MaxNow]
      BY <2>4
    <3>4. PICK w \in [place : Places \cup {NoPlace}, at : 0..MaxNow] :
            st' \in {st, [st EXCEPT !.snapshot = w, !.fresh = f, !.refreshing = FALSE, !.failed = FALSE]}
      BY <3>2, <3>3
    <3>5. CASE st' = st
      BY <1>0, <3>5
    <3>6. CASE st' = [st EXCEPT !.snapshot = w, !.fresh = f, !.refreshing = FALSE, !.failed = FALSE]
      BY <1>0, <3>6 DEF States
    <3> QED
      BY <3>4, <3>5, <3>6
  <2> QED
    BY <1>0, <2>1, <2>3, <2>5 DEF RefreshLands, Types, CheckInv
<1>6. CASE \E p \in Places : RefreshFails(p)
  <2>1. PICK p \in Places : RefreshFails(p)
    BY <1>6
  <2>2. /\ st' \in States /\ st'.status = st.status /\ st'.active = st.active
        /\ st'.flow = st.flow /\ st'.selecting = st.selecting
    BY <1>0, <2>1 DEF RefreshFails, States
  <2> QED
    BY <1>0, <2>1, <2>2 DEF RefreshFails, Types, CheckInv, Retained
<1>7. CASE GrantedInSettings
  BY <1>0, <1>7 DEF GrantedInSettings, Types, CheckInv, Retained
<1>8. CASE BackgroundStores
  <2>1. disk.active \in Places
    BY <1>0, <1>8 DEF BackgroundStores, Disks
  <2>2. disk' \in Disks /\ Retained'
    BY <1>0, <1>8, <2>1, StoresFacts DEF BackgroundStores
  <2> QED
    BY <1>0, <1>8, <2>2 DEF BackgroundStores, Types, CheckInv
<1>9. CASE Tick
  <2>1. now' \in 1..MaxNow
    BY <1>0, <1>9, WeatherAssumption DEF Tick
  <2> QED
    BY <1>0, <1>9, <2>1 DEF Tick, Types, CheckInv, Retained
<1> QED
  BY <1>1, <1>2, <1>3, <1>4, <1>5, <1>6, <1>7, <1>8, <1>9 DEF Quiet

LEMMA QuietBase ==
    ASSUME BaseInv, Quiet
    PROVE  BaseInv'
<1>0. CallInv /\ RestInv /\ RefixInv
  BY DEF BaseInv
<1>1. OneInv' /\ TripInv' /\ PlaceInv'
  BY <1>0, QuietFacts, KeptCalls
<1>2. RestInv'
  BY <1>0, QuietFacts DEF RestInv, Ready
<1>3. RefixInv'
  BY <1>0, QuietFacts DEF RefixInv, On
<1> QED
  BY <1>1, <1>2, <1>3, QuietFacts DEF BaseInv, CallInv

\* What a launch shows.
LEMMA LoadedFacts ==
    ASSUME BaseInv, Loaded
    PROVE  /\ UNCHANGED <<call, trip, check, disk, access, now>> /\ ~Ready
           /\ st' \in States /\ refreshes' \subseteq Places
           /\ ~st'.selecting /\ st'.flow = "idle" /\ ~st'.failed
           /\ \/ st' = [Loading EXCEPT !.status = "error"] /\ refreshes' = refreshes
              \/ /\ Ready'
                 /\ st'.fresh = "none" <=> st'.snapshot = NoSnapshot
                 /\ st'.snapshot = NoSnapshot \/ st'.snapshot \in [place : Places, at : 1..MaxNow]
                 /\ st'.fresh = "fresh" => Describes(st'.snapshot, st'.active)
                 /\ st'.refreshing => st'.active \in refreshes'
                 /\ st'.active # NoPlace /\ ~Describes(st'.snapshot, st'.active) => st'.active \in refreshes'
<1> DEFINE p == disk.active
<1>0. /\ st = Loading /\ disk \in Disks /\ refreshes = {} /\ st.status = "loading"
      /\ UNCHANGED <<call, trip, check, disk, access, now>> /\ p \in Places \cup {NoPlace}
  BY DEF Loaded, BaseInv, CallInv, Types, RestInv, Ready, Loading, Disks
<1>1. CASE st' = [st EXCEPT !.status = "error"] /\ UNCHANGED refreshes
  <2>1. st' = [Loading EXCEPT !.status = "error"] /\ st' \in States
    BY <1>0, <1>1, ConstantFacts
  <2> QED
    BY <1>0, <1>1, <2>1 DEF Ready, Loading
<1>2. CASE \E at \in {0, IF p = NoPlace THEN 0 ELSE disk.at[p]} :
             LET s == [Loading EXCEPT !.status = "ready", !.active = p, !.fresh = Freshness(at),
                                      !.snapshot = IF at = 0 THEN NoSnapshot ELSE [place |-> p, at |-> at]]
             IN  IF p = NoPlace \/ s.fresh = "fresh" THEN st' = s /\ UNCHANGED refreshes ELSE Asks(s, p)
  <2>1. PICK at \in 0..MaxNow :
             /\ p = NoPlace => at = 0
             /\ LET s == [Loading EXCEPT !.status = "ready", !.active = p, !.fresh = Freshness(at),
                                      !.snapshot = IF at = 0 THEN NoSnapshot ELSE [place |-> p, at |-> at]]
                IN  IF p = NoPlace \/ s.fresh = "fresh" THEN st' = s /\ UNCHANGED refreshes ELSE Asks(s, p)
    <3>1. \A at \in {0, IF p = NoPlace THEN 0 ELSE disk.at[p]} : at \in 0..MaxNow /\ (p = NoPlace => at = 0)
      BY <1>0, ConstantFacts DEF Disks
    <3> QED
      BY <1>2, <3>1, Zenon
  <2> DEFINE s == [Loading EXCEPT !.status = "ready", !.active = p, !.fresh = Freshness(at),
                                  !.snapshot = IF at = 0 THEN NoSnapshot ELSE [place |-> p, at |-> at]]
  <2>2. /\ s.status = "ready" /\ s.active = p /\ s.fresh = Freshness(at)
        /\ s.snapshot = IF at = 0 THEN NoSnapshot ELSE [place |-> p, at |-> at]
        /\ ~s.selecting /\ s.flow = "idle" /\ ~s.failed /\ ~s.refreshing
    BY DEF Loading
  <2>3. s \in States
    <3>1. s.snapshot \in [place : Places \cup {NoPlace}, at : 0..MaxNow]
      BY <1>0, <2>1, <2>2, ConstantFacts
    <3>2. s.fresh \in {"none", "fresh", "stale"}
      BY <2>2, FreshnessFacts
    <3> QED
      BY <1>0, <3>1, <3>2 DEF States, Loading
  <2>4. IF p = NoPlace \/ s.fresh = "fresh" THEN st' = s /\ UNCHANGED refreshes ELSE Asks(s, p)
    BY <2>1
  <2> HIDE DEF s
  <2>5. /\ at # 0 => p \in Places /\ s.snapshot = [place |-> p, at |-> at] /\ s.snapshot # NoSnapshot
        /\ at # 0 => s.snapshot \in [place : Places, at : 1..MaxNow]
        /\ at = 0 => s.snapshot = NoSnapshot
        /\ s.fresh = "none" <=> at = 0
    BY <1>0, <2>1, <2>2, FreshnessFacts DEF NoSnapshot
  <2>6. s.fresh = "fresh" => Describes(s.snapshot, p)
    BY <2>5, ConstantFacts DEF Describes
  <2>7. CASE p = NoPlace \/ s.fresh = "fresh"
    <3>1. st' = s /\ refreshes' = refreshes
      BY <2>4, <2>7
    <3> QED
      BY <1>0, <2>2, <2>3, <2>5, <2>6, <2>7, <3>1 DEF Ready
  <2>8. CASE ~(p = NoPlace \/ s.fresh = "fresh")
    <3>1. Asks(s, p) /\ p \in Places
      BY <1>0, <2>4, <2>8
    <3>2. /\ st' \in States /\ refreshes' = refreshes \cup {p}
          /\ st'.status = s.status /\ st'.active = s.active /\ st'.snapshot = s.snapshot
          /\ st'.fresh = s.fresh /\ st'.flow = s.flow /\ st'.selecting = s.selecting
          /\ st'.failed = s.failed
      BY <2>3, <3>1, AsksFacts
    <3> QED
      BY <1>0, <2>2, <2>3, <2>5, <2>6, <2>8, <3>1, <3>2 DEF Ready
  <2> QED
    BY <2>7, <2>8
<1>3. \/ st' = [st EXCEPT !.status = "error"] /\ UNCHANGED refreshes
      \/ \E at \in {0, IF p = NoPlace THEN 0 ELSE disk.at[p]} :
             LET s == [Loading EXCEPT !.status = "ready", !.active = p, !.fresh = Freshness(at),
                                      !.snapshot = IF at = 0 THEN NoSnapshot ELSE [place |-> p, at |-> at]]
             IN  IF p = NoPlace \/ s.fresh = "fresh" THEN st' = s /\ UNCHANGED refreshes ELSE Asks(s, p)
  BY DEF Loaded
<1> QED
  BY <1>1, <1>2, <1>3

LEMMA BaseStep ==
    ASSUME BaseInv, [Next]_vars
    PROVE  BaseInv'
<1>0. CallInv /\ Types /\ Retained /\ RestInv /\ RefixInv /\ CheckInv /\ st \in States
  BY DEF BaseInv, CallInv, Types
<1>1. CASE \E c \in Slots : SlotStep(c)
  BY <1>1, SlotBase
<1>2. CASE Quiet
  BY <1>2, QuietBase
<1>3. CASE dismissLocationFlow
  <2>1. /\ Ready /\ st'.active = st.active /\ st'.flow = "idle" /\ st' \in States /\ st'.status = st.status
        /\ UNCHANGED <<check, refreshes, disk, access, now>> /\ EndsTrip(NoSlot, NoCall)
    BY <1>0, <1>3 DEF dismissLocationFlow, States
  <2>2. /\ call' \in [Slots -> Calls] /\ trip' = NoSlot
        /\ \A d \in Slots : call'[d] = call[d] \/ call'[d] = NoCall
    BY <1>0, <2>1, EndsTripFacts, ConstantFacts
  <2>3. Types' /\ Retained' /\ CheckInv' /\ RestInv'
    BY <1>0, <2>1, <2>2 DEF Types, Retained, CheckInv, RestInv, Ready
  <2>4. RefixInv'
    BY <1>0, <2>1, <2>2 DEF RefixInv, On, NoCall
  <2> QED
    BY <1>0, <1>3, <2>3, <2>4, DismissCalls DEF BaseInv, CallInv
<1>4. CASE Loaded
  <2>1. /\ UNCHANGED <<call, trip, check, disk, access, now>> /\ ~Ready /\ ~st'.selecting
        /\ st' \in States /\ refreshes' \subseteq Places
        /\ \/ st' = [Loading EXCEPT !.status = "error"] /\ refreshes' = refreshes
           \/ Ready'
    BY <1>4, LoadedFacts
  <2>2. (\A c \in Slots : call[c] = NoCall) /\ trip = NoSlot /\ check = NoCheck
    BY <1>0, <2>1 DEF RestInv
  <2>3. OneInv' /\ TripInv' /\ PlaceInv'
    BY <2>1, <2>2, RestCalls
  <2>4. Types' /\ Retained' /\ CheckInv' /\ RestInv' /\ RefixInv'
    BY <1>0, <2>1, <2>2 DEF Types, Retained, CheckInv, RestInv, RefixInv, NoCheck, NoCall, On
  <2> QED
    BY <2>3, <2>4 DEF BaseInv, CallInv
<1>5. CASE Killed
  <2>1. /\ st' = Loading /\ (\A c \in Slots : call'[c] = NoCall) /\ trip' = NoSlot /\ check' = NoCheck
        /\ call' \in [Slots -> Calls]
        /\ refreshes' = {} /\ access' \in {"ask", "denied", "granted"} /\ UNCHANGED <<disk, now>>
    BY <1>5, ConstantFacts DEF Killed
  <2>2. OneInv' /\ TripInv' /\ PlaceInv'
    BY <2>1, RestCalls DEF Loading
  <2>3. Types' /\ Retained'
    BY <1>0, <2>1, ConstantFacts DEF Types, Retained
  <2>4. NoCheck.pc = "idle" /\ NoCall.pc = "idle"
    BY DEF NoCheck, NoCall
  <2>5. CheckInv' /\ RestInv' /\ RefixInv'
    BY <2>1, <2>4 DEF CheckInv, RestInv, RefixInv, On
  <2> QED
    BY <2>2, <2>3, <2>5 DEF BaseInv, CallInv
<1>6. CASE UNCHANGED vars
  <2>1. OneInv' /\ TripInv' /\ PlaceInv'
    BY <1>0, <1>6, KeptCalls DEF vars
  <2>2. Types' /\ Retained' /\ CheckInv' /\ RestInv' /\ RefixInv'
    BY <1>0, <1>6 DEF vars, Types, Retained, CheckInv, RestInv, RefixInv, On, Ready
  <2> QED
    BY <2>1, <2>2 DEF BaseInv, CallInv
<1> QED
  BY <1>1, <1>2, <1>3, <1>4, <1>5, <1>6 DEF Next, SlotStep, Quiet

LEMMA BaseInit == Init => BaseInv
<1> SUFFICES ASSUME Init PROVE BaseInv
  OBVIOUS
<1>1. /\ st = Loading /\ call = [c \in Slots |-> NoCall] /\ trip = NoSlot /\ check = NoCheck /\ refreshes = {}
      /\ disk = [active |-> NoPlace, at |-> [p \in Places |-> 0]] /\ access = "ask" /\ now = 1
  BY DEF Init
<1>2. Types
  BY <1>1, ConstantFacts DEF Types, Disks
<1>3. Retained /\ RestInv /\ RefixInv /\ CheckInv
  BY <1>1 DEF Retained, RestInv, RefixInv, CheckInv, NoCheck, NoCall, On
<1>4. OneInv /\ TripInv /\ PlaceInv
  BY <1>1 DEF OneInv, TripInv, TripEnds, PlaceInv, On, Selecting, NoCall, Loading
<1> QED
  BY <1>2, <1>3, <1>4 DEF BaseInv, CallInv

-----------------------------------------------------------------------------
(* What the screen shows.                                                    *)

\* A selection reads its place's cached weather.
Reads(c) == call[c].pc \in {"cache", "cached"}

\* What is shown has a label, was fetched, and is of a place; and a place without
\* weather is asked for, has failed, or has its cached weather read.
SnapshotInv ==
    /\ st.snapshot = NoSnapshot \/ st.snapshot \in [place : Places, at : 1..MaxNow]
    /\ st.fresh = "none" <=> st.snapshot = NoSnapshot
BlankInv ==
    Ready /\ st.active # NoPlace /\ ~Describes(st.snapshot, st.active) /\ (\A c \in Slots : ~Reads(c))
        => st.failed \/ st.active \in refreshes
ShownInv == SnapshotInv /\ FreshIsOwn /\ RefreshShown /\ BlankInv

\* The weather stays, at most with another label.
ViewKept ==
    /\ st'.status = st.status /\ st'.active = st.active /\ st'.snapshot = st.snapshot
    /\ st'.refreshing = st.refreshing /\ st'.failed = st.failed
    /\ \/ st'.fresh = st.fresh
       \/ /\ st'.fresh = "fresh" => Describes(st.snapshot, st.active)
          /\ st.snapshot = NoSnapshot => st'.fresh = "none"
          /\ st.snapshot # NoSnapshot /\ st.snapshot.at # 0 => st'.fresh # "none"
    /\ refreshes' = refreshes

LEMMA ShownKept ==
    ASSUME ShownInv, ViewKept, \A c \in Slots : Reads(c) => Reads(c)'
    PROVE  ShownInv'
<1>1. st.snapshot # NoSnapshot => st.snapshot.at # 0
  BY WeatherAssumption DEF ShownInv, SnapshotInv
<1>2. SnapshotInv'
  BY <1>1 DEF ShownInv, SnapshotInv, ViewKept
<1>3. FreshIsOwn' /\ RefreshShown'
  BY DEF ShownInv, ViewKept, FreshIsOwn, RefreshShown, Describes
<1>4. BlankInv'
  BY DEF ShownInv, ViewKept, BlankInv, Describes, Ready
<1> QED
  BY <1>2, <1>3, <1>4 DEF ShownInv

LEMMA SlotShown ==
    ASSUME BaseInv, ShownInv, NEW c \in Slots, SlotStep(c)
    PROVE  ShownInv'
<1>0. /\ st \in States /\ Types /\ CallInv /\ call \in [Slots -> Calls] /\ \A d \in Slots : call[d] \in Calls
      /\ TripInv /\ PlaceInv /\ NoCall.pc = "idle" /\ trip \in Slots \cup {NoSlot} /\ NoSlot \notin Slots
  BY WeatherAssumption DEF BaseInv, CallInv, Types, NoCall
<1>1. \A d \in Slots : d = trip \/ d = call[c].tap => ~Reads(d)
  BY <1>0 DEF TripInv, On, Reads
<1>2. CASE beginDeviceLocationSelection(c) \/ selectPlaceSearchResult(c)
  <2>1. \A d \in Slots : Reads(d) => Reads(d)'
    BY <1>0, <1>1, <1>2 DEF beginDeviceLocationSelection, selectPlaceSearchResult, EndsTrip, Reads, Idle, On
  <2>2. ViewKept
    BY <1>0, <1>2 DEF beginDeviceLocationSelection, selectPlaceSearchResult, ViewKept, Acquiring, States
  <2> QED
    BY <2>1, <2>2, ShownKept
<1>3. CASE PermissionAnswered(c)
  <2>1. \A d \in Slots : Reads(d) => Reads(d)'
    <3>1. CASE access' = "granted"
      BY <1>0, <1>3, <3>1 DEF PermissionAnswered, Reads, On
    <3>2. CASE access' # "granted"
      <4>1. \A d \in Slots : d # c => call'[d] = call[d] \/ d = call[c].tap
        BY <1>0, <1>3, <3>2, ReturnedFacts DEF PermissionAnswered
      <4> QED
        BY <1>0, <1>1, <1>3, <4>1 DEF PermissionAnswered, Reads, On
    <3> QED
      BY <3>1, <3>2
  <2>2. ViewKept
    BY <1>0, <1>3 DEF PermissionAnswered, ViewKept, States
  <2> QED
    BY <2>1, <2>2, ShownKept
<1>4. CASE FixAnswered(c) \/ RefixAnswered(c)
  <2>1. ASSUME NEW d \in Slots, Reads(d)
        PROVE  Reads(d)'
    <3>1. d # c /\ d # call[c].tap
      BY <1>0, <1>1, <1>4, <2>1 DEF FixAnswered, RefixAnswered, On, Reads
    <3> QED
      BY <1>0, <1>4, <2>1, <3>1, LookupFacts DEF LookupReturns, LookupFound, Untouched, Reads
  <2>2. ViewKept
    <3>1. st' \in {st, [st EXCEPT !.selecting = FALSE, !.flow = "card"], Acquiring(st)} /\ refreshes' = refreshes
      BY <1>0, <1>4, LookupFacts DEF LookupReturns, LookupFound
    <3> QED
      BY <1>0, <3>1 DEF ViewKept, Acquiring, States
  <2> QED
    BY <2>1, <2>2, ShownKept
<1>5. CASE SaveFails(c)
  <2>1. \A d \in Slots : Reads(d) => Reads(d)'
    <3>1. \A d \in Slots : d # c => call'[d] = call[d] \/ d = call[c].tap
      BY <1>0, <1>5, ReturnedFacts DEF SaveFails
    <3> QED
      BY <1>0, <1>1, <1>5, <3>1 DEF SaveFails, Reads, On
  <2>2. ViewKept
    BY <1>0, <1>5 DEF SaveFails, ViewKept, States
  <2> QED
    BY <2>1, <2>2, ShownKept
<1>6. CASE CacheReads(c)
  <2>1. \A d \in Slots : Reads(d) => Reads(d)'
    BY <1>0, <1>6 DEF CacheReads, Reads, Calls
  <2>2. ViewKept
    BY <1>6 DEF CacheReads, ViewKept
  <2> QED
    BY <2>1, <2>2, ShownKept
<1>7. CASE openApplicationSettings(c)
  <2>1. \A d \in Slots : Reads(d) => Reads(d)'
    BY <1>0, <1>1, <1>7 DEF openApplicationSettings, EndsTrip, Reads, Idle, On
  <2>2. ViewKept
    BY <1>0, <1>7 DEF openApplicationSettings, ViewKept, States
  <2> QED
    BY <2>1, <2>2, ShownKept
<1>8. CASE onForeground(c)
  <2>1. CASE Ready
    <3>1. \A d \in Slots : Reads(d) => Reads(d)'
      BY <1>0, <1>8, <2>1 DEF onForeground, Ready, Reads, Idle, On
    <3>2. ViewKept
      BY <1>8, <2>1 DEF onForeground, Ready, ViewKept
    <3> QED
      BY <3>1, <3>2, ShownKept
  <2>2. CASE ~Ready
    <3>1. st' = Loading
      BY <1>8, <2>2 DEF onForeground
    <3> QED
      BY <3>1 DEF ShownInv, SnapshotInv, FreshIsOwn, RefreshShown, BlankInv, Loading, Ready
  <2> QED
    BY <2>1, <2>2
<1>9. CASE Foregrounded(c)
  <2>1. \A d \in Slots : Reads(d) => Reads(d)'
    <3>1. ~Reads(c) /\ \A d \in Slots : d # c /\ d # trip => call'[d] = call[d]
      BY <1>0, <1>9, ForegroundFacts DEF Finishes, Corrects, Looks, On, Reads
    <3> QED
      BY <1>1, <3>1 DEF Reads
  <2>2. PICK s \in {st, [st EXCEPT !.flow = "idle"], Acquiring([st EXCEPT !.flow = "idle"])} : Relabelled(s)
    BY <1>0, <1>9, ForegroundFacts DEF Finishes, Corrects, Looks
  <2>3. ViewKept
    <3>1. /\ s.status = st.status /\ s.active = st.active /\ s.snapshot = st.snapshot
          /\ s.refreshing = st.refreshing /\ s.failed = st.failed /\ s.fresh = st.fresh
      BY <1>0 DEF Acquiring, States
    <3> QED
      BY <1>0, <1>9, <2>2, <3>1, ForegroundFacts DEF Relabelled, ViewKept
  <2> QED
    BY <2>1, <2>3, ShownKept
<1>10. CASE Saved(c)
  <2> DEFINE p == call[c].place
  <2>1. /\ st'.snapshot = st.snapshot /\ ~st'.refreshing /\ st'.active = p
        /\ st'.fresh = IF p # st.active /\ st.fresh # "none" THEN "stale" ELSE st.fresh
    BY <1>0, <1>10 DEF Saved, Switched, States
  <2>2. call'[c].pc = "cache"
    BY <1>0, <1>10 DEF Saved, Calls
  <2>3. SnapshotInv' /\ RefreshShown' /\ BlankInv'
    BY <2>1, <2>2 DEF ShownInv, SnapshotInv, RefreshShown, BlankInv, Reads
  <2>4. FreshIsOwn'
    BY <2>1 DEF ShownInv, FreshIsOwn, Describes
  <2> QED
    BY <2>3, <2>4 DEF ShownInv
<1>11. CASE CacheLands(c)
  <2> DEFINE p == call[c].place
  <2>1. p \in Places /\ p = st.active
    BY <1>0, <1>11 DEF CacheLands, PlaceInv, On
  <2>2. PICK s \in States, at \in 0..MaxNow :
             /\ s.status = st.status /\ s.active = st.active /\ ~s.refreshing /\ ~s.failed
             /\ at = 0 => s.snapshot = st.snapshot /\ s.fresh = st.fresh
             /\ at # 0 => s.snapshot = [place |-> p, at |-> at] /\ s.fresh = Freshness(at)
             /\ \/ Freshness(at) = "fresh" /\ st' = s /\ refreshes' = refreshes
                \/ Asks(s, p)
    BY <1>0, <1>11, <2>1, CacheLandsFacts
  <2>3. /\ s.snapshot = NoSnapshot \/ s.snapshot \in [place : Places, at : 1..MaxNow]
        /\ s.fresh = "none" <=> s.snapshot = NoSnapshot
        /\ s.fresh = "fresh" => Describes(s.snapshot, s.active)
        /\ at # 0 => Describes(s.snapshot, s.active)
    <3>1. CASE at = 0
      BY <2>2, <3>1 DEF ShownInv, SnapshotInv, FreshIsOwn, Describes
    <3>2. CASE at # 0
      <4>1. /\ s.snapshot \in [place : Places, at : 1..MaxNow] /\ s.snapshot.at # 0 /\ s.snapshot.place = p
            /\ s.fresh # "none"
        BY <2>1, <2>2, <3>2, FreshnessFacts
      <4>2. s.snapshot # NoSnapshot /\ p # NoPlace
        BY <2>1, <4>1, ConstantFacts DEF NoSnapshot
      <4> QED
        BY <2>1, <2>2, <4>1, <4>2 DEF Describes
    <3> QED
      BY <3>1, <3>2
  <2>4. CASE Freshness(at) = "fresh" /\ st' = s /\ refreshes' = refreshes
    <3>1. at # 0
      BY <2>4 DEF Freshness
    <3> QED
      BY <2>2, <2>3, <2>4, <3>1 DEF ShownInv, SnapshotInv, FreshIsOwn, RefreshShown, BlankInv, Describes
  <2>5. CASE Asks(s, p)
    <3>1. /\ st'.active = p /\ st'.snapshot = s.snapshot /\ st'.fresh = s.fresh /\ p \in refreshes'
      BY <2>1, <2>2, <2>5, AsksFacts
    <3> QED
      BY <2>1, <2>2, <2>3, <3>1 DEF ShownInv, SnapshotInv, FreshIsOwn, RefreshShown, BlankInv, Describes
  <2> QED
    BY <2>2, <2>4, <2>5
<1> QED
  BY <1>2, <1>3, <1>4, <1>5, <1>6, <1>7, <1>8, <1>9, <1>10, <1>11 DEF SlotStep

\* What the steps that answer do to the weather shown: newer weather of the place
\* in use lands, a refresh is asked for, or one fails.
LEMMA CheckLandsFacts ==
    ASSUME BaseInv, CheckLands
    PROVE  /\ call' = call /\ st.active \in Places
           /\ \/ /\ check.read > st.snapshot.at
                 /\ st' = [st EXCEPT !.snapshot = [place |-> st.active, at |-> check.read],
                                     !.fresh = "fresh", !.failed = FALSE]
                 /\ refreshes' = refreshes
              \/ Relabelled(st) /\ refreshes' = refreshes
              \/ \E s \in States : /\ s = Revalued(st) /\ Asks(s, st.active)
<1>0. st \in States /\ Types /\ st.active \in Places
  BY DEF BaseInv, CallInv, Types, CheckInv, CheckLands
<1>1. /\ call' = call
      /\ \/ /\ check.read > st.snapshot.at
            /\ st' = [st EXCEPT !.snapshot = [place |-> st.active, at |-> check.read],
                                !.fresh = "fresh", !.failed = FALSE]
            /\ refreshes' = refreshes
         \/ st' = Revalued(st) /\ refreshes' = refreshes
         \/ Asks(Revalued(st), Revalued(st).active)
  BY DEF CheckLands
<1>2. Revalued(st) \in States /\ Revalued(st).active = st.active
  BY <1>0, RevaluedFacts
<1>3. st' = Revalued(st) => Relabelled(st)
  BY <1>0, RevaluedFacts DEF Relabelled
<1> QED
  BY <1>0, <1>1, <1>2, <1>3

LEMMA RefreshLandsFacts ==
    ASSUME BaseInv, NEW p \in Places, RefreshLands(p)
    PROVE  /\ call' = call /\ refreshes' = refreshes \ {p} /\ Types
           /\ st.active # p => st' = st
           /\ st.active = p => \E held \in 1..MaxNow :
                /\ held >= disk.at[p]
                /\ st' = [st EXCEPT !.snapshot = [place |-> p, at |-> held], !.fresh = Freshness(held),
                                    !.refreshing = FALSE, !.failed = FALSE]
<1>0. st \in States /\ Types /\ disk \in Disks /\ now \in 1..MaxNow
  BY DEF BaseInv, CallInv, Types
<1>1. PICK at \in 1..now :
        LET held == IF disk.at[p] >= at THEN disk.at[p] ELSE at IN
           st' = IF st.active # p THEN st
                 ELSE [st EXCEPT !.snapshot = [place |-> p, at |-> held], !.fresh = Freshness(held),
                                 !.refreshing = FALSE, !.failed = FALSE]
  BY DEF RefreshLands
<1> DEFINE held == IF disk.at[p] >= at THEN disk.at[p] ELSE at
<1>2. held \in 1..MaxNow /\ held >= disk.at[p]
  <2>1. disk.at[p] \in 0..MaxNow /\ at \in 1..MaxNow
    BY <1>0, WeatherAssumption DEF Disks
  <2> QED
    BY <2>1, WeatherAssumption
<1>3. st' = IF st.active # p THEN st
            ELSE [st EXCEPT !.snapshot = [place |-> p, at |-> held], !.fresh = Freshness(held),
                            !.refreshing = FALSE, !.failed = FALSE]
  BY <1>1
<1> HIDE DEF held
<1> QED
  BY <1>0, <1>2, <1>3 DEF RefreshLands

LEMMA RefreshFailsFacts ==
    ASSUME BaseInv, NEW p \in Places, RefreshFails(p)
    PROVE  /\ refreshes' = refreshes \ {p} /\ call' = call
           /\ st'.status = st.status /\ st'.active = st.active
           /\ st'.snapshot = st.snapshot /\ st'.fresh = st.fresh
           /\ st.active # p => st' = st
           /\ st.active = p => ~st'.refreshing /\ st'.failed
<1>0. st \in States
  BY DEF BaseInv, CallInv, Types
<1> QED
  BY <1>0 DEF RefreshFails, States

\* Weather that is fetched at some time is a snapshot with a label.
LEMMA LandedFacts ==
    ASSUME NEW p \in Places, NEW at \in 1..MaxNow, st' \in States,
           st'.snapshot = [place |-> p, at |-> at], st'.active = p,
           st'.fresh # "none", st'.refreshing => p \in refreshes'
    PROVE  ShownInv'
<1>1. st'.snapshot \in [place : Places, at : 1..MaxNow] /\ st'.snapshot # NoSnapshot /\ p # NoPlace
  BY ConstantFacts DEF NoSnapshot
<1>2. SnapshotInv'
  BY <1>1 DEF SnapshotInv
<1>3. Describes(st'.snapshot, st'.active)
  BY <1>1 DEF Describes
<1>4. FreshIsOwn' /\ RefreshShown' /\ BlankInv'
  BY <1>3 DEF FreshIsOwn, RefreshShown, BlankInv
<1> QED
  BY <1>2, <1>4 DEF ShownInv

LEMMA QuietShown ==
    ASSUME BaseInv, ShownInv, Quiet
    PROVE  ShownInv'
<1>0. /\ st \in States /\ Types /\ now \in 1..MaxNow
      /\ call' = call /\ st'.active = st.active /\ st'.status = st.status
  BY QuietFacts DEF BaseInv, CallInv, Types
<1>00. /\ st' \in States
       /\ \A d \in Slots : Reads(d)' <=> Reads(d)
  BY <1>0, QuietFacts DEF Types, Reads
<1>1. ASSUME NEW s \in States, NEW p \in Places, Asks(s, p), p = st.active, s.active = p,
             s.snapshot = st.snapshot,
             \/ s.fresh = st.fresh
             \/ /\ s.fresh = "fresh" => Describes(st.snapshot, st.active)
                /\ st.snapshot = NoSnapshot => s.fresh = "none"
                /\ st.snapshot # NoSnapshot /\ st.snapshot.at # 0 => s.fresh # "none"
      PROVE  ShownInv'
  <2>1. /\ st'.snapshot = st.snapshot /\ st'.fresh = s.fresh /\ p \in refreshes'
    BY <1>1, AsksFacts
  <2>2. st.snapshot # NoSnapshot => st.snapshot.at # 0
    BY WeatherAssumption DEF ShownInv, SnapshotInv
  <2>3. SnapshotInv'
    BY <1>1, <2>1, <2>2 DEF ShownInv, SnapshotInv
  <2>4. FreshIsOwn' /\ RefreshShown' /\ BlankInv'
    BY <1>0, <1>1, <2>1 DEF ShownInv, FreshIsOwn, RefreshShown, BlankInv, Describes
  <2> QED
    BY <2>3, <2>4 DEF ShownInv
<1>2. CASE refresh
  <2>1. Asks(st, st.active) /\ st.active \in Places
    BY <1>0, <1>2 DEF refresh, States
  <2> QED
    BY <1>0, <1>1, <2>1
<1>3. CASE revalidateFreshness
  <2>1. Relabelled(st) /\ refreshes' = refreshes
    BY <1>0, <1>3, RevalidatesRelabels DEF revalidateFreshness
  <2>2. ViewKept
    BY <2>1 DEF Relabelled, ViewKept
  <2> QED
    BY <1>00, <2>2, ShownKept
<1>4. CASE CheckReads \/ GrantedInSettings \/ BackgroundStores \/ Tick
  <2>1. ViewKept
    BY <1>4 DEF CheckReads, GrantedInSettings, BackgroundStores, Tick, ViewKept
  <2> QED
    BY <1>00, <2>1, ShownKept
<1>5. CASE CheckLands
  <2>1. CASE /\ check.read > st.snapshot.at
             /\ st' = [st EXCEPT !.snapshot = [place |-> st.active, at |-> check.read],
                                 !.fresh = "fresh", !.failed = FALSE]
             /\ refreshes' = refreshes
    <3>1. check.read \in 1..MaxNow /\ st.active \in Places
      <4>1. check.read \in 0..MaxNow /\ st.snapshot.at \in 0..MaxNow
        BY <1>0 DEF Types, Checks, States
      <4> QED
        BY <1>5, <2>1, <4>1, CheckLandsFacts, WeatherAssumption
    <3>2. /\ st'.snapshot = [place |-> st.active, at |-> check.read] /\ st'.fresh = "fresh"
          /\ st'.refreshing = st.refreshing
      BY <1>0, <2>1 DEF States
    <3>3. st'.refreshing => st.active \in refreshes'
      BY <2>1, <3>2 DEF ShownInv, RefreshShown
    <3> QED
      BY <1>0, <1>00, <3>1, <3>2, <3>3, LandedFacts
  <2>2. CASE Relabelled(st) /\ refreshes' = refreshes
    <3>1. ViewKept
      BY <2>2 DEF Relabelled, ViewKept
    <3> QED
      BY <1>00, <3>1, ShownKept
  <2>3. CASE \E s \in States : s = Revalued(st) /\ Asks(s, st.active)
    <3>1. PICK s \in States : s = Revalued(st) /\ Asks(s, st.active)
      BY <2>3
    <3>2. st.active \in Places
      BY <1>5, CheckLandsFacts
    <3> QED
      BY <1>0, <1>1, <3>1, <3>2, RevaluedFacts
  <2> QED
    BY <1>5, <2>1, <2>2, <2>3, CheckLandsFacts
<1>6. CASE \E p \in Places : RefreshLands(p)
  <2>1. PICK p \in Places : RefreshLands(p)
    BY <1>6
  <2>2. CASE st.active = p
    <3>1. PICK held \in 1..MaxNow :
                st' = [st EXCEPT !.snapshot = [place |-> p, at |-> held], !.fresh = Freshness(held),
                                    !.refreshing = FALSE, !.failed = FALSE]
      BY <2>1, <2>2, RefreshLandsFacts
    <3>2. Freshness(held) \in {"none", "fresh", "stale"} /\ Freshness(held) # "none"
      BY <3>1, FreshnessFacts
    <3>3. st'.snapshot = [place |-> p, at |-> held] /\ st'.fresh # "none" /\ ~st'.refreshing
      BY <1>0, <3>1, <3>2 DEF States
    <3> QED
      BY <1>0, <1>00, <2>2, <3>3, LandedFacts
  <2>3. CASE st.active # p
    <3>1. st' = st /\ refreshes' = refreshes \ {p}
      BY <2>1, <2>3, RefreshLandsFacts
    <3> QED
      BY <1>00, <2>3, <3>1 DEF ShownInv, SnapshotInv, FreshIsOwn, RefreshShown, BlankInv, Ready
  <2> QED
    BY <2>2, <2>3
<1>7. CASE \E p \in Places : RefreshFails(p)
  <2>1. PICK p \in Places : RefreshFails(p)
    BY <1>7
  <2>2. CASE st.active = p
    <3>1. /\ st'.snapshot = st.snapshot /\ st'.fresh = st.fresh /\ ~st'.refreshing /\ st'.failed
      BY <2>1, <2>2, RefreshFailsFacts
    <3> QED
      BY <1>0, <3>1 DEF ShownInv, SnapshotInv, FreshIsOwn, RefreshShown, BlankInv, Ready
  <2>3. CASE st.active # p
    <3>1. st' = st /\ refreshes' = refreshes \ {p}
      BY <2>1, <2>3, RefreshFailsFacts
    <3> QED
      BY <1>00, <2>3, <3>1 DEF ShownInv, SnapshotInv, FreshIsOwn, RefreshShown, BlankInv, Ready
  <2> QED
    BY <2>2, <2>3
<1> QED
  BY <1>2, <1>3, <1>4, <1>5, <1>6, <1>7 DEF Quiet

LEMMA ShownStep ==
    ASSUME BaseInv, ShownInv, [Next]_vars
    PROVE  ShownInv'
<1>0. st \in States /\ Types /\ TripInv /\ NoCall.pc = "idle"
  BY DEF BaseInv, CallInv, Types, NoCall
<1>1. CASE \E c \in Slots : SlotStep(c)
  BY <1>1, SlotShown
<1>2. CASE Quiet
  BY <1>2, QuietShown
<1>3. CASE dismissLocationFlow
  <2>1. ViewKept
    BY <1>0, <1>3 DEF dismissLocationFlow, ViewKept, States
  <2>2. \A d \in Slots : Reads(d) => Reads(d)'
    BY <1>0, <1>3, WeatherAssumption DEF dismissLocationFlow, EndsTrip, TripInv, On, Reads
  <2> QED
    BY <2>1, <2>2, ShownKept
<1>4. CASE Loaded
  <2>1. CASE st' = [Loading EXCEPT !.status = "error"]
    BY <2>1 DEF ShownInv, SnapshotInv, FreshIsOwn, RefreshShown, BlankInv, Loading, Ready
  <2>2. CASE ~(st' = [Loading EXCEPT !.status = "error"])
    <3>1. /\ st'.fresh = "none" <=> st'.snapshot = NoSnapshot
          /\ st'.snapshot = NoSnapshot \/ st'.snapshot \in [place : Places, at : 1..MaxNow]
          /\ st'.fresh = "fresh" => Describes(st'.snapshot, st'.active)
          /\ st'.refreshing => st'.active \in refreshes'
          /\ st'.active # NoPlace /\ ~Describes(st'.snapshot, st'.active) => st'.active \in refreshes'
      BY <1>4, <2>2, LoadedFacts
    <3> QED
      BY <3>1 DEF ShownInv, SnapshotInv, FreshIsOwn, RefreshShown, BlankInv, Describes
  <2> QED
    BY <2>1, <2>2
<1>5. CASE Killed
  <2>1. st' = Loading
    BY <1>5 DEF Killed
  <2> QED
    BY <2>1 DEF ShownInv, SnapshotInv, FreshIsOwn, RefreshShown, BlankInv, Loading, Ready
<1>6. CASE UNCHANGED vars
  <2>1. ViewKept /\ \A d \in Slots : Reads(d) => Reads(d)'
    BY <1>6 DEF vars, ViewKept, Reads
  <2> QED
    BY <2>1, ShownKept
<1> QED
  BY <1>1, <1>2, <1>3, <1>4, <1>5, <1>6 DEF Next, SlotStep, Quiet

LEMMA ShownInit == Init => ShownInv
BY DEF Init, ShownInv, SnapshotInv, FreshIsOwn, RefreshShown, BlankInv, Loading, Ready

IInv == BaseInv /\ ShownInv

LEMMA Inductive == Spec => []IInv
<1>1. Init => IInv
  BY BaseInit, ShownInit DEF IInv
<1>2. IInv /\ [Next]_vars => IInv'
  BY BaseStep, ShownStep DEF IInv
<1> QED
  BY <1>1, <1>2, PTL DEF Spec

\* The types, the labels and what is retained hold in every reachable state.
LEMMA TypesHold == IInv => TypeOK
<1> SUFFICES ASSUME IInv PROVE TypeOK
  OBVIOUS
<1> DEFINE beside == {p \in Places \ {disk.active} : disk.at[p] # 0}
<1>1. PICK q : beside \subseteq {q}
  BY DEF IInv, BaseInv, Retained
<1>2. Cardinality(beside) <= 1
  <2>1. IsFiniteSet({q}) /\ Cardinality({q}) = 1
    BY FS_Singleton
  <2> QED
    BY <1>1, <2>1, FS_Subset
<1>3. st.fresh = "none" <=> st.snapshot = NoSnapshot
  BY DEF IInv, ShownInv, SnapshotInv
<1> QED
  BY <1>2, <1>3 DEF IInv, BaseInv, CallInv, Types, TypeOK, States, Calls, CallSteps, Checks, Disks

\* Every reachable state is of its type, whatever is shown has a label, and beside
\* the active place only one other keeps its stored weather (pruneSnapshots).
THEOREM TypeCorrect == Spec => []TypeOK
BY Inductive, TypesHold, PTL

LEMMA OneSelectionHolds == IInv => OneSelection
<1> SUFFICES ASSUME IInv PROVE OneSelection
  OBVIOUS
<1> DEFINE under == {c \in Slots : Selecting(c)}
<1>1. CASE st.selecting
  <2>1. PICK c \in Slots : under = {c}
    BY <1>1 DEF IInv, BaseInv, CallInv, OneInv
  <2> QED
    BY <1>1, <2>1, FS_Singleton DEF OneSelection
<1>2. CASE ~st.selecting
  <2>1. under = {}
    BY <1>2 DEF IInv, BaseInv, CallInv, OneInv
  <2> QED
    BY <1>2, <2>1, FS_EmptySet DEF OneSelection
<1> QED
  BY <1>1, <1>2

\* What the screen says of selections, refreshes and freshness is so, a place in
\* use is never left blank, and every trip to Settings is ended by someone.
THEOREM ConsistentAlways == Spec => []Consistent
<1>1. ASSUME IInv PROVE Consistent
  <2>1. TypeOK /\ OneSelection
    BY <1>1, TypesHold, OneSelectionHolds
  <2>2. FreshIsOwn /\ RefreshShown /\ TripEnds
    BY <1>1 DEF IInv, ShownInv, BaseInv, CallInv, TripInv
  <2>3. NeverLeftBlank
    <3>1. ~st.selecting => \A c \in Slots : ~Reads(c)
      BY <1>1 DEF IInv, BaseInv, CallInv, OneInv, Selecting, Reads
    <3> QED
      BY <1>1, <3>1 DEF IInv, ShownInv, BlankInv, NeverLeftBlank
  <2> QED
    BY <2>1, <2>2, <2>3 DEF Consistent
<1> QED
  BY <1>1, Inductive, PTL

-----------------------------------------------------------------------------
(* Weather never goes back.                                                  *)

LEMMA SlotView ==
    ASSUME BaseInv, NEW c \in Slots, SlotStep(c)
    PROVE  st' = Loading \/ CacheLands(c) \/ st'.snapshot = st.snapshot
<1>0. st \in States /\ Types /\ Loading.status # "ready"
  BY DEF BaseInv, CallInv, Types, Loading
<1>1. CASE \/ beginDeviceLocationSelection(c) \/ selectPlaceSearchResult(c) \/ openApplicationSettings(c)
           \/ PermissionAnswered(c) \/ Saved(c) \/ SaveFails(c) \/ CacheReads(c)
  BY <1>0, <1>1 DEF beginDeviceLocationSelection, selectPlaceSearchResult, openApplicationSettings,
                    PermissionAnswered, Saved, SaveFails, CacheReads, Switched, Acquiring, States
<1>2. CASE FixAnswered(c) \/ RefixAnswered(c)
  <2>1. st' \in {st, [st EXCEPT !.selecting = FALSE, !.flow = "card"], Acquiring(st)}
    BY <1>0, <1>2, LookupFacts DEF LookupReturns, LookupFound
  <2> QED
    BY <1>0, <2>1 DEF Acquiring, States
<1>3. CASE onForeground(c)
  BY <1>3 DEF onForeground
<1>4. CASE Foregrounded(c)
  BY <1>0, <1>4, ForegroundFacts DEF Finishes, Corrects, Looks, Relabelled, Acquiring, States
<1> QED
  BY <1>1, <1>2, <1>3, <1>4 DEF SlotStep

\* While a place stays in use, weather on screen that is stored too is never
\* dropped, nor replaced by weather fetched earlier, whichever of a refresh, a
\* selection, a revalidation and the background task answers last.
THEOREM NeverBackHolds == Spec => NeverBack
<1> DEFINE Kept == disk.at[st.active] < st.snapshot.at
                     \/ (Describes(st'.snapshot, st.active) /\ st'.snapshot.at >= st.snapshot.at)
<1>1. ASSUME IInv, [Next]_vars,
             st.active = st'.active, st'.status = "ready", Describes(st.snapshot, st.active)
      PROVE  Kept
  <2>0. /\ st \in States /\ Types /\ BaseInv /\ ShownInv /\ st.snapshot.at \in 1..MaxNow
        /\ st.active \in Places /\ st.snapshot.place = st.active
    BY <1>1, ConstantFacts DEF IInv, BaseInv, CallInv, Types, ShownInv, SnapshotInv, Describes, NoSnapshot, States
  <2>1. CASE st'.snapshot = st.snapshot
    BY <1>1, <2>0, <2>1
  <2>2. CASE \E c \in Slots : SlotStep(c)
    <3>1. PICK c \in Slots : SlotStep(c)
      BY <2>2
    <3>2. CASE CacheLands(c)
      <4>1. call[c].place = st.active /\ call[c].read \in 0..MaxNow
        BY <2>0, <3>2 DEF CacheLands, On, BaseInv, CallInv, PlaceInv, Types, Calls
      <4>2. Newer(c) >= st.snapshot.at /\ Newer(c) # 0
        BY <1>1, <2>0, <4>1 DEF Newer
      <4>3. PICK s \in States : /\ s.snapshot = [place |-> st.active, at |-> Newer(c)]
                                /\ st' = s \/ Asks(s, st.active)
        BY <2>0, <3>2, <4>1, <4>2, CacheLandsFacts
      <4>4. st'.snapshot = [place |-> st.active, at |-> Newer(c)]
        BY <2>0, <4>3, AsksFacts
      <4> QED
        BY <1>1, <4>2, <4>4 DEF Describes
    <3>3. CASE ~CacheLands(c)
      BY <1>1, <2>0, <2>1, <3>1, <3>3, SlotView DEF Loading
    <3> QED
      BY <3>2, <3>3
  <2>3. CASE refresh \/ CheckReads \/ GrantedInSettings \/ BackgroundStores \/ Tick \/ dismissLocationFlow
    BY <2>0, <2>1, <2>3 DEF refresh, Asks, CheckReads, GrantedInSettings, BackgroundStores, Tick,
                            dismissLocationFlow, States
  <2>4. CASE revalidateFreshness
    BY <2>0, <2>1, <2>4, RevalidatesRelabels DEF revalidateFreshness, Relabelled
  <2>5. CASE CheckLands
    <3>1. CASE /\ check.read > st.snapshot.at
               /\ st' = [st EXCEPT !.snapshot = [place |-> st.active, at |-> check.read],
                                   !.fresh = "fresh", !.failed = FALSE]
      <4>1. st'.snapshot = [place |-> st.active, at |-> check.read] /\ check.read \in 0..MaxNow
        BY <2>0, <3>1 DEF Types, States, Checks
      <4> QED
        BY <1>1, <2>0, <3>1, <4>1 DEF Describes
    <3>2. CASE Relabelled(st)
      BY <2>1, <3>2 DEF Relabelled
    <3>3. CASE \E s \in States : s = Revalued(st) /\ Asks(s, st.active)
      BY <2>0, <2>1, <3>3, AsksFacts, RevaluedFacts
    <3> QED
      BY <2>0, <2>5, <3>1, <3>2, <3>3, CheckLandsFacts
  <2>6. CASE \E p \in Places : RefreshLands(p)
    <3>1. PICK p \in Places : RefreshLands(p)
      BY <2>6
    <3>2. CASE st.active = p
      <4>1. PICK held \in 1..MaxNow :
                /\ held >= disk.at[p]
                /\ st' = [st EXCEPT !.snapshot = [place |-> p, at |-> held], !.fresh = Freshness(held),
                                    !.refreshing = FALSE, !.failed = FALSE]
        BY <2>0, <3>1, <3>2, RefreshLandsFacts
      <4>2. st'.snapshot = [place |-> p, at |-> held]
        BY <2>0, <4>1 DEF States
      <4>3. disk.at[p] \in 0..MaxNow
        BY <2>0 DEF Types, Disks
      <4> QED
        BY <1>1, <2>0, <3>2, <4>1, <4>2, <4>3 DEF Describes
    <3>3. CASE st.active # p
      BY <2>0, <2>1, <3>1, <3>3, RefreshLandsFacts
    <3> QED
      BY <3>2, <3>3
  <2>7. CASE \E p \in Places : RefreshFails(p)
    BY <2>0, <2>1, <2>7, RefreshFailsFacts
  <2>8. CASE Loaded
    <3>1. st = Loading
      BY <2>0, <2>8 DEF Loaded, BaseInv, RestInv, Ready, Loading
    <3> QED
      BY <2>0, <3>1, ConstantFacts DEF Loading
  <2>9. CASE Killed
    BY <1>1, <2>9 DEF Killed, Loading
  <2>10. CASE UNCHANGED vars
    BY <2>1, <2>10 DEF vars
  <2> QED
    BY <1>1, <2>2, <2>3, <2>4, <2>5, <2>6, <2>7, <2>8, <2>9, <2>10 DEF Next, SlotStep
<1>2. IInv /\ [Next]_vars =>
        [st.active = st'.active /\ st'.status = "ready" /\ Describes(st.snapshot, st.active)
            => \/ disk.at[st.active] < st.snapshot.at
               \/ Describes(st'.snapshot, st.active) /\ st'.snapshot.at >= st.snapshot.at]_vars
  BY <1>1
<1> QED
  BY <1>2, Inductive, PTL DEF Spec, NeverBack

-----------------------------------------------------------------------------
(* The last selection wins.                                                  *)

\* A device location that is read again, though another place was selected since.
Outdone(c) == On(c, "refix") /\ call[c].outdone

\* No tap, lookup or save is outdone, nor the trip that a tap waits for: a lookup
\* is asked for, and a place saved, by the selection that is under way.
FreshTaps ==
    /\ \A c \in Slots : call[c].pc \in {"ask", "fix", "save"} => ~call[c].outdone
    /\ trip # NoSlot => ~call[trip].outdone

\* A location read again is outdone exactly when its place is not in use any more,
\* for while it waits no device place can be selected: every lookup that may select
\* one was asked for after it, or may not correct the place in use.
OutdoneInv ==
    /\ \A c \in Slots : On(c, "refix") => (call[c].outdone <=> call[c].place # st.active)
    /\ \A c, d \in Slots : Outdone(c) =>
          /\ On(d, "save") => call[d].place \notin Device
          /\ On(d, "fix") => c \in call[d].behind
          /\ On(d, "refix") => c \in call[d].behind \/ call[d].place # st.active

TapInv == FreshTaps /\ OutdoneInv

\* One call goes on; the others stay, lose its lookup, or are over.
Watched == {"ask", "fix", "save", "refix"}
Moves(c) ==
    \A d \in Slots \ {c} :
        \/ call'[d].pc \notin Watched
        \/ /\ call'[d].pc = call[d].pc /\ call'[d].place = call[d].place
           /\ call'[d].outdone = call[d].outdone
           /\ call'[d].behind \in {call[d].behind, call[d].behind \ {c}}

LEMMA TapMoves ==
    ASSUME TapInv, NEW c \in Slots, Moves(c), st'.active = st.active,
           call'[c].pc \in Watched => ~call'[c].outdone,
           call'[c].pc = "save" /\ call'[c].place \in Device => \A d \in Slots \ {c} : ~Outdone(d),
           call'[c].pc \in {"fix", "refix"} => Behind \ {c} \subseteq call'[c].behind,
           call'[c].pc = "refix" => call'[c].place = st.active,
           \/ trip' = NoSlot
           \/ trip' = c /\ ~call'[c].outdone
           \/ trip' = trip /\ call'[trip].outdone = call[trip].outdone
    PROVE  TapInv'
<1>1. FreshTaps'
  BY DEF TapInv, FreshTaps, Moves, Watched
<1>2. ASSUME NEW d \in Slots, On(d, "refix")'
      PROVE  call'[d].outdone <=> call'[d].place # st'.active
  BY <1>2 DEF TapInv, OutdoneInv, Moves, Watched, On
<1>3. ASSUME NEW e \in Slots, Outdone(e)'
      PROVE  Outdone(e) /\ e # c /\ e \in Behind
  BY <1>3 DEF Outdone, Moves, Watched, On, Behind
<1>4. ASSUME NEW e \in Slots, NEW d \in Slots, Outdone(e)'
      PROVE  /\ On(d, "save")' => call'[d].place \notin Device
             /\ On(d, "fix")' => e \in call'[d].behind
             /\ On(d, "refix")' => e \in call'[d].behind \/ call'[d].place # st'.active
  <2>1. Outdone(e) /\ e # c /\ e \in Behind
    BY <1>3, <1>4
  <2>2. CASE d = c
    BY <2>1, <2>2 DEF On
  <2>3. CASE d # c
    <3>1. /\ On(d, "save") => call[d].place \notin Device
          /\ On(d, "fix") => e \in call[d].behind
          /\ On(d, "refix") => e \in call[d].behind \/ call[d].place # st.active
      BY <2>1 DEF TapInv, OutdoneInv
    <3> QED
      BY <2>1, <2>3, <3>1 DEF Moves, Watched, On
  <2> QED
    BY <2>2, <2>3
<1> QED
  BY <1>1, <1>2, <1>4 DEF TapInv, OutdoneInv

\* The place that is saved is the one in use from then on.
LEMMA TapSaved ==
    ASSUME BaseInv, TapInv, NEW c \in Slots, Saved(c)
    PROVE  TapInv'
<1> DEFINE p == call[c].place
<1>0. /\ call \in [Slots -> Calls] /\ st \in States /\ On(c, "save") /\ Selecting(c)
      /\ OneInv /\ PlaceInv /\ \A d \in Slots : call[d] \in Calls
  BY DEF BaseInv, CallInv, Types, Saved, On, Selecting
<1>1. trip' = NoSlot /\ st'.active = p /\ \A d \in Slots \ {c} : ~Selecting(d)
  BY <1>0 DEF Saved, OneInv, Switched, States
<1>2. call'[c].pc = "cache"
  BY <1>0 DEF Saved, Calls
<1>3. ASSUME NEW d \in Slots \ {c}
      PROVE  /\ call'[d].pc = call[d].pc /\ call'[d].place = call[d].place /\ call'[d].behind = call[d].behind
             /\ On(d, "refix") => (call'[d].outdone <=> (call[d].outdone \/ p # st.active))
  <2>1. call[d] \in Calls /\ d # c
    BY <1>0
  <2>2. PICK outdone \in BOOLEAN : /\ call'[d] = [call[d] EXCEPT !.outdone = outdone]
                                   /\ outdone <=> (~Idle(d) /\ (call[d].outdone \/ p # st.active))
    BY <2>1 DEF Saved
  <2>3. /\ call'[d].pc = call[d].pc /\ call'[d].place = call[d].place /\ call'[d].behind = call[d].behind
        /\ call'[d].outdone <=> outdone
    BY <2>1, <2>2 DEF Calls
  <2> QED
    BY <2>2, <2>3 DEF Idle, On
<1>4. FreshTaps'
  BY <1>1, <1>2, <1>3 DEF FreshTaps, Selecting
<1>5. ASSUME NEW d \in Slots, On(d, "refix")'
      PROVE  /\ d # c /\ On(d, "refix") /\ call[d].place \in Device /\ call'[d].place = call[d].place
             /\ call'[d].outdone <=> (call[d].outdone \/ p # st.active)
             /\ call[d].outdone <=> call[d].place # st.active
             /\ call[d].outdone => p \notin Device
  <2>1. d # c
    BY <1>2, <1>5 DEF On
  <2>2. On(d, "refix") /\ call[d].place \in Device
    BY <1>0, <1>3, <1>5, <2>1 DEF On, PlaceInv
  <2>3. /\ call[d].outdone <=> call[d].place # st.active
        /\ call[d].outdone => p \notin Device
    BY <1>0, <2>2 DEF TapInv, OutdoneInv, Outdone
  <2> QED
    BY <1>3, <2>1, <2>2, <2>3
<1>6. ASSUME NEW d \in Slots, On(d, "refix")'
      PROVE  call'[d].outdone <=> call'[d].place # st'.active
  BY <1>1, <1>5, <1>6
<1>7. ASSUME NEW e \in Slots, NEW d \in Slots, Outdone(e)'
      PROVE  /\ ~On(d, "save")' /\ ~On(d, "fix")'
             /\ On(d, "refix")' => e \in call'[d].behind \/ call'[d].place # st'.active
  <2>1. ~On(d, "save")' /\ ~On(d, "fix")'
    BY <1>1, <1>2, <1>3 DEF On, Selecting
  <2>2. ASSUME On(d, "refix")' PROVE call'[d].place # st'.active
    <3>1. On(e, "refix")' /\ call'[e].outdone
      BY <1>7 DEF Outdone
    <3>2. CASE p \notin Device
      BY <1>1, <1>5, <2>2, <3>2
    <3>3. CASE p \in Device
      BY <1>1, <1>5, <2>2, <3>1, <3>3
    <3> QED
      BY <3>2, <3>3
  <2> QED
    BY <2>1, <2>2
<1> QED
  BY <1>4, <1>6, <1>7 DEF TapInv, OutdoneInv

\* A lookup that is answered, in turn, is of no place that was outdone.
LEMMA TapLookup ==
    ASSUME ~Overtakes, BaseInv, TapInv, NEW c \in Slots, FixAnswered(c) \/ RefixAnswered(c)
    PROVE  TapInv'
<1>0. /\ call \in [Slots -> Calls] /\ st \in States /\ Types /\ OneInv /\ RefixInv
      /\ (On(c, "fix") \/ On(c, "refix"))
  BY DEF BaseInv, CallInv, Types, FixAnswered, RefixAnswered
<1>1. trip' = NoSlot
  <2>1. trip = NoSlot
    BY <1>0 DEF OneInv, RefixInv, Selecting, On
  <2> QED
    BY <1>0, <2>1, LookupFacts
<1>2. Moves(c) /\ call'[c].pc \in {"idle", "save"}
  BY <1>0, LookupFacts DEF LookupReturns, LookupFound, Untouched, Moves, Watched
<1>3. st'.active = st.active
  BY <1>0, LookupFacts DEF LookupReturns, LookupFound, Acquiring, States
<1>4. call[c].behind = {}
  BY <1>0, LookupFacts DEF LookupAnswered
<1>5. CASE call'[c].pc = "idle"
  BY <1>1, <1>2, <1>3, <1>5, TapMoves DEF Watched
<1>6. CASE call'[c].pc = "save"
  <2>1. LookupFound(c) /\ (FixAnswered(c) \/ MayCorrect(c))
    BY <1>0, <1>6, LookupFacts DEF LookupReturns
  <2>2. CASE On(c, "fix")
    <3>1. ~call'[c].outdone
      BY <2>1, <2>2 DEF LookupFound, TapInv, FreshTaps, On
    <3>2. \A d \in Slots \ {c} : ~Outdone(d)
      BY <1>4, <2>2 DEF TapInv, OutdoneInv
    <3> QED
      BY <1>1, <1>2, <1>3, <1>6, <3>1, <3>2, TapMoves
  <2>3. CASE On(c, "refix")
    <3>1. call[c].place = st.active
      BY <2>1, <2>3 DEF MayCorrect, FixAnswered, On
    <3>2. ~call'[c].outdone
      BY <2>1, <2>3, <3>1 DEF LookupFound, TapInv, OutdoneInv
    <3>3. \A d \in Slots \ {c} : ~Outdone(d)
      BY <1>4, <2>3, <3>1 DEF TapInv, OutdoneInv
    <3> QED
      BY <1>1, <1>2, <1>3, <1>6, <3>2, <3>3, TapMoves
  <2> QED
    BY <1>0, <2>2, <2>3
<1> QED
  BY <1>2, <1>5, <1>6

LEMMA TapReturned ==
    ASSUME BaseInv, TapInv, NEW c \in Slots, Selecting(c), call' = Returned(c),
           trip' = trip, st'.active = st.active
    PROVE  TapInv'
<1>1. trip' = NoSlot
  BY DEF BaseInv, CallInv, OneInv
<1>2. \A d \in Slots : call'[d] = IF d = c \/ d = call[c].tap THEN NoCall ELSE call[d]
  BY ReturnedFacts DEF BaseInv, CallInv
<1>3. NoCall.pc = "idle"
  BY DEF NoCall
<1>4. Moves(c) /\ call'[c].pc = "idle"
  BY <1>2, <1>3 DEF Moves, Watched
<1> QED
  BY <1>1, <1>4, TapMoves DEF Watched

LEMMA TapSlot ==
    ASSUME ~Overtakes, BaseInv, TapInv, NEW c \in Slots, SlotStep(c)
    PROVE  TapInv'
<1>0. /\ st \in States /\ Types /\ CallInv /\ call \in [Slots -> Calls] /\ call[c] \in Calls
      /\ trip \in Slots \cup {NoSlot} /\ NoSlot \notin Slots
      /\ NoCall.pc = "idle" /\ ~NoCall.outdone
  BY WeatherAssumption DEF BaseInv, CallInv, Types, NoCall
<1>1. CASE beginDeviceLocationSelection(c)
  <2>1. Moves(c) /\ call'[c].pc = "ask" /\ ~call'[c].outdone /\ trip' = NoSlot
    BY <1>0, <1>1 DEF beginDeviceLocationSelection, EndsTrip, Moves, Watched, NoCall
  <2>2. st'.active = st.active
    BY <1>0, <1>1 DEF beginDeviceLocationSelection, Acquiring, States
  <2> QED
    BY <2>1, <2>2, TapMoves
<1>2. CASE selectPlaceSearchResult(c)
  <2>1. PICK p \in Manual : EndsTrip(c, [NoCall EXCEPT !.pc = "save", !.place = p])
    BY <1>2 DEF selectPlaceSearchResult
  <2>2. /\ Moves(c) /\ call'[c].pc = "save" /\ ~call'[c].outdone /\ trip' = NoSlot
        /\ call'[c].place \notin Device
    BY <1>0, <2>1, ConstantFacts DEF EndsTrip, Moves, Watched, NoCall
  <2>3. st'.active = st.active
    BY <1>0, <1>2 DEF selectPlaceSearchResult, Acquiring, States
  <2> QED
    BY <2>2, <2>3, TapMoves
<1>3. CASE PermissionAnswered(c)
  <2>1. On(c, "ask") /\ Selecting(c) /\ trip' = trip /\ st'.active = st.active
    BY <1>0, <1>3 DEF PermissionAnswered, On, Selecting, States
  <2>2. CASE access' = "granted"
    <3>1. call' = [call EXCEPT ![c] = [call[c] EXCEPT !.pc = "fix", !.behind = Behind]]
      BY <1>0, <1>3, <2>2 DEF PermissionAnswered
    <3>2. /\ call'[c].pc = "fix" /\ call'[c].behind = Behind /\ call'[c].outdone = call[c].outdone
          /\ Moves(c)
      BY <1>0, <3>1 DEF Calls, Moves
    <3>3. ~call'[c].outdone /\ trip' = NoSlot
      BY <1>0, <2>1, <3>2 DEF TapInv, FreshTaps, On, CallInv, OneInv
    <3> QED
      BY <2>1, <3>2, <3>3, TapMoves
  <2>3. CASE access' # "granted"
    BY <1>3, <2>1, <2>3, TapReturned DEF PermissionAnswered
  <2> QED
    BY <2>2, <2>3
<1>4. CASE FixAnswered(c) \/ RefixAnswered(c)
  BY <1>4, TapLookup
<1>5. CASE Saved(c)
  BY <1>5, TapSaved
<1>6. CASE SaveFails(c)
  BY <1>0, <1>6, TapReturned DEF SaveFails, On, Selecting, States
<1>7. CASE CacheLands(c)
  <2>1. Selecting(c) /\ call' = Returned(c) /\ trip' = trip /\ call[c].place \in Places
    BY <1>0, <1>7 DEF CacheLands, On, Selecting, CallInv, PlaceInv
  <2>2. PICK s \in States : s.active = st.active /\ (st' = s \/ Asks(s, call[c].place))
    BY <1>0, <1>7, <2>1, CacheLandsFacts
  <2> QED
    BY <2>1, <2>2, AsksFacts, TapReturned
<1>8. CASE CacheReads(c)
  <2>1. /\ Moves(c) /\ call'[c].pc = "cached" /\ trip' = NoSlot /\ st' = st
    BY <1>0, <1>8 DEF CacheReads, Moves, Calls, CallInv, OneInv, On, Selecting
  <2> QED
    BY <2>1, TapMoves DEF Watched
<1>9. CASE openApplicationSettings(c)
  <2>1. st'.active = st.active
    BY <1>0, <1>9 DEF openApplicationSettings, States
  <2>2. /\ Moves(c) /\ call'[c].pc \notin Watched
        /\ trip' = NoSlot \/ (trip' = c /\ ~call'[c].outdone)
    <3>1. CASE /\ call' = [d \in Slots |-> IF d = c THEN [NoCall EXCEPT !.pc = "trip"]
                                           ELSE IF d = trip THEN NoCall ELSE call[d]]
               /\ trip' = c
      BY <1>0, <3>1 DEF Moves, Watched, NoCall
    <3>2. CASE EndsTrip(c, NoCall)
      BY <1>0, <3>2 DEF EndsTrip, Moves, Watched
    <3> QED
      BY <1>9, <3>1, <3>2 DEF openApplicationSettings
  <2> QED
    BY <2>1, <2>2, TapMoves DEF Watched
<1>10. CASE onForeground(c)
  <2>1. CASE Ready
    <3>1. call' = [call EXCEPT ![c] = [call[c] EXCEPT !.pc = "return"]] /\ st' = st /\ trip' = trip
      BY <1>0, <1>10, <2>1 DEF onForeground, Ready
    <3>2. Moves(c) /\ call'[c].pc = "return" /\ call'[c].outdone = call[c].outdone
      BY <1>0, <3>1 DEF Moves, Calls
    <3>3. trip' = NoSlot \/ (trip' = trip /\ call'[trip].outdone = call[trip].outdone)
      BY <1>0, <3>1, <3>2
    <3> QED
      BY <3>1, <3>2, <3>3, TapMoves DEF Watched
  <2>2. CASE ~Ready
    <3>1. (\A d \in Slots : call'[d] = NoCall) /\ trip' = NoSlot
      BY <1>10, <2>2 DEF onForeground, BaseInv, RestInv
    <3> QED
      BY <1>0, <3>1 DEF TapInv, FreshTaps, OutdoneInv, Outdone, On
  <2> QED
    BY <2>1, <2>2
<1>11. CASE Foregrounded(c)
  <2>1. trip' = NoSlot
    BY <1>0, <1>11, ForegroundFacts
  <2>2. st'.active = st.active
    BY <1>0, <1>11, ForegroundFacts DEF Finishes, Corrects, Looks, Relabelled, Acquiring, States
  <2>3. CASE Finishes(c)
    <3>1. /\ Moves(c) /\ call'[c].pc = "fix" /\ call'[c].behind = Behind
          /\ call'[c].outdone = call[trip].outdone
      BY <2>3 DEF Finishes, Moves, NoCall
    <3>2. ~call'[c].outdone
      BY <2>3, <3>1 DEF Finishes, TapInv, FreshTaps
    <3> QED
      BY <2>1, <2>2, <3>1, <3>2, TapMoves
  <2>4. CASE Corrects(c)
    <3>1. /\ Moves(c) /\ call'[c].pc = "refix" /\ call'[c].behind = Behind
          /\ call'[c].place = st.active /\ ~call'[c].outdone
      BY <2>4 DEF Corrects, Moves, NoCall
    <3> QED
      BY <2>1, <2>2, <3>1, TapMoves
  <2>5. CASE Looks(c)
    <3>1. Moves(c) /\ call'[c].pc = "idle"
      BY <1>0, <2>5 DEF Looks, Moves, Watched
    <3> QED
      BY <2>1, <2>2, <3>1, TapMoves DEF Watched
  <2> QED
    BY <1>0, <1>11, <2>3, <2>4, <2>5, ForegroundFacts
<1> QED
  BY <1>1, <1>2, <1>3, <1>4, <1>5, <1>6, <1>7, <1>8, <1>9, <1>10, <1>11 DEF SlotStep

\* What leaves every call where it was, or ends it.
LEMMA TapKept ==
    ASSUME TapInv, st'.active = st.active, trip' \in {trip, NoSlot},
           \A d \in Slots : call'[d] = call[d] \/ call'[d] = NoCall,
           trip' = trip => call' = call
    PROVE  TapInv'
<1>1. NoCall.pc = "idle"
  BY DEF NoCall
<1>2. FreshTaps'
  BY <1>1 DEF TapInv, FreshTaps
<1>3. OutdoneInv'
  BY <1>1 DEF TapInv, OutdoneInv, Outdone, On
<1> QED
  BY <1>2, <1>3 DEF TapInv

LEMMA TapStep ==
    ASSUME ~Overtakes, BaseInv, TapInv, [Next]_vars
    PROVE  TapInv'
<1>0. /\ NoCall.pc = "idle" /\ ~NoCall.outdone /\ st \in States /\ Types
  BY DEF NoCall, BaseInv, CallInv, Types
<1>1. CASE \E c \in Slots : SlotStep(c)
  BY <1>1, TapSlot
<1>2. CASE Quiet
  BY <1>2, QuietFacts, TapKept
<1>3. CASE dismissLocationFlow
  <2>1. /\ st'.active = st.active /\ trip' = NoSlot
        /\ \A d \in Slots : call'[d] = IF d = trip THEN NoCall ELSE call[d]
    BY <1>0, <1>3, WeatherAssumption DEF dismissLocationFlow, EndsTrip, States
  <2>2. trip' = trip => call' = call
    BY <1>0, <1>3, <2>1, WeatherAssumption DEF dismissLocationFlow, EndsTrip, Types
  <2> QED
    BY <2>1, <2>2, TapKept
<1>4. CASE Loaded \/ Killed
  <2>1. (\A d \in Slots : call'[d] = NoCall) /\ trip' = NoSlot
    <3>1. CASE Loaded
      BY <3>1, LoadedFacts DEF BaseInv, RestInv
    <3>2. CASE Killed
      BY <3>2 DEF Killed
    <3> QED
      BY <1>4, <3>1, <3>2
  <2> QED
    BY <1>0, <2>1 DEF TapInv, FreshTaps, OutdoneInv, Outdone, On
<1>5. CASE UNCHANGED vars
  BY <1>5, TapKept DEF vars
<1> QED
  BY <1>1, <1>2, <1>3, <1>4, <1>5 DEF Next, SlotStep, Quiet

LEMMA TapInit == Init => TapInv
BY DEF Init, TapInv, FreshTaps, OutdoneInv, Outdone, On, NoCall

\* What a lookup found is never stored over another place that was selected after
\* the lookup, or the tap it finishes, was asked for: where lookups are answered in
\* the order in which they were asked for.
THEOREM LastTapWinsHolds == ~Overtakes /\ Spec => LastTapWins
<1> SUFFICES ASSUME ~Overtakes PROVE Spec => LastTapWins
  OBVIOUS
<1>1. Init => BaseInv /\ TapInv
  BY BaseInit, TapInit
<1>2. BaseInv /\ TapInv /\ [Next]_vars => (BaseInv /\ TapInv)'
  BY BaseStep, TapStep
<1>3. BaseInv /\ TapInv /\ [Next]_vars =>
        [\A c \in Slots : On(c, "save") /\ call'[c].pc = "cache" => ~call[c].outdone]_vars
  BY DEF TapInv, FreshTaps, On
<1> QED
  BY <1>1, <1>2, <1>3, PTL DEF Spec, LastTapWins
=============================================================================
