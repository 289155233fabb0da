---------------------------- MODULE WorkerProofs ----------------------------
(***************************************************************************)
(* Proofs about the Worker's AI route and its verifier of tokens.           *)
(*                                                                          *)
(* AiRequests and the daily counters: today's count is never below what its *)
(* limit let through today, as an increment under an older day sweeps no    *)
(* newer one and the alarm drops only days that are over.                   *)
(*                                                                          *)
(* TokenKeys: what a set holds was true at Supabase at some moment since    *)
(* the read that brought it began; a set answers for less than MaxAge after *)
(* that moment, and a caller waits for less than 2 * Timeout after the read *)
(* it shares began.                                                         *)
(***************************************************************************)
EXTENDS AiRequests, TokenKeys, WellFoundedInduction, TLAPS

(* The AI route.                                                             *)

\* What the invariants need of the types.
Typed ==
    /\ day \in Days
    /\ count \in [Counters -> [Days -> Nat]]
    /\ alarm \in [Counters -> Nat]
    /\ handler \in [Counters -> [runs : BOOLEAN, drop : SUBSET Days, next : Nat]]
    /\ unset \in [Counters -> BOOLEAN]
    /\ request \in [Requests ->
         [at : {"idle", "member", "counting", "attempting"},
          tries : {NoProvider} \cup DOMAIN Providers, left : SUBSET (DOMAIN Providers),
          key : {NoDay} \cup Days]]
    /\ passed \in [Counters -> Nat]

\* A request that is counted has taken its day, which has come, and names one
\* of the counters.
Keyed ==
    \A r \in Requests :
        /\ request[r].at \in {"member", "counting"} =>
             request[r].key \in Days /\ request[r].key <= day
        /\ request[r].at = "counting" => request[r].tries # NoProvider /\ Provider(r) \in Counted
        /\ request[r].at = "attempting" => request[r].tries # NoProvider

\* The alarm handler drops days whose retention is over.
DropsOld == \A n \in Counters : \A d \in handler[n].drop : Expiry(d) <= day

CountCovers == \A n \in Counters : passed[n] <= count[n][day]

IInv == Typed /\ Keyed /\ DropsOld /\ CountCovers /\ LimitsHeld

-----------------------------------------------------------------------------
\* The least of some days is one of them.
LEMMA MinIsOne ==
    ASSUME NEW S, S \subseteq Nat, S # {}
    PROVE  Min(S) \in S /\ \A x \in S : Min(S) <= x
<1>1. \E x \in S : \A y \in S : ~ (<<y, x>> \in OpToRel(<, Nat))
  BY NatLessThanWellFounded, WFMin
<1>2. PICK x \in S : \A y \in S : ~ (y < x)
  BY <1>1 DEF OpToRel
<1>3. \A y \in S : x <= y
  BY <1>2
<1> QED
  BY <1>3 DEF Min

\* What an increment under day k does: it counts one more, keeps the days from
\* k on, and drops an older one only where k's count is there.
LEMMA IncrementFacts ==
    ASSUME Typed, NEW n \in Counters, NEW k \in Days, Increment(n, k)
    PROVE  /\ count' \in [Counters -> [Days -> Nat]]
           /\ alarm' \in [Counters -> Nat]
           /\ unset' \in [Counters -> BOOLEAN]
           /\ handler' = handler
           /\ count'[n][k] = count[n][k] + 1
           /\ \A m \in Counters, d \in Days : m # n \/ d >= k => count'[m][d] >= count[m][d]
           /\ alarm'[n] # NoDay \/ alarm' = alarm
           /\ \A m \in Counters \ {n} :
                alarm'[m] = alarm[m] /\ count'[m] = count[m] /\ unset'[m] = unset[m]
<1> USE CounterAssumption DEF Typed, Days
<1>1. count' = [count EXCEPT ![n] = [d \in Days |->
                  IF d = k THEN count[n][d] + 1
                  ELSE IF count[n][k] = 0 /\ Swept(d, k) THEN 0 ELSE count[n][d]]]
  BY DEF Increment
<1>2. count' \in [Counters -> [Days -> Nat]]
  <2>1. [d \in Days |-> IF d = k THEN count[n][d] + 1
                        ELSE IF count[n][k] = 0 /\ Swept(d, k) THEN 0 ELSE count[n][d]]
          \in [Days -> Nat]
    OBVIOUS
  <2> QED
    BY <1>1, <2>1
<1>3. Expiry(k) \in Nat \ {0}
  BY DEF Expiry
<1>4. /\ alarm' = [alarm EXCEPT ![n] = Expiry(k)] \/ alarm' = alarm
      /\ handler' = handler
  BY DEF Increment
<1>5. count'[n][k] = count[n][k] + 1
  BY <1>1
<1>6. \A m \in Counters \ {n} : count'[m] = count[m]
  BY <1>1
<1>7. \A d \in Days : d >= k => count'[n][d] >= count[n][d]
  BY <1>1 DEF Swept
<1>8. \A m \in Counters, d \in Days : m # n \/ d >= k => count'[m][d] >= count[m][d]
  <2>1. \A m \in Counters, d \in Days : count[m][d] >= count[m][d]
    <3>1. ASSUME NEW m \in Counters, NEW d \in Days PROVE count[m][d] \in Nat
      OBVIOUS
    <3>2. \A x \in Nat : x >= x
      OBVIOUS
    <3> QED
      BY <3>1, <3>2
  <2> QED
    BY <1>6, <1>7, <2>1
<1>9. /\ alarm' \in [Counters -> Nat]
      /\ alarm'[n] # NoDay \/ alarm' = alarm
      /\ \A m \in Counters \ {n} : alarm'[m] = alarm[m]
  <2>1. alarm \in [Counters -> Nat]
    OBVIOUS
  <2>2. CASE alarm' = alarm
    BY <2>1, <2>2
  <2>3. CASE alarm' = [alarm EXCEPT ![n] = Expiry(k)]
    BY <1>3, <2>1, <2>3 DEF NoDay
  <2> QED
    BY <1>4, <2>2, <2>3
<1>10. /\ unset' \in [Counters -> BOOLEAN]
       /\ \A m \in Counters \ {n} : unset'[m] = unset[m]
  BY DEF Increment
<1> QED
  BY <1>2, <1>4, <1>5, <1>6, <1>8, <1>9, <1>10

\* The list of providers.
LEMMA ProviderFacts ==
    /\ \A j \in DOMAIN Providers :
         j \in Nat \ {0} /\ Providers[j] \in {"paid", "workers-ai", "openrouter"}
    /\ Counted \subseteq Counters /\ "member" \in Counters
<1>1. Providers \in Seq({"paid", "workers-ai", "openrouter"})
  BY RequestsAssumption
<1>2. DOMAIN Providers = 1..Len(Providers) /\ Len(Providers) \in Nat
  BY <1>1
<1>3. \A j \in DOMAIN Providers : Providers[j] \in {"paid", "workers-ai", "openrouter"}
  BY <1>1
<1> QED
  BY <1>2, <1>3, RequestsAssumption DEF Counted

\* The types and the days of the requests.
RequestsFine ==
    /\ request \in [Requests ->
         [at : {"idle", "member", "counting", "attempting"},
          tries : {NoProvider} \cup DOMAIN Providers, left : SUBSET (DOMAIN Providers),
          key : {NoDay} \cup Days]]
    /\ Keyed

\* A request that walks on is where the walk waits next, under today's day.
LEMMA WalkFacts ==
    ASSUME Typed, Keyed, NEW r \in Requests, NEW left \in SUBSET (DOMAIN Providers),
           WalksOn(r, left), day' = day
    PROVE  RequestsFine'
<1>0. day \in Days
  BY DEF Typed
<1>1. CASE Goes(r, Idle)
  <2>1. request' = [request EXCEPT ![r] = Idle]
    BY <1>1 DEF Goes
  <2> QED
    BY <2>1 DEF Typed, Keyed, RequestsFine, Idle, Provider
<1>2. CASE ~Goes(r, Idle)
  <2>1. left # {} /\ left \subseteq Nat
    BY <1>2, ProviderFacts DEF WalksOn
  <2>2. PICK j \in left : j = Min(left)
    BY <2>1, MinIsOne
  <2>3. request' = [request EXCEPT ![r] =
           [at |-> IF Providers[j] \in Counted THEN "counting" ELSE "attempting", tries |-> j,
            left |-> left \ {j}, key |-> IF Providers[j] \in Counted THEN day ELSE NoDay]]
    BY <1>2, <2>2 DEF WalksOn, Goes
  <2>4. j \in DOMAIN Providers /\ j # NoProvider
    BY ProviderFacts DEF NoProvider
  <2>5. request' \in [Requests ->
         [at : {"idle", "member", "counting", "attempting"},
          tries : {NoProvider} \cup DOMAIN Providers, left : SUBSET (DOMAIN Providers),
          key : {NoDay} \cup Days]]
    BY <1>0, <2>3, <2>4 DEF Typed
  <2>6. Keyed'
    BY <1>0, <2>3, <2>4 DEF Typed, Keyed, Provider, Days
  <2> QED
    BY <2>5, <2>6 DEF RequestsFine
<1> QED
  BY <1>1, <1>2

\* Every step keeps the inductive invariant.
LEMMA InvStep == IInv /\ [Next]_vars => IInv'
<1> SUFFICES ASSUME IInv, [Next]_vars PROVE IInv'
  OBVIOUS
<1>d. /\ day \in Nat /\ MaxDay \in Nat /\ Retention \in Nat /\ Retention >= 2
      /\ \A n \in Counters : Limit[n] \in Nat /\ passed[n] \in Nat
      /\ \A n \in Counters, d \in Days : count[n][d] \in Nat
  <2>1. MaxDay \in Nat /\ Retention \in Nat /\ Retention >= 2
    BY CounterAssumption
  <2>2. \A n \in Counters : Limit[n] \in Nat /\ passed[n] \in Nat
    BY RequestsAssumption DEF IInv, Typed
  <2>3. day \in Nat /\ \A n \in Counters, d \in Days : count[n][d] \in Nat
    BY <2>1 DEF IInv, Typed, Days
  <2> QED
    BY <2>1, <2>2, <2>3
\* A step that counts nothing and passes nothing.
<1>q. ASSUME UNCHANGED <<day, objects, passed>>, RequestsFine' PROVE IInv'
  BY <1>q DEF IInv, Typed, RequestsFine, objects, DropsOld, CountCovers, LimitsHeld
\* A step that counts on a counter, and passes only within its limit.
<1>i. ASSUME NEW n \in Counters, NEW k \in Days, k <= day, Increment(n, k), day' = day,
             RequestsFine',
             \/ passed' = passed
             \/ passed' = [passed EXCEPT ![n] = @ + 1] /\ k = day /\ count'[n][k] <= Limit[n]
      PROVE  IInv'
  <2>1. /\ count' \in [Counters -> [Days -> Nat]] /\ alarm' \in [Counters -> Nat]
        /\ unset' \in [Counters -> BOOLEAN]
        /\ handler' = handler /\ count'[n][k] = count[n][k] + 1
        /\ \A m \in Counters, d \in Days : m # n \/ d >= k => count'[m][d] >= count[m][d]
    BY <1>i, IncrementFacts DEF IInv
  <2>2. passed' \in [Counters -> Nat]
    BY <1>i, <1>d DEF IInv, Typed
  <2>3. day \in Days
    BY DEF IInv, Typed
  <2>4. \A m \in Counters : count'[m][day] \in Nat /\ count'[m][day] >= count[m][day]
    BY <1>i, <2>1, <2>3
  <2>5. CountCovers' /\ LimitsHeld'
    <3>1. CASE passed' = passed
      BY <1>i, <1>d, <2>3, <2>4, <3>1 DEF IInv, CountCovers, LimitsHeld
    <3>2. CASE passed' = [passed EXCEPT ![n] = @ + 1] /\ k = day /\ count'[n][k] <= Limit[n]
      <4>1. passed'[n] = passed[n] + 1 /\ \A m \in Counters : m # n => passed'[m] = passed[m]
        BY <3>2 DEF IInv, Typed
      <4>2. passed'[n] <= count'[n][day] /\ count'[n][day] <= Limit[n]
        BY <1>d, <2>1, <2>3, <3>2, <4>1 DEF IInv, CountCovers
      <4> QED
        BY <1>i, <1>d, <2>4, <4>1, <4>2 DEF IInv, CountCovers, LimitsHeld
    <3> QED
      BY <1>i, <3>1, <3>2
  <2> QED
    BY <1>i, <2>1, <2>2, <2>5 DEF IInv, Typed, RequestsFine, DropsOld
<1>r. RequestsFine
  BY DEF IInv, Typed, RequestsFine
<1>p. /\ Counted \subseteq Counters /\ "member" \in Counters
      /\ \A r \in Requests : request[r].left \in SUBSET (DOMAIN Providers)
      /\ DOMAIN Providers \in SUBSET (DOMAIN Providers)
      /\ \A r \in Requests : WithoutPool(request[r].left) \in SUBSET (DOMAIN Providers)
  BY ProviderFacts DEF IInv, Typed, WithoutPool
<1>w. ASSUME NEW r \in Requests, NEW left \in SUBSET (DOMAIN Providers), WalksOn(r, left),
             day' = day
      PROVE  RequestsFine'
  BY <1>w, WalkFacts DEF IInv
<1>g. ASSUME NEW r \in Requests, Goes(r, Idle), day' = day PROVE RequestsFine'
  BY <1>g, <1>p, <1>w DEF WalksOn
<1>1. ASSUME NEW r \in Requests, Begins(r) PROVE IInv'
  BY <1>1, <1>q, <1>w, <1>p DEF Begins
<1>2. ASSUME NEW r \in Requests, AsksAgain(r) PROVE IInv'
  <2>1. RequestsFine'
    <3>1. request' = [request EXCEPT ![r] = [Idle EXCEPT !.at = "member", !.key = day]]
      BY <1>2 DEF AsksAgain, Goes
    <3>3. day' = day /\ day \in Days
      BY <1>2 DEF AsksAgain, IInv, Typed
    <3>2. /\ [Idle EXCEPT !.at = "member", !.key = day] \in
               [at : {"idle", "member", "counting", "attempting"},
                tries : {NoProvider} \cup DOMAIN Providers, left : SUBSET (DOMAIN Providers),
                key : {NoDay} \cup Days]
          /\ [Idle EXCEPT !.at = "member", !.key = day].at = "member"
          /\ [Idle EXCEPT !.at = "member", !.key = day].key = day
      BY <3>3 DEF Idle
    <3>4. request' \in [Requests ->
           [at : {"idle", "member", "counting", "attempting"},
            tries : {NoProvider} \cup DOMAIN Providers, left : SUBSET (DOMAIN Providers),
            key : {NoDay} \cup Days]]
      BY <3>1, <3>2, <3>3 DEF IInv, Typed
    <3>5. Keyed'
      BY <1>d, <3>1, <3>2, <3>3 DEF IInv, Typed, Keyed, Provider
    <3> QED
      BY <3>4, <3>5 DEF RequestsFine
  <2> QED
    BY <1>2, <1>q, <2>1 DEF AsksAgain
<1>3. ASSUME NEW r \in Requests, MemberCounted(r) PROVE IInv'
  <2>1. request[r].key \in Days /\ request[r].key <= day /\ Increment("member", request[r].key)
    BY <1>3 DEF MemberCounted, IInv, Keyed
  <2>2. RequestsFine'
    BY <1>3, <1>w, <1>g, <1>p DEF MemberCounted
  <2>3. \/ passed' = passed
        \/ /\ passed' = [passed EXCEPT !["member"] = @ + 1] /\ request[r].key = day
           /\ count'["member"][request[r].key] <= Limit["member"]
    BY <1>3 DEF MemberCounted, Passes, Within
  <2> QED
    BY <1>3, <1>i, <1>p, <2>1, <2>2, <2>3 DEF MemberCounted
<1>4. ASSUME NEW r \in Requests, MemberUnchecked(r) PROVE IInv'
  <2>1. request[r].key \in Days /\ request[r].key <= day
    BY <1>4 DEF MemberUnchecked, IInv, Keyed
  <2>2. RequestsFine'
    BY <1>4, <1>w, <1>p DEF MemberUnchecked
  <2> QED
    BY <1>4, <1>i, <1>q, <1>p, <2>1, <2>2 DEF MemberUnchecked
<1>5. ASSUME NEW r \in Requests, CountAnswers(r) PROVE IInv'
  <2>1. /\ request[r].key \in Days /\ request[r].key <= day /\ Provider(r) \in Counters
        /\ request[r].tries \in DOMAIN Providers /\ Provider(r) \in Counted
    BY <1>5, <1>p DEF CountAnswers, IInv, Typed, Keyed
  <2>2. Increment(Provider(r), request[r].key) /\ day' = day
    BY <1>5 DEF CountAnswers
  <2>3. CASE /\ Within(Provider(r), request[r].key)
             /\ Goes(r, [request[r] EXCEPT !.at = "attempting", !.key = NoDay])
             /\ Passes(r, Provider(r))
    <3>1. RequestsFine'
      <4>1. request' = [request EXCEPT ![r] =
                          [request[r] EXCEPT !.at = "attempting", !.key = NoDay]]
        BY <2>3 DEF Goes
      <4>2. /\ request'[r].at = "attempting" /\ request'[r].tries = request[r].tries
            /\ \A q \in Requests : q # r => request'[q] = request[q]
            /\ request' \in [Requests ->
                [at : {"idle", "member", "counting", "attempting"},
                 tries : {NoProvider} \cup DOMAIN Providers, left : SUBSET (DOMAIN Providers),
                 key : {NoDay} \cup Days]]
        BY <4>1 DEF IInv, Typed
      <4>3. request[r].tries # NoProvider
        BY <1>5 DEF CountAnswers, IInv, Keyed
      <4>4. Keyed'
        BY <2>2, <4>2, <4>3 DEF IInv, Keyed, Provider
      <4> QED
        BY <4>2, <4>4 DEF RequestsFine
    <3>2. \/ passed' = passed
          \/ /\ passed' = [passed EXCEPT ![Provider(r)] = @ + 1] /\ request[r].key = day
             /\ count'[Provider(r)][request[r].key] <= Limit[Provider(r)]
      BY <2>3 DEF Passes, Within
    <3> QED
      BY <1>i, <2>1, <2>2, <3>1, <3>2
  <2>4. CASE RequestsFine' /\ passed' = passed
    BY <1>i, <2>1, <2>2, <2>4
  <2> QED
    BY <1>5, <1>w, <1>g, <1>p, <2>2, <2>3, <2>4 DEF CountAnswers
<1>6. ASSUME NEW r \in Requests, CountFails(r) PROVE IInv'
  <2>1. request[r].key \in Days /\ request[r].key <= day /\ Provider(r) \in Counters
    BY <1>6, <1>p DEF CountFails, IInv, Keyed
  <2>2. RequestsFine'
    BY <1>6, <1>w, <1>p DEF CountFails
  <2> QED
    BY <1>6, <1>i, <1>q, <2>1, <2>2 DEF CountFails
<1>7. ASSUME NEW r \in Requests, AttemptAnswers(r) PROVE IInv'
  BY <1>7, <1>q, <1>g DEF AttemptAnswers
<1>8. ASSUME NEW r \in Requests, AttemptFails(r) PROVE IInv'
  BY <1>8, <1>q, <1>w, <1>p DEF AttemptFails
<1>9. CASE Midnight
  <2>1. day' = day + 1 /\ day' \in Days /\ passed' = [n \in Counters |-> 0]
    BY <1>9, <1>d DEF Midnight, Days, IInv, Typed
  <2>2. RequestsFine'
    BY <1>9, <1>d, <1>r, <2>1 DEF Midnight, RequestsFine, Keyed, Provider, Days
  <2>3. DropsOld'
    BY <1>9, <1>d, <2>1 DEF Midnight, objects, IInv, Typed, DropsOld, Expiry, Days
  <2>4. CountCovers' /\ LimitsHeld'
    BY <1>9, <1>d, <2>1 DEF Midnight, objects, CountCovers, LimitsHeld
  <2> QED
    BY <1>9, <2>1, <2>2, <2>3, <2>4 DEF Midnight, objects, IInv, Typed, RequestsFine
<1>10. ASSUME NEW n \in Counters, Alarm(n) PROVE IInv'
  <2>1. RequestsFine'
    BY <1>10, <1>r DEF Alarm, RequestsFine, Keyed, Provider
  <2>2. day' = day /\ passed' = passed /\ day \in Days
    BY <1>10 DEF Alarm, IInv, Typed
  <2> DEFINE Fine == /\ count' \in [Counters -> [Days -> Nat]] /\ alarm' \in [Counters -> Nat]
                     /\ handler' \in [Counters -> [runs : BOOLEAN, drop : SUBSET Days, next : Nat]]
                     /\ DropsOld' /\ \A m \in Counters : count'[m][day] = count[m][day]
  <2>3. ASSUME AlarmFires(n) PROVE Fine
    <3> DEFINE left == {d \in Stored(n) : Expiry(d) > day}
               next == IF left = {} THEN NoDay ELSE Expiry(Min(left))
    <3>1. /\ handler' = [handler EXCEPT ![n] =
               [runs |-> TRUE, drop |-> Stored(n) \ left, next |-> next]]
          /\ alarm' = [alarm EXCEPT ![n] = NoDay] /\ count' = count
      BY <2>3 DEF AlarmFires
    <3>2. next \in Nat
      <4>1. left \subseteq Nat
        BY DEF Stored, Days
      <4>2. left # {} => Min(left) \in Nat
        BY <4>1, MinIsOne
      <4> QED
        BY <1>d, <4>2 DEF NoDay, Expiry
    <3>3. Stored(n) \ left \in SUBSET Days /\ \A d \in Stored(n) \ left : Expiry(d) <= day
      BY <1>d DEF Stored, Days, Expiry
    <3> HIDE DEF left, next
    <3> QED
      BY <2>2, <3>1, <3>2, <3>3 DEF IInv, Typed, DropsOld, NoDay
  <2>4. ASSUME AlarmDrops(n) PROVE Fine
    <3>1. PICK d \in handler[n].drop :
            /\ count' = [count EXCEPT ![n][d] = 0]
            /\ handler' = [handler EXCEPT ![n].drop = @ \ {d}] /\ alarm' = alarm
      BY <2>4 DEF AlarmDrops
    <3>2. d \in Days /\ d # day
      BY <1>d DEF IInv, Typed, DropsOld, Expiry, Days
    <3>3. /\ count' \in [Counters -> [Days -> Nat]]
          /\ \A m \in Counters : count'[m][day] = count[m][day]
      BY <2>2, <3>1, <3>2 DEF IInv, Typed
    <3>4. /\ handler' \in [Counters -> [runs : BOOLEAN, drop : SUBSET Days, next : Nat]]
          /\ DropsOld'
      <4>1. handler' \in [Counters -> [runs : BOOLEAN, drop : SUBSET Days, next : Nat]]
        BY <3>1 DEF IInv, Typed
      <4>2. \A m \in Counters : handler'[m].drop \subseteq handler[m].drop
        BY <3>1 DEF IInv, Typed
      <4> QED
        BY <2>2, <4>1, <4>2 DEF IInv, DropsOld
    <3> QED
      BY <3>1, <3>3, <3>4 DEF IInv, Typed
  <2>5. ASSUME AlarmEnds(n) PROVE Fine
    BY <2>2, <2>5 DEF AlarmEnds, IInv, Typed, DropsOld, Resting, NoDay
  <2>6. ASSUME AlarmFails(n) PROVE Fine
    BY <1>d, <2>2, <2>6 DEF AlarmFails, IInv, Typed, DropsOld, Resting, NoDay
  <2>7. unset' \in [Counters -> BOOLEAN]
    BY <1>10 DEF Alarm, AlarmStep, AlarmFires, AlarmDrops, AlarmEnds, AlarmFails, IInv, Typed
  <2>8. Fine
    BY <1>10, <2>3, <2>4, <2>5, <2>6 DEF Alarm, AlarmStep
  <2> QED
    BY <2>1, <2>2, <2>7, <2>8 DEF IInv, Typed, RequestsFine, CountCovers, LimitsHeld
<1>11. CASE UNCHANGED vars
  BY <1>11, <1>r, <1>q DEF vars, RequestsFine, Keyed, Provider
<1> QED
  BY <1>1, <1>2, <1>3, <1>4, <1>5, <1>6, <1>7, <1>8, <1>9, <1>10, <1>11 DEF Next, RequestStep

\* The inductive invariant holds in every reachable state.
THEOREM LimitsInductive == Spec => []IInv
<1>1. Init => IInv
  <2> SUFFICES ASSUME Init PROVE IInv
    OBVIOUS
  <2>1. 1 \in Days /\ Days \subseteq Nat /\ \A n \in Counters : Limit[n] \in Nat
    BY CounterAssumption, RequestsAssumption DEF Days
  <2> QED
    BY <2>1 DEF Init, CountersInit, IInv, Typed, Keyed, DropsOld, CountCovers, LimitsHeld,
       Resting, Idle, NoDay
<1> QED
  BY <1>1, InvStep, PTL DEF Spec

\* What TypeOK adds to the inductive invariant: how late an alarm may be set.
Bounded ==
    /\ started \in 0..MaxRequests
    /\ \A n \in Counters : alarm[n] <= MaxDay + Retention /\ handler[n].next <= MaxDay + Retention

LEMMA BoundedStep == IInv /\ Bounded /\ [Next]_vars => Bounded'
<1> SUFFICES ASSUME IInv, Bounded, [Next]_vars PROVE Bounded'
  OBVIOUS
<1> DEFINE Late == MaxDay + Retention
           Alarms == \A n \in Counters : alarm[n] <= Late /\ handler[n].next <= Late
<1>d. MaxDay \in Nat /\ Retention \in Nat /\ day \in 1..MaxDay /\ MaxRequests \in Nat
  BY CounterAssumption, RequestsAssumption DEF IInv, Typed, Days
<1>e. \A d \in Days : Expiry(d) \in Nat /\ Expiry(d) <= Late
  BY <1>d DEF Expiry, Days
<1>t. /\ alarm \in [Counters -> Nat]
      /\ handler \in [Counters -> [runs : BOOLEAN, drop : SUBSET Days, next : Nat]]
  BY DEF IInv, Typed
<1>u. ASSUME UNCHANGED objects PROVE Alarms'
  BY <1>u DEF Bounded, objects
<1>i. ASSUME NEW n \in Counters, NEW k \in Days, Increment(n, k) PROVE Alarms'
  <2>1. handler' = handler /\ (alarm' = alarm \/ alarm' = [alarm EXCEPT ![n] = Expiry(k)])
    BY <1>i DEF Increment
  <2> QED
    BY <1>e, <1>t, <2>1 DEF Bounded
<1>1. ASSUME NEW r \in Requests, RequestStep(r) PROVE Bounded'
  <2>1. started' \in 0..MaxRequests
    BY <1>1, <1>d DEF Bounded, RequestStep, Begins, AsksAgain, MemberCounted, MemberUnchecked,
       CountAnswers, CountFails, AttemptAnswers, AttemptFails
  <2>2. \/ UNCHANGED objects
        \/ request[r].at = "member" /\ Increment("member", request[r].key)
        \/ request[r].at = "counting" /\ Increment(Provider(r), request[r].key)
    BY <1>1 DEF RequestStep, Begins, AsksAgain, MemberCounted, MemberUnchecked,
       CountAnswers, CountFails, AttemptAnswers, AttemptFails
  <2>3. CASE UNCHANGED objects
    BY <1>u, <2>1, <2>3 DEF Bounded
  <2>4. CASE request[r].at = "member" /\ Increment("member", request[r].key)
    <3>1. request[r].key \in Days /\ "member" \in Counters
      BY <2>4, ProviderFacts DEF IInv, Keyed
    <3> QED
      BY <1>i, <2>1, <2>4, <3>1 DEF Bounded
  <2>5. CASE request[r].at = "counting" /\ Increment(Provider(r), request[r].key)
    <3>1. request[r].key \in Days /\ Provider(r) \in Counters
      BY <2>5, ProviderFacts DEF IInv, Keyed
    <3> QED
      BY <1>i, <2>1, <2>5, <3>1 DEF Bounded
  <2> QED
    BY <2>2, <2>3, <2>4, <2>5
<1>2. ASSUME NEW n \in Counters, Alarm(n) PROVE Bounded'
  <2>1. started' = started
    BY <1>2 DEF Alarm
  <2>2. CASE AlarmFires(n)
    <3> DEFINE left == {d \in Stored(n) : Expiry(d) > day}
    <3>1. left = {} \/ Expiry(Min(left)) <= Late
      <4> SUFFICES ASSUME left # {} PROVE Min(left) \in Days
        BY <1>e
      <4>1. left \subseteq Days /\ left \subseteq Nat
        BY DEF Stored, Days
      <4> HIDE DEF left
      <4> QED
        BY <4>1, MinIsOne
    <3>2. /\ handler' = [handler EXCEPT ![n] =
               [runs |-> TRUE, drop |-> Stored(n) \ left,
                next |-> IF left = {} THEN NoDay ELSE Expiry(Min(left))]]
          /\ alarm' = [alarm EXCEPT ![n] = NoDay]
      BY <2>2 DEF AlarmFires
    <3> HIDE DEF left
    <3>3. Alarms'
      BY <1>d, <1>t, <3>1, <3>2 DEF Bounded, NoDay
    <3> QED
      BY <2>1, <3>3 DEF Bounded
  <2>3. CASE AlarmDrops(n)
    <3>1. Alarms'
      BY <1>t, <2>3 DEF Bounded, AlarmDrops
    <3> QED
      BY <2>1, <3>1 DEF Bounded
  <2>4. CASE AlarmEnds(n) \/ AlarmFails(n)
    <3>1. Alarms'
      BY <1>d, <1>t, <2>4 DEF Bounded, AlarmEnds, AlarmFails, Resting, NoDay
    <3> QED
      BY <2>1, <3>1 DEF Bounded
  <2> QED
    BY <1>2, <2>2, <2>3, <2>4 DEF Alarm, AlarmStep
<1>3. CASE Midnight \/ UNCHANGED vars
  BY <1>3, <1>u DEF Bounded, Midnight, vars, objects
<1> QED
  BY <1>1, <1>2, <1>3 DEF Next

\* TypeOK: the types of requests and counters, for any number of each.
THEOREM TypeCorrect == Spec => []TypeOK
<1>1. Init => Bounded
  BY CounterAssumption, RequestsAssumption
     DEF Init, CountersInit, Bounded, NoDay, Resting
<1>2. IInv /\ Bounded => TypeOK
  <2> SUFFICES ASSUME IInv, Bounded PROVE TypeOK
    OBVIOUS
  <2>1. MaxDay + Retention \in Nat
    BY CounterAssumption
  <2>2. /\ alarm \in [Counters -> 0..(MaxDay + Retention)]
        /\ handler \in [Counters ->
             [runs : BOOLEAN, drop : SUBSET Days, next : 0..(MaxDay + Retention)]]
    BY <2>1 DEF IInv, Typed, Bounded
  <2> QED
    BY <2>2 DEF IInv, Typed, Bounded, TypeOK, CountersTypeOK
<1>3. IInv /\ Bounded /\ [Next]_vars => Bounded'
  BY BoundedStep
<1> QED
  BY <1>1, <1>2, <1>3, LimitsInductive, PTL DEF Spec

\* LimitsHeld: for every number of requests, counters' limits and list of
\* providers, no counter lets more of a day's requests through than its limit.
THEOREM LimitsHold == Spec => []LimitsHeld
BY LimitsInductive, PTL DEF IInv

\* CountsKept: a count leaves an object only for a newer day's, or when its
\* retention is over.
THEOREM CountsAreKept == Spec => CountsKept
<1> DEFINE Kept == \A n \in Counters, d \in Days :
                      count[n][d] > 0 /\ count'[n][d] = 0 =>
                          Expiry(d) <= day \/ \E e \in Days : e > d /\ count'[n][e] > 0
<1>1. IInv /\ [Next]_vars =>
        [\A n \in Counters, d \in Days :
           count[n][d] > 0 /\ count'[n][d] = 0 =>
               Expiry(d) <= day \/ \E e \in Days : e > d /\ count'[n][e] > 0]_vars
  <2> SUFFICES ASSUME IInv, Next PROVE Kept
    OBVIOUS
  <2>t. \A n \in Counters, d \in Days : count[n][d] \in Nat
    BY DEF IInv, Typed
  <2>i. ASSUME NEW m \in Counters, NEW k \in Days, Increment(m, k) PROVE Kept
    <3>1. \A n \in Counters, d \in Days :
            \/ count'[n][d] >= count[n][d]
            \/ n = m /\ d < k
      BY <2>i, <2>t, IncrementFacts DEF IInv, Days
    <3>2. count'[m][k] > 0
      BY <2>i, <2>t, IncrementFacts DEF IInv
    <3>3. ASSUME NEW n \in Counters, NEW d \in Days, count[n][d] > 0, count'[n][d] = 0
          PROVE  \E e \in Days : e > d /\ count'[n][e] > 0
      BY <2>t, <3>1, <3>2, <3>3 DEF Days
    <3> QED
      BY <3>3
  <2>u. ASSUME count' = count PROVE Kept
    BY <2>u, <2>t
  <2>1. ASSUME NEW n \in Counters, AlarmDrops(n) PROVE Kept
    <3>1. PICK d \in handler[n].drop : count' = [count EXCEPT ![n][d] = 0]
      BY <2>1 DEF AlarmDrops
    <3>2. Expiry(d) <= day /\ d \in Days
      BY DEF IInv, Typed, DropsOld
    <3> QED
      BY <2>t, <3>1, <3>2 DEF IInv, Typed
  <2>2. ASSUME NEW n \in Counters, Alarm(n) PROVE Kept
    BY <2>1, <2>2, <2>u DEF Alarm, AlarmStep, AlarmFires, AlarmEnds, AlarmFails
  <2>3. ASSUME NEW r \in Requests, RequestStep(r) PROVE Kept
    <3>1. \/ count' = count
          \/ MemberCounted(r) \/ MemberUnchecked(r) \/ CountAnswers(r) \/ CountFails(r)
      BY <2>3 DEF RequestStep, Begins, AsksAgain, AttemptAnswers, AttemptFails, objects
    <3>2. CASE MemberCounted(r) \/ MemberUnchecked(r)
      <4>1. request[r].key \in Days /\ "member" \in Counters
        BY <3>2, ProviderFacts DEF MemberCounted, MemberUnchecked, IInv, Keyed
      <4> QED
        BY <2>i, <2>u, <3>2, <4>1 DEF MemberCounted, MemberUnchecked, objects
    <3>3. CASE CountAnswers(r) \/ CountFails(r)
      <4>1. request[r].key \in Days /\ Provider(r) \in Counters
        BY <3>3, ProviderFacts DEF CountAnswers, CountFails, IInv, Keyed
      <4> QED
        BY <2>i, <2>u, <3>3, <4>1 DEF CountAnswers, CountFails, objects
    <3> QED
      BY <2>u, <3>1, <3>2, <3>3
  <2>4. CASE Midnight
    BY <2>u, <2>4 DEF Midnight, objects
  <2> HIDE DEF Kept
  <2> QED
    BY <2>2, <2>3, <2>4 DEF Next
<1> QED
  BY <1>1, LimitsInductive, PTL DEF Spec, CountsKept

-----------------------------------------------------------------------------
\* What makes AlarmArmed inductive: a running handler that will not set the
\* alarm again drops all that is stored.
Armed(n) ==
    Stored(n) # {} =>
        \/ alarm[n] # NoDay
        \/ handler[n].runs /\ (handler[n].next # NoDay \/ Stored(n) \subseteq handler[n].drop)
        \/ unset[n]

ArmedAll == \A n \in Counters : Armed(n)

\* An increment leaves its object armed.
LEMMA IncrementArms ==
    ASSUME Typed, ArmedAll, NEW m \in Counters, NEW k \in Days, Increment(m, k)
    PROVE  ArmedAll'
<1>1. \A n \in Counters \ {m} : Armed(n)'
  BY IncrementFacts DEF ArmedAll, Armed, Stored
<1>2. CASE count[m][k] = 0
  <2>1. \/ alarm' = [alarm EXCEPT ![m] = Expiry(k)] /\ Expiry(k) # NoDay
        \/ unset' = [unset EXCEPT ![m] = TRUE]
    BY <1>2, CounterAssumption DEF Increment, Expiry, Days, NoDay
  <2> QED
    BY <1>1, <2>1 DEF Typed, Armed, ArmedAll
<1>3. CASE count[m][k] # 0
  <2>1. alarm' = alarm /\ handler' = handler /\ unset' = unset
    BY <1>3 DEF Increment
  <2>2. \A d \in Days : count'[m][d] > 0 <=> count[m][d] > 0
    <3>1. count' = [count EXCEPT ![m] = [d \in Days |->
                      IF d = k THEN count[m][d] + 1 ELSE count[m][d]]]
      BY <1>3 DEF Increment
    <3>2. \A d \in Days : count'[m][d] = IF d = k THEN count[m][d] + 1 ELSE count[m][d]
      BY <3>1 DEF Typed
    <3>3. \A d \in Days : count[m][d] \in Nat
      BY DEF Typed
    <3> QED
      BY <1>3, <3>2, <3>3
  <2>3. Stored(m)' = Stored(m)
    BY <2>2 DEF Stored
  <2> QED
    BY <1>1, <2>1, <2>3 DEF ArmedAll, Armed
<1> QED
  BY <1>2, <1>3

\* Every step keeps every object armed.
LEMMA ArmedStep == IInv /\ ArmedAll /\ [Next]_vars => ArmedAll'
<1> SUFFICES ASSUME IInv, ArmedAll, [Next]_vars PROVE ArmedAll'
  OBVIOUS
<1>u. ASSUME UNCHANGED objects PROVE ArmedAll'
  BY <1>u DEF objects, ArmedAll, Armed, Stored
<1>i. ASSUME NEW n \in Counters, NEW k \in Days, Increment(n, k) PROVE ArmedAll'
  BY <1>i, IncrementArms DEF IInv
<1>1. ASSUME NEW r \in Requests, RequestStep(r) PROVE ArmedAll'
  <2>1. \/ UNCHANGED objects
        \/ MemberCounted(r) \/ MemberUnchecked(r) \/ CountAnswers(r) \/ CountFails(r)
    BY <1>1 DEF RequestStep, Begins, AsksAgain, AttemptAnswers, AttemptFails
  <2>2. CASE MemberCounted(r) \/ MemberUnchecked(r)
    <3>1. request[r].key \in Days /\ "member" \in Counters
      BY <2>2, ProviderFacts DEF MemberCounted, MemberUnchecked, IInv, Keyed
    <3> QED
      BY <1>i, <1>u, <2>2, <3>1 DEF MemberCounted, MemberUnchecked
  <2>3. CASE CountAnswers(r) \/ CountFails(r)
    <3>1. request[r].key \in Days /\ Provider(r) \in Counters
      BY <2>3, ProviderFacts DEF CountAnswers, CountFails, IInv, Keyed
    <3> QED
      BY <1>i, <1>u, <2>3, <3>1 DEF CountAnswers, CountFails
  <2> QED
    BY <1>u, <2>1, <2>2, <2>3
<1>2. ASSUME NEW n \in Counters, Alarm(n) PROVE ArmedAll'
  <2> USE DEF IInv, Typed, NoDay
  <2>1. CASE AlarmFires(n)
    <3> DEFINE left == {d \in Stored(n) : Expiry(d) > day}
               next == IF left = {} THEN NoDay ELSE Expiry(Min(left))
    <3>1. /\ handler' = [handler EXCEPT ![n] =
               [runs |-> TRUE, drop |-> Stored(n) \ left, next |-> next]]
          /\ alarm' = [alarm EXCEPT ![n] = NoDay] /\ count' = count /\ unset' = unset
      BY <2>1 DEF AlarmFires
    <3>2. left # {} => next # NoDay
      <4>1. left \subseteq Nat /\ Retention \in Nat /\ Retention >= 2
        BY CounterAssumption DEF Stored, Days
      <4>2. left # {} => Min(left) \in Nat
        BY <4>1, MinIsOne
      <4>3. left # {} => Min(left) + Retention # 0
        BY ONLY <4>1, <4>2
      <4> QED
        BY <4>3 DEF Expiry
    <3> HIDE DEF left, next
    <3>3. Armed(n)'
      BY <3>1, <3>2 DEF Armed, Stored
    <3>4. \A m \in Counters \ {n} : Armed(m)'
      BY <3>1 DEF ArmedAll, Armed, Stored
    <3> QED
      BY <3>3, <3>4 DEF ArmedAll
  <2>2. CASE AlarmDrops(n)
    <3>1. PICK d \in handler[n].drop :
            /\ count' = [count EXCEPT ![n][d] = 0]
            /\ handler' = [handler EXCEPT ![n].drop = @ \ {d}]
            /\ alarm' = alarm /\ unset' = unset
      BY <2>2 DEF AlarmDrops
    <3>2. Stored(n)' = Stored(n) \ {d}
      BY <3>1 DEF Stored
    <3>3. \A m \in Counters \ {n} : Armed(m)'
      BY <3>1 DEF ArmedAll, Armed, Stored
    <3>4. Armed(n)'
      BY <3>1, <3>2 DEF ArmedAll, Armed
    <3> QED
      BY <3>3, <3>4 DEF ArmedAll
  <2>3. CASE AlarmEnds(n)
    BY <2>3 DEF AlarmEnds, ArmedAll, Armed, Stored, Resting
  <2>4. CASE AlarmFails(n)
    BY <2>4 DEF AlarmFails, ArmedAll, Armed, Stored, Resting, Days
  <2> QED
    BY <1>2, <2>1, <2>2, <2>3, <2>4 DEF Alarm, AlarmStep
<1>3. CASE Midnight \/ UNCHANGED vars
  BY <1>3, <1>u DEF Midnight, vars, objects
<1> QED
  BY <1>1, <1>2, <1>3 DEF Next

\* AlarmArmed: an object that holds a count has its alarm set or its handler
\* running, unless setAlarm failed after an increment and nothing has set the
\* alarm since (scheduleExpiry and alarm of daily-counter.ts).
THEOREM AlarmStaysArmed == Spec => []AlarmArmed
<1>1. Init => ArmedAll
  BY DEF Init, CountersInit, ArmedAll, Armed, Stored
<1>2. IInv /\ ArmedAll /\ [Next]_vars => ArmedAll'
  BY ArmedStep
<1>3. ArmedAll => AlarmArmed
  BY DEF ArmedAll, Armed, AlarmArmed
<1> QED
  BY <1>1, <1>2, <1>3, LimitsInductive, PTL DEF Spec

-----------------------------------------------------------------------------
(* The verifier of tokens.                                                   *)

\* Set was what Supabase served at some moment since the time from.
TrueSince(set, from) ==
    \A k \in Keys :
        /\ k \in set => life[k] = "served" \/ (life[k] = "gone" /\ moved[k] >= from)
        /\ k \notin set /\ life[k] = "served" => moved[k] >= from

TokenClock ==
    /\ \A k \in Keys : moved[k] <= now
    /\ loadedAt <= attemptedAt /\ attemptedAt <= now
    /\ \A r \in reads : r.startedAt <= attemptedAt

\* A caller shares a read that was within its deadline when it asked, and
\* waits no longer than its own.
Waits ==
    \A c \in Callers : caller[c].at = "waiting" =>
        /\ caller[c].key \in Keys
        /\ caller[c].since - caller[c].read < Timeout
        /\ now - caller[c].since <= Timeout

Asked == \A c \in Callers : caller[c].at \in {"known", "unknown"} => caller[c].key \in Keys

\* Reads that have not settled began at different times.
Apart == \A r1, r2 \in reads : r1.startedAt = r2.startedAt => r1 = r2

TokenInv ==
    /\ TokenTypeOK /\ TokenClock /\ Waits /\ Asked /\ Apart
    /\ loadedAt # Never => TrueSince(keys, loadedAt)
    /\ loadedAt = Never => keys = {}
    /\ \A r \in reads : r.answered => TrueSince(r.seen, r.startedAt)
    /\ TrustEnds /\ KeysRecognised /\ InflightShared

\* What a set says is no older than the deadline of its read, and no two
\* reads began less than Cooldown apart.
Dated ==
    /\ \A k \in keys : life[k] = "served" => moved[k] <= loadedAt + Timeout
    /\ \A r \in reads : \A k \in r.seen :
         life[k] = "served" => r.answered /\ moved[k] <= r.startedAt + Timeout

Spaced ==
    /\ \A r1, r2 \in reads :
         r1.startedAt < r2.startedAt => r1.startedAt + Cooldown <= r2.startedAt
    /\ \A r \in reads :
         /\ loadedAt + Cooldown <= r.startedAt \/ r.startedAt + Cooldown <= loadedAt
         /\ ~r.answered => r.seen = {}

KInv == Dated /\ Spaced

-----------------------------------------------------------------------------
\* What moved after a moment is younger than that moment.
LEMMA Younger ==
    \A n, from, m, age \in Int : n - from < age /\ m >= from => n - m < age
OBVIOUS

\* Every step keeps the types.
LEMMA TokenTypeStep == TokenTypeOK /\ [TokenNext]_tokenVars => TokenTypeOK'
<1>0. Never \in Int /\ Never < 0
  BY TokenAssumption DEF Never
<1> SUFFICES ASSUME TokenTypeOK, [TokenNext]_tokenVars PROVE TokenTypeOK'
  OBVIOUS
<1> USE TokenAssumption, <1>0 DEF TokenTypeOK, Times
<1>1. ASSUME NEW k \in Keys, Publish(k) PROVE TokenTypeOK'
  BY <1>1 DEF Publish, cache
<1>2. ASSUME NEW k \in Keys, Revoke(k) PROVE TokenTypeOK'
  BY <1>2 DEF Revoke, cache
<1>3. ASSUME NEW c \in Callers, NEW k \in Keys, AnswersFromCache(c, k) PROVE TokenTypeOK'
  BY <1>3 DEF AnswersFromCache, Answered, Told, Answer, Live, cache, supabase
<1>4. ASSUME NEW c \in Callers, NEW k \in Keys, FailsAtOnce(c, k) PROVE TokenTypeOK'
  BY <1>4 DEF FailsAtOnce, Answered, Told, Live, cache, supabase
<1>5. ASSUME NEW c \in Callers, NEW k \in Keys, WaitsForRead(c, k) PROVE TokenTypeOK'
  <2>1. inflight \in Times
    OBVIOUS
  <2>2. CASE Live # Never
    BY <1>5, <2>1, <2>2 DEF WaitsForRead, cache, supabase
  <2>3. CASE Live = Never
    <3> DEFINE new == [startedAt |-> now, answered |-> FALSE, seen |-> {}]
    <3>1. new \in [startedAt : 0..MaxNow, answered : BOOLEAN, seen : SUBSET Keys]
      OBVIOUS
    <3>2. reads' = reads \cup {new} /\ inflight' = now /\ attemptedAt' = now
      BY <1>5, <2>3 DEF WaitsForRead
    <3>3. new \in reads' /\ new.startedAt = inflight'
      BY <3>2
    <3>4. \E r \in reads' : r.startedAt = inflight'
      BY <3>3
    <3> HIDE DEF new
    <3>5. \A r \in reads' :
            r \in [startedAt : 0..MaxNow, answered : BOOLEAN, seen : SUBSET Keys]
      BY <3>1, <3>2
    <3>6. caller' \in [Callers ->
             [at : {"away", "waiting", "known", "unknown", "unavailable"},
              key : Keys \cup {NoKey}, since : Times, read : Times]]
      BY <1>5, <3>2 DEF WaitsForRead
    <3> QED
      BY <1>5, <3>2, <3>4, <3>5, <3>6 DEF WaitsForRead, cache, supabase
  <2> QED
    BY <2>2, <2>3
<1>6. ASSUME NEW c \in Callers, WaitEnds(c) PROVE TokenTypeOK'
  BY <1>6 DEF WaitEnds, Answered, Told, cache, supabase
<1>7. ASSUME NEW r \in reads, SupabaseAnswers(r) PROVE TokenTypeOK'
  <2> DEFINE a == [r EXCEPT !.answered = TRUE, !.seen = Served]
  <2>1. /\ a \in [startedAt : 0..MaxNow, answered : BOOLEAN, seen : SUBSET Keys]
        /\ a.startedAt = r.startedAt
    BY DEF Served
  <2>2. reads' = (reads \ {r}) \cup {a}
    BY <1>7 DEF SupabaseAnswers
  <2>3. inflight' = Never \/ \E q \in reads' : q.startedAt = inflight'
    BY <1>7, <2>1, <2>2 DEF SupabaseAnswers
  <2> QED
    BY <1>7, <2>1, <2>2, <2>3 DEF SupabaseAnswers, cache, supabase
<1>8. ASSUME NEW r \in reads, ReadSettles(r) PROVE TokenTypeOK'
  <2>1. keys' \subseteq Keys /\ loadedAt' \in Times
    BY <1>8 DEF ReadSettles, Takes, cache
  <2>2. inflight' = Never \/ \E q \in reads' : q.startedAt = inflight'
    BY <1>8 DEF ReadSettles, Closes
  <2>3. caller' \in [Callers ->
           [at : {"away", "waiting", "known", "unknown", "unavailable"},
            key : Keys \cup {NoKey}, since : Times, read : Times]]
    BY <1>8 DEF ReadSettles, Waiters, Told, Answer
  <2> QED
    BY <1>8, <2>1, <2>2, <2>3 DEF ReadSettles, Closes, supabase
<1>9. ASSUME NEW r \in reads, ReadFails(r) PROVE TokenTypeOK'
  <2>1. inflight' = Never \/ \E q \in reads' : q.startedAt = inflight'
    BY <1>9 DEF ReadFails, Closes
  <2>2. caller' \in [Callers ->
           [at : {"away", "waiting", "known", "unknown", "unavailable"},
            key : Keys \cup {NoKey}, since : Times, read : Times]]
    BY <1>9 DEF ReadFails, Waiters, Told
  <2> QED
    BY <1>9, <2>1, <2>2 DEF ReadFails, Closes, supabase, cache
<1>10. CASE Tick
  BY <1>10 DEF Tick, Away, supabase, cache
<1>11. CASE UNCHANGED tokenVars
  BY <1>11 DEF tokenVars, supabase, cache
<1> QED
  BY <1>1, <1>2, <1>3, <1>4, <1>5, <1>6, <1>7, <1>8, <1>9, <1>10, <1>11 DEF TokenNext

\* TokenTypeOK: every variable keeps its type, and the read in flight is one that
\* has not settled, whatever the bounds are.
THEOREM TokenTypeCorrect == TokenSpec => []TokenTypeOK
<1> USE TokenAssumption
<1>0. Never \in Int /\ Never < 0
  BY DEF Never
<1>1. TokenInit => TokenTypeOK
  BY <1>0 DEF TokenInit, TokenTypeOK, Times, Away
<1>2. TokenTypeOK /\ [TokenNext]_tokenVars => TokenTypeOK'
  BY TokenTypeStep
<1> QED
  BY <1>1, <1>2, PTL DEF TokenSpec

\* Every step keeps the inductive invariant.
LEMMA TokenStep == TokenInv /\ [TokenNext]_tokenVars => TokenInv'
<1> SUFFICES ASSUME TokenInv, [TokenNext]_tokenVars PROVE TokenInv'
  OBVIOUS
<1>0. Never \in Int /\ Never < 0 /\ Never + MaxAge <= 0 /\ Never + Timeout <= 0
  BY TokenAssumption DEF Never
<1>t. TokenTypeOK'
  BY TokenTypeStep DEF TokenInv
<1>n. /\ now \in Nat /\ loadedAt \in Int /\ attemptedAt \in Int /\ inflight \in Int
      /\ \A k \in Keys : moved[k] \in Int
      /\ \A r \in reads : r.startedAt \in Nat
      /\ \A c \in Callers : caller[c].since \in Int /\ caller[c].read \in Int
  BY <1>0 DEF TokenInv, TokenTypeOK, Times
<1> USE TokenAssumption, <1>0, <1>t, <1>n DEF TokenInv
<1>1. ASSUME NEW k \in Keys, Publish(k) PROVE TokenInv'
  <2>1. TrueSince(keys, loadedAt)' \/ loadedAt = Never
    BY <1>1 DEF Publish, cache, TrueSince, TokenTypeOK, TokenClock
  <2>2. \A r \in reads : r.answered => TrueSince(r.seen, r.startedAt)'
    BY <1>1 DEF Publish, TrueSince, TokenTypeOK, TokenClock
  <2>3. TrustEnds' /\ KeysRecognised'
    BY <1>1 DEF Publish, TrustEnds, KeysRecognised, Asked, TokenTypeOK
  <2>4. TokenClock'
    BY <1>1 DEF Publish, cache, TokenClock, TokenTypeOK
  <2> QED
    BY <1>1, <2>1, <2>2, <2>3, <2>4
    DEF Publish, cache, Waits, Asked, Apart, InflightShared
<1>2. ASSUME NEW k \in Keys, Revoke(k) PROVE TokenInv'
  <2>1. TrueSince(keys, loadedAt)' \/ loadedAt = Never
    BY <1>2 DEF Revoke, cache, TrueSince, TokenTypeOK, TokenClock
  <2>2. \A r \in reads : r.answered => TrueSince(r.seen, r.startedAt)'
    BY <1>2 DEF Revoke, TrueSince, TokenTypeOK, TokenClock
  <2>3. TrustEnds' /\ KeysRecognised'
    <3>1. TrustEnds'
      BY <1>2 DEF Revoke, TrustEnds, Asked, TokenTypeOK
    <3>2. KeysRecognised'
      BY <1>2 DEF Revoke, KeysRecognised, Asked, TokenTypeOK
    <3> QED
      BY <3>1, <3>2
  <2>4. TokenClock'
    BY <1>2 DEF Revoke, cache, TokenClock, TokenTypeOK
  <2> QED
    BY <1>2, <2>1, <2>2, <2>3, <2>4
    DEF Revoke, cache, Waits, Asked, Apart, InflightShared
<1>3. ASSUME NEW c \in Callers, NEW k \in Keys, AnswersFromCache(c, k) PROVE TokenInv'
  <2> USE <1>3 DEF AnswersFromCache, cache, supabase
  <2>1. caller' = [caller EXCEPT ![c] = Told(k, Answer(k, keys))]
    BY DEF Answered
  <2>2. TrueSince(keys, loadedAt) /\ now - loadedAt < MaxAge
    BY DEF Fresh
  <2>3. TrustEnds' /\ KeysRecognised'
    <3>1. TrustEnds'
      BY <2>1, <2>2 DEF TrustEnds, TrueSince, Told, Answer, TokenTypeOK
    <3>2. KeysRecognised'
      BY <2>1, <2>2 DEF KeysRecognised, TrueSince, Told, Answer, TokenTypeOK
    <3> QED
      BY <3>1, <3>2
  <2>4. TokenClock' /\ Waits' /\ Asked' /\ Apart'
    BY <2>1 DEF TokenClock, Waits, Asked, Apart, Told, Answer, TokenTypeOK
  <2>5. InflightShared'
    BY DEF InflightShared, Live
  <2> QED
    BY <2>3, <2>4, <2>5 DEF TrueSince
<1>4. ASSUME NEW c \in Callers, NEW k \in Keys, FailsAtOnce(c, k) PROVE TokenInv'
  <2> USE <1>4 DEF FailsAtOnce, cache, supabase
  <2>1. caller' = [caller EXCEPT ![c] = Told(NoKey, "unavailable")]
    BY DEF Answered
  <2>2. TrustEnds'
    BY <2>1 DEF TrustEnds, Told, TokenTypeOK
  <2>3. KeysRecognised'
    BY <2>1 DEF KeysRecognised, Told, TokenTypeOK
  <2>4. TokenClock' /\ Waits' /\ Asked' /\ Apart'
    BY <2>1 DEF TokenClock, Waits, Asked, Apart, Told, TokenTypeOK
  <2>5. InflightShared'
    BY DEF InflightShared, Live
  <2> QED
    BY <2>2, <2>3, <2>4, <2>5 DEF TrueSince
<1>5. ASSUME NEW c \in Callers, NEW k \in Keys, WaitsForRead(c, k) PROVE TokenInv'
  <2> DEFINE new == [startedAt |-> now, answered |-> FALSE, seen |-> {}]
  <2> USE <1>5 DEF WaitsForRead, cache, supabase
  <2>1. caller' = [caller EXCEPT ![c] =
                     [at |-> "waiting", key |-> k, since |-> now, read |-> inflight']]
    OBVIOUS
  <2>2. TrustEnds' /\ KeysRecognised'
    BY <2>1 DEF TrustEnds, KeysRecognised, TokenTypeOK
  <2>3. Asked'
    BY <2>1 DEF Asked, TokenTypeOK
  <2>4. CASE Live # Never
    <3>1. now - inflight < Timeout /\ inflight' = inflight /\ reads' = reads
      BY <2>4 DEF Live
    <3>2. TokenClock' /\ Waits' /\ Apart' /\ InflightShared'
      BY <2>1, <2>4, <3>1 DEF TokenClock, Waits, Apart, InflightShared, TokenTypeOK
    <3> QED
      BY <2>2, <2>3, <2>4, <3>1, <3>2 DEF TrueSince
  <2>5. CASE Live = Never
    <3>1. inflight' = now /\ reads' = reads \cup {new} /\ attemptedAt' = now
      BY <2>5
    <3>2. \A r \in reads : now - r.startedAt >= Timeout
      BY <2>5 DEF Live, InflightShared
    <3>n. new.startedAt = now
      OBVIOUS
    <3> HIDE DEF new
    <3>3. Apart' /\ InflightShared'
      BY <3>1, <3>2, <3>n DEF Apart, InflightShared
    <3>4. TokenClock' /\ Waits'
      BY <2>1, <3>1, <3>n DEF TokenClock, Waits, TokenTypeOK
    <3>5. \A r \in reads' : r.answered => TrueSince(r.seen, r.startedAt)'
      BY <3>1 DEF TrueSince, new
    <3> QED
      BY <2>2, <2>3, <3>3, <3>4, <3>5 DEF TrueSince
  <2> QED
    BY <2>4, <2>5
<1>6. ASSUME NEW c \in Callers, WaitEnds(c) PROVE TokenInv'
  <2> USE <1>6 DEF WaitEnds, cache, supabase
  <2>1. caller' = [caller EXCEPT ![c] = Told(NoKey, "unavailable")]
    BY DEF Answered
  <2>2. TrustEnds' /\ KeysRecognised'
    BY <2>1 DEF TrustEnds, KeysRecognised, Told, TokenTypeOK
  <2>3. TokenClock' /\ Waits' /\ Asked' /\ Apart' /\ InflightShared'
    BY <2>1 DEF TokenClock, Waits, Asked, Apart, InflightShared, Told, TokenTypeOK
  <2> QED
    BY <2>2, <2>3 DEF TrueSince
<1>7. ASSUME NEW r \in reads, SupabaseAnswers(r) PROVE TokenInv'
  <2> USE <1>7 DEF SupabaseAnswers, cache, supabase
  <2>0. PICK a : /\ a = [r EXCEPT !.answered = TRUE, !.seen = Served]
                 /\ reads' = (reads \ {r}) \cup {a}
    OBVIOUS
  <2>1. a.startedAt = r.startedAt /\ a.seen = Served
    BY <2>0 DEF TokenTypeOK
  <2>2. reads' = (reads \ {r}) \cup {a}
    BY <2>0
  <2>3. TrueSince(a.seen, a.startedAt)'
    BY <2>1 DEF TrueSince, Served, TokenTypeOK
  <2>4. \A q \in reads' : q.answered => TrueSince(q.seen, q.startedAt)'
    BY <2>2, <2>3 DEF TrueSince
  <2>5. TokenClock' /\ Apart' /\ InflightShared'
    BY <2>1, <2>2 DEF TokenClock, Apart, InflightShared
  <2>6. Waits' /\ Asked' /\ TrustEnds' /\ KeysRecognised'
    BY DEF Waits, Asked, TrustEnds, KeysRecognised
  <2> QED
    BY <2>4, <2>5, <2>6 DEF TrueSince
<1>8. ASSUME NEW r \in reads, ReadSettles(r) PROVE TokenInv'
  <2> USE <1>8 DEF ReadSettles, Waiters, supabase
  <2>1. loadedAt' >= r.startedAt /\ loadedAt' # Never /\ loadedAt' <= attemptedAt
    BY DEF Takes, cache, TokenClock
  <2>2. TrueSince(keys, loadedAt)'
    <3>1. CASE r.startedAt < loadedAt
      BY <3>1 DEF Takes, cache, TrueSince
    <3>2. CASE ~(r.startedAt < loadedAt)
      BY <3>2 DEF Takes, TrueSince
    <3> QED
      BY <3>1, <3>2
  <2>3. reads' = reads \ {r}
    BY DEF Closes
  <2>4. Apart' /\ InflightShared'
    BY <2>3 DEF Apart, InflightShared, Closes
  <2>5. TokenClock'
    BY <2>1, <2>3 DEF TokenClock
  <2>6. \A c \in Callers :
          IF caller[c].at = "waiting" /\ caller[c].read = r.startedAt
          THEN /\ caller'[c] = Told(caller[c].key, Answer(caller[c].key, keys'))
               /\ now - loadedAt' < MaxAge
          ELSE caller'[c] = caller[c]
    <3>1. ASSUME NEW c \in Callers, caller[c].at = "waiting", caller[c].read = r.startedAt
          PROVE  now - loadedAt' < MaxAge
      <4>1. caller[c].since - r.startedAt < Timeout /\ now - caller[c].since <= Timeout
        BY <3>1 DEF Waits
      <4>2. loadedAt' \in Int
        BY DEF TokenTypeOK, Times
      <4> QED
        BY <2>1, <4>1, <4>2
    <3>2. caller' = [c \in Callers |->
            IF caller[c].at = "waiting" /\ caller[c].read = r.startedAt
            THEN Told(caller[c].key, Answer(caller[c].key, keys')) ELSE caller[c]]
      BY DEF Waiters
    <3> QED
      BY <3>1, <3>2
  <2>7. Waits' /\ Asked'
    <3>1. Waits'
      BY <2>6 DEF Waits, Told, Answer
    <3>2. Asked'
      BY <2>6 DEF Asked, Waits, Told, Answer
    <3> QED
      BY <3>1, <3>2
  <2>8. ASSUME NEW c \in Callers, caller[c].at = "waiting", caller[c].read = r.startedAt
        PROVE  /\ caller'[c].at = "known" =>
                    \/ life[caller[c].key] = "served"
                    \/ life[caller[c].key] = "gone" /\ now - moved[caller[c].key] < MaxAge
               /\ caller'[c].at = "unknown" =>
                    life[caller[c].key] # "served" \/ now - moved[caller[c].key] < MaxAge
               /\ caller'[c].key = caller[c].key
    <3>1. caller[c].key \in Keys
      BY <2>8 DEF Waits
    <3>2. /\ caller'[c] = Told(caller[c].key, Answer(caller[c].key, keys'))
          /\ now - loadedAt' < MaxAge
      BY <2>6, <2>8
    <3>3. moved[caller[c].key] >= loadedAt' => now - moved[caller[c].key] < MaxAge
      <4>1. loadedAt' \in Int /\ moved[caller[c].key] \in Int
        BY <3>1 DEF TokenTypeOK, Times
      <4>2. now \in Int /\ MaxAge \in Int /\ now - loadedAt' < MaxAge
        BY <3>2
      <4> QED
        BY ONLY <4>1, <4>2, Younger
    <3>4. /\ caller[c].key \in keys' => \/ life[caller[c].key] = "served"
                                        \/ /\ life[caller[c].key] = "gone"
                                           /\ moved[caller[c].key] >= loadedAt'
          /\ caller[c].key \notin keys' /\ life[caller[c].key] = "served" =>
               moved[caller[c].key] >= loadedAt'
      BY <2>2, <3>1 DEF TrueSince
    <3> QED
      BY <3>2, <3>3, <3>4 DEF Told, Answer
  <2>9. TrustEnds' /\ KeysRecognised'
    BY <2>6, <2>8 DEF TrustEnds, KeysRecognised
  <2> QED
    BY <2>1, <2>2, <2>3, <2>4, <2>5, <2>7, <2>9 DEF TrueSince
<1>9. ASSUME NEW r \in reads, ReadFails(r) PROVE TokenInv'
  <2> USE <1>9 DEF ReadFails, Waiters, cache, supabase
  <2>1. reads' = reads \ {r}
    BY DEF Closes
  <2>2. Apart' /\ InflightShared' /\ TokenClock'
    BY <2>1 DEF Apart, InflightShared, TokenClock, Closes
  <2>3. \A c \in Callers :
          caller'[c] = caller[c] \/ caller'[c] = Told(NoKey, "unavailable")
    BY DEF Waiters
  <2>4. Waits' /\ Asked'
    BY <2>3 DEF Waits, Asked, Told
  <2>5. TrustEnds' /\ KeysRecognised'
    BY <2>3 DEF TrustEnds, KeysRecognised, Told
  <2> QED
    BY <2>1, <2>2, <2>4, <2>5 DEF TrueSince
<1>10. CASE Tick
  <2> USE <1>10 DEF Tick, cache, supabase
  <2>1. \A c \in Callers :
          \/ caller'[c] = caller[c] /\ caller[c].at = "waiting"
          \/ caller'[c] = Away
    OBVIOUS
  <2>2. Waits' /\ Asked' /\ TrustEnds' /\ KeysRecognised'
    BY <2>1 DEF Waits, Asked, TrustEnds, KeysRecognised, Away
  <2>3. TokenClock' /\ Apart' /\ InflightShared'
    BY DEF TokenClock, Apart, InflightShared
  <2> QED
    BY <2>2, <2>3 DEF TrueSince
<1>11. CASE UNCHANGED tokenVars
  BY <1>11 DEF tokenVars, cache, supabase, TrueSince, TokenClock, Waits, Asked, Apart, TrustEnds,
     KeysRecognised, InflightShared
<1> QED
  BY <1>1, <1>2, <1>3, <1>4, <1>5, <1>6, <1>7, <1>8, <1>9, <1>10, <1>11 DEF TokenNext

\* The inductive invariant holds in every reachable state.
THEOREM TokenInductive == TokenSpec => []TokenInv
<1>1. TokenInit => TokenInv
  <2> SUFFICES ASSUME TokenInit PROVE TokenInv
    OBVIOUS
  <2>0. Never \in Int /\ Never < 0
    BY TokenAssumption DEF Never
  <2>1. TokenTypeOK
    BY <2>0, TokenAssumption DEF TokenInit, TokenTypeOK, Times, Away
  <2> QED
    BY <2>0, <2>1, TokenAssumption DEF TokenInit, TokenInv, TokenClock, Waits, Asked, Apart, Away,
       TrustEnds, KeysRecognised, InflightShared
<1> QED
  BY <1>1, TokenStep, PTL DEF TokenSpec

\* TrustEnds: a key revoked MaxAge ago or earlier verifies no token, for every
\* number of callers and keys and every Timeout, Cooldown and MaxAge that the
\* assumption allows, answers that come after a read's deadline included.
THEOREM TrustEndsHolds == TokenSpec => []TrustEnds
BY TokenInductive, PTL DEF TokenInv

\* KeysRecognised: no request is told that a key is unknown that Supabase
\* served all through the last MaxAge.
THEOREM KeysRecognisedHolds == TokenSpec => []KeysRecognised
BY TokenInductive, PTL DEF TokenInv

\* InflightShared: callers share the read that is within its deadline.
THEOREM InflightSharedHolds == TokenSpec => []InflightShared
BY TokenInductive, PTL DEF TokenInv

\* ReadsPaced: reads of the set start at least Cooldown apart.
THEOREM ReadsPacedHolds == TokenSpec => ReadsPaced
<1>1. TokenInv /\ [TokenNext]_tokenVars =>
        [attemptedAt' # attemptedAt => attemptedAt' - attemptedAt >= Cooldown]_tokenVars
  <2> SUFFICES ASSUME TokenInv, [TokenNext]_tokenVars, attemptedAt' # attemptedAt
               PROVE  attemptedAt' - attemptedAt >= Cooldown
    OBVIOUS
  <2>1. PICK c \in Callers, k \in Keys : WaitsForRead(c, k)
    BY DEF TokenNext, tokenVars, Publish, Revoke, AnswersFromCache, FailsAtOnce, WaitEnds,
       SupabaseAnswers, ReadSettles, ReadFails, Tick
  <2>2. Live = Never /\ attemptedAt' = now
    BY <2>1 DEF WaitsForRead
  <2> QED
    BY <2>1, <2>2 DEF WaitsForRead, Due
<1> QED
  BY <1>1, TokenInductive, PTL DEF TokenSpec, ReadsPaced

\* While every answer comes within its read's deadline, what the sets say is
\* dated and the reads are apart.
LEMMA KeptStep == ~LateAnswers /\ TokenInv /\ TokenInv' /\ KInv /\ [TokenNext]_tokenVars => KInv'
<1> SUFFICES ASSUME ~LateAnswers, TokenInv, TokenInv', KInv, [TokenNext]_tokenVars PROVE KInv'
  OBVIOUS
<1>0. Never \in Int /\ Never < 0 /\ Never + Cooldown <= 0
  BY TokenAssumption DEF Never
<1>n. /\ now \in Nat /\ loadedAt \in Int /\ attemptedAt \in Int
      /\ \A k \in Keys : moved[k] \in Int /\ moved[k] <= now
      /\ \A r \in reads : /\ r.startedAt \in Nat /\ r.seen \subseteq Keys
                         /\ r.startedAt <= attemptedAt
      /\ keys \subseteq Keys /\ loadedAt <= attemptedAt
  BY <1>0 DEF TokenInv, TokenTypeOK, Times, TokenClock
<1>u. /\ \A k \in keys : life[k] # "unborn"
      /\ \A r \in reads : \A k \in r.seen : life[k] # "unborn"
  <2>1. \A k \in keys : life[k] # "unborn"
    BY <1>n DEF TokenInv, TrueSince
  <2>2. \A r \in reads : \A k \in r.seen : life[k] # "unborn"
    BY <1>n DEF TokenInv, TrueSince, KInv, Spaced
  <2> QED
    BY <2>1, <2>2
<1> USE TokenAssumption, <1>0, <1>n, <1>u DEF KInv
<1>1. ASSUME NEW k \in Keys, Publish(k) PROVE KInv'
  BY <1>1 DEF Publish, cache, Dated, Spaced, TokenInv, TokenTypeOK
<1>2. ASSUME NEW k \in Keys, Revoke(k) PROVE KInv'
  BY <1>2 DEF Revoke, cache, Dated, Spaced, TokenInv, TokenTypeOK
<1>3. ASSUME NEW c \in Callers, NEW k \in Keys, WaitsForRead(c, k) PROVE KInv'
  <2>1. CASE Live # Never
    BY <1>3, <2>1 DEF WaitsForRead, cache, supabase, Dated, Spaced
  <2>2. CASE Live = Never
    <3>1. PICK new : /\ new = [startedAt |-> now, answered |-> FALSE, seen |-> {}]
                     /\ reads' = reads \cup {new}
      BY <1>3, <2>2 DEF WaitsForRead
    <3>2. new.startedAt = now /\ new.seen = {}
      BY <3>1
    <3>3. now - attemptedAt >= Cooldown
      BY <1>3, <2>2 DEF WaitsForRead, Due
    <3> QED
      BY <1>3, <3>1, <3>2, <3>3 DEF WaitsForRead, cache, supabase, Dated, Spaced
  <2> QED
    BY <2>1, <2>2
<1>4. ASSUME NEW r \in reads, SupabaseAnswers(r) PROVE KInv'
  <2>1. PICK a : /\ a = [r EXCEPT !.answered = TRUE, !.seen = Served]
                 /\ reads' = (reads \ {r}) \cup {a}
    BY <1>4 DEF SupabaseAnswers
  <2>2. a.startedAt = r.startedAt /\ a.seen = Served /\ a.answered
    BY <2>1 DEF TokenInv, TokenTypeOK
  <2>3. now - r.startedAt <= Timeout
    BY <1>4 DEF SupabaseAnswers
  <2>4. Dated'
    <3>1. /\ life' = life /\ moved' = moved /\ keys' = keys /\ loadedAt' = loadedAt
      BY <1>4 DEF SupabaseAnswers, cache, supabase
    <3>2. \A k \in a.seen : k \in Keys /\ moved[k] <= a.startedAt + Timeout
      BY <2>2, <2>3 DEF Served
    <3>3. \A q \in reads' : q \in reads \/ q = a
      BY <2>1
    <3> QED
      BY <2>2, <3>1, <3>2, <3>3 DEF Dated
  <2>5. Spaced'
    BY <1>4, <2>1, <2>2 DEF SupabaseAnswers, cache, supabase, Spaced
  <2> QED
    BY <2>4, <2>5
<1>5. ASSUME NEW r \in reads, ReadSettles(r) PROVE KInv'
  <2>1. /\ reads' = reads \ {r} /\ Takes(r) /\ r.answered
        /\ life' = life /\ moved' = moved
    BY <1>5 DEF ReadSettles, Closes, Waiters, supabase
  <2>2. \A q \in reads \ {r} : q.startedAt # r.startedAt
    BY DEF TokenInv, Apart
  <2>3. CASE r.startedAt < loadedAt
    BY <2>1, <2>3 DEF Takes, cache, Dated, Spaced
  <2>4. CASE ~(r.startedAt < loadedAt)
    BY <2>1, <2>2, <2>4 DEF Takes, Dated, Spaced
  <2> QED
    BY <2>3, <2>4
<1>6. ASSUME NEW r \in reads, ReadFails(r) PROVE KInv'
  BY <1>6 DEF ReadFails, Closes, Waiters, cache, supabase, Dated, Spaced
<1>7. CASE UNCHANGED <<supabase, cache, reads>>
  BY <1>7 DEF cache, supabase, Dated, Spaced
<1> QED
  BY <1>1, <1>2, <1>3, <1>4, <1>5, <1>6, <1>7
  DEF TokenNext, tokenVars, AnswersFromCache, FailsAtOnce, WaitEnds, Tick

\* KeyKept: while every answer comes within its read's deadline, a key that
\* Supabase still serves never leaves the set the isolate holds.
THEOREM KeyKeptHolds == ~LateAnswers /\ TokenSpec => KeyKept
<1> SUFFICES ASSUME ~LateAnswers PROVE TokenSpec => KeyKept
  OBVIOUS
<1>1. TokenInit => KInv
  BY DEF TokenInit, KInv, Dated, Spaced
<1>k. TokenInv /\ TokenInv' /\ KInv /\ [TokenNext]_tokenVars => KInv'
  BY KeptStep
<1>2. TokenInv /\ KInv /\ [TokenNext]_tokenVars => [\A k \in keys : life'[k] = "served" => k \in keys']_tokenVars
  <2> SUFFICES ASSUME TokenInv, KInv, TokenNext, NEW k \in keys, life'[k] = "served", k \notin keys'
               PROVE  FALSE
    BY DEF tokenVars, cache
  <2>1. PICK r \in reads : ReadSettles(r)
    BY DEF TokenNext, cache, Publish, Revoke, AnswersFromCache, FailsAtOnce, WaitsForRead, WaitEnds,
       SupabaseAnswers, ReadFails, Tick
  <2>2. /\ life' = life /\ keys' = r.seen /\ ~(r.startedAt < loadedAt) /\ r.answered
    BY <2>1 DEF ReadSettles, Waiters, Takes, cache, supabase
  <2>3. /\ k \in Keys /\ moved[k] \in Int /\ loadedAt \in Int /\ r.startedAt \in Int
    BY TokenAssumption DEF TokenInv, TokenTypeOK, Times, Never
  <2>4. moved[k] <= loadedAt + Timeout /\ moved[k] >= r.startedAt
    BY <2>2, <2>3 DEF KInv, Dated, TokenInv, TrueSince
  <2>5. loadedAt + Cooldown <= r.startedAt
    BY <2>2, <2>3, TokenAssumption DEF KInv, Spaced
  <2> QED
    BY <2>3, <2>4, <2>5, TokenAssumption
<1> QED
  BY <1>1, <1>2, <1>k, TokenInductive, PTL DEF TokenSpec, KeyKept
=============================================================================
