----------------------------- MODULE AiRequests -----------------------------
(***************************************************************************)
(* The Worker's AI route (createAiHandler): requests that run at once, each *)
(* walking the list of providers until one answers.  Three daily counters   *)
(* bound them: a member's re-asks (createMemberAllowance), the attempts at  *)
(* the Workers AI models, which share one pool, and the attempts at the     *)
(* paid model (createDailyCappedAiProvider).  Counting is the gate and      *)
(* comes before what it bounds; the counter's answer, or its failure, may   *)
(* come after midnight.                                                     *)
(*                                                                          *)
(* Left out: requests the route refuses before it counts anything and those *)
(* the shared cache answers, the text of requests and answers, and the      *)
(* clock within a day: whether time is left for one more attempt is a       *)
(* choice.                                                                  *)
(***************************************************************************)
EXTENDS DailyCounter, Sequences

CONSTANTS
    Requests,      \* places for requests that run at once
    Providers,     \* the walk's list, each "paid", "workers-ai" or "openrouter"
    Limit,         \* Limit[n]: what counter n allows a day
    MaxRequests    \* bound on the requests of a behaviour

ASSUME RequestsAssumption ==
    /\ Counters = {"member", "workers-ai", "paid"}
    /\ Limit \in [Counters -> Nat] /\ MaxRequests \in Nat
    /\ Providers \in Seq({"paid", "workers-ai", "openrouter"})

VARIABLES
    request,       \* request[r]: where the request at r stands
    started,       \* how many requests there have been
    passed         \* history: passed[n]: what n's limit let through today, counted today

vars == <<day, objects, request, started, passed>>

NoProvider == 0

Idle == [at |-> "idle", tries |-> NoProvider, left |-> {}, key |-> NoDay]

Counted == {"workers-ai", "paid"}

\* Request r goes on with its field values e.
Goes(r, e) == request' = [request EXCEPT ![r] = e]

Provider(r) == Providers[request[r].tries]

\* What is left of the list once the Workers AI pool is spent
\* (workersAiPoolSpent in the code).
WithoutPool(left) == {j \in left : Providers[j] # "workers-ai"}

\* The walk goes on to the first provider of left: an attempt that is counted
\* takes its day and asks the counter first.  It ends (503) with the list or
\* the time.
WalksOn(r, left) ==
    \/ Goes(r, Idle)
    \/ /\ left # {}
       /\ LET j == Min(left)
              counts == Providers[j] \in Counted
          IN  Goes(r, [at |-> IF counts THEN "counting" ELSE "attempting", tries |-> j,
                       left |-> left \ {j}, key |-> IF counts THEN day ELSE NoDay])

\* History: a limit that holds on one day is about the requests counted on it.
Passes(r, n) ==
    passed' = IF request[r].key = day THEN [passed EXCEPT ![n] = @ + 1] ELSE passed

-----------------------------------------------------------------------------
(***************************************************************************)
(* A request comes in; a re-ask with an access token goes to the member's   *)
(* counter first.                                                           *)
(***************************************************************************)
Begins(r) ==
    /\ request[r].at = "idle" /\ started < MaxRequests
    /\ started' = started + 1
    /\ WalksOn(r, DOMAIN Providers)
    /\ UNCHANGED <<day, objects, passed>>

AsksAgain(r) ==
    /\ request[r].at = "idle" /\ started < MaxRequests
    /\ started' = started + 1
    /\ Goes(r, [Idle EXCEPT !.at = "member", !.key = day])
    /\ UNCHANGED <<day, objects, passed>>

\* Mutant: the limit is compared with the count before this one.
WithinBefore(n, k) == count[n][k] <= Limit[n]

Within(n, k) == count'[n][k] <= Limit[n]

\* The token is a member's and the counter answered.
MemberCounted(r) ==
    /\ request[r].at = "member"
    /\ Increment("member", request[r].key)
    /\ IF Within("member", request[r].key)
       THEN WalksOn(r, DOMAIN Providers) /\ Passes(r, "member")
       ELSE Goes(r, Idle) /\ UNCHANGED passed
    /\ UNCHANGED <<day, started>>

\* The token is no member's, or the verifier or the counter failed, the
\* latter possibly after it counted: the allowance adds no way to fail.
MemberUnchecked(r) ==
    /\ request[r].at = "member"
    /\ Increment("member", request[r].key) \/ UNCHANGED objects
    /\ WalksOn(r, DOMAIN Providers)
    /\ UNCHANGED <<day, started, passed>>

-----------------------------------------------------------------------------
(***************************************************************************)
(* The walk, from one wait to the next.                                     *)
(***************************************************************************)
\* The counter answers: over the limit the attempt is not made.  A Workers AI
\* attempt that is counted may have no time left: 503.
CountAnswers(r) ==
    LET n == Provider(r)
    IN  /\ request[r].at = "counting"
        /\ Increment(n, request[r].key)
        /\ \/ /\ Within(n, request[r].key)
              /\ Goes(r, [request[r] EXCEPT !.at = "attempting", !.key = NoDay])
              /\ Passes(r, n)
           \/ /\ Within(n, request[r].key) /\ n = "workers-ai"
              /\ Goes(r, Idle)
              /\ UNCHANGED passed
           \/ /\ ~Within(n, request[r].key)
              /\ WalksOn(r, IF n = "workers-ai" THEN WithoutPool(request[r].left)
                             ELSE request[r].left)
              /\ UNCHANGED passed
        /\ UNCHANGED <<day, started>>

\* Mutant: a counter that fails lets the attempt through.
CountFailsOpen(r) ==
    /\ request[r].at = "counting"
    /\ Increment(Provider(r), request[r].key) \/ UNCHANGED objects
    /\ Goes(r, [request[r] EXCEPT !.at = "attempting", !.key = NoDay])
    /\ Passes(r, Provider(r))
    /\ UNCHANGED <<day, started>>

\* The counter fails, possibly after it counted (or the paid attempt's time
\* is over while it counts): only this provider is passed over.
CountFails(r) ==
    /\ request[r].at = "counting"
    /\ Increment(Provider(r), request[r].key) \/ UNCHANGED objects
    /\ WalksOn(r, request[r].left)
    /\ UNCHANGED <<day, started, passed>>

AttemptAnswers(r) ==
    /\ request[r].at = "attempting"
    /\ Goes(r, Idle)
    /\ UNCHANGED <<day, objects, started, passed>>

\* An error, a timeout, an answer that does not parse or does not fit; or
\* Workers AI says that the account's pool is spent.
AttemptFails(r) ==
    /\ request[r].at = "attempting"
    /\ \/ WalksOn(r, request[r].left)
       \/ Provider(r) = "workers-ai" /\ WalksOn(r, WithoutPool(request[r].left))
    /\ UNCHANGED <<day, objects, started, passed>>

-----------------------------------------------------------------------------
\* A request lives less than a day: none holds a day older than yesterday's.
Midnight ==
    /\ day < MaxDay
    /\ \A r \in Requests : request[r].key \in {NoDay, day}
    /\ day' = day + 1
    /\ passed' = [n \in Counters |-> 0]
    /\ UNCHANGED <<objects, request, started>>

Alarm(n) == AlarmStep(n) /\ UNCHANGED <<day, request, started, passed>>

Init ==
    /\ CountersInit
    /\ request = [r \in Requests |-> Idle]
    /\ started = 0
    /\ passed = [n \in Counters |-> 0]

RequestStep(r) ==
    \/ Begins(r) \/ AsksAgain(r) \/ MemberCounted(r) \/ MemberUnchecked(r)
    \/ CountAnswers(r) \/ CountFails(r) \/ AttemptAnswers(r) \/ AttemptFails(r)

Next ==
    \/ \E r \in Requests : RequestStep(r)
    \/ \E n \in Counters : Alarm(n)
    \/ Midnight

Spec == Init /\ [][Next]_vars

-----------------------------------------------------------------------------
\* TypeOK: requests, counters and alarms have their types.
TypeOK ==
    /\ CountersTypeOK
    /\ request \in [Requests ->
         [at : {"idle", "member", "counting", "attempting"},
          tries : {NoProvider} \cup DOMAIN Providers, left : SUBSET (DOMAIN Providers),
          key : {NoDay} \cup Days]]
    /\ started \in 0..MaxRequests
    /\ passed \in [Counters -> Nat]

\* LimitsHeld: of the re-asks and attempts counted on a day, no counter lets
\* more through than its limit, however many requests run at once, fail, are
\* counted without being told, or carry yesterday's day past midnight.
LimitsHeld == \A n \in Counters : passed[n] <= Limit[n]

\* CountsKept: a count leaves an object only when a newer day's count is there
\* or its retention is over, whichever requests the alarm runs beside.
CountsKept ==
    [][\A n \in Counters, d \in Days :
         count[n][d] > 0 /\ count'[n][d] = 0 =>
             Expiry(d) <= day \/ \E e \in Days : e > d /\ count'[n][e] > 0]_vars

=============================================================================
