------------------------------ MODULE TokenKeys ------------------------------
(***************************************************************************)
(* The key set one Worker isolate verifies access tokens with               *)
(* (createSupabaseTokenVerifier).  Supabase publishes signing keys and      *)
(* takes them out of the served set when it revokes them.  The isolate      *)
(* keeps the set it read last, for at most MaxAge; requests that run at the *)
(* same time share one read of the set; an unknown key id may start a read  *)
(* at most once per Cooldown; a read that outlives its deadline is dropped, *)
(* though it may still settle later.                                        *)
(*                                                                          *)
(* A call stands for a request whose token names the key: the parts of the  *)
(* check that look at the token alone (its shape, signature and claims) are *)
(* left out.  Time counts in ticks and is the isolate's own clock.          *)
(***************************************************************************)
EXTENDS Integers, FiniteSets

CONSTANTS
    Callers,     \* requests the isolate serves at once
    Keys,        \* key ids, those no set ever holds included
    NoKey,       \* none of them: the key of a caller that waits for no answer
    Timeout,     \* timeoutMs, of a read and of a caller's wait
    MaxAge,      \* jwksMaxAgeMs
    Cooldown,    \* jwksCooldownMs
    LateAnswers, \* may a read be answered after its deadline (its fetch ignored the abort)
    MaxNow       \* bound on the clock

ASSUME TokenAssumption ==
    /\ Timeout \in Nat /\ MaxAge \in Nat /\ Cooldown \in Nat /\ MaxNow \in Nat
    /\ 0 < Timeout /\ Timeout < Cooldown /\ 2 * Timeout <= MaxAge
    /\ LateAnswers \in BOOLEAN
    /\ NoKey \notin Keys

VARIABLES
    now,         \* the isolate's clock
    life,        \* life[k]: "unborn", "served" or "gone" at Supabase
    moved,       \* moved[k]: when k was published or revoked last
    keys,        \* the key set the isolate holds
    loadedAt,    \* when the read that brought it began, Never before the first
    attemptedAt, \* when a read was last started
    reads,       \* the reads that have not settled
    inflight,    \* when the read new callers would share began, Never for none
    caller       \* caller[c]: what became of the request

supabase == <<life, moved>>
cache == <<keys, loadedAt>>
tokenVars == <<now, supabase, cache, attemptedAt, reads, inflight, caller>>

\* Long enough ago that no age or pause still runs (-Infinity in the code).
Never == -(MaxAge + Cooldown)

Away == [at |-> "away", key |-> NoKey, since |-> Never, read |-> Never]

Served == {k \in Keys : life[k] = "served"}

Answer(k, set) == IF k \in set THEN "known" ELSE "unknown"

Told(k, verdict) == [at |-> verdict, key |-> k, since |-> Never, read |-> Never]

Answered(c, k, verdict) == [caller EXCEPT ![c] = Told(k, verdict)]

-----------------------------------------------------------------------------
(***************************************************************************)
(* Supabase.  A key id never comes back.                                    *)
(***************************************************************************)
Publish(k) ==
    /\ life[k] = "unborn"
    /\ life' = [life EXCEPT ![k] = "served"]
    /\ moved' = [moved EXCEPT ![k] = now]
    /\ UNCHANGED <<now, cache, attemptedAt, reads, inflight, caller>>

Revoke(k) ==
    /\ life[k] = "served"
    /\ life' = [life EXCEPT ![k] = "gone"]
    /\ moved' = [moved EXCEPT ![k] = now]
    /\ UNCHANGED <<now, cache, attemptedAt, reads, inflight, caller>>

-----------------------------------------------------------------------------
(***************************************************************************)
(* A request (keyFor).                                                      *)
(***************************************************************************)
\* The read a caller may still share: one past its deadline is dropped first.
Live == IF now - inflight < Timeout THEN inflight ELSE Never

\* Mutant: the set ages from the last read that was started.
FreshByAttempt == loadedAt # Never /\ now - attemptedAt < MaxAge

Fresh == now - loadedAt < MaxAge

\* Mutant: an unknown key id always reads the set again.
DueAtOnce(k) == k \notin keys

Due(k) == k \notin keys /\ now - attemptedAt >= Cooldown

AnswersFromCache(c, k) ==
    /\ caller[c].at # "waiting"
    /\ Fresh /\ ~Due(k)
    /\ inflight' = Live
    /\ caller' = Answered(c, k, Answer(k, keys))
    /\ UNCHANGED <<now, supabase, cache, attemptedAt, reads>>

\* The set is too old and the last read failed a moment ago.
FailsAtOnce(c, k) ==
    /\ caller[c].at # "waiting"
    /\ ~Fresh /\ Live = Never /\ now - attemptedAt < Cooldown
    /\ inflight' = Live
    /\ caller' = Answered(c, NoKey, "unavailable")
    /\ UNCHANGED <<now, supabase, cache, attemptedAt, reads>>

\* The caller waits for the read under way, or starts one (startLoad).
WaitsForRead(c, k) ==
    /\ caller[c].at # "waiting"
    /\ IF Fresh THEN Due(k) ELSE Live # Never \/ now - attemptedAt >= Cooldown
    /\ IF Live # Never
       THEN UNCHANGED <<attemptedAt, reads, inflight>>
       ELSE /\ attemptedAt' = now
            /\ reads' = reads \cup {[startedAt |-> now, answered |-> FALSE, seen |-> {}]}
            /\ inflight' = now
    /\ caller' = [caller EXCEPT ![c] =
                    [at |-> "waiting", key |-> k, since |-> now, read |-> inflight']]
    /\ UNCHANGED <<now, supabase, cache>>

\* The caller's own deadline.
WaitEnds(c) ==
    /\ caller[c].at = "waiting" /\ now - caller[c].since >= Timeout
    /\ caller' = Answered(c, NoKey, "unavailable")
    /\ UNCHANGED <<now, supabase, cache, attemptedAt, reads, inflight>>

-----------------------------------------------------------------------------
(***************************************************************************)
(* A read of the set (loadKeys): Supabase answers it with the keys it       *)
(* serves then, and it settles some time after.                             *)
(***************************************************************************)
SupabaseAnswers(r) ==
    /\ ~r.answered
    /\ LateAnswers \/ now - r.startedAt <= Timeout
    /\ reads' = (reads \ {r}) \cup {[r EXCEPT !.answered = TRUE, !.seen = Served]}
    /\ UNCHANGED <<now, supabase, cache, attemptedAt, inflight, caller>>

Closes(r) ==
    /\ reads' = reads \ {r}
    /\ inflight' = IF inflight = r.startedAt THEN Never ELSE inflight

\* Mutant: the set counts as read when it arrived.
TakesAtArrival(r) ==
    IF r.startedAt < loadedAt THEN UNCHANGED cache ELSE keys' = r.seen /\ loadedAt' = now

\* Mutant: a read that settles late replaces a newer set.
TakesAny(r) == keys' = r.seen /\ loadedAt' = r.startedAt

\* A read that was dropped and settles late must not replace a newer set.
Takes(r) ==
    IF r.startedAt < loadedAt THEN UNCHANGED cache
    ELSE keys' = r.seen /\ loadedAt' = r.startedAt

Waiters(r) == {c \in Callers : caller[c].at = "waiting" /\ caller[c].read = r.startedAt}

\* Everyone who waits for r has its answer.
ReadSettles(r) ==
    /\ r.answered
    /\ Takes(r)
    /\ Closes(r)
    /\ caller' = [c \in Callers |->
                    IF c \in Waiters(r)
                    THEN Told(caller[c].key, Answer(caller[c].key, keys')) ELSE caller[c]]
    /\ UNCHANGED <<now, supabase, attemptedAt>>

\* A refusal, an outage, an unreadable answer or the deadline.
ReadFails(r) ==
    /\ Closes(r)
    /\ caller' = [c \in Callers |->
                    IF c \in Waiters(r) THEN Told(NoKey, "unavailable") ELSE caller[c]]
    /\ UNCHANGED <<now, supabase, cache, attemptedAt>>

-----------------------------------------------------------------------------
\* Time passes no caller's deadline; the requests answered before are over.
Tick ==
    /\ now < MaxNow
    /\ \A c \in Callers : caller[c].at = "waiting" => now - caller[c].since < Timeout
    /\ now' = now + 1
    /\ caller' = [c \in Callers |-> IF caller[c].at = "waiting" THEN caller[c] ELSE Away]
    /\ UNCHANGED <<supabase, cache, attemptedAt, reads, inflight>>

TokenInit ==
    /\ now = 0
    /\ life \in [Keys -> {"unborn", "served"}]
    /\ moved = [k \in Keys |-> Never]
    /\ keys = {} /\ loadedAt = Never /\ attemptedAt = Never
    /\ reads = {} /\ inflight = Never
    /\ caller = [c \in Callers |-> Away]

TokenNext ==
    \/ \E k \in Keys : Publish(k) \/ Revoke(k)
    \/ \E c \in Callers, k \in Keys :
         AnswersFromCache(c, k) \/ FailsAtOnce(c, k) \/ WaitsForRead(c, k)
    \/ \E c \in Callers : WaitEnds(c)
    \/ \E r \in reads : SupabaseAnswers(r) \/ ReadSettles(r) \/ ReadFails(r)
    \/ Tick

TokenSpec == TokenInit /\ [][TokenNext]_tokenVars

-----------------------------------------------------------------------------
Times == Never..MaxNow

TokenTypeOK ==
    /\ now \in 0..MaxNow
    /\ life \in [Keys -> {"unborn", "served", "gone"}]
    /\ moved \in [Keys -> Times]
    /\ keys \subseteq Keys /\ loadedAt \in Times /\ attemptedAt \in Times
    /\ \A r \in reads :
         r \in [startedAt : 0..MaxNow, answered : BOOLEAN, seen : SUBSET Keys]
    /\ inflight = Never \/ \E r \in reads : r.startedAt = inflight
    /\ caller \in [Callers ->
         [at : {"away", "waiting", "known", "unknown", "unavailable"},
          key : Keys \cup {NoKey}, since : Times, read : Times]]

\* TrustEnds: a token signed with a key Supabase revoked MaxAge ago or
\* earlier verifies nowhere in this isolate, Supabase down or not, and however
\* late the reads of the set settle (the comment at loadedAt in keyFor).
TrustEnds ==
    \A c \in Callers : caller[c].at = "known" =>
        \/ life[caller[c].key] = "served"
        \/ life[caller[c].key] = "gone" /\ now - moved[caller[c].key] < MaxAge

\* KeysRecognised: a request is told that its key is unknown (401, the phone
\* then counts as signed out) only if Supabase did not serve the key all
\* through the last MaxAge.
KeysRecognised ==
    \A c \in Callers : caller[c].at = "unknown" =>
        \/ life[caller[c].key] # "served"
        \/ now - moved[caller[c].key] < MaxAge

\* InflightShared: while a read within its deadline is under way, callers that
\* need the set share that read, whatever older reads settle meanwhile.
InflightShared ==
    \A r \in reads : now - r.startedAt < Timeout => inflight = r.startedAt

\* ReadsPaced: whatever key ids the tokens name and whatever reads fail, the
\* isolate starts its reads of Supabase's set at least Cooldown apart.
ReadsPaced == [][attemptedAt' # attemptedAt => attemptedAt' - attemptedAt >= Cooldown]_tokenVars

\* KeyKept: a key the isolate holds is not forgotten while Supabase serves it:
\* a read that was dropped and settles late takes no newer key away.
KeyKept == [][\A k \in keys : life'[k] = "served" => k \in keys']_tokenVars

=============================================================================
