---------------------------- MODULE DailyCounter ----------------------------
(***************************************************************************)
(* The Worker's daily counters (the Durable Object DailyCounter), one       *)
(* object per name.  An object holds a count per day; the first increment   *)
(* of a day drops the older days and sets an alarm, and the alarm drops the *)
(* days whose retention is over, beside requests to the same object.        *)
(*                                                                          *)
(* Other modules add the callers: an increment is one step of theirs (the   *)
(* object's input gates make it one), taken under the day the caller read   *)
(* from its clock, which may be yesterday by the time it arrives.           *)
(***************************************************************************)
EXTENDS Integers, FiniteSetsExt

CONSTANTS
    Counters,      \* the names, one object each
    MaxDay,        \* bound on the days
    Retention      \* counterRetentionDays, at least a day more than a caller lives

ASSUME CounterAssumption ==
    MaxDay \in Nat \ {0} /\ Retention \in Nat /\ Retention >= 2

VARIABLES
    day,           \* the UTC day
    count,         \* count[n][d]: the stored count of day d, 0 while there is none
    alarm,         \* alarm[n]: the day n's alarm is set for, 0 for none
    handler,       \* handler[n]: what n's running alarm handler has left to do
    unset          \* history: unset[n]: setAlarm failed after an increment of n, and
                   \* n's alarm has not been set since

objects == <<count, alarm, handler, unset>>

Days == 1..MaxDay

NoDay == 0

\* The day at whose start the count of day d may go (expiryOfKey).
Expiry(d) == d + Retention

Stored(n) == {d \in Days : count[n][d] > 0}

Resting == [runs |-> FALSE, drop |-> {}, next |-> NoDay]

-----------------------------------------------------------------------------
\* Mutant: the first increment of a key drops every other key.
SweepOthers(d, k) == d # k

\* Only keys that sort before the new one go.
Swept(d, k) == d < k

\* POST /increment under day k: one step, whose answer is count'[n][k].  The
\* first increment of a day sets the alarm; that setAlarm failed is caught.
Increment(n, k) ==
    LET first == count[n][k] = 0
    IN  /\ count' = [count EXCEPT ![n] = [d \in Days |->
                       IF d = k THEN count[n][d] + 1
                       ELSE IF first /\ Swept(d, k) THEN 0 ELSE count[n][d]]]
        /\ \/ first /\ alarm' = [alarm EXCEPT ![n] = Expiry(k)]
                    /\ unset' = [unset EXCEPT ![n] = FALSE]
           \/ first /\ alarm' = alarm /\ unset' = [unset EXCEPT ![n] = TRUE]
           \/ ~first /\ UNCHANGED <<alarm, unset>>
        /\ handler' = handler

-----------------------------------------------------------------------------
(***************************************************************************)
(* The alarm.  The runtime clears an alarm when it fires and fires it again *)
(* when its handler fails.                                                  *)
(***************************************************************************)
AlarmFires(n) ==
    /\ alarm[n] # NoDay /\ alarm[n] <= day /\ ~handler[n].runs
    /\ LET left == {d \in Stored(n) : Expiry(d) > day}
       IN  handler' = [handler EXCEPT ![n] =
             [runs |-> TRUE, drop |-> Stored(n) \ left,
              next |-> IF left = {} THEN NoDay ELSE Expiry(Min(left))]]
    /\ alarm' = [alarm EXCEPT ![n] = NoDay]
    /\ UNCHANGED <<count, unset>>

\* Mutant: the handler empties the object.
AlarmEmpties(n) ==
    /\ handler[n].drop # {}
    /\ count' = [count EXCEPT ![n] = [d \in Days |-> 0]]
    /\ handler' = [handler EXCEPT ![n].drop = {}]
    /\ UNCHANGED <<alarm, unset>>

AlarmDrops(n) ==
    \E d \in handler[n].drop :
        /\ count' = [count EXCEPT ![n][d] = 0]
        /\ handler' = [handler EXCEPT ![n].drop = @ \ {d}]
        /\ UNCHANGED <<alarm, unset>>

\* Mutant: the handler does not set the alarm again for the days it left.
AlarmEndsUnarmed(n) ==
    /\ handler[n].runs /\ handler[n].drop = {}
    /\ handler' = [handler EXCEPT ![n] = Resting]
    /\ UNCHANGED <<count, alarm, unset>>

AlarmEnds(n) ==
    /\ handler[n].runs /\ handler[n].drop = {}
    /\ IF handler[n].next = NoDay
       THEN UNCHANGED <<alarm, unset>>
       ELSE /\ alarm' = [alarm EXCEPT ![n] = handler[n].next]
            /\ unset' = [unset EXCEPT ![n] = FALSE]
    /\ handler' = [handler EXCEPT ![n] = Resting]
    /\ UNCHANGED count

\* A storage call of the handler fails: the runtime runs the handler again.
AlarmFails(n) ==
    /\ handler[n].runs
    /\ alarm' = [alarm EXCEPT ![n] = day]
    /\ unset' = [unset EXCEPT ![n] = FALSE]
    /\ handler' = [handler EXCEPT ![n] = Resting]
    /\ UNCHANGED count

AlarmStep(n) == AlarmFires(n) \/ AlarmDrops(n) \/ AlarmEnds(n) \/ AlarmFails(n)

CountersInit ==
    /\ day = 1
    /\ count = [n \in Counters |-> [d \in Days |-> 0]]
    /\ alarm = [n \in Counters |-> NoDay]
    /\ handler = [n \in Counters |-> Resting]
    /\ unset = [n \in Counters |-> FALSE]

-----------------------------------------------------------------------------
CountersTypeOK ==
    /\ day \in Days
    /\ count \in [Counters -> [Days -> Nat]]
    /\ alarm \in [Counters -> 0..(MaxDay + Retention)]
    /\ handler \in [Counters ->
         [runs : BOOLEAN, drop : SUBSET Days, next : 0..(MaxDay + Retention)]]
    /\ unset \in [Counters -> BOOLEAN]

\* AlarmArmed: an object that holds a count has an alarm set or its handler
\* running, so nobody's count stays for good because they never came back
\* (the module comment of daily-counter.ts).  Excepted is an object whose
\* last setAlarm failed after an increment: nothing sets its alarm before the
\* next first increment of a day, or before an alarm set earlier fires.
AlarmArmed ==
    \A n \in Counters :
        Stored(n) # {} => alarm[n] # NoDay \/ handler[n].runs \/ unset[n]

=============================================================================
