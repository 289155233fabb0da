----------------------------- MODULE PullCursor -----------------------------
(***************************************************************************)
(* One table of one account, as one phone pulls it.                         *)
(*                                                                          *)
(* The account stamps every row it stores with the start of the writing     *)
(* transaction (the trigger set_server_updated_at, server_updated_at), and  *)
(* a transaction may commit up to MaxTxn ticks later.  The phone keeps, per *)
(* table, the latest stamp it has seen (the pull cursor), and each pull     *)
(* starts again Overlap ticks before it.  A pull reads pages of PageSize    *)
(* rows in the order of (stamp, id); every page is a request of its own, so *)
(* other phones commit between two pages.                                   *)
(*                                                                          *)
(* The question the module answers is whether a row version the account     *)
(* committed can fall behind the cursor for good.                           *)
(***************************************************************************)
EXTENDS Integers, FiniteSets

CONSTANTS
    Ids,        \* the identifiers of the table's rows, ordered as numbers
    Writers,    \* the transactions other phones may have open at once
    PageSize,   \* rows per page (500 in the code)
    MaxTxn,     \* the longest a transaction lives (the 8-second limit)
    Overlap,    \* pullOverlapSeconds
    MaxPull,    \* the longest a pull lives, from its first page to its last
    MaxNow      \* bound on the clock

ASSUME PullAssumption ==
    /\ Ids \subseteq Nat /\ IsFiniteSet(Ids)
    /\ PageSize \in Nat \ {0}
    /\ MaxTxn \in Nat /\ Overlap \in Nat /\ MaxPull \in Nat /\ MaxNow \in Nat

VARIABLES
    clock,      \* the server's clock
    stamp,      \* stamp[i]: server_updated_at of row i, 0 while there is none
    writer,     \* writer[w]: when w's open transaction began, 0 for none
    cursor,     \* the saved position of this table, 0 for none
    pulling,    \* a pull is under way
    since,      \* when it began
    after,      \* the key of the last row of its last full page
    done,       \* it has read its last page
    got,        \* rows whose current version it has read
    newest,     \* the latest stamp among the rows it has read
    unread,     \* history: rows whose current version never landed here
    before      \* history: unread rows committed before this pull began

server == <<clock, stamp, writer>>
pass == <<pulling, since, after, done, got, newest, before>>
pullVars == <<server, cursor, pass, unread>>

NoKey == [at |-> 0, id |-> 0]

Larger(a, b) == IF a >= b THEN a ELSE b

\* The order of (server_updated_at, id) that a page is read in.
KeyAfter(at, id, key) == at > key.at \/ (at = key.at /\ id > key.id)

Stored == {i \in Ids : stamp[i] # 0}

\* Mutant: later pages keyed on the stamp alone skip rows that share one.
WantedByStampOnly ==
    {i \in Stored : IF after = NoKey THEN stamp[i] >= cursor - Overlap
                                     ELSE stamp[i] > after.at}

\* Mutant: a pull that starts at the cursor instead of before it.
WantedFromCursor ==
    {i \in Stored : IF after = NoKey THEN stamp[i] >= cursor
                                     ELSE KeyAfter(stamp[i], i, after)}

\* What the next request asks for: from the overlap on for the first page,
\* strictly after the last key for each later one.
Wanted ==
    {i \in Stored : IF after = NoKey THEN stamp[i] >= cursor - Overlap
                                     ELSE KeyAfter(stamp[i], i, after)}

\* ORDER BY server_updated_at, id LIMIT PageSize.
IsPage(page, wanted) ==
    /\ \A i \in page, j \in wanted \ page :
            KeyAfter(stamp[j], j, [at |-> stamp[i], id |-> i])
    /\ Cardinality(page) <= PageSize
    /\ page = wanted \/ Cardinality(page) = PageSize

IsLastOf(page, i) ==
    /\ i \in page
    /\ \A j \in page \ {i} : KeyAfter(stamp[i], i, [at |-> stamp[j], id |-> j])

\* nextCursor: the latest arrival seen, never earlier than before.
nextCursor(previous, latest) == Larger(previous, latest)

PullInit ==
    /\ clock = 1
    /\ stamp = [i \in Ids |-> 0]
    /\ writer = [w \in Writers |-> 0]
    /\ cursor = 0
    /\ pulling = FALSE /\ since = 0 /\ after = NoKey /\ done = FALSE
    /\ got = {} /\ newest = 0 /\ before = {}
    /\ unread = {}

-----------------------------------------------------------------------------
(* The account.                                                             *)

\* A batch of another phone reaches the account: now() is fixed here.
BeginTxn(w) ==
    /\ writer[w] = 0
    /\ writer' = [writer EXCEPT ![w] = clock]
    /\ UNCHANGED <<clock, stamp, cursor, pass, unread>>

\* Its rows are seen from the commit on, under the stamp of the start.
CommitTxn(w, rows) ==
    /\ writer[w] # 0
    /\ stamp' = [i \in Ids |-> IF i \in rows THEN writer[w] ELSE stamp[i]]
    /\ unread' = unread \cup rows
    /\ got' = got \ rows
    /\ before' = before \ rows
    /\ writer' = [writer EXCEPT ![w] = 0]
    /\ UNCHANGED <<clock, cursor, pulling, since, after, done, newest>>

\* Refused, or stopped by the statement limit.
AbortTxn(w) ==
    /\ writer[w] # 0
    /\ writer' = [writer EXCEPT ![w] = 0]
    /\ UNCHANGED <<clock, stamp, cursor, pass, unread>>

\* Time passes, except over the limit of an open transaction or of the pull.
Tick ==
    /\ clock < MaxNow
    /\ \A w \in Writers : writer[w] # 0 => clock < writer[w] + MaxTxn
    /\ pulling => clock < since + MaxPull
    /\ clock' = clock + 1
    /\ UNCHANGED <<stamp, writer, cursor, pass, unread>>

-----------------------------------------------------------------------------
(* The phone.                                                               *)

\* What the pull held in memory is gone.
PassOver ==
    /\ pulling' = FALSE /\ since' = 0 /\ after' = NoKey /\ done' = FALSE
    /\ got' = {} /\ newest' = 0 /\ before' = {}

StartPull ==
    /\ ~pulling
    /\ pulling' = TRUE /\ since' = clock /\ after' = NoKey /\ done' = FALSE
    /\ got' = {} /\ newest' = 0
    /\ before' = unread
    /\ UNCHANGED <<server, cursor, unread>>

\* One request of readTable: a full page moves the key on, a short one ends it.
ReadPage ==
    /\ pulling /\ ~done
    /\ \E page \in SUBSET Wanted :
        /\ IsPage(page, Wanted)
        /\ got' = got \cup page
        /\ \/ /\ Cardinality(page) < PageSize
              /\ done' = TRUE
              /\ after' = after
           \/ /\ Cardinality(page) = PageSize
              /\ done' = FALSE
              /\ \E i \in page : IsLastOf(page, i) /\ after' = [at |-> stamp[i], id |-> i]
        /\ \/ page = {} /\ newest' = newest
           \/ \E i \in page : IsLastOf(page, i) /\ newest' = Larger(newest, stamp[i])
    /\ UNCHANGED <<server, cursor, pulling, since, unread, before>>

\* The rows land and the cursor is saved with them, in one transaction.
FinishPull ==
    /\ pulling /\ done
    /\ cursor' = nextCursor(cursor, newest)
    /\ unread' = unread \ got
    /\ PassOver
    /\ UNCHANGED server

\* A request failed, or the process ended: nothing landed, the cursor stays.
FailPull ==
    /\ pulling
    /\ PassOver
    /\ UNCHANGED <<server, cursor, unread>>

\* Mutant: an update keeps the positions of the reader it replaces.
ReaderKeepsCursor ==
    /\ ~pulling /\ cursor # 0
    /\ \E passed \in SUBSET Stored : unread' = unread \cup passed
    /\ UNCHANGED <<server, cursor, pass>>

\* An app update changed pullReader: it keeps rows that the earlier build read
\* and passed over, and the stored positions read as none.
ReaderChanged ==
    /\ ~pulling /\ cursor # 0
    /\ cursor' = 0
    /\ \E passed \in SUBSET Stored : unread' = unread \cup passed
    /\ UNCHANGED <<server, pass>>

PullNext ==
    \/ \E w \in Writers : \/ BeginTxn(w)
                          \/ \E rows \in SUBSET Ids \ {{}} : CommitTxn(w, rows)
                          \/ AbortTxn(w)
    \/ Tick
    \/ StartPull \/ ReadPage \/ FinishPull \/ FailPull
    \/ ReaderChanged

PullSpec == PullInit /\ [][PullNext]_pullVars

\* Passes are started again and again (a foreground, a local write, the
\* network coming back), and a pass under way goes on to its next request.
PullFairSpec ==
    /\ PullSpec
    /\ WF_pullVars(StartPull) /\ WF_pullVars(ReadPage) /\ WF_pullVars(FinishPull)

-----------------------------------------------------------------------------
\* The types of the table, the open transactions, the pull and the cursor.
PullTypeOK ==
    /\ clock \in Nat \ {0}
    /\ stamp \in [Ids -> Nat]
    /\ writer \in [Writers -> Nat]
    /\ cursor \in Nat /\ since \in Nat /\ newest \in Nat
    /\ pulling \in BOOLEAN /\ done \in BOOLEAN
    /\ after \in [at : Nat, id : Nat]
    /\ got \in SUBSET Ids /\ unread \in SUBSET Ids /\ before \in SUBSET Ids

\* No row version the account holds and this phone never received lies before
\* the point the next pull starts from: the overlap covers every transaction
\* that committed after a pull had read past its stamp (pullOverlapSeconds).
NothingMissed == \A i \in unread : stamp[i] >= cursor - Overlap

\* A pull that has read its last page holds every version that was committed
\* before it began, whatever other phones rewrite between two of its pages.
PullComplete == pulling /\ done => before \subseteq got

\* Once the other phones stop writing, pulls stop failing and the app is no
\* longer updated, this phone comes to hold every row the account holds: no row
\* was left behind the cursor.
WritersQuiet == <>[][\A w \in Writers, rows \in SUBSET Ids : ~CommitTxn(w, rows)]_pullVars
PullsSucceed == <>[][pulling /\ ~pulling' => FinishPull]_pullVars
SameReader == <>[][~ReaderChanged]_pullVars
EventuallyRead == WritersQuiet /\ PullsSucceed /\ SameReader => <>[](unread = {})
=============================================================================
