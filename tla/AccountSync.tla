----------------------------- MODULE AccountSync -----------------------------
(***************************************************************************)
(* The sync of the record tables (the Closet, daily choices, departures and *)
(* History) between several phones and the accounts they sign in to: the    *)
(* ongoing pass, the first link, the consent that gates both, and what edits *)
(* made between any two of their requests do to the rows they handle.       *)
(*                                                                          *)
(* A row is named by its identity, which is its id or, for choices and      *)
(* departures, its day.  Its content is abstracted to the version (the      *)
(* updated_at) that every local write changes.  Where the code compares     *)
(* arrival stamps with the pull cursor, the module keeps the rows that      *)
(* arrived past the cursor (behind); PullCursor answers for the stamps.     *)
(*                                                                          *)
(* A phone runs one pass at a time (runSync in account-session.ts).  A      *)
(* session may end while a pass runs: sign-out waits for it only online, and *)
(* a session the server ended waits for nothing.  The pass goes on until a  *)
(* request needs the session.  Crashes, lost answers and refused requests   *)
(* end a pass at any request.  linked_user_id, which no decision reads, the *)
(* profile row and rows a build cannot read are left out.                   *)
(***************************************************************************)
EXTENDS Naturals, FiniteSets

CONSTANTS
    Phones, Accounts,
    IdKeys,         \* identities of Closet pieces and looks (by id)
    DayKeys,        \* identities of choices and departures (by day)
    NoAccount,
    SplitWrites,    \* a write on the phone may take several transactions
    SplitSignOut,   \* a pass may write between a sign-out's read and its save
    MaxVersion,     \* bound on local writes
    MaxConsent      \* bound on consent answers

ASSUME SyncAssumption ==
    /\ NoAccount \notin Accounts
    /\ IdKeys \cap DayKeys = {}
    /\ SplitWrites \in BOOLEAN /\ SplitSignOut \in BOOLEAN
    /\ MaxVersion \in Nat /\ MaxConsent \in Nat

Keys == IdKeys \cup DayKeys

VARIABLES
    row,        \* row[p][k]: the phone's row
    session,    \* session[p]: the account whose token p's requests carry
    leaving,    \* leaving[p]: what an unfinished sign-out has read of the link
    link,       \* link[p]: device_account_link without its cursor
    behind,     \* behind[p]: rows of link.last that arrived past the cursor
    pass,       \* pass[p]: the pass under way
    srv,        \* srv[a][k]: the account's row
    consent,    \* consent[a]: what its consent records say
    version,    \* versions used so far
    instant,    \* server instants used so far by consent records
    received    \* history: received[a], versions that ever reached a

phone == <<row, session, leaving, link, behind, pass>>
account == <<srv, consent, instant, received>>
vars == <<phone, account, version>>

States == {"none", "live", "gone", "old"}
Row == [ver : Nat, st : States, pending : BOOLEAN]
Copy == [ver : Nat, st : {"none", "live", "gone"}]
Link == [last : Accounts \cup {NoAccount}, records : Accounts \cup {NoAccount}, joinedAt : Nat]
NoRow == [ver |-> 0, st |-> "none", pending |-> FALSE]
NoCopy == [ver |-> 0, st |-> "none"]

Steps == {"idle", "bare", "upload", "confirm", "pull", "land", "snapshot", "apply"}

\* A pass: the account, the given record it read, the rows it read (view), the
\* rows it still has to send (queue) and whether it had any (sent), the batch
\* the account stored and has not confirmed yet (batch), what the account
\* answered (got), the rows that arrived after it did (late), and the writes
\* that remain on the phone: flags to settle, rows to land, flags to set.
NoPass ==
    [step |-> "idle", acct |-> NoAccount, givenAt |-> 0, linking |-> FALSE,
     view |-> [k \in Keys |-> NoRow], queue |-> {}, sent |-> FALSE, batch |-> {},
     got |-> [k \in Keys |-> NoCopy], late |-> {},
     settle |-> {}, land |-> {}, flag |-> {}]

Unlinked == [last |-> NoAccount, records |-> NoAccount, joinedAt |-> 0]
NotLeaving == [on |-> FALSE, link |-> Unlinked, behind |-> {}]
NoConsent == [given |-> FALSE, givenAt |-> 0, withdrawnAt |-> 0]

Live(r) == r.st = "live"
Present(r) == r.st # "none"

Init ==
    /\ row = [p \in Phones |-> [k \in Keys |-> NoRow]]
    /\ session = [p \in Phones |-> NoAccount]
    /\ leaving = [p \in Phones |-> NotLeaving]
    /\ link = [p \in Phones |-> Unlinked]
    /\ behind = [p \in Phones |-> {}]
    /\ pass = [p \in Phones |-> NoPass]
    /\ srv = [a \in Accounts |-> [k \in Keys |-> NoCopy]]
    /\ consent = [a \in Accounts |-> NoConsent]
    /\ version = 0 /\ instant = 0
    /\ received = [a \in Accounts |-> {}]

-----------------------------------------------------------------------------
(* Local writes, at any moment of a pass.                                    *)

Write(p, k, st) ==
    /\ version < MaxVersion
    /\ version' = version + 1
    /\ row' = [row EXCEPT ![p][k] = [ver |-> version + 1, st |-> st, pending |-> TRUE]]
    /\ UNCHANGED <<session, leaving, link, behind, pass, account>>

\* Adding or editing a row; a deleted piece stays deleted, a cleared day can be
\* chosen again.
Edit(p, k) == (k \in IdKeys => row[p][k].st \in {"none", "live"}) /\ Write(p, k, "live")

Delete(p, k) == Live(row[p][k]) /\ Write(p, k, "gone")

\* A deletion marker passes the 30 days of the first upload's window.
Age(p, k) ==
    /\ row[p][k].st = "gone"
    /\ row' = [row EXCEPT ![p][k].st = "old"]
    /\ UNCHANGED <<session, leaving, link, behind, pass, account, version>>

-----------------------------------------------------------------------------
(* The account: consent answers from any phone, and rows that arrive.        *)

GiveConsent(a) ==
    /\ instant < MaxConsent
    /\ instant' = instant + 1
    /\ consent' = [consent EXCEPT ![a].given = TRUE, ![a].givenAt = instant + 1]
    /\ UNCHANGED <<phone, srv, received, version>>

\* withdraw_sync_consent: the record and the deletes are one transaction.
WithdrawConsent(a) ==
    /\ instant < MaxConsent
    /\ instant' = instant + 1
    /\ consent' = [consent EXCEPT ![a].given = FALSE, ![a].withdrawnAt = instant + 1]
    /\ srv' = [srv EXCEPT ![a] = [k \in Keys |-> NoCopy]]
    /\ UNCHANGED <<phone, received, version>>

-----------------------------------------------------------------------------
(* The start of a pass: account-session-sync run, and the rows it reads.     *)

hasLinkedTo(l, a) == l.last = a

\* linkAtPass: without the consent the records no longer count as joined.
linkAtPass(l, a, given) ==
    IF ~given /\ l.records = a THEN [l EXCEPT !.records = NoAccount, !.joinedAt = 0] ELSE l

\* Mutant: a withdrawal since the joining is not looked at.
JoinedOnce(l, a) == l.records = a /\ l.joinedAt # 0

\* The records have joined a under its current consent.
Joined(l, a) ==
    /\ l.records = a /\ l.joinedAt # 0
    /\ consent[a].withdrawnAt <= l.joinedAt

\* syncPassFor
syncPassFor(l, a) ==
    IF ~hasLinkedTo(l, a) THEN "first-link"
    ELSE IF ~consent[a].given \/ Joined(l, a) THEN "sync" ELSE "first-link"

\* linkAfterFirstLink
linkAfterFirstLink(l, a, given, givenAt) ==
    [last |-> a,
     records |-> IF given THEN a ELSE l.records,
     joinedAt |-> IF given THEN givenAt ELSE l.joinedAt]

\* pendingUpload
pendingUpload(rows) == {k \in Keys : rows[k].pending}

Begin(p, step, a, fields) ==
    pass' = [pass EXCEPT ![p] = [NoPass EXCEPT !.step = step, !.acct = a,
        !.givenAt = fields.givenAt, !.linking = fields.linking, !.view = fields.view,
        !.queue = fields.queue, !.sent = fields.queue # {}]]

\* A sign-in, once an earlier sign-out has ended.
SignIn(p, a) ==
    /\ session[p] = NoAccount /\ ~leaving[p].on
    /\ session' = [session EXCEPT ![p] = a]
    /\ UNCHANGED <<row, leaving, link, behind, pass, account, version>>

StartPass(p, a) ==
    /\ pass[p].step = "idle" /\ session[p] = a
    /\ LET given == consent[a].given
           stored == linkAtPass(link[p], a, given)
           first == syncPassFor(stored, a) = "first-link"
           base == [givenAt |-> IF given THEN consent[a].givenAt ELSE 0, linking |-> first,
                    view |-> row[p], queue |-> {}]
       IN  /\ link' = [link EXCEPT ![p] = stored]
           /\ \/ ~given /\ ~first /\ UNCHANGED pass
              \/ ~given /\ first /\ Begin(p, "bare", a, [base EXCEPT !.view = NoPass.view])
              \/ given /\ first /\ Begin(p, "snapshot", a, base)
              \/ given /\ ~first /\ Begin(p, "upload", a, [base EXCEPT !.queue = pendingUpload(row[p])])
    /\ UNCHANGED <<row, session, leaving, behind, account, version>>

\* A first link without the consent settles no record; the record tables keep
\* no position.
LinkWithoutRecords(p) ==
    /\ pass[p].step = "bare"
    /\ link' = [link EXCEPT ![p] = linkAfterFirstLink(@, pass[p].acct, FALSE, 0)]
    /\ behind' = [behind EXCEPT ![p] = Keys]
    /\ pass' = [pass EXCEPT ![p] = NoPass]
    /\ UNCHANGED <<row, session, leaving, account, version>>

\* A request failed, its answer was lost, a write failed, or the app was
\* closed: the pass is over, what the phone and the account stored stays.
EndPass(p) ==
    /\ pass[p].step # "idle"
    /\ pass' = [pass EXCEPT ![p] = NoPass]
    /\ UNCHANGED <<row, session, leaving, link, behind, account, version>>

\* The session goes, then the link without its user is saved again as it was
\* read.  Offline, or when the server ended the session, a pass may be running.
SignOut(p) ==
    /\ session[p] # NoAccount
    /\ session' = [session EXCEPT ![p] = NoAccount]
    /\ leaving' = [leaving EXCEPT ![p] =
           IF SplitSignOut THEN [on |-> TRUE, link |-> link[p], behind |-> behind[p]] ELSE @]
    /\ UNCHANGED <<row, link, behind, pass, account, version>>

SaveSignOut(p) ==
    /\ leaving[p].on
    /\ link' = [link EXCEPT ![p] = leaving[p].link]
    /\ behind' = [behind EXCEPT ![p] = leaving[p].behind]
    /\ leaving' = [leaving EXCEPT ![p] = NotLeaving]
    /\ UNCHANGED <<row, session, pass, account, version>>

-----------------------------------------------------------------------------
(* Upload: one batch at a time, stored whole or not at all.                  *)

\* Mutant: a row sent as the phone holds it, its marker's age included.
CopyAsHeld(r) == [ver |-> r.ver, st |-> r.st]

CopyOf(r) == [ver |-> r.ver, st |-> IF r.st = "live" THEN "live" ELSE "gone"]

\* The account stores a batch: last arrival wins, only under the consent.
StoreBatch(p) ==
    LET a == pass[p].acct IN
    /\ pass[p].step = "upload" /\ pass[p].batch = {}
    /\ consent[a].given /\ session[p] = a
    /\ \E batch \in SUBSET pass[p].queue \ {{}} :
        /\ srv' = [srv EXCEPT ![a] =
               [k \in Keys |-> IF k \in batch THEN CopyOf(pass[p].view[k]) ELSE @[k]]]
        /\ received' = [received EXCEPT ![a] = @ \cup {pass[p].view[k].ver : k \in batch}]
        /\ behind' = [q \in Phones |-> IF link[q].last = a THEN behind[q] \cup batch ELSE behind[q]]
        /\ leaving' = [q \in Phones |-> IF leaving[q].on /\ leaving[q].link.last = a
                                      THEN [leaving[q] EXCEPT !.behind = @ \cup batch] ELSE leaving[q]]
        /\ pass' = [q \in Phones |->
               IF q = p THEN [pass[p] EXCEPT !.step = "confirm", !.batch = batch,
                                             !.queue = @ \ batch, !.late = @ \cup batch]
               ELSE IF pass[q].acct = a THEN [pass[q] EXCEPT !.late = @ \cup batch]
               ELSE pass[q]]
    /\ UNCHANGED <<row, session, link, consent, instant, version>>

\* Mutant: the flag is cleared by identity alone.
clearPending(rows, view, batch) ==
    [k \in Keys |-> IF k \in batch THEN [rows[k] EXCEPT !.pending = FALSE] ELSE rows[k]]

\* clearPendingIfUnchanged for the batch the account acknowledged.
clearPendingIfUnchanged(rows, view, batch) ==
    [k \in Keys |-> IF k \in batch /\ rows[k].ver = view[k].ver
                    THEN [rows[k] EXCEPT !.pending = FALSE] ELSE rows[k]]

ConfirmBatch(p) ==
    /\ pass[p].step = "confirm"
    /\ \E cleared \in (IF SplitWrites THEN SUBSET pass[p].batch \ {{}} ELSE {pass[p].batch}) :
        /\ row' = [row EXCEPT ![p] = clearPendingIfUnchanged(@, pass[p].view, cleared)]
        /\ pass' = [pass EXCEPT ![p].batch = @ \ cleared,
               ![p].step = IF pass[p].batch = cleared THEN "upload" ELSE "confirm"]
    /\ UNCHANGED <<session, leaving, link, behind, account, version>>

\* Nothing is left to send: a first link is over, an ongoing pass pulls.
UploadDone(p) ==
    /\ pass[p].step = "upload" /\ pass[p].queue = {}
    /\ pass' = [pass EXCEPT ![p] = IF @.linking THEN NoPass ELSE [@ EXCEPT !.step = "pull"]]
    /\ UNCHANGED <<row, session, leaving, link, behind, account, version>>

-----------------------------------------------------------------------------
(* The ongoing pass: pull and land.                                          *)

\* Mutant: a pulled marker is passed over.
applyPulledLive(local, got, arrived) == {k \in arrived : ~local[k].pending /\ Live(got[k])}

\* applyPulled: never over a pending row, no marker for a row never held.
applyPulled(local, got, arrived) ==
    {k \in arrived : /\ Present(got[k])
                     /\ ~local[k].pending
                     /\ Present(local[k]) \/ Live(got[k])}

\* The rows of a that a read sees: with no token it fails, with another
\* account's token, from some request on, it sees nothing.
Readable(p, a) ==
    IF session[p] = a THEN {Keys} ELSE IF session[p] = NoAccount THEN {} ELSE SUBSET Keys

\* The pull answers every row past the cursor, and by the overlap some others.
Pull(p) ==
    LET a == pass[p].acct IN
    /\ pass[p].step = "pull"
    /\ \E seen \in Readable(p, a), again \in SUBSET (Keys \ behind[p]) :
        LET local == IF pass[p].sent THEN row[p] ELSE pass[p].view IN
        pass' = [pass EXCEPT ![p].step = "land", ![p].got = srv[a], ![p].late = behind[p] \ seen,
            ![p].land = applyPulled(local, srv[a], (behind[p] \cup again) \cap seen)]
    /\ UNCHANGED <<row, session, leaving, link, behind, account, version>>

\* land: one row, settled, unless the phone's own row waits to upload.
landed(own, copy) ==
    IF own.pending THEN own ELSE [ver |-> copy.ver, st |-> copy.st, pending |-> FALSE]

\* writePulled: the cursor is saved with the last rows.
LandPulled(p) ==
    /\ pass[p].step = "land"
    /\ \E now \in (IF SplitWrites THEN SUBSET pass[p].land ELSE {pass[p].land}) :
        /\ row' = [row EXCEPT ![p] =
               [k \in Keys |-> IF k \in now THEN landed(@[k], pass[p].got[k]) ELSE @[k]]]
        /\ \/ /\ now = pass[p].land
              /\ behind' = [behind EXCEPT ![p] = pass[p].late]
              /\ pass' = [pass EXCEPT ![p] = NoPass]
           \/ /\ now # {} /\ now # pass[p].land
              /\ pass' = [pass EXCEPT ![p].land = @ \ now]
              /\ UNCHANGED behind
    /\ UNCHANGED <<session, leaving, link, account, version>>

-----------------------------------------------------------------------------
(* The first link: merge, write, then upload.                                *)

\* firstUploadRows: live rows and markers within the window.
firstUploadRows(local) == {k \in Keys : local[k].st \in {"live", "gone"}}

\* A marker for a row the phone never held does not land (landRemoteRows).
AccountHolds(local, got, k) == Live(got[k]) \/ (Present(got[k]) /\ Present(local[k]))

\* Mutant: a first link sends only what waited to upload.
mergeSendsPending(local, got) ==
    {k \in firstUploadRows(local) : local[k].pending /\ ~AccountHolds(local, got, k)}

\* mergeById and mergeByDay.
mergeWrites(local, got) ==
    {k \in Keys : IF k \in IdKeys THEN AccountHolds(local, got, k) ELSE Live(got[k])}
mergeSends(local, got) ==
    {k \in firstUploadRows(local) :
        \/ ~AccountHolds(local, got, k)
        \/ k \in DayKeys /\ ~Live(got[k]) /\ Live(local[k])}

Snapshot(p) ==
    LET a == pass[p].acct IN
    /\ pass[p].step = "snapshot"
    /\ \E seen \in Readable(p, a) :
        LET got == [k \in Keys |-> IF k \in seen THEN srv[a][k] ELSE NoCopy] IN
        pass' = [pass EXCEPT ![p].step = "apply", ![p].got = got, ![p].late = Keys \ seen,
           ![p].settle = {k \in Keys : Present(pass[p].view[k])},
           ![p].land = mergeWrites(pass[p].view, got),
           ![p].flag = mergeSends(pass[p].view, got)]
    /\ UNCHANGED <<row, session, leaving, link, behind, account, version>>

\* One row under the writes of applyFirstLink: its flag settled if it is still
\* the row that was read, the account's row landed, the flag of a row to send set.
settled(own, read) == IF own.ver = read.ver THEN [own EXCEPT !.pending = FALSE] ELSE own
Applied(own, read, copy, settles, lands, flags) ==
    LET a == IF settles THEN settled(own, read) ELSE own
        b == IF lands THEN landed(a, copy) ELSE a
    IN  IF flags THEN [b EXCEPT !.pending = TRUE] ELSE b

\* applyFirstLink: flags to settle, rows to land, flags to set, in this order,
\* over as many transactions as it takes; the link is saved with the last.
ApplyFirstLink(p) ==
    LET me == pass[p] IN
    /\ me.step = "apply"
    /\ \E s \in SUBSET me.settle, l \in SUBSET me.land, f \in SUBSET me.flag :
        LET whole == s = me.settle /\ l = me.land /\ f = me.flag IN
        /\ ~SplitWrites => whole
        /\ l # {} => s = me.settle
        /\ f # {} => s = me.settle /\ l = me.land
        /\ row' = [row EXCEPT ![p] = [k \in Keys |->
               Applied(@[k], me.view[k], me.got[k], k \in s, k \in l, k \in f)]]
        /\ \/ /\ whole
              /\ link' = [link EXCEPT ![p] = linkAfterFirstLink(@, me.acct, TRUE, me.givenAt)]
              /\ behind' = [behind EXCEPT ![p] = me.late]
              /\ pass' = [pass EXCEPT ![p].step = "upload",
                     ![p].queue = mergeSends(me.view, me.got),
                     ![p].settle = {}, ![p].land = {}, ![p].flag = {}]
           \/ /\ ~whole /\ s \cup l \cup f # {}
              /\ pass' = [pass EXCEPT ![p].settle = @ \ s, ![p].land = @ \ l, ![p].flag = @ \ f]
              /\ UNCHANGED <<link, behind>>
    /\ UNCHANGED <<session, leaving, account, version>>

-----------------------------------------------------------------------------
PassStep(p) ==
    \/ LinkWithoutRecords(p)
    \/ StoreBatch(p) \/ ConfirmBatch(p) \/ UploadDone(p)
    \/ Pull(p) \/ LandPulled(p)
    \/ Snapshot(p) \/ ApplyFirstLink(p)

Next ==
    \/ \E p \in Phones :
        \/ \E k \in Keys : Edit(p, k) \/ Delete(p, k) \/ Age(p, k)
        \/ \E a \in Accounts : SignIn(p, a) \/ StartPass(p, a)
        \/ PassStep(p) \/ EndPass(p)
        \/ SignOut(p) \/ SaveSignOut(p)
    \/ \E a \in Accounts : GiveConsent(a) \/ WithdrawConsent(a)

Spec == Init /\ [][Next]_vars

-----------------------------------------------------------------------------
\* The types of the phones' and the accounts' state; the account only holds
\* versions that some phone wrote.
TypeOK ==
    /\ row \in [Phones -> [Keys -> Row]]
    /\ session \in [Phones -> Accounts \cup {NoAccount}]
    /\ link \in [Phones -> Link]
    /\ leaving \in [Phones -> [on : BOOLEAN, link : Link, behind : SUBSET Keys]]
    /\ behind \in [Phones -> SUBSET Keys]
    /\ \A p \in Phones :
        /\ pass[p].step \in Steps /\ pass[p].acct \in Accounts \cup {NoAccount}
        /\ pass[p].view \in [Keys -> Row] /\ pass[p].got \in [Keys -> Copy]
        /\ \A s \in {pass[p].queue, pass[p].batch, pass[p].late, pass[p].settle,
                     pass[p].land, pass[p].flag} : s \subseteq Keys
    /\ srv \in [Accounts -> [Keys -> Copy]]
    /\ received \in [Accounts -> SUBSET (1 .. version)]

\* A phone's row and the account's copy say the same.
Same(own, copy) == own.ver = copy.ver \/ (~Live(own) /\ ~Live(copy))

\* The account the phone's settled rows speak of.
SyncsWith(p, a) == hasLinkedTo(link[p], a) /\ consent[a].given /\ Joined(link[p], a)

\* On a phone whose records have joined the account, a row that does not wait
\* to upload is the account's, or a newer arrival lies past the pull cursor:
\* no edit, answer lost half way or switch of accounts leaves the two apart
\* with nothing left to bring them together.
SettledAgrees ==
    \A p \in Phones, a \in Accounts, k \in Keys :
        SyncsWith(p, a) /\ ~row[p][k].pending
            => Same(row[p][k], srv[a][k]) \/ k \in behind[p]

\* An edit stops waiting to upload, or gives way to another version, only once
\* the account has received it, or at a first link that read that very version:
\* never one made while its row was being sent, pulled or merged.
EditsReachAccount ==
    [][\A p \in Phones, k \in Keys :
        /\ version' = version /\ row[p][k].pending
        /\ ~row'[p][k].pending \/ row'[p][k].ver # row[p][k].ver
        => \/ row[p][k].ver \in received[pass[p].acct]
           \/ pass[p].step = "apply" /\ pass[p].view[k].ver = row[p][k].ver]_vars
=============================================================================
