-------------------------- MODULE AccountSyncProofs --------------------------
(***************************************************************************)
(* Proofs about AccountSync: the types, that an edit stops waiting only once  *)
(* the account has it, and that settled copies agree, a phone's with the      *)
(* account's and two phones' with each other, for any number of phones, rows,  *)
(* writes and consent answers.                                                *)
(***************************************************************************)
EXTENDS AccountSync, TLAPS

Consents == [given : BOOLEAN, givenAt : Nat, withdrawnAt : Nat]
Leavings == [on : BOOLEAN, link : Link, behind : SUBSET Keys]
Passes ==
    [step : Steps, acct : Accounts \cup {NoAccount}, givenAt : Nat, linking : BOOLEAN,
     view : [Keys -> Row], queue : SUBSET Keys, sent : BOOLEAN, batch : SUBSET Keys,
     got : [Keys -> Copy], late : SUBSET Keys,
     settle : SUBSET Keys, land : SUBSET Keys, flag : SUBSET Keys]

PhoneTypes ==
    /\ row \in [Phones -> [Keys -> Row]] /\ session \in [Phones -> Accounts \cup {NoAccount}]
    /\ leaving \in [Phones -> Leavings] /\ link \in [Phones -> Link]
    /\ behind \in [Phones -> SUBSET Keys] /\ pass \in [Phones -> Passes]
    /\ \A p \in Phones : pass[p].step # "idle" => pass[p].acct \in Accounts
AccountTypes ==
    /\ srv \in [Accounts -> [Keys -> Copy]] /\ consent \in [Accounts -> Consents]
    /\ version \in Nat /\ instant \in Nat /\ received \in [Accounts -> SUBSET Nat]
Types == PhoneTypes /\ AccountTypes

LEMMA NoPassFacts ==
    /\ NoPass \in Passes /\ NoPass.step = "idle" /\ Unlinked \in Link /\ NotLeaving \in Leavings
    /\ NoConsent \in Consents /\ NoRow \in Row /\ NoCopy \in Copy
BY DEF NoPass, Passes, Steps, Unlinked, Link, NotLeaving, Leavings, NoConsent, Consents, NoRow, Row,
   NoCopy, Copy, States

\* What the writes of a pass make of one row.
LEMMA AppliedFacts ==
    ASSUME NEW own \in Row, NEW read \in Row, NEW copy \in Copy,
           NEW settles \in BOOLEAN, NEW lands \in BOOLEAN, NEW flags \in BOOLEAN
    PROVE  /\ landed(own, copy) \in Row
           /\ Applied(own, read, copy, settles, lands, flags) \in Row
<1>1. settled(own, read) \in Row
  BY DEF settled, Row
<1>2. \A r \in Row : landed(r, copy) \in Row
  BY DEF landed, Row, Copy, States
<1>3. \A r \in Row : [r EXCEPT !.pending = TRUE] \in Row
  BY DEF Row
<1> QED
  BY <1>1, <1>2, <1>3 DEF Applied

\* A pass that begins.
Fresh(s) == s.land = {} /\ s.flag = {} /\ s.got = NoPass.got

LEMMA BeginFacts ==
    ASSUME Types, NEW p \in Phones, NEW a \in Accounts, NEW step \in Steps,
           NEW f \in [givenAt : Nat, linking : BOOLEAN, view : [Keys -> Row], queue : SUBSET Keys],
           Begin(p, step, a, f)
    PROVE  \E s \in Passes :
              /\ pass' = [pass EXCEPT ![p] = s]
              /\ s.step = step /\ s.acct = a /\ s.givenAt = f.givenAt /\ s.linking = f.linking
              /\ s.view = f.view /\ s.queue = f.queue /\ s.sent = (f.queue # {})
              /\ Fresh(s)
<1> DEFINE s == [NoPass EXCEPT !.step = step, !.acct = a, !.givenAt = f.givenAt,
                   !.linking = f.linking, !.view = f.view, !.queue = f.queue, !.sent = f.queue # {}]
<1>1. s \in Passes
  BY NoPassFacts DEF Passes
<1>2. /\ s.step = step /\ s.acct = a /\ s.givenAt = f.givenAt /\ s.linking = f.linking
      /\ s.view = f.view /\ s.queue = f.queue /\ s.sent = (f.queue # {})
  BY NoPassFacts DEF Passes
<1>4. Fresh(s)
  BY NoPassFacts DEF Passes, NoPass, Fresh
<1>3. pass' = [pass EXCEPT ![p] = s]
  BY DEF Begin
<1> HIDE DEF s
<1> QED
  BY <1>1, <1>2, <1>3, <1>4

-----------------------------------------------------------------------------
(* What each step of a pass does, field by field.                            *)

LEMMA ReadPass ==
    ASSUME Types, NEW p \in Phones
    PROVE  /\ pass[p] \in Passes /\ row[p] \in [Keys -> Row] /\ link[p] \in Link
           /\ behind[p] \in SUBSET Keys /\ leaving[p] \in Leavings
           /\ pass[p].view \in [Keys -> Row] /\ pass[p].got \in [Keys -> Copy]
BY DEF Types, PhoneTypes, Passes

\* What a pass keeps while it sends and writes.
Alike(s, t) ==
    /\ s.acct = t.acct /\ s.givenAt = t.givenAt /\ s.linking = t.linking /\ s.view = t.view
    /\ s.sent = t.sent /\ s.got = t.got

LEMMA StartFacts ==
    ASSUME Types, NEW p \in Phones, NEW a \in Accounts, StartPass(p, a)
    PROVE  LET given == consent[a].given
               stored == linkAtPass(link[p], a, given)
               first == syncPassFor(stored, a) = "first-link"
           IN  /\ stored \in Link /\ link' = [link EXCEPT ![p] = stored]
               /\ \/ UNCHANGED pass
                  \/ \E s \in Passes :
                       /\ pass' = [pass EXCEPT ![p] = s] /\ s.acct = a /\ s.linking = first /\ Fresh(s)
                       /\ \/ ~given /\ first /\ s.step = "bare" /\ s.view = NoPass.view /\ s.queue = {}
                          \/ /\ given /\ first /\ s.step = "snapshot" /\ s.givenAt = consent[a].givenAt
                             /\ s.view = row[p] /\ s.queue = {}
                          \/ /\ given /\ ~first /\ s.step = "upload" /\ s.view = row[p]
                             /\ s.queue = pendingUpload(row[p]) /\ s.sent = (s.queue # {})
<1> DEFINE given == consent[a].given
           stored == linkAtPass(link[p], a, given)
           first == syncPassFor(stored, a) = "first-link"
<1>1. link[p] \in Link /\ row[p] \in [Keys -> Row] /\ consent[a] \in Consents
  BY ReadPass DEF Types, AccountTypes
<1>2. stored \in Link
  BY <1>1 DEF linkAtPass, Link
<1>3. PICK fst \in BOOLEAN : fst = first
  OBVIOUS
<1> DEFINE base == [givenAt |-> IF given THEN consent[a].givenAt ELSE 0, linking |-> first,
                    view |-> row[p], queue |-> {}]
           F == [givenAt : Nat, linking : BOOLEAN, view : [Keys -> Row], queue : SUBSET Keys]
<1>4. /\ link' = [link EXCEPT ![p] = stored]
      /\ \/ ~given /\ ~first /\ UNCHANGED pass
         \/ ~given /\ first /\ Begin(p, "bare", a, [base EXCEPT !.view = NoPass.view])
         \/ given /\ first /\ Begin(p, "snapshot", a, base)
         \/ given /\ ~first /\ Begin(p, "upload", a, [base EXCEPT !.queue = pendingUpload(row[p])])
  BY DEF StartPass
<1>5. base \in F /\ base.view = row[p] /\ base.queue = {} /\ base.linking = first
      /\ (given => base.givenAt = consent[a].givenAt)
  BY <1>1, <1>3 DEF Consents
<1>6. NoPass.view \in [Keys -> Row] /\ pendingUpload(row[p]) \in SUBSET Keys
  BY NoPassFacts DEF pendingUpload, Passes
<1> HIDE DEF base, stored, first, given
<1>7. CASE ~given /\ first /\ Begin(p, "bare", a, [base EXCEPT !.view = NoPass.view])
  <2> DEFINE f == [base EXCEPT !.view = NoPass.view]
  <2>1. /\ f \in F /\ f.view = NoPass.view /\ f.queue = {} /\ f.linking = first
        /\ Begin(p, "bare", a, f)
    BY <1>5, <1>6, <1>7
  <2> HIDE DEF f, F
  <2>2. \E s \in Passes : /\ pass' = [pass EXCEPT ![p] = s] /\ s.step = "bare" /\ s.acct = a
                          /\ s.linking = first /\ s.view = NoPass.view /\ s.queue = {} /\ Fresh(s)
    BY <2>1, BeginFacts DEF Steps, F
  <2> QED
    BY <1>2, <1>4, <1>7, <2>2 DEF stored, first, given
<1>8. CASE given /\ first /\ Begin(p, "snapshot", a, base)
  <2> HIDE DEF F
  <2>2. \E s \in Passes : /\ pass' = [pass EXCEPT ![p] = s] /\ s.step = "snapshot" /\ s.acct = a
                          /\ s.linking = first /\ s.view = row[p] /\ s.queue = {}
                          /\ s.givenAt = consent[a].givenAt /\ Fresh(s)
    <3>1. base \in F /\ Begin(p, "snapshot", a, base)
      BY <1>5, <1>8
    <3>2. base.view = row[p] /\ base.queue = {} /\ base.linking = first
      BY <1>5
    <3>3. base.givenAt = consent[a].givenAt
      BY <1>5, <1>8
    <3> QED
      BY <3>1, <3>2, <3>3, BeginFacts DEF Steps, F
  <2> QED
    BY <1>2, <1>4, <1>8, <2>2 DEF stored, first, given
<1>9. CASE given /\ ~first /\ Begin(p, "upload", a, [base EXCEPT !.queue = pendingUpload(row[p])])
  <2> DEFINE f == [base EXCEPT !.queue = pendingUpload(row[p])]
  <2>1. /\ f \in F /\ f.view = row[p] /\ f.queue = pendingUpload(row[p]) /\ f.linking = first
        /\ Begin(p, "upload", a, f)
    BY <1>5, <1>6, <1>9
  <2> HIDE DEF f, F
  <2>2. \E s \in Passes : /\ pass' = [pass EXCEPT ![p] = s] /\ s.step = "upload" /\ s.acct = a
                          /\ s.linking = first /\ s.view = row[p]
                          /\ s.queue = pendingUpload(row[p]) /\ s.sent = (s.queue # {}) /\ Fresh(s)
    BY <2>1, BeginFacts DEF Steps, F
  <2> QED
    BY <1>2, <1>4, <1>9, <2>2 DEF stored, first, given
<1> QED
  BY <1>2, <1>4, <1>7, <1>8, <1>9 DEF stored, first, given

ConfirmEffect(p, cleared, rows, s) ==
    /\ row' = [row EXCEPT ![p] = rows] /\ pass' = [pass EXCEPT ![p] = s]
    /\ \A k \in Keys : rows[k] = IF k \in cleared /\ row[p][k].ver = pass[p].view[k].ver
                               THEN [row[p][k] EXCEPT !.pending = FALSE] ELSE row[p][k]
    /\ s.step \in {"upload", "confirm"} /\ s.batch \subseteq pass[p].batch /\ Alike(s, pass[p])
    /\ s.queue = pass[p].queue /\ s.land = pass[p].land /\ s.flag = pass[p].flag

LEMMA ConfirmFacts ==
    ASSUME Types, NEW p \in Phones, ConfirmBatch(p)
    PROVE  \E cleared \in SUBSET pass[p].batch, rows \in [Keys -> Row], s \in Passes :
              ConfirmEffect(p, cleared, rows, s)
<1>1. pass[p] \in Passes /\ row[p] \in [Keys -> Row] /\ pass \in [Phones -> Passes]
      /\ row \in [Phones -> [Keys -> Row]] /\ pass[p].view \in [Keys -> Row]
  BY ReadPass DEF Types, PhoneTypes
<1>2. PICK cleared \in SUBSET pass[p].batch :
        /\ row' = [row EXCEPT ![p] = clearPendingIfUnchanged(@, pass[p].view, cleared)]
        /\ pass' = [pass EXCEPT ![p].batch = @ \ cleared,
               ![p].step = IF pass[p].batch = cleared THEN "upload" ELSE "confirm"]
  BY DEF ConfirmBatch
<1> DEFINE rows == clearPendingIfUnchanged(row[p], pass[p].view, cleared)
           s == [pass[p] EXCEPT !.batch = @ \ cleared,
                    !.step = IF pass[p].batch = cleared THEN "upload" ELSE "confirm"]
<1>3. rows \in [Keys -> Row]
  BY <1>1 DEF clearPendingIfUnchanged, Row
<1>4. \A k \in Keys : rows[k] = IF k \in cleared /\ row[p][k].ver = pass[p].view[k].ver
                             THEN [row[p][k] EXCEPT !.pending = FALSE] ELSE row[p][k]
  BY DEF clearPendingIfUnchanged
<1>5. row' = [row EXCEPT ![p] = rows] /\ pass' = [pass EXCEPT ![p] = s]
  BY <1>1, <1>2
<1>6. /\ s \in Passes /\ s.step \in {"upload", "confirm"} /\ s.batch \subseteq pass[p].batch
      /\ Alike(s, pass[p])
      /\ s.queue = pass[p].queue /\ s.land = pass[p].land /\ s.flag = pass[p].flag
  BY <1>1 DEF Passes, Steps, Alike
<1> HIDE DEF rows, s
<1>7. ConfirmEffect(p, cleared, rows, s)
  BY <1>4, <1>5, <1>6 DEF ConfirmEffect
<1> QED
  BY <1>3, <1>6, <1>7

\* A local write, and a marker that passes the window.
LEMMA WriteFacts ==
    ASSUME Types, NEW p \in Phones, NEW k \in Keys, NEW st \in States, Write(p, k, st)
    PROVE  \E rows \in [Keys -> Row] :
              /\ row' = [row EXCEPT ![p] = rows] /\ version' = version + 1
              /\ rows[k].ver = version + 1 /\ rows[k].pending /\ rows[k].st = st
              /\ \A j \in Keys \ {k} : rows[j] = row[p][j]
<1>1. row[p] \in [Keys -> Row] /\ version \in Nat /\ row \in [Phones -> [Keys -> Row]]
  BY DEF Types, PhoneTypes, AccountTypes
<1> DEFINE new == [ver |-> version + 1, st |-> st, pending |-> TRUE]
           rows == [row[p] EXCEPT ![k] = new]
<1>2. new \in Row /\ new.ver = version + 1 /\ new.pending /\ new.st = st
  BY <1>1 DEF Row
<1>3. row' = [row EXCEPT ![p] = rows] /\ version' = version + 1
  BY <1>1 DEF Write
<1> HIDE DEF new
<1>4. rows \in [Keys -> Row] /\ rows[k] = new /\ \A j \in Keys \ {k} : rows[j] = row[p][j]
  BY <1>1, <1>2
<1> HIDE DEF rows
<1> QED
  BY <1>2, <1>3, <1>4

LEMMA EditOrDelete ==
    ASSUME NEW p \in Phones, NEW k \in Keys, Edit(p, k) \/ Delete(p, k)
    PROVE  \E st \in States : Write(p, k, st)
BY DEF Edit, Delete, States

LEMMA AgeFacts ==
    ASSUME Types, NEW p \in Phones, NEW k \in Keys, Age(p, k)
    PROVE  \E rows \in [Keys -> Row] :
              /\ row' = [row EXCEPT ![p] = rows] /\ row[p][k].st = "gone"
              /\ rows[k].ver = row[p][k].ver /\ rows[k].pending = row[p][k].pending
              /\ rows[k].st = "old" /\ \A j \in Keys \ {k} : rows[j] = row[p][j]
<1>1. row[p] \in [Keys -> Row] /\ row[p][k] \in Row /\ row \in [Phones -> [Keys -> Row]]
  BY DEF Types, PhoneTypes
<1> DEFINE new == [row[p][k] EXCEPT !.st = "old"]
           rows == [row[p] EXCEPT ![k] = new]
<1>2. new \in Row /\ new.ver = row[p][k].ver /\ new.pending = row[p][k].pending /\ new.st = "old"
  BY <1>1 DEF Row, States
<1>3. row' = [row EXCEPT ![p] = rows] /\ row[p][k].st = "gone"
  BY <1>1 DEF Age
<1> HIDE DEF new
<1>4. rows \in [Keys -> Row] /\ rows[k] = new /\ \A j \in Keys \ {k} : rows[j] = row[p][j]
  BY <1>1, <1>2
<1> HIDE DEF rows
<1> QED
  BY <1>2, <1>3, <1>4

LEMMA UploadDoneFacts ==
    ASSUME Types, NEW p \in Phones, UploadDone(p)
    PROVE  \/ pass' = [pass EXCEPT ![p] = NoPass]
           \/ \E s \in Passes :
                /\ pass' = [pass EXCEPT ![p] = s] /\ s.step = "pull" /\ ~pass[p].linking
                /\ s.acct = pass[p].acct /\ s.linking = pass[p].linking /\ s.sent = pass[p].sent
                /\ s.view = pass[p].view /\ s.queue = pass[p].queue /\ s.got = pass[p].got
                /\ s.land = pass[p].land /\ s.flag = pass[p].flag
<1>1. pass[p] \in Passes
  BY ReadPass
<1> DEFINE s == [pass[p] EXCEPT !.step = "pull"]
<1>2. /\ s \in Passes /\ s.step = "pull" /\ s.acct = pass[p].acct /\ s.linking = pass[p].linking
      /\ s.sent = pass[p].sent /\ s.view = pass[p].view /\ s.queue = pass[p].queue
      /\ s.got = pass[p].got /\ s.land = pass[p].land /\ s.flag = pass[p].flag
  BY <1>1 DEF Passes, Steps
<1>3. pass' = [pass EXCEPT ![p] = NoPass] \/ (~pass[p].linking /\ pass' = [pass EXCEPT ![p] = s])
  BY DEF UploadDone
<1> HIDE DEF s
<1> QED
  BY <1>2, <1>3

PullEffect(p, seen, again, s) ==
    LET local == IF pass[p].sent THEN row[p] ELSE pass[p].view IN
    /\ seen \in Readable(p, pass[p].acct)
    /\ pass' = [pass EXCEPT ![p] = s] /\ s.step = "land" /\ s.acct = pass[p].acct
    /\ s.linking = pass[p].linking /\ s.sent = pass[p].sent /\ s.view = pass[p].view
    /\ s.got = srv[pass[p].acct] /\ s.late = behind[p] \ seen
    /\ s.land = applyPulled(local, s.got, (behind[p] \cup again) \cap seen)
    /\ s.queue = pass[p].queue /\ s.flag = pass[p].flag

LEMMA PullFacts ==
    ASSUME Types, NEW p \in Phones, Pull(p)
    PROVE  \E seen \in SUBSET Keys, again \in SUBSET (Keys \ behind[p]), s \in Passes :
              PullEffect(p, seen, again, s)
<1> DEFINE a == pass[p].acct
           local == IF pass[p].sent THEN row[p] ELSE pass[p].view
<1>1. /\ pass[p] \in Passes /\ a \in Accounts /\ srv[a] \in [Keys -> Copy] /\ behind[p] \in SUBSET Keys
  BY ReadPass DEF Types, PhoneTypes, AccountTypes, Pull
<1>2. PICK seen \in Readable(p, a), again \in SUBSET (Keys \ behind[p]) :
        pass' = [pass EXCEPT ![p].step = "land", ![p].got = srv[a], ![p].late = behind[p] \ seen,
            ![p].land = applyPulled(local, srv[a], (behind[p] \cup again) \cap seen)]
  BY DEF Pull
<1>3. seen \in SUBSET Keys
  BY DEF Readable
<1> DEFINE land == applyPulled(local, srv[a], (behind[p] \cup again) \cap seen)
           s == [pass[p] EXCEPT !.step = "land", !.got = srv[a], !.late = behind[p] \ seen,
                                !.land = land]
<1>4. land \in SUBSET Keys
  BY <1>3 DEF applyPulled
<1>5. pass' = [pass EXCEPT ![p] = s]
  BY <1>1, <1>2 DEF Types, PhoneTypes
<1> HIDE DEF land
<1>6. /\ s \in Passes /\ s.step = "land" /\ s.acct = a /\ s.linking = pass[p].linking
      /\ s.sent = pass[p].sent /\ s.view = pass[p].view /\ s.queue = pass[p].queue
      /\ s.got = srv[a] /\ s.late = behind[p] \ seen /\ s.land = land /\ s.flag = pass[p].flag
  BY <1>1, <1>4 DEF Passes, Steps
<1>7. s.land = applyPulled(local, s.got, (behind[p] \cup again) \cap seen)
  BY <1>6 DEF land
<1> HIDE DEF s
<1>8. PullEffect(p, seen, again, s)
  BY <1>2, <1>5, <1>6, <1>7 DEF PullEffect
<1> HIDE DEF local, a
<1> QED
  BY <1>2, <1>3, <1>6, <1>8

\* The versions a batch brings.
Sent(view, batch) == {view[k].ver : k \in batch}

\* What a stored batch does to every phone.
Stored(p, batch) ==
    LET a == pass[p].acct IN
    /\ \A q \in Phones :
        /\ behind'[q] = IF link[q].last = a THEN behind[q] \cup batch ELSE behind[q]
        /\ leaving'[q].on = leaving[q].on /\ leaving'[q].link = leaving[q].link
        /\ leaving'[q].behind = IF leaving[q].on /\ leaving[q].link.last = a
                                THEN leaving[q].behind \cup batch ELSE leaving[q].behind
        /\ Alike(pass'[q], pass[q]) /\ pass'[q].settle = pass[q].settle
        /\ pass'[q].land = pass[q].land /\ pass'[q].flag = pass[q].flag
        /\ pass'[q].late = IF pass[q].acct = a THEN pass[q].late \cup batch ELSE pass[q].late
    /\ pass'[p].step = "confirm" /\ pass'[p].batch = batch
    /\ pass'[p].queue \subseteq pass[p].queue
    /\ \A q \in Phones \ {p} : pass'[q].step = pass[q].step /\ pass'[q].batch = pass[q].batch
                               /\ pass'[q].queue = pass[q].queue

LEMMA StoreFacts ==
    ASSUME Types, NEW p \in Phones, StoreBatch(p)
    PROVE  LET a == pass[p].acct IN
           /\ a \in Accounts /\ pass[p].step = "upload" /\ consent[a].given /\ session[p] = a
           /\ behind' \in [Phones -> SUBSET Keys] /\ leaving' \in [Phones -> Leavings]
           /\ pass' \in [Phones -> Passes]
           /\ \E batch \in SUBSET pass[p].queue, copies \in [Keys -> Copy] :
                /\ srv' = [srv EXCEPT ![a] = copies]
                /\ \A k \in Keys : copies[k] = IF k \in batch THEN CopyOf(pass[p].view[k]) ELSE srv[a][k]
                /\ received' = [received EXCEPT ![a] = @ \cup Sent(pass[p].view, batch)]
                /\ Stored(p, batch)
<1> DEFINE a == pass[p].acct
<1>1. /\ pass[p] \in Passes /\ a \in Accounts /\ srv[a] \in [Keys -> Copy] /\ consent[a].given
      /\ pass[p].step = "upload" /\ session[p] = a /\ pass[p].view \in [Keys -> Row]
  BY ReadPass DEF Types, PhoneTypes, AccountTypes, StoreBatch
<1>2. PICK batch \in SUBSET pass[p].queue :
        /\ srv' = [srv EXCEPT ![a] =
               [k \in Keys |-> IF k \in batch THEN CopyOf(pass[p].view[k]) ELSE @[k]]]
        /\ received' = [received EXCEPT ![a] = @ \cup {pass[p].view[k].ver : k \in batch}]
        /\ behind' = [q \in Phones |-> IF link[q].last = a THEN behind[q] \cup batch ELSE behind[q]]
        /\ leaving' = [q \in Phones |-> IF leaving[q].on /\ leaving[q].link.last = a
                                      THEN [leaving[q] EXCEPT !.behind = @ \cup batch] ELSE leaving[q]]
        /\ pass' = [q \in Phones |->
               IF q = p THEN [pass[p] EXCEPT !.step = "confirm", !.batch = batch,
                                             !.queue = @ \ batch, !.late = @ \cup batch]
               ELSE IF pass[q].acct = a THEN [pass[q] EXCEPT !.late = @ \cup batch]
               ELSE pass[q]]
  BY DEF StoreBatch
<1> DEFINE copies == [k \in Keys |-> IF k \in batch THEN CopyOf(pass[p].view[k]) ELSE srv[a][k]]
<1>3. copies \in [Keys -> Copy]
  <2>1. \A r \in Row : CopyOf(r) \in Copy
    BY DEF CopyOf, Row, Copy
  <2> QED
    BY <1>1, <2>1
<1>4. batch \in SUBSET Keys
  BY <1>1 DEF Passes
<1>5. srv' = [srv EXCEPT ![a] = copies]
  BY <1>2
<1>6. \A q \in Phones : behind[q] \in SUBSET Keys /\ leaving[q] \in Leavings /\ pass[q] \in Passes
  BY ReadPass
<1>7. \A q \in Phones :
        /\ behind'[q] \in SUBSET Keys
        /\ behind'[q] = IF link[q].last = a THEN behind[q] \cup batch ELSE behind[q]
        /\ leaving'[q] \in Leavings
        /\ leaving'[q].on = leaving[q].on /\ leaving'[q].link = leaving[q].link
        /\ leaving'[q].behind = IF leaving[q].on /\ leaving[q].link.last = a
                                THEN leaving[q].behind \cup batch ELSE leaving[q].behind
  BY <1>2, <1>4, <1>6 DEF Leavings
<1>8. \A q \in Phones :
        /\ pass'[q] \in Passes
        /\ Alike(pass'[q], pass[q]) /\ pass'[q].settle = pass[q].settle
        /\ pass'[q].land = pass[q].land /\ pass'[q].flag = pass[q].flag
        /\ pass'[q].late = IF pass[q].acct = a THEN pass[q].late \cup batch ELSE pass[q].late
  <2> TAKE q \in Phones
  <2>1. CASE q = p
    <3>1. pass'[p] = [pass[p] EXCEPT !.step = "confirm", !.batch = batch,
                                     !.queue = @ \ batch, !.late = @ \cup batch]
      BY <1>2
    <3> DEFINE late == pass[p].late \cup batch
               rest == pass[p].queue \ batch
               sent == [pass[p] EXCEPT !.step = "confirm", !.batch = batch, !.queue = rest, !.late = late]
    <3>a. pass'[p] = sent
      BY <3>1
    <3>b. late \in SUBSET Keys /\ rest \in SUBSET Keys
      BY <1>1, <1>4 DEF Passes
    <3> HIDE DEF late, rest
    <3>c. /\ sent \in Passes /\ sent.acct = pass[p].acct /\ sent.givenAt = pass[p].givenAt
          /\ sent.linking = pass[p].linking /\ sent.view = pass[p].view /\ sent.sent = pass[p].sent
          /\ sent.got = pass[p].got /\ sent.settle = pass[p].settle
          /\ sent.land = pass[p].land /\ sent.flag = pass[p].flag /\ sent.late = late
      BY <1>1, <1>4, <3>b DEF Passes, Steps
    <3> HIDE DEF sent
    <3>2. /\ pass'[p] \in Passes /\ Alike(pass'[p], pass[p]) /\ pass'[p].settle = pass[p].settle
          /\ pass'[p].land = pass[p].land /\ pass'[p].flag = pass[p].flag
          /\ pass'[p].late = pass[p].late \cup batch
      BY <3>a, <3>c DEF late, Alike
    <3> QED
      BY <2>1, <3>2
  <2>2. CASE q # p /\ pass[q].acct = a
    <3>1. pass'[q] = [pass[q] EXCEPT !.late = @ \cup batch]
      BY <1>2, <2>2
    <3>2. pass[q] \in Passes
      BY <1>6
    <3> QED
      BY <1>4, <2>2, <3>1, <3>2 DEF Passes, Alike
  <2>3. CASE q # p /\ pass[q].acct # a
    BY <1>2, <1>6, <2>3 DEF Alike
  <2> QED
    BY <2>1, <2>2, <2>3
<1>9. pass'[p].step = "confirm" /\ pass'[p].batch = batch /\ pass'[p].queue \subseteq pass[p].queue
  <2>1. pass'[p] = [pass[p] EXCEPT !.step = "confirm", !.batch = batch,
                                   !.queue = @ \ batch, !.late = @ \cup batch]
    BY <1>2
  <2> QED
    BY <1>6, <2>1 DEF Passes
<1>10. \A q \in Phones \ {p} : pass'[q].step = pass[q].step /\ pass'[q].batch = pass[q].batch
                               /\ pass'[q].queue = pass[q].queue
  BY <1>2, <1>6 DEF Passes
<1>11. /\ behind' \in [Phones -> SUBSET Keys] /\ leaving' \in [Phones -> Leavings]
       /\ pass' \in [Phones -> Passes]
  BY <1>2, <1>7, <1>8
<1>12. \A k \in Keys : copies[k] = IF k \in batch THEN CopyOf(pass[p].view[k]) ELSE srv[a][k]
  OBVIOUS
<1>13. received' = [received EXCEPT ![a] = @ \cup Sent(pass[p].view, batch)]
  BY <1>2 DEF Sent
<1> HIDE DEF copies
<1>14. a \in Accounts /\ pass[p].step = "upload" /\ consent[a].given /\ session[p] = a
  BY <1>1
<1> SUFFICES
      \E b \in SUBSET pass[p].queue, c \in [Keys -> Copy] :
         /\ srv' = [srv EXCEPT ![a] = c]
         /\ \A k \in Keys : c[k] = IF k \in b THEN CopyOf(pass[p].view[k]) ELSE srv[a][k]
         /\ received' = [received EXCEPT ![a] = @ \cup Sent(pass[p].view, b)]
         /\ Stored(p, b)
  BY <1>11, <1>14
<1> WITNESS batch \in SUBSET pass[p].queue, copies \in [Keys -> Copy]
<1> QED
  BY <1>1, <1>3, <1>5, <1>7, <1>8, <1>9, <1>10, <1>12, <1>13 DEF Stored

LandEffect(p, now, rows, s) ==
    /\ row' = [row EXCEPT ![p] = rows] /\ pass' = [pass EXCEPT ![p] = s]
    /\ \A k \in Keys : rows[k] = IF k \in now THEN landed(row[p][k], pass[p].got[k]) ELSE row[p][k]
    /\ \/ now = pass[p].land /\ behind' = [behind EXCEPT ![p] = pass[p].late] /\ s = NoPass
       \/ /\ behind' = behind /\ s.step = "land" /\ Alike(s, pass[p])
          /\ s.late = pass[p].late /\ s.queue = pass[p].queue
          /\ s.land = pass[p].land \ now /\ s.flag = pass[p].flag

LEMMA LandFacts ==
    ASSUME Types, NEW p \in Phones, LandPulled(p)
    PROVE  \E now \in SUBSET pass[p].land, rows \in [Keys -> Row], s \in Passes :
              LandEffect(p, now, rows, s)
<1>1. /\ pass[p] \in Passes /\ row[p] \in [Keys -> Row] /\ pass[p].step = "land"
      /\ pass[p].got \in [Keys -> Copy] /\ pass[p].land \in SUBSET Keys
  BY ReadPass DEF LandPulled, Passes
<1>2. PICK now \in SUBSET pass[p].land :
        /\ row' = [row EXCEPT ![p] =
               [k \in Keys |-> IF k \in now THEN landed(@[k], pass[p].got[k]) ELSE @[k]]]
        /\ \/ /\ now = pass[p].land
              /\ behind' = [behind EXCEPT ![p] = pass[p].late]
              /\ pass' = [pass EXCEPT ![p] = NoPass]
           \/ /\ now # {} /\ now # pass[p].land
              /\ pass' = [pass EXCEPT ![p].land = @ \ now]
              /\ UNCHANGED behind
  BY DEF LandPulled
<1> DEFINE rows == [k \in Keys |-> IF k \in now THEN landed(row[p][k], pass[p].got[k]) ELSE row[p][k]]
           s == [pass[p] EXCEPT !.land = @ \ now]
<1>3. /\ rows \in [Keys -> Row] /\ row' = [row EXCEPT ![p] = rows]
      /\ \A k \in Keys : rows[k] = IF k \in now THEN landed(row[p][k], pass[p].got[k]) ELSE row[p][k]
  <2>1. \A k \in Keys : landed(row[p][k], pass[p].got[k]) \in Row
    BY <1>1 DEF landed, Row, Copy, States
  <2> QED
    BY <1>1, <1>2, <2>1
<1>4. /\ s \in Passes /\ s.step = "land" /\ Alike(s, pass[p])
      /\ s.late = pass[p].late /\ s.queue = pass[p].queue
      /\ s.land = pass[p].land \ now /\ s.flag = pass[p].flag
  BY <1>1 DEF Passes, Alike
<1>5. \/ /\ now = pass[p].land /\ behind' = [behind EXCEPT ![p] = pass[p].late]
         /\ pass' = [pass EXCEPT ![p] = NoPass]
      \/ UNCHANGED behind /\ pass' = [pass EXCEPT ![p] = s]
  BY <1>2
<1> HIDE DEF rows, s
<1>6. LandEffect(p, now, rows, s) \/ LandEffect(p, now, rows, NoPass)
  BY <1>3, <1>4, <1>5 DEF LandEffect
<1> QED
  BY <1>3, <1>4, <1>6, NoPassFacts

SnapshotEffect(p, seen, s) ==
    /\ seen \in Readable(p, pass[p].acct)
    /\ pass' = [pass EXCEPT ![p] = s] /\ s.step = "apply" /\ s.acct = pass[p].acct
    /\ s.givenAt = pass[p].givenAt /\ s.linking = pass[p].linking /\ s.view = pass[p].view
    /\ s.queue = pass[p].queue /\ s.late = Keys \ seen
    /\ \A k \in Keys : s.got[k] = IF k \in seen THEN srv[pass[p].acct][k] ELSE NoCopy
    /\ s.settle = {k \in Keys : Present(pass[p].view[k])}
    /\ s.land = mergeWrites(s.view, s.got) /\ s.flag = mergeSends(s.view, s.got)

LEMMA SnapshotFacts ==
    ASSUME Types, NEW p \in Phones, Snapshot(p)
    PROVE  \E seen \in SUBSET Keys, s \in Passes : SnapshotEffect(p, seen, s)
<1> DEFINE a == pass[p].acct
<1>1. /\ pass[p] \in Passes /\ a \in Accounts /\ srv[a] \in [Keys -> Copy]
  BY ReadPass DEF Types, PhoneTypes, AccountTypes, Snapshot
<1>2. PICK seen \in Readable(p, a) :
        LET got == [k \in Keys |-> IF k \in seen THEN srv[a][k] ELSE NoCopy] IN
        pass' = [pass EXCEPT ![p].step = "apply", ![p].got = got, ![p].late = Keys \ seen,
           ![p].settle = {k \in Keys : Present(pass[p].view[k])},
           ![p].land = mergeWrites(pass[p].view, got),
           ![p].flag = mergeSends(pass[p].view, got)]
  BY DEF Snapshot
<1>3. seen \in SUBSET Keys
  BY DEF Readable
<1> DEFINE got == [k \in Keys |-> IF k \in seen THEN srv[a][k] ELSE NoCopy]
           settle == {k \in Keys : Present(pass[p].view[k])}
           land == mergeWrites(pass[p].view, got)
           flag == mergeSends(pass[p].view, got)
           s == [pass[p] EXCEPT !.step = "apply", !.got = got, !.late = Keys \ seen,
                                !.settle = settle, !.land = land, !.flag = flag]
<1>4. got \in [Keys -> Copy]
  BY <1>1, NoPassFacts
<1>5. settle \in SUBSET Keys /\ land \in SUBSET Keys /\ flag \in SUBSET Keys
  BY DEF mergeWrites, mergeSends, firstUploadRows
<1>6. pass' = [pass EXCEPT ![p] = s]
  BY <1>1, <1>2 DEF Types, PhoneTypes
<1>7. \A k \in Keys : got[k] = IF k \in seen THEN srv[a][k] ELSE NoCopy
  OBVIOUS
<1> HIDE DEF settle, land, flag, got
<1>8. /\ s \in Passes /\ s.step = "apply" /\ s.acct = a /\ s.givenAt = pass[p].givenAt
      /\ s.linking = pass[p].linking /\ s.view = pass[p].view /\ s.queue = pass[p].queue
      /\ s.late = Keys \ seen /\ s.got = got /\ s.settle = settle /\ s.land = land /\ s.flag = flag
  BY <1>1, <1>4, <1>5 DEF Passes, Steps
<1>9. /\ s.settle = {k \in Keys : Present(pass[p].view[k])}
      /\ s.land = mergeWrites(s.view, s.got) /\ s.flag = mergeSends(s.view, s.got)
  BY <1>8 DEF settle, land, flag
<1> HIDE DEF s
<1>10. /\ seen \in Readable(p, pass[p].acct)
       /\ s.acct = pass[p].acct
       /\ \A k \in Keys : s.got[k] = IF k \in seen THEN srv[pass[p].acct][k] ELSE NoCopy
  BY <1>2, <1>7, <1>8
<1> HIDE DEF a
<1>11. SnapshotEffect(p, seen, s)
  BY <1>6, <1>8, <1>9, <1>10 DEF SnapshotEffect
<1> QED
  BY <1>3, <1>8, <1>11

\* One write of a first link: what it touches, and in which order.
Writes(me, s, l, f) ==
    /\ ~SplitWrites => s = me.settle /\ l = me.land /\ f = me.flag
    /\ l # {} => s = me.settle
    /\ f # {} => s = me.settle /\ l = me.land

ApplyEffect(p, s, l, f, rows, t) ==
    /\ Writes(pass[p], s, l, f) /\ row' = [row EXCEPT ![p] = rows]
    /\ \A k \in Keys :
           rows[k] = Applied(row[p][k], pass[p].view[k], pass[p].got[k], k \in s, k \in l, k \in f)
    /\ pass' = [pass EXCEPT ![p] = t] /\ Alike(t, pass[p]) /\ t.late = pass[p].late
    /\ \/ /\ s = pass[p].settle /\ l = pass[p].land /\ f = pass[p].flag
          /\ linkAfterFirstLink(link[p], pass[p].acct, TRUE, pass[p].givenAt) \in Link
          /\ link' = [link EXCEPT ![p] =
                 linkAfterFirstLink(link[p], pass[p].acct, TRUE, pass[p].givenAt)]
          /\ behind' = [behind EXCEPT ![p] = pass[p].late]
          /\ t.step = "upload" /\ t.queue = mergeSends(pass[p].view, pass[p].got)
          /\ t.land = {} /\ t.flag = {}
       \/ /\ s # pass[p].settle \/ l # pass[p].land \/ f # pass[p].flag
          /\ link' = link /\ behind' = behind
          /\ t.step = "apply" /\ t.queue = pass[p].queue /\ t.settle = pass[p].settle \ s
          /\ t.land = pass[p].land \ l /\ t.flag = pass[p].flag \ f

LEMMA ApplyFacts ==
    ASSUME Types, NEW p \in Phones, ApplyFirstLink(p)
    PROVE  \E s \in SUBSET pass[p].settle, l \in SUBSET pass[p].land, f \in SUBSET pass[p].flag,
              rows \in [Keys -> Row], t \in Passes : ApplyEffect(p, s, l, f, rows, t)
<1> DEFINE me == pass[p]
<1>1. /\ me \in Passes /\ row[p] \in [Keys -> Row] /\ me.step = "apply" /\ me.acct \in Accounts
      /\ me.got \in [Keys -> Copy] /\ me.view \in [Keys -> Row] /\ link[p] \in Link
  BY ReadPass DEF ApplyFirstLink, Passes, Types, PhoneTypes
<1>2. PICK s \in SUBSET me.settle, l \in SUBSET me.land, f \in SUBSET me.flag :
        LET whole == s = me.settle /\ l = me.land /\ f = me.flag IN
        /\ ~SplitWrites => whole
        /\ l # {} => s = me.settle
        /\ f # {} => s = me.settle /\ l = me.land
        /\ row' = [row EXCEPT ![p] = [k \in Keys |->
               Applied(@[k], me.view[k], me.got[k], k \in s, k \in l, k \in f)]]
        /\ \/ /\ whole
              /\ link' = [link EXCEPT ![p] = linkAfterFirstLink(@, me.acct, TRUE, me.givenAt)]
              /\ behind' = [behind EXCEPT ![p] = me.late]
              /\ pass' = [pass EXCEPT ![p].step = "upload",
                     ![p].queue = mergeSends(me.view, me.got),
                     ![p].settle = {}, ![p].land = {}, ![p].flag = {}]
           \/ /\ ~whole /\ s \cup l \cup f # {}
              /\ pass' = [pass EXCEPT ![p].settle = @ \ s, ![p].land = @ \ l, ![p].flag = @ \ f]
              /\ UNCHANGED <<link, behind>>
  BY DEF ApplyFirstLink
<1> DEFINE rows == [k \in Keys |-> Applied(row[p][k], me.view[k], me.got[k], k \in s, k \in l, k \in f)]
           whole == s = me.settle /\ l = me.land /\ f = me.flag
           queue == mergeSends(me.view, me.got)
           t1 == [me EXCEPT !.step = "upload", !.queue = queue, !.settle = {}, !.land = {}, !.flag = {}]
           t2 == [me EXCEPT !.settle = @ \ s, !.land = @ \ l, !.flag = @ \ f]
           after == linkAfterFirstLink(link[p], me.acct, TRUE, me.givenAt)
<1>3. /\ rows \in [Keys -> Row] /\ row' = [row EXCEPT ![p] = rows]
      /\ \A k \in Keys : rows[k] = Applied(row[p][k], me.view[k], me.got[k], k \in s, k \in l, k \in f)
  <2>1. \A k \in Keys : Applied(row[p][k], me.view[k], me.got[k], k \in s, k \in l, k \in f) \in Row
    <3> TAKE k \in Keys
    <3>1. /\ row[p][k] \in Row /\ me.view[k] \in Row /\ me.got[k] \in Copy
      BY <1>1
    <3>2. \A x, y, z \in BOOLEAN : Applied(row[p][k], me.view[k], me.got[k], x, y, z) \in Row
      BY <3>1, AppliedFacts
    <3>3. (k \in s) \in BOOLEAN /\ (k \in l) \in BOOLEAN /\ (k \in f) \in BOOLEAN
      OBVIOUS
    <3> HIDE DEF me
    <3> QED
      BY <3>2, <3>3, Zenon
  <2> QED
    BY <1>1, <1>2, <2>1
<1>4. Writes(me, s, l, f)
  BY <1>2 DEF Writes
<1>5. CASE /\ whole /\ link' = [link EXCEPT ![p] = after]
           /\ behind' = [behind EXCEPT ![p] = me.late] /\ pass' = [pass EXCEPT ![p] = t1]
  <2>1. queue \in SUBSET Keys
    BY DEF mergeSends, firstUploadRows
  <2>2. after \in Link
    BY <1>1 DEF linkAfterFirstLink, Link, Passes
  <2> HIDE DEF queue
  <2>3. /\ t1 \in Passes /\ t1.step = "upload" /\ Alike(t1, me) /\ t1.late = me.late
        /\ t1.queue = queue /\ t1.land = {} /\ t1.flag = {}
    BY <1>1, <2>1 DEF Passes, Steps, Alike
  <2>4. t1.queue = mergeSends(me.view, me.got)
    BY <2>3 DEF queue
  <2>5. /\ s = me.settle /\ l = me.land /\ f = me.flag
        /\ after \in Link /\ link' = [link EXCEPT ![p] = after]
    BY <1>5, <2>2
  <2>6. behind' = [behind EXCEPT ![p] = me.late] /\ pass' = [pass EXCEPT ![p] = t1]
    BY <1>5
  <2> HIDE DEF rows, t1, whole
  <2>7. ApplyEffect(p, s, l, f, rows, t1)
    BY <1>3, <1>4, <2>3, <2>4, <2>5, <2>6 DEF ApplyEffect
  <2> QED
    BY <1>3, <2>3, <2>7
<1>6. CASE ~whole /\ UNCHANGED <<link, behind>> /\ pass' = [pass EXCEPT ![p] = t2]
  <2>1. /\ t2 \in Passes /\ t2.step = "apply" /\ Alike(t2, me) /\ t2.late = me.late
        /\ t2.queue = me.queue /\ t2.settle = me.settle \ s /\ t2.land = me.land \ l
        /\ t2.flag = me.flag \ f
    <3> DEFINE ss == me.settle \ s
               ll == me.land \ l
               ff == me.flag \ f
               t3 == [me EXCEPT !.settle = ss, !.land = ll, !.flag = ff]
    <3>1. ss \in SUBSET Keys /\ ll \in SUBSET Keys /\ ff \in SUBSET Keys /\ t2 = t3
      BY <1>1 DEF Passes
    <3> HIDE DEF ss, ll, ff
    <3>2. /\ t3 \in Passes /\ t3.step = me.step /\ Alike(t3, me) /\ t3.late = me.late
          /\ t3.queue = me.queue /\ t3.settle = ss /\ t3.land = ll /\ t3.flag = ff
      BY <1>1, <3>1 DEF Passes, Alike
    <3> HIDE DEF t3
    <3> QED
      BY <1>1, <3>1, <3>2 DEF ss, ll, ff
  <2>2. /\ s # me.settle \/ l # me.land \/ f # me.flag
        /\ link' = link /\ behind' = behind /\ pass' = [pass EXCEPT ![p] = t2]
    BY <1>6
  <2> HIDE DEF rows, t2, whole
  <2>3. ApplyEffect(p, s, l, f, rows, t2)
    BY <1>3, <1>4, <2>1, <2>2 DEF ApplyEffect
  <2> QED
    BY <1>3, <2>1, <2>3
<1> QED
  BY <1>1, <1>2, <1>5, <1>6

LEMMA LinkFacts ==
    ASSUME Types, NEW p \in Phones, LinkWithoutRecords(p)
    PROVE  /\ linkAfterFirstLink(link[p], pass[p].acct, FALSE, 0) \in Link
           /\ link' = [link EXCEPT ![p] = linkAfterFirstLink(link[p], pass[p].acct, FALSE, 0)]
           /\ behind' = [behind EXCEPT ![p] = Keys] /\ pass' = [pass EXCEPT ![p] = NoPass]
<1>1. link[p] \in Link /\ pass[p].acct \in Accounts
  BY ReadPass DEF LinkWithoutRecords, Types, PhoneTypes
<1> QED
  BY <1>1 DEF LinkWithoutRecords, linkAfterFirstLink, Link

LEMMA SignOutFacts ==
    ASSUME Types, NEW p \in Phones, SignOut(p)
    PROVE  \E l \in Leavings :
              /\ leaving' = [leaving EXCEPT ![p] = l] /\ session' = [session EXCEPT ![p] = NoAccount]
              /\ \/ SplitSignOut /\ l.on /\ l.link = link[p] /\ l.behind = behind[p]
                 \/ l = leaving[p]
<1>1. leaving[p] \in Leavings /\ link[p] \in Link /\ behind[p] \in SUBSET Keys
  BY ReadPass
<1> DEFINE read == [on |-> TRUE, link |-> link[p], behind |-> behind[p]]
<1>2. read \in Leavings /\ read.on /\ read.link = link[p] /\ read.behind = behind[p]
  BY <1>1 DEF Leavings
<1>3. /\ session' = [session EXCEPT ![p] = NoAccount]
      /\ \/ SplitSignOut /\ leaving' = [leaving EXCEPT ![p] = read]
         \/ leaving' = [leaving EXCEPT ![p] = leaving[p]]
  BY DEF SignOut
<1> HIDE DEF read
<1> QED
  BY <1>1, <1>2, <1>3

LEMMA SaveFacts ==
    ASSUME Types, NEW p \in Phones, SaveSignOut(p)
    PROVE  /\ leaving[p].on /\ leaving[p].link \in Link /\ leaving[p].behind \in SUBSET Keys
           /\ link' = [link EXCEPT ![p] = leaving[p].link]
           /\ behind' = [behind EXCEPT ![p] = leaving[p].behind]
           /\ leaving' = [leaving EXCEPT ![p] = NotLeaving]
BY ReadPass DEF SaveSignOut, Leavings

LEMMA GiveFacts ==
    ASSUME Types, NEW a \in Accounts, GiveConsent(a)
    PROVE  /\ instant' = instant + 1
           /\ \E c \in Consents : /\ consent' = [consent EXCEPT ![a] = c]
                                 /\ c.given /\ c.givenAt = instant + 1
                                 /\ c.withdrawnAt = consent[a].withdrawnAt
<1>1. consent[a] \in Consents /\ consent \in [Accounts -> Consents] /\ instant \in Nat
  BY DEF Types, AccountTypes
<1> DEFINE later == instant + 1
<1>a. later \in Nat
  BY <1>1
<1> HIDE DEF later
<1> DEFINE c == [consent[a] EXCEPT !.given = TRUE, !.givenAt = later]
<1>2. c \in Consents /\ c.given /\ c.givenAt = later /\ c.withdrawnAt = consent[a].withdrawnAt
  BY <1>1, <1>a DEF Consents
<1>3. consent' = [consent EXCEPT ![a] = c] /\ instant' = instant + 1
  BY <1>1 DEF GiveConsent, later
<1> HIDE DEF c
<1> QED
  BY <1>2, <1>3 DEF later

LEMMA WithdrawFacts ==
    ASSUME Types, NEW a \in Accounts, WithdrawConsent(a)
    PROVE  /\ instant' = instant + 1
           /\ \E c \in Consents : /\ consent' = [consent EXCEPT ![a] = c]
                                 /\ ~c.given /\ c.withdrawnAt = instant + 1
                                 /\ c.givenAt = consent[a].givenAt
<1>1. consent[a] \in Consents /\ consent \in [Accounts -> Consents] /\ instant \in Nat
  BY DEF Types, AccountTypes
<1> DEFINE later == instant + 1
<1>a. later \in Nat
  BY <1>1
<1> HIDE DEF later
<1> DEFINE c == [consent[a] EXCEPT !.given = FALSE, !.withdrawnAt = later]
<1>2. c \in Consents /\ ~c.given /\ c.withdrawnAt = later /\ c.givenAt = consent[a].givenAt
  BY <1>1, <1>a DEF Consents
<1>3. consent' = [consent EXCEPT ![a] = c] /\ instant' = instant + 1
  BY <1>1 DEF WithdrawConsent, later
<1> HIDE DEF c
<1> QED
  BY <1>2, <1>3 DEF later

-----------------------------------------------------------------------------
(* The types.                                                                *)

LEMMA TypesInit == Init => Types
<1> SUFFICES ASSUME Init PROVE Types
  OBVIOUS
<1>1. /\ row \in [Phones -> [Keys -> Row]] /\ session \in [Phones -> Accounts \cup {NoAccount}]
      /\ leaving \in [Phones -> Leavings] /\ link \in [Phones -> Link]
      /\ behind \in [Phones -> SUBSET Keys] /\ pass \in [Phones -> Passes]
  BY NoPassFacts DEF Init
<1>2. \A p \in Phones : pass[p].step = "idle"
  BY NoPassFacts DEF Init
<1>3. AccountTypes
  BY NoPassFacts DEF Init, AccountTypes
<1> QED
  BY <1>1, <1>2, <1>3 DEF Types, PhoneTypes

\* Replacing the pass of one phone, or the rows, keeps the phones' types.
LEMMA PassTypes ==
    ASSUME Types, NEW p \in Phones, NEW s \in Passes, s.step # "idle" => s.acct \in Accounts,
           pass' = [pass EXCEPT ![p] = s]
    PROVE  /\ pass' \in [Phones -> Passes]
           /\ \A q \in Phones : pass'[q].step # "idle" => pass'[q].acct \in Accounts
BY DEF Types, PhoneTypes

LEMMA TypesStep == Types /\ [Next]_vars => Types'
<1> SUFFICES ASSUME Types, [Next]_vars PROVE Types'
  OBVIOUS
<1> USE DEF phone, account
<1>1. \A p \in Phones : pass[p].step # "idle" => pass[p].acct \in Accounts
  BY DEF Types, PhoneTypes
<1>2. ASSUME NEW p \in Phones, NEW k \in Keys, Edit(p, k) \/ Delete(p, k) PROVE Types'
  <2>1. PICK st \in States : Write(p, k, st)
    BY <1>2, EditOrDelete
  <2>2. row' \in [Phones -> [Keys -> Row]]
    BY <2>1, WriteFacts DEF Types, PhoneTypes
  <2> QED
    BY <2>1, <2>2 DEF Write, Types, PhoneTypes, AccountTypes
<1>3. ASSUME NEW p \in Phones, NEW k \in Keys, Age(p, k) PROVE Types'
  <2>1. \E rows \in [Keys -> Row] : row' = [row EXCEPT ![p] = rows]
    BY <1>3, AgeFacts
  <2> QED
    BY <1>3, <2>1 DEF Age, Types, PhoneTypes, AccountTypes
<1>4. ASSUME NEW p \in Phones, NEW a \in Accounts, SignIn(p, a) PROVE Types'
  BY <1>4 DEF SignIn, Types, PhoneTypes, AccountTypes
<1>5. ASSUME NEW p \in Phones, NEW a \in Accounts, StartPass(p, a) PROVE Types'
  <2>1. link' \in [Phones -> Link]
    BY <1>5, StartFacts DEF Types, PhoneTypes
  <2>2. \/ UNCHANGED pass
        \/ \E s \in Passes : pass' = [pass EXCEPT ![p] = s] /\ s.acct = a
    BY <1>5, StartFacts
  <2>3. /\ pass' \in [Phones -> Passes]
        /\ \A q \in Phones : pass'[q].step # "idle" => pass'[q].acct \in Accounts
    BY <2>2, PassTypes DEF Types, PhoneTypes
  <2> QED
    BY <1>5, <2>1, <2>3 DEF StartPass, Types, PhoneTypes, AccountTypes
<1>6. ASSUME NEW p \in Phones, LinkWithoutRecords(p) PROVE Types'
  <2>1. link' \in [Phones -> Link] /\ behind' \in [Phones -> SUBSET Keys]
    <3>1. link \in [Phones -> Link] /\ behind \in [Phones -> SUBSET Keys]
      BY DEF Types, PhoneTypes
    <3>2. link' \in [Phones -> Link]
      BY <1>6, <3>1, LinkFacts
    <3>3. behind' \in [Phones -> SUBSET Keys]
      BY <1>6, <3>1, LinkFacts
    <3> QED
      BY <3>2, <3>3
  <2>2. pass' = [pass EXCEPT ![p] = NoPass]
    BY <1>6, LinkFacts
  <2> QED
    BY <1>6, <2>1, <2>2, PassTypes, NoPassFacts DEF LinkWithoutRecords, Types, PhoneTypes, AccountTypes
<1>7. ASSUME NEW p \in Phones, EndPass(p) PROVE Types'
  BY <1>7, PassTypes, NoPassFacts DEF EndPass, Types, PhoneTypes, AccountTypes
<1>8. ASSUME NEW p \in Phones, StoreBatch(p) PROVE Types'
  <2> DEFINE a == pass[p].acct
  <2>1. PICK batch \in SUBSET pass[p].queue, copies \in [Keys -> Copy] :
          /\ srv' = [srv EXCEPT ![a] = copies]
          /\ received' = [received EXCEPT ![a] = @ \cup Sent(pass[p].view, batch)]
          /\ Stored(p, batch)
    BY <1>8, StoreFacts
  <2>2. a \in Accounts /\ behind' \in [Phones -> SUBSET Keys] /\ leaving' \in [Phones -> Leavings]
        /\ pass' \in [Phones -> Passes] /\ pass[p].step = "upload"
    BY <1>8, StoreFacts
  <2>3. \A q \in Phones : pass'[q].step # "idle" => pass'[q].acct \in Accounts
    <3>1. pass'[p].acct = a
      BY <2>1 DEF Stored, Alike
    <3>2. \A q \in Phones \ {p} : pass'[q].step = "idle" \/ (pass'[q].step = pass[q].step /\ pass'[q].acct = pass[q].acct)
      BY <2>1 DEF Stored, Alike
    <3>3. \A q \in Phones : pass[q].step # "idle" => pass[q].acct \in Accounts
      BY DEF Types, PhoneTypes
    <3> QED
      BY <2>2, <3>1, <3>2, <3>3
  <2>4. Sent(pass[p].view, batch) \in SUBSET Nat
    <3>1. pass[p].view \in [Keys -> Row] /\ batch \subseteq Keys
      BY ReadPass DEF Passes
    <3> QED
      BY <3>1 DEF Sent, Row
  <2>5. srv' \in [Accounts -> [Keys -> Copy]] /\ received' \in [Accounts -> SUBSET Nat]
    BY <2>1, <2>2, <2>4 DEF Types, AccountTypes
  <2> QED
    BY <1>8, <2>2, <2>3, <2>5 DEF StoreBatch, Types, PhoneTypes, AccountTypes
<1>9. ASSUME NEW p \in Phones, ConfirmBatch(p) PROVE Types'
  <2>1. pass[p].step # "idle"
    BY <1>9 DEF ConfirmBatch
  <2>2. PICK rows \in [Keys -> Row], s \in Passes :
          row' = [row EXCEPT ![p] = rows] /\ pass' = [pass EXCEPT ![p] = s] /\ s.acct = pass[p].acct
    BY <1>9, ConfirmFacts DEF ConfirmEffect, Alike
  <2> QED
    BY <1>1, <1>9, <2>1, <2>2, PassTypes DEF ConfirmBatch, Types, PhoneTypes, AccountTypes
<1>10. ASSUME NEW p \in Phones, UploadDone(p) PROVE Types'
  <2>1. pass[p].step # "idle"
    BY <1>10 DEF UploadDone
  <2>2. \E s \in Passes : pass' = [pass EXCEPT ![p] = s] /\ (s.step # "idle" => s.acct = pass[p].acct)
    BY <1>10, UploadDoneFacts, NoPassFacts
  <2> QED
    BY <1>1, <1>10, <2>1, <2>2, PassTypes DEF UploadDone, Types, PhoneTypes, AccountTypes
<1>11. ASSUME NEW p \in Phones, Pull(p) PROVE Types'
  <2>1. pass[p].step # "idle"
    BY <1>11 DEF Pull
  <2>2. \E s \in Passes : pass' = [pass EXCEPT ![p] = s] /\ s.acct = pass[p].acct
    BY <1>11, PullFacts DEF PullEffect
  <2> QED
    BY <1>1, <1>11, <2>1, <2>2, PassTypes DEF Pull, Types, PhoneTypes, AccountTypes
<1>12. ASSUME NEW p \in Phones, LandPulled(p) PROVE Types'
  <2>1. pass[p].step # "idle" /\ pass[p] \in Passes
    BY <1>12, ReadPass DEF LandPulled
  <2>2. PICK now \in SUBSET pass[p].land, rows \in [Keys -> Row], s \in Passes : LandEffect(p, now, rows, s)
    BY <1>12, LandFacts
  <2>3. /\ row' = [row EXCEPT ![p] = rows] /\ pass' = [pass EXCEPT ![p] = s]
        /\ s.step # "idle" => s.acct = pass[p].acct
    BY <2>2, NoPassFacts DEF LandEffect, Alike
  <2>4. behind' \in [Phones -> SUBSET Keys]
    <3>1. pass[p].late \in SUBSET Keys /\ behind \in [Phones -> SUBSET Keys]
      BY <2>1 DEF Passes, Types, PhoneTypes
    <3> QED
      BY <2>2, <3>1 DEF LandEffect
  <2> QED
    BY <1>1, <1>12, <2>1, <2>3, <2>4, PassTypes DEF LandPulled, Types, PhoneTypes, AccountTypes
<1>13. ASSUME NEW p \in Phones, Snapshot(p) PROVE Types'
  <2>1. pass[p].step # "idle"
    BY <1>13 DEF Snapshot
  <2>2. \E s \in Passes : pass' = [pass EXCEPT ![p] = s] /\ s.acct = pass[p].acct
    BY <1>13, SnapshotFacts DEF SnapshotEffect
  <2> QED
    BY <1>1, <1>13, <2>1, <2>2, PassTypes DEF Snapshot, Types, PhoneTypes, AccountTypes
<1>14. ASSUME NEW p \in Phones, ApplyFirstLink(p) PROVE Types'
  <2>1. pass[p].step # "idle" /\ pass[p] \in Passes
    BY <1>14, ReadPass DEF ApplyFirstLink
  <2>2. PICK s \in SUBSET pass[p].settle, l \in SUBSET pass[p].land, f \in SUBSET pass[p].flag,
             rows \in [Keys -> Row], t \in Passes : ApplyEffect(p, s, l, f, rows, t)
    BY <1>14, ApplyFacts
  <2>3. behind' \in [Phones -> SUBSET Keys] /\ link' \in [Phones -> Link]
    <3>1. pass[p].late \in SUBSET Keys
      BY <2>1 DEF Passes
    <3>2. behind \in [Phones -> SUBSET Keys] /\ link \in [Phones -> Link]
      BY DEF Types, PhoneTypes
    <3>3. \/ behind' = [behind EXCEPT ![p] = pass[p].late] \/ behind' = behind
      BY <2>2 DEF ApplyEffect
    <3>4. \/ link' = link \/ \E after \in Link : link' = [link EXCEPT ![p] = after]
      BY <2>2 DEF ApplyEffect
    <3> QED
      BY <3>1, <3>2, <3>3, <3>4
  <2>4. row' = [row EXCEPT ![p] = rows] /\ pass' = [pass EXCEPT ![p] = t] /\ t.acct = pass[p].acct
    BY <2>2 DEF ApplyEffect, Alike
  <2> QED
    BY <1>1, <1>14, <2>1, <2>3, <2>4, PassTypes DEF ApplyFirstLink, Types, PhoneTypes, AccountTypes
<1>15. ASSUME NEW p \in Phones, SignOut(p) PROVE Types'
  <2>1. leaving' \in [Phones -> Leavings] /\ session' \in [Phones -> Accounts \cup {NoAccount}]
    <3>1. leaving \in [Phones -> Leavings] /\ session \in [Phones -> Accounts \cup {NoAccount}]
      BY DEF Types, PhoneTypes
    <3>2. leaving' \in [Phones -> Leavings]
      BY <1>15, <3>1, SignOutFacts
    <3>3. session' \in [Phones -> Accounts \cup {NoAccount}]
      BY <1>15, <3>1, SignOutFacts
    <3> QED
      BY <3>2, <3>3
  <2> QED
    BY <1>15, <2>1 DEF SignOut, Types, PhoneTypes, AccountTypes
<1>16. ASSUME NEW p \in Phones, SaveSignOut(p) PROVE Types'
  <2>1. /\ leaving' \in [Phones -> Leavings] /\ link' \in [Phones -> Link]
        /\ behind' \in [Phones -> SUBSET Keys]
    <3>1. /\ leaving \in [Phones -> Leavings] /\ link \in [Phones -> Link]
          /\ behind \in [Phones -> SUBSET Keys]
      BY DEF Types, PhoneTypes
    <3>2. leaving' \in [Phones -> Leavings]
      BY <1>16, <3>1, SaveFacts, NoPassFacts
    <3>3. link' \in [Phones -> Link]
      BY <1>16, <3>1, SaveFacts
    <3>4. behind' \in [Phones -> SUBSET Keys]
      BY <1>16, <3>1, SaveFacts
    <3> QED
      BY <3>2, <3>3, <3>4
  <2> QED
    BY <1>16, <2>1 DEF SaveSignOut, Types, PhoneTypes, AccountTypes
<1>17. ASSUME NEW a \in Accounts, GiveConsent(a) PROVE Types'
  <2>1. consent' \in [Accounts -> Consents] /\ instant' \in Nat
    BY <1>17, GiveFacts DEF Types, AccountTypes
  <2> QED
    BY <1>17, <2>1 DEF GiveConsent, Types, PhoneTypes, AccountTypes
<1>18. ASSUME NEW a \in Accounts, WithdrawConsent(a) PROVE Types'
  <2>1. consent' \in [Accounts -> Consents] /\ instant' \in Nat
    BY <1>18, WithdrawFacts DEF Types, AccountTypes
  <2>2. srv' \in [Accounts -> [Keys -> Copy]]
    BY <1>18, NoPassFacts DEF WithdrawConsent, Types, AccountTypes
  <2> QED
    BY <1>18, <2>1, <2>2 DEF WithdrawConsent, Types, PhoneTypes, AccountTypes
<1>19. CASE UNCHANGED vars
  BY <1>19 DEF vars, Types, PhoneTypes, AccountTypes
<1> QED
  BY <1>2, <1>3, <1>4, <1>5, <1>6, <1>7, <1>8, <1>9, <1>10, <1>11, <1>12, <1>13, <1>14, <1>15,
     <1>16, <1>17, <1>18, <1>19 DEF Next, PassStep

-----------------------------------------------------------------------------
(* Versions: none is from the future, and what waits, or is there, has one.  *)

KnownRow(own, v) == own.ver <= v /\ (own.pending \/ Present(own) => own.ver >= 1)
KnownCopy(copy, v) == copy.ver <= v /\ (Present(copy) => copy.ver >= 1)

\* What a pass is going to send or to land is there; a row a first link has
\* read does not vanish before it is written.
KnownPass(rows, me, v) ==
    \A k \in Keys :
        /\ KnownRow(rows[k], v) /\ KnownRow(me.view[k], v) /\ KnownCopy(me.got[k], v)
        /\ k \in me.queue => me.view[k].ver >= 1
        /\ k \in me.land => Present(me.got[k])
        /\ k \in me.flag => me.view[k].ver >= 1
        /\ me.step \in {"snapshot", "apply"} /\ me.view[k].ver >= 1 => rows[k].ver >= 1

PhonesKnown == \A p \in Phones : KnownPass(row[p], pass[p], version)
AccountKnown ==
    \A a \in Accounts : /\ \A k \in Keys : KnownCopy(srv[a][k], version)
                        /\ received[a] \subseteq 1 .. version
Known == PhonesKnown /\ AccountKnown

LEMMA KnownInit == Init => Known
<1> SUFFICES ASSUME Init PROVE Known
  OBVIOUS
<1>1. /\ \A k \in Keys : NoPass.view[k] = NoRow /\ NoPass.got[k] = NoCopy
      /\ NoPass.queue = {} /\ NoPass.land = {} /\ NoPass.flag = {} /\ NoPass.step = "idle"
  BY DEF NoPass
<1>2. /\ NoRow.ver = 0 /\ ~NoRow.pending /\ ~Present(NoRow)
      /\ NoCopy.ver = 0 /\ ~Present(NoCopy)
  BY DEF NoRow, NoCopy, Present
<1>3. \A k \in Keys : KnownRow(NoRow, 0) /\ KnownCopy(NoCopy, 0)
  BY <1>2 DEF KnownRow, KnownCopy
<1>4. KnownPass([k \in Keys |-> NoRow], NoPass, 0)
  BY <1>1, <1>3 DEF KnownPass
<1>5. PhonesKnown
  <2>1. \A p \in Phones : row[p] = [k \in Keys |-> NoRow] /\ pass[p] = NoPass /\ version = 0
    BY DEF Init
  <2> QED
    BY <1>4, <2>1 DEF PhonesKnown
<1>6. AccountKnown
  BY <1>3 DEF Init, AccountKnown
<1> QED
  BY <1>5, <1>6 DEF Known

\* Time only adds versions.
LEMMA KnownLater ==
    ASSUME NEW rows \in [Keys -> Row], NEW me \in Passes, NEW v \in Nat, NEW w \in Nat, v <= w,
           KnownPass(rows, me, v)
    PROVE  KnownPass(rows, me, w)
<1>1. me.view \in [Keys -> Row] /\ me.got \in [Keys -> Copy]
  BY DEF Passes
<1>2. \A k \in Keys : rows[k].ver \in Nat /\ me.view[k].ver \in Nat /\ me.got[k].ver \in Nat
  BY <1>1 DEF Row, Copy
<1> QED
  BY <1>2 DEF KnownPass, KnownRow, KnownCopy

\* A pass that ends leaves nothing to send.
LEMMA KnownEnd ==
    ASSUME NEW rows \in [Keys -> Row], NEW me \in Passes, NEW v \in Nat, KnownPass(rows, me, v)
    PROVE  KnownPass(rows, NoPass, v)
<1>1. /\ \A k \in Keys : NoPass.view[k] = NoRow /\ NoPass.got[k] = NoCopy
      /\ NoPass.queue = {} /\ NoPass.land = {} /\ NoPass.flag = {} /\ NoPass.step = "idle"
  BY DEF NoPass
<1>2. /\ NoRow.ver = 0 /\ ~NoRow.pending /\ ~Present(NoRow)
      /\ NoCopy.ver = 0 /\ ~Present(NoCopy)
  BY DEF NoRow, NoCopy, Present
<1> QED
  BY <1>1, <1>2 DEF KnownPass, KnownRow, KnownCopy

\* What a landing and a first link's writes make of a row.
LEMMA KnownWrites ==
    ASSUME NEW own \in Row, NEW read \in Row, NEW copy \in Copy, NEW v \in Nat,
           NEW settles \in BOOLEAN, NEW lands \in BOOLEAN, NEW flags \in BOOLEAN,
           KnownRow(own, v), KnownCopy(copy, v), lands => Present(copy), flags => own.ver >= 1
    PROVE  LET new == Applied(own, read, copy, settles, lands, flags) IN
           /\ KnownRow(new, v) /\ (own.ver >= 1 => new.ver >= 1)
           /\ lands => KnownRow(landed(own, copy), v)
<1>1. \A r \in Row : KnownRow(r, v) /\ lands => KnownRow(landed(r, copy), v) /\ landed(r, copy).ver >= 1
  BY DEF KnownRow, KnownCopy, landed, Row, Copy, Present
<1>2. /\ settled(own, read) \in Row /\ KnownRow(settled(own, read), v)
      /\ settled(own, read).ver = own.ver
  BY DEF settled, KnownRow, Row, Present
<1> DEFINE a == settled(own, read)
           b == IF lands THEN landed(a, copy) ELSE a
<1>3. b \in Row /\ KnownRow(b, v) /\ (own.ver >= 1 => b.ver >= 1) /\ (flags => b.ver >= 1)
  <2>1. \A r \in Row : landed(r, copy) \in Row
    BY DEF landed, Row, Copy, States
  <2> QED
    BY <1>1, <1>2, <2>1
<1> HIDE DEF a, b
<1>4. \A r \in Row : r.ver >= 1 /\ KnownRow(r, v) =>
          KnownRow([r EXCEPT !.pending = TRUE], v) /\ [r EXCEPT !.pending = TRUE].ver = r.ver
  BY DEF KnownRow, Row, Present
<1>5. Applied(own, read, copy, settles, lands, flags) =
         LET c == IF settles THEN a ELSE own
             d == IF lands THEN landed(c, copy) ELSE c
         IN  IF flags THEN [d EXCEPT !.pending = TRUE] ELSE d
  BY DEF Applied, a
<1>6. CASE settles
  BY <1>1, <1>3, <1>4, <1>5, <1>6 DEF b
<1>7. CASE ~settles
  <2> DEFINE d == IF lands THEN landed(own, copy) ELSE own
  <2>1. d \in Row /\ KnownRow(d, v) /\ (own.ver >= 1 => d.ver >= 1) /\ (flags => d.ver >= 1)
    <3>1. \A r \in Row : landed(r, copy) \in Row
      BY DEF landed, Row, Copy, States
    <3> QED
      BY <1>1, <3>1
  <2> HIDE DEF d
  <2> QED
    BY <1>1, <1>4, <1>5, <1>7, <2>1 DEF d
<1> QED
  BY <1>6, <1>7

\* A step that changes the rows or the pass of one phone and no version.
LEMMA KnownPhone ==
    ASSUME Types, Known, NEW p \in Phones, NEW rows \in [Keys -> Row], NEW s \in Passes,
           row' = [row EXCEPT ![p] = rows], pass' = [pass EXCEPT ![p] = s],
           KnownPass(rows, s, version), version' = version
    PROVE  PhonesKnown'
<1>1. \A q \in Phones : /\ row'[q] = IF q = p THEN rows ELSE row[q]
                        /\ pass'[q] = IF q = p THEN s ELSE pass[q]
  BY DEF Types, PhoneTypes
<1> QED
  BY <1>1 DEF Known, PhonesKnown

LEMMA KnownStep == Types /\ Known /\ [Next]_vars => Known'
<1> SUFFICES ASSUME Types, Known, [Next]_vars PROVE Known'
  OBVIOUS
<1> USE DEF phone, account
<1>a. /\ version \in Nat /\ row \in [Phones -> [Keys -> Row]] /\ pass \in [Phones -> Passes]
      /\ srv \in [Accounts -> [Keys -> Copy]]
  BY DEF Types, PhoneTypes, AccountTypes
<1>b. \A p \in Phones : KnownPass(row[p], pass[p], version)
  BY DEF Known, PhonesKnown
<1>c. \A p \in Phones : /\ row[p] \in [Keys -> Row] /\ pass[p] \in Passes
                        /\ pass[p].view \in [Keys -> Row] /\ pass[p].got \in [Keys -> Copy]
                        /\ row = [row EXCEPT ![p] = row[p]]
  BY ReadPass, <1>a
<1>d. ASSUME UNCHANGED <<srv, received, version>> PROVE AccountKnown'
  BY <1>d DEF Known, AccountKnown
<1>e. ASSUME UNCHANGED <<row, pass, version>> PROVE PhonesKnown'
  BY <1>e DEF Known, PhonesKnown
<1>2. ASSUME NEW p \in Phones, NEW k \in Keys, Edit(p, k) \/ Delete(p, k) PROVE Known'
  <2>1. PICK st \in States : Write(p, k, st)
    BY <1>2, EditOrDelete
  <2>2. PICK rows \in [Keys -> Row] :
          /\ row' = [row EXCEPT ![p] = rows] /\ version' = version + 1
          /\ rows[k].ver = version + 1 /\ \A j \in Keys \ {k} : rows[j] = row[p][j]
    BY <2>1, WriteFacts
  <2>3. UNCHANGED <<pass, srv, received>>
    BY <2>1 DEF Write
  <2>4. \A q \in Phones : KnownPass(row[q], pass[q], version')
    BY <1>a, <1>b, <1>c, <2>2, KnownLater
  <2>5. KnownPass(rows, pass[p], version')
    <3>1. KnownPass(row[p], pass[p], version')
      BY <2>4
    <3>2. KnownRow(rows[k], version') /\ rows[k].ver >= 1
      BY <1>a, <2>2 DEF KnownRow
    <3> QED
      BY <2>2, <3>1, <3>2 DEF KnownPass
  <2>6. PhonesKnown'
    BY <1>a, <2>2, <2>3, <2>4, <2>5 DEF PhonesKnown
  <2>7. AccountKnown'
    <3>1. \A a \in Accounts, j \in Keys : srv[a][j].ver \in Nat
      BY <1>a DEF Copy
    <3> QED
      BY <1>a, <2>2, <2>3, <3>1 DEF Known, AccountKnown, KnownCopy
  <2> QED
    BY <2>6, <2>7 DEF Known
<1>3. ASSUME NEW p \in Phones, NEW k \in Keys, Age(p, k) PROVE Known'
  <2>1. PICK rows \in [Keys -> Row] :
          /\ row' = [row EXCEPT ![p] = rows] /\ row[p][k].st = "gone"
          /\ rows[k].ver = row[p][k].ver /\ rows[k].pending = row[p][k].pending
          /\ rows[k].st = "old" /\ \A j \in Keys \ {k} : rows[j] = row[p][j]
    BY <1>3, AgeFacts
  <2>2. KnownPass(rows, pass[p], version)
    BY <1>b, <2>1 DEF KnownPass, KnownRow, Present
  <2>3. UNCHANGED <<pass, srv, received, version>>
    BY <1>3 DEF Age
  <2>4. pass' = [pass EXCEPT ![p] = pass[p]]
    BY <1>a, <2>3
  <2> QED
    BY <1>c, <1>d, <2>1, <2>2, <2>3, <2>4, KnownPhone DEF Known
<1>4. ASSUME NEW p \in Phones, NEW a \in Accounts, SignIn(p, a) PROVE Known'
  BY <1>4, <1>d, <1>e DEF SignIn, Known
<1>5. ASSUME NEW p \in Phones, NEW a \in Accounts, StartPass(p, a) PROVE Known'
  <2>1. UNCHANGED <<row, srv, received, version>>
    BY <1>5 DEF StartPass
  <2>2. CASE UNCHANGED pass
    BY <1>d, <1>e, <2>1, <2>2 DEF Known
  <2>3. CASE pass' # pass
    <3>1. PICK s \in Passes :
            /\ pass' = [pass EXCEPT ![p] = s]
            /\ s.view \in {NoPass.view, row[p]} /\ s.queue \in {{}, pendingUpload(row[p])}
            /\ s.queue # {} => s.view = row[p]
            /\ Fresh(s)
      BY <1>5, <2>3, StartFacts
    <3>2. KnownPass(row[p], s, version)
      <4>1. /\ NoRow.ver = 0 /\ ~NoRow.pending /\ ~Present(NoRow)
            /\ NoCopy.ver = 0 /\ ~Present(NoCopy) /\ \A k \in Keys : NoPass.view[k] = NoRow /\ NoPass.got[k] = NoCopy
        BY DEF NoRow, NoCopy, Present, NoPass
      <4>2. \A k \in pendingUpload(row[p]) : row[p][k].pending
        BY DEF pendingUpload
      <4> QED
        BY <1>a, <1>b, <3>1, <4>1, <4>2 DEF KnownPass, KnownRow, KnownCopy, Fresh
    <3> QED
      BY <1>c, <1>d, <2>1, <3>1, <3>2, KnownPhone DEF Known
  <2> QED
    BY <2>2, <2>3
<1>6. ASSUME NEW p \in Phones, LinkWithoutRecords(p) \/ EndPass(p) PROVE Known'
  <2>1. pass' = [pass EXCEPT ![p] = NoPass] /\ UNCHANGED <<row, srv, received, version>>
    BY <1>6, LinkFacts DEF LinkWithoutRecords, EndPass
  <2>2. KnownPass(row[p], NoPass, version)
    BY <1>a, <1>b, <1>c, KnownEnd
  <2> QED
    BY <1>c, <1>d, <2>1, <2>2, KnownPhone, NoPassFacts DEF Known
<1>8. ASSUME NEW p \in Phones, StoreBatch(p) PROVE Known'
  <2> DEFINE a == pass[p].acct
  <2>1. PICK batch \in SUBSET pass[p].queue, copies \in [Keys -> Copy] :
          /\ srv' = [srv EXCEPT ![a] = copies]
          /\ \A k \in Keys : copies[k] = IF k \in batch THEN CopyOf(pass[p].view[k]) ELSE srv[a][k]
          /\ received' = [received EXCEPT ![a] = @ \cup Sent(pass[p].view, batch)]
          /\ Stored(p, batch)
    BY <1>8, StoreFacts
  <2>2. a \in Accounts /\ UNCHANGED <<row, version>> /\ batch \subseteq Keys
    BY <1>8, <1>c, StoreFacts DEF StoreBatch, Passes
  <2>3. \A k \in batch : pass[p].view[k].ver \in 1 .. version
    <3>1. \A k \in Keys : pass[p].view[k].ver \in Nat
      BY <1>c DEF Row
    <3> QED
      BY <1>a, <1>b, <2>2, <3>1 DEF KnownPass, KnownRow
  <2>4. PhonesKnown'
    <3> SUFFICES ASSUME NEW q \in Phones PROVE KnownPass(row[q], pass'[q], version)
      BY <2>2 DEF PhonesKnown
    <3>1. KnownPass(row[q], pass[q], version)
      BY <1>b
    <3>2. /\ pass'[q].view = pass[q].view /\ pass'[q].got = pass[q].got
          /\ pass'[q].land = pass[q].land /\ pass'[q].flag = pass[q].flag
          /\ pass'[q].queue \subseteq pass[q].queue
          /\ pass'[q].step \in {"confirm", pass[q].step}
      BY <2>1 DEF Stored, Alike
    <3> QED
      BY <3>1, <3>2 DEF KnownPass
  <2>5. \A k \in Keys : KnownCopy(copies[k], version)
    <3>1. \A k \in batch : KnownCopy(CopyOf(pass[p].view[k]), version)
      BY <1>a, <2>3 DEF KnownCopy, CopyOf
    <3> QED
      BY <2>1, <2>2, <3>1 DEF Known, AccountKnown
  <2>6. Sent(pass[p].view, batch) \subseteq 1 .. version
    BY <2>3 DEF Sent
  <2>7. \A b \in Accounts : /\ srv'[b] = IF b = a THEN copies ELSE srv[b]
                            /\ received'[b] = IF b = a THEN received[a] \cup Sent(pass[p].view, batch)
                                             ELSE received[b]
    BY <1>a, <2>1, <2>2 DEF Types, AccountTypes
  <2>8. AccountKnown'
    <3> SUFFICES ASSUME NEW b \in Accounts
                 PROVE  /\ \A k \in Keys : KnownCopy(srv'[b][k], version)
                        /\ received'[b] \subseteq 1 .. version
      BY <2>2 DEF AccountKnown
    <3> HIDE DEF a
    <3> QED
      BY <2>2, <2>5, <2>6, <2>7 DEF Known, AccountKnown
  <2> QED
    BY <2>4, <2>8 DEF Known
<1>9. ASSUME NEW p \in Phones, ConfirmBatch(p) PROVE Known'
  <2>1. UNCHANGED <<srv, received, version>>
    BY <1>9 DEF ConfirmBatch
  <2>a. PICK cleared \in SUBSET pass[p].batch, rows \in [Keys -> Row], s \in Passes :
          ConfirmEffect(p, cleared, rows, s)
    BY <1>9, ConfirmFacts
  <2>2. /\ row' = [row EXCEPT ![p] = rows] /\ pass' = [pass EXCEPT ![p] = s]
        /\ \A k \in Keys : rows[k] = IF k \in cleared /\ row[p][k].ver = pass[p].view[k].ver
                                   THEN [row[p][k] EXCEPT !.pending = FALSE] ELSE row[p][k]
        /\ s.step \in {"upload", "confirm"} /\ s.view = pass[p].view /\ s.queue = pass[p].queue
        /\ s.got = pass[p].got /\ s.land = pass[p].land /\ s.flag = pass[p].flag
    BY <2>a DEF ConfirmEffect, Alike
  <2>3. \A k \in Keys : KnownRow(rows[k], version) /\ rows[k].ver = row[p][k].ver
    <3>1. \A k \in Keys : row[p][k] \in Row /\ KnownRow(row[p][k], version)
      BY <1>b, <1>c DEF KnownPass
    <3>2. \A r \in Row : KnownRow(r, version) =>
            /\ KnownRow([r EXCEPT !.pending = FALSE], version)
            /\ [r EXCEPT !.pending = FALSE].ver = r.ver
      BY DEF KnownRow, Row, Present
    <3> QED
      BY <2>2, <3>1, <3>2
  <2>4. KnownPass(rows, s, version)
    BY <1>b, <2>2, <2>3 DEF KnownPass
  <2> QED
    BY <1>d, <2>1, <2>2, <2>4, KnownPhone DEF Known
<1>10. ASSUME NEW p \in Phones, UploadDone(p) PROVE Known'
  <2>1. UNCHANGED <<row, srv, received, version>>
    BY <1>10 DEF UploadDone
  <2>2. CASE pass' = [pass EXCEPT ![p] = NoPass]
    <3>1. KnownPass(row[p], NoPass, version)
      BY <1>a, <1>b, <1>c, KnownEnd
    <3> QED
      BY <1>c, <1>d, <2>1, <2>2, <3>1, KnownPhone, NoPassFacts DEF Known
  <2>3. CASE pass' # [pass EXCEPT ![p] = NoPass]
    <3>1. PICK s \in Passes :
            /\ pass' = [pass EXCEPT ![p] = s] /\ s.step = "pull" /\ s.view = pass[p].view
            /\ s.queue = pass[p].queue /\ s.got = pass[p].got
            /\ s.land = pass[p].land /\ s.flag = pass[p].flag
      BY <1>10, <2>3, UploadDoneFacts
    <3>2. KnownPass(row[p], s, version)
      BY <1>b, <3>1 DEF KnownPass
    <3> QED
      BY <1>c, <1>d, <2>1, <3>1, <3>2, KnownPhone DEF Known
  <2> QED
    BY <2>2, <2>3
<1>11. ASSUME NEW p \in Phones, Pull(p) PROVE Known'
  <2>1. UNCHANGED <<row, srv, received, version>> /\ pass[p].acct \in Accounts
    BY <1>11 DEF Pull, Types, PhoneTypes
  <2>a. PICK seen \in SUBSET Keys, again \in SUBSET (Keys \ behind[p]), s \in Passes :
          PullEffect(p, seen, again, s)
    BY <1>11, PullFacts
  <2>2. /\ pass' = [pass EXCEPT ![p] = s] /\ s.step = "land" /\ s.view = pass[p].view
        /\ s.got = srv[pass[p].acct] /\ s.queue = pass[p].queue /\ s.flag = pass[p].flag
    BY <2>a DEF PullEffect
  <2>3. \A k \in s.land : Present(s.got[k])
    BY <2>a DEF PullEffect, applyPulled
  <2>4. \A k \in Keys : KnownCopy(s.got[k], version)
    BY <2>1, <2>2 DEF Known, AccountKnown
  <2>5. KnownPass(row[p], s, version)
    BY <1>b, <2>2, <2>3, <2>4 DEF KnownPass
  <2> QED
    BY <1>c, <1>d, <2>1, <2>2, <2>5, KnownPhone DEF Known
<1>12. ASSUME NEW p \in Phones, LandPulled(p) PROVE Known'
  <2>1. UNCHANGED <<srv, received, version>>
    BY <1>12 DEF LandPulled
  <2>a. PICK now \in SUBSET pass[p].land, rows \in [Keys -> Row], s \in Passes : LandEffect(p, now, rows, s)
    BY <1>12, LandFacts
  <2>2. /\ row' = [row EXCEPT ![p] = rows] /\ pass' = [pass EXCEPT ![p] = s]
        /\ \A k \in Keys : rows[k] = IF k \in now THEN landed(row[p][k], pass[p].got[k]) ELSE row[p][k]
        /\ \/ s = NoPass
           \/ /\ s.step = "land" /\ s.view = pass[p].view /\ s.got = pass[p].got
              /\ s.queue = pass[p].queue /\ s.flag = pass[p].flag
              /\ s.land \subseteq pass[p].land
    BY <2>a DEF LandEffect, Alike
  <2>3. \A k \in Keys : KnownRow(rows[k], version) /\ (row[p][k].ver >= 1 => rows[k].ver >= 1)
    <3> TAKE k \in Keys
    <3>1. /\ row[p][k] \in Row /\ KnownRow(row[p][k], version) /\ pass[p].got[k] \in Copy
          /\ KnownCopy(pass[p].got[k], version) /\ (k \in now => Present(pass[p].got[k]))
      BY <1>b, <1>c DEF KnownPass
    <3>2. Present(pass[p].got[k]) => KnownRow(landed(row[p][k], pass[p].got[k]), version)
                                     /\ (row[p][k].ver >= 1 => landed(row[p][k], pass[p].got[k]).ver >= 1)
      BY <3>1 DEF KnownRow, KnownCopy, landed, Row, Copy, Present
    <3> QED
      BY <2>2, <3>1, <3>2
  <2>4. KnownPass(rows, pass[p], version)
    BY <1>b, <2>3 DEF KnownPass
  <2>5. KnownPass(rows, s, version)
    <3>1. CASE s = NoPass
      BY <1>a, <1>c, <2>4, <3>1, KnownEnd
    <3>2. CASE s # NoPass
      BY <2>2, <2>4, <3>2 DEF KnownPass
    <3> QED
      BY <3>1, <3>2
  <2> QED
    BY <1>d, <2>1, <2>2, <2>5, KnownPhone DEF Known
<1>13. ASSUME NEW p \in Phones, Snapshot(p) PROVE Known'
  <2>1. UNCHANGED <<row, srv, received, version>> /\ pass[p].acct \in Accounts /\ pass[p].step = "snapshot"
    BY <1>13 DEF Snapshot, Types, PhoneTypes
  <2>a. PICK seen \in SUBSET Keys, s \in Passes : SnapshotEffect(p, seen, s)
    BY <1>13, SnapshotFacts
  <2>2. /\ pass' = [pass EXCEPT ![p] = s] /\ s.step = "apply" /\ s.view = pass[p].view
        /\ s.queue = pass[p].queue
        /\ \A k \in Keys : s.got[k] = IF k \in seen THEN srv[pass[p].acct][k] ELSE NoCopy
        /\ s.land = mergeWrites(s.view, s.got) /\ s.flag = mergeSends(s.view, s.got)
    BY <2>a DEF SnapshotEffect
  <2>3. \A k \in Keys : KnownCopy(s.got[k], version)
    <3>1. KnownCopy(NoCopy, version)
      BY <1>a DEF KnownCopy, NoCopy, Present
    <3> QED
      BY <2>1, <2>2, <3>1 DEF Known, AccountKnown
  <2>4. /\ \A k \in s.land : Present(s.got[k])
        /\ \A k \in s.flag : Present(s.view[k])
    BY <2>2 DEF mergeWrites, mergeSends, firstUploadRows, AccountHolds, Present, Live
  <2>5. KnownPass(row[p], s, version)
    BY <1>b, <2>1, <2>2, <2>3, <2>4 DEF KnownPass, KnownRow
  <2> QED
    BY <1>c, <1>d, <2>1, <2>2, <2>5, KnownPhone DEF Known
<1>14. ASSUME NEW p \in Phones, ApplyFirstLink(p) PROVE Known'
  <2>1. UNCHANGED <<srv, received, version>> /\ pass[p].step = "apply"
    BY <1>14 DEF ApplyFirstLink
  <2>2. PICK s \in SUBSET pass[p].settle, l \in SUBSET pass[p].land, f \in SUBSET pass[p].flag,
             rows \in [Keys -> Row], t \in Passes : ApplyEffect(p, s, l, f, rows, t)
    BY <1>14, ApplyFacts
  <2>3. \A k \in Keys : KnownRow(rows[k], version) /\ (row[p][k].ver >= 1 => rows[k].ver >= 1)
    <3> TAKE k \in Keys
    <3>1. /\ row[p][k] \in Row /\ KnownRow(row[p][k], version) /\ pass[p].got[k] \in Copy
          /\ pass[p].view[k] \in Row
          /\ KnownCopy(pass[p].got[k], version) /\ (k \in l => Present(pass[p].got[k]))
          /\ (k \in f => row[p][k].ver >= 1)
      BY <1>b, <1>c, <2>1 DEF KnownPass
    <3>2. \A x, y, z \in BOOLEAN : (y => Present(pass[p].got[k])) /\ (z => row[p][k].ver >= 1) =>
            LET new == Applied(row[p][k], pass[p].view[k], pass[p].got[k], x, y, z)
            IN  KnownRow(new, version) /\ (row[p][k].ver >= 1 => new.ver >= 1)
      BY <1>a, <3>1, KnownWrites
    <3>3. (k \in s) \in BOOLEAN /\ (k \in l) \in BOOLEAN /\ (k \in f) \in BOOLEAN
      OBVIOUS
    <3>4. LET new == Applied(row[p][k], pass[p].view[k], pass[p].got[k], k \in s, k \in l, k \in f)
          IN  KnownRow(new, version) /\ (row[p][k].ver >= 1 => new.ver >= 1)
      BY <3>1, <3>2, <3>3, Zenon
    <3> QED
      BY <2>2, <3>4 DEF ApplyEffect
  <2>4. KnownPass(rows, pass[p], version)
    BY <1>b, <2>3 DEF KnownPass
  <2>5. \A k \in mergeSends(pass[p].view, pass[p].got) : pass[p].view[k].ver >= 1
    <3>1. \A k \in mergeSends(pass[p].view, pass[p].got) : k \in Keys /\ Present(pass[p].view[k])
      BY DEF mergeSends, firstUploadRows, Present
    <3> QED
      BY <1>b, <3>1 DEF KnownPass, KnownRow
  <2>6. /\ t.view = pass[p].view /\ t.got = pass[p].got /\ t.land \subseteq pass[p].land
        /\ t.flag \subseteq pass[p].flag /\ t.step \in {"upload", "apply"}
        /\ t.queue \in {pass[p].queue, mergeSends(pass[p].view, pass[p].got)}
        /\ row' = [row EXCEPT ![p] = rows] /\ pass' = [pass EXCEPT ![p] = t]
    BY <2>2 DEF ApplyEffect, Alike
  <2>7. KnownPass(rows, t, version)
    BY <2>1, <2>4, <2>5, <2>6 DEF KnownPass
  <2> QED
    BY <1>d, <2>1, <2>6, <2>7, KnownPhone DEF Known
<1>15. ASSUME NEW p \in Phones, SignOut(p) \/ SaveSignOut(p) PROVE Known'
  BY <1>15, <1>d, <1>e DEF SignOut, SaveSignOut, Known
<1>17. ASSUME NEW a \in Accounts, GiveConsent(a) PROVE Known'
  BY <1>17, <1>d, <1>e DEF GiveConsent, Known
<1>18. ASSUME NEW a \in Accounts, WithdrawConsent(a) PROVE Known'
  <2>1. UNCHANGED <<row, pass, received, version>>
    BY <1>18 DEF WithdrawConsent
  <2>2. KnownCopy(NoCopy, version)
    BY <1>a DEF KnownCopy, NoCopy, Present
  <2>3. \A b \in Accounts : srv'[b] = IF b = a THEN [k \in Keys |-> NoCopy] ELSE srv[b]
    BY <1>18, <1>a DEF WithdrawConsent
  <2>4. AccountKnown'
    BY <2>1, <2>2, <2>3 DEF Known, AccountKnown
  <2> QED
    BY <2>1, <2>4, <1>e DEF Known
<1>19. CASE UNCHANGED vars
  BY <1>19, <1>d, <1>e DEF vars, Known
<1> QED
  BY <1>2, <1>3, <1>4, <1>5, <1>6, <1>8, <1>9, <1>10, <1>11, <1>12, <1>13, <1>14, <1>15,
     <1>17, <1>18, <1>19 DEF Next, PassStep

\* The types of the phones' and the accounts' state; the account only holds
\* versions that some phone wrote.
THEOREM TypeCorrect == Spec => []TypeOK
<1>1. Types /\ Known => TypeOK
  <2> SUFFICES ASSUME Types, Known PROVE TypeOK
    OBVIOUS
  <2>1. \A p \in Phones :
        /\ pass[p].step \in Steps /\ pass[p].acct \in Accounts \cup {NoAccount}
        /\ pass[p].view \in [Keys -> Row] /\ pass[p].got \in [Keys -> Copy]
        /\ \A s \in {pass[p].queue, pass[p].batch, pass[p].late, pass[p].settle,
                     pass[p].land, pass[p].flag} : s \subseteq Keys
    BY ReadPass DEF Passes
  <2>2. received \in [Accounts -> SUBSET (1 .. version)]
    BY DEF Types, AccountTypes, Known, AccountKnown
  <2> QED
    BY <2>1, <2>2 DEF TypeOK, Types, PhoneTypes, AccountTypes, Leavings
<1> QED
  BY <1>1, TypesInit, TypesStep, KnownInit, KnownStep, PTL DEF Spec

-----------------------------------------------------------------------------
(* Edits.                                                                    *)

\* A batch is confirmed only after the account has stored it.
BatchReceived ==
    \A p \in Phones : pass[p].step = "confirm" =>
        \A k \in pass[p].batch : pass[p].view[k].ver \in received[pass[p].acct]

LEMMA BatchStep == Types /\ BatchReceived /\ [Next]_vars => BatchReceived'
<1> SUFFICES ASSUME Types, BatchReceived, [Next]_vars PROVE BatchReceived'
  OBVIOUS
<1> USE DEF phone, account
<1>a. /\ received \in [Accounts -> SUBSET Nat] /\ pass \in [Phones -> Passes]
      /\ \A p \in Phones : pass[p] \in Passes /\ (pass[p].step # "idle" => pass[p].acct \in Accounts)
  BY DEF Types, PhoneTypes, AccountTypes
<1>b. ASSUME UNCHANGED <<pass, received>> PROVE BatchReceived'
  BY <1>b DEF BatchReceived
<1>c. ASSUME NEW p \in Phones, NEW s \in Passes, pass' = [pass EXCEPT ![p] = s],
             s.step # "confirm", UNCHANGED received
      PROVE  BatchReceived'
  BY <1>a, <1>c DEF BatchReceived
<1>2. ASSUME NEW p \in Phones, NEW k \in Keys, Edit(p, k) \/ Delete(p, k) \/ Age(p, k)
      PROVE  BatchReceived'
  BY <1>2, <1>b DEF Edit, Delete, Age, Write
<1>4. ASSUME NEW p \in Phones, NEW a \in Accounts, SignIn(p, a) PROVE BatchReceived'
  BY <1>4, <1>b DEF SignIn
<1>5. ASSUME NEW p \in Phones, NEW a \in Accounts, StartPass(p, a) PROVE BatchReceived'
  <2>1. UNCHANGED received
    BY <1>5 DEF StartPass
  <2>2. \/ UNCHANGED pass
        \/ \E s \in Passes : pass' = [pass EXCEPT ![p] = s] /\ s.step # "confirm"
    BY <1>5, StartFacts
  <2> QED
    BY <1>b, <1>c, <2>1, <2>2
<1>6. ASSUME NEW p \in Phones, LinkWithoutRecords(p) \/ EndPass(p) PROVE BatchReceived'
  BY <1>6, <1>c, NoPassFacts DEF LinkWithoutRecords, EndPass
<1>8. ASSUME NEW p \in Phones, StoreBatch(p) PROVE BatchReceived'
  <2> DEFINE a == pass[p].acct
  <2>1. PICK batch \in SUBSET pass[p].queue, copies \in [Keys -> Copy] :
          /\ received' = [received EXCEPT ![a] = @ \cup Sent(pass[p].view, batch)]
          /\ Stored(p, batch)
    BY <1>8, StoreFacts
  <2>2. a \in Accounts
    BY <1>8, StoreFacts
  <2>3. \A b \in Accounts : received[b] \subseteq received'[b]
    BY <1>a, <2>1, <2>2
  <2>4. Sent(pass[p].view, batch) \subseteq received'[a]
    BY <1>a, <2>1, <2>2
  <2> SUFFICES ASSUME NEW q \in Phones, pass'[q].step = "confirm", NEW k \in pass'[q].batch
               PROVE  pass'[q].view[k].ver \in received'[pass'[q].acct]
    BY DEF BatchReceived
  <2>5. pass'[q].view = pass[q].view /\ pass'[q].acct = pass[q].acct
    BY <2>1 DEF Stored, Alike
  <2>6. CASE q = p
    BY <2>1, <2>4, <2>5, <2>6 DEF Stored, Sent
  <2>7. CASE q # p
    <3>1. pass[q].step = "confirm" /\ k \in pass[q].batch /\ pass[q].acct \in Accounts
      BY <1>a, <2>1, <2>7 DEF Stored
    <3> QED
      BY <2>3, <2>5, <3>1 DEF BatchReceived
  <2> QED
    BY <2>6, <2>7
<1>9. ASSUME NEW p \in Phones, ConfirmBatch(p) PROVE BatchReceived'
  <2>1. UNCHANGED received /\ pass[p].step = "confirm"
    BY <1>9 DEF ConfirmBatch
  <2>2. PICK cleared \in SUBSET pass[p].batch, rows \in [Keys -> Row], s \in Passes :
          ConfirmEffect(p, cleared, rows, s)
    BY <1>9, ConfirmFacts
  <2> QED
    BY <1>a, <2>1, <2>2 DEF ConfirmEffect, Alike, BatchReceived
<1>10. ASSUME NEW p \in Phones, UploadDone(p) PROVE BatchReceived'
  <2>1. \E s \in Passes : pass' = [pass EXCEPT ![p] = s] /\ s.step # "confirm"
    BY <1>10, UploadDoneFacts, NoPassFacts
  <2> QED
    BY <1>10, <1>c, <2>1 DEF UploadDone
<1>11. ASSUME NEW p \in Phones, Pull(p) PROVE BatchReceived'
  <2>1. \E s \in Passes : pass' = [pass EXCEPT ![p] = s] /\ s.step # "confirm"
    BY <1>11, PullFacts DEF PullEffect
  <2> QED
    BY <1>11, <1>c, <2>1 DEF Pull
<1>12. ASSUME NEW p \in Phones, LandPulled(p) PROVE BatchReceived'
  <2>1. PICK now \in SUBSET pass[p].land, rows \in [Keys -> Row], s \in Passes : LandEffect(p, now, rows, s)
    BY <1>12, LandFacts
  <2>2. pass' = [pass EXCEPT ![p] = s] /\ s.step # "confirm"
    BY <2>1, NoPassFacts DEF LandEffect
  <2> QED
    BY <1>12, <1>c, <2>2 DEF LandPulled
<1>13. ASSUME NEW p \in Phones, Snapshot(p) PROVE BatchReceived'
  <2>1. \E s \in Passes : pass' = [pass EXCEPT ![p] = s] /\ s.step # "confirm"
    BY <1>13, SnapshotFacts DEF SnapshotEffect
  <2> QED
    BY <1>13, <1>c, <2>1 DEF Snapshot
<1>14. ASSUME NEW p \in Phones, ApplyFirstLink(p) PROVE BatchReceived'
  <2>1. PICK s \in SUBSET pass[p].settle, l \in SUBSET pass[p].land, f \in SUBSET pass[p].flag,
             rows \in [Keys -> Row], t \in Passes : ApplyEffect(p, s, l, f, rows, t)
    BY <1>14, ApplyFacts
  <2>2. pass' = [pass EXCEPT ![p] = t] /\ t.step # "confirm"
    BY <2>1 DEF ApplyEffect
  <2> QED
    BY <1>14, <1>c, <2>2 DEF ApplyFirstLink
<1>15. ASSUME NEW p \in Phones, SignOut(p) \/ SaveSignOut(p) PROVE BatchReceived'
  BY <1>15, <1>b DEF SignOut, SaveSignOut
<1>17. ASSUME NEW a \in Accounts, GiveConsent(a) \/ WithdrawConsent(a) PROVE BatchReceived'
  BY <1>17, <1>b DEF GiveConsent, WithdrawConsent
<1>19. CASE UNCHANGED vars
  BY <1>19, <1>b DEF vars
<1> QED
  BY <1>2, <1>4, <1>5, <1>6, <1>8, <1>9, <1>10, <1>11, <1>12, <1>13, <1>14, <1>15,
     <1>17, <1>19 DEF Next, PassStep

\* What EditsReachAccount says of one step.
EditsReach ==
    \A p \in Phones, k \in Keys :
        /\ version' = version /\ row[p][k].pending
        /\ ~row'[p][k].pending \/ row'[p][k].ver # row[p][k].ver
        => \/ row[p][k].ver \in received[pass[p].acct]
           \/ pass[p].step = "apply" /\ pass[p].view[k].ver = row[p][k].ver

LEMMA EditsStep == Types /\ BatchReceived /\ [Next]_vars => EditsReach
<1> SUFFICES ASSUME Types, BatchReceived, [Next]_vars PROVE EditsReach
  OBVIOUS
<1> USE DEF phone, account
<1>a. /\ version \in Nat /\ row \in [Phones -> [Keys -> Row]]
      /\ \A p \in Phones, k \in Keys : row[p][k] \in Row
      /\ \A p \in Phones, k \in Keys : pass[p].got[k] \in Copy /\ pass[p].view[k] \in Row
  BY ReadPass DEF Types, PhoneTypes, AccountTypes
<1>b. ASSUME row' = row \/ version' # version PROVE EditsReach
  BY <1>b DEF EditsReach
<1>1. ASSUME NEW p \in Phones, NEW k \in Keys, Edit(p, k) \/ Delete(p, k) PROVE EditsReach
  BY <1>1, <1>a, <1>b DEF Edit, Delete, Write
<1>2. ASSUME NEW p \in Phones, NEW k \in Keys, Age(p, k) PROVE EditsReach
  <2>1. PICK rows \in [Keys -> Row] :
          /\ row' = [row EXCEPT ![p] = rows]
          /\ rows[k].ver = row[p][k].ver /\ rows[k].pending = row[p][k].pending
          /\ \A j \in Keys \ {k} : rows[j] = row[p][j]
    BY <1>2, AgeFacts
  <2> QED
    BY <1>a, <2>1 DEF EditsReach
<1>3. ASSUME NEW p \in Phones, ConfirmBatch(p) PROVE EditsReach
  <2>1. PICK cleared \in SUBSET pass[p].batch, rows \in [Keys -> Row], s \in Passes :
          ConfirmEffect(p, cleared, rows, s)
    BY <1>3, ConfirmFacts
  <2>2. \A k \in cleared : pass[p].view[k].ver \in received[pass[p].acct]
    BY <1>3 DEF ConfirmBatch, BatchReceived
  <2>3. \A q \in Phones \ {p} : row'[q] = row[q]
    BY <1>a, <2>1 DEF ConfirmEffect
  <2>4. row'[p] = rows
    BY <1>a, <2>1 DEF ConfirmEffect
  <2>5. \A r \in Row : [r EXCEPT !.pending = FALSE].ver = r.ver
    BY DEF Row
  <2>6. \A k \in Keys : row[p][k].pending /\ (~rows[k].pending \/ rows[k].ver # row[p][k].ver)
                         => row[p][k].ver \in received[pass[p].acct]
    BY <1>a, <2>1, <2>2, <2>5 DEF ConfirmEffect
  <2> QED
    BY <2>3, <2>4, <2>6 DEF EditsReach
<1>4. ASSUME NEW p \in Phones, LandPulled(p) PROVE EditsReach
  <2>1. PICK now \in SUBSET pass[p].land, rows \in [Keys -> Row], s \in Passes : LandEffect(p, now, rows, s)
    BY <1>4, LandFacts
  <2>2. \A k \in Keys : row[p][k].pending => rows[k] = row[p][k]
    BY <2>1 DEF LandEffect, landed
  <2>3. \A q \in Phones : row'[q] = IF q = p THEN rows ELSE row[q]
    BY <1>a, <2>1 DEF LandEffect
  <2> QED
    BY <2>2, <2>3 DEF EditsReach
<1>5. ASSUME NEW p \in Phones, ApplyFirstLink(p) PROVE EditsReach
  <2>1. PICK s \in SUBSET pass[p].settle, l \in SUBSET pass[p].land, f \in SUBSET pass[p].flag,
             rows \in [Keys -> Row], t \in Passes : ApplyEffect(p, s, l, f, rows, t)
    BY <1>5, ApplyFacts
  <2>2. \A r \in Row : r.pending => [r EXCEPT !.pending = TRUE].pending /\ [r EXCEPT !.pending = TRUE].ver = r.ver
    BY DEF Row
  <2>3. \A k \in Keys : row[p][k].pending /\ pass[p].view[k].ver # row[p][k].ver
                         => rows[k].pending /\ rows[k].ver = row[p][k].ver
    BY <1>a, <2>1, <2>2 DEF ApplyEffect, Applied, landed, settled
  <2>4. \A q \in Phones : row'[q] = IF q = p THEN rows ELSE row[q]
    BY <1>a, <2>1 DEF ApplyEffect
  <2>5. pass[p].step = "apply"
    BY <1>5 DEF ApplyFirstLink
  <2> QED
    BY <2>3, <2>4, <2>5 DEF EditsReach
<1>6. CASE UNCHANGED vars
  BY <1>6, <1>b DEF vars
<1>7. ASSUME NEW p \in Phones,
             \/ \E a \in Accounts : SignIn(p, a) \/ StartPass(p, a)
             \/ LinkWithoutRecords(p) \/ StoreBatch(p) \/ UploadDone(p) \/ Pull(p) \/ Snapshot(p)
             \/ EndPass(p) \/ SignOut(p) \/ SaveSignOut(p)
      PROVE  EditsReach
  <2>1. row' = row
    BY <1>7 DEF SignIn, StartPass, LinkWithoutRecords, EndPass, SignOut, SaveSignOut, StoreBatch,
       UploadDone, Pull, Snapshot
  <2> QED
    BY <1>b, <2>1
<1>8. ASSUME NEW a \in Accounts, GiveConsent(a) \/ WithdrawConsent(a) PROVE EditsReach
  BY <1>8, <1>b DEF GiveConsent, WithdrawConsent
<1> QED
  BY <1>1, <1>2, <1>3, <1>4, <1>5, <1>6, <1>7, <1>8 DEF Next, PassStep

\* clearPendingIfUnchanged, landRemoteRows and applyFirstLink: an edit stops
\* waiting to upload, or gives way to another version, only once the account has
\* received it, or at a first link that read that very version.
THEOREM EditsReachAlways == Spec => EditsReachAccount
<1>1. Init => BatchReceived
  BY NoPassFacts DEF Init, BatchReceived
<1>2. Types /\ BatchReceived /\ [Next]_vars => [EditsReach]_vars
  BY EditsStep
<1> QED
  BY <1>1, <1>2, TypesInit, TypesStep, BatchStep, PTL DEF Spec, EditsReachAccount, EditsReach

-----------------------------------------------------------------------------
(* Settled copies: the consent's instants and the link.                      *)

\* A joining at t, if there was one, is not from the future, and a withdrawal
\* that still stands came after it.
Dated(c, t, now) == t # 0 => t <= now /\ (~c.given => t < c.withdrawnAt)
ConsentDated(c, now) ==
    c.givenAt <= now /\ c.withdrawnAt <= now /\ (c.given => c.givenAt # 0)
LinkDated(l, consents, now) ==
    \A a \in Accounts : l.records = a => Dated(consents[a], l.joinedAt, now)
PassDated(me, consents, now) ==
    me.step \in {"snapshot", "apply"} => me.givenAt # 0 /\ Dated(consents[me.acct], me.givenAt, now)

Dates ==
    /\ \A a \in Accounts : ConsentDated(consent[a], instant)
    /\ \A p \in Phones : /\ LinkDated(link[p], consent, instant)
                         /\ LinkDated(leaving[p].link, consent, instant)
                         /\ PassDated(pass[p], consent, instant)

LEMMA DatesStep == Types /\ Dates /\ [Next]_vars => Dates'
<1> SUFFICES ASSUME Types, Dates, [Next]_vars PROVE Dates'
  OBVIOUS
<1> USE DEF phone, account
<1>a. /\ consent \in [Accounts -> Consents] /\ instant \in Nat /\ link \in [Phones -> Link]
      /\ leaving \in [Phones -> Leavings] /\ pass \in [Phones -> Passes]
      /\ \A p \in Phones : pass[p] \in Passes /\ (pass[p].step # "idle" => pass[p].acct \in Accounts)
  BY DEF Types, PhoneTypes, AccountTypes
<1>b. ASSUME UNCHANGED <<link, leaving, pass, consent, instant>> PROVE Dates'
  BY <1>b DEF Dates
<1>c. ASSUME NEW p \in Phones, NEW s \in Passes, pass' = [pass EXCEPT ![p] = s],
             PassDated(s, consent, instant), UNCHANGED <<consent, instant>>,
             \A q \in Phones : /\ LinkDated(link'[q], consent, instant)
                               /\ LinkDated(leaving'[q].link, consent, instant)
      PROVE  Dates'
  BY <1>a, <1>c DEF Dates
<1>d. \A q \in Phones : /\ LinkDated(link[q], consent, instant)
                        /\ LinkDated(leaving[q].link, consent, instant)
                        /\ PassDated(pass[q], consent, instant)
  BY DEF Dates
<1>e. \A s \in Passes : s.step \notin {"snapshot", "apply"} => PassDated(s, consent, instant)
  BY DEF PassDated
<1>f. LinkDated(Unlinked, consent, instant)
  BY SyncAssumption DEF LinkDated, Unlinked, Dated
<1>g. ASSUME NEW p \in Phones, UNCHANGED <<link, leaving, consent, instant>>,
             \E s \in Passes : pass' = [pass EXCEPT ![p] = s] /\ s.step \notin {"snapshot", "apply"}
      PROVE  Dates'
  BY <1>c, <1>d, <1>e, <1>g
<1>2. ASSUME NEW p \in Phones, NEW k \in Keys, Edit(p, k) \/ Delete(p, k) \/ Age(p, k) PROVE Dates'
  BY <1>2, <1>b DEF Edit, Delete, Age, Write
<1>4. ASSUME NEW p \in Phones, NEW a \in Accounts, SignIn(p, a) PROVE Dates'
  BY <1>4, <1>b DEF SignIn
<1>5. ASSUME NEW p \in Phones, NEW a \in Accounts, StartPass(p, a) PROVE Dates'
  <2> DEFINE stored == linkAtPass(link[p], a, consent[a].given)
  <2>1. UNCHANGED <<leaving, consent, instant>>
    BY <1>5 DEF StartPass
  <2>2. link' = [link EXCEPT ![p] = stored]
    BY <1>5, StartFacts
  <2>3. LinkDated(stored, consent, instant)
    <3>1. stored = link[p] \/ stored.records = NoAccount
      BY <1>a DEF linkAtPass, Link
    <3> QED
      BY <1>d, <3>1, SyncAssumption DEF LinkDated
  <2>4. \A q \in Phones : LinkDated(link'[q], consent, instant) /\ LinkDated(leaving'[q].link, consent, instant)
    BY <1>a, <1>d, <2>1, <2>2, <2>3
  <2>5. CASE UNCHANGED pass
    BY <1>d, <2>1, <2>4, <2>5 DEF Dates
  <2>6. CASE pass' # pass
    <3>1. PICK s \in Passes :
            /\ pass' = [pass EXCEPT ![p] = s] /\ s.acct = a
            /\ \/ s.step \notin {"snapshot", "apply"}
               \/ consent[a].given /\ s.givenAt = consent[a].givenAt
      BY <1>5, <2>6, StartFacts
    <3>2. PassDated(s, consent, instant)
      <4>1. ConsentDated(consent[a], instant)
        BY DEF Dates
      <4> QED
        BY <3>1, <4>1 DEF PassDated, Dated, ConsentDated
    <3> QED
      BY <1>c, <2>1, <2>4, <3>1, <3>2
  <2> QED
    BY <2>5, <2>6
<1>6. ASSUME NEW p \in Phones, LinkWithoutRecords(p) PROVE Dates'
  <2> DEFINE after == linkAfterFirstLink(link[p], pass[p].acct, FALSE, 0)
  <2>1. link' = [link EXCEPT ![p] = after] /\ pass' = [pass EXCEPT ![p] = NoPass]
    BY <1>6, LinkFacts
  <2>2. after.records = link[p].records /\ after.joinedAt = link[p].joinedAt
    BY DEF linkAfterFirstLink
  <2>3. LinkDated(after, consent, instant)
    BY <1>d, <2>2 DEF LinkDated
  <2>4. UNCHANGED <<leaving, consent, instant>>
    BY <1>6 DEF LinkWithoutRecords
  <2> QED
    BY <1>a, <1>c, <1>d, <1>e, <2>1, <2>3, <2>4, NoPassFacts
<1>7. ASSUME NEW p \in Phones, EndPass(p) PROVE Dates'
  BY <1>7, <1>g, NoPassFacts DEF EndPass
<1>8. ASSUME NEW p \in Phones, StoreBatch(p) PROVE Dates'
  <2>1. PICK batch \in SUBSET pass[p].queue : Stored(p, batch)
    BY <1>8, StoreFacts
  <2>2. UNCHANGED <<link, consent, instant>>
    BY <1>8 DEF StoreBatch
  <2>3. \A q \in Phones : /\ leaving'[q].link = leaving[q].link
                          /\ pass'[q].givenAt = pass[q].givenAt /\ pass'[q].acct = pass[q].acct
                          /\ pass'[q].step \in {"confirm", pass[q].step}
    BY <2>1 DEF Stored, Alike
  <2> QED
    BY <1>d, <2>2, <2>3 DEF Dates, PassDated
<1>9. ASSUME NEW p \in Phones, ConfirmBatch(p) PROVE Dates'
  <2>1. \E s \in Passes : pass' = [pass EXCEPT ![p] = s] /\ s.step \notin {"snapshot", "apply"}
    BY <1>9, ConfirmFacts DEF ConfirmEffect
  <2> QED
    BY <1>9, <1>g, <2>1 DEF ConfirmBatch
<1>10. ASSUME NEW p \in Phones, UploadDone(p) PROVE Dates'
  <2>1. \E s \in Passes : pass' = [pass EXCEPT ![p] = s] /\ s.step \notin {"snapshot", "apply"}
    BY <1>10, UploadDoneFacts, NoPassFacts
  <2> QED
    BY <1>10, <1>g, <2>1 DEF UploadDone
<1>11. ASSUME NEW p \in Phones, Pull(p) PROVE Dates'
  <2>1. \E s \in Passes : pass' = [pass EXCEPT ![p] = s] /\ s.step \notin {"snapshot", "apply"}
    BY <1>11, PullFacts DEF PullEffect
  <2> QED
    BY <1>11, <1>g, <2>1 DEF Pull
<1>12. ASSUME NEW p \in Phones, LandPulled(p) PROVE Dates'
  <2>1. PICK now \in SUBSET pass[p].land, rows \in [Keys -> Row], s \in Passes : LandEffect(p, now, rows, s)
    BY <1>12, LandFacts
  <2>2. pass' = [pass EXCEPT ![p] = s] /\ s.step \notin {"snapshot", "apply"}
    BY <2>1, NoPassFacts DEF LandEffect
  <2> QED
    BY <1>12, <1>g, <2>2 DEF LandPulled
<1>13. ASSUME NEW p \in Phones, Snapshot(p) PROVE Dates'
  <2>1. PICK seen \in SUBSET Keys, s \in Passes : SnapshotEffect(p, seen, s)
    BY <1>13, SnapshotFacts
  <2>2. PassDated(s, consent, instant)
    BY <1>13, <1>d, <2>1 DEF Snapshot, SnapshotEffect, PassDated
  <2> QED
    BY <1>13, <1>c, <1>d, <2>1, <2>2 DEF Snapshot, SnapshotEffect
<1>14. ASSUME NEW p \in Phones, ApplyFirstLink(p) PROVE Dates'
  <2>1. PICK s \in SUBSET pass[p].settle, l \in SUBSET pass[p].land, f \in SUBSET pass[p].flag,
             rows \in [Keys -> Row], t \in Passes : ApplyEffect(p, s, l, f, rows, t)
    BY <1>14, ApplyFacts
  <2>2. UNCHANGED <<leaving, consent, instant>> /\ pass[p].step = "apply"
    BY <1>14 DEF ApplyFirstLink
  <2>3. PassDated(t, consent, instant)
    BY <1>d, <2>1, <2>2 DEF ApplyEffect, Alike, PassDated
  <2> DEFINE after == linkAfterFirstLink(link[p], pass[p].acct, TRUE, pass[p].givenAt)
  <2>4. LinkDated(after, consent, instant)
    <3>1. after.records = pass[p].acct /\ after.joinedAt = pass[p].givenAt
      BY DEF linkAfterFirstLink
    <3> QED
      BY <1>d, <2>2, <3>1 DEF LinkDated, PassDated
  <2>5. link' = link \/ link' = [link EXCEPT ![p] = after]
    BY <2>1 DEF ApplyEffect
  <2>6. \A q \in Phones : LinkDated(link'[q], consent, instant)
    BY <1>a, <1>d, <2>4, <2>5
  <2>7. pass' = [pass EXCEPT ![p] = t]
    BY <2>1 DEF ApplyEffect
  <2> QED
    BY <1>c, <1>d, <2>2, <2>3, <2>6, <2>7
<1>15. ASSUME NEW p \in Phones, SignOut(p) PROVE Dates'
  <2>1. PICK l \in Leavings : leaving' = [leaving EXCEPT ![p] = l] /\ l.link \in {link[p], leaving[p].link}
    BY <1>15, SignOutFacts
  <2>2. UNCHANGED <<link, pass, consent, instant>>
    BY <1>15 DEF SignOut
  <2> QED
    BY <1>a, <1>d, <2>1, <2>2 DEF Dates
<1>16. ASSUME NEW p \in Phones, SaveSignOut(p) PROVE Dates'
  <2>1. link' = [link EXCEPT ![p] = leaving[p].link] /\ leaving' = [leaving EXCEPT ![p] = NotLeaving]
    BY <1>16, SaveFacts
  <2>2. UNCHANGED <<pass, consent, instant>> /\ NotLeaving.link = Unlinked
    BY <1>16 DEF SaveSignOut, NotLeaving
  <2> QED
    BY <1>a, <1>d, <1>f, <2>1, <2>2 DEF Dates
<1>17. ASSUME NEW a \in Accounts, GiveConsent(a) \/ WithdrawConsent(a) PROVE Dates'
  <2>1. UNCHANGED <<link, leaving, pass>> /\ instant' = instant + 1
    BY <1>17 DEF GiveConsent, WithdrawConsent
  <2>2. PICK c \in Consents : /\ consent' = [consent EXCEPT ![a] = c]
                              /\ \/ /\ c.given /\ c.givenAt = instant + 1
                                    /\ c.withdrawnAt = consent[a].withdrawnAt
                                 \/ /\ ~c.given /\ c.withdrawnAt = instant + 1
                                    /\ c.givenAt = consent[a].givenAt
    BY <1>17, GiveFacts, WithdrawFacts
  <2>3. \A b \in Accounts : consent'[b] = IF b = a THEN c ELSE consent[b]
    BY <1>a, <2>2
  <2>4. \A b \in Accounts : ConsentDated(consent'[b], instant')
    BY <1>a, <2>1, <2>2, <2>3 DEF Dates, ConsentDated, Consents
  <2>5. \A b \in Accounts : \A t \in Nat : Dated(consent[b], t, instant) => Dated(consent'[b], t, instant')
    BY <1>a, <2>1, <2>2, <2>3 DEF Dated, Consents
  <2>6. \A l \in Link : LinkDated(l, consent, instant) => LinkDated(l, consent', instant')
    BY <2>5 DEF LinkDated, Link
  <2>7. \A q \in Phones : PassDated(pass[q], consent', instant')
    BY <1>a, <1>d, <2>5 DEF PassDated, Passes
  <2>8. \A q \in Phones : link[q] \in Link /\ leaving[q].link \in Link
    BY <1>a DEF Leavings
  <2> QED
    BY <1>d, <2>1, <2>4, <2>6, <2>7, <2>8 DEF Dates
<1>19. CASE UNCHANGED vars
  BY <1>19, <1>b DEF vars
<1> QED
  BY <1>2, <1>4, <1>5, <1>6, <1>7, <1>8, <1>9, <1>10, <1>11, <1>12, <1>13, <1>14, <1>15, <1>16,
     <1>17, <1>19 DEF Next, PassStep

\* A sign-out under way has no session.  Where no pass can run beside one, a
\* pass that sends or lands is of the account the link names.  A pass without
\* the consent does not count the records as joined.
Sending == {"upload", "confirm", "pull", "land"}
Linking ==
    \A p \in Phones :
        /\ leaving[p].on => session[p] = NoAccount /\ SplitSignOut
        /\ ~SplitSignOut /\ pass[p].step \in Sending => link[p].last = pass[p].acct
        /\ pass[p].step = "bare" => /\ link[p].records # pass[p].acct
                                    /\ leaving[p].on => leaving[p].link.records # pass[p].acct

LEMMA LinkingStep == Types /\ Linking /\ [Next]_vars => Linking'
<1> SUFFICES ASSUME Types, Linking, [Next]_vars PROVE Linking'
  OBVIOUS
<1> USE DEF phone, account, Sending
<1>a. /\ link \in [Phones -> Link] /\ session \in [Phones -> Accounts \cup {NoAccount}]
      /\ leaving \in [Phones -> Leavings] /\ pass \in [Phones -> Passes]
      /\ \A p \in Phones : pass[p] \in Passes /\ (pass[p].step # "idle" => pass[p].acct \in Accounts)
  BY DEF Types, PhoneTypes
<1>b. ASSUME UNCHANGED <<session, link, leaving, pass>> PROVE Linking'
  BY <1>b DEF Linking
<1>c. ASSUME NEW p \in Phones, NEW s \in Passes, pass' = [pass EXCEPT ![p] = s], s.step # "bare",
             s.step \in Sending => pass[p].step \in Sending /\ s.acct = pass[p].acct,
             UNCHANGED <<session, link, leaving>>
      PROVE  Linking'
  BY <1>a, <1>c DEF Linking
<1>2. ASSUME NEW p \in Phones, NEW k \in Keys, Edit(p, k) \/ Delete(p, k) \/ Age(p, k) PROVE Linking'
  BY <1>2, <1>b DEF Edit, Delete, Age, Write
<1>4. ASSUME NEW p \in Phones, NEW a \in Accounts, SignIn(p, a) PROVE Linking'
  BY <1>4, <1>a DEF SignIn, Linking
<1>5. ASSUME NEW p \in Phones, NEW a \in Accounts, StartPass(p, a) PROVE Linking'
  <2> DEFINE stored == linkAtPass(link[p], a, consent[a].given)
  <2>1. /\ UNCHANGED <<leaving, session>> /\ session[p] = a /\ pass[p].step = "idle"
    BY <1>5 DEF StartPass
  <2>2. link' = [link EXCEPT ![p] = stored]
    BY <1>5, StartFacts
  <2>3. /\ stored.last = link[p].last /\ (~consent[a].given => stored.records # a)
    BY <1>a, SyncAssumption DEF linkAtPass, Link
  <2>4. ~leaving[p].on
    BY <2>1, SyncAssumption DEF Linking
  <2>5. \/ UNCHANGED pass
        \/ \E s \in Passes :
             /\ pass' = [pass EXCEPT ![p] = s] /\ s.acct = a
             /\ \/ ~consent[a].given /\ s.step = "bare"
                \/ s.step = "snapshot"
                \/ s.step = "upload" /\ syncPassFor(stored, a) # "first-link"
    BY <1>5, StartFacts
  <2>6. syncPassFor(stored, a) # "first-link" => stored.last = a
    BY DEF syncPassFor, hasLinkedTo
  <2>7. \A q \in Phones : link'[q] = IF q = p THEN stored ELSE link[q]
    BY <1>a, <2>2
  <2> HIDE DEF stored
  <2>8. CASE UNCHANGED pass
    BY <2>1, <2>7, <2>8 DEF Linking
  <2>9. CASE pass' # pass
    BY <1>a, <2>1, <2>3, <2>4, <2>5, <2>6, <2>7, <2>9 DEF Linking
  <2> QED
    BY <2>8, <2>9
<1>6. ASSUME NEW p \in Phones, LinkWithoutRecords(p) PROVE Linking'
  <2>1. /\ link' = [link EXCEPT ![p] = linkAfterFirstLink(link[p], pass[p].acct, FALSE, 0)]
        /\ pass' = [pass EXCEPT ![p] = NoPass] /\ UNCHANGED <<leaving, session>>
    BY <1>6, LinkFacts DEF LinkWithoutRecords
  <2>2. \A q \in Phones \ {p} : link'[q] = link[q] /\ pass'[q] = pass[q]
    BY <1>a, <2>1
  <2>3. pass'[p].step = "idle"
    BY <1>a, <2>1, NoPassFacts
  <2> QED
    BY <2>1, <2>2, <2>3 DEF Linking
<1>7. ASSUME NEW p \in Phones, EndPass(p) PROVE Linking'
  BY <1>7, <1>c, NoPassFacts DEF EndPass
<1>8. ASSUME NEW p \in Phones, StoreBatch(p) PROVE Linking'
  <2>1. PICK batch \in SUBSET pass[p].queue : Stored(p, batch)
    BY <1>8, StoreFacts
  <2>2. UNCHANGED <<link, session>> /\ pass[p].step = "upload"
    BY <1>8 DEF StoreBatch
  <2>3. \A q \in Phones : /\ leaving'[q].link = leaving[q].link /\ leaving'[q].on = leaving[q].on
                          /\ pass'[q].acct = pass[q].acct
                          /\ pass'[q].step = IF q = p THEN "confirm" ELSE pass[q].step
    BY <2>1 DEF Stored, Alike
  <2> QED
    BY <2>2, <2>3 DEF Linking
<1>9. ASSUME NEW p \in Phones, ConfirmBatch(p) PROVE Linking'
  <2>1. \E s \in Passes : /\ pass' = [pass EXCEPT ![p] = s] /\ s.step \in {"upload", "confirm"}
                          /\ s.acct = pass[p].acct
    BY <1>9, ConfirmFacts DEF ConfirmEffect, Alike
  <2> QED
    BY <1>9, <1>c, <2>1 DEF ConfirmBatch
<1>10. ASSUME NEW p \in Phones, UploadDone(p) PROVE Linking'
  <2>1. \E s \in Passes : /\ pass' = [pass EXCEPT ![p] = s] /\ s.step \in {"idle", "pull"}
                          /\ s.step = "pull" => s.acct = pass[p].acct
    BY <1>10, UploadDoneFacts, NoPassFacts
  <2> QED
    BY <1>10, <1>c, <2>1 DEF UploadDone
<1>11. ASSUME NEW p \in Phones, Pull(p) PROVE Linking'
  <2>1. \E s \in Passes : /\ pass' = [pass EXCEPT ![p] = s] /\ s.step = "land" /\ s.acct = pass[p].acct
    BY <1>11, PullFacts DEF PullEffect
  <2> QED
    BY <1>11, <1>c, <2>1 DEF Pull
<1>12. ASSUME NEW p \in Phones, LandPulled(p) PROVE Linking'
  <2>1. PICK now \in SUBSET pass[p].land, rows \in [Keys -> Row], s \in Passes : LandEffect(p, now, rows, s)
    BY <1>12, LandFacts
  <2>2. pass' = [pass EXCEPT ![p] = s] /\ s.step \in {"idle", "land"} /\ (s.step = "land" => s.acct = pass[p].acct)
    BY <2>1, NoPassFacts DEF LandEffect, Alike
  <2> QED
    BY <1>12, <1>c, <2>2 DEF LandPulled
<1>13. ASSUME NEW p \in Phones, Snapshot(p) PROVE Linking'
  <2>1. \E s \in Passes : pass' = [pass EXCEPT ![p] = s] /\ s.step = "apply"
    BY <1>13, SnapshotFacts DEF SnapshotEffect
  <2> QED
    BY <1>13, <1>c, <2>1 DEF Snapshot
<1>14. ASSUME NEW p \in Phones, ApplyFirstLink(p) PROVE Linking'
  <2>1. PICK s \in SUBSET pass[p].settle, l \in SUBSET pass[p].land, f \in SUBSET pass[p].flag,
             rows \in [Keys -> Row], t \in Passes : ApplyEffect(p, s, l, f, rows, t)
    BY <1>14, ApplyFacts
  <2>2. UNCHANGED <<leaving, session>>
    BY <1>14 DEF ApplyFirstLink
  <2>3. /\ pass' = [pass EXCEPT ![p] = t] /\ t.acct = pass[p].acct
        /\ \/ link' = link /\ t.step = "apply"
           \/ link' = [link EXCEPT ![p] = linkAfterFirstLink(link[p], pass[p].acct, TRUE, pass[p].givenAt)]
              /\ t.step = "upload"
    BY <2>1 DEF ApplyEffect, Alike
  <2>4. linkAfterFirstLink(link[p], pass[p].acct, TRUE, pass[p].givenAt).last = pass[p].acct
    BY DEF linkAfterFirstLink
  <2>5. \A q \in Phones \ {p} : link'[q] = link[q] /\ pass'[q] = pass[q]
    BY <1>a, <2>3
  <2>6. pass'[p] = t /\ (t.step = "apply" \/ (t.step = "upload" /\ link'[p].last = pass[p].acct))
    BY <1>a, <2>3, <2>4
  <2> QED
    BY <2>2, <2>3, <2>5, <2>6 DEF Linking
<1>15. ASSUME NEW p \in Phones, SignOut(p) PROVE Linking'
  <2>1. PICK l \in Leavings :
          /\ leaving' = [leaving EXCEPT ![p] = l] /\ session' = [session EXCEPT ![p] = NoAccount]
          /\ (SplitSignOut /\ l.link = link[p]) \/ l = leaving[p]
    BY <1>15, SignOutFacts
  <2>2. UNCHANGED <<link, pass>> /\ session[p] # NoAccount
    BY <1>15 DEF SignOut
  <2>3. ~leaving[p].on
    BY <2>2 DEF Linking
  <2>4. \A q \in Phones : /\ leaving'[q] = IF q = p THEN l ELSE leaving[q]
                          /\ session'[q] = IF q = p THEN NoAccount ELSE session[q]
    BY <1>a, <2>1
  <2> QED
    BY <2>1, <2>2, <2>3, <2>4 DEF Linking
<1>16. ASSUME NEW p \in Phones, SaveSignOut(p) PROVE Linking'
  <2>1. /\ link' = [link EXCEPT ![p] = leaving[p].link] /\ leaving' = [leaving EXCEPT ![p] = NotLeaving]
        /\ leaving[p].on
    BY <1>16, SaveFacts
  <2>2. UNCHANGED <<pass, session>> /\ ~NotLeaving.on
    BY <1>16 DEF SaveSignOut, NotLeaving
  <2>3. \A q \in Phones : /\ leaving'[q] = IF q = p THEN NotLeaving ELSE leaving[q]
                          /\ link'[q] = IF q = p THEN leaving[p].link ELSE link[q]
    BY <1>a, <2>1
  <2> QED
    BY <2>1, <2>2, <2>3 DEF Linking
<1>17. ASSUME NEW a \in Accounts, GiveConsent(a) \/ WithdrawConsent(a) PROVE Linking'
  BY <1>17, <1>b DEF GiveConsent, WithdrawConsent
<1>19. CASE UNCHANGED vars
  BY <1>19, <1>b DEF vars
<1> QED
  BY <1>2, <1>4, <1>5, <1>6, <1>7, <1>8, <1>9, <1>10, <1>11, <1>12, <1>13, <1>14, <1>15, <1>16,
     <1>17, <1>19 DEF Next, PassStep

-----------------------------------------------------------------------------
(* Settled copies: what a pass still knows of the rows it has read.          *)

\* The row is the one that was read, or it waits to upload.
AsRead(own, read) ==
    IF own.ver = read.ver THEN (Live(own) <=> Live(read)) /\ (Present(own) <=> Present(read))
    ELSE own.pending

Reading(me) ==
    me.step \in {"snapshot", "pull"} \/ (me.step \in {"upload", "confirm"} /\ ~me.linking)

ReadsOf(rows, me) ==
    /\ Reading(me) => \A k \in Keys : AsRead(rows[k], me.view[k])
    /\ Reading(me) /\ me.step # "snapshot" /\ ~me.sent => \A k \in Keys : ~me.view[k].pending
    /\ me.step \in {"pull", "land"} => ~me.linking
    /\ me.step \in {"snapshot", "apply"} => me.linking
ReadsHold == \A p \in Phones : ReadsOf(row[p], pass[p])

\* What a local write, the window and an acknowledgement leave of a row read.
LEMMA AsReadKept ==
    ASSUME NEW own \in Row, NEW read \in Row, AsRead(own, read)
    PROVE  /\ \A new \in Row : new.ver # read.ver /\ new.pending => AsRead(new, read)
           /\ \A new \in Row : /\ new.ver = own.ver /\ new.pending = own.pending
                               /\ own.st = "gone" /\ new.st = "old"
                               => AsRead(new, read)
           /\ own.ver = read.ver => AsRead([own EXCEPT !.pending = FALSE], read)
BY DEF AsRead, Row, Live, Present

LEMMA ReadsStep == Types /\ Known /\ ReadsHold /\ [Next]_vars => ReadsHold'
<1> SUFFICES ASSUME Types, Known, ReadsHold, [Next]_vars PROVE ReadsHold'
  OBVIOUS
<1> USE DEF phone, account
<1>a. /\ row \in [Phones -> [Keys -> Row]] /\ pass \in [Phones -> Passes] /\ version \in Nat
      /\ \A p \in Phones : pass[p] \in Passes /\ row[p] \in [Keys -> Row] /\ pass[p].view \in [Keys -> Row]
      /\ \A p \in Phones : row = [row EXCEPT ![p] = row[p]] /\ pass = [pass EXCEPT ![p] = pass[p]]
  BY ReadPass DEF Types, PhoneTypes, AccountTypes
<1>b. ASSUME UNCHANGED <<row, pass>> PROVE ReadsHold'
  BY <1>b DEF ReadsHold
<1>c. ASSUME NEW p \in Phones, NEW rows \in [Keys -> Row], NEW s \in Passes,
             row' = [row EXCEPT ![p] = rows], pass' = [pass EXCEPT ![p] = s], ReadsOf(rows, s)
      PROVE  ReadsHold'
  <2>1. \A q \in Phones : /\ row'[q] = IF q = p THEN rows ELSE row[q]
                          /\ pass'[q] = IF q = p THEN s ELSE pass[q]
    BY <1>a, <1>c
  <2> QED
    BY <1>c, <2>1 DEF ReadsHold
<1>d. \A p \in Phones : ReadsOf(row[p], pass[p])
  BY DEF ReadsHold
<1>e. \A rows \in [Keys -> Row], s \in Passes :
        s.step \in {"idle", "bare"} \/ (s.step = "apply" /\ s.linking) => ReadsOf(rows, s)
  BY DEF ReadsOf, Reading
<1>f. \A rows \in [Keys -> Row] : ReadsOf(rows, NoPass)
  BY <1>e, NoPassFacts
<1>2. ASSUME NEW p \in Phones, NEW k \in Keys, Edit(p, k) \/ Delete(p, k) PROVE ReadsHold'
  <2>1. PICK st \in States : Write(p, k, st)
    BY <1>2, EditOrDelete
  <2>2. PICK rows \in [Keys -> Row] :
          /\ row' = [row EXCEPT ![p] = rows]
          /\ rows[k].ver = version + 1 /\ rows[k].pending /\ \A j \in Keys \ {k} : rows[j] = row[p][j]
    BY <2>1, WriteFacts
  <2>3. pass' = pass
    BY <2>1 DEF Write
  <2>4. rows[k].ver # pass[p].view[k].ver
    <3>1. pass[p].view[k].ver <= version /\ pass[p].view[k].ver \in Nat
      BY <1>a DEF Known, PhonesKnown, KnownPass, KnownRow, Row
    <3> QED
      BY <1>a, <2>2, <3>1
  <2>5. AsRead(rows[k], pass[p].view[k])
    BY <2>2, <2>4 DEF AsRead
  <2>6. ReadsOf(rows, pass[p])
    BY <1>d, <2>2, <2>5 DEF ReadsOf
  <2> QED
    BY <1>a, <1>c, <2>2, <2>3, <2>6
<1>3. ASSUME NEW p \in Phones, NEW k \in Keys, Age(p, k) PROVE ReadsHold'
  <2>1. PICK rows \in [Keys -> Row] :
          /\ row' = [row EXCEPT ![p] = rows] /\ row[p][k].st = "gone"
          /\ rows[k].ver = row[p][k].ver /\ rows[k].pending = row[p][k].pending
          /\ rows[k].st = "old" /\ \A j \in Keys \ {k} : rows[j] = row[p][j]
    BY <1>3, AgeFacts
  <2>2. pass' = pass
    BY <1>3 DEF Age
  <2>3. row[p][k] \in Row /\ rows[k] \in Row /\ pass[p].view[k] \in Row
    BY <1>a
  <2>4. AsRead(row[p][k], pass[p].view[k]) => AsRead(rows[k], pass[p].view[k])
    BY <2>1, <2>3, AsReadKept
  <2>5. ReadsOf(rows, pass[p])
    BY <1>d, <2>1, <2>4 DEF ReadsOf
  <2> QED
    BY <1>a, <1>c, <2>1, <2>2, <2>5
<1>4. ASSUME NEW p \in Phones, NEW a \in Accounts, SignIn(p, a) PROVE ReadsHold'
  BY <1>4, <1>b DEF SignIn
<1>5. ASSUME NEW p \in Phones, NEW a \in Accounts, StartPass(p, a) PROVE ReadsHold'
  <2>1. row' = row
    BY <1>5 DEF StartPass
  <2>2. CASE pass' = pass
    BY <1>b, <2>1, <2>2
  <2>3. CASE pass' # pass
    <3>1. PICK s \in Passes :
            /\ pass' = [pass EXCEPT ![p] = s]
            /\ \/ s.step = "bare"
               \/ s.step \in {"snapshot", "upload"} /\ s.view = row[p]
            /\ s.step = "snapshot" => s.linking
            /\ s.step = "upload" => /\ s.queue = pendingUpload(row[p]) /\ s.sent = (s.queue # {})
      BY <1>5, <2>3, StartFacts
    <3>2. \A k \in Keys : AsRead(row[p][k], row[p][k])
      BY DEF AsRead
    <3>3. ReadsOf(row[p], s)
      BY <3>1, <3>2 DEF ReadsOf, Reading, pendingUpload
    <3> QED
      BY <1>a, <1>c, <2>1, <3>1, <3>3
  <2> QED
    BY <2>2, <2>3
<1>6. ASSUME NEW p \in Phones, LinkWithoutRecords(p) \/ EndPass(p) PROVE ReadsHold'
  BY <1>6, <1>a, <1>c, <1>f, NoPassFacts DEF LinkWithoutRecords, EndPass
<1>8. ASSUME NEW p \in Phones, StoreBatch(p) PROVE ReadsHold'
  <2>1. PICK batch \in SUBSET pass[p].queue : Stored(p, batch)
    BY <1>8, StoreFacts
  <2>2. row' = row /\ pass[p].step = "upload"
    BY <1>8 DEF StoreBatch
  <2>3. \A q \in Phones : /\ pass'[q].view = pass[q].view /\ pass'[q].linking = pass[q].linking
                          /\ pass'[q].sent = pass[q].sent
                          /\ pass'[q].step = IF q = p THEN "confirm" ELSE pass[q].step
    BY <2>1 DEF Stored, Alike
  <2>4. \A q \in Phones : ReadsOf(row[q], pass'[q])
    BY <1>d, <2>2, <2>3 DEF ReadsOf, Reading
  <2> QED
    BY <2>2, <2>4 DEF ReadsHold
<1>9. ASSUME NEW p \in Phones, ConfirmBatch(p) PROVE ReadsHold'
  <2>1. PICK cleared \in SUBSET pass[p].batch, rows \in [Keys -> Row], s \in Passes :
          ConfirmEffect(p, cleared, rows, s)
    BY <1>9, ConfirmFacts
  <2>2. \A k \in Keys : AsRead(row[p][k], pass[p].view[k]) => AsRead(rows[k], pass[p].view[k])
    <3> TAKE k \in Keys
    <3>1. row[p][k] \in Row /\ pass[p].view[k] \in Row
      BY <1>a
    <3> QED
      BY <2>1, <3>1, AsReadKept DEF ConfirmEffect
  <2>3. pass[p].step = "confirm"
    BY <1>9 DEF ConfirmBatch
  <2>4. s.step \in {"upload", "confirm"} /\ s.view = pass[p].view /\ s.linking = pass[p].linking
        /\ s.sent = pass[p].sent /\ row' = [row EXCEPT ![p] = rows] /\ pass' = [pass EXCEPT ![p] = s]
    BY <2>1 DEF ConfirmEffect, Alike
  <2>5. ReadsOf(rows, s)
    BY <1>d, <2>2, <2>3, <2>4 DEF ReadsOf, Reading
  <2> QED
    BY <1>c, <2>4, <2>5
<1>10. ASSUME NEW p \in Phones, UploadDone(p) PROVE ReadsHold'
  <2>1. row' = row /\ pass[p].step = "upload"
    BY <1>10 DEF UploadDone
  <2>2. CASE pass' = [pass EXCEPT ![p] = NoPass]
    BY <1>a, <1>c, <1>f, <2>1, <2>2, NoPassFacts
  <2>3. CASE pass' # [pass EXCEPT ![p] = NoPass]
    <3>1. PICK s \in Passes :
            /\ pass' = [pass EXCEPT ![p] = s] /\ s.step = "pull" /\ ~pass[p].linking
            /\ s.linking = pass[p].linking /\ s.sent = pass[p].sent /\ s.view = pass[p].view
      BY <1>10, <2>3, UploadDoneFacts
    <3>2. ReadsOf(row[p], s)
      BY <1>d, <2>1, <3>1 DEF ReadsOf, Reading
    <3> QED
      BY <1>a, <1>c, <2>1, <3>1, <3>2
  <2> QED
    BY <2>2, <2>3
<1>11. ASSUME NEW p \in Phones, Pull(p) PROVE ReadsHold'
  <2>1. row' = row /\ pass[p].step = "pull"
    BY <1>11 DEF Pull
  <2>2. PICK seen \in SUBSET Keys, again \in SUBSET (Keys \ behind[p]), s \in Passes :
          PullEffect(p, seen, again, s)
    BY <1>11, PullFacts
  <2>3. pass' = [pass EXCEPT ![p] = s] /\ s.step = "land" /\ s.linking = pass[p].linking
    BY <2>2 DEF PullEffect
  <2>4. ReadsOf(row[p], s)
    BY <1>d, <2>1, <2>3 DEF ReadsOf, Reading
  <2> QED
    BY <1>a, <1>c, <2>1, <2>3, <2>4
<1>12. ASSUME NEW p \in Phones, LandPulled(p) PROVE ReadsHold'
  <2>1. PICK now \in SUBSET pass[p].land, rows \in [Keys -> Row], s \in Passes : LandEffect(p, now, rows, s)
    BY <1>12, LandFacts
  <2>2. pass[p].step = "land"
    BY <1>12 DEF LandPulled
  <2>3. /\ row' = [row EXCEPT ![p] = rows] /\ pass' = [pass EXCEPT ![p] = s]
        /\ s = NoPass \/ (s.step = "land" /\ s.linking = pass[p].linking)
    BY <2>1 DEF LandEffect, Alike
  <2>4. ReadsOf(rows, s)
    <3>1. CASE s = NoPass
      BY <1>f, <3>1
    <3>2. CASE s # NoPass
      BY <1>d, <2>2, <2>3, <3>2 DEF ReadsOf, Reading
    <3> QED
      BY <3>1, <3>2
  <2> QED
    BY <1>c, <2>3, <2>4
<1>13. ASSUME NEW p \in Phones, Snapshot(p) PROVE ReadsHold'
  <2>1. PICK seen \in SUBSET Keys, s \in Passes : SnapshotEffect(p, seen, s)
    BY <1>13, SnapshotFacts
  <2>2. row' = row /\ pass[p].step = "snapshot"
    BY <1>13 DEF Snapshot
  <2>3. pass' = [pass EXCEPT ![p] = s] /\ s.step = "apply" /\ s.linking = pass[p].linking
    BY <2>1 DEF SnapshotEffect
  <2>4. ReadsOf(row[p], s)
    BY <1>a, <1>d, <1>e, <2>2, <2>3 DEF ReadsOf
  <2> QED
    BY <1>a, <1>c, <2>2, <2>3, <2>4
<1>14. ASSUME NEW p \in Phones, ApplyFirstLink(p) PROVE ReadsHold'
  <2>1. PICK s \in SUBSET pass[p].settle, l \in SUBSET pass[p].land, f \in SUBSET pass[p].flag,
             rows \in [Keys -> Row], t \in Passes : ApplyEffect(p, s, l, f, rows, t)
    BY <1>14, ApplyFacts
  <2>2. pass' = [pass EXCEPT ![p] = t] /\ t.step \in {"apply", "upload"} /\ row' = [row EXCEPT ![p] = rows]
        /\ t.linking = pass[p].linking
    BY <2>1 DEF ApplyEffect, Alike
  <2>3. pass[p].step = "apply"
    BY <1>14 DEF ApplyFirstLink
  <2>4. ReadsOf(rows, t)
    BY <1>d, <2>2, <2>3 DEF ReadsOf, Reading
  <2> QED
    BY <1>c, <2>2, <2>4
<1>15. ASSUME NEW p \in Phones, SignOut(p) \/ SaveSignOut(p) PROVE ReadsHold'
  BY <1>15, <1>b DEF SignOut, SaveSignOut
<1>17. ASSUME NEW a \in Accounts, GiveConsent(a) \/ WithdrawConsent(a) PROVE ReadsHold'
  BY <1>17, <1>b DEF GiveConsent, WithdrawConsent
<1>19. CASE UNCHANGED vars
  BY <1>19, <1>b DEF vars
<1> QED
  BY <1>2, <1>3, <1>4, <1>5, <1>6, <1>8, <1>9, <1>10, <1>11, <1>12, <1>13, <1>14, <1>15,
     <1>17, <1>19 DEF Next, PassStep

-----------------------------------------------------------------------------
(* Settled copies: a first link between its snapshot and its last write.     *)

\* A row the account's copy has landed on, or one written since.
Came(own, copy) == own.pending \/ (own.ver = copy.ver /\ (Live(own) <=> Live(copy)))

\* The writes done so far, in their order, and what each has left of its row.
ApplyOf(rows, me) ==
    LET writes == mergeWrites(me.view, me.got)
        sends == mergeSends(me.view, me.got)
    IN  me.step = "apply" =>
        /\ me.land \subseteq writes /\ me.flag \subseteq sends
        /\ me.land # writes \/ me.flag # sends => me.settle = {}
        /\ me.flag # sends => me.land = {}
        /\ \A k \in Keys :
            /\ k \in writes \ me.land => Came(rows[k], me.got[k])
            /\ k \in sends \ me.flag => rows[k].pending
            /\ k \notin writes \ me.land /\ k \notin sends \ me.flag => AsRead(rows[k], me.view[k])
ApplyHolds == \A p \in Phones : ApplyOf(row[p], pass[p])

\* What one write leaves of one row.
AppliedAs(new, own, read, copy, settles, lands, flags) ==
    /\ flags => new.pending
    /\ lands => Came(new, copy)
    /\ ~settles /\ ~lands /\ ~flags => new = own
    /\ ~lands /\ ~flags /\ AsRead(own, read) => AsRead(new, read)

LEMMA AppliedRow ==
    ASSUME NEW own \in Row, NEW read \in Row, NEW copy \in Copy,
           NEW x \in BOOLEAN, NEW y \in BOOLEAN, NEW z \in BOOLEAN
    PROVE  AppliedAs(Applied(own, read, copy, x, y, z), own, read, copy, x, y, z)
<1> DEFINE a == IF x THEN settled(own, read) ELSE own
           b == IF y THEN landed(a, copy) ELSE a
           new == Applied(own, read, copy, x, y, z)
<1>1. a \in Row /\ (~x => a = own) /\ (AsRead(own, read) => AsRead(a, read))
  <2>1. settled(own, read) \in Row
    BY DEF settled, Row
  <2>2. AsRead(own, read) => AsRead(settled(own, read), read)
    BY AsReadKept DEF settled
  <2> QED
    BY <2>1, <2>2
<1> HIDE DEF a
<1>2. b \in Row /\ (y => Came(b, copy)) /\ (~y => b = a)
  <2>1. landed(a, copy) \in Row /\ Came(landed(a, copy), copy)
    BY <1>1 DEF landed, Came, Row, Copy, States, Live
  <2> QED
    BY <1>1, <2>1
<1>3. new = IF z THEN [b EXCEPT !.pending = TRUE] ELSE b
  BY DEF Applied, a
<1> HIDE DEF b, new
<1>4. z => new.pending
  BY <1>2, <1>3 DEF Row
<1>5. ~z => new = b
  BY <1>3
<1>6. y => Came(new, copy)
  BY <1>2, <1>4, <1>5 DEF Came
<1>7. AppliedAs(new, own, read, copy, x, y, z)
  BY <1>1, <1>2, <1>4, <1>5, <1>6 DEF AppliedAs
<1> QED
  BY <1>7 DEF new

LEMMA AppliedRows ==
    ASSUME NEW rows0 \in [Keys -> Row], NEW me \in Passes, NEW s, NEW l, NEW f,
           NEW k \in Keys
    PROVE  AppliedAs(Applied(rows0[k], me.view[k], me.got[k], k \in s, k \in l, k \in f),
                     rows0[k], me.view[k], me.got[k], k \in s, k \in l, k \in f)
<1>1. rows0[k] \in Row /\ me.view[k] \in Row /\ me.got[k] \in Copy
  BY DEF Passes
<1>2. \A x, y, z \in BOOLEAN :
        AppliedAs(Applied(rows0[k], me.view[k], me.got[k], x, y, z),
                  rows0[k], me.view[k], me.got[k], x, y, z)
  BY <1>1, AppliedRow
<1>3. (k \in s) \in BOOLEAN /\ (k \in l) \in BOOLEAN /\ (k \in f) \in BOOLEAN
  OBVIOUS
<1> QED
  BY <1>2, <1>3, Zenon

\* A write that is not the last keeps the order and what was done.
LEMMA ApplyKept ==
    ASSUME NEW rows0 \in [Keys -> Row], NEW rows \in [Keys -> Row],
           NEW me \in Passes, NEW t \in Passes,
           NEW s \in SUBSET me.settle, NEW l \in SUBSET me.land, NEW f \in SUBSET me.flag,
           me.step = "apply", ApplyOf(rows0, me), Writes(me, s, l, f),
           \A k \in Keys : rows[k] = Applied(rows0[k], me.view[k], me.got[k], k \in s, k \in l, k \in f),
           Alike(t, me), t.settle = me.settle \ s, t.land = me.land \ l, t.flag = me.flag \ f
    PROVE  ApplyOf(rows, t)
<1> DEFINE writes == mergeWrites(me.view, me.got)
           sends == mergeSends(me.view, me.got)
<1>1. /\ me.land \subseteq writes /\ me.flag \subseteq sends
      /\ me.land # writes \/ me.flag # sends => me.settle = {}
      /\ me.flag # sends => me.land = {}
      /\ \A k \in Keys :
          /\ k \in writes \ me.land => Came(rows0[k], me.got[k])
          /\ k \in sends \ me.flag => rows0[k].pending
          /\ k \notin writes \ me.land /\ k \notin sends \ me.flag => AsRead(rows0[k], me.view[k])
  BY DEF ApplyOf
<1>2. t.view = me.view /\ t.got = me.got
  BY DEF Alike
<1>3. \A k \in Keys : AppliedAs(rows[k], rows0[k], me.view[k], me.got[k], k \in s, k \in l, k \in f)
  <2> TAKE k \in Keys
  <2>1. rows[k] = Applied(rows0[k], me.view[k], me.got[k], k \in s, k \in l, k \in f)
    OBVIOUS
  <2> QED
    BY <2>1, AppliedRows
<1> HIDE DEF writes, sends
<1>4. /\ t.land \subseteq writes /\ t.flag \subseteq sends
      /\ t.land # writes \/ t.flag # sends => t.settle = {}
      /\ t.flag # sends => t.land = {}
  BY <1>1 DEF Writes
<1>5. ASSUME NEW k \in Keys
      PROVE  /\ k \in writes \ t.land => Came(rows[k], me.got[k])
             /\ k \in sends \ t.flag => rows[k].pending
             /\ k \notin writes \ t.land /\ k \notin sends \ t.flag => AsRead(rows[k], me.view[k])
  <2>1. AppliedAs(rows[k], rows0[k], me.view[k], me.got[k], k \in s, k \in l, k \in f)
    BY <1>3
  <2>2. k \in writes \ t.land => Came(rows[k], me.got[k])
    <3>1. CASE k \in l
      BY <2>1, <3>1 DEF AppliedAs
    <3>2. CASE k \in writes \ me.land
      <4>1. s = {} /\ k \notin l /\ Came(rows0[k], me.got[k])
        BY <1>1, <3>2
      <4> QED
        BY <2>1, <4>1 DEF AppliedAs, Came
    <3> QED
      BY <3>1, <3>2
  <2>3. k \in sends \ t.flag => rows[k].pending
    <3>1. CASE k \in f
      BY <2>1, <3>1 DEF AppliedAs
    <3>2. CASE k \in sends \ me.flag
      <4>1. s = {} /\ l = {} /\ k \notin f /\ rows0[k].pending
        BY <1>1, <3>2
      <4> QED
        BY <2>1, <4>1 DEF AppliedAs
    <3> QED
      BY <3>1, <3>2
  <2>4. ASSUME k \notin writes \ t.land, k \notin sends \ t.flag PROVE AsRead(rows[k], me.view[k])
    <3>1. k \notin l /\ k \notin f /\ AsRead(rows0[k], me.view[k])
      BY <1>1, <2>4
    <3> QED
      BY <2>1, <3>1 DEF AppliedAs
  <2> QED
    BY <2>2, <2>3, <2>4
<1> QED
  BY <1>2, <1>4, <1>5 DEF ApplyOf, writes, sends

\* mergeById, mergeByDay: a row neither written nor sent is there neither way.
LEMMA MergeLeaves ==
    ASSUME NEW me \in Passes, NEW k \in Keys,
           k \notin mergeWrites(me.view, me.got), k \notin mergeSends(me.view, me.got)
    PROVE  ~Live(me.got[k]) /\ ~Live(me.view[k])
<1>1. me.view[k] \in Row /\ me.got[k] \in Copy
  BY DEF Passes
<1> QED
  BY <1>1 DEF mergeWrites, mergeSends, firstUploadRows, AccountHolds, Live, Keys, Row, States

\* Once all is written, a row that does not wait is the account's copy.
LEMMA MergeSettles ==
    ASSUME NEW rows0 \in [Keys -> Row], NEW rows \in [Keys -> Row], NEW me \in Passes,
           me.step = "apply", ApplyOf(rows0, me), NEW k \in Keys,
           rows[k] = Applied(rows0[k], me.view[k], me.got[k],
                             k \in me.settle, k \in me.land, k \in me.flag),
           ~rows[k].pending
    PROVE  Same(rows[k], me.got[k]) /\ (Live(rows[k]) => Live(me.got[k]))
<1> DEFINE writes == mergeWrites(me.view, me.got)
           sends == mergeSends(me.view, me.got)
<1>1. /\ me.land \subseteq writes /\ me.flag \subseteq sends
      /\ me.land # writes \/ me.flag # sends => me.settle = {}
      /\ me.flag # sends => me.land = {}
      /\ k \in writes \ me.land => Came(rows0[k], me.got[k])
      /\ k \in sends \ me.flag => rows0[k].pending
      /\ k \notin writes \ me.land /\ k \notin sends \ me.flag => AsRead(rows0[k], me.view[k])
  BY DEF ApplyOf
<1>2. AppliedAs(rows[k], rows0[k], me.view[k], me.got[k], k \in me.settle, k \in me.land, k \in me.flag)
  BY AppliedRows
<1>3. k \notin me.flag
  BY <1>2 DEF AppliedAs
<1>4. k \notin writes /\ k \notin sends => ~Live(me.got[k]) /\ ~Live(me.view[k])
  BY MergeLeaves
<1> HIDE DEF writes, sends
<1>5. k \notin sends
  BY <1>1, <1>2, <1>3 DEF AppliedAs
<1>6. CASE k \in writes
  <2>1. Came(rows[k], me.got[k])
    BY <1>1, <1>2, <1>3, <1>6 DEF AppliedAs
  <2> QED
    BY <2>1 DEF Came, Same
<1>7. CASE k \notin writes
  <2>1. AsRead(rows[k], me.view[k])
    BY <1>1, <1>2, <1>3, <1>5, <1>7 DEF AppliedAs
  <2> QED
    BY <1>4, <1>5, <1>7, <2>1 DEF AsRead, Same
<1> QED
  BY <1>6, <1>7

LEMMA ApplyStep == Types /\ Known /\ ReadsHold /\ ApplyHolds /\ [Next]_vars => ApplyHolds'
<1> SUFFICES ASSUME Types, Known, ReadsHold, ApplyHolds, [Next]_vars PROVE ApplyHolds'
  OBVIOUS
<1> USE DEF phone, account
<1>a. /\ row \in [Phones -> [Keys -> Row]] /\ pass \in [Phones -> Passes] /\ version \in Nat
      /\ \A p \in Phones : /\ pass[p] \in Passes /\ row[p] \in [Keys -> Row]
                           /\ pass[p].view \in [Keys -> Row] /\ pass[p].got \in [Keys -> Copy]
      /\ \A p \in Phones : row = [row EXCEPT ![p] = row[p]] /\ pass = [pass EXCEPT ![p] = pass[p]]
  BY ReadPass DEF Types, PhoneTypes, AccountTypes
<1>b. ASSUME UNCHANGED <<row, pass>> PROVE ApplyHolds'
  BY <1>b DEF ApplyHolds
<1>c. ASSUME NEW p \in Phones, NEW rows \in [Keys -> Row], NEW s \in Passes,
             row' = [row EXCEPT ![p] = rows], pass' = [pass EXCEPT ![p] = s], ApplyOf(rows, s)
      PROVE  ApplyHolds'
  <2>1. \A q \in Phones : /\ row'[q] = IF q = p THEN rows ELSE row[q]
                          /\ pass'[q] = IF q = p THEN s ELSE pass[q]
    BY <1>a, <1>c
  <2> QED
    BY <1>c, <2>1 DEF ApplyHolds
<1>d. \A p \in Phones : ApplyOf(row[p], pass[p])
  BY DEF ApplyHolds
<1>e. \A rows \in [Keys -> Row], s \in Passes : s.step # "apply" => ApplyOf(rows, s)
  BY DEF ApplyOf
\* A step that leaves no first link half written.
<1>f. ASSUME NEW p \in Phones, NEW rows \in [Keys -> Row], NEW s \in Passes,
             row' = [row EXCEPT ![p] = rows], pass' = [pass EXCEPT ![p] = s], s.step # "apply"
      PROVE  ApplyHolds'
  BY <1>c, <1>e, <1>f
<1>2. ASSUME NEW p \in Phones, NEW k \in Keys, Edit(p, k) \/ Delete(p, k) PROVE ApplyHolds'
  <2>1. PICK st \in States : Write(p, k, st)
    BY <1>2, EditOrDelete
  <2>2. PICK rows \in [Keys -> Row] :
          /\ row' = [row EXCEPT ![p] = rows]
          /\ rows[k].ver = version + 1 /\ rows[k].pending /\ \A j \in Keys \ {k} : rows[j] = row[p][j]
    BY <2>1, WriteFacts
  <2>3. pass' = pass
    BY <2>1 DEF Write
  <2>4. rows[k].ver # pass[p].view[k].ver
    <3>1. pass[p].view[k].ver <= version /\ pass[p].view[k].ver \in Nat
      BY <1>a DEF Known, PhonesKnown, KnownPass, KnownRow, Row
    <3> QED
      BY <1>a, <2>2, <3>1
  <2>5. AsRead(rows[k], pass[p].view[k]) /\ Came(rows[k], pass[p].got[k])
    BY <2>2, <2>4 DEF AsRead, Came
  <2>6. ApplyOf(rows, pass[p])
    BY <1>d, <2>2, <2>5 DEF ApplyOf
  <2> QED
    BY <1>a, <1>c, <2>2, <2>3, <2>6
<1>3. ASSUME NEW p \in Phones, NEW k \in Keys, Age(p, k) PROVE ApplyHolds'
  <2>1. PICK rows \in [Keys -> Row] :
          /\ row' = [row EXCEPT ![p] = rows] /\ row[p][k].st = "gone"
          /\ rows[k].ver = row[p][k].ver /\ rows[k].pending = row[p][k].pending
          /\ rows[k].st = "old" /\ \A j \in Keys \ {k} : rows[j] = row[p][j]
    BY <1>3, AgeFacts
  <2>2. pass' = pass
    BY <1>3 DEF Age
  <2>3. row[p][k] \in Row /\ rows[k] \in Row /\ pass[p].view[k] \in Row
    BY <1>a
  <2>4. AsRead(row[p][k], pass[p].view[k]) => AsRead(rows[k], pass[p].view[k])
    BY <2>1, <2>3, AsReadKept
  <2>5. Came(row[p][k], pass[p].got[k]) => Came(rows[k], pass[p].got[k])
    BY <2>1 DEF Came, Live
  <2>6. ApplyOf(rows, pass[p])
    BY <1>d, <2>1, <2>4, <2>5 DEF ApplyOf
  <2> QED
    BY <1>a, <1>c, <2>1, <2>2, <2>6
<1>4. ASSUME NEW p \in Phones, NEW a \in Accounts, SignIn(p, a) PROVE ApplyHolds'
  BY <1>4, <1>b DEF SignIn
<1>5. ASSUME NEW p \in Phones, NEW a \in Accounts, StartPass(p, a) PROVE ApplyHolds'
  <2>1. row' = row
    BY <1>5 DEF StartPass
  <2>2. UNCHANGED pass \/ \E s \in Passes : pass' = [pass EXCEPT ![p] = s] /\ s.step # "apply"
    BY <1>5, StartFacts
  <2> QED
    BY <1>a, <1>b, <1>f, <2>1, <2>2
<1>6. ASSUME NEW p \in Phones, LinkWithoutRecords(p) \/ EndPass(p) PROVE ApplyHolds'
  BY <1>6, <1>a, <1>f, NoPassFacts DEF LinkWithoutRecords, EndPass
<1>8. ASSUME NEW p \in Phones, StoreBatch(p) PROVE ApplyHolds'
  <2>1. PICK batch \in SUBSET pass[p].queue : Stored(p, batch)
    BY <1>8, StoreFacts
  <2>2. row' = row
    BY <1>8 DEF StoreBatch
  <2>3. \A q \in Phones : /\ pass'[q].view = pass[q].view /\ pass'[q].got = pass[q].got
                          /\ pass'[q].settle = pass[q].settle /\ pass'[q].land = pass[q].land
                          /\ pass'[q].flag = pass[q].flag
                          /\ pass'[q].step = IF q = p THEN "confirm" ELSE pass[q].step
    BY <2>1 DEF Stored, Alike
  <2>4. \A q \in Phones : ApplyOf(row[q], pass'[q])
    BY <1>d, <2>3 DEF ApplyOf
  <2> QED
    BY <2>2, <2>4 DEF ApplyHolds
<1>9. ASSUME NEW p \in Phones, ConfirmBatch(p) PROVE ApplyHolds'
  <2>1. PICK cleared \in SUBSET pass[p].batch, rows \in [Keys -> Row], s \in Passes :
          ConfirmEffect(p, cleared, rows, s)
    BY <1>9, ConfirmFacts
  <2>2. row' = [row EXCEPT ![p] = rows] /\ pass' = [pass EXCEPT ![p] = s] /\ s.step # "apply"
    BY <2>1 DEF ConfirmEffect
  <2> QED
    BY <1>f, <2>2
<1>10. ASSUME NEW p \in Phones, UploadDone(p) PROVE ApplyHolds'
  <2>1. \E s \in Passes : pass' = [pass EXCEPT ![p] = s] /\ s.step # "apply"
    BY <1>10, UploadDoneFacts, NoPassFacts
  <2> QED
    BY <1>10, <1>a, <1>f, <2>1 DEF UploadDone
<1>11. ASSUME NEW p \in Phones, Pull(p) PROVE ApplyHolds'
  <2>1. \E s \in Passes : pass' = [pass EXCEPT ![p] = s] /\ s.step # "apply"
    BY <1>11, PullFacts DEF PullEffect
  <2>2. row' = [row EXCEPT ![p] = row[p]]
    BY <1>11, <1>a DEF Pull
  <2> QED
    BY <1>a, <1>f, <2>1, <2>2
<1>12. ASSUME NEW p \in Phones, LandPulled(p) PROVE ApplyHolds'
  <2>1. PICK now \in SUBSET pass[p].land, rows \in [Keys -> Row], s \in Passes : LandEffect(p, now, rows, s)
    BY <1>12, LandFacts
  <2>2. row' = [row EXCEPT ![p] = rows] /\ pass' = [pass EXCEPT ![p] = s] /\ s.step # "apply"
    BY <2>1, NoPassFacts DEF LandEffect
  <2> QED
    BY <1>f, <2>2
<1>13. ASSUME NEW p \in Phones, Snapshot(p) PROVE ApplyHolds'
  <2>1. PICK seen \in SUBSET Keys, s \in Passes : SnapshotEffect(p, seen, s)
    BY <1>13, SnapshotFacts
  <2>2. row' = row /\ pass[p].step = "snapshot"
    BY <1>13 DEF Snapshot
  <2>3. \A k \in Keys : AsRead(row[p][k], pass[p].view[k])
    BY <2>2 DEF ReadsHold, ReadsOf, Reading
  <2>4. /\ pass' = [pass EXCEPT ![p] = s] /\ s.view = pass[p].view
        /\ s.land = mergeWrites(s.view, s.got) /\ s.flag = mergeSends(s.view, s.got)
    BY <2>1 DEF SnapshotEffect
  <2>5. ApplyOf(row[p], s)
    BY <2>3, <2>4 DEF ApplyOf
  <2> QED
    BY <1>a, <1>c, <2>2, <2>4, <2>5
<1>14. ASSUME NEW p \in Phones, ApplyFirstLink(p) PROVE ApplyHolds'
  <2>1. PICK s \in SUBSET pass[p].settle, l \in SUBSET pass[p].land, f \in SUBSET pass[p].flag,
             rows \in [Keys -> Row], t \in Passes : ApplyEffect(p, s, l, f, rows, t)
    BY <1>14, ApplyFacts
  <2>2. row' = [row EXCEPT ![p] = rows] /\ pass' = [pass EXCEPT ![p] = t]
    BY <2>1 DEF ApplyEffect
  <2>3. CASE t.step # "apply"
    BY <1>f, <2>2, <2>3
  <2>4. CASE t.step = "apply"
    <3>1. pass[p].step = "apply" /\ ApplyOf(row[p], pass[p])
      BY <1>14, <1>d DEF ApplyFirstLink
    <3>2. /\ Writes(pass[p], s, l, f) /\ Alike(t, pass[p])
          /\ t.settle = pass[p].settle \ s /\ t.land = pass[p].land \ l /\ t.flag = pass[p].flag \ f
          /\ \A k \in Keys : rows[k] = Applied(row[p][k], pass[p].view[k], pass[p].got[k],
                                             k \in s, k \in l, k \in f)
      BY <2>1, <2>4 DEF ApplyEffect
    <3>3. row[p] \in [Keys -> Row] /\ pass[p] \in Passes
      BY <1>a
    <3>4. ApplyOf(rows, t)
      BY <3>1, <3>2, <3>3, ApplyKept
    <3> QED
      BY <1>c, <2>2, <3>4
  <2> QED
    BY <2>3, <2>4
<1>15. ASSUME NEW p \in Phones, SignOut(p) \/ SaveSignOut(p) PROVE ApplyHolds'
  BY <1>15, <1>b DEF SignOut, SaveSignOut
<1>17. ASSUME NEW a \in Accounts, GiveConsent(a) \/ WithdrawConsent(a) PROVE ApplyHolds'
  BY <1>17, <1>b DEF GiveConsent, WithdrawConsent
<1>19. CASE UNCHANGED vars
  BY <1>19, <1>b DEF vars
<1> QED
  BY <1>2, <1>3, <1>4, <1>5, <1>6, <1>8, <1>9, <1>10, <1>11, <1>12, <1>13, <1>14, <1>15,
     <1>17, <1>19 DEF Next, PassStep

\* What a first link was told still stands under the consent it read, or the
\* row that changed is among those that arrived since.
GotStands(me, c, copies) ==
    me.step = "apply" /\ c.given /\ c.withdrawnAt <= me.givenAt =>
        \A k \in Keys : /\ k \in me.late \/ me.got[k] = copies[k]
                        /\ Present(me.got[k]) => Present(copies[k])
GotHolds == \A p \in Phones : GotStands(pass[p], consent[pass[p].acct], srv[pass[p].acct])

\* What one stored batch makes of an account's rows.
LEMMA StoredCopies ==
    ASSUME Types, NEW p \in Phones, StoreBatch(p),
           NEW batch \in SUBSET pass[p].queue, NEW copies \in [Keys -> Copy],
           \A k \in Keys : copies[k] = IF k \in batch THEN CopyOf(pass[p].view[k])
                                     ELSE srv[pass[p].acct][k]
    PROVE  \A k \in Keys : /\ k \in batch => Present(copies[k])
                           /\ k \notin batch => copies[k] = srv[pass[p].acct][k]
                           /\ Present(srv[pass[p].acct][k]) => Present(copies[k])
BY DEF CopyOf, Present

LEMMA GotStep == Types /\ Dates /\ GotHolds /\ [Next]_vars => GotHolds'
<1> SUFFICES ASSUME Types, Dates, GotHolds, [Next]_vars PROVE GotHolds'
  OBVIOUS
<1> USE DEF phone, account
<1>a. /\ pass \in [Phones -> Passes] /\ consent \in [Accounts -> Consents]
      /\ srv \in [Accounts -> [Keys -> Copy]] /\ instant \in Nat
      /\ \A p \in Phones : pass[p] \in Passes /\ (pass[p].step # "idle" => pass[p].acct \in Accounts)
      /\ \A p \in Phones : pass[p].givenAt \in Nat
  BY ReadPass DEF Types, PhoneTypes, AccountTypes, Passes
<1>b. ASSUME UNCHANGED <<pass, consent, srv>> PROVE GotHolds'
  BY <1>b DEF GotHolds
<1>c. ASSUME NEW p \in Phones, NEW s \in Passes, pass' = [pass EXCEPT ![p] = s],
             UNCHANGED <<consent, srv>>, GotStands(s, consent[s.acct], srv[s.acct])
      PROVE  GotHolds'
  BY <1>a, <1>c DEF GotHolds
<1>d. \A s \in Passes : s.step # "apply" => GotStands(s, consent[s.acct], srv[s.acct])
  BY DEF GotStands
<1>e. ASSUME NEW p \in Phones, UNCHANGED <<consent, srv>>,
             \E s \in Passes : pass' = [pass EXCEPT ![p] = s] /\ s.step # "apply"
      PROVE  GotHolds'
  BY <1>c, <1>d, <1>e
<1>2. ASSUME NEW p \in Phones, NEW k \in Keys, Edit(p, k) \/ Delete(p, k) \/ Age(p, k) PROVE GotHolds'
  BY <1>2, <1>b DEF Edit, Delete, Age, Write
<1>4. ASSUME NEW p \in Phones, NEW a \in Accounts, SignIn(p, a) PROVE GotHolds'
  BY <1>4, <1>b DEF SignIn
<1>5. ASSUME NEW p \in Phones, NEW a \in Accounts, StartPass(p, a) PROVE GotHolds'
  <2>1. UNCHANGED <<consent, srv>>
    BY <1>5 DEF StartPass
  <2>2. UNCHANGED pass \/ \E s \in Passes : pass' = [pass EXCEPT ![p] = s] /\ s.step # "apply"
    BY <1>5, StartFacts
  <2> QED
    BY <1>b, <1>e, <2>1, <2>2
<1>6. ASSUME NEW p \in Phones, LinkWithoutRecords(p) \/ EndPass(p) PROVE GotHolds'
  BY <1>6, <1>e, NoPassFacts DEF LinkWithoutRecords, EndPass
<1>8. ASSUME NEW p \in Phones, StoreBatch(p) PROVE GotHolds'
  <2> DEFINE a == pass[p].acct
  <2>1. PICK batch \in SUBSET pass[p].queue, copies \in [Keys -> Copy] :
          /\ srv' = [srv EXCEPT ![a] = copies]
          /\ \A k \in Keys : copies[k] = IF k \in batch THEN CopyOf(pass[p].view[k]) ELSE srv[a][k]
          /\ Stored(p, batch)
    BY <1>8, StoreFacts
  <2>2. consent' = consent /\ a \in Accounts
    BY <1>8, StoreFacts DEF StoreBatch
  <2>3. \A k \in Keys : /\ k \notin batch => copies[k] = srv[a][k]
                        /\ Present(srv[a][k]) => Present(copies[k])
    BY <1>8, <2>1, StoredCopies
  <2> SUFFICES ASSUME NEW q \in Phones
               PROVE  GotStands(pass'[q], consent[pass'[q].acct], srv'[pass'[q].acct])
    BY <2>2 DEF GotHolds
  <2>4. /\ pass'[q].acct = pass[q].acct /\ pass'[q].got = pass[q].got
        /\ pass'[q].givenAt = pass[q].givenAt
        /\ pass'[q].late = IF pass[q].acct = a THEN pass[q].late \cup batch ELSE pass[q].late
        /\ pass'[q].step = "apply" => pass[q].step = "apply"
    BY <2>1 DEF Stored, Alike
  <2>5. GotStands(pass[q], consent[pass[q].acct], srv[pass[q].acct])
    BY DEF GotHolds
  <2>6. CASE pass[q].acct = a
    <3>1. srv'[a] = copies
      BY <1>a, <2>1, <2>2
    <3> QED
      BY <2>3, <2>4, <2>5, <2>6, <3>1 DEF GotStands
  <2>7. CASE pass[q].acct # a /\ pass[q].step = "apply"
    <3>1. srv'[pass[q].acct] = srv[pass[q].acct]
      BY <1>a, <2>1, <2>2, <2>7
    <3> QED
      BY <2>4, <2>5, <2>7, <3>1 DEF GotStands
  <2> QED
    BY <2>4, <2>6, <2>7 DEF GotStands
<1>9. ASSUME NEW p \in Phones, ConfirmBatch(p) PROVE GotHolds'
  <2>1. \E s \in Passes : pass' = [pass EXCEPT ![p] = s] /\ s.step # "apply"
    BY <1>9, ConfirmFacts DEF ConfirmEffect
  <2> QED
    BY <1>9, <1>e, <2>1 DEF ConfirmBatch
<1>10. ASSUME NEW p \in Phones, UploadDone(p) PROVE GotHolds'
  <2>1. \E s \in Passes : pass' = [pass EXCEPT ![p] = s] /\ s.step # "apply"
    BY <1>10, UploadDoneFacts, NoPassFacts
  <2> QED
    BY <1>10, <1>e, <2>1 DEF UploadDone
<1>11. ASSUME NEW p \in Phones, Pull(p) PROVE GotHolds'
  <2>1. \E s \in Passes : pass' = [pass EXCEPT ![p] = s] /\ s.step # "apply"
    BY <1>11, PullFacts DEF PullEffect
  <2> QED
    BY <1>11, <1>e, <2>1 DEF Pull
<1>12. ASSUME NEW p \in Phones, LandPulled(p) PROVE GotHolds'
  <2>1. PICK now \in SUBSET pass[p].land, rows \in [Keys -> Row], s \in Passes : LandEffect(p, now, rows, s)
    BY <1>12, LandFacts
  <2>2. pass' = [pass EXCEPT ![p] = s] /\ s.step # "apply"
    BY <2>1, NoPassFacts DEF LandEffect
  <2> QED
    BY <1>12, <1>e, <2>2 DEF LandPulled
<1>13. ASSUME NEW p \in Phones, Snapshot(p) PROVE GotHolds'
  <2>1. PICK seen \in SUBSET Keys, s \in Passes : SnapshotEffect(p, seen, s)
    BY <1>13, SnapshotFacts
  <2>2. ~Present(NoCopy)
    BY DEF Present, NoCopy
  <2>3. GotStands(s, consent[s.acct], srv[s.acct])
    BY <2>1, <2>2 DEF SnapshotEffect, GotStands
  <2>4. pass' = [pass EXCEPT ![p] = s]
    BY <2>1 DEF SnapshotEffect
  <2> QED
    BY <1>13, <1>c, <2>3, <2>4 DEF Snapshot
<1>14. ASSUME NEW p \in Phones, ApplyFirstLink(p) PROVE GotHolds'
  <2>1. PICK s \in SUBSET pass[p].settle, l \in SUBSET pass[p].land, f \in SUBSET pass[p].flag,
             rows \in [Keys -> Row], t \in Passes : ApplyEffect(p, s, l, f, rows, t)
    BY <1>14, ApplyFacts
  <2>2. /\ pass' = [pass EXCEPT ![p] = t] /\ t.acct = pass[p].acct /\ t.givenAt = pass[p].givenAt
        /\ t.got = pass[p].got /\ t.late = pass[p].late
    BY <2>1 DEF ApplyEffect, Alike
  <2>3. UNCHANGED <<consent, srv>> /\ pass[p].step = "apply"
    BY <1>14 DEF ApplyFirstLink
  <2>4. GotStands(t, consent[t.acct], srv[t.acct])
    BY <2>2, <2>3 DEF GotHolds, GotStands
  <2> QED
    BY <1>c, <2>2, <2>3, <2>4
<1>15. ASSUME NEW p \in Phones, SignOut(p) \/ SaveSignOut(p) PROVE GotHolds'
  BY <1>15, <1>b DEF SignOut, SaveSignOut
<1>16. ASSUME NEW a \in Accounts, GiveConsent(a) PROVE GotHolds'
  <2>1. PICK c \in Consents : /\ consent' = [consent EXCEPT ![a] = c] /\ c.withdrawnAt = consent[a].withdrawnAt
    BY <1>16, GiveFacts
  <2>2. UNCHANGED <<pass, srv>>
    BY <1>16 DEF GiveConsent
  <2> SUFFICES ASSUME NEW q \in Phones, pass[q].step = "apply"
               PROVE  GotStands(pass[q], consent'[pass[q].acct], srv[pass[q].acct])
    BY <2>2 DEF GotHolds, GotStands
  <2>3. Dated(consent[pass[q].acct], pass[q].givenAt, instant) /\ pass[q].givenAt # 0
    BY DEF Dates, PassDated
  <2>4. /\ pass[q].acct # a => consent'[pass[q].acct] = consent[pass[q].acct]
        /\ pass[q].acct = a => consent'[pass[q].acct].withdrawnAt = consent[pass[q].acct].withdrawnAt
    BY <1>a, <2>1
  <2>5. consent[pass[q].acct] \in Consents
    BY <1>a
  <2> QED
    BY <1>a, <2>3, <2>4, <2>5 DEF GotHolds, GotStands, Dated, Consents
<1>17. ASSUME NEW a \in Accounts, WithdrawConsent(a) PROVE GotHolds'
  <2>1. PICK c \in Consents : /\ consent' = [consent EXCEPT ![a] = c] /\ ~c.given
    BY <1>17, WithdrawFacts
  <2>2. pass' = pass /\ \A b \in Accounts \ {a} : srv'[b] = srv[b]
    BY <1>17, <1>a DEF WithdrawConsent
  <2> SUFFICES ASSUME NEW q \in Phones, pass[q].step = "apply"
               PROVE  GotStands(pass[q], consent'[pass[q].acct], srv'[pass[q].acct])
    BY <2>2 DEF GotHolds, GotStands
  <2>3. CASE pass[q].acct = a
    BY <1>a, <2>1, <2>3 DEF GotStands
  <2>4. CASE pass[q].acct # a
    BY <1>a, <2>1, <2>2, <2>4 DEF GotHolds
  <2> QED
    BY <2>3, <2>4
<1>19. CASE UNCHANGED vars
  BY <1>19, <1>b DEF vars
<1> QED
  BY <1>2, <1>4, <1>5, <1>6, <1>8, <1>9, <1>10, <1>11, <1>12, <1>13, <1>14, <1>15, <1>16,
     <1>17, <1>19 DEF Next, PassStep

-----------------------------------------------------------------------------
(* Settled copies: what the link promises.                                   *)

\* Either one account, with a write of several transactions and a pass beside a
\* sign-out, or any number of them, with each write and each sign-out whole.
OneAccount == \A a, b \in Accounts : a = b
Whole == OneAccount \/ (~SplitWrites /\ ~SplitSignOut)

\* A link, with the rows past its cursor, that p has stored or is about to save again.
Held(p, l, b) ==
    \/ l = link[p] /\ b = behind[p]
    \/ leaving[p].on /\ l = leaving[p].link /\ b = leaving[p].behind

Syncs(l, a, c) ==
    /\ l.last = a /\ c.given /\ l.records = a
    /\ l.joinedAt # 0 /\ c.withdrawnAt <= l.joinedAt

\* A settled row is the account's, or a newer arrival lies past the cursor; a
\* live one is there on the account in some form.
SettledAt(own, copy, b, k) ==
    ~own.pending => (Same(own, copy) \/ k \in b) /\ (Live(own) => Present(copy))

\* Between a pull and its landing.
PulledAt(own, me, copy, k) ==
    /\ k \in me.late \/ me.got[k] = copy
    /\ Present(me.got[k]) => Present(copy)
    /\ k \in me.land => Present(me.got[k])
    /\ k \notin me.land /\ k \notin me.late /\ ~own.pending => Same(own, me.got[k])

HoldOf(l, b, rows, me, consents, copies) ==
    \A a \in Accounts : Syncs(l, a, consents[a]) =>
        /\ me.step \in {"bare", "snapshot", "apply"} => me.acct # a
        /\ me.step = "confirm" => me.batch \subseteq b /\ \A k \in me.batch : Present(copies[a][k])
        /\ me.step = "land" => /\ me.late \subseteq b
                               /\ \A k \in Keys : PulledAt(rows[k], me, copies[a][k], k)
        /\ \A k \in Keys : SettledAt(rows[k], copies[a][k], b, k)
LinkHolds ==
    \A p \in Phones : \A l \in Link, b \in SUBSET Keys :
        Held(p, l, b) => HoldOf(l, b, row[p], pass[p], consent, srv)

\* A pass that sends or lands is of the account its link syncs with.
LEMMA SendsForLink ==
    ASSUME Types, Linking, Whole, NEW p \in Phones, NEW l \in Link, NEW b \in SUBSET Keys,
           Held(p, l, b), NEW a \in Accounts, Syncs(l, a, consent[a]), pass[p].step \in Sending
    PROVE  a = pass[p].acct
<1>1. pass[p].acct \in Accounts
  BY DEF Types, PhoneTypes, Sending
<1>2. CASE OneAccount
  BY <1>1, <1>2 DEF OneAccount
<1>3. CASE ~OneAccount
  BY <1>3 DEF Whole, Linking, Held, Syncs
<1> QED
  BY <1>2, <1>3

\* Without the token no sign-out is under way.
LEMMA HeldBySession ==
    ASSUME Linking, NEW p \in Phones, session[p] # NoAccount, NEW l, NEW b, Held(p, l, b)
    PROVE  l = link[p] /\ b = behind[p]
BY DEF Linking, Held

\* Syncing is what the code's syncPassFor decides by.
LEMMA FirstLinkSyncsNot ==
    ASSUME NEW l \in Link, NEW a \in Accounts, syncPassFor(l, a) = "first-link"
    PROVE  ~Syncs(l, a, consent[a])
BY DEF syncPassFor, hasLinkedTo, Joined, Syncs

LEMMA SyncsWithIs ==
    ASSUME NEW p \in Phones, NEW a \in Accounts
    PROVE  SyncsWith(p, a) <=> Syncs(link[p], a, consent[a])
BY DEF SyncsWith, hasLinkedTo, Joined, Syncs

\* A row settled on a link stays settled through what the window does to it.
LEMMA HoldAge ==
    ASSUME NEW l \in Link, NEW b \in SUBSET Keys, NEW rows0 \in [Keys -> Row], NEW rows \in [Keys -> Row],
           NEW me \in Passes, NEW j \in Keys, HoldOf(l, b, rows0, me, consent, srv),
           \/ rows[j].pending
           \/ /\ rows0[j].st = "gone" /\ rows[j].st = "old" /\ rows[j].ver = rows0[j].ver
              /\ rows[j].pending = rows0[j].pending,
           \A k \in Keys \ {j} : rows[k] = rows0[k]
    PROVE  HoldOf(l, b, rows, me, consent, srv)
<1>1. \A copy : \/ rows[j].pending \/ (Same(rows0[j], copy) => Same(rows[j], copy))
  BY DEF Same, Live
<1>2. \A copy : SettledAt(rows0[j], copy, b, j) => SettledAt(rows[j], copy, b, j)
  BY <1>1 DEF SettledAt, Live
<1>3. \A copy : PulledAt(rows0[j], me, copy, j) => PulledAt(rows[j], me, copy, j)
  BY <1>1 DEF PulledAt
<1>4. ASSUME NEW a \in Accounts, Syncs(l, a, consent[a])
      PROVE  /\ me.step = "land" => \A k \in Keys : PulledAt(rows[k], me, srv[a][k], k)
             /\ \A k \in Keys : SettledAt(rows[k], srv[a][k], b, k)
  BY <1>2, <1>3, <1>4 DEF HoldOf
<1> QED
  BY <1>4 DEF HoldOf

\* A stored batch lies past the cursor of every link of its account.
LEMMA StoreHolds ==
    ASSUME Types, Linking, Whole, LinkHolds, NEW p \in Phones, StoreBatch(p)
    PROVE  LinkHolds'
<1> DEFINE a == pass[p].acct
<1>1. PICK batch \in SUBSET pass[p].queue, copies \in [Keys -> Copy] :
        /\ srv' = [srv EXCEPT ![a] = copies]
        /\ \A k \in Keys : copies[k] = IF k \in batch THEN CopyOf(pass[p].view[k]) ELSE srv[a][k]
        /\ Stored(p, batch)
  BY StoreFacts
<1>2. /\ a \in Accounts /\ pass[p].step = "upload" /\ UNCHANGED <<row, link, consent>>
      /\ srv \in [Accounts -> [Keys -> Copy]] /\ batch \subseteq Keys
      /\ behind \in [Phones -> SUBSET Keys] /\ leaving \in [Phones -> Leavings]
  BY StoreFacts, ReadPass DEF StoreBatch, Types, PhoneTypes, AccountTypes, Passes
<1>3. \A k \in Keys : /\ k \in batch => Present(copies[k])
                      /\ k \notin batch => copies[k] = srv[a][k]
                      /\ Present(srv[a][k]) => Present(copies[k])
  BY <1>1, StoredCopies
<1>4. \A b \in Accounts : srv'[b] = IF b = a THEN copies ELSE srv[b]
  BY <1>1, <1>2
<1> SUFFICES ASSUME NEW q \in Phones, NEW l \in Link, NEW b \in SUBSET Keys, Held(q, l, b)',
                    NEW d \in Accounts, Syncs(l, d, consent[d])
             PROVE  /\ pass'[q].step \in {"bare", "snapshot", "apply"} => pass'[q].acct # d
                    /\ pass'[q].step = "confirm" =>
                          pass'[q].batch \subseteq b /\ \A k \in pass'[q].batch : Present(srv'[d][k])
                    /\ pass'[q].step = "land" =>
                          /\ pass'[q].late \subseteq b
                          /\ \A k \in Keys : PulledAt(row[q][k], pass'[q], srv'[d][k], k)
                    /\ \A k \in Keys : SettledAt(row[q][k], srv'[d][k], b, k)
  BY <1>2 DEF LinkHolds, HoldOf
<1>5. PICK b0 \in SUBSET Keys : Held(q, l, b0) /\ b = IF l.last = a THEN b0 \cup batch ELSE b0
  <2>1. leaving[q].behind \in SUBSET Keys /\ behind[q] \in SUBSET Keys
    BY <1>2 DEF Leavings
  <2>2. /\ behind'[q] = IF link[q].last = a THEN behind[q] \cup batch ELSE behind[q]
        /\ leaving'[q].on = leaving[q].on /\ leaving'[q].link = leaving[q].link
        /\ leaving[q].on => leaving'[q].behind = IF leaving[q].link.last = a
                                THEN leaving[q].behind \cup batch ELSE leaving[q].behind
    BY <1>1 DEF Stored
  <2>3. \/ l = link[q] /\ b = behind'[q]
        \/ leaving[q].on /\ l = leaving[q].link /\ b = leaving'[q].behind
    BY <1>2, <2>2 DEF Held
  <2>4. CASE l = link[q] /\ b = behind'[q]
    BY <2>1, <2>2, <2>4 DEF Held
  <2>5. CASE leaving[q].on /\ l = leaving[q].link /\ b = leaving'[q].behind
    BY <2>1, <2>2, <2>5 DEF Held
  <2> QED
    BY <2>3, <2>4, <2>5
<1>6. l.last = d
  BY DEF Syncs
<1>7. /\ pass[q].step \in {"bare", "snapshot", "apply"} => pass[q].acct # d
      /\ pass[q].step = "confirm" =>
            pass[q].batch \subseteq b0 /\ \A k \in pass[q].batch : Present(srv[d][k])
      /\ pass[q].step = "land" =>
            /\ pass[q].late \subseteq b0
            /\ \A k \in Keys : PulledAt(row[q][k], pass[q], srv[d][k], k)
      /\ \A k \in Keys : SettledAt(row[q][k], srv[d][k], b0, k)
  BY <1>5 DEF LinkHolds, HoldOf
<1>8. pass[q].step \in Sending => d = pass[q].acct
  BY <1>5, SendsForLink
<1>9. /\ pass'[q].acct = pass[q].acct /\ pass'[q].got = pass[q].got /\ pass'[q].land = pass[q].land
      /\ pass'[q].late = IF pass[q].acct = a THEN pass[q].late \cup batch ELSE pass[q].late
      /\ q = p => pass'[q].step = "confirm" /\ pass'[q].batch = batch
      /\ q # p => pass'[q].step = pass[q].step /\ pass'[q].batch = pass[q].batch
  BY <1>1 DEF Stored, Alike
<1>a. pass[q].batch \in SUBSET Keys /\ pass[q].late \in SUBSET Keys
  BY ReadPass DEF Passes
<1>10. CASE d = a
  <2>1. srv'[d] = copies /\ b = b0 \cup batch
    BY <1>4, <1>5, <1>6, <1>10
  <2>2. \A k \in Keys : SettledAt(row[q][k], srv'[d][k], b, k)
    BY <1>3, <1>7, <1>10, <2>1 DEF SettledAt
  <2>3. pass'[q].step \in {"bare", "snapshot", "apply"} => pass'[q].acct # d
    BY <1>7, <1>9
  <2>4. pass'[q].step = "confirm" =>
           pass'[q].batch \subseteq b /\ \A k \in pass'[q].batch : Present(srv'[d][k])
    BY <1>a, <1>2, <1>3, <1>7, <1>9, <1>10, <2>1
  <2>5. ASSUME pass'[q].step = "land"
        PROVE  pass'[q].late \subseteq b /\ \A k \in Keys : PulledAt(row[q][k], pass'[q], srv'[d][k], k)
    <3>1. q # p /\ pass[q].step = "land" /\ pass[q].acct = a
      BY <1>8, <1>9, <1>10, <2>5 DEF Sending
    <3>2. pass'[q].late = pass[q].late \cup batch
      BY <1>9, <3>1
    <3>3. pass'[q].late \subseteq b
      BY <1>7, <2>1, <3>1, <3>2
    <3>4. ASSUME NEW k \in Keys PROVE PulledAt(row[q][k], pass'[q], copies[k], k)
      <4>1. PulledAt(row[q][k], pass[q], srv[a][k], k)
        BY <1>7, <1>10, <3>1
      <4>2. /\ k \in batch \/ copies[k] = srv[a][k]
            /\ Present(srv[a][k]) => Present(copies[k])
        BY <1>3
      <4>3. pass'[q].got = pass[q].got /\ pass'[q].land = pass[q].land
        BY <1>9
      <4> QED
        BY <3>2, <4>1, <4>2, <4>3 DEF PulledAt
    <3> QED
      BY <2>1, <3>3, <3>4
  <2> QED
    BY <2>2, <2>3, <2>4, <2>5
<1>11. CASE d # a
  <2>1. srv'[d] = srv[d] /\ b = b0
    BY <1>4, <1>5, <1>6, <1>11
  <2>2. q # p
    BY <1>2, <1>8, <1>11 DEF Sending
  <2>3. ASSUME pass'[q].step = "land"
        PROVE  pass'[q].late \subseteq b /\ \A k \in Keys : PulledAt(row[q][k], pass'[q], srv'[d][k], k)
    <3>1. pass[q].step = "land" /\ pass[q].acct # a
      BY <1>8, <1>9, <1>11, <2>2, <2>3 DEF Sending
    <3> QED
      BY <1>7, <1>9, <2>1, <3>1 DEF PulledAt
  <2> QED
    BY <1>7, <1>9, <2>1, <2>2, <2>3
<1> QED
  BY <1>10, <1>11

\* A step of one phone that changes neither a link nor an account.
LEMMA PhoneHolds ==
    ASSUME Types, LinkHolds, NEW p \in Phones, NEW rows \in [Keys -> Row], NEW s \in Passes,
           row' = [row EXCEPT ![p] = rows], pass' = [pass EXCEPT ![p] = s],
           UNCHANGED <<link, behind, leaving, consent, srv>>,
           \A l \in Link, b \in SUBSET Keys :
              Held(p, l, b) /\ HoldOf(l, b, row[p], pass[p], consent, srv)
                 => HoldOf(l, b, rows, s, consent, srv)
    PROVE  LinkHolds'
<1>1. \A q \in Phones : /\ row'[q] = IF q = p THEN rows ELSE row[q]
                        /\ pass'[q] = IF q = p THEN s ELSE pass[q]
  BY DEF Types, PhoneTypes
<1>2. \A q \in Phones, l \in Link, b \in SUBSET Keys : Held(q, l, b)' => Held(q, l, b)
  BY DEF Held
<1> QED
  BY <1>1, <1>2 DEF LinkHolds

\* A pass that asks nothing more of the link than that settled rows stay so.
LEMMA HoldQuiet ==
    ASSUME NEW l \in Link, NEW b \in SUBSET Keys, NEW rows \in [Keys -> Row],
           NEW me \in Passes, NEW s \in Passes, HoldOf(l, b, rows, me, consent, srv),
           \/ s.step \in {"idle", "upload", "pull"}
           \/ /\ me.step \in {"bare", "snapshot", "apply"} /\ s.acct = me.acct
              /\ s.step \in {"bare", "snapshot", "apply"}
    PROVE  HoldOf(l, b, rows, s, consent, srv)
BY DEF HoldOf

\* What the pull leaves out is settled already.
LEMMA PullHolds ==
    ASSUME Types, Linking, Whole, ReadsHold, LinkHolds, NEW p \in Phones, Pull(p)
    PROVE  LinkHolds'
<1> USE DEF phone, account
<1>1. PICK seen \in SUBSET Keys, again \in SUBSET (Keys \ behind[p]), s \in Passes :
        PullEffect(p, seen, again, s)
  BY PullFacts
<1>2. pass[p].step = "pull" /\ UNCHANGED <<row, link, behind, leaving, consent, srv>>
  BY DEF Pull
<1>3. session[p] # NoAccount
  BY <1>1, SyncAssumption, <1>2 DEF PullEffect, Readable, Types, PhoneTypes
<1> DEFINE local == IF pass[p].sent THEN row[p] ELSE pass[p].view
<1>4. /\ pass' = [pass EXCEPT ![p] = s] /\ s.step = "land" /\ s.got = srv[pass[p].acct]
      /\ s.late = behind[p] \ seen
      /\ s.land = applyPulled(local, s.got, (behind[p] \cup again) \cap seen)
  BY <1>1 DEF PullEffect
<1>5. /\ \A k \in Keys : AsRead(row[p][k], pass[p].view[k])
      /\ ~pass[p].sent => \A k \in Keys : ~pass[p].view[k].pending
  BY <1>2 DEF ReadsHold, ReadsOf, Reading
<1>6. ASSUME NEW l \in Link, NEW b \in SUBSET Keys, Held(p, l, b),
             HoldOf(l, b, row[p], pass[p], consent, srv)
      PROVE  HoldOf(l, b, row[p], s, consent, srv)
  <2> SUFFICES ASSUME NEW a \in Accounts, Syncs(l, a, consent[a])
               PROVE  /\ s.late \subseteq b
                      /\ \A k \in Keys : PulledAt(row[p][k], s, srv[a][k], k)
                      /\ \A k \in Keys : SettledAt(row[p][k], srv[a][k], b, k)
    BY <1>4 DEF HoldOf
  <2>1. a = pass[p].acct
    BY <1>2, <1>6, SendsForLink DEF Sending
  <2>2. b = behind[p]
    BY <1>3, <1>6, HeldBySession
  <2>3. \A k \in Keys : SettledAt(row[p][k], srv[a][k], b, k)
    BY <1>6 DEF HoldOf
  <2>4. ASSUME NEW k \in Keys PROVE PulledAt(row[p][k], s, srv[a][k], k)
    <3>1. s.got[k] = srv[a][k] /\ (k \in s.land => Present(s.got[k]))
      BY <1>4, <2>1 DEF applyPulled
    <3>2. ASSUME k \notin s.land, k \notin s.late, ~row[p][k].pending
          PROVE  Same(row[p][k], s.got[k])
      <4>1. CASE k \notin behind[p]
        BY <2>2, <2>3, <3>1, <3>2, <4>1 DEF SettledAt
      <4>2. CASE k \in behind[p]
        <5>1. k \in (behind[p] \cup again) \cap seen
          BY <1>4, <3>2, <4>2
        <5>2. ~Present(s.got[k]) \/ local[k].pending \/ (~Present(local[k]) /\ ~Live(s.got[k]))
          BY <1>4, <3>2, <5>1 DEF applyPulled
        <5>3. ~local[k].pending
          BY <1>5, <3>2
        <5>4. ~Present(local[k]) => ~Live(row[p][k])
          BY <1>5, <3>2 DEF AsRead, Live, Present
        <5>5. ~Present(s.got[k]) => ~Live(row[p][k]) /\ ~Live(s.got[k])
          BY <2>3, <3>1, <3>2 DEF SettledAt, Live, Present
        <5> HIDE DEF local
        <5> QED
          BY <5>2, <5>3, <5>4, <5>5 DEF Same
      <4> QED
        BY <4>1, <4>2
    <3> QED
      BY <3>1, <3>2 DEF PulledAt
  <2> QED
    BY <1>4, <2>2, <2>3, <2>4
<1>7. row[p] \in [Keys -> Row] /\ row' = [row EXCEPT ![p] = row[p]]
  BY <1>2, ReadPass DEF Types, PhoneTypes
<1> HIDE DEF local
<1> QED
  BY <1>2, <1>4, <1>6, <1>7, PhoneHolds

\* A step of one phone that may change its link, its rows and its pass.
LEMMA LinkChanges ==
    ASSUME Types, LinkHolds, NEW p \in Phones, NEW rows \in [Keys -> Row], NEW s \in Passes,
           row' = [row EXCEPT ![p] = rows], pass' = [pass EXCEPT ![p] = s], UNCHANGED <<consent, srv>>,
           \A q \in Phones \ {p} :
              link'[q] = link[q] /\ behind'[q] = behind[q] /\ leaving'[q] = leaving[q],
           \A l \in Link, b \in SUBSET Keys :
              Held(p, l, b)' => HoldOf(l, b, rows, s, consent, srv)
    PROVE  LinkHolds'
<1>1. \A q \in Phones : /\ row'[q] = IF q = p THEN rows ELSE row[q]
                        /\ pass'[q] = IF q = p THEN s ELSE pass[q]
  BY DEF Types, PhoneTypes
<1>2. \A q \in Phones \ {p}, l \in Link, b \in SUBSET Keys : Held(q, l, b)' => Held(q, l, b)
  BY DEF Held
<1> QED
  BY <1>1, <1>2 DEF LinkHolds

\* A sign-out and its save only repeat a link that is held.
LEMMA SignOutHolds ==
    ASSUME Types, LinkHolds, NEW p \in Phones, SignOut(p) \/ SaveSignOut(p)
    PROVE  LinkHolds'
<1> USE DEF phone, account
<1>1. /\ leaving \in [Phones -> Leavings] /\ link \in [Phones -> Link]
      /\ behind \in [Phones -> SUBSET Keys]
  BY DEF Types, PhoneTypes
<1>2. UNCHANGED <<row, pass, consent, srv>>
  BY DEF SignOut, SaveSignOut
<1>3. ASSUME NEW q \in Phones, NEW l \in Link, NEW b \in SUBSET Keys, Held(q, l, b)'
      PROVE  Held(q, l, b)
  <2>1. CASE SignOut(p)
    <3>1. PICK x \in Leavings :
            /\ leaving' = [leaving EXCEPT ![p] = x]
            /\ \/ x.on /\ x.link = link[p] /\ x.behind = behind[p]
               \/ x = leaving[p]
      BY <2>1, SignOutFacts
    <3>2. UNCHANGED <<link, behind>>
      BY <2>1 DEF SignOut
    <3>3. leaving'[q] = IF q = p THEN x ELSE leaving[q]
      BY <1>1, <3>1
    <3> QED
      BY <1>3, <3>1, <3>2, <3>3 DEF Held
  <2>2. CASE SaveSignOut(p)
    <3>1. /\ leaving[p].on /\ link' = [link EXCEPT ![p] = leaving[p].link]
          /\ behind' = [behind EXCEPT ![p] = leaving[p].behind]
          /\ leaving' = [leaving EXCEPT ![p] = NotLeaving]
      BY <2>2, SaveFacts
    <3>2. /\ link'[q] = IF q = p THEN leaving[p].link ELSE link[q]
          /\ behind'[q] = IF q = p THEN leaving[p].behind ELSE behind[q]
          /\ leaving'[q] = IF q = p THEN NotLeaving ELSE leaving[q]
      BY <1>1, <3>1
    <3>3. ~NotLeaving.on
      BY DEF NotLeaving
    <3> QED
      BY <1>3, <3>1, <3>2, <3>3 DEF Held
  <2> QED
    BY <2>1, <2>2
<1> QED
  BY <1>2, <1>3 DEF LinkHolds

\* A pass that starts keeps the link, or forgets the records a withdrawal took.
LEMMA StartHolds ==
    ASSUME Types, Linking, LinkHolds, NEW p \in Phones, NEW a \in Accounts, StartPass(p, a)
    PROVE  LinkHolds'
<1> USE DEF phone, account
<1> DEFINE stored == linkAtPass(link[p], a, consent[a].given)
<1>1. /\ stored \in Link /\ link' = [link EXCEPT ![p] = stored]
      /\ \/ UNCHANGED pass
         \/ \E s \in Passes :
              /\ pass' = [pass EXCEPT ![p] = s] /\ s.acct = a
              /\ \/ s.step \in {"bare", "snapshot"} /\ syncPassFor(stored, a) = "first-link"
                 \/ s.step = "upload"
  BY StartFacts
<1>2. /\ pass[p].step = "idle" /\ session[p] = a
      /\ UNCHANGED <<row, session, leaving, behind, consent, srv>>
  BY DEF StartPass
<1>3. /\ row[p] \in [Keys -> Row] /\ row' = [row EXCEPT ![p] = row[p]] /\ link[p] \in Link
      /\ behind[p] \in SUBSET Keys /\ pass[p] \in Passes /\ pass = [pass EXCEPT ![p] = pass[p]]
      /\ link \in [Phones -> Link]
  BY <1>2, ReadPass DEF Types, PhoneTypes
<1>4. ~leaving[p].on
  BY <1>2, SyncAssumption DEF Linking
<1>5. stored = link[p] \/ stored.records = NoAccount
  BY <1>3 DEF linkAtPass, Link
<1>6. PICK s \in Passes :
        /\ pass' = [pass EXCEPT ![p] = s]
        /\ \/ s.step \in {"idle", "upload"}
           \/ s.acct = a /\ s.step \in {"bare", "snapshot"} /\ syncPassFor(stored, a) = "first-link"
  BY <1>1, <1>2, <1>3
<1> HIDE DEF stored
<1>7. HoldOf(stored, behind[p], row[p], s, consent, srv)
  <2> SUFFICES ASSUME NEW d \in Accounts, Syncs(stored, d, consent[d])
               PROVE  /\ s.step \in {"bare", "snapshot"} => s.acct # d
                      /\ \A k \in Keys : SettledAt(row[p][k], srv[d][k], behind[p], k)
    BY <1>6 DEF HoldOf
  <2>1. stored = link[p]
    BY <1>5, SyncAssumption DEF Syncs
  <2>2. HoldOf(link[p], behind[p], row[p], pass[p], consent, srv)
    BY <1>3 DEF LinkHolds, Held
  <2>3. \A k \in Keys : SettledAt(row[p][k], srv[d][k], behind[p], k)
    BY <2>1, <2>2 DEF HoldOf
  <2>4. syncPassFor(stored, a) = "first-link" => ~Syncs(stored, a, consent[a])
    BY <1>1, FirstLinkSyncsNot
  <2> QED
    BY <1>6, <2>3, <2>4
<1>8. \A l \in Link, b \in SUBSET Keys : Held(p, l, b)' => HoldOf(l, b, row[p], s, consent, srv)
  <2>1. link'[p] = stored /\ behind'[p] = behind[p] /\ ~leaving'[p].on
    BY <1>1, <1>2, <1>3, <1>4
  <2> QED
    BY <1>7, <2>1 DEF Held
<1>9. \A q \in Phones \ {p} : link'[q] = link[q] /\ behind'[q] = behind[q] /\ leaving'[q] = leaving[q]
  BY <1>1, <1>2, <1>3
<1>10. UNCHANGED <<consent, srv>>
  BY <1>2
<1> QED
  BY <1>3, <1>6, <1>8, <1>9, <1>10, LinkChanges

\* A link without the consent joins no records.
LEMMA BareHolds ==
    ASSUME Types, Linking, LinkHolds, NEW p \in Phones, LinkWithoutRecords(p)
    PROVE  LinkHolds'
<1> USE DEF phone, account
<1> DEFINE after == linkAfterFirstLink(link[p], pass[p].acct, FALSE, 0)
<1>1. /\ after \in Link /\ link' = [link EXCEPT ![p] = after]
      /\ behind' = [behind EXCEPT ![p] = Keys] /\ pass' = [pass EXCEPT ![p] = NoPass]
  BY LinkFacts
<1>2. pass[p].step = "bare" /\ UNCHANGED <<row, leaving, consent, srv>>
  BY DEF LinkWithoutRecords
<1>3. /\ row[p] \in [Keys -> Row] /\ row' = [row EXCEPT ![p] = row[p]] /\ pass[p] \in Passes
      /\ link \in [Phones -> Link] /\ behind \in [Phones -> SUBSET Keys]
  BY <1>2, ReadPass DEF Types, PhoneTypes
<1>4. \A a \in Accounts : ~Syncs(after, a, consent[a])
  <2>1. link[p].records # pass[p].acct /\ after.last = pass[p].acct /\ after.records = link[p].records
    BY <1>2 DEF Linking, linkAfterFirstLink
  <2> QED
    BY <2>1 DEF Syncs
<1> HIDE DEF after
<1>5. ASSUME NEW l \in Link, NEW b \in SUBSET Keys, Held(p, l, b)'
      PROVE  HoldOf(l, b, row[p], NoPass, consent, srv)
  <2>1. CASE l = after
    BY <1>4, <2>1 DEF HoldOf
  <2>2. CASE l # after
    <3>1. Held(p, l, b)
      BY <1>1, <1>2, <1>3, <1>5, <2>2 DEF Held
    <3>2. HoldOf(l, b, row[p], pass[p], consent, srv)
      BY <3>1 DEF LinkHolds
    <3> QED
      BY <1>3, <3>2, NoPassFacts, HoldQuiet
  <2> QED
    BY <2>1, <2>2
<1>6. \A q \in Phones \ {p} : link'[q] = link[q] /\ behind'[q] = behind[q] /\ leaving'[q] = leaving[q]
  BY <1>1, <1>2, <1>3
<1>7. UNCHANGED <<consent, srv>>
  BY <1>2
<1> QED
  BY <1>1, <1>3, <1>5, <1>6, <1>7, NoPassFacts, LinkChanges

\* A row stops waiting only where the batch put its copy, past the cursor.
LEMMA ConfirmHolds ==
    ASSUME Types, LinkHolds, NEW p \in Phones, ConfirmBatch(p)
    PROVE  LinkHolds'
<1> USE DEF phone, account
<1>1. PICK cleared \in SUBSET pass[p].batch, rows \in [Keys -> Row], s \in Passes :
        ConfirmEffect(p, cleared, rows, s)
  BY ConfirmFacts
<1>2. pass[p].step = "confirm" /\ UNCHANGED <<link, behind, leaving, consent, srv>>
  BY DEF ConfirmBatch
<1>3. row[p] \in [Keys -> Row] /\ pass[p] \in Passes
  BY ReadPass
<1>4. ASSUME NEW l \in Link, NEW b \in SUBSET Keys, HoldOf(l, b, row[p], pass[p], consent, srv)
      PROVE  HoldOf(l, b, rows, s, consent, srv)
  <2> SUFFICES ASSUME NEW a \in Accounts, Syncs(l, a, consent[a])
               PROVE  /\ s.batch \subseteq b /\ \A k \in s.batch : Present(srv[a][k])
                      /\ \A k \in Keys : SettledAt(rows[k], srv[a][k], b, k)
    BY <1>1 DEF HoldOf, ConfirmEffect
  <2>1. /\ pass[p].batch \subseteq b /\ \A k \in pass[p].batch : Present(srv[a][k])
        /\ \A k \in Keys : SettledAt(row[p][k], srv[a][k], b, k)
    BY <1>2, <1>4 DEF HoldOf
  <2>2. ASSUME NEW k \in Keys PROVE SettledAt(rows[k], srv[a][k], b, k)
    <3>1. CASE k \in cleared
      BY <2>1, <3>1 DEF SettledAt
    <3>2. CASE k \notin cleared
      BY <1>1, <2>1, <3>2 DEF ConfirmEffect
    <3> QED
      BY <3>1, <3>2
  <2> QED
    BY <1>1, <2>1, <2>2 DEF ConfirmEffect
<1>5. row' = [row EXCEPT ![p] = rows] /\ pass' = [pass EXCEPT ![p] = s]
  BY <1>1 DEF ConfirmEffect
<1> QED
  BY <1>2, <1>4, <1>5, PhoneHolds

\* One row of a landing: settled as before, and with the last rows so are all
\* that did not arrive after the answer.
LEMMA LandedRow ==
    ASSUME NEW own \in Row, NEW new \in Row, NEW copy \in Copy, NEW me \in Passes, NEW k \in Keys,
           NEW now \in SUBSET me.land, NEW b \in SUBSET Keys, me.late \subseteq b,
           new = IF k \in now THEN landed(own, me.got[k]) ELSE own,
           PulledAt(own, me, copy, k), SettledAt(own, copy, b, k)
    PROVE  /\ SettledAt(new, copy, b, k)
           /\ now = me.land => SettledAt(new, copy, me.late, k)
           /\ k \notin me.land \ now /\ k \notin me.late /\ ~new.pending => Same(new, me.got[k])
<1>1. me.got[k] \in Copy
  BY DEF Passes
<1>2. CASE k \in now
  <2>1. ~new.pending => new.ver = me.got[k].ver /\ new.st = me.got[k].st
    BY <1>1, <1>2 DEF landed, Row
  <2> QED
    BY <1>2, <2>1 DEF PulledAt, SettledAt, Same, Live, Present
<1>3. CASE k \notin now
  BY <1>3 DEF PulledAt, SettledAt
<1> QED
  BY <1>2, <1>3

LEMMA LandHolds ==
    ASSUME Types, LinkHolds, NEW p \in Phones, LandPulled(p)
    PROVE  LinkHolds'
<1> USE DEF phone, account
<1>1. PICK now \in SUBSET pass[p].land, rows \in [Keys -> Row], s \in Passes :
        LandEffect(p, now, rows, s)
  BY LandFacts
<1>2. pass[p].step = "land" /\ UNCHANGED <<link, leaving, consent, srv>>
  BY DEF LandPulled
<1>3. /\ row[p] \in [Keys -> Row] /\ pass[p] \in Passes /\ pass[p].late \in SUBSET Keys
      /\ behind \in [Phones -> SUBSET Keys] /\ srv \in [Accounts -> [Keys -> Copy]]
      /\ link[p] \in Link
  BY ReadPass DEF Types, PhoneTypes, AccountTypes, Passes
<1>4. /\ row' = [row EXCEPT ![p] = rows] /\ pass' = [pass EXCEPT ![p] = s]
      /\ \A k \in Keys : rows[k] = IF k \in now THEN landed(row[p][k], pass[p].got[k]) ELSE row[p][k]
  BY <1>1 DEF LandEffect
<1>5. ASSUME NEW l \in Link, NEW b \in SUBSET Keys, HoldOf(l, b, row[p], pass[p], consent, srv),
             NEW a \in Accounts, Syncs(l, a, consent[a])
      PROVE  /\ pass[p].late \subseteq b
             /\ \A k \in Keys :
                  /\ PulledAt(row[p][k], pass[p], srv[a][k], k)
                  /\ SettledAt(rows[k], srv[a][k], b, k)
                  /\ now = pass[p].land => SettledAt(rows[k], srv[a][k], pass[p].late, k)
                  /\ k \notin pass[p].land \ now /\ k \notin pass[p].late /\ ~rows[k].pending
                        => Same(rows[k], pass[p].got[k])
  <2>1. /\ pass[p].late \subseteq b
        /\ \A k \in Keys : PulledAt(row[p][k], pass[p], srv[a][k], k)
        /\ \A k \in Keys : SettledAt(row[p][k], srv[a][k], b, k)
    BY <1>2, <1>5 DEF HoldOf
  <2>2. \A k \in Keys : row[p][k] \in Row /\ rows[k] \in Row /\ srv[a][k] \in Copy
    BY <1>3
  <2> QED
    BY <1>3, <1>4, <2>1, <2>2, LandedRow
<1>6. CASE behind' = behind /\ s.step = "land" /\ Alike(s, pass[p])
           /\ s.late = pass[p].late /\ s.land = pass[p].land \ now
  <2>1. s.got = pass[p].got
    BY <1>6 DEF Alike
  <2>2. ASSUME NEW l \in Link, NEW b \in SUBSET Keys, HoldOf(l, b, row[p], pass[p], consent, srv)
        PROVE  HoldOf(l, b, rows, s, consent, srv)
    <3> SUFFICES ASSUME NEW a \in Accounts, Syncs(l, a, consent[a])
                 PROVE  /\ s.late \subseteq b
                        /\ \A k \in Keys : PulledAt(rows[k], s, srv[a][k], k)
                        /\ \A k \in Keys : SettledAt(rows[k], srv[a][k], b, k)
      BY <1>6 DEF HoldOf
    <3>1. ASSUME NEW k \in Keys PROVE PulledAt(rows[k], s, srv[a][k], k)
      BY <1>5, <1>6, <2>1, <2>2 DEF PulledAt
    <3> QED
      BY <1>5, <1>6, <2>2, <3>1
  <2> QED
    BY <1>2, <1>4, <1>6, <2>2, PhoneHolds
<1>7. CASE now = pass[p].land /\ behind' = [behind EXCEPT ![p] = pass[p].late] /\ s = NoPass
  <2>1. ASSUME NEW l \in Link, NEW b \in SUBSET Keys, Held(p, l, b)'
        PROVE  HoldOf(l, b, rows, s, consent, srv)
    <3> SUFFICES ASSUME NEW a \in Accounts, Syncs(l, a, consent[a])
                 PROVE  \A k \in Keys : SettledAt(rows[k], srv[a][k], b, k)
      BY <1>7, NoPassFacts DEF HoldOf
    <3>1. (l = link[p] /\ b = pass[p].late) \/ Held(p, l, b)
      BY <1>2, <1>3, <1>7, <2>1 DEF Held
    <3>2. CASE Held(p, l, b)
      <4>1. HoldOf(l, b, row[p], pass[p], consent, srv)
        BY <3>2 DEF LinkHolds
      <4> QED
        BY <1>5, <4>1
    <3>3. CASE l = link[p] /\ b = pass[p].late
      <4>1. Held(p, l, behind[p]) /\ behind[p] \in SUBSET Keys
        BY <1>3, <3>3 DEF Held
      <4>2. HoldOf(l, behind[p], row[p], pass[p], consent, srv)
        BY <4>1 DEF LinkHolds
      <4> QED
        BY <1>5, <1>7, <3>3, <4>1, <4>2
    <3> QED
      BY <3>1, <3>2, <3>3
  <2>2. \A q \in Phones \ {p} : link'[q] = link[q] /\ behind'[q] = behind[q] /\ leaving'[q] = leaving[q]
    BY <1>2, <1>3, <1>7
  <2> QED
    BY <1>2, <1>4, <2>1, <2>2, LinkChanges
<1> QED
  BY <1>1, <1>6, <1>7 DEF LandEffect

\* A first link leaves what it was told; one that has only begun holds no link.
LEMMA ApplyFirstHolds ==
    ASSUME Types, Linking, Whole, ApplyHolds, GotHolds, LinkHolds, NEW p \in Phones, ApplyFirstLink(p)
    PROVE  LinkHolds'
<1> USE DEF phone, account
<1> DEFINE me == pass[p]
           after == linkAfterFirstLink(link[p], me.acct, TRUE, me.givenAt)
<1>1. PICK s \in SUBSET me.settle, l \in SUBSET me.land, f \in SUBSET me.flag,
           rows \in [Keys -> Row], t \in Passes : ApplyEffect(p, s, l, f, rows, t)
  BY ApplyFacts
<1>2. me.step = "apply" /\ UNCHANGED <<leaving, consent, srv>>
  BY DEF ApplyFirstLink
<1>3. /\ row[p] \in [Keys -> Row] /\ me \in Passes /\ me.acct \in Accounts
      /\ behind \in [Phones -> SUBSET Keys] /\ link \in [Phones -> Link]
      /\ srv \in [Accounts -> [Keys -> Copy]]
  BY <1>2, ReadPass DEF Types, PhoneTypes, AccountTypes
<1>4. /\ row' = [row EXCEPT ![p] = rows] /\ pass' = [pass EXCEPT ![p] = t]
      /\ \A k \in Keys :
           rows[k] = Applied(row[p][k], me.view[k], me.got[k], k \in s, k \in l, k \in f)
  BY <1>1 DEF ApplyEffect
\* With one account the link that is replaced does not sync.
<1>5. ASSUME OneAccount, NEW x \in Link, NEW b \in SUBSET Keys, Held(p, x, b)
      PROVE  \A a \in Accounts : ~Syncs(x, a, consent[a])
  <2>1. HoldOf(x, b, row[p], me, consent, srv)
    BY <1>5 DEF LinkHolds
  <2>2. \A a \in Accounts : Syncs(x, a, consent[a]) => me.acct # a
    BY <1>2, <2>1 DEF HoldOf
  <2>3. \A a \in Accounts : me.acct = a
    BY <1>3, <1>5 DEF OneAccount
  <2> HIDE DEF me
  <2> QED
    BY <2>2, <2>3
<1>6. CASE s # me.settle \/ l # me.land \/ f # me.flag
  <2>1. UNCHANGED <<link, behind>>
    BY <1>1, <1>6 DEF ApplyEffect
  <2>2. OneAccount
    BY <1>1, <1>6 DEF ApplyEffect, Writes, Whole
  <2>3. \A x \in Link, b \in SUBSET Keys : Held(p, x, b) => HoldOf(x, b, rows, t, consent, srv)
    BY <1>5, <2>2 DEF HoldOf
  <2> QED
    BY <1>2, <1>4, <2>1, <2>3, PhoneHolds
<1>7. CASE s = me.settle /\ l = me.land /\ f = me.flag
  <2>1. /\ link' = [link EXCEPT ![p] = after] /\ behind' = [behind EXCEPT ![p] = me.late]
        /\ t.step = "upload" /\ after \in Link
    BY <1>1, <1>7 DEF ApplyEffect
  <2>2. HoldOf(after, me.late, rows, t, consent, srv)
    <3> SUFFICES ASSUME NEW a \in Accounts, Syncs(after, a, consent[a]), NEW k \in Keys, ~rows[k].pending
                 PROVE  (Same(rows[k], srv[a][k]) \/ k \in me.late) /\ (Live(rows[k]) => Present(srv[a][k]))
      BY <2>1 DEF HoldOf, SettledAt
    <3>1. after.last = me.acct /\ after.joinedAt = me.givenAt
      BY DEF linkAfterFirstLink
    <3>2. a = me.acct /\ consent[a].given /\ consent[a].withdrawnAt <= me.givenAt
      BY <3>1 DEF Syncs
    <3>3. /\ k \in me.late \/ me.got[k] = srv[a][k]
          /\ Present(me.got[k]) => Present(srv[a][k])
      BY <1>2, <3>2 DEF GotHolds, GotStands
    <3>4. ApplyOf(row[p], me)
      BY DEF ApplyHolds
    <3>5. Same(rows[k], me.got[k]) /\ (Live(rows[k]) => Live(me.got[k]))
      BY <1>2, <1>3, <1>4, <1>7, <3>4, MergeSettles
    <3>6. Live(me.got[k]) => Present(me.got[k])
      BY DEF Live, Present
    <3> HIDE DEF me
    <3> QED
      BY <3>3, <3>5, <3>6
  <2> HIDE DEF after
  <2>3. ASSUME NEW x \in Link, NEW b \in SUBSET Keys, Held(p, x, b)'
        PROVE  HoldOf(x, b, rows, t, consent, srv)
    <3>1. (x = after /\ b = me.late) \/ (leaving[p].on /\ x = leaving[p].link /\ b = leaving[p].behind)
      BY <1>2, <1>3, <2>1, <2>3 DEF Held
    <3>2. CASE leaving[p].on /\ x = leaving[p].link /\ b = leaving[p].behind
      <4>1. OneAccount
        BY <3>2 DEF Linking, Whole
      <4>2. Held(p, x, b)
        BY <3>2 DEF Held
      <4> QED
        BY <1>5, <4>1, <4>2 DEF HoldOf
    <3> QED
      BY <2>2, <3>1, <3>2
  <2>4. \A q \in Phones \ {p} : link'[q] = link[q] /\ behind'[q] = behind[q] /\ leaving'[q] = leaving[q]
    BY <1>2, <1>3, <2>1
  <2> QED
    BY <1>2, <1>4, <2>3, <2>4, LinkChanges
<1> QED
  BY <1>6, <1>7

\* A consent answer brings no link back to life: a joining from before a
\* withdrawal is dated before it.
LEMMA ConsentHolds ==
    ASSUME Types, Dates, LinkHolds, NEW a \in Accounts, GiveConsent(a) \/ WithdrawConsent(a)
    PROVE  LinkHolds'
<1> USE DEF phone, account
<1>1. /\ consent \in [Accounts -> Consents] /\ srv \in [Accounts -> [Keys -> Copy]]
      /\ UNCHANGED <<row, session, leaving, link, behind, pass>>
  BY DEF Types, AccountTypes, GiveConsent, WithdrawConsent
<1>2. ASSUME NEW p \in Phones, NEW l \in Link, NEW b \in SUBSET Keys, Held(p, l, b),
             NEW d \in Accounts, Syncs(l, d, consent'[d])
      PROVE  Syncs(l, d, consent[d]) /\ srv'[d] = srv[d]
  <2>1. LinkDated(l, consent, instant)
    BY <1>2 DEF Held, Dates
  <2>2. CASE GiveConsent(a)
    <3>1. PICK c \in Consents : /\ consent' = [consent EXCEPT ![a] = c]
                                /\ c.withdrawnAt = consent[a].withdrawnAt
      BY <2>2, GiveFacts
    <3>2. srv' = srv
      BY <2>2 DEF GiveConsent
    <3>3. /\ l.last = d /\ l.records = d /\ l.joinedAt # 0
          /\ consent'[d].withdrawnAt <= l.joinedAt
      BY <1>2 DEF Syncs
    <3>4. consent'[d].withdrawnAt = consent[d].withdrawnAt
      BY <1>1, <3>1
    <3>5. ~consent[d].given => l.joinedAt < consent[d].withdrawnAt
      BY <2>1, <3>3 DEF LinkDated, Dated
    <3>6. l.joinedAt \in Nat /\ consent[d].withdrawnAt \in Nat
      BY <1>1 DEF Link, Consents
    <3> QED
      BY <3>2, <3>3, <3>4, <3>5, <3>6 DEF Syncs
  <2>3. CASE WithdrawConsent(a)
    <3>1. PICK c \in Consents : consent' = [consent EXCEPT ![a] = c] /\ ~c.given
      BY <2>3, WithdrawFacts
    <3>2. d # a
      BY <1>1, <1>2, <3>1 DEF Syncs
    <3>3. consent'[d] = consent[d]
      BY <1>1, <3>1, <3>2
    <3>4. srv'[d] = srv[d]
      BY <1>1, <2>3, <3>2 DEF WithdrawConsent
    <3> QED
      BY <1>2, <3>3, <3>4
  <2> QED
    BY <2>2, <2>3
<1>3. ASSUME NEW p \in Phones, NEW l \in Link, NEW b \in SUBSET Keys, Held(p, l, b)
      PROVE  HoldOf(l, b, row[p], pass[p], consent', srv')
  <2>1. HoldOf(l, b, row[p], pass[p], consent, srv)
    BY <1>3 DEF LinkHolds
  <2> QED
    BY <1>2, <1>3, <2>1 DEF HoldOf
<1>4. \A p \in Phones, l \in Link, b \in SUBSET Keys : Held(p, l, b)' => Held(p, l, b)
  BY <1>1 DEF Held
<1> QED
  BY <1>1, <1>3, <1>4 DEF LinkHolds

LEMMA LinkHoldsStep ==
    ASSUME Whole
    PROVE  /\ Types /\ Dates /\ Linking /\ ReadsHold /\ ApplyHolds /\ GotHolds /\ LinkHolds
           /\ [Next]_vars
           => LinkHolds'
<1> SUFFICES ASSUME Types, Dates, Linking, ReadsHold, ApplyHolds, GotHolds, LinkHolds, [Next]_vars
             PROVE  LinkHolds'
  OBVIOUS
<1> USE DEF phone, account
<1>a. \A p \in Phones : /\ row[p] \in [Keys -> Row] /\ pass[p] \in Passes
                        /\ row = [row EXCEPT ![p] = row[p]] /\ pass = [pass EXCEPT ![p] = pass[p]]
  BY ReadPass DEF Types, PhoneTypes
\* One phone's rows change, in what waits or ages; its pass does not.
<1>b. ASSUME NEW p \in Phones, NEW j \in Keys, NEW rows \in [Keys -> Row],
             row' = [row EXCEPT ![p] = rows], UNCHANGED <<pass, link, behind, leaving, consent, srv>>,
             \/ rows[j].pending
             \/ /\ row[p][j].st = "gone" /\ rows[j].st = "old" /\ rows[j].ver = row[p][j].ver
                /\ rows[j].pending = row[p][j].pending,
             \A k \in Keys \ {j} : rows[k] = row[p][k]
      PROVE  LinkHolds'
  <2>1. \A l \in Link, b \in SUBSET Keys :
           HoldOf(l, b, row[p], pass[p], consent, srv) => HoldOf(l, b, rows, pass[p], consent, srv)
    BY <1>a, <1>b, HoldAge
  <2>2. pass' = [pass EXCEPT ![p] = pass[p]]
    BY <1>a, <1>b
  <2> QED
    BY <1>a, <1>b, <2>1, <2>2, PhoneHolds
\* A pass goes on to a step that asks nothing new of the link.
<1>c. ASSUME NEW p \in Phones, NEW s \in Passes, pass' = [pass EXCEPT ![p] = s],
             UNCHANGED <<row, link, behind, leaving, consent, srv>>,
             \/ s.step \in {"idle", "upload", "pull"}
             \/ /\ pass[p].step \in {"bare", "snapshot", "apply"} /\ s.acct = pass[p].acct
                /\ s.step \in {"bare", "snapshot", "apply"}
      PROVE  LinkHolds'
  <2>1. \A l \in Link, b \in SUBSET Keys :
           HoldOf(l, b, row[p], pass[p], consent, srv) => HoldOf(l, b, row[p], s, consent, srv)
    BY <1>a, <1>c, HoldQuiet
  <2>2. row' = [row EXCEPT ![p] = row[p]]
    BY <1>a, <1>c
  <2> QED
    BY <1>a, <1>c, <2>1, <2>2, PhoneHolds
<1>1. ASSUME NEW p \in Phones, NEW k \in Keys, Edit(p, k) \/ Delete(p, k) PROVE LinkHolds'
  <2>1. PICK st \in States : Write(p, k, st)
    BY <1>1, EditOrDelete
  <2>2. PICK rows \in [Keys -> Row] : /\ row' = [row EXCEPT ![p] = rows] /\ rows[k].pending
                                      /\ \A j \in Keys \ {k} : rows[j] = row[p][j]
    BY <2>1, WriteFacts
  <2>3. UNCHANGED <<pass, link, behind, leaving, consent, srv>>
    BY <2>1 DEF Write
  <2> QED
    BY <1>b, <2>2, <2>3
<1>2. ASSUME NEW p \in Phones, NEW k \in Keys, Age(p, k) PROVE LinkHolds'
  <2>1. PICK rows \in [Keys -> Row] :
          /\ row' = [row EXCEPT ![p] = rows] /\ row[p][k].st = "gone"
          /\ rows[k].ver = row[p][k].ver /\ rows[k].pending = row[p][k].pending
          /\ rows[k].st = "old" /\ \A j \in Keys \ {k} : rows[j] = row[p][j]
    BY <1>2, AgeFacts
  <2>2. UNCHANGED <<pass, link, behind, leaving, consent, srv>>
    BY <1>2 DEF Age
  <2> QED
    BY <1>b, <2>1, <2>2
<1>3. ASSUME NEW p \in Phones, NEW a \in Accounts, SignIn(p, a) PROVE LinkHolds'
  BY <1>3 DEF SignIn, LinkHolds, Held
<1>4. ASSUME NEW p \in Phones, NEW a \in Accounts, StartPass(p, a) PROVE LinkHolds'
  BY <1>4, StartHolds
<1>5. ASSUME NEW p \in Phones, EndPass(p) PROVE LinkHolds'
  <2>1. pass' = [pass EXCEPT ![p] = NoPass] /\ UNCHANGED <<row, link, behind, leaving, consent, srv>>
    BY <1>5 DEF EndPass
  <2> QED
    BY <1>c, <2>1, NoPassFacts
<1>6. ASSUME NEW p \in Phones, SignOut(p) \/ SaveSignOut(p) PROVE LinkHolds'
  BY <1>6, SignOutHolds
<1>7. ASSUME NEW p \in Phones, LinkWithoutRecords(p) PROVE LinkHolds'
  BY <1>7, BareHolds
<1>8. ASSUME NEW p \in Phones, StoreBatch(p) PROVE LinkHolds'
  BY <1>8, StoreHolds
<1>9. ASSUME NEW p \in Phones, ConfirmBatch(p) PROVE LinkHolds'
  BY <1>9, ConfirmHolds
<1>10. ASSUME NEW p \in Phones, UploadDone(p) PROVE LinkHolds'
  <2>1. UNCHANGED <<row, link, behind, leaving, consent, srv>>
    BY <1>10 DEF UploadDone
  <2>2. \E s \in Passes : pass' = [pass EXCEPT ![p] = s] /\ s.step \in {"idle", "pull"}
    BY <1>10, UploadDoneFacts, NoPassFacts
  <2> QED
    BY <1>c, <2>1, <2>2
<1>11. ASSUME NEW p \in Phones, Pull(p) PROVE LinkHolds'
  BY <1>11, PullHolds
<1>12. ASSUME NEW p \in Phones, LandPulled(p) PROVE LinkHolds'
  BY <1>12, LandHolds
<1>13. ASSUME NEW p \in Phones, Snapshot(p) PROVE LinkHolds'
  <2>1. PICK seen \in SUBSET Keys, s \in Passes : SnapshotEffect(p, seen, s)
    BY <1>13, SnapshotFacts
  <2>2. pass' = [pass EXCEPT ![p] = s] /\ s.step = "apply" /\ s.acct = pass[p].acct
    BY <2>1 DEF SnapshotEffect
  <2>3. pass[p].step = "snapshot" /\ UNCHANGED <<row, link, behind, leaving, consent, srv>>
    BY <1>13 DEF Snapshot
  <2> QED
    BY <1>c, <2>2, <2>3
<1>14. ASSUME NEW p \in Phones, ApplyFirstLink(p) PROVE LinkHolds'
  BY <1>14, ApplyFirstHolds
<1>15. ASSUME NEW a \in Accounts, GiveConsent(a) \/ WithdrawConsent(a) PROVE LinkHolds'
  BY <1>15, ConsentHolds
<1>16. CASE UNCHANGED vars
  BY <1>16 DEF vars, LinkHolds, Held
<1> QED
  BY <1>1, <1>2, <1>3, <1>4, <1>5, <1>6, <1>7, <1>8, <1>9, <1>10, <1>11, <1>12, <1>13, <1>14,
     <1>15, <1>16 DEF Next, PassStep

\* At the start no phone is linked and no pass runs.
LEMMA SettledInit == Init => Dates /\ Linking /\ ReadsHold /\ ApplyHolds /\ GotHolds /\ LinkHolds
<1> SUFFICES ASSUME Init PROVE Dates /\ Linking /\ ReadsHold /\ ApplyHolds /\ GotHolds /\ LinkHolds
  OBVIOUS
<1>1. /\ \A p \in Phones : /\ pass[p].step = "idle" /\ link[p].last = NoAccount
                           /\ link[p].records = NoAccount /\ ~leaving[p].on
                           /\ leaving[p].link.records = NoAccount
      /\ \A a \in Accounts : consent[a] = NoConsent
      /\ instant = 0
  BY NoPassFacts DEF Init, Unlinked, NotLeaving
<1>2. NoConsent.givenAt = 0 /\ NoConsent.withdrawnAt = 0 /\ ~NoConsent.given
  BY DEF NoConsent
<1>3. Dates
  BY <1>1, <1>2, SyncAssumption DEF Dates, ConsentDated, LinkDated, PassDated
<1>4. Linking
  BY <1>1 DEF Linking, Sending
<1>5. ReadsHold /\ ApplyHolds /\ GotHolds
  BY <1>1 DEF ReadsHold, ReadsOf, Reading, ApplyHolds, ApplyOf, GotHolds, GotStands
<1>6. LinkHolds
  BY <1>1, SyncAssumption DEF LinkHolds, Held, HoldOf, Syncs
<1> QED
  BY <1>3, <1>4, <1>5, <1>6

\* On a phone whose records have joined an account, a row that does not wait to
\* upload is the account's, or a newer arrival lies past the pull cursor: for any
\* number of phones, rows, writes and consent answers.  With one account a write
\* on the phone may take several transactions (sqlite-account-rows-source.ts) and
\* a pass may run beside a sign-out; with several accounts each must be whole.
THEOREM SettledAgreesAlways == Whole /\ Spec => []SettledAgrees
<1> DEFINE Inv == /\ Types /\ Known /\ Dates /\ Linking /\ ReadsHold /\ ApplyHolds
                  /\ GotHolds /\ LinkHolds
<1>1. Init => Inv
  BY TypesInit, KnownInit, SettledInit
<1>2. Whole /\ Inv /\ [Next]_vars => Inv'
  BY TypesStep, KnownStep, DatesStep, LinkingStep, ReadsStep, ApplyStep, GotStep, LinkHoldsStep
<1>3. Inv => SettledAgrees
  <2> SUFFICES ASSUME Types, LinkHolds, NEW p \in Phones, NEW a \in Accounts, NEW k \in Keys,
                      SyncsWith(p, a), ~row[p][k].pending
               PROVE  Same(row[p][k], srv[a][k]) \/ k \in behind[p]
    BY DEF SettledAgrees
  <2>1. Syncs(link[p], a, consent[a])
    BY SyncsWithIs
  <2>2. link[p] \in Link /\ behind[p] \in SUBSET Keys /\ Held(p, link[p], behind[p])
    BY ReadPass DEF Held
  <2>3. HoldOf(link[p], behind[p], row[p], pass[p], consent, srv)
    BY <2>2 DEF LinkHolds
  <2>4. SettledAt(row[p][k], srv[a][k], behind[p], k)
    BY <2>1, <2>3 DEF HoldOf
  <2> QED
    BY <2>4 DEF SettledAt
<1> HIDE DEF Inv
<1> SUFFICES ASSUME Whole PROVE Spec => []SettledAgrees
  OBVIOUS
<1>4. Inv /\ [Next]_vars => Inv'
  BY <1>2
<1> QED
  BY <1>1, <1>3, <1>4, PTL DEF Spec
-----------------------------------------------------------------------------
(* Two phones of one account.                                                *)

\* A version is one content wherever it is kept: a live row or a deletion.
Means(kept, lives) == Live(kept) <=> kept.ver \in lives
MeansOn(rows, me, lives) ==
    \A k \in Keys : Means(rows[k], lives) /\ Means(me.view[k], lives) /\ Means(me.got[k], lives)
MeantAs(lives) ==
    /\ 0 \notin lives
    /\ \A p \in Phones : MeansOn(row[p], pass[p], lives)
    /\ \A a \in Accounts, k \in Keys : Means(srv[a][k], lives)
OneContent == \E lives \in SUBSET Nat : MeantAs(lives)

LEMMA EmptyMeans ==
    ASSUME NEW lives \in SUBSET Nat, 0 \notin lives
    PROVE  /\ Means(NoRow, lives) /\ Means(NoCopy, lives)
           /\ \A k \in Keys : Means(NoPass.view[k], lives) /\ Means(NoPass.got[k], lives)
BY DEF Means, NoPass, NoRow, NoCopy, Live

\* What a landing, a flag and a first link's writes keep.
LEMMA AppliedMeans ==
    ASSUME NEW own \in Row, NEW read \in Row, NEW copy \in Copy, NEW lives \in SUBSET Nat,
           Means(own, lives), Means(copy, lives), NEW x \in BOOLEAN, NEW y \in BOOLEAN, NEW z \in BOOLEAN
    PROVE  Means(landed(own, copy), lives) /\ Means(Applied(own, read, copy, x, y, z), lives)
<1> DEFINE a == IF x THEN settled(own, read) ELSE own
           b == IF y THEN landed(a, copy) ELSE a
<1>1. \A r \in Row, w \in BOOLEAN : Means(r, lives) =>
         [r EXCEPT !.pending = w] \in Row /\ Means([r EXCEPT !.pending = w], lives)
  BY DEF Row, Means, Live
<1>2. \A r \in Row : Means(r, lives) => landed(r, copy) \in Row /\ Means(landed(r, copy), lives)
  BY DEF landed, Row, Copy, States, Means, Live
<1>3. a \in Row /\ Means(a, lives)
  BY <1>1 DEF settled
<1>4. b \in Row /\ Means(b, lives)
  BY <1>2, <1>3
<1>5. Applied(own, read, copy, x, y, z) = IF z THEN [b EXCEPT !.pending = TRUE] ELSE b
  BY DEF Applied
<1> HIDE DEF b
<1> QED
  BY <1>1, <1>2, <1>4, <1>5

\* A step that changes one phone's rows or its pass.
LEMMA MeansPhone ==
    ASSUME Types, NEW lives \in SUBSET Nat, MeantAs(lives), NEW p \in Phones,
           NEW rows \in [Keys -> Row], NEW s \in Passes,
           row' = [row EXCEPT ![p] = rows], pass' = [pass EXCEPT ![p] = s], srv' = srv,
           MeansOn(rows, s, lives)
    PROVE  MeantAs(lives)'
<1>1. \A q \in Phones : /\ row'[q] = IF q = p THEN rows ELSE row[q]
                        /\ pass'[q] = IF q = p THEN s ELSE pass[q]
  BY DEF Types, PhoneTypes
<1> QED
  BY <1>1 DEF MeantAs

LEMMA MeansWrite ==
    ASSUME Types, Known, NEW lives \in SUBSET Nat, MeantAs(lives),
           NEW p \in Phones, NEW k \in Keys, Edit(p, k) \/ Delete(p, k)
    PROVE  OneContent'
<1>a. /\ version \in Nat /\ \A q \in Phones : row[q] \in [Keys -> Row] /\ pass[q] \in Passes
                           /\ pass[q].view \in [Keys -> Row] /\ pass[q].got \in [Keys -> Copy]
      /\ \A a \in Accounts, j \in Keys : srv[a][j] \in Copy
  BY ReadPass DEF Types, PhoneTypes, AccountTypes
<1>1. PICK st \in States : Write(p, k, st)
  BY EditOrDelete
<1>2. PICK rows \in [Keys -> Row] :
        /\ row' = [row EXCEPT ![p] = rows]
        /\ rows[k].ver = version + 1 /\ rows[k].st = st /\ \A j \in Keys \ {k} : rows[j] = row[p][j]
  BY <1>1, WriteFacts
<1>3. UNCHANGED <<pass, srv>>
  BY <1>1 DEF Write, account
<1> DEFINE now == (lives \cap 0 .. version) \cup (IF st = "live" THEN {version + 1} ELSE {})
<1>4. now \in SUBSET Nat /\ 0 \notin now /\ (version + 1 \in now <=> st = "live")
  BY <1>a DEF MeantAs
<1>5. \A v \in Nat : v <= version => (v \in now <=> v \in lives)
  BY <1>a
<1> HIDE DEF now
<1>6. \A q \in Phones, j \in Keys :
        /\ Means(row[q][j], now) /\ Means(pass[q].view[j], now) /\ Means(pass[q].got[j], now)
  <2> TAKE q \in Phones, j \in Keys
  <2>1. /\ row[q][j].ver \in Nat /\ pass[q].view[j].ver \in Nat /\ pass[q].got[j].ver \in Nat
    BY <1>a DEF Row, Copy
  <2>2. row[q][j].ver <= version /\ pass[q].view[j].ver <= version /\ pass[q].got[j].ver <= version
    BY DEF Known, PhonesKnown, KnownPass, KnownRow, KnownCopy
  <2> QED
    BY <1>5, <2>1, <2>2 DEF MeantAs, MeansOn, Means
<1>7. \A a \in Accounts, j \in Keys : Means(srv[a][j], now)
  <2> TAKE a \in Accounts, j \in Keys
  <2>1. srv[a][j].ver \in Nat /\ srv[a][j].ver <= version
    BY <1>a DEF Copy, Known, AccountKnown, KnownCopy
  <2> QED
    BY <1>5, <2>1 DEF MeantAs, Means
<1>8. MeansOn(rows, pass[p], now)
  <2>1. Means(rows[k], now)
    BY <1>2, <1>4 DEF Means, Live
  <2> QED
    BY <1>2, <1>6, <2>1 DEF MeansOn
<1>9. \A q \in Phones : row'[q] = IF q = p THEN rows ELSE row[q]
  BY <1>2 DEF Types, PhoneTypes
<1> QED
  BY <1>3, <1>4, <1>6, <1>7, <1>8, <1>9 DEF OneContent, MeantAs, MeansOn

LEMMA MeansStore ==
    ASSUME Types, NEW lives \in SUBSET Nat, MeantAs(lives), NEW p \in Phones, StoreBatch(p)
    PROVE  MeantAs(lives)'
<1> DEFINE a == pass[p].acct
<1>1. PICK batch \in SUBSET pass[p].queue, copies \in [Keys -> Copy] :
        /\ srv' = [srv EXCEPT ![a] = copies]
        /\ \A k \in Keys : copies[k] = IF k \in batch THEN CopyOf(pass[p].view[k]) ELSE srv[a][k]
        /\ Stored(p, batch)
  BY StoreFacts
<1>2. a \in Accounts /\ row' = row /\ srv \in [Accounts -> [Keys -> Copy]]
  BY StoreFacts DEF StoreBatch, Types, AccountTypes
<1>3. \A k \in Keys : Means(copies[k], lives)
  <2>1. \A k \in Keys : Means(CopyOf(pass[p].view[k]), lives)
    BY DEF MeantAs, MeansOn, Means, CopyOf, Live
  <2> QED
    BY <1>1, <1>2, <2>1 DEF MeantAs
<1>4. \A q \in Phones : pass'[q].view = pass[q].view /\ pass'[q].got = pass[q].got
  BY <1>1 DEF Stored, Alike
<1>5. \A b \in Accounts : srv'[b] = IF b = a THEN copies ELSE srv[b]
  BY <1>1, <1>2
<1> HIDE DEF a
<1> QED
  BY <1>2, <1>3, <1>4, <1>5 DEF MeantAs, MeansOn

LEMMA ContentStep == Types /\ Known /\ OneContent /\ [Next]_vars => OneContent'
<1> SUFFICES ASSUME Types, Known, NEW lives \in SUBSET Nat, MeantAs(lives), [Next]_vars
             PROVE  OneContent'
  BY DEF OneContent
<1> USE DEF phone, account
<1>a. ASSUME MeantAs(lives)' PROVE OneContent'
  BY <1>a DEF OneContent
<1>b. \A p \in Phones : /\ row[p] \in [Keys -> Row] /\ pass[p] \in Passes
                        /\ pass[p].view \in [Keys -> Row] /\ pass[p].got \in [Keys -> Copy]
                        /\ MeansOn(row[p], pass[p], lives)
                        /\ row = [row EXCEPT ![p] = row[p]] /\ pass = [pass EXCEPT ![p] = pass[p]]
  BY ReadPass DEF MeantAs, Types, PhoneTypes
<1>c. 0 \notin lives /\ \A a \in Accounts, k \in Keys : Means(srv[a][k], lives)
  BY DEF MeantAs
<1>d. ASSUME UNCHANGED <<row, pass, srv>> PROVE OneContent'
  BY <1>a, <1>d DEF MeantAs
<1>e. ASSUME NEW p \in Phones, UNCHANGED <<row, srv>>, pass' = [pass EXCEPT ![p] = NoPass]
      PROVE  OneContent'
  <2>1. MeansOn(row[p], NoPass, lives)
    BY <1>b, <1>c, EmptyMeans DEF MeansOn
  <2> QED
    BY <1>a, <1>b, <1>e, <2>1, MeansPhone, NoPassFacts
<1>2. ASSUME NEW p \in Phones, NEW k \in Keys, Edit(p, k) \/ Delete(p, k) PROVE OneContent'
  BY <1>2, MeansWrite
<1>3. ASSUME NEW p \in Phones, NEW k \in Keys, Age(p, k) PROVE OneContent'
  <2>1. PICK rows \in [Keys -> Row] :
          /\ row' = [row EXCEPT ![p] = rows] /\ row[p][k].st = "gone"
          /\ rows[k].ver = row[p][k].ver /\ rows[k].st = "old" /\ \A j \in Keys \ {k} : rows[j] = row[p][j]
    BY <1>3, AgeFacts
  <2>2. UNCHANGED <<pass, srv>>
    BY <1>3 DEF Age
  <2>3. MeansOn(rows, pass[p], lives)
    BY <1>b, <2>1 DEF MeansOn, Means, Live
  <2> QED
    BY <1>a, <1>b, <2>1, <2>2, <2>3, MeansPhone
<1>4. ASSUME NEW p \in Phones, NEW a \in Accounts, SignIn(p, a) PROVE OneContent'
  BY <1>4, <1>d DEF SignIn
<1>5. ASSUME NEW p \in Phones, NEW a \in Accounts, StartPass(p, a) PROVE OneContent'
  <2>1. UNCHANGED <<row, srv>>
    BY <1>5 DEF StartPass
  <2>2. CASE UNCHANGED pass
    BY <1>d, <2>1, <2>2
  <2>3. CASE pass' # pass
    <3>1. PICK s \in Passes : /\ pass' = [pass EXCEPT ![p] = s]
                              /\ s.view \in {NoPass.view, row[p]} /\ Fresh(s)
      BY <1>5, <2>3, StartFacts
    <3>2. MeansOn(row[p], s, lives)
      BY <1>b, <1>c, <3>1, EmptyMeans DEF MeansOn, Fresh
    <3> QED
      BY <1>a, <1>b, <2>1, <3>1, <3>2, MeansPhone
  <2> QED
    BY <2>2, <2>3
<1>6. ASSUME NEW p \in Phones, LinkWithoutRecords(p) \/ EndPass(p) PROVE OneContent'
  BY <1>6, <1>e, LinkFacts DEF LinkWithoutRecords, EndPass
<1>8. ASSUME NEW p \in Phones, StoreBatch(p) PROVE OneContent'
  BY <1>8, <1>a, MeansStore
<1>9. ASSUME NEW p \in Phones, ConfirmBatch(p) PROVE OneContent'
  <2>1. PICK cleared \in SUBSET pass[p].batch, rows \in [Keys -> Row], s \in Passes :
          ConfirmEffect(p, cleared, rows, s)
    BY <1>9, ConfirmFacts
  <2>2. \A k \in Keys : Means(rows[k], lives)
    <3>1. \A r \in Row : Means(r, lives) => Means([r EXCEPT !.pending = FALSE], lives)
      BY DEF Row, Means, Live
    <3> QED
      BY <1>b, <2>1, <3>1 DEF ConfirmEffect, MeansOn
  <2>3. MeansOn(rows, s, lives)
    BY <1>b, <2>1, <2>2 DEF ConfirmEffect, Alike, MeansOn
  <2> QED
    BY <1>a, <1>9, <2>1, <2>3, MeansPhone DEF ConfirmBatch, ConfirmEffect
<1>10. ASSUME NEW p \in Phones, UploadDone(p) PROVE OneContent'
  <2>1. UNCHANGED <<row, srv>>
    BY <1>10 DEF UploadDone
  <2>2. CASE pass' = [pass EXCEPT ![p] = NoPass]
    BY <1>e, <2>1, <2>2
  <2>3. CASE pass' # [pass EXCEPT ![p] = NoPass]
    <3>1. PICK s \in Passes : /\ pass' = [pass EXCEPT ![p] = s]
                              /\ s.view = pass[p].view /\ s.got = pass[p].got
      BY <1>10, <2>3, UploadDoneFacts
    <3>2. MeansOn(row[p], s, lives)
      BY <1>b, <3>1 DEF MeansOn
    <3> QED
      BY <1>a, <1>b, <2>1, <3>1, <3>2, MeansPhone
  <2> QED
    BY <2>2, <2>3
<1>11. ASSUME NEW p \in Phones, Pull(p) PROVE OneContent'
  <2>1. UNCHANGED <<row, srv>> /\ pass[p].acct \in Accounts
    BY <1>11 DEF Pull, Types, PhoneTypes
  <2>2. PICK seen \in SUBSET Keys, again \in SUBSET (Keys \ behind[p]), s \in Passes :
          PullEffect(p, seen, again, s)
    BY <1>11, PullFacts
  <2>3. pass' = [pass EXCEPT ![p] = s] /\ s.view = pass[p].view /\ s.got = srv[pass[p].acct]
    BY <2>2 DEF PullEffect
  <2>4. MeansOn(row[p], s, lives)
    BY <1>b, <1>c, <2>1, <2>3 DEF MeansOn
  <2> QED
    BY <1>a, <1>b, <2>1, <2>3, <2>4, MeansPhone
<1>12. ASSUME NEW p \in Phones, LandPulled(p) PROVE OneContent'
  <2>1. PICK now \in SUBSET pass[p].land, rows \in [Keys -> Row], s \in Passes : LandEffect(p, now, rows, s)
    BY <1>12, LandFacts
  <2>2. \A k \in Keys : Means(rows[k], lives)
    <3>1. \A k \in Keys : Means(landed(row[p][k], pass[p].got[k]), lives)
      BY <1>b, AppliedMeans DEF MeansOn
    <3> QED
      BY <1>b, <2>1, <3>1 DEF LandEffect, MeansOn
  <2>3. s = NoPass \/ (s.view = pass[p].view /\ s.got = pass[p].got)
    BY <2>1 DEF LandEffect, Alike
  <2>4. MeansOn(rows, s, lives)
    BY <1>b, <1>c, <2>2, <2>3, EmptyMeans DEF MeansOn
  <2> QED
    BY <1>a, <1>12, <2>1, <2>4, MeansPhone DEF LandPulled, LandEffect
<1>13. ASSUME NEW p \in Phones, Snapshot(p) PROVE OneContent'
  <2>1. UNCHANGED <<row, srv>> /\ pass[p].acct \in Accounts
    BY <1>13 DEF Snapshot, Types, PhoneTypes
  <2>2. PICK seen \in SUBSET Keys, s \in Passes : SnapshotEffect(p, seen, s)
    BY <1>13, SnapshotFacts
  <2>3. /\ pass' = [pass EXCEPT ![p] = s] /\ s.view = pass[p].view
        /\ \A k \in Keys : s.got[k] = IF k \in seen THEN srv[pass[p].acct][k] ELSE NoCopy
    BY <2>2 DEF SnapshotEffect
  <2>4. MeansOn(row[p], s, lives)
    BY <1>b, <1>c, <2>1, <2>3, EmptyMeans DEF MeansOn
  <2> QED
    BY <1>a, <1>b, <2>1, <2>3, <2>4, MeansPhone
<1>14. ASSUME NEW p \in Phones, ApplyFirstLink(p) PROVE OneContent'
  <2>1. PICK s \in SUBSET pass[p].settle, l \in SUBSET pass[p].land, f \in SUBSET pass[p].flag,
             rows \in [Keys -> Row], t \in Passes : ApplyEffect(p, s, l, f, rows, t)
    BY <1>14, ApplyFacts
  <2>2. \A k \in Keys : Means(rows[k], lives)
    <3> TAKE k \in Keys
    <3>1. /\ row[p][k] \in Row /\ pass[p].view[k] \in Row /\ pass[p].got[k] \in Copy
          /\ Means(row[p][k], lives) /\ Means(pass[p].got[k], lives)
      BY <1>b DEF MeansOn
    <3>2. \A x, y, z \in BOOLEAN :
             Means(Applied(row[p][k], pass[p].view[k], pass[p].got[k], x, y, z), lives)
      BY <3>1, AppliedMeans
    <3>3. (k \in s) \in BOOLEAN /\ (k \in l) \in BOOLEAN /\ (k \in f) \in BOOLEAN
      OBVIOUS
    <3>4. Means(Applied(row[p][k], pass[p].view[k], pass[p].got[k], k \in s, k \in l, k \in f), lives)
      BY <3>2, <3>3, Zenon
    <3> QED
      BY <2>1, <3>4 DEF ApplyEffect
  <2>3. MeansOn(rows, t, lives)
    BY <1>b, <2>1, <2>2 DEF ApplyEffect, Alike, MeansOn
  <2> QED
    BY <1>a, <1>14, <2>1, <2>3, MeansPhone DEF ApplyFirstLink, ApplyEffect
<1>15. ASSUME NEW p \in Phones, SignOut(p) \/ SaveSignOut(p) PROVE OneContent'
  BY <1>15, <1>d DEF SignOut, SaveSignOut
<1>17. ASSUME NEW a \in Accounts, GiveConsent(a) PROVE OneContent'
  BY <1>17, <1>d DEF GiveConsent
<1>18. ASSUME NEW a \in Accounts, WithdrawConsent(a) PROVE OneContent'
  <2>1. UNCHANGED <<row, pass>>
    BY <1>18 DEF WithdrawConsent
  <2>2. \A b \in Accounts : srv'[b] = IF b = a THEN [k \in Keys |-> NoCopy] ELSE srv[b]
    BY <1>18 DEF WithdrawConsent, Types, AccountTypes
  <2>3. MeantAs(lives)'
    BY <1>b, <1>c, <2>1, <2>2, EmptyMeans DEF MeantAs
  <2> QED
    BY <1>a, <2>3
<1>19. CASE UNCHANGED vars
  BY <1>19, <1>d DEF vars
<1> QED
  BY <1>2, <1>3, <1>4, <1>5, <1>6, <1>8, <1>9, <1>10, <1>11, <1>12, <1>13, <1>14, <1>15,
     <1>17, <1>18, <1>19 DEF Next, PassStep

LEMMA ContentInit == Init => OneContent
<1> SUFFICES ASSUME Init PROVE MeantAs({})
  BY DEF OneContent
<1> QED
  BY EmptyMeans DEF Init, MeantAs, MeansOn

\* Two phones that have joined one account and have no more to send or to pull.
InStep(p, a, k) == SyncsWith(p, a) /\ ~row[p][k].pending /\ k \notin behind[p]
PhonesAgree ==
    \A p, q \in Phones, a \in Accounts, k \in Keys :
        InStep(p, a, k) /\ InStep(q, a, k) => Same(row[p][k], row[q][k])

\* What sync is for: two phones of an account hold the same version of every row
\* that waits on neither and has no newer arrival ahead of either, or neither
\* shows it, however their passes, edits and consent answers interleaved.
THEOREM PhonesAgreeAlways == Whole /\ Spec => []PhonesAgree
<1> DEFINE Inv == Types /\ Known /\ OneContent
<1>1. Init => Inv
  BY TypesInit, KnownInit, ContentInit
<1>2. Inv /\ [Next]_vars => Inv'
  BY TypesStep, KnownStep, ContentStep
<1>3. Inv /\ SettledAgrees => PhonesAgree
  <2> SUFFICES ASSUME SettledAgrees, NEW lives \in SUBSET Nat, MeantAs(lives),
                      NEW p \in Phones, NEW q \in Phones, NEW a \in Accounts, NEW k \in Keys,
                      InStep(p, a, k), InStep(q, a, k)
               PROVE  Same(row[p][k], row[q][k])
    BY DEF OneContent, PhonesAgree
  <2>1. Same(row[p][k], srv[a][k]) /\ Same(row[q][k], srv[a][k])
    BY DEF SettledAgrees, InStep
  <2>2. Means(row[p][k], lives) /\ Means(row[q][k], lives) /\ Means(srv[a][k], lives)
    BY DEF MeantAs, MeansOn
  <2> QED
    BY <2>1, <2>2 DEF Same, Means
<1> HIDE DEF Inv
<1> QED
  BY <1>1, <1>2, <1>3, SettledAgreesAlways, PTL DEF Spec
=============================================================================
