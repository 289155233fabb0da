------------------------- MODULE AccountSessionProofs -------------------------
(***************************************************************************)
(* Proofs about AccountSession, for any number of calls and of users: the     *)
(* session on screen is the one whose token the requests carry, no pass runs  *)
(* beside a deletion, every local write finds its pass, no ended session      *)
(* comes back, and no pass runs ahead of the consent question.                *)
(***************************************************************************)
EXTENDS AccountSession, TLAPS

Manager == [identity : Users \cup {NoUser}, orphaned : BOOLEAN, awaiting : BOOLEAN,
            unfinished : Users \cup {NoUser}, current : Slots \cup {NoSlot},
            exchanging : Slots \cup {NoSlot}, online : BOOLEAN,
            launch : {"off", "reading", "unread", "on"}]
Screen == [shown : BOOLEAN, sheet : BOOLEAN, host : BOOLEAN, prompt : {"none", "signIn", "account"},
           status : {"idle", "saving", "failed"}, pending : BOOLEAN, deleting : BOOLEAN]
Passing == [step : {"idle", "token", "run"}, user : Users \cup {NoUser}, trailing : BOOLEAN,
            now : SUBSET Slots, next : SUBSET Slots, token : BOOLEAN]
Device == [stored : Users \cup {NoUser}, mark : BOOLEAN]
History == [writes : {"read", "due", "late"}, covered : BOOLEAN]

\* The types alone.
Types ==
    /\ call \in [Slots -> Call] /\ mgr \in Manager /\ ui \in Screen /\ pass \in Passing
    /\ disk \in Device /\ hist \in History

\* A pass that is idle is waited for by nobody.
Waited ==
    /\ pass.step = "idle" => pass.now = {} /\ ~pass.trailing
    /\ pass.next # {} => pass.trailing

SignedIn == mgr.identity # NoUser
Unserved == hist.writes = "due"
Forgetting == \E c \in Slots : call[c].pc \in {"forget", "forgetDeleted"}
Ending == \E c \in Slots : call[c].pc \in Enders
Launching(c) == call[c].pc \in {"current", "appleLaunch"}

-----------------------------------------------------------------------------
(* What the helpers of the model do.                                         *)

\* Every call but c's is what it was.
Kept(c) == \A d \in Slots : d # c => call'[d] = call[d]

\* Of every other call only whether it still sees the identity it began with
\* may have changed: it does not.
Unseen(c) ==
    \A d \in Slots : d # c =>
        /\ call'[d].pc = call[d].pc /\ call'[d].user = call[d].user /\ call'[d].asked = call[d].asked
        /\ call[d].pc \in Watching => ~call'[d].same

\* What most steps leave alone of the manager's state, and of the screens'.
SameManager ==
    /\ mgr'.identity = mgr.identity /\ mgr'.awaiting = mgr.awaiting /\ mgr'.launch = mgr.launch
    /\ mgr'.current = mgr.current /\ mgr'.exchanging = mgr.exchanging /\ mgr'.online = mgr.online
SameScreen ==
    /\ ui'.shown = ui.shown /\ ui'.prompt = ui.prompt /\ ui'.status = ui.status /\ ui'.sheet = ui.sheet

\* What the steps do to the history.
LEMMA HistoryFacts ==
    ASSUME hist \in History
    PROVE  /\ PutOff \in History /\ PutOff.writes # "due" /\ (PutOff.covered <=> hist.covered)
           /\ Covered \in History /\ Covered.writes = hist.writes
           /\ Covered.covered <=> (hist.covered \/ ui.prompt = "signIn")
           /\ Uncovered \in History /\ Uncovered.writes = hist.writes /\ ~Uncovered.covered
<1>1. PutOff \in History /\ PutOff.writes # "due" /\ (PutOff.covered <=> hist.covered)
  BY DEF PutOff, History
<1>2. /\ Covered \in History /\ Covered.writes = hist.writes
      /\ Covered.covered <=> (hist.covered \/ ui.prompt = "signIn")
  BY DEF Covered, History
<1>3. Uncovered \in History /\ Uncovered.writes = hist.writes /\ ~Uncovered.covered
  BY DEF Uncovered, History
<1> QED
  BY <1>1, <1>2, <1>3

LEMMA ConstantFacts ==
    /\ NoUser \notin Users /\ NoSlot \notin Slots
    /\ LateAnswers \in BOOLEAN /\ Outlived \in BOOLEAN /\ Unreadable \in BOOLEAN
    /\ TrackWrites \in BOOLEAN
    /\ NoCall \in Call /\ Fresh \in Manager /\ SignedOut \in Screen /\ NoPass \in Passing
<1>1. /\ NoUser \notin Users /\ NoSlot \notin Slots
      /\ LateAnswers \in BOOLEAN /\ Outlived \in BOOLEAN /\ Unreadable \in BOOLEAN
      /\ TrackWrites \in BOOLEAN
  BY SessionAssumption
<1>2. NoCall \in Call
  BY DEF NoCall, Call, Steps
<1>3. Fresh \in Manager /\ SignedOut \in Screen /\ NoPass \in Passing
  BY DEF Fresh, Manager, SignedOut, Screen, NoPass, Passing
<1> QED
  BY <1>1, <1>2, <1>3

\* A call is replaced.
LEMMA PutFacts ==
    ASSUME Types, NEW c \in Slots, NEW r \in Call, call' = [call EXCEPT ![c] = r]
    PROVE  call' \in [Slots -> Call] /\ call'[c] = r /\ Kept(c)
BY DEF Types, Kept

LEMMA GotoFacts ==
    ASSUME Types, NEW c \in Slots, NEW pc \in Steps, Goto(c, pc)
    PROVE  /\ call' \in [Slots -> Call] /\ Kept(c)
           /\ call'[c].pc = pc /\ call'[c].user = call[c].user /\ call'[c].asked = call[c].asked
           /\ call'[c].same = call[c].same
<1>1. call[c] \in Call
  BY DEF Types
<1>2. [call[c] EXCEPT !.pc = pc] \in Call
  BY <1>1 DEF Call
<1>3. call' = [call EXCEPT ![c] = [call[c] EXCEPT !.pc = pc]]
  BY DEF Goto
<1>4. call' \in [Slots -> Call] /\ call'[c] = [call[c] EXCEPT !.pc = pc] /\ Kept(c)
  BY <1>2, <1>3, PutFacts
<1> QED
  BY <1>1, <1>4 DEF Call

LEMMA ReturnFacts ==
    ASSUME Types, NEW c \in Slots, Return(c)
    PROVE  call' \in [Slots -> Call] /\ Kept(c) /\ call'[c].pc = "idle"
<1>1. call' \in [Slots -> Call] /\ call'[c] = NoCall /\ Kept(c)
  BY ConstantFacts, PutFacts DEF Return
<1> QED
  BY <1>1 DEF NoCall

\* A new call, or one that keeps nothing but where it waits.
LEMMA WaitsFacts ==
    ASSUME Types, NEW c \in Slots, NEW pc \in Steps, Waits(c, pc)
    PROVE  call' \in [Slots -> Call] /\ Kept(c) /\ call'[c].pc = pc /\ call'[c].same
<1>1. [NoCall EXCEPT !.pc = pc] \in Call
  BY ConstantFacts DEF Call
<1>2. call' \in [Slots -> Call] /\ Kept(c) /\ call'[c] = [NoCall EXCEPT !.pc = pc]
  BY <1>1, PutFacts DEF Waits
<1> QED
  BY <1>2 DEF NoCall

LEMMA BeginsFacts ==
    ASSUME Types, NEW c \in Slots, NEW pc \in Steps, Begins(c, pc)
    PROVE  /\ call' \in [Slots -> Call] /\ Kept(c) /\ call[c].pc = "idle"
           /\ call'[c].pc = pc /\ call'[c].user = mgr.identity /\ call'[c].same
<1>1. mgr.identity \in Users \cup {NoUser}
  BY DEF Types, Manager
<1>2. [NoCall EXCEPT !.pc = pc, !.user = mgr.identity] \in Call
  BY <1>1, ConstantFacts DEF Call
<1>3. /\ call' \in [Slots -> Call] /\ Kept(c)
      /\ call'[c] = [NoCall EXCEPT !.pc = pc, !.user = mgr.identity]
  BY <1>2, PutFacts DEF Begins
<1> QED
  BY <1>3 DEF NoCall, Begins, Idle, On

LEMMA AsksFacts ==
    ASSUME Types, NEW c \in Slots, NEW pc \in Steps, AsksAuth(c, pc)
    PROVE  /\ call' \in [Slots -> Call] /\ Kept(c)
           /\ call'[c].pc = pc /\ call'[c].user = mgr.identity /\ call'[c].same
<1>1. mgr.identity \in Users \cup {NoUser} /\ (pass.step = "token") \in BOOLEAN
  BY DEF Types, Manager
<1>2. [NoCall EXCEPT !.pc = pc, !.user = mgr.identity, !.behind = pass.step = "token"] \in Call
  BY <1>1, ConstantFacts DEF Call
<1>3. /\ call' \in [Slots -> Call] /\ Kept(c)
      /\ call'[c] = [NoCall EXCEPT !.pc = pc, !.user = mgr.identity, !.behind = pass.step = "token"]
  BY <1>2, PutFacts DEF AsksAuth
<1> QED
  BY <1>3 DEF NoCall

LEMMA AssignedFacts ==
    ASSUME Types, NEW c \in Slots, NEW r \in Call, Assigned(c, r)
    PROVE  call' \in [Slots -> Call] /\ call'[c] = r /\ Unseen(c)
<1>1. \A d \in Slots : call[d] \in Call
  BY DEF Types
<1>2. \A d \in Slots : [call[d] EXCEPT !.same = FALSE] \in Call
  BY <1>1 DEF Call
<1>3. call' \in [Slots -> Call] /\ call'[c] = r
  BY <1>1, <1>2 DEF Assigned
<1>4. ASSUME NEW d \in Slots, d # c
      PROVE  call'[d] = IF call[d].pc \in Watching THEN [call[d] EXCEPT !.same = FALSE] ELSE call[d]
  BY <1>4 DEF Assigned
<1>5. ASSUME NEW d \in Slots, d # c
      PROVE  /\ call'[d].pc = call[d].pc /\ call'[d].user = call[d].user /\ call'[d].asked = call[d].asked
             /\ call[d].pc \in Watching => ~call'[d].same
  <2>1. CASE call[d].pc \in Watching
    BY <1>1, <1>4, <1>5, <2>1 DEF Call
  <2>2. CASE call[d].pc \notin Watching
    BY <1>4, <1>5, <2>2
  <2> QED
    BY <2>1, <2>2
<1> QED
  BY <1>3, <1>5 DEF Unseen

\* A request for a pass: the one that runs is followed by another; else one
\* starts, or may not.
LEMMA SyncFacts ==
    ASSUME Types, Waited, mgr' \in Manager, NEW w \in SUBSET Slots, runSync(w)
    PROVE  /\ pass' \in Passing /\ Waited'
           /\ \/ /\ pass.step # "idle" /\ pass'.step = pass.step /\ pass'.user = pass.user
                 /\ pass'.trailing /\ pass'.token = pass.token
              \/ /\ pass.step = "idle" /\ CanPass' /\ pass'.step = "token" /\ pass'.user = mgr'.identity
                 /\ ~pass'.trailing /\ ~pass'.token
              \/ pass.step = "idle" /\ ~CanPass' /\ pass' = pass
<1>1. pass \in Passing /\ mgr'.identity \in Users \cup {NoUser}
  BY DEF Types, Manager
<1>2. CASE pass.step # "idle"
  <2>1. pass' = [pass EXCEPT !.trailing = TRUE, !.next = @ \cup w]
    BY <1>2 DEF runSync
  <2> QED
    BY <1>1, <1>2, <2>1 DEF Passing, Waited
<1>3. CASE pass.step = "idle" /\ CanPass'
  <2>1. pass' = [NoPass EXCEPT !.step = "token", !.user = mgr'.identity, !.now = w]
    BY <1>3 DEF runSync
  <2> QED
    BY <1>1, <1>3, <2>1 DEF Passing, Waited, NoPass
<1>4. CASE pass.step = "idle" /\ ~CanPass'
  <2>1. pass' = pass
    BY <1>4 DEF runSync
  <2> QED
    BY <1>1, <1>4, <2>1 DEF Waited
<1> QED
  BY <1>2, <1>3, <1>4

LEMMA FollowFacts ==
    ASSUME Types, Waited, NEW token \in BOOLEAN, Follow(token)
    PROVE  /\ pass' \in Passing /\ Waited'
           /\ \/ /\ pass.trailing /\ CanPass /\ pass'.step = "token" /\ pass'.user = mgr.identity
                 /\ ~pass'.trailing /\ ~pass'.token
              \/ /\ ~(pass.trailing /\ CanPass) /\ pass'.step = "idle" /\ pass'.token = token
                 /\ ~pass'.trailing
<1>1. pass \in Passing /\ mgr.identity \in Users \cup {NoUser}
  BY DEF Types, Manager
<1>2. CASE pass.trailing /\ CanPass
  <2>1. pass' = [NoPass EXCEPT !.step = "token", !.user = mgr.identity, !.now = pass.next]
    BY <1>2 DEF Follow
  <2> QED
    BY <1>1, <1>2, <2>1 DEF Passing, Waited, NoPass
<1>3. CASE ~(pass.trailing /\ CanPass)
  <2>1. pass' = [NoPass EXCEPT !.token = token]
    BY <1>3 DEF Follow
  <2> QED
    BY <1>1, <1>3, <2>1 DEF Passing, Waited, NoPass
<1> QED
  BY <1>2, <1>3

-----------------------------------------------------------------------------
(* What each step does: the types it keeps, and the effects that matter.     *)

LEMMA TokenReadFacts ==
    ASSUME Types, Waited, TokenRead
    PROVE  /\ Types' /\ Waited' /\ UNCHANGED <<mgr, ui, disk>> /\ pass.step = "token"
           /\ \A c \in Slots : /\ call'[c].pc = call[c].pc /\ call'[c].user = call[c].user
                               /\ call'[c].asked = call[c].asked /\ call'[c].same = call[c].same
           /\ hist'.covered <=> hist.covered
           /\ \/ (mgr.identity # pass.user \/ Deleting) /\ Follow(pass.token) /\ hist' = hist
              \/ /\ mgr.identity = pass.user /\ ~Deleting /\ ~Unserved'
                 /\ pass'.step = "run" /\ pass'.user = pass.user /\ pass'.token = pass.token
              \/ mgr.identity = pass.user /\ ~Deleting /\ Follow(TRUE) /\ hist' = hist
<1>1. \A c \in Slots : call[c] \in Call
  BY DEF Types
<1>2. \A c \in Slots : [call[c] EXCEPT !.behind = FALSE] \in Call
  BY <1>1 DEF Call
<1>3. call' = [c \in Slots |-> [call[c] EXCEPT !.behind = FALSE]]
  BY DEF TokenRead, TokenAnswered
<1>4. /\ call' \in [Slots -> Call]
      /\ \A c \in Slots : /\ call'[c].pc = call[c].pc /\ call'[c].user = call[c].user
                          /\ call'[c].asked = call[c].asked /\ call'[c].same = call[c].same
  BY <1>1, <1>2, <1>3 DEF Call
<1>5. UNCHANGED <<mgr, ui, disk>> /\ pass.step = "token" /\ pass \in Passing /\ hist \in History
  BY DEF TokenRead, Types
<1>6. CASE (mgr.identity # pass.user \/ Deleting) /\ Follow(pass.token) /\ hist' = hist
  <2>1. pass.token \in BOOLEAN
    BY <1>5 DEF Passing
  <2>2. pass' \in Passing /\ Waited'
    BY <1>6, <2>1, FollowFacts
  <2> QED
    BY <1>4, <1>5, <1>6, <2>2 DEF Types
<1>7. CASE mgr.identity = pass.user /\ ~Deleting /\ pass' = [pass EXCEPT !.step = "run"]
         /\ hist' = [hist EXCEPT !.writes = "read"]
  <2>1. /\ pass' \in Passing /\ Waited' /\ pass'.step = "run" /\ pass'.user = pass.user
        /\ pass'.token = pass.token
    BY <1>5, <1>7 DEF Passing, Waited
  <2>2. hist' \in History /\ hist'.writes = "read" /\ (hist'.covered <=> hist.covered)
    BY <1>5, <1>7 DEF History
  <2> QED
    BY <1>4, <1>5, <1>7, <2>1, <2>2 DEF Types, Unserved
<1>8. CASE mgr.identity = pass.user /\ ~Deleting /\ Follow(TRUE) /\ hist' = hist
  <2>1. pass' \in Passing /\ Waited'
    BY <1>8, FollowFacts
  <2> QED
    BY <1>4, <1>5, <1>8, <2>1 DEF Types
<1> QED
  BY <1>6, <1>7, <1>8 DEF TokenRead

LEMMA RunEndsFacts ==
    ASSUME Types, Waited, RunEnds
    PROVE  /\ Types' /\ Waited' /\ UNCHANGED <<call, mgr, ui, disk, hist>>
           /\ pass.step = "run" /\ Follow(pass.token)
<1>1. pass.token \in BOOLEAN
  BY DEF Types, Passing
<1> QED
  BY <1>1, FollowFacts DEF RunEnds, Types

\* What asks for a pass and waits for none.
LEMMA AskingFacts ==
    ASSUME Types, Waited, localWrite \/ tokenRefreshed \/ setOnline
    PROVE  /\ Types' /\ Waited' /\ UNCHANGED <<call, ui, disk>>
           /\ mgr'.identity = mgr.identity /\ mgr'.awaiting = mgr.awaiting /\ mgr'.launch = mgr.launch
           /\ mgr'.current = mgr.current /\ mgr'.exchanging = mgr.exchanging
           /\ runSync({}) \/ (pass' = pass /\ (mgr'.online => ~SignedIn))
           /\ hist'.covered <=> hist.covered
           /\ hist' = hist \/ (~Unserved' /\ Deleting) \/ (runSync({}) /\ ~Deleting)
           /\ mgr' # mgr \/ hist' # hist => runSync({}) \/ ~mgr'.online \/ ~SignedIn
<1>1. /\ UNCHANGED <<call, ui, disk>> /\ mgr \in Manager
      /\ mgr' = mgr \/ mgr' = [mgr EXCEPT !.online = ~@]
      /\ runSync({}) \/ (pass' = pass /\ (mgr'.online => ~SignedIn))
      /\ \/ hist' = hist
         \/ /\ hist' = [hist EXCEPT !.writes = IF Deleting THEN "late" ELSE "due"]
            /\ runSync({})
      /\ mgr' # mgr \/ hist' # hist => runSync({}) \/ ~mgr'.online \/ ~SignedIn
  BY DEF localWrite, tokenRefreshed, setOnline, Types, SignedIn
<1>2. mgr' \in Manager
  BY <1>1 DEF Manager
<1>5. /\ hist' \in History /\ (hist'.covered <=> hist.covered)
      /\ hist' = hist \/ (~Unserved' /\ Deleting) \/ (runSync({}) /\ ~Deleting)
  BY <1>1 DEF Types, History, Unserved
<1>3. pass' \in Passing /\ Waited'
  BY <1>1, <1>2, SyncFacts DEF Types, Waited
<1>4. /\ mgr'.identity = mgr.identity /\ mgr'.awaiting = mgr.awaiting /\ mgr'.launch = mgr.launch
      /\ mgr'.current = mgr.current /\ mgr'.exchanging = mgr.exchanging
  BY <1>1 DEF Manager
<1> QED
  BY <1>1, <1>2, <1>3, <1>4, <1>5 DEF Types

LEMMA ScreenFacts ==
    ASSUME Types, Waited, openSignIn \/ openConsent
    PROVE  /\ Types' /\ Waited' /\ UNCHANGED <<call, mgr, pass, disk, hist>>
           /\ ui'.shown = ui.shown /\ (ui.sheet => ui'.sheet)
           /\ \/ ui'.prompt = ui.prompt /\ ui'.status = ui.status /\ ~ui.shown
              \/ /\ SignedIn /\ ~ui.sheet /\ ui.status # "saving"
                 /\ ui'.prompt = "account" /\ ui'.status = "idle"
BY DEF openSignIn, openConsent, OnAccountScreen, Types, Screen, Waited, SignedIn

LEMMA KilledFacts ==
    ASSUME Types, Waited, Killed
    PROVE  /\ Types' /\ Waited' /\ mgr' = Fresh /\ ui' = SignedOut /\ pass' = NoPass
           /\ UNCHANGED disk /\ \A c \in Slots : call'[c] = NoCall
           /\ Outlived \/ ~disk.mark \/ disk.stored # NoUser
BY ConstantFacts, HistoryFacts DEF Killed, Types, Waited, NoPass

\* A call that a pass or a deletion held goes on.
LEMMA ResumedFacts ==
    ASSUME Types, Waited, NEW c \in Slots, PassAwaited(c) \/ LastPassEnded(c) \/ GoneWaited(c) \/ passesSettled(c)
    PROVE  /\ Types' /\ Waited' /\ Kept(c) /\ UNCHANGED <<mgr, ui, pass, disk, hist>>
           /\ \/ call[c].pc \in {"pass", "goneWait"} /\ call'[c].pc = "idle"
                 /\ ~(call[c].pc = "goneWait" /\ call[c].same)
              \/ call[c].pc = "endPass" /\ call'[c].pc = "endAuth"
              \/ call[c].pc = "goneWait" /\ call'[c].pc = "goneAuth"
              \/ /\ pass.step = "idle" /\ call'[c].asked = call[c].asked
                 /\ \/ call[c].pc = "settle" /\ call'[c].pc = "erase"
                    \/ call[c].pc = "retrySettle" /\ call'[c].pc = "retryErase"
<1>1. CASE PassAwaited(c)
  BY <1>1, ReturnFacts DEF PassAwaited, On, Types, Waited
<1>2. CASE LastPassEnded(c)
  BY <1>2, AsksFacts DEF LastPassEnded, On, Types, Waited, Steps, EndSteps
<1>3. CASE GoneWaited(c)
  BY <1>3, AsksFacts, ReturnFacts DEF GoneWaited, On, Types, Waited, Steps, EndSteps
<1>4. CASE passesSettled(c)
  <2>1. Goto(c, IF On(c, "settle") THEN "erase" ELSE "retryErase") /\ UNCHANGED <<mgr, ui, pass, disk, hist>>
        /\ call[c].pc \in {"settle", "retrySettle"} /\ pass.step = "idle"
    BY <1>4 DEF passesSettled
  <2>2. (IF On(c, "settle") THEN "erase" ELSE "retryErase") \in Steps
    BY DEF Steps, DeletionSteps
  <2> QED
    BY <2>1, <2>2, GotoFacts DEF On, Types, Waited
<1> QED
  BY <1>1, <1>2, <1>3, <1>4

LEMMA SignInFinishedFacts ==
    ASSUME Types, Waited, NEW c \in Slots, SignInFinished(c)
    PROVE  /\ Types' /\ Waited' /\ Kept(c) /\ UNCHANGED <<mgr, pass, disk, hist>>
           /\ call[c].pc = "firstPass" /\ call'[c].pc = "idle"
           /\ ui'.shown = ui.shown /\ ui'.prompt = ui.prompt /\ ui'.status = ui.status /\ (ui.sheet => ui'.sheet)
<1>1. Return(c) /\ UNCHANGED <<mgr, pass, disk, hist>> /\ call[c].pc = "firstPass"
  BY DEF SignInFinished, On
<1>2. \/ ui' = [ui EXCEPT !.host = FALSE, !.pending = FALSE, !.sheet = ui.sheet \/ ui.host]
      \/ ui' = [ui EXCEPT !.host = FALSE]
  BY DEF SignInFinished
<1>3. /\ ui' \in Screen
      /\ ui'.shown = ui.shown /\ ui'.prompt = ui.prompt /\ ui'.status = ui.status /\ (ui.sheet => ui'.sheet)
  BY <1>2 DEF Types, Screen
<1> QED
  BY <1>1, <1>3, ReturnFacts DEF Types, Waited

LEMMA EndWaitedFacts ==
    ASSUME Types, Waited, NEW c \in Slots, EndWaited(c)
    PROVE  /\ Types' /\ Waited' /\ Kept(c) /\ UNCHANGED <<mgr, ui, disk, hist>> /\ call[c].pc = "endWait"
           /\ \/ ~SignedIn /\ call'[c].pc = "idle" /\ pass' = pass
              \/ SignedIn /\ call'[c].pc = "endAuth" /\ pass' = pass
              \/ SignedIn /\ call'[c].pc = "endPass" /\ runSync({c})
<1>0. UNCHANGED <<mgr, ui, disk, hist>> /\ call[c].pc = "endWait" /\ mgr' \in Manager
  BY DEF EndWaited, On, Types
<1>1. CASE ~SignedIn /\ Return(c) /\ UNCHANGED pass
  BY <1>0, <1>1, ReturnFacts DEF Types, Waited
<1>2. CASE SignedIn /\ AsksAuth(c, "endAuth") /\ UNCHANGED pass
  BY <1>0, <1>2, AsksFacts DEF Types, Waited, Steps, EndSteps
<1>3. CASE SignedIn /\ Waits(c, "endPass") /\ runSync({c})
  BY <1>0, <1>3, WaitsFacts, SyncFacts DEF Types, Steps, EndSteps
<1> QED
  BY <1>1, <1>2, <1>3 DEF EndWaited, SignedIn

LEMMA RevokeWaitedFacts ==
    ASSUME Types, Waited, NEW c \in Slots, RevokeWaited(c)
    PROVE  /\ Types' /\ Waited' /\ Kept(c) /\ UNCHANGED <<pass, disk, hist>>
           /\ SameManager
           /\ SameScreen
           /\ call[c].pc = "revokeWait" /\ call'[c].pc \in {"retrySettle", "endWait"}
<1>1. /\ mgr' = [mgr EXCEPT !.unfinished = NoUser] /\ UNCHANGED <<pass, disk, hist>>
      /\ call[c].pc = "revokeWait"
  BY DEF RevokeWaited, On
<1>2. PICK mine \in BOOLEAN :
        ui' = [ui EXCEPT !.deleting = @ \/ mine] /\ Goto(c, IF mine THEN "retrySettle" ELSE "endWait")
  BY DEF RevokeWaited
<1>3. mgr' \in Manager /\ SameManager
  BY <1>1 DEF Types, Manager, SameManager
<1>4. ui' \in Screen /\ SameScreen
  BY <1>2 DEF Types, Screen, SameScreen
<1>5. (IF mine THEN "retrySettle" ELSE "endWait") \in Steps
  BY DEF Steps, DeletionSteps, EndSteps
<1> QED
  BY <1>1, <1>2, <1>3, <1>4, <1>5, GotoFacts DEF Types, Waited

\* The session is forgotten, whoever ends it.
LEMMA ForgetFacts ==
    ASSUME Types, Waited, NEW c \in Slots, Deleted(c) \/ SignedOutOfAuth(c) \/ GoneFromAuth(c)
    PROVE  /\ Types' /\ Waited' /\ Unseen(c) /\ ~SignedIn' /\ hist'.writes = hist.writes
           /\ mgr'.awaiting = FALSE /\ mgr'.launch = mgr.launch
           /\ mgr'.current = mgr.current /\ mgr'.exchanging = mgr.exchanging
           /\ SameScreen
           /\ pass'.step = pass.step /\ pass'.user = pass.user
           /\ disk'.stored = NoUser /\ disk'.mark = disk.mark
           /\ call[c].pc \in {"erase", "retryErase", "endAuth", "goneAuth"}
           /\ call'[c].pc \in {"forget", "forgetDeleted"}
<1>1. PICK pc \in {"forget", "forgetDeleted"} : forgetSession(c, pc)
  BY DEF Deleted, SignedOutOfAuth, GoneFromAuth
<1>2. call[c].pc \in {"erase", "retryErase", "endAuth", "goneAuth"}
  BY DEF Deleted, SignedOutOfAuth, GoneFromAuth, On
<1>3. [NoCall EXCEPT !.pc = pc] \in Call /\ [NoCall EXCEPT !.pc = pc].pc = pc
  BY DEF NoCall, Call, Steps, DeletionSteps, EndSteps
<1>4. call' \in [Slots -> Call] /\ call'[c].pc = pc /\ Unseen(c)
  BY <1>1, <1>3, AssignedFacts DEF forgetSession
<1>5. /\ mgr' \in Manager /\ mgr'.identity = NoUser /\ mgr'.awaiting = FALSE /\ mgr'.launch = mgr.launch
      /\ mgr'.current = mgr.current /\ mgr'.exchanging = mgr.exchanging
  BY <1>1 DEF forgetSession, Types, Manager
<1>6. ui' \in Screen /\ SameScreen
  BY <1>1 DEF forgetSession, Types, Screen, SameScreen
<1>7. pass' \in Passing /\ Waited' /\ pass'.step = pass.step /\ pass'.user = pass.user
  BY <1>1 DEF forgetSession, Types, Passing, Waited
<1>8. disk' \in Device /\ disk'.stored = NoUser /\ disk'.mark = disk.mark
  BY <1>1 DEF forgetSession, Types, Device
<1>9. hist' \in History /\ hist'.writes = hist.writes
  BY <1>1, HistoryFacts DEF forgetSession, Types
<1> QED
  BY <1>2, <1>4, <1>5, <1>6, <1>7, <1>8, <1>9 DEF Types, SignedIn

LEMMA ForgottenFacts ==
    ASSUME Types, Waited, NEW c \in Slots, Forgotten(c)
    PROVE  /\ Types' /\ Waited' /\ Kept(c) /\ UNCHANGED <<mgr, pass, hist>>
           /\ call[c].pc \in {"forget", "forgetDeleted"} /\ call'[c].pc = "idle"
           /\ \A d \in Slots : call[d].pc \notin {"markQ", "unmark"}
           /\ disk'.stored = disk.stored /\ ~disk'.mark
           /\ ~ui'.shown /\ ui'.prompt = "none" /\ ui'.status = "idle"
           /\ ui.sheet /\ ui.prompt # "signIn" => ui'.sheet
<1>1. /\ UNCHANGED <<mgr, pass, hist>> /\ Return(c) /\ call[c].pc \in {"forget", "forgetDeleted"}
      /\ \A d \in Slots : call[d].pc \notin {"markQ", "unmark"}
      /\ disk' = [disk EXCEPT !.mark = FALSE]
  BY DEF Forgotten, On
<1>2. disk' \in Device /\ disk'.stored = disk.stored /\ ~disk'.mark
  BY <1>1 DEF Types, Device
<1>3. PICK sheet \in BOOLEAN :
        ui' = [SignedOut EXCEPT !.sheet = sheet] /\ (ui.sheet /\ ui.prompt # "signIn" => sheet)
  BY DEF Forgotten, Types, Screen
<1>4. /\ ui' \in Screen /\ ~ui'.shown /\ ui'.prompt = "none" /\ ui'.status = "idle"
      /\ ui.sheet /\ ui.prompt # "signIn" => ui'.sheet
  BY <1>3 DEF SignedOut, Screen
<1> QED
  BY <1>1, <1>2, <1>4, ReturnFacts DEF Types, Waited

LEMMA DeletionFacts ==
    ASSUME Types, Waited, NEW c \in Slots, Reauthorized(c) \/ DeletionFailed(c) \/ RetryFailed(c) \/ HoldsRead(c)
    PROVE  /\ Types' /\ Waited' /\ Kept(c) /\ UNCHANGED <<pass, disk, hist>>
           /\ SameManager
           /\ SameScreen
           /\ \/ call[c].pc \in {"reauth", "erase", "holds"} /\ call'[c].pc = "idle"
              \/ call[c].pc = "reauth" /\ call'[c].pc = "settle"
              \/ call[c].pc = "retryErase" /\ call'[c].pc = "endWait"
              \/ call[c].pc = "holds" /\ call'[c].pc = "revokeWait" /\ mgr.identity = call[c].user
<1>0. call[c] \in Call /\ mgr \in Manager /\ ui \in Screen /\ {"settle", "endWait", "revokeWait"} \subseteq Steps
  BY DEF Types, Steps, DeletionSteps, EndSteps
<1>1. CASE Reauthorized(c)
  <2>1. call[c].pc = "reauth" /\ UNCHANGED <<mgr, pass, disk, hist>>
    BY <1>1 DEF Reauthorized, On
  <2>2. CASE Return(c) /\ ui' = [ui EXCEPT !.deleting = FALSE]
    BY <1>0, <2>1, <2>2, ReturnFacts DEF Types, Screen, Waited, SameScreen, SameManager
  <2>3. CASE UNCHANGED ui /\ \E code \in BOOLEAN : call' = [call EXCEPT ![c].pc = "settle", ![c].code = code]
    <3>1. PICK code \in BOOLEAN : call' = [call EXCEPT ![c] = [call[c] EXCEPT !.pc = "settle", !.code = code]]
      BY <2>3
    <3>2. [call[c] EXCEPT !.pc = "settle", !.code = code] \in Call
      BY <1>0 DEF Call
    <3>3. call' \in [Slots -> Call] /\ Kept(c) /\ call'[c] = [call[c] EXCEPT !.pc = "settle", !.code = code]
      BY <3>1, <3>2, PutFacts
    <3> QED
      BY <1>0, <2>1, <2>3, <3>3 DEF Types, Call, Waited, SameScreen, SameManager
  <2> QED
    BY <1>1, <2>2, <2>3 DEF Reauthorized
<1>2. CASE DeletionFailed(c)
  <2>1. /\ call[c].pc = "erase" /\ Return(c) /\ UNCHANGED <<pass, disk, hist>>
        /\ ui' = [ui EXCEPT !.deleting = FALSE]
        /\ mgr' = [mgr EXCEPT !.unfinished = IF call[c].code THEN call[c].user ELSE NoUser]
    BY <1>2 DEF DeletionFailed, On
  <2>2. (IF call[c].code THEN call[c].user ELSE NoUser) \in Users \cup {NoUser}
    BY <1>0 DEF Call
  <2> QED
    BY <1>0, <2>1, <2>2, ReturnFacts DEF Types, Screen, Manager, Waited, SameScreen, SameManager
<1>3. CASE RetryFailed(c)
  BY <1>0, <1>3, GotoFacts DEF RetryFailed, On, Types, Waited, SameScreen, SameManager
<1>4. CASE HoldsRead(c)
  <2>1. call[c].pc = "holds" /\ UNCHANGED <<mgr, ui, pass, disk, hist>>
    BY <1>4 DEF HoldsRead, On
  <2>2. CASE mgr.identity = call[c].user /\ Goto(c, "revokeWait")
    BY <1>0, <2>1, <2>2, GotoFacts DEF Types, Waited, SameScreen, SameManager
  <2>3. CASE Return(c)
    BY <2>1, <2>3, ReturnFacts DEF Types, Waited, SameScreen, SameManager
  <2> QED
    BY <1>4, <2>2, <2>3 DEF HoldsRead
<1> QED
  BY <1>1, <1>2, <1>3, <1>4


\* An exchange ends without a sign-in.
LEMMA ExchangeEndsFacts ==
    ASSUME Types, Waited, NEW c \in Slots, ExchangeFails(c) \/ ExchangeAbandoned(c)
    PROVE  /\ Types' /\ Waited' /\ Kept(c) /\ UNCHANGED <<pass, hist>> /\ SameScreen
           /\ call[c].pc = "exchange" /\ call'[c].pc \in {"idle", "dropOrphan", "dropOwn"}
           /\ mgr'.identity = mgr.identity /\ mgr'.awaiting = mgr.awaiting /\ mgr'.launch = mgr.launch
           /\ mgr'.current = mgr.current /\ mgr'.online = mgr.online
           /\ mgr'.exchanging = IF mgr.exchanging = c THEN NoSlot ELSE mgr.exchanging
           /\ disk'.mark = disk.mark
<1>0. /\ mgr \in Manager /\ ui \in Screen /\ disk \in Device /\ NoSlot \notin Slots
      /\ {"dropOrphan", "dropOwn"} \subseteq Steps
  BY SessionAssumption DEF Types, Steps, SignInSteps
<1>1. UNCHANGED <<pass, hist>> /\ call[c].pc = "exchange"
  BY DEF ExchangeFails, ExchangeAbandoned, On
<1>2. PICK o \in BOOLEAN : mgr' = [Ended(c) EXCEPT !.orphaned = o]
  <2>1. CASE ExchangeFails(c)
    <3>1. PICK drops \in BOOLEAN : mgr' = [Ended(c) EXCEPT !.orphaned = @ /\ ~drops]
      BY <2>1 DEF ExchangeFails
    <3> QED
      BY <3>1
  <2>2. CASE ExchangeAbandoned(c)
    <3>1. PICK alone \in BOOLEAN : mgr' = [Ended(c) EXCEPT !.orphaned = @ \/ (mgr.identity = NoUser /\ ~alone)]
      BY <2>2 DEF ExchangeAbandoned
    <3> QED
      BY <3>1
  <2> QED
    BY <2>1, <2>2
<1>3. /\ mgr' \in Manager
      /\ mgr'.identity = mgr.identity /\ mgr'.awaiting = mgr.awaiting /\ mgr'.launch = mgr.launch
      /\ mgr'.current = mgr.current /\ mgr'.online = mgr.online
      /\ mgr'.exchanging = IF mgr.exchanging = c THEN NoSlot ELSE mgr.exchanging
  BY <1>0, <1>2 DEF Ended, Manager
<1>4. ui' \in Screen /\ SameScreen
  BY <1>0 DEF ExchangeFails, ExchangeAbandoned, Screen, SameScreen
<1>5. disk' \in Device /\ disk'.mark = disk.mark
  BY <1>0 DEF ExchangeFails, ExchangeAbandoned, Device
<1>6. Return(c) \/ Goto(c, "dropOrphan") \/ Goto(c, "dropOwn")
  BY DEF ExchangeFails, ExchangeAbandoned
<1>7. call' \in [Slots -> Call] /\ Kept(c) /\ call'[c].pc \in {"idle", "dropOrphan", "dropOwn"}
  BY <1>0, <1>6, ReturnFacts, GotoFacts
<1> QED
  BY <1>1, <1>3, <1>4, <1>5, <1>7 DEF Types, Waited

LEMMA OrphanDroppedFacts ==
    ASSUME Types, Waited, NEW c \in Slots, OrphanDropped(c)
    PROVE  /\ Types' /\ Waited' /\ Kept(c) /\ UNCHANGED <<mgr, pass, hist>> /\ SameScreen
           /\ call[c].pc \in {"dropOrphan", "dropOwn"} /\ call'[c].pc = "idle"
           /\ disk'.stored = NoUser /\ disk'.mark = disk.mark
<1>1. UNCHANGED <<mgr, pass, hist>> /\ call[c].pc \in {"dropOrphan", "dropOwn"} /\ Return(c)
  BY DEF OrphanDropped
<1>2. disk' \in Device /\ disk'.stored = NoUser /\ disk'.mark = disk.mark
  BY DEF OrphanDropped, Types, Device
<1>3. ui' \in Screen /\ SameScreen
  BY DEF OrphanDropped, Types, Screen, SameScreen
<1> QED
  BY <1>1, <1>2, <1>3, ReturnFacts DEF Types, Waited

LEMMA ExchangeAdoptedFacts ==
    ASSUME Types, Waited, NEW c \in Slots, ExchangeAdopted(c)
    PROVE  /\ Types' /\ Waited' /\ Unseen(c) /\ UNCHANGED pass /\ hist'.writes = hist.writes
           /\ LateAnswers \/ /\ pass.step # "token"
                             /\ \A d \in Slots \ {c} : \/ call[d].pc \in {"idle", "pass", "firstPass"}
                                                       \/ call[d].pc = "exchange" /\ c # mgr.exchanging
           /\ call[c].pc = "exchange" /\ mgr.current = c
           /\ call'[c].pc = "consent" /\ call'[c].user = mgr'.identity
           /\ mgr'.identity # NoUser /\ mgr'.awaiting = TRUE /\ disk'.stored = mgr'.identity
           /\ disk'.mark = disk.mark
           /\ mgr'.launch = mgr.launch /\ mgr'.current = mgr.current
           /\ mgr'.exchanging = IF mgr.exchanging = c THEN NoSlot ELSE mgr.exchanging
           /\ ui'.shown /\ ui'.sheet = ui.sheet /\ ui'.prompt = ui.prompt /\ ui'.status = ui.status
<1>0. /\ mgr \in Manager /\ ui \in Screen /\ disk \in Device /\ NoUser \notin Users /\ NoSlot \notin Slots
      /\ "consent" \in Steps
  BY SessionAssumption DEF Types, Steps, SignInSteps
<1>1. /\ UNCHANGED pass /\ hist' = Uncovered /\ call[c].pc = "exchange" /\ mgr.current = c
      /\ LateAnswers \/ /\ pass.step # "token"
                        /\ \A d \in Slots \ {c} : \/ call[d].pc \in {"idle", "pass", "firstPass"}
                                                  \/ call[d].pc = "exchange" /\ c # mgr.exchanging
  BY DEF ExchangeAdopted, On, Outlasts
<1>2. PICK u \in Users :
        /\ disk' = [disk EXCEPT !.stored = u]
        /\ mgr' = [Ended(c) EXCEPT !.identity = u, !.awaiting = TRUE, !.orphaned = FALSE]
        /\ Assigned(c, [NoCall EXCEPT !.pc = "consent", !.user = u])
  BY DEF ExchangeAdopted
<1>3. /\ mgr' \in Manager /\ mgr'.identity = u /\ mgr'.awaiting = TRUE
      /\ mgr'.launch = mgr.launch /\ mgr'.current = mgr.current
      /\ mgr'.exchanging = IF mgr.exchanging = c THEN NoSlot ELSE mgr.exchanging
  BY <1>0, <1>2 DEF Ended, Manager
<1>4. disk' \in Device /\ disk'.stored = u /\ disk'.mark = disk.mark
  BY <1>0, <1>2 DEF Device
<1>5. /\ ui' \in Screen
      /\ ui'.shown /\ ui'.sheet = ui.sheet /\ ui'.prompt = ui.prompt /\ ui'.status = ui.status
  BY <1>0 DEF ExchangeAdopted, Screen
<1>6. /\ [NoCall EXCEPT !.pc = "consent", !.user = u] \in Call
      /\ [NoCall EXCEPT !.pc = "consent", !.user = u].pc = "consent"
      /\ [NoCall EXCEPT !.pc = "consent", !.user = u].user = u
  BY <1>0, ConstantFacts DEF NoCall, Call
<1>7. call' \in [Slots -> Call] /\ Unseen(c) /\ call'[c].pc = "consent" /\ call'[c].user = u
  BY <1>2, <1>6, AssignedFacts
<1>8. hist' \in History /\ hist'.writes = hist.writes
  BY <1>1, HistoryFacts DEF Types
<1> QED
  BY <1>0, <1>1, <1>3, <1>4, <1>5, <1>7, <1>8 DEF Types, Waited

\* A sign-in completes: its pass starts, unless the session has ended.
LEMMA FinishFacts ==
    ASSUME Types, Waited, mgr' \in Manager, NEW c \in Slots, finishSignIn(c)
    PROVE  /\ call' \in [Slots -> Call] /\ Kept(c) /\ pass' \in Passing /\ Waited'
           /\ \/ mgr'.identity = NoUser /\ call'[c].pc = "idle" /\ pass' = pass
              \/ mgr'.identity # NoUser /\ call'[c].pc = "firstPass" /\ runSync({c})
<1>1. CASE mgr'.identity = NoUser
  <2>1. Return(c) /\ pass' = pass
    BY <1>1 DEF finishSignIn
  <2> QED
    BY <1>1, <2>1, ReturnFacts DEF Types, Waited
<1>2. CASE mgr'.identity # NoUser
  <2>1. /\ call' = [call EXCEPT ![c] = [NoCall EXCEPT !.pc = "firstPass", !.user = mgr'.identity]]
        /\ runSync({c})
    BY <1>2 DEF finishSignIn
  <2>2. /\ [NoCall EXCEPT !.pc = "firstPass", !.user = mgr'.identity] \in Call
        /\ [NoCall EXCEPT !.pc = "firstPass", !.user = mgr'.identity].pc = "firstPass"
    <3>1. mgr'.identity \in Users \cup {NoUser} /\ "firstPass" \in Steps
      BY DEF Manager, Steps, SignInSteps
    <3> QED
      BY <3>1, ConstantFacts DEF NoCall, Call
  <2> QED
    BY <1>2, <2>1, <2>2, PutFacts, SyncFacts
<1> QED
  BY <1>1, <1>2

LEMMA ConsentReadFacts ==
    ASSUME Types, Waited, NEW c \in Slots, ConsentRead(c)
    PROVE  /\ Types' /\ Waited' /\ Kept(c) /\ UNCHANGED <<ui, disk, hist>> /\ call[c].pc = "consent"
           /\ mgr'.identity = mgr.identity /\ mgr'.launch = mgr.launch /\ mgr'.online = mgr.online
           /\ mgr'.current = mgr.current /\ mgr'.exchanging = mgr.exchanging
           /\ \/ /\ mgr.identity # call[c].user /\ call'[c].pc = "idle"
                 /\ pass' = pass /\ mgr'.awaiting = mgr.awaiting
              \/ /\ mgr.identity = call[c].user /\ call'[c].pc = "markQ" /\ call'[c].user = call[c].user
                 /\ ui.sheet /\ pass' = pass /\ mgr'.awaiting = mgr.awaiting
              \/ mgr'.awaiting = FALSE /\ ~SignedIn /\ pass' = pass /\ call'[c].pc = "idle"
              \/ mgr'.awaiting = FALSE /\ SignedIn /\ runSync({c}) /\ call'[c].pc = "firstPass"
<1>0. UNCHANGED <<ui, disk, hist>> /\ call[c].pc = "consent" /\ mgr \in Manager /\ "markQ" \in Steps
  BY DEF ConsentRead, On, Types, Steps, SignInSteps
<1>1. CASE mgr.identity # call[c].user /\ Return(c) /\ UNCHANGED <<mgr, pass>>
  BY <1>0, <1>1, ReturnFacts DEF Types, Waited
<1>2. CASE mgr.identity = call[c].user /\ ui.sheet /\ Goto(c, "markQ") /\ UNCHANGED <<mgr, pass>>
  BY <1>0, <1>2, GotoFacts DEF Types, Waited
<1>3. CASE mgr' = [mgr EXCEPT !.awaiting = FALSE] /\ finishSignIn(c)
  <2>1. /\ mgr' \in Manager /\ mgr'.awaiting = FALSE
        /\ mgr'.identity = mgr.identity /\ mgr'.launch = mgr.launch /\ mgr'.online = mgr.online
        /\ mgr'.current = mgr.current /\ mgr'.exchanging = mgr.exchanging
    BY <1>0, <1>3 DEF Manager
  <2> QED
    BY <1>0, <1>3, <2>1, FinishFacts DEF Types, SignedIn
<1> QED
  BY <1>1, <1>2, <1>3 DEF ConsentRead

LEMMA QuestionShownFacts ==
    ASSUME Types, Waited, NEW c \in Slots, QuestionShown(c)
    PROVE  /\ Types' /\ Waited' /\ Kept(c) /\ UNCHANGED <<mgr, pass, hist>> /\ call[c].pc = "markQ"
           /\ disk'.stored = disk.stored /\ disk'.mark
           /\ \/ mgr.identity # call[c].user /\ UNCHANGED ui /\ call'[c].pc = "idle"
              \/ /\ mgr.identity = call[c].user /\ ui'.shown = ui.shown /\ ui'.sheet = ui.sheet
                 /\ ui'.prompt = "signIn" /\ ui'.status = "idle"
                 /\ \/ call'[c].pc = "idle" /\ mgr.current = c /\ ui.sheet
                    \/ call'[c].pc = "unmark" /\ call'[c].user = call[c].user /\ call'[c].asked
<1>0. /\ UNCHANGED <<mgr, pass, hist>> /\ call[c].pc = "markQ" /\ call[c] \in Call /\ ui \in Screen
      /\ "unmark" \in Steps
  BY DEF QuestionShown, On, Types, Steps, AnswerSteps
<1>1. disk' \in Device /\ disk'.stored = disk.stored /\ disk'.mark
  BY DEF QuestionShown, Types, Device
<1>2. CASE mgr.identity # call[c].user
  <2>1. Return(c) /\ UNCHANGED ui
    BY <1>2 DEF QuestionShown
  <2> QED
    BY <1>0, <1>1, <1>2, <2>1, ReturnFacts DEF Types, Waited
<1>3. CASE mgr.identity = call[c].user
  <2>1. PICK closed \in BOOLEAN :
          /\ closed = (mgr.current # c \/ ~ui.sheet)
          /\ ui' = [ui EXCEPT !.prompt = "signIn", !.status = "idle", !.host = @ \/ closed]
          /\ IF closed THEN call' = [call EXCEPT ![c] = [call[c] EXCEPT !.pc = "unmark", !.asked = TRUE]]
             ELSE Return(c)
    BY <1>3 DEF QuestionShown
  <2>2. /\ ui' \in Screen /\ ui'.shown = ui.shown /\ ui'.sheet = ui.sheet
        /\ ui'.prompt = "signIn" /\ ui'.status = "idle"
    BY <1>0, <2>1 DEF Screen
  <2>3. CASE closed
    <3>1. /\ [call[c] EXCEPT !.pc = "unmark", !.asked = TRUE] \in Call
          /\ [call[c] EXCEPT !.pc = "unmark", !.asked = TRUE].pc = "unmark"
          /\ [call[c] EXCEPT !.pc = "unmark", !.asked = TRUE].asked
          /\ [call[c] EXCEPT !.pc = "unmark", !.asked = TRUE].user = call[c].user
      BY <1>0 DEF Call
    <3>2. /\ call' \in [Slots -> Call] /\ Kept(c)
          /\ call'[c].pc = "unmark" /\ call'[c].user = call[c].user /\ call'[c].asked
      BY <2>1, <2>3, <3>1, PutFacts
    <3> QED
      BY <1>0, <1>1, <1>3, <2>2, <3>2 DEF Types, Waited
  <2>4. CASE ~closed
    BY <1>0, <1>1, <1>3, <2>1, <2>2, <2>4, ReturnFacts DEF Types, Waited
  <2> QED
    BY <2>3, <2>4
<1> QED
  BY <1>2, <1>3

LEMMA ConsentGivenFacts ==
    ASSUME Types, Waited, NEW c \in Slots, ConsentGiven(c)
    PROVE  /\ Types' /\ Waited' /\ Kept(c) /\ UNCHANGED <<mgr, disk>> /\ call[c].pc = "give"
           /\ hist'.writes = hist.writes /\ (hist.covered => hist'.covered)
           /\ \/ mgr.identity # call[c].user /\ call'[c].pc = "idle" /\ UNCHANGED <<ui, pass>>
              \/ /\ mgr.identity = call[c].user /\ call'[c].pc = "idle" /\ UNCHANGED pass
                 /\ ui'.shown = ui.shown /\ ui'.sheet = ui.sheet /\ ui'.status = "failed"
                 /\ \/ call[c].asked /\ ui.sheet /\ ui'.prompt = "signIn"
                    \/ /\ ~call[c].asked /\ ui'.prompt = "account"
                       /\ ui.prompt = "signIn" => hist'.covered
              \/ /\ mgr.identity = call[c].user /\ call[c].asked /\ UNCHANGED <<ui, pass>>
                 /\ call'[c].pc = "unmark" /\ call'[c].asked /\ call'[c].user = call[c].user
              \/ /\ mgr.identity = call[c].user /\ ~call[c].asked /\ call'[c].pc = "pass" /\ runSync({c})
                 /\ ui'.shown = ui.shown /\ ui'.sheet = ui.sheet /\ ui'.status = "idle" /\ ui'.prompt = "none"
                 /\ ui.prompt = "signIn" => hist'.covered
<1>0. /\ UNCHANGED <<mgr, disk>> /\ call[c].pc = "give" /\ call[c] \in Call /\ ui \in Screen
      /\ {"unmark", "pass"} \subseteq Steps /\ mgr' \in Manager
  BY DEF ConsentGiven, On, Types, Steps, AnswerSteps
<1>1. CASE mgr.identity # call[c].user /\ Return(c) /\ UNCHANGED <<ui, pass, hist>>
  BY <1>0, <1>1, ReturnFacts DEF Types, Waited
<1>2. CASE /\ mgr.identity = call[c].user /\ (~call[c].asked \/ ui.sheet) /\ Return(c) /\ UNCHANGED pass
           /\ ui' = [ui EXCEPT !.status = "failed", !.prompt = IF call[c].asked THEN "signIn" ELSE "account"]
           /\ hist' = IF call[c].asked THEN hist ELSE Covered
  <2>1. /\ ui' \in Screen /\ ui'.shown = ui.shown /\ ui'.sheet = ui.sheet /\ ui'.status = "failed"
        /\ ui'.prompt = IF call[c].asked THEN "signIn" ELSE "account"
    BY <1>0, <1>2 DEF Screen
  <2>2. /\ hist' \in History /\ hist'.writes = hist.writes /\ (hist.covered => hist'.covered)
        /\ ~call[c].asked /\ ui.prompt = "signIn" => hist'.covered
    BY <1>2, HistoryFacts DEF Types
  <2> QED
    BY <1>0, <1>2, <2>1, <2>2, ReturnFacts DEF Types, Waited
<1>3. CASE /\ mgr.identity = call[c].user /\ call[c].asked /\ UNCHANGED <<ui, pass, hist>>
           /\ \E saved \in BOOLEAN : call' = [call EXCEPT ![c] = [call[c] EXCEPT !.pc = "unmark", !.saved = saved]]
  <2>1. PICK saved \in BOOLEAN : call' = [call EXCEPT ![c] = [call[c] EXCEPT !.pc = "unmark", !.saved = saved]]
    BY <1>3
  <2>2. /\ [call[c] EXCEPT !.pc = "unmark", !.saved = saved] \in Call
        /\ [call[c] EXCEPT !.pc = "unmark", !.saved = saved].pc = "unmark"
        /\ [call[c] EXCEPT !.pc = "unmark", !.saved = saved].asked = call[c].asked
        /\ [call[c] EXCEPT !.pc = "unmark", !.saved = saved].user = call[c].user
    BY <1>0 DEF Call
  <2>3. /\ call' \in [Slots -> Call] /\ Kept(c)
        /\ call'[c].pc = "unmark" /\ call'[c].asked = call[c].asked /\ call'[c].user = call[c].user
    BY <2>1, <2>2, PutFacts
  <2> QED
    BY <1>0, <1>3, <2>3 DEF Types, Waited
<1>4. CASE /\ mgr.identity = call[c].user /\ ~call[c].asked /\ Waits(c, "pass") /\ runSync({c})
           /\ ui' = [ui EXCEPT !.prompt = "none", !.status = "idle"] /\ hist' = Covered
  <2>1. /\ ui' \in Screen /\ ui'.shown = ui.shown /\ ui'.sheet = ui.sheet /\ ui'.status = "idle"
        /\ ui'.prompt = "none"
    BY <1>0, <1>4 DEF Screen
  <2>2. /\ hist' \in History /\ hist'.writes = hist.writes /\ (hist.covered => hist'.covered)
        /\ ui.prompt = "signIn" => hist'.covered
    BY <1>4, HistoryFacts DEF Types
  <2> QED
    BY <1>0, <1>4, <2>1, <2>2, WaitsFacts, SyncFacts DEF Types
<1> QED
  BY <1>1, <1>2, <1>3, <1>4 DEF ConsentGiven

LEMMA QuestionSettledFacts ==
    ASSUME Types, Waited, NEW c \in Slots, QuestionSettled(c)
    PROVE  /\ Types' /\ Waited' /\ Kept(c) /\ hist'.writes = hist.writes /\ call[c].pc = "unmark"
           /\ mgr'.identity = mgr.identity /\ mgr'.launch = mgr.launch /\ mgr'.online = mgr.online
           /\ mgr'.current = mgr.current /\ mgr'.exchanging = mgr.exchanging /\ mgr'.awaiting = FALSE
           /\ ui'.shown = ui.shown /\ ui'.sheet = ui.sheet /\ ui'.prompt = "none" /\ ui'.status = "idle"
           /\ disk'.stored = disk.stored /\ ~disk'.mark
           /\ \/ pass' = pass /\ call'[c].pc = "idle" /\ (mgr.awaiting => ~SignedIn)
              \/ runSync({c}) /\ call'[c].pc \in {"firstPass", "pass"}
<1>0. mgr \in Manager /\ ui \in Screen /\ disk \in Device /\ "pass" \in Steps
  BY DEF Types, Steps
<1>1. hist' \in History /\ hist'.writes = hist.writes /\ call[c].pc = "unmark"
  BY HistoryFacts DEF QuestionSettled, On, Types
<1>2. /\ mgr' \in Manager /\ mgr'.identity = mgr.identity /\ mgr'.launch = mgr.launch
      /\ mgr'.online = mgr.online /\ mgr'.current = mgr.current /\ mgr'.exchanging = mgr.exchanging
      /\ mgr'.awaiting = FALSE
  BY <1>0 DEF QuestionSettled, Manager
<1>3. /\ ui' \in Screen /\ ui'.shown = ui.shown /\ ui'.sheet = ui.sheet
      /\ ui'.prompt = "none" /\ ui'.status = "idle"
  BY <1>0 DEF QuestionSettled, Screen
<1>4. disk' \in Device /\ disk'.stored = disk.stored /\ ~disk'.mark
  BY <1>0 DEF QuestionSettled, Device
<1>5. CASE finishSignIn(c)
  BY <1>1, <1>2, <1>3, <1>4, <1>5, FinishFacts DEF Types, SignedIn
<1>6. CASE Waits(c, "pass") /\ runSync({c})
  BY <1>0, <1>1, <1>2, <1>3, <1>4, <1>6, WaitsFacts, SyncFacts DEF Types
<1>7. CASE ~mgr.awaiting /\ Return(c) /\ UNCHANGED pass
  BY <1>1, <1>2, <1>3, <1>4, <1>7, ReturnFacts DEF Types, Waited
<1> QED
  BY <1>5, <1>6, <1>7 DEF QuestionSettled

LEMMA ConsentWithdrawnFacts ==
    ASSUME Types, Waited, NEW c \in Slots, ConsentWithdrawn(c)
    PROVE  /\ Types' /\ Waited' /\ Kept(c) /\ UNCHANGED <<mgr, disk>> /\ call[c].pc = "withdraw"
           /\ hist'.writes = hist.writes /\ (hist.covered => hist'.covered)
           /\ ui'.shown = ui.shown /\ ui'.sheet = ui.sheet
           /\ \/ mgr.identity # call[c].user /\ call'[c].pc = "idle" /\ UNCHANGED <<ui, pass>>
              \/ /\ mgr.identity = call[c].user /\ call'[c].pc = "idle" /\ UNCHANGED pass
                 /\ ui'.prompt = "none" /\ ui'.status = "failed"
                 /\ ui.prompt = "signIn" => hist'.covered
              \/ /\ mgr.identity = call[c].user /\ call'[c].pc = "pass" /\ runSync({c})
                 /\ ui'.prompt = "none" /\ ui'.status = "idle"
                 /\ ui.prompt = "signIn" => hist'.covered
<1>0. /\ UNCHANGED <<mgr, disk>> /\ call[c].pc = "withdraw" /\ ui \in Screen
      /\ "pass" \in Steps /\ mgr' \in Manager
  BY DEF ConsentWithdrawn, On, Types, Steps
<1>1. CASE mgr.identity # call[c].user /\ Return(c) /\ UNCHANGED <<ui, pass, hist>>
  BY <1>0, <1>1, ReturnFacts DEF Types, Waited
<1>2. CASE /\ mgr.identity = call[c].user /\ Return(c) /\ UNCHANGED pass
           /\ ui' = [ui EXCEPT !.prompt = "none", !.status = "failed"] /\ hist' = Covered
  <2>1. /\ ui' \in Screen /\ ui'.shown = ui.shown /\ ui'.sheet = ui.sheet
        /\ ui'.prompt = "none" /\ ui'.status = "failed"
    BY <1>0, <1>2 DEF Screen
  <2>2. /\ hist' \in History /\ hist'.writes = hist.writes /\ (hist.covered => hist'.covered)
        /\ ui.prompt = "signIn" => hist'.covered
    BY <1>2, HistoryFacts DEF Types
  <2> QED
    BY <1>0, <1>2, <2>1, <2>2, ReturnFacts DEF Types, Waited
<1>3. CASE /\ mgr.identity = call[c].user /\ Waits(c, "pass") /\ runSync({c})
           /\ ui' = [ui EXCEPT !.prompt = "none", !.status = "idle"] /\ hist' = Covered
  <2>1. /\ ui' \in Screen /\ ui'.shown = ui.shown /\ ui'.sheet = ui.sheet
        /\ ui'.prompt = "none" /\ ui'.status = "idle"
    BY <1>0, <1>3 DEF Screen
  <2>2. /\ hist' \in History /\ hist'.writes = hist.writes /\ (hist.covered => hist'.covered)
        /\ ui.prompt = "signIn" => hist'.covered
    BY <1>3, HistoryFacts DEF Types
  <2> QED
    BY <1>0, <1>3, <2>1, <2>2, WaitsFacts, SyncFacts DEF Types
<1> QED
  BY <1>1, <1>2, <1>3 DEF ConsentWithdrawn

LEMMA SessionReadFacts ==
    ASSUME Types, Waited, NEW c \in Slots, SessionRead(c)
    PROVE  /\ Types' /\ Waited' /\ UNCHANGED <<pass, hist>> /\ call[c].pc = "current"
           /\ mgr'.awaiting = mgr.awaiting /\ mgr'.online = mgr.online
           /\ mgr'.current = mgr.current /\ mgr'.exchanging = mgr.exchanging
           /\ disk'.mark = disk.mark
           /\ \/ /\ Unreadable /\ Kept(c) /\ call'[c].pc = "idle" /\ mgr'.identity = mgr.identity
                 /\ mgr'.launch = "unread" /\ UNCHANGED <<ui, disk>>
              \/ /\ Unseen(c) /\ call'[c].pc = "idle" /\ (Outlived \/ ~disk.mark)
                 /\ mgr'.launch = "on" /\ mgr'.identity = NoUser /\ disk'.stored = NoUser
                 /\ ui'.sheet = ui.sheet /\ ui'.prompt = ui.prompt /\ ui'.status = ui.status
              \/ /\ Kept(c) /\ call'[c].pc = "appleLaunch" /\ call'[c].user = disk.stored
                 /\ disk.stored # NoUser /\ mgr'.identity = mgr.identity /\ UNCHANGED <<ui, disk>>
                 /\ mgr'.launch = "on"
<1>0. /\ UNCHANGED <<pass, hist>> /\ call[c].pc = "current" /\ mgr \in Manager /\ ui \in Screen
      /\ disk \in Device /\ "appleLaunch" \in Steps
  BY DEF SessionRead, On, Types, Steps
<1>1. CASE /\ Outlived \/ ~disk.mark
           /\ mgr' = [mgr EXCEPT !.launch = "on", !.identity = NoUser]
           /\ disk' = [disk EXCEPT !.stored = NoUser] /\ ui' = [ui EXCEPT !.shown = FALSE]
           /\ Assigned(c, NoCall)
  <2>1. /\ mgr' \in Manager /\ mgr'.launch = "on" /\ mgr'.awaiting = mgr.awaiting
        /\ mgr'.online = mgr.online /\ mgr'.current = mgr.current /\ mgr'.exchanging = mgr.exchanging
        /\ mgr'.identity = NoUser
    BY <1>0, <1>1 DEF Manager
  <2>2. /\ ui' \in Screen /\ ui'.sheet = ui.sheet /\ ui'.prompt = ui.prompt /\ ui'.status = ui.status
    BY <1>0, <1>1 DEF Screen
  <2>3. disk' \in Device /\ disk'.stored = NoUser /\ disk'.mark = disk.mark
    BY <1>0, <1>1 DEF Device
  <2>4. call' \in [Slots -> Call] /\ Unseen(c) /\ call'[c].pc = "idle"
    <3>1. call' \in [Slots -> Call] /\ Unseen(c) /\ call'[c] = NoCall
      BY <1>1, ConstantFacts, AssignedFacts
    <3> QED
      BY <3>1 DEF NoCall
  <2> QED
    BY <1>0, <1>1, <2>1, <2>2, <2>3, <2>4 DEF Types, Waited
<1>2. CASE /\ disk.stored # NoUser /\ mgr' = [mgr EXCEPT !.launch = "on"] /\ UNCHANGED <<ui, disk>>
           /\ call' = [call EXCEPT ![c] = [NoCall EXCEPT !.pc = "appleLaunch", !.user = disk.stored]]
  <2>1. /\ mgr' \in Manager /\ mgr'.launch = "on" /\ mgr'.awaiting = mgr.awaiting
        /\ mgr'.online = mgr.online /\ mgr'.current = mgr.current /\ mgr'.exchanging = mgr.exchanging
        /\ mgr'.identity = mgr.identity
    BY <1>0, <1>2 DEF Manager
  <2>2. /\ [NoCall EXCEPT !.pc = "appleLaunch", !.user = disk.stored] \in Call
        /\ [NoCall EXCEPT !.pc = "appleLaunch", !.user = disk.stored].pc = "appleLaunch"
        /\ [NoCall EXCEPT !.pc = "appleLaunch", !.user = disk.stored].user = disk.stored
    BY <1>0, ConstantFacts DEF NoCall, Call, Device
  <2>3. /\ call' \in [Slots -> Call] /\ Kept(c)
        /\ call'[c].pc = "appleLaunch" /\ call'[c].user = disk.stored
    BY <1>2, <2>2, PutFacts
  <2> QED
    BY <1>0, <1>2, <2>1, <2>3 DEF Types, Waited
<1>3. CASE Unreadable /\ mgr' = [mgr EXCEPT !.launch = "unread"] /\ Return(c) /\ UNCHANGED <<ui, disk>>
  <2>1. /\ mgr' \in Manager /\ mgr'.launch = "unread" /\ mgr'.awaiting = mgr.awaiting
        /\ mgr'.online = mgr.online /\ mgr'.current = mgr.current /\ mgr'.exchanging = mgr.exchanging
        /\ mgr'.identity = mgr.identity
    BY <1>0, <1>3 DEF Manager
  <2> QED
    BY <1>0, <1>3, <2>1, ReturnFacts DEF Types, Waited
<1> QED
  BY <1>1, <1>2, <1>3 DEF SessionRead

LEMMA RefreshedFacts ==
    ASSUME Types, Waited, NEW c \in Slots, Refreshed(c)
    PROVE  /\ Types' /\ Waited' /\ Kept(c) /\ UNCHANGED <<mgr, ui, pass>>
           /\ hist.covered <=> hist'.covered
           /\ call[c].pc = "refresh" /\ disk'.mark = disk.mark
           /\ \/ ~Unserved' /\ call'[c].pc = "idle" /\ disk' = disk
              \/ /\ ~call[c].same /\ hist' = hist /\ call'[c].pc = "idle"
                 /\ disk'.stored = NoUser
              \/ /\ call[c].same /\ call'[c].same /\ call'[c].pc = "apple" /\ disk' = disk
                 /\ hist' = hist /\ call'[c].user = disk.stored /\ disk.stored # NoUser
              \/ /\ call[c].same /\ call'[c].same /\ call'[c].pc = "goneWait"
                 /\ hist' = hist /\ disk'.stored = NoUser
<1>0. /\ UNCHANGED <<mgr, ui, pass>> /\ call[c].pc = "refresh" /\ call[c] \in Call
      /\ disk \in Device /\ {"apple", "goneWait"} \subseteq Steps
  BY DEF Refreshed, On, Types, Steps, EndSteps
<1>1. CASE Return(c) /\ hist' = PutOff /\ UNCHANGED disk
  <2>1. hist' \in History /\ ~Unserved' /\ (hist.covered <=> hist'.covered)
    BY <1>1, HistoryFacts DEF Types, Unserved
  <2> QED
    BY <1>0, <1>1, <2>1, ReturnFacts DEF Types, Waited
<1>2. CASE /\ call[c].same /\ disk.stored # NoUser /\ UNCHANGED <<disk, hist>>
           /\ call' = [call EXCEPT ![c] = [call[c] EXCEPT !.pc = "apple", !.user = disk.stored]]
  <2>1. /\ [call[c] EXCEPT !.pc = "apple", !.user = disk.stored] \in Call
        /\ [call[c] EXCEPT !.pc = "apple", !.user = disk.stored].pc = "apple"
        /\ [call[c] EXCEPT !.pc = "apple", !.user = disk.stored].user = disk.stored
        /\ [call[c] EXCEPT !.pc = "apple", !.user = disk.stored].same = call[c].same
    BY <1>0 DEF Call, Device
  <2>2. /\ call' \in [Slots -> Call] /\ Kept(c) /\ call'[c].pc = "apple"
        /\ call'[c].user = disk.stored /\ call'[c].same = call[c].same
    BY <1>2, <2>1, PutFacts
  <2> QED
    BY <1>0, <1>2, <2>2 DEF Types, Waited
<1>3. CASE /\ disk' = [disk EXCEPT !.stored = NoUser]
           /\ IF call[c].same THEN Goto(c, "goneWait") ELSE Return(c)
           /\ UNCHANGED hist
  <2>1. disk' \in Device /\ disk'.stored = NoUser /\ disk'.mark = disk.mark
    BY <1>0, <1>3 DEF Device
  <2>2. CASE call[c].same
    BY <1>0, <1>3, <2>1, <2>2, GotoFacts DEF Types, Waited
  <2>3. CASE ~call[c].same
    BY <1>0, <1>3, <2>1, <2>3, ReturnFacts DEF Types, Waited
  <2> QED
    BY <2>2, <2>3
<1> QED
  BY <1>1, <1>2, <1>3 DEF Refreshed

\* The session of the call is assigned, and nothing else of the manager's.
LEMMA RestoreFacts ==
    ASSUME Types, NEW c \in Slots, NEW pc \in Steps, restore(c, pc)
    PROVE  /\ call' \in [Slots -> Call] /\ mgr' \in Manager /\ ui' \in Screen /\ Unseen(c)
           /\ call'[c].pc = pc /\ call'[c].user = call[c].user
           /\ mgr'.identity = call[c].user /\ mgr'.awaiting = mgr.awaiting /\ mgr'.launch = mgr.launch
           /\ mgr'.current = mgr.current /\ mgr'.exchanging = mgr.exchanging /\ mgr'.online = mgr.online
           /\ ui'.shown /\ ui'.sheet = ui.sheet /\ ui'.prompt = ui.prompt /\ ui'.status = ui.status
<1>0. mgr \in Manager /\ ui \in Screen /\ call[c] \in Call
  BY DEF Types
<1>1. call[c].user \in Users \cup {NoUser}
  BY <1>0 DEF Call
<1>2. /\ mgr' \in Manager
      /\ mgr'.identity = call[c].user /\ mgr'.awaiting = mgr.awaiting /\ mgr'.launch = mgr.launch
      /\ mgr'.current = mgr.current /\ mgr'.exchanging = mgr.exchanging /\ mgr'.online = mgr.online
  BY <1>0, <1>1 DEF restore, Manager
<1>3. /\ ui' \in Screen
      /\ ui'.shown /\ ui'.sheet = ui.sheet /\ ui'.prompt = ui.prompt /\ ui'.status = ui.status
  BY <1>0 DEF restore, Screen
<1>4. /\ [NoCall EXCEPT !.pc = pc, !.user = call[c].user] \in Call
      /\ [NoCall EXCEPT !.pc = pc, !.user = call[c].user].pc = pc
      /\ [NoCall EXCEPT !.pc = pc, !.user = call[c].user].user = call[c].user
  BY <1>1, ConstantFacts DEF NoCall, Call
<1>5. Assigned(c, [NoCall EXCEPT !.pc = pc, !.user = call[c].user])
  BY DEF restore
<1>6. /\ call' \in [Slots -> Call] /\ Unseen(c)
      /\ call'[c].pc = pc /\ call'[c].user = call[c].user
  BY <1>4, <1>5, AssignedFacts
<1> QED
  BY <1>2, <1>3, <1>6

LEMMA AppleAskedFacts ==
    ASSUME Types, Waited, NEW c \in Slots, AppleAsked(c)
    PROVE  /\ Types' /\ Waited' /\ UNCHANGED <<disk, hist>> /\ call[c].pc \in {"apple", "appleLaunch"}
           /\ \/ /\ call[c].pc = "apple" /\ ~call[c].same /\ Kept(c) /\ call'[c].pc = "idle"
                 /\ UNCHANGED <<mgr, ui, pass>>
              \/ /\ call[c].pc = "appleLaunch" \/ call[c].same
                 /\ Unseen(c) /\ call'[c].user = call[c].user
                 /\ mgr'.identity = call[c].user /\ mgr'.awaiting = mgr.awaiting
                 /\ mgr'.launch = mgr.launch /\ mgr'.current = mgr.current
                 /\ mgr'.exchanging = mgr.exchanging /\ mgr'.online = mgr.online
                 /\ ui'.shown /\ ui'.sheet = ui.sheet /\ ui'.prompt = ui.prompt /\ ui'.status = ui.status
                 /\ \/ call'[c].pc = "revokeWait" /\ pass' = pass
                    \/ ~mgr.awaiting /\ call'[c].pc = "checkMark" /\ pass' = pass
                    \/ mgr.awaiting /\ call'[c].pc = "pass" /\ runSync({c})
<1>0. /\ UNCHANGED <<disk, hist>> /\ call[c].pc \in {"apple", "appleLaunch"}
      /\ {"revokeWait", "checkMark", "pass"} \subseteq Steps
  BY DEF AppleAsked, Steps, EndSteps, CheckSteps
<1>1. CASE call[c].pc = "apple" /\ ~call[c].same /\ Return(c) /\ UNCHANGED <<mgr, ui, pass>>
  BY <1>0, <1>1, ReturnFacts DEF Types, Waited
<1>2. CASE (call[c].pc = "appleLaunch" \/ call[c].same) /\ restore(c, "revokeWait") /\ UNCHANGED pass
  BY <1>0, <1>2, RestoreFacts DEF Types, Waited
<1>3. CASE /\ call[c].pc = "appleLaunch" \/ call[c].same
           /\ ~mgr.awaiting /\ restore(c, "checkMark") /\ UNCHANGED pass
  BY <1>0, <1>3, RestoreFacts DEF Types, Waited
<1>4. CASE /\ call[c].pc = "appleLaunch" \/ call[c].same
           /\ mgr.awaiting /\ restore(c, "pass") /\ runSync({c})
  BY <1>0, <1>4, RestoreFacts, SyncFacts DEF Types
<1> QED
  BY <1>1, <1>2, <1>3, <1>4 DEF AppleAsked, On

LEMMA MarkReadFacts ==
    ASSUME Types, Waited, NEW c \in Slots, MarkRead(c)
    PROVE  /\ Types' /\ Waited' /\ Kept(c) /\ UNCHANGED <<mgr, ui, disk, hist>> /\ call[c].pc = "checkMark"
           /\ \/ disk.mark /\ call'[c].pc = "checkConsent" /\ call'[c].user = call[c].user /\ pass' = pass
              \/ ~disk.mark /\ call'[c].pc = "pass" /\ runSync({c})
<1>0. /\ UNCHANGED <<mgr, ui, disk, hist>> /\ call[c].pc = "checkMark" /\ mgr' \in Manager
      /\ {"checkConsent", "pass"} \subseteq Steps
  BY DEF MarkRead, On, Types, Steps, CheckSteps
<1>1. CASE disk.mark
  <2>1. Goto(c, "checkConsent") /\ UNCHANGED pass
    BY <1>1 DEF MarkRead
  <2> QED
    BY <1>0, <1>1, <2>1, GotoFacts DEF Types, Waited
<1>2. CASE ~disk.mark
  <2>1. Waits(c, "pass") /\ runSync({c})
    BY <1>2 DEF MarkRead
  <2> QED
    BY <1>0, <1>2, <2>1, WaitsFacts, SyncFacts DEF Types
<1> QED
  BY <1>1, <1>2

LEMMA CheckReadFacts ==
    ASSUME Types, Waited, NEW c \in Slots, CheckRead(c)
    PROVE  /\ Types' /\ Waited' /\ Kept(c) /\ hist'.writes = hist.writes /\ call[c].pc = "checkConsent"
           /\ \/ mgr.identity # call[c].user /\ call'[c].pc = "idle" /\ UNCHANGED <<mgr, ui, pass, disk, hist>>
              \/ /\ mgr.identity = call[c].user /\ call'[c].pc = "pass" /\ runSync({c})
                 /\ UNCHANGED <<mgr, ui, hist>> /\ disk'.stored = disk.stored /\ ~disk'.mark
              \/ /\ mgr.identity = call[c].user /\ call'[c].pc = "idle" /\ UNCHANGED <<pass, disk>>
                 /\ mgr'.identity = mgr.identity /\ mgr'.awaiting = TRUE /\ mgr'.launch = mgr.launch
                 /\ mgr'.current = mgr.current /\ mgr'.exchanging = mgr.exchanging
                 /\ mgr'.online = mgr.online
                 /\ ui'.shown = ui.shown /\ ui'.sheet /\ ui'.prompt = "signIn" /\ ui'.status = "idle"
<1>0. /\ call[c].pc = "checkConsent" /\ mgr \in Manager /\ ui \in Screen
      /\ disk \in Device /\ "pass" \in Steps
  BY DEF CheckRead, On, Types, Steps
<1>1. CASE mgr.identity # call[c].user /\ Return(c)
         /\ UNCHANGED <<mgr, ui, pass, disk, hist>>
  BY <1>0, <1>1, ReturnFacts DEF Types, Waited
<1>2. CASE /\ mgr.identity = call[c].user /\ disk' = [disk EXCEPT !.mark = FALSE] /\ UNCHANGED <<mgr, ui, hist>>
           /\ Waits(c, "pass") /\ runSync({c})
  <2>1. disk' \in Device /\ disk'.stored = disk.stored /\ ~disk'.mark
    BY <1>0, <1>2 DEF Device
  <2> QED
    BY <1>0, <1>2, <2>1, WaitsFacts, SyncFacts DEF Types
<1>3. CASE /\ mgr.identity = call[c].user /\ mgr' = [mgr EXCEPT !.awaiting = TRUE]
           /\ ui' = [ui EXCEPT !.sheet = TRUE, !.pending = FALSE, !.prompt = "signIn", !.status = "idle"]
           /\ Return(c) /\ UNCHANGED <<pass, disk>> /\ hist' = Uncovered
  <2>1. /\ mgr' \in Manager /\ mgr'.identity = mgr.identity /\ mgr'.awaiting = TRUE
        /\ mgr'.launch = mgr.launch /\ mgr'.current = mgr.current /\ mgr'.exchanging = mgr.exchanging
        /\ mgr'.online = mgr.online
    BY <1>0, <1>3 DEF Manager
  <2>2. /\ ui' \in Screen /\ ui'.shown = ui.shown /\ ui'.sheet /\ ui'.prompt = "signIn"
        /\ ui'.status = "idle"
    BY <1>0, <1>3 DEF Screen
  <2>3. hist' \in History /\ hist'.writes = hist.writes
    BY <1>3, HistoryFacts DEF Types
  <2> QED
    BY <1>0, <1>3, <2>1, <2>2, <2>3, ReturnFacts DEF Types, Waited
<1> QED
  BY <1>1, <1>2, <1>3 DEF CheckRead

LEMMA SignInFacts ==
    ASSUME Types, Waited, NEW c \in Slots, signIn(c)
    PROVE  /\ Types' /\ Waited' /\ Kept(c) /\ UNCHANGED <<pass, disk, hist>> /\ SameScreen
           /\ mgr.launch \in {"on", "unread"} /\ ~ui.shown /\ ui.sheet
           /\ LateAnswers \/ \A d \in Slots : ~Launching(d)
           /\ call[c].pc = "idle" /\ call'[c].pc = "exchange"
           /\ mgr'.identity = mgr.identity /\ mgr'.awaiting = mgr.awaiting /\ mgr'.launch = mgr.launch
           /\ mgr'.online = mgr.online /\ mgr'.current = c /\ mgr'.exchanging = c
<1>1. /\ mgr.launch \in {"on", "unread"} /\ ~ui.shown /\ ui.sheet /\ UNCHANGED <<pass, disk, hist>>
      /\ LateAnswers \/ \A d \in Slots : ~Launching(d)
      /\ Begins(c, "exchange") /\ "exchange" \in Steps
  BY DEF signIn, Launching, Steps, SignInSteps
<1>2. ui' \in Screen /\ SameScreen
  BY DEF signIn, Types, Screen, SameScreen
<1>3. /\ mgr' \in Manager
      /\ mgr'.identity = mgr.identity /\ mgr'.awaiting = mgr.awaiting /\ mgr'.launch = mgr.launch
      /\ mgr'.online = mgr.online /\ mgr'.current = c /\ mgr'.exchanging = c
  BY DEF signIn, Types, Manager
<1> QED
  BY <1>1, <1>2, <1>3, BeginsFacts DEF Types, Waited

\* The question after sign-in is declined.
LEMMA DeclinesFacts ==
    ASSUME Types, NEW c \in Slots, Declines(c)
    PROVE  /\ call' \in [Slots -> Call] /\ Kept(c) /\ call[c].pc = "idle"
           /\ call'[c].pc = "unmark" /\ call'[c].user = mgr.identity /\ call'[c].asked
<1>1. mgr.identity \in Users \cup {NoUser} /\ "unmark" \in Steps
  BY DEF Types, Manager, Steps, AnswerSteps
<1>2. /\ [NoCall EXCEPT !.pc = "unmark", !.user = mgr.identity, !.asked = TRUE] \in Call
      /\ [NoCall EXCEPT !.pc = "unmark", !.user = mgr.identity, !.asked = TRUE].pc = "unmark"
      /\ [NoCall EXCEPT !.pc = "unmark", !.user = mgr.identity, !.asked = TRUE].user = mgr.identity
      /\ [NoCall EXCEPT !.pc = "unmark", !.user = mgr.identity, !.asked = TRUE].asked
  BY <1>1, ConstantFacts DEF NoCall, Call
<1> QED
  BY <1>2, PutFacts DEF Declines, Idle, On

LEMMA CloseSheetFacts ==
    ASSUME Types, Waited, NEW c \in Slots, closeSheet(c)
    PROVE  /\ Types' /\ Waited' /\ UNCHANGED <<pass, disk, hist>> /\ ui.sheet
           /\ mgr'.identity = mgr.identity /\ mgr'.awaiting = mgr.awaiting /\ mgr'.launch = mgr.launch
           /\ mgr'.online = mgr.online /\ mgr'.exchanging = mgr.exchanging /\ mgr'.current = NoSlot
           /\ ui'.shown = ui.shown /\ ui'.prompt = ui.prompt /\ ui'.status = ui.status /\ ~ui'.sheet
           /\ \/ /\ ui.prompt = "signIn" /\ ui.status # "saving" /\ SignedIn
                 /\ Kept(c) /\ call[c].pc = "idle"
                 /\ call'[c].pc = "unmark" /\ call'[c].user = mgr.identity /\ call'[c].asked
              \/ call' = call /\ ~(ui.prompt = "signIn" /\ ui.status # "saving" /\ SignedIn)
<1>1. /\ UNCHANGED <<pass, disk, hist>> /\ ui.sheet
      /\ \/ ui.prompt = "signIn" /\ ui.status # "saving" /\ SignedIn /\ Declines(c)
         \/ call' = call /\ ~(ui.prompt = "signIn" /\ ui.status # "saving" /\ SignedIn)
  BY DEF closeSheet, SignedIn
<1>2. /\ mgr' \in Manager
      /\ mgr'.identity = mgr.identity /\ mgr'.awaiting = mgr.awaiting /\ mgr'.launch = mgr.launch
      /\ mgr'.online = mgr.online /\ mgr'.exchanging = mgr.exchanging /\ mgr'.current = NoSlot
  BY DEF closeSheet, Types, Manager
<1>3. /\ ui' \in Screen
      /\ ui'.shown = ui.shown /\ ui'.prompt = ui.prompt /\ ui'.status = ui.status /\ ~ui'.sheet
  BY DEF closeSheet, Types, Screen
<1> QED
  BY <1>1, <1>2, <1>3, DeclinesFacts DEF Types, Waited

LEMMA AnswerConsentFacts ==
    ASSUME Types, Waited, NEW c \in Slots, answerConsent(c)
    PROVE  /\ Types' /\ Waited' /\ UNCHANGED <<mgr, pass, disk, hist>> /\ SignedIn
           /\ ui.prompt # "none" /\ ui.status # "saving"
           /\ ui'.shown = ui.shown /\ ui'.sheet = ui.sheet
           /\ \/ /\ Kept(c) /\ call[c].pc = "idle" /\ call'[c].pc = "give" /\ call'[c].user = mgr.identity
                 /\ call'[c].asked = (ui.prompt = "signIn")
                 /\ ui'.prompt = ui.prompt /\ ui'.status = "saving"
              \/ /\ Kept(c) /\ call[c].pc = "idle" /\ call'[c].pc = "unmark" /\ call'[c].user = mgr.identity
                 /\ call'[c].asked /\ ui.prompt = "signIn" /\ ui' = ui
              \/ /\ ui.prompt = "account" /\ call' = call /\ ui'.prompt = "none" /\ ui'.status = "idle"
<1>0. /\ UNCHANGED <<mgr, pass, disk, hist>> /\ SignedIn /\ ui.prompt # "none" /\ ui.status # "saving"
      /\ ui \in Screen /\ mgr.identity \in Users \cup {NoUser} /\ "give" \in Steps
      /\ (ui.prompt = "signIn") \in BOOLEAN
  BY DEF answerConsent, Types, SignedIn, Manager, Steps, AnswerSteps
<1>1. CASE /\ Idle(c) /\ ui' = [ui EXCEPT !.status = "saving"]
           /\ call' = [call EXCEPT ![c] = [NoCall EXCEPT !.pc = "give", !.user = mgr.identity,
                                          !.asked = ui.prompt = "signIn"]]
  <2>1. /\ ui' \in Screen /\ ui'.shown = ui.shown /\ ui'.sheet = ui.sheet
        /\ ui'.prompt = ui.prompt /\ ui'.status = "saving"
    BY <1>0, <1>1 DEF Screen
  <2> DEFINE r == [NoCall EXCEPT !.pc = "give", !.user = mgr.identity, !.asked = ui.prompt = "signIn"]
  <2>2. r \in Call /\ r.pc = "give" /\ r.user = mgr.identity /\ r.asked = (ui.prompt = "signIn")
    BY <1>0, ConstantFacts DEF NoCall, Call
  <2>3. call' = [call EXCEPT ![c] = r]
    BY <1>1
  <2> HIDE DEF r
  <2>4. call' \in [Slots -> Call] /\ Kept(c) /\ call'[c] = r
    BY <2>2, <2>3, PutFacts
  <2> QED
    BY <1>0, <1>1, <2>1, <2>2, <2>4 DEF Types, Waited, Idle, On
<1>2. CASE ui.prompt = "signIn" /\ Declines(c) /\ UNCHANGED ui
  BY <1>0, <1>2, DeclinesFacts DEF Types, Waited
<1>3. CASE ui.prompt = "account" /\ UNCHANGED call /\ ui' = [ui EXCEPT !.prompt = "none", !.status = "idle"]
  <2>1. /\ ui' \in Screen /\ ui'.shown = ui.shown /\ ui'.sheet = ui.sheet
        /\ ui'.prompt = "none" /\ ui'.status = "idle"
    BY <1>0, <1>3 DEF Screen
  <2> QED
    BY <1>0, <1>3, <2>1 DEF Types, Waited
<1> QED
  BY <1>1, <1>2, <1>3 DEF answerConsent

LEMMA WithdrawConsentFacts ==
    ASSUME Types, Waited, NEW c \in Slots, withdrawConsent(c)
    PROVE  /\ Types' /\ Waited' /\ Kept(c) /\ UNCHANGED <<mgr, pass, disk>>
           /\ SignedIn /\ ui.status # "saving"
           /\ hist'.writes = hist.writes /\ (hist.covered => hist'.covered)
           /\ ui.prompt = "signIn" => hist'.covered
           /\ call[c].pc = "idle" /\ call'[c].pc = "withdraw" /\ call'[c].user = mgr.identity
           /\ ui'.shown = ui.shown /\ ui'.sheet = ui.sheet /\ ui'.prompt = "none" /\ ui'.status = "saving"
<1>1. /\ UNCHANGED <<mgr, pass, disk>> /\ SignedIn /\ ui.status # "saving"
      /\ Begins(c, "withdraw") /\ "withdraw" \in Steps /\ hist' = Covered
  BY DEF withdrawConsent, SignedIn, Steps, AnswerSteps
<1>2. /\ ui' \in Screen
      /\ ui'.shown = ui.shown /\ ui'.sheet = ui.sheet /\ ui'.prompt = "none" /\ ui'.status = "saving"
  BY DEF withdrawConsent, Types, Screen
<1>3. /\ hist' \in History /\ hist'.writes = hist.writes /\ (hist.covered => hist'.covered)
      /\ ui.prompt = "signIn" => hist'.covered
  BY <1>1, HistoryFacts DEF Types
<1> QED
  BY <1>1, <1>2, <1>3, BeginsFacts DEF Types, Waited

LEMMA BegunFacts ==
    ASSUME Types, Waited, NEW c \in Slots, signOut(c) \/ deleteAccount(c) \/ appleRevoked(c)
    PROVE  /\ Types' /\ Waited' /\ Kept(c) /\ UNCHANGED <<pass, disk>> /\ SameManager /\ SameScreen /\ SignedIn
           /\ call[c].pc = "idle" /\ call'[c].pc \in {"endWait", "reauth", "holds"}
           /\ call'[c].user = mgr.identity
           /\ hist.covered <=> hist'.covered
           /\ (hist' = hist /\ call'[c].pc # "reauth") \/ ~Unserved'
<1>0. mgr \in Manager /\ ui \in Screen /\ {"endWait", "reauth", "holds"} \subseteq Steps
  BY DEF Types, Steps, EndSteps, DeletionSteps
<1>1. CASE signOut(c)
  BY <1>0, <1>1, BeginsFacts
  DEF signOut, OnAccountScreen, SignedIn, Types, Waited, SameManager, SameScreen
<1>2. CASE deleteAccount(c)
  <2>1. mgr' \in Manager /\ SameManager
    BY <1>0, <1>2 DEF deleteAccount, Manager, SameManager
  <2>2. ui' \in Screen /\ SameScreen
    BY <1>0, <1>2 DEF deleteAccount, Screen, SameScreen
  <2>3. Begins(c, "reauth") /\ UNCHANGED <<pass, disk>> /\ SignedIn
    BY <1>2 DEF deleteAccount, OnAccountScreen, SignedIn
  <2>4. hist' \in History /\ ~Unserved' /\ (hist.covered <=> hist'.covered)
    BY <1>2, HistoryFacts DEF deleteAccount, Types, Unserved
  <2> QED
    BY <1>0, <2>1, <2>2, <2>3, <2>4, BeginsFacts DEF Types, Waited
<1>3. CASE appleRevoked(c)
  BY <1>0, <1>3, BeginsFacts DEF appleRevoked, SignedIn, Types, Waited, SameManager, SameScreen
<1> QED
  BY <1>1, <1>2, <1>3

LEMMA LaunchedFacts ==
    ASSUME Types, Waited, NEW c \in Slots, start(c) \/ foreground(c)
    PROVE  /\ Types' /\ Waited' /\ Kept(c) /\ UNCHANGED <<ui, disk, hist>> /\ call[c].pc = "idle"
           /\ mgr'.identity = mgr.identity /\ mgr'.awaiting = mgr.awaiting /\ mgr'.current = mgr.current
           /\ mgr'.exchanging = mgr.exchanging /\ mgr'.online = mgr.online
           /\ \/ mgr.launch = "off" /\ mgr'.launch = "reading" /\ call'[c].pc = "current" /\ pass' = pass
              \/ mgr.launch = "unread" /\ mgr'.launch = "unread" /\ call'[c].pc = "current" /\ pass' = pass
              \/ /\ mgr.launch = "on" /\ mgr'.launch = "on" /\ SignedIn
                 /\ call'[c].pc = "refresh" /\ call'[c].same
                 /\ pass'.step = pass.step /\ pass'.user = pass.user /\ pass'.trailing = pass.trailing
                 /\ ~pass'.token
<1>0. mgr \in Manager /\ pass \in Passing /\ {"current", "refresh"} \subseteq Steps
  BY DEF Types, Steps
<1>1. CASE start(c)
  <2>1. /\ mgr' \in Manager /\ mgr.launch = "off" /\ mgr'.launch = "reading"
        /\ mgr'.identity = mgr.identity /\ mgr'.awaiting = mgr.awaiting /\ mgr'.current = mgr.current
        /\ mgr'.exchanging = mgr.exchanging /\ mgr'.online = mgr.online
    BY <1>0, <1>1 DEF start, Manager
  <2> QED
    BY <1>0, <1>1, <2>1, AsksFacts DEF start, Idle, On, Types, Waited
<1>2. CASE foreground(c) /\ mgr.launch = "unread"
  BY <1>0, <1>2, AsksFacts DEF foreground, Idle, On, Types, Waited
<1>3. CASE foreground(c) /\ mgr.launch # "unread"
  <2>1. /\ UNCHANGED <<mgr, ui, disk, hist>> /\ call[c].pc = "idle" /\ mgr.launch = "on" /\ SignedIn
        /\ AsksAuth(c, "refresh") /\ pass' = [pass EXCEPT !.token = FALSE]
    BY <1>3 DEF foreground, Idle, On, SignedIn
  <2>2. /\ pass' \in Passing /\ Waited' /\ ~pass'.token
        /\ pass'.step = pass.step /\ pass'.user = pass.user /\ pass'.trailing = pass.trailing
    BY <1>0, <2>1 DEF Passing, Waited
  <2> QED
    BY <1>0, <2>1, <2>2, AsksFacts DEF Types
<1> QED
  BY <1>1, <1>2, <1>3

-----------------------------------------------------------------------------
(* Where the calls stand to the session.                                     *)

\* What the theorems below assume: the auth client answers in the order it was
\* asked, and the launch can read the stored session.
Orderly == ~LateAnswers /\ ~Unreadable

\* The running exchange is a call's; the current sign-in's is the running one.
Held == mgr.exchanging # NoSlot => On(mgr.exchanging, "exchange")
Exchanging == \A c \in Slots : On(c, "exchange") /\ mgr.current = c => mgr.exchanging = c

\* A session is on screen; none is while an exchange or a forgetting is under way.
OnScreen ==
    /\ SignedIn => ui.shown
    /\ \A c \in Slots : call[c].pc \in {"exchange", "forget", "forgetDeleted"} => ~SignedIn

\* A foreground that still sees its identity sees the one that is signed in.
Watched ==
    \A c \in Slots : call[c].pc \in Watching /\ call[c].same =>
        SignedIn /\ (call[c].pc = "apple" => call[c].user = mgr.identity)

\* Nothing but the launch runs until it has restored the session.
Launched ==
    /\ mgr.launch # "unread"
    /\ mgr.launch # "on" =>
        ~SignedIn /\ pass.step = "idle" /\ \A c \in Slots : call[c].pc \in {"idle", "current"}
    /\ mgr.launch = "off" => \A c \in Slots : call[c].pc = "idle"
    /\ \A c \in Slots : Launching(c) =>
        /\ ~SignedIn /\ pass.step = "idle"
        /\ \A d \in Slots : d # c => call[d].pc = "idle"
        /\ call[c].pc = "appleLaunch" => call[c].user = disk.stored

\* These calls act for a user.
Acting == {"consent", "markQ", "give", "unmark", "withdraw", "holds", "apple", "appleLaunch",
           "checkMark", "checkConsent"}
Named == \A c \in Slots : call[c].pc \in Acting => call[c].user # NoUser

\* No pass is in flight while the account is erased.
Erased == \A c \in Slots : call[c].pc \in {"erase", "retryErase"} => pass.step = "idle"

Placed == Exchanging /\ OnScreen /\ Watched /\ Launched /\ Named /\ StoredIsIdentity /\ Erased

\* A request for a pass starts none beside an erasing, if the step begins none.
LEMMA SyncErased ==
    ASSUME Types, Waited, Erased, mgr' \in Manager, NEW w \in SUBSET Slots, runSync(w),
           \A d \in Slots : call'[d].pc \in {"erase", "retryErase"} => call[d].pc = call'[d].pc
    PROVE  Erased'
<1> SUFFICES ASSUME NEW d \in Slots, call'[d].pc \in {"erase", "retryErase"}
             PROVE  pass'.step = "idle"
  BY DEF Erased
<1>1. pass.step = "idle"
  BY DEF Erased
<1>2. ~CanPass'
  BY DEF CanPass, Deleting, DeletionSteps
<1> QED
  BY <1>1, <1>2, SyncFacts

LEMMA TokenReadPlaced ==
    ASSUME Types, Waited, Orderly, Placed, TokenRead
    PROVE  Placed'
<1>1. Exchanging'
  BY TokenReadFacts DEF Placed, Exchanging, On
<1>2. OnScreen'
  BY TokenReadFacts DEF Placed, OnScreen, SignedIn
<1>3. Watched'
  BY TokenReadFacts DEF Placed, Watched, Watching, SignedIn
<1>4. Launched'
  BY TokenReadFacts, FollowFacts, SessionAssumption DEF Placed, Launched, Launching, SignedIn, CanPass
<1>5. Named'
  BY TokenReadFacts DEF Placed, Named, Acting, SignedIn
<1>6. StoredIsIdentity'
  BY TokenReadFacts DEF Placed, StoredIsIdentity, SignedIn
<1>7. Erased'
  BY TokenReadFacts, FollowFacts DEF Placed, Erased, CanPass, Deleting, DeletionSteps
<1> QED
  BY <1>1, <1>2, <1>3, <1>4, <1>5, <1>6, <1>7 DEF Placed

LEMMA RunEndsPlaced ==
    ASSUME Types, Waited, Orderly, Placed, RunEnds
    PROVE  Placed'
<1>1. Exchanging'
  BY RunEndsFacts DEF Placed, Exchanging, On
<1>2. OnScreen'
  BY RunEndsFacts DEF Placed, OnScreen, SignedIn
<1>3. Watched'
  BY RunEndsFacts DEF Placed, Watched, Watching, SignedIn
<1>4. Launched'
  BY RunEndsFacts, FollowFacts, SessionAssumption DEF Placed, Launched, Launching, SignedIn, CanPass
<1>5. Named'
  BY RunEndsFacts DEF Placed, Named, Acting, SignedIn
<1>6. StoredIsIdentity'
  BY RunEndsFacts DEF Placed, StoredIsIdentity, SignedIn
<1>7. Erased'
  BY RunEndsFacts, FollowFacts DEF Placed, Erased, CanPass, Deleting, DeletionSteps
<1> QED
  BY <1>1, <1>2, <1>3, <1>4, <1>5, <1>6, <1>7 DEF Placed

LEMMA AskingPlaced ==
    ASSUME Types, Waited, Orderly, Placed, localWrite \/ tokenRefreshed \/ setOnline
    PROVE  Placed'
<1>1. Exchanging'
  BY AskingFacts DEF Placed, Exchanging, On
<1>2. OnScreen'
  BY AskingFacts DEF Placed, OnScreen, SignedIn
<1>3. Watched'
  BY AskingFacts DEF Placed, Watched, Watching, SignedIn
<1>4. Launched'
  <2>1. ~SignedIn /\ pass.step = "idle" => pass'.step = "idle"
    <3>1. mgr' \in Manager /\ mgr'.identity = mgr.identity /\ {} \in SUBSET Slots
      BY AskingFacts DEF Types
    <3>2. CASE runSync({})
      BY <3>1, <3>2, SyncFacts DEF CanPass, SignedIn
    <3>3. CASE pass' = pass
      BY <3>3
    <3> QED
      BY <3>2, <3>3, AskingFacts
  <2> QED
    BY <2>1, AskingFacts DEF Placed, Launched, Launching, SignedIn
<1>5. Named'
  BY AskingFacts DEF Placed, Named, Acting, SignedIn
<1>6. StoredIsIdentity'
  BY AskingFacts DEF Placed, StoredIsIdentity, SignedIn
<1>7. Erased'
  <2>1. mgr' \in Manager /\ {} \in SUBSET Slots /\ call' = call
    BY AskingFacts DEF Types
  <2>2. CASE runSync({})
    BY <2>1, <2>2, SyncErased DEF Placed
  <2>3. CASE pass' = pass
    BY <2>1, <2>3 DEF Placed, Erased
  <2> QED
    BY <2>2, <2>3, AskingFacts
<1> QED
  BY <1>1, <1>2, <1>3, <1>4, <1>5, <1>6, <1>7 DEF Placed

LEMMA ScreensPlaced ==
    ASSUME Types, Waited, Orderly, Placed, openSignIn \/ openConsent
    PROVE  Placed'
<1>1. Exchanging'
  BY ScreenFacts DEF Placed, Exchanging, On, Kept
<1>2. OnScreen'
  BY ScreenFacts DEF Placed, OnScreen, SignedIn, Kept
<1>3. Watched'
  BY ScreenFacts DEF Placed, Watched, Watching, SignedIn, Kept
<1>4. Launched'
  BY ScreenFacts, SessionAssumption DEF Placed, Launched, Launching, SignedIn, Kept
<1>5. Named'
  BY ScreenFacts DEF Placed, Named, Acting, SignedIn, Kept
<1>6. StoredIsIdentity'
  BY ScreenFacts DEF Placed, StoredIsIdentity, SignedIn, Kept
<1>7. Erased'
  BY ScreenFacts DEF Placed, Erased, Kept
<1> QED
  BY <1>1, <1>2, <1>3, <1>4, <1>5, <1>6, <1>7 DEF Placed

LEMMA KilledPlaced ==
    ASSUME Types, Waited, Orderly, Placed, Killed
    PROVE  Placed'
<1>1. Exchanging'
  BY KilledFacts DEF Placed, Exchanging, On, Fresh, NoCall, NoPass, SignedOut
<1>2. OnScreen'
  BY KilledFacts DEF Placed, OnScreen, SignedIn, Fresh, NoCall, NoPass, SignedOut
<1>3. Watched'
  BY KilledFacts DEF Placed, Watched, Watching, SignedIn, Fresh, NoCall, NoPass, SignedOut
<1>4. Launched'
  BY KilledFacts, SessionAssumption DEF Placed, Launched, Launching, SignedIn, Fresh, NoCall, NoPass, SignedOut
<1>5. Named'
  BY KilledFacts DEF Placed, Named, Acting, SignedIn, Fresh, NoCall, NoPass, SignedOut
<1>6. StoredIsIdentity'
  BY KilledFacts DEF Placed, StoredIsIdentity, SignedIn, Fresh, NoCall, NoPass, SignedOut
<1>7. Erased'
  BY KilledFacts DEF Placed, Erased, Fresh, NoCall, NoPass, SignedOut
<1> QED
  BY <1>1, <1>2, <1>3, <1>4, <1>5, <1>6, <1>7 DEF Placed

LEMMA ResumedPlaced ==
    ASSUME Types, Waited, Orderly, Placed, NEW c \in Slots, PassAwaited(c) \/ LastPassEnded(c) \/ GoneWaited(c) \/ passesSettled(c)
    PROVE  Placed'
<1>1. Exchanging'
  BY ResumedFacts DEF Placed, Exchanging, On, Kept, Orderly, OnScreen, Watched, Launched, Named, StoredIsIdentity, Erased, SignedIn, Watching, Launching, Acting
<1>2. OnScreen'
  BY ResumedFacts DEF Placed, OnScreen, SignedIn, Kept, Orderly, Exchanging, Watched, Launched, Named, StoredIsIdentity, Erased, Watching, Launching, Acting, On
<1>3. Watched'
  BY ResumedFacts DEF Placed, Watched, Watching, SignedIn, Kept, Orderly, Exchanging, OnScreen, Launched, Named, StoredIsIdentity, Erased, Launching, Acting, On
<1>4. Launched'
  BY ResumedFacts, SessionAssumption DEF Placed, Launched, Launching, SignedIn, Kept, Orderly, Exchanging, OnScreen, Watched, Named, StoredIsIdentity, Erased, Watching, Acting, On
<1>5. Named'
  BY ResumedFacts DEF Placed, Named, Acting, SignedIn, Kept, Orderly, Exchanging, OnScreen, Watched, Launched, StoredIsIdentity, Erased, Watching, Launching, On
<1>6. StoredIsIdentity'
  BY ResumedFacts DEF Placed, StoredIsIdentity, SignedIn, Kept, Orderly, Exchanging, OnScreen, Watched, Launched, Named, Erased, Watching, Launching, Acting, On
<1>7. Erased'
  BY ResumedFacts DEF Placed, Erased, Kept, Orderly, Exchanging, OnScreen, Watched, Launched, Named, StoredIsIdentity, SignedIn, Watching, Launching, Acting, On
<1> QED
  BY <1>1, <1>2, <1>3, <1>4, <1>5, <1>6, <1>7 DEF Placed

LEMMA SignInFinishedPlaced ==
    ASSUME Types, Waited, Orderly, Placed, NEW c \in Slots, SignInFinished(c)
    PROVE  Placed'
<1>1. Exchanging'
  BY SignInFinishedFacts DEF Placed, Exchanging, On, Kept
<1>2. OnScreen'
  BY SignInFinishedFacts DEF Placed, OnScreen, SignedIn, Kept
<1>3. Watched'
  BY SignInFinishedFacts DEF Placed, Watched, Watching, SignedIn, Kept
<1>4. Launched'
  BY SignInFinishedFacts, SessionAssumption DEF Placed, Launched, Launching, SignedIn, Kept
<1>5. Named'
  BY SignInFinishedFacts DEF Placed, Named, Acting, SignedIn, Kept
<1>6. StoredIsIdentity'
  BY SignInFinishedFacts DEF Placed, StoredIsIdentity, SignedIn, Kept
<1>7. Erased'
  BY SignInFinishedFacts DEF Placed, Erased, Kept
<1> QED
  BY <1>1, <1>2, <1>3, <1>4, <1>5, <1>6, <1>7 DEF Placed

LEMMA EndWaitedPlaced ==
    ASSUME Types, Waited, Orderly, Placed, NEW c \in Slots, EndWaited(c)
    PROVE  Placed'
<1>1. Exchanging'
  BY EndWaitedFacts DEF Placed, Exchanging, On, Kept, Orderly, OnScreen, Watched, Launched, Named, StoredIsIdentity, Erased, SignedIn, Watching, Launching, Acting
<1>2. OnScreen'
  BY EndWaitedFacts DEF Placed, OnScreen, SignedIn, Kept, Orderly, Exchanging, Watched, Launched, Named, StoredIsIdentity, Erased, Watching, Launching, Acting, On
<1>3. Watched'
  BY EndWaitedFacts DEF Placed, Watched, Watching, SignedIn, Kept, Orderly, Exchanging, OnScreen, Launched, Named, StoredIsIdentity, Erased, Launching, Acting, On
<1>4. Launched'
  BY EndWaitedFacts, SyncFacts, SessionAssumption DEF Placed, Launched, Launching, SignedIn, Kept, CanPass, Orderly, Exchanging, OnScreen, Watched, Named, StoredIsIdentity, Erased, Watching, Acting, On
<1>5. Named'
  BY EndWaitedFacts DEF Placed, Named, Acting, SignedIn, Kept, Orderly, Exchanging, OnScreen, Watched, Launched, StoredIsIdentity, Erased, Watching, Launching, On
<1>6. StoredIsIdentity'
  BY EndWaitedFacts DEF Placed, StoredIsIdentity, SignedIn, Kept, Orderly, Exchanging, OnScreen, Watched, Launched, Named, Erased, Watching, Launching, Acting, On
<1>7. Erased'
  BY EndWaitedFacts, SyncErased DEF Placed, Erased, Kept, Types, Orderly, Exchanging, OnScreen, Watched, Launched, Named, StoredIsIdentity, SignedIn, Watching, Launching, Acting, On
<1> QED
  BY <1>1, <1>2, <1>3, <1>4, <1>5, <1>6, <1>7 DEF Placed

LEMMA RevokeWaitedPlaced ==
    ASSUME Types, Waited, Orderly, Placed, NEW c \in Slots, RevokeWaited(c)
    PROVE  Placed'
<1>1. Exchanging'
  BY RevokeWaitedFacts DEF Placed, Exchanging, On, Kept, SameManager, SameScreen, Orderly, OnScreen, Watched, Launched, Named, StoredIsIdentity, Erased, SignedIn, Watching, Launching, Acting
<1>2. OnScreen'
  BY RevokeWaitedFacts DEF Placed, OnScreen, SignedIn, Kept, SameManager, SameScreen, Orderly, Exchanging, Watched, Launched, Named, StoredIsIdentity, Erased, Watching, Launching, Acting, On
<1>3. Watched'
  BY RevokeWaitedFacts DEF Placed, Watched, Watching, SignedIn, Kept, SameManager, SameScreen, Orderly, Exchanging, OnScreen, Launched, Named, StoredIsIdentity, Erased, Launching, Acting, On
<1>4. Launched'
  BY RevokeWaitedFacts, SessionAssumption DEF Placed, Launched, Launching, SignedIn, Kept, SameManager, SameScreen, Orderly, Exchanging, OnScreen, Watched, Named, StoredIsIdentity, Erased, Watching, Acting, On
<1>5. Named'
  BY RevokeWaitedFacts DEF Placed, Named, Acting, SignedIn, Kept, SameManager, SameScreen, Orderly, Exchanging, OnScreen, Watched, Launched, StoredIsIdentity, Erased, Watching, Launching, On
<1>6. StoredIsIdentity'
  BY RevokeWaitedFacts DEF Placed, StoredIsIdentity, SignedIn, Kept, SameManager, SameScreen, Orderly, Exchanging, OnScreen, Watched, Launched, Named, Erased, Watching, Launching, Acting, On
<1>7. Erased'
  BY RevokeWaitedFacts DEF Placed, Erased, Kept, SameManager, SameScreen, Orderly, Exchanging, OnScreen, Watched, Launched, Named, StoredIsIdentity, SignedIn, Watching, Launching, Acting, On
<1> QED
  BY <1>1, <1>2, <1>3, <1>4, <1>5, <1>6, <1>7 DEF Placed

LEMMA ForgetPlaced ==
    ASSUME Types, Waited, Orderly, Placed, NEW c \in Slots, Deleted(c) \/ SignedOutOfAuth(c) \/ GoneFromAuth(c)
    PROVE  Placed'
<1>1. Exchanging'
  <2> SUFFICES ASSUME NEW d \in Slots, call'[d].pc = "exchange", mgr'.current = d
               PROVE  mgr'.exchanging = d
    BY DEF Exchanging, On
  <2>1. d # c /\ call[d].pc = "exchange" /\ mgr.current = d
    BY ForgetFacts DEF Unseen
  <2> QED
    BY <2>1, ForgetFacts DEF Placed, Exchanging, On
<1>2. OnScreen'
  BY ForgetFacts DEF Placed, OnScreen, SignedIn, Unseen, SameScreen, Orderly, Exchanging, Watched, Launched, Named, StoredIsIdentity, Erased, Watching, Launching, Acting, On
<1>3. Watched'
  BY ForgetFacts DEF Placed, Watched, Watching, SignedIn, Unseen, SameScreen, Orderly, Exchanging, OnScreen, Launched, Named, StoredIsIdentity, Erased, Launching, Acting, On
<1>4. Launched'
  BY ForgetFacts, SessionAssumption DEF Placed, Launched, Launching, SignedIn, Unseen, SameScreen, Orderly, Exchanging, OnScreen, Watched, Named, StoredIsIdentity, Erased, Watching, Acting, On
<1>5. Named'
  <2> SUFFICES ASSUME NEW d \in Slots, call'[d].pc \in Acting
               PROVE  call'[d].user # NoUser
    BY DEF Named
  <2>1. d # c
    BY ForgetFacts DEF Acting
  <2> QED
    BY <2>1, ForgetFacts DEF Placed, Named, Unseen
<1>6. StoredIsIdentity'
  BY ForgetFacts DEF Placed, StoredIsIdentity, SignedIn, Unseen, SameScreen, Orderly, Exchanging, OnScreen, Watched, Launched, Named, Erased, Watching, Launching, Acting, On
<1>7. Erased'
  BY ForgetFacts DEF Placed, Erased, Unseen, SameScreen, Orderly, Exchanging, OnScreen, Watched, Launched, Named, StoredIsIdentity, SignedIn, Watching, Launching, Acting, On
<1> QED
  BY <1>1, <1>2, <1>3, <1>4, <1>5, <1>6, <1>7 DEF Placed

LEMMA ForgottenPlaced ==
    ASSUME Types, Waited, Orderly, Placed, NEW c \in Slots, Forgotten(c)
    PROVE  Placed'
<1>1. Exchanging'
  BY ForgottenFacts DEF Placed, Exchanging, On, Kept
<1>2. OnScreen'
  BY ForgottenFacts DEF Placed, OnScreen, SignedIn, Kept
<1>3. Watched'
  BY ForgottenFacts DEF Placed, Watched, Watching, SignedIn, Kept
<1>4. Launched'
  BY ForgottenFacts, SessionAssumption DEF Placed, Launched, Launching, SignedIn, Kept
<1>5. Named'
  BY ForgottenFacts DEF Placed, Named, Acting, SignedIn, Kept
<1>6. StoredIsIdentity'
  BY ForgottenFacts DEF Placed, StoredIsIdentity, SignedIn, Kept
<1>7. Erased'
  BY ForgottenFacts DEF Placed, Erased, Kept
<1> QED
  BY <1>1, <1>2, <1>3, <1>4, <1>5, <1>6, <1>7 DEF Placed

LEMMA DeletionPlaced ==
    ASSUME Types, Waited, Orderly, Placed, NEW c \in Slots, Reauthorized(c) \/ DeletionFailed(c) \/ RetryFailed(c) \/ HoldsRead(c)
    PROVE  Placed'
<1>1. Exchanging'
  BY DeletionFacts DEF Placed, Exchanging, On, Kept, SameManager, SameScreen
<1>2. OnScreen'
  BY DeletionFacts DEF Placed, OnScreen, SignedIn, Kept, SameManager, SameScreen
<1>3. Watched'
  BY DeletionFacts DEF Placed, Watched, Watching, SignedIn, Kept, SameManager, SameScreen
<1>4. Launched'
  BY DeletionFacts, SessionAssumption DEF Placed, Launched, Launching, SignedIn, Kept, SameManager, SameScreen
<1>5. Named'
  BY DeletionFacts DEF Placed, Named, Acting, SignedIn, Kept, SameManager, SameScreen
<1>6. StoredIsIdentity'
  BY DeletionFacts DEF Placed, StoredIsIdentity, SignedIn, Kept, SameManager, SameScreen
<1>7. Erased'
  BY DeletionFacts DEF Placed, Erased, Kept, SameManager, SameScreen
<1> QED
  BY <1>1, <1>2, <1>3, <1>4, <1>5, <1>6, <1>7 DEF Placed

LEMMA ExchangeEndsPlaced ==
    ASSUME Types, Waited, Orderly, Placed, NEW c \in Slots, ExchangeFails(c) \/ ExchangeAbandoned(c)
    PROVE  Placed'
<1>1. Exchanging'
  BY ExchangeEndsFacts DEF Placed, Exchanging, On, Kept, SameScreen, Orderly, OnScreen, Watched, Launched, Named, StoredIsIdentity, Erased, SignedIn, Watching, Launching, Acting
<1>2. OnScreen'
  BY ExchangeEndsFacts DEF Placed, OnScreen, SignedIn, Kept, SameScreen, Orderly, Exchanging, Watched, Launched, Named, StoredIsIdentity, Erased, Watching, Launching, Acting, On
<1>3. Watched'
  BY ExchangeEndsFacts DEF Placed, Watched, Watching, SignedIn, Kept, SameScreen, Orderly, Exchanging, OnScreen, Launched, Named, StoredIsIdentity, Erased, Launching, Acting, On
<1>4. Launched'
  BY ExchangeEndsFacts, SessionAssumption DEF Placed, Launched, Launching, SignedIn, Kept, SameScreen, Orderly, Exchanging, OnScreen, Watched, Named, StoredIsIdentity, Erased, Watching, Acting, On
<1>5. Named'
  BY ExchangeEndsFacts DEF Placed, Named, Acting, SignedIn, Kept, SameScreen, Orderly, Exchanging, OnScreen, Watched, Launched, StoredIsIdentity, Erased, Watching, Launching, On
<1>6. StoredIsIdentity'
  BY ExchangeEndsFacts DEF Placed, StoredIsIdentity, SignedIn, Kept, SameScreen, Orderly, Exchanging, OnScreen, Watched, Launched, Named, Erased, Watching, Launching, Acting, On
<1>7. Erased'
  BY ExchangeEndsFacts DEF Placed, Erased, Kept, SameScreen, Orderly, Exchanging, OnScreen, Watched, Launched, Named, StoredIsIdentity, SignedIn, Watching, Launching, Acting, On
<1> QED
  BY <1>1, <1>2, <1>3, <1>4, <1>5, <1>6, <1>7 DEF Placed

LEMMA OrphanDroppedPlaced ==
    ASSUME Types, Waited, Orderly, Placed, NEW c \in Slots, OrphanDropped(c)
    PROVE  Placed'
<1>1. Exchanging'
  BY OrphanDroppedFacts DEF Placed, Exchanging, On, Kept, SameScreen, Orderly, OnScreen, Watched, Launched, Named, StoredIsIdentity, Erased, SignedIn, Watching, Launching, Acting
<1>2. OnScreen'
  BY OrphanDroppedFacts DEF Placed, OnScreen, SignedIn, Kept, SameScreen, Orderly, Exchanging, Watched, Launched, Named, StoredIsIdentity, Erased, Watching, Launching, Acting, On
<1>3. Watched'
  BY OrphanDroppedFacts DEF Placed, Watched, Watching, SignedIn, Kept, SameScreen, Orderly, Exchanging, OnScreen, Launched, Named, StoredIsIdentity, Erased, Launching, Acting, On
<1>4. Launched'
  BY OrphanDroppedFacts, SessionAssumption DEF Placed, Launched, Launching, SignedIn, Kept, SameScreen, Orderly, Exchanging, OnScreen, Watched, Named, StoredIsIdentity, Erased, Watching, Acting, On
<1>5. Named'
  BY OrphanDroppedFacts DEF Placed, Named, Acting, SignedIn, Kept, SameScreen, Orderly, Exchanging, OnScreen, Watched, Launched, StoredIsIdentity, Erased, Watching, Launching, On
<1>6. StoredIsIdentity'
  BY OrphanDroppedFacts DEF Placed, StoredIsIdentity, SignedIn, Kept, SameScreen, Orderly, Exchanging, OnScreen, Watched, Launched, Named, Erased, Watching, Launching, Acting, On
<1>7. Erased'
  BY OrphanDroppedFacts DEF Placed, Erased, Kept, SameScreen, Orderly, Exchanging, OnScreen, Watched, Launched, Named, StoredIsIdentity, SignedIn, Watching, Launching, Acting, On
<1> QED
  BY <1>1, <1>2, <1>3, <1>4, <1>5, <1>6, <1>7 DEF Placed

LEMMA ExchangeAdoptedPlaced ==
    ASSUME Types, Waited, Orderly, Placed, NEW c \in Slots, ExchangeAdopted(c)
    PROVE  Placed'
<1>1. Exchanging'
  <2>1. mgr'.current = c /\ call'[c].pc = "consent"
    BY ExchangeAdoptedFacts
  <2> QED
    BY <2>1 DEF Exchanging, On
<1>2. OnScreen'
  <2>1. mgr.exchanging = c
    BY ExchangeAdoptedFacts DEF Placed, Exchanging, On
  <2>2. \A d \in Slots : d # c => call'[d].pc \in {"idle", "pass", "firstPass"}
    BY <2>1, ExchangeAdoptedFacts DEF Orderly, Unseen
  <2> QED
    BY <2>2, ExchangeAdoptedFacts DEF OnScreen, SignedIn
<1>3. Watched'
  BY ExchangeAdoptedFacts DEF Placed, Watched, Watching, SignedIn, Unseen, Orderly, Exchanging, OnScreen, Launched, Named, StoredIsIdentity, Erased, Launching, Acting, On
<1>4. Launched'
  BY ExchangeAdoptedFacts, SessionAssumption DEF Placed, Launched, Launching, SignedIn, Unseen, Orderly, Exchanging, OnScreen, Watched, Named, StoredIsIdentity, Erased, Watching, Acting, On
<1>5. Named'
  <2>1. \A d \in Slots : d # c => call'[d].pc \notin Acting
    BY ExchangeAdoptedFacts DEF Orderly, Unseen, Acting
  <2> QED
    BY <2>1, ExchangeAdoptedFacts DEF Named
<1>6. StoredIsIdentity'
  BY ExchangeAdoptedFacts DEF Placed, StoredIsIdentity, SignedIn, Unseen, Orderly, Exchanging, OnScreen, Watched, Launched, Named, Erased, Watching, Launching, Acting, On
<1>7. Erased'
  BY ExchangeAdoptedFacts DEF Placed, Erased, Unseen, Orderly, Exchanging, OnScreen, Watched, Launched, Named, StoredIsIdentity, SignedIn, Watching, Launching, Acting, On
<1> QED
  BY <1>1, <1>2, <1>3, <1>4, <1>5, <1>6, <1>7 DEF Placed

LEMMA ConsentReadPlaced ==
    ASSUME Types, Waited, Orderly, Placed, NEW c \in Slots, ConsentRead(c)
    PROVE  Placed'
<1>1. Exchanging'
  BY ConsentReadFacts DEF Placed, Exchanging, On, Kept
<1>2. OnScreen'
  BY ConsentReadFacts DEF Placed, OnScreen, SignedIn, Kept
<1>3. Watched'
  BY ConsentReadFacts DEF Placed, Watched, Watching, SignedIn, Kept
<1>4. Launched'
  BY ConsentReadFacts, SyncFacts, SessionAssumption DEF Placed, Launched, Launching, SignedIn, Kept, CanPass
<1>5. Named'
  BY ConsentReadFacts DEF Placed, Named, Acting, SignedIn, Kept
<1>6. StoredIsIdentity'
  BY ConsentReadFacts DEF Placed, StoredIsIdentity, SignedIn, Kept
<1>7. Erased'
  BY ConsentReadFacts, SyncErased DEF Placed, Erased, Kept, Types
<1> QED
  BY <1>1, <1>2, <1>3, <1>4, <1>5, <1>6, <1>7 DEF Placed

LEMMA QuestionShownPlaced ==
    ASSUME Types, Waited, Orderly, Placed, NEW c \in Slots, QuestionShown(c)
    PROVE  Placed'
<1>1. Exchanging'
  BY QuestionShownFacts DEF Placed, Exchanging, On, Kept, Orderly, OnScreen, Watched, Launched, Named, StoredIsIdentity, Erased, SignedIn, Watching, Launching, Acting
<1>2. OnScreen'
  BY QuestionShownFacts DEF Placed, OnScreen, SignedIn, Kept, Orderly, Exchanging, Watched, Launched, Named, StoredIsIdentity, Erased, Watching, Launching, Acting, On
<1>3. Watched'
  BY QuestionShownFacts DEF Placed, Watched, Watching, SignedIn, Kept, Orderly, Exchanging, OnScreen, Launched, Named, StoredIsIdentity, Erased, Launching, Acting, On
<1>4. Launched'
  BY QuestionShownFacts, SessionAssumption DEF Placed, Launched, Launching, SignedIn, Kept, Orderly, Exchanging, OnScreen, Watched, Named, StoredIsIdentity, Erased, Watching, Acting, On
<1>5. Named'
  BY QuestionShownFacts DEF Placed, Named, Acting, SignedIn, Kept, Orderly, Exchanging, OnScreen, Watched, Launched, StoredIsIdentity, Erased, Watching, Launching, On
<1>6. StoredIsIdentity'
  BY QuestionShownFacts DEF Placed, StoredIsIdentity, SignedIn, Kept, Orderly, Exchanging, OnScreen, Watched, Launched, Named, Erased, Watching, Launching, Acting, On
<1>7. Erased'
  BY QuestionShownFacts DEF Placed, Erased, Kept, Orderly, Exchanging, OnScreen, Watched, Launched, Named, StoredIsIdentity, SignedIn, Watching, Launching, Acting, On
<1> QED
  BY <1>1, <1>2, <1>3, <1>4, <1>5, <1>6, <1>7 DEF Placed

LEMMA ConsentGivenPlaced ==
    ASSUME Types, Waited, Orderly, Placed, NEW c \in Slots, ConsentGiven(c)
    PROVE  Placed'
<1>1. Exchanging'
  BY ConsentGivenFacts DEF Placed, Exchanging, On, Kept
<1>2. OnScreen'
  BY ConsentGivenFacts DEF Placed, OnScreen, SignedIn, Kept
<1>3. Watched'
  BY ConsentGivenFacts DEF Placed, Watched, Watching, SignedIn, Kept
<1>4. Launched'
  BY ConsentGivenFacts, SyncFacts, SessionAssumption DEF Placed, Launched, Launching, SignedIn, Kept, CanPass
<1>5. Named'
  BY ConsentGivenFacts DEF Placed, Named, Acting, SignedIn, Kept
<1>6. StoredIsIdentity'
  BY ConsentGivenFacts DEF Placed, StoredIsIdentity, SignedIn, Kept
<1>7. Erased'
  BY ConsentGivenFacts, SyncErased DEF Placed, Erased, Kept, Types
<1> QED
  BY <1>1, <1>2, <1>3, <1>4, <1>5, <1>6, <1>7 DEF Placed

LEMMA QuestionSettledPlaced ==
    ASSUME Types, Waited, Orderly, Placed, NEW c \in Slots, QuestionSettled(c)
    PROVE  Placed'
<1>1. Exchanging'
  BY QuestionSettledFacts DEF Placed, Exchanging, On, Kept
<1>2. OnScreen'
  BY QuestionSettledFacts DEF Placed, OnScreen, SignedIn, Kept
<1>3. Watched'
  BY QuestionSettledFacts DEF Placed, Watched, Watching, SignedIn, Kept
<1>4. Launched'
  BY QuestionSettledFacts, SyncFacts, SessionAssumption DEF Placed, Launched, Launching, SignedIn, Kept, CanPass
<1>5. Named'
  BY QuestionSettledFacts DEF Placed, Named, Acting, SignedIn, Kept
<1>6. StoredIsIdentity'
  BY QuestionSettledFacts DEF Placed, StoredIsIdentity, SignedIn, Kept
<1>7. Erased'
  BY QuestionSettledFacts, SyncErased DEF Placed, Erased, Kept, Types
<1> QED
  BY <1>1, <1>2, <1>3, <1>4, <1>5, <1>6, <1>7 DEF Placed

LEMMA ConsentWithdrawnPlaced ==
    ASSUME Types, Waited, Orderly, Placed, NEW c \in Slots, ConsentWithdrawn(c)
    PROVE  Placed'
<1>1. Exchanging'
  BY ConsentWithdrawnFacts DEF Placed, Exchanging, On, Kept
<1>2. OnScreen'
  BY ConsentWithdrawnFacts DEF Placed, OnScreen, SignedIn, Kept
<1>3. Watched'
  BY ConsentWithdrawnFacts DEF Placed, Watched, Watching, SignedIn, Kept
<1>4. Launched'
  BY ConsentWithdrawnFacts, SyncFacts, SessionAssumption DEF Placed, Launched, Launching, SignedIn, Kept, CanPass
<1>5. Named'
  BY ConsentWithdrawnFacts DEF Placed, Named, Acting, SignedIn, Kept
<1>6. StoredIsIdentity'
  BY ConsentWithdrawnFacts DEF Placed, StoredIsIdentity, SignedIn, Kept
<1>7. Erased'
  BY ConsentWithdrawnFacts, SyncErased DEF Placed, Erased, Kept, Types
<1> QED
  BY <1>1, <1>2, <1>3, <1>4, <1>5, <1>6, <1>7 DEF Placed

LEMMA SessionReadPlaced ==
    ASSUME Types, Waited, Orderly, Placed, NEW c \in Slots, SessionRead(c)
    PROVE  Placed'
<1>1. Exchanging'
  BY SessionReadFacts DEF Placed, Exchanging, On, Kept, Unseen, Orderly, OnScreen, Watched, Launched, Named, StoredIsIdentity, Erased, SignedIn, Watching, Launching, Acting
<1>2. OnScreen'
  BY SessionReadFacts DEF Placed, OnScreen, SignedIn, Kept, Unseen, Orderly, Exchanging, Watched, Launched, Named, StoredIsIdentity, Erased, Watching, Launching, Acting, On
<1>3. Watched'
  BY SessionReadFacts DEF Placed, Watched, Watching, SignedIn, Kept, Unseen, Orderly, Exchanging, OnScreen, Launched, Named, StoredIsIdentity, Erased, Launching, Acting, On
<1>4. Launched'
  BY SessionReadFacts, SessionAssumption DEF Placed, Launched, Launching, SignedIn, Kept, Unseen, Orderly, Exchanging, OnScreen, Watched, Named, StoredIsIdentity, Erased, Watching, Acting, On
<1>5. Named'
  BY SessionReadFacts DEF Placed, Named, Acting, SignedIn, Kept, Unseen, Orderly, Exchanging, OnScreen, Watched, Launched, StoredIsIdentity, Erased, Watching, Launching, On
<1>6. StoredIsIdentity'
  BY SessionReadFacts DEF Placed, StoredIsIdentity, SignedIn, Kept, Unseen, Orderly, Exchanging, OnScreen, Watched, Launched, Named, Erased, Watching, Launching, Acting, On
<1>7. Erased'
  BY SessionReadFacts DEF Placed, Erased, Kept, Unseen, Orderly, Exchanging, OnScreen, Watched, Launched, Named, StoredIsIdentity, SignedIn, Watching, Launching, Acting, On
<1> QED
  BY <1>1, <1>2, <1>3, <1>4, <1>5, <1>6, <1>7 DEF Placed

LEMMA RefreshedPlaced ==
    ASSUME Types, Waited, Orderly, Placed, NEW c \in Slots, Refreshed(c)
    PROVE  Placed'
<1>1. Exchanging'
  BY RefreshedFacts DEF Placed, Exchanging, On, Kept, Orderly, OnScreen, Watched, Launched, Named, StoredIsIdentity, Erased, SignedIn, Watching, Launching, Acting
<1>2. OnScreen'
  BY RefreshedFacts DEF Placed, OnScreen, SignedIn, Kept, Orderly, Exchanging, Watched, Launched, Named, StoredIsIdentity, Erased, Watching, Launching, Acting, On
<1>3. Watched'
  BY RefreshedFacts DEF Placed, Watched, Watching, SignedIn, Kept, Orderly, Exchanging, OnScreen, Launched, Named, StoredIsIdentity, Erased, Launching, Acting, On
<1>4. Launched'
  BY RefreshedFacts, SessionAssumption DEF Placed, Launched, Launching, SignedIn, Kept, Orderly, Exchanging, OnScreen, Watched, Named, StoredIsIdentity, Erased, Watching, Acting, On
<1>5. Named'
  BY RefreshedFacts DEF Placed, Named, Acting, SignedIn, Kept, Orderly, Exchanging, OnScreen, Watched, Launched, StoredIsIdentity, Erased, Watching, Launching, On
<1>6. StoredIsIdentity'
  BY RefreshedFacts DEF Placed, StoredIsIdentity, SignedIn, Kept, Orderly, Exchanging, OnScreen, Watched, Launched, Named, Erased, Watching, Launching, Acting, On
<1>7. Erased'
  BY RefreshedFacts DEF Placed, Erased, Kept, Orderly, Exchanging, OnScreen, Watched, Launched, Named, StoredIsIdentity, SignedIn, Watching, Launching, Acting, On
<1> QED
  BY <1>1, <1>2, <1>3, <1>4, <1>5, <1>6, <1>7 DEF Placed

LEMMA AppleAskedPlaced ==
    ASSUME Types, Waited, Orderly, Placed, NEW c \in Slots, AppleAsked(c)
    PROVE  Placed'
<1>1. Exchanging'
  <2> SUFFICES ASSUME NEW d \in Slots, call'[d].pc = "exchange", mgr'.current = d
               PROVE  mgr'.exchanging = d
    BY DEF Exchanging, On
  <2>1. d # c /\ mgr.current = d /\ mgr'.exchanging = mgr.exchanging
    BY AppleAskedFacts
  <2>2. call[d].pc = "exchange"
    BY <2>1, AppleAskedFacts DEF Kept, Unseen
  <2> QED
    BY <2>1, <2>2 DEF Placed, Exchanging, On
<1>2. OnScreen'
  BY AppleAskedFacts DEF Placed, OnScreen, SignedIn, Kept, Unseen, Orderly, Exchanging, Watched, Launched, Named, StoredIsIdentity, Erased, Watching, Launching, Acting, On
<1>3. Watched'
  BY AppleAskedFacts DEF Placed, Watched, Watching, SignedIn, Kept, Unseen, Orderly, Exchanging, OnScreen, Launched, Named, StoredIsIdentity, Erased, Launching, Acting, On
<1>4. Launched'
  BY AppleAskedFacts, SyncFacts, SessionAssumption DEF Placed, Launched, Launching, SignedIn, Kept, Unseen, CanPass, Orderly, Exchanging, OnScreen, Watched, Named, StoredIsIdentity, Erased, Watching, Acting, On
<1>5. Named'
  <2> SUFFICES ASSUME NEW d \in Slots, call'[d].pc \in Acting
               PROVE  call'[d].user # NoUser
    BY DEF Named
  <2>1. CASE d = c
    <3>1. call'[c].user = call[c].user /\ call[c].pc \in Acting
      BY <2>1, AppleAskedFacts DEF Acting
    <3> QED
      BY <2>1, <3>1 DEF Placed, Named
  <2>2. CASE d # c
    <3>1. call'[d].pc = call[d].pc /\ call'[d].user = call[d].user
      BY <2>2, AppleAskedFacts DEF Kept, Unseen
    <3> QED
      BY <3>1 DEF Placed, Named
  <2> QED
    BY <2>1, <2>2
<1>6. StoredIsIdentity'
  <2>1. CASE UNCHANGED mgr
    BY <2>1, AppleAskedFacts DEF Placed, StoredIsIdentity
  <2>2. CASE mgr'.identity = call[c].user /\ call[c].pc = "appleLaunch"
    BY <2>2, AppleAskedFacts DEF Placed, Launched, Launching, StoredIsIdentity
  <2>3. CASE mgr'.identity = call[c].user /\ call[c].pc = "apple" /\ call[c].same
    <3>1. mgr'.identity = mgr.identity
      BY <2>3 DEF Placed, Watched, Watching
    <3> QED
      BY <3>1, AppleAskedFacts DEF Placed, StoredIsIdentity
  <2> QED
    BY <2>1, <2>2, <2>3, AppleAskedFacts
<1>7. Erased'
  <2>1. \A d \in Slots : call'[d].pc \in {"erase", "retryErase"} => call[d].pc = call'[d].pc
    <3> SUFFICES ASSUME NEW d \in Slots, call'[d].pc \in {"erase", "retryErase"}
                 PROVE  call[d].pc = call'[d].pc
      OBVIOUS
    <3>1. d # c
      BY AppleAskedFacts
    <3> QED
      BY <3>1, AppleAskedFacts DEF Kept, Unseen
  <2>2. CASE pass' = pass
    BY <2>1, <2>2 DEF Placed, Erased
  <2>3. CASE runSync({c})
    <3>1. mgr' \in Manager
      BY AppleAskedFacts DEF Types
    <3> QED
      BY <2>1, <2>3, <3>1, SyncErased DEF Placed
  <2> QED
    BY <2>2, <2>3, AppleAskedFacts
<1> QED
  BY <1>1, <1>2, <1>3, <1>4, <1>5, <1>6, <1>7 DEF Placed

LEMMA MarkReadPlaced ==
    ASSUME Types, Waited, Orderly, Placed, NEW c \in Slots, MarkRead(c)
    PROVE  Placed'
<1>1. Exchanging'
  BY MarkReadFacts DEF Placed, Exchanging, On, Kept
<1>2. OnScreen'
  BY MarkReadFacts DEF Placed, OnScreen, SignedIn, Kept
<1>3. Watched'
  BY MarkReadFacts DEF Placed, Watched, Watching, SignedIn, Kept
<1>4. Launched'
  BY MarkReadFacts, SyncFacts, SessionAssumption DEF Placed, Launched, Launching, SignedIn, Kept, CanPass
<1>5. Named'
  BY MarkReadFacts DEF Placed, Named, Acting, SignedIn, Kept
<1>6. StoredIsIdentity'
  BY MarkReadFacts DEF Placed, StoredIsIdentity, SignedIn, Kept
<1>7. Erased'
  BY MarkReadFacts, SyncErased DEF Placed, Erased, Kept, Types
<1> QED
  BY <1>1, <1>2, <1>3, <1>4, <1>5, <1>6, <1>7 DEF Placed

LEMMA CheckReadPlaced ==
    ASSUME Types, Waited, Orderly, Placed, NEW c \in Slots, CheckRead(c)
    PROVE  Placed'
<1>1. Exchanging'
  BY CheckReadFacts DEF Placed, Exchanging, On, Kept
<1>2. OnScreen'
  BY CheckReadFacts DEF Placed, OnScreen, SignedIn, Kept
<1>3. Watched'
  BY CheckReadFacts DEF Placed, Watched, Watching, SignedIn, Kept
<1>4. Launched'
  BY CheckReadFacts, SyncFacts, SessionAssumption DEF Placed, Launched, Launching, SignedIn, Kept, CanPass
<1>5. Named'
  BY CheckReadFacts DEF Placed, Named, Acting, SignedIn, Kept
<1>6. StoredIsIdentity'
  BY CheckReadFacts DEF Placed, StoredIsIdentity, SignedIn, Kept
<1>7. Erased'
  BY CheckReadFacts, SyncErased DEF Placed, Erased, Kept, Types
<1> QED
  BY <1>1, <1>2, <1>3, <1>4, <1>5, <1>6, <1>7 DEF Placed

LEMMA SignInPlaced ==
    ASSUME Types, Waited, Orderly, Placed, NEW c \in Slots, signIn(c)
    PROVE  Placed'
<1>1. Exchanging'
  BY SignInFacts DEF Placed, Exchanging, On, Kept, SameScreen, Orderly, OnScreen, Watched, Launched, Named, StoredIsIdentity, Erased, SignedIn, Watching, Launching, Acting
<1>2. OnScreen'
  BY SignInFacts DEF Placed, OnScreen, SignedIn, Kept, SameScreen, Orderly, Exchanging, Watched, Launched, Named, StoredIsIdentity, Erased, Watching, Launching, Acting, On
<1>3. Watched'
  BY SignInFacts DEF Placed, Watched, Watching, SignedIn, Kept, SameScreen, Orderly, Exchanging, OnScreen, Launched, Named, StoredIsIdentity, Erased, Launching, Acting, On
<1>4. Launched'
  BY SignInFacts, SessionAssumption DEF Placed, Launched, Launching, SignedIn, Kept, SameScreen, Orderly, Exchanging, OnScreen, Watched, Named, StoredIsIdentity, Erased, Watching, Acting, On
<1>5. Named'
  BY SignInFacts DEF Placed, Named, Acting, SignedIn, Kept, SameScreen, Orderly, Exchanging, OnScreen, Watched, Launched, StoredIsIdentity, Erased, Watching, Launching, On
<1>6. StoredIsIdentity'
  BY SignInFacts DEF Placed, StoredIsIdentity, SignedIn, Kept, SameScreen, Orderly, Exchanging, OnScreen, Watched, Launched, Named, Erased, Watching, Launching, Acting, On
<1>7. Erased'
  BY SignInFacts DEF Placed, Erased, Kept, SameScreen, Orderly, Exchanging, OnScreen, Watched, Launched, Named, StoredIsIdentity, SignedIn, Watching, Launching, Acting, On
<1> QED
  BY <1>1, <1>2, <1>3, <1>4, <1>5, <1>6, <1>7 DEF Placed

LEMMA CloseSheetPlaced ==
    ASSUME Types, Waited, Orderly, Placed, NEW c \in Slots, closeSheet(c)
    PROVE  Placed'
<1>1. Exchanging'
  BY CloseSheetFacts, SessionAssumption DEF Exchanging
<1>2. OnScreen'
  BY CloseSheetFacts DEF Placed, OnScreen, SignedIn, Kept, Orderly, Exchanging, Watched, Launched, Named, StoredIsIdentity, Erased, Watching, Launching, Acting, On
<1>3. Watched'
  BY CloseSheetFacts DEF Placed, Watched, Watching, SignedIn, Kept, Orderly, Exchanging, OnScreen, Launched, Named, StoredIsIdentity, Erased, Launching, Acting, On
<1>4. Launched'
  BY CloseSheetFacts, SessionAssumption DEF Placed, Launched, Launching, SignedIn, Kept, Orderly, Exchanging, OnScreen, Watched, Named, StoredIsIdentity, Erased, Watching, Acting, On
<1>5. Named'
  BY CloseSheetFacts DEF Placed, Named, Acting, SignedIn, Kept, Orderly, Exchanging, OnScreen, Watched, Launched, StoredIsIdentity, Erased, Watching, Launching, On
<1>6. StoredIsIdentity'
  BY CloseSheetFacts DEF Placed, StoredIsIdentity, SignedIn, Kept, Orderly, Exchanging, OnScreen, Watched, Launched, Named, Erased, Watching, Launching, Acting, On
<1>7. Erased'
  BY CloseSheetFacts DEF Placed, Erased, Kept, Orderly, Exchanging, OnScreen, Watched, Launched, Named, StoredIsIdentity, SignedIn, Watching, Launching, Acting, On
<1> QED
  BY <1>1, <1>2, <1>3, <1>4, <1>5, <1>6, <1>7 DEF Placed

LEMMA AnswerConsentPlaced ==
    ASSUME Types, Waited, Orderly, Placed, NEW c \in Slots, answerConsent(c)
    PROVE  Placed'
<1>1. Exchanging'
  BY AnswerConsentFacts DEF Placed, Exchanging, On, Kept, Orderly, OnScreen, Watched, Launched, Named, StoredIsIdentity, Erased, SignedIn, Watching, Launching, Acting
<1>2. OnScreen'
  BY AnswerConsentFacts DEF Placed, OnScreen, SignedIn, Kept, Orderly, Exchanging, Watched, Launched, Named, StoredIsIdentity, Erased, Watching, Launching, Acting, On
<1>3. Watched'
  BY AnswerConsentFacts DEF Placed, Watched, Watching, SignedIn, Kept, Orderly, Exchanging, OnScreen, Launched, Named, StoredIsIdentity, Erased, Launching, Acting, On
<1>4. Launched'
  BY AnswerConsentFacts, SessionAssumption DEF Placed, Launched, Launching, SignedIn, Kept, Orderly, Exchanging, OnScreen, Watched, Named, StoredIsIdentity, Erased, Watching, Acting, On
<1>5. Named'
  BY AnswerConsentFacts DEF Placed, Named, Acting, SignedIn, Kept, Orderly, Exchanging, OnScreen, Watched, Launched, StoredIsIdentity, Erased, Watching, Launching, On
<1>6. StoredIsIdentity'
  BY AnswerConsentFacts DEF Placed, StoredIsIdentity, SignedIn, Kept, Orderly, Exchanging, OnScreen, Watched, Launched, Named, Erased, Watching, Launching, Acting, On
<1>7. Erased'
  BY AnswerConsentFacts DEF Placed, Erased, Kept, Orderly, Exchanging, OnScreen, Watched, Launched, Named, StoredIsIdentity, SignedIn, Watching, Launching, Acting, On
<1> QED
  BY <1>1, <1>2, <1>3, <1>4, <1>5, <1>6, <1>7 DEF Placed

LEMMA WithdrawConsentPlaced ==
    ASSUME Types, Waited, Orderly, Placed, NEW c \in Slots, withdrawConsent(c)
    PROVE  Placed'
<1>1. Exchanging'
  BY WithdrawConsentFacts DEF Placed, Exchanging, On, Kept, Orderly, OnScreen, Watched, Launched, Named, StoredIsIdentity, Erased, SignedIn, Watching, Launching, Acting
<1>2. OnScreen'
  BY WithdrawConsentFacts DEF Placed, OnScreen, SignedIn, Kept, Orderly, Exchanging, Watched, Launched, Named, StoredIsIdentity, Erased, Watching, Launching, Acting, On
<1>3. Watched'
  BY WithdrawConsentFacts DEF Placed, Watched, Watching, SignedIn, Kept, Orderly, Exchanging, OnScreen, Launched, Named, StoredIsIdentity, Erased, Launching, Acting, On
<1>4. Launched'
  BY WithdrawConsentFacts, SessionAssumption DEF Placed, Launched, Launching, SignedIn, Kept, Orderly, Exchanging, OnScreen, Watched, Named, StoredIsIdentity, Erased, Watching, Acting, On
<1>5. Named'
  BY WithdrawConsentFacts DEF Placed, Named, Acting, SignedIn, Kept, Orderly, Exchanging, OnScreen, Watched, Launched, StoredIsIdentity, Erased, Watching, Launching, On
<1>6. StoredIsIdentity'
  BY WithdrawConsentFacts DEF Placed, StoredIsIdentity, SignedIn, Kept, Orderly, Exchanging, OnScreen, Watched, Launched, Named, Erased, Watching, Launching, Acting, On
<1>7. Erased'
  BY WithdrawConsentFacts DEF Placed, Erased, Kept, Orderly, Exchanging, OnScreen, Watched, Launched, Named, StoredIsIdentity, SignedIn, Watching, Launching, Acting, On
<1> QED
  BY <1>1, <1>2, <1>3, <1>4, <1>5, <1>6, <1>7 DEF Placed

LEMMA BegunPlaced ==
    ASSUME Types, Waited, Orderly, Placed, NEW c \in Slots, signOut(c) \/ deleteAccount(c) \/ appleRevoked(c)
    PROVE  Placed'
<1>1. Exchanging'
  BY BegunFacts DEF Placed, Exchanging, On, Kept, SameManager, SameScreen, Orderly, OnScreen, Watched, Launched, Named, StoredIsIdentity, Erased, SignedIn, Watching, Launching, Acting
<1>2. OnScreen'
  BY BegunFacts DEF Placed, OnScreen, SignedIn, Kept, SameManager, SameScreen, Orderly, Exchanging, Watched, Launched, Named, StoredIsIdentity, Erased, Watching, Launching, Acting, On
<1>3. Watched'
  BY BegunFacts DEF Placed, Watched, Watching, SignedIn, Kept, SameManager, SameScreen, Orderly, Exchanging, OnScreen, Launched, Named, StoredIsIdentity, Erased, Launching, Acting, On
<1>4. Launched'
  BY BegunFacts, SessionAssumption DEF Placed, Launched, Launching, SignedIn, Kept, SameManager, SameScreen, Orderly, Exchanging, OnScreen, Watched, Named, StoredIsIdentity, Erased, Watching, Acting, On
<1>5. Named'
  BY BegunFacts DEF Placed, Named, Acting, SignedIn, Kept, SameManager, SameScreen, Orderly, Exchanging, OnScreen, Watched, Launched, StoredIsIdentity, Erased, Watching, Launching, On
<1>6. StoredIsIdentity'
  BY BegunFacts DEF Placed, StoredIsIdentity, SignedIn, Kept, SameManager, SameScreen, Orderly, Exchanging, OnScreen, Watched, Launched, Named, Erased, Watching, Launching, Acting, On
<1>7. Erased'
  BY BegunFacts DEF Placed, Erased, Kept, SameManager, SameScreen, Orderly, Exchanging, OnScreen, Watched, Launched, Named, StoredIsIdentity, SignedIn, Watching, Launching, Acting, On
<1> QED
  BY <1>1, <1>2, <1>3, <1>4, <1>5, <1>6, <1>7 DEF Placed

LEMMA LaunchedPlaced ==
    ASSUME Types, Waited, Orderly, Placed, NEW c \in Slots, start(c) \/ foreground(c)
    PROVE  Placed'
<1>1. Exchanging'
  BY LaunchedFacts DEF Placed, Exchanging, On, Kept, Orderly, OnScreen, Watched, Launched, Named, StoredIsIdentity, Erased, SignedIn, Watching, Launching, Acting
<1>2. OnScreen'
  BY LaunchedFacts DEF Placed, OnScreen, SignedIn, Kept, Orderly, Exchanging, Watched, Launched, Named, StoredIsIdentity, Erased, Watching, Launching, Acting, On
<1>3. Watched'
  BY LaunchedFacts DEF Placed, Watched, Watching, SignedIn, Kept, Orderly, Exchanging, OnScreen, Launched, Named, StoredIsIdentity, Erased, Launching, Acting, On
<1>4. Launched'
  BY LaunchedFacts, SessionAssumption DEF Placed, Launched, Launching, SignedIn, Kept, Orderly, Exchanging, OnScreen, Watched, Named, StoredIsIdentity, Erased, Watching, Acting, On
<1>5. Named'
  BY LaunchedFacts DEF Placed, Named, Acting, SignedIn, Kept, Orderly, Exchanging, OnScreen, Watched, Launched, StoredIsIdentity, Erased, Watching, Launching, On
<1>6. StoredIsIdentity'
  BY LaunchedFacts DEF Placed, StoredIsIdentity, SignedIn, Kept, Orderly, Exchanging, OnScreen, Watched, Launched, Named, Erased, Watching, Launching, Acting, On
<1>7. Erased'
  BY LaunchedFacts DEF Placed, Erased, Kept, Orderly, Exchanging, OnScreen, Watched, Launched, Named, StoredIsIdentity, SignedIn, Watching, Launching, Acting, On
<1> QED
  BY <1>1, <1>2, <1>3, <1>4, <1>5, <1>6, <1>7 DEF Placed

-----------------------------------------------------------------------------
(* Every local write finds its pass.                                         *)

\* A check for a question left open, and a pass that reads its token, are the
\* signed-in account's; no write waits for a pass that a deletion will not let start.
CheckedOwn == \A c \in Slots : call[c].pc \in CheckSteps /\ SignedIn => call[c].user = mgr.identity
PassOwn == pass.step = "token" => pass.user # NoUser /\ (SignedIn => pass.user = mgr.identity)
Settled == \A c \in Slots : call[c].pc \in {"reauth", "settle", "erase"} => ~Unserved

\* A write is due for a pass; what will read it: a pass, what a check or the
\* session's end does; or a foreground that will ask for a pass or end the session.
Due == Unserved /\ SignedIn /\ mgr.online /\ ~mgr.awaiting /\ ~pass.token
Reader == pass.step = "token" \/ (pass.step = "run" /\ pass.trailing) \/ Checking \/ Ending
Returning(c) == call[c].pc = "goneAuth" \/ (call[c].pc \in Watching /\ call[c].same)
Read == Due => Reader \/ \E c \in Slots : Returning(c)

Served == CheckedOwn /\ PassOwn /\ Settled /\ Read

\* A deletion in flight beside a due write will end the session.
LEMMA DeletingEnds ==
    ASSUME OnScreen, Settled, Unserved, SignedIn, Deleting
    PROVE  Ending
BY DEF OnScreen, Unserved, Settled, Deleting, DeletionSteps, Ending, Enders

LEMMA SyncReads ==
    ASSUME Types, Waited, mgr' \in Manager, OnScreen', Settled', NEW w \in SUBSET Slots, runSync(w)
    PROVE  Read'
<1> SUFFICES ASSUME Due' PROVE Reader'
  BY DEF Read
<1>1. CASE pass.step # "idle"
  <2>1. pass'.trailing /\ pass'.step \in {"token", "run"}
    BY <1>1, SyncFacts DEF Types, Passing
  <2> QED
    BY <2>1 DEF Reader
<1>2. CASE CanPass' /\ pass'.step = "token"
  BY <1>2 DEF Reader
<1>3. CASE ~CanPass'
  <2>1. Checking' \/ Deleting'
    BY <1>3 DEF CanPass, Unserved, Due, OnScreen, SignedIn
  <2>2. CASE Checking'
    BY <2>2 DEF Reader
  <2>3. CASE Deleting'
    <3>1. Ending'
      BY <2>3 DEF OnScreen, Unserved, Settled, Deleting, DeletionSteps, Ending, Enders, Due
    <3> QED
      BY <3>1 DEF Reader
  <2> QED
    BY <2>1, <2>2, <2>3
<1> QED
  BY <1>1, <1>2, <1>3, SyncFacts

LEMMA FollowReads ==
    ASSUME Types, Waited, OnScreen, Settled, Read,
           NEW token \in BOOLEAN, Follow(token), token \/ (token = pass.token /\ (pass.step = "run" \/ Deleting)),
           UNCHANGED <<mgr, ui, disk, hist>>,
           \A d \in Slots : call'[d].pc = call[d].pc /\ call'[d].same = call[d].same
    PROVE  Read'
<1> SUFFICES ASSUME Due' PROVE Reader' \/ \E d \in Slots : Returning(d)'
  BY DEF Read
<1>1. CASE pass.trailing /\ CanPass
  BY <1>1, FollowFacts DEF Reader
<1>2. CASE ~(pass.trailing /\ CanPass)
  <2>1. pass'.token = token /\ ~token /\ ~pass.token
    BY <1>2, FollowFacts DEF Unserved, Due
  <2>2. Due
    BY <2>1 DEF Unserved, Due, SignedIn
  <2>3. Ending' \/ Checking' <=> Ending \/ Checking
    BY DEF Ending, Checking
  <2>4. (\E d \in Slots : Returning(d)') <=> \E d \in Slots : Returning(d)
    BY DEF Returning
  <2>5. CASE Deleting
    BY <2>2, <2>3, <2>5, DeletingEnds DEF Unserved, Due, Reader
  <2>6. CASE pass.step = "run" /\ ~Deleting
    <3>1. ~pass.trailing \/ Checking
      BY <1>2, <2>2, <2>6 DEF CanPass, Unserved, Due, OnScreen, SignedIn
    <3>2. Checking \/ Ending \/ \E d \in Slots : Returning(d)
      BY <2>2, <2>6, <3>1 DEF Read, Reader
    <3> QED
      BY <2>3, <2>4, <3>2 DEF Reader
  <2> QED
    BY <2>1, <2>5, <2>6
<1> QED
  BY <1>1, <1>2

LEMMA SyncOwn ==
    ASSUME Types, Waited, mgr' \in Manager, PassOwn, NEW w \in SUBSET Slots, runSync(w),
           pass.step = "token" => mgr'.identity = mgr.identity
    PROVE  PassOwn'
BY SyncFacts DEF PassOwn, CanPass, SignedIn

LEMMA FollowOwn ==
    ASSUME Types, Waited, NEW token \in BOOLEAN, Follow(token), UNCHANGED mgr
    PROVE  PassOwn'
BY FollowFacts DEF PassOwn, CanPass, SignedIn

\* A call that reads no write goes on, and none becomes due.
LEMMA ReadKept ==
    ASSUME Read, NEW c \in Slots, Kept(c), Due' => Due,
           pass'.step = pass.step, pass'.trailing = pass.trailing,
           call[c].pc \notin CheckSteps \cup Enders, ~Returning(c)
    PROVE  Read'
<1> SUFFICES ASSUME Due PROVE Reader' \/ \E d \in Slots : Returning(d)'
  BY DEF Read
<1>1. CASE Checking
  BY <1>1 DEF Kept, Checking, Reader
<1>2. CASE Ending
  BY <1>2 DEF Kept, Ending, Reader
<1>3. CASE pass.step = "token" \/ (pass.step = "run" /\ pass.trailing)
  BY <1>3 DEF Reader
<1>4. CASE \E d \in Slots : Returning(d)
  <2>1. PICK d \in Slots : Returning(d)
    BY <1>4
  <2>2. d # c /\ call'[d] = call[d]
    BY <2>1 DEF Kept
  <2> QED
    BY <2>1, <2>2 DEF Returning
<1> QED
  BY <1>1, <1>2, <1>3, <1>4 DEF Read, Reader

LEMMA TokenReadServed ==
    ASSUME Types, Waited, Orderly, Placed, Served, TokenRead
    PROVE  Served'
<1>1. CheckedOwn'
  BY TokenReadFacts DEF Served, CheckedOwn, CheckSteps, SignedIn
<1>2. PassOwn'
  <2>1. pass.token \in BOOLEAN /\ UNCHANGED mgr
    BY TokenReadFacts DEF Types, Passing
  <2>2. CASE Follow(pass.token) \/ Follow(TRUE)
    BY <2>1, <2>2, FollowOwn
  <2>3. CASE pass'.step = "run"
    BY <2>3 DEF PassOwn
  <2> QED
    BY <2>2, <2>3, TokenReadFacts
<1>3. Settled'
  BY TokenReadFacts DEF Served, Unserved, Settled
<1>4. Read'
  <2>1. \A d \in Slots : call'[d].pc = call[d].pc /\ call'[d].same = call[d].same
    BY TokenReadFacts
  <2>2. CASE Follow(pass.token) /\ Deleting /\ hist' = hist
    <3>1. pass.token \in BOOLEAN
      BY DEF Types, Passing
    <3> QED
      BY <2>1, <2>2, <3>1, TokenReadFacts, FollowReads DEF Placed, Served
  <2>3. CASE Follow(TRUE) /\ hist' = hist
    BY <2>1, <2>3, TokenReadFacts, FollowReads DEF Placed, Served
  <2>4. CASE ~Unserved'
    BY <2>4 DEF Read, Unserved, Due
  <2>5. CASE mgr.identity # pass.user
    BY <2>5, TokenReadFacts DEF Served, PassOwn, SignedIn, Read, Unserved, Due
  <2> QED
    BY <2>2, <2>3, <2>4, <2>5, TokenReadFacts
<1> QED
  BY <1>1, <1>2, <1>3, <1>4 DEF Served

LEMMA RunEndsServed ==
    ASSUME Types, Waited, Orderly, Placed, Served, RunEnds
    PROVE  Served'
<1>1. CheckedOwn'
  BY RunEndsFacts DEF Served, CheckedOwn, CheckSteps, SignedIn
<1>2. PassOwn'
  <2>1. pass.token \in BOOLEAN
    BY DEF Types, Passing
  <2> QED
    BY <2>1, RunEndsFacts, FollowOwn
<1>3. Settled'
  BY RunEndsFacts DEF Served, Unserved, Settled
<1>4. Read'
  <2>1. pass.token \in BOOLEAN
    BY DEF Types, Passing
  <2> QED
    BY <2>1, RunEndsFacts, FollowReads DEF Placed, Served
<1> QED
  BY <1>1, <1>2, <1>3, <1>4 DEF Served

LEMMA AskingServed ==
    ASSUME Types, Waited, Orderly, Placed, Served, localWrite \/ tokenRefreshed \/ setOnline
    PROVE  Served'
<1>1. CheckedOwn'
  BY AskingFacts DEF Served, CheckedOwn, CheckSteps, SignedIn
<1>2. PassOwn'
  <2>1. mgr' \in Manager /\ {} \in SUBSET Slots /\ mgr'.identity = mgr.identity
    BY AskingFacts DEF Types
  <2>2. CASE runSync({})
    BY <2>1, <2>2, SyncOwn DEF Served
  <2>3. CASE ~runSync({})
    BY <2>1, <2>3, AskingFacts DEF Served, PassOwn, SignedIn
  <2> QED
    BY <2>2, <2>3
<1>3. Settled'
  <2>1. call' = call
    BY AskingFacts
  <2>2. CASE hist' = hist \/ ~Unserved'
    BY <2>1, <2>2 DEF Served, Unserved, Settled
  <2>3. CASE ~Deleting
    BY <2>1, <2>3 DEF Unserved, Settled, Deleting, DeletionSteps
  <2> QED
    BY <2>2, <2>3, AskingFacts
<1>4. Read'
  <2>1. mgr' \in Manager /\ OnScreen' /\ {} \in SUBSET Slots
    BY AskingFacts, AskingPlaced DEF Types, Placed
  <2>2. CASE runSync({})
    BY <1>3, <2>1, <2>2, SyncReads
  <2>3. CASE ~runSync({})
    BY <2>3, AskingFacts DEF Served, Read, Unserved, Due, Reader, Returning, Checking, Ending, Enders, CheckSteps, Watching, SignedIn
  <2> QED
    BY <2>2, <2>3
<1> QED
  BY <1>1, <1>2, <1>3, <1>4 DEF Served

LEMMA ScreensServed ==
    ASSUME Types, Waited, Orderly, Placed, Served, openSignIn \/ openConsent
    PROVE  Served'
<1>1. CheckedOwn'
  BY ScreenFacts DEF Served, CheckedOwn, CheckSteps, SignedIn, Kept
<1>2. PassOwn'
  BY ScreenFacts DEF Served, PassOwn, SignedIn, Kept
<1>3. Settled'
  BY ScreenFacts DEF Served, Unserved, Settled, Kept
<1>4. Read'
  BY ScreenFacts DEF Served, Read, Unserved, Due, Reader, Returning, Checking, Ending, Enders, CheckSteps, Watching, SignedIn, Kept
<1> QED
  BY <1>1, <1>2, <1>3, <1>4 DEF Served

LEMMA KilledServed ==
    ASSUME Types, Waited, Orderly, Placed, Served, Killed
    PROVE  Served'
<1>1. CheckedOwn'
  BY KilledFacts DEF Served, CheckedOwn, CheckSteps, SignedIn, Fresh, NoCall, NoPass, SignedOut
<1>2. PassOwn'
  BY KilledFacts, ConstantFacts DEF Served, PassOwn, SignedIn, Fresh, NoCall, NoPass, SignedOut
<1>3. Settled'
  BY KilledFacts DEF Served, Unserved, Settled, Fresh, NoCall, NoPass, SignedOut
<1>4. Read'
  BY KilledFacts DEF Served, Read, Unserved, Due, Reader, Returning, Checking, Ending, Enders, CheckSteps, Watching, SignedIn, Fresh, NoCall, NoPass, SignedOut
<1> QED
  BY <1>1, <1>2, <1>3, <1>4 DEF Served

LEMMA ResumedServed ==
    ASSUME Types, Waited, Orderly, Placed, Served, NEW c \in Slots, PassAwaited(c) \/ LastPassEnded(c) \/ GoneWaited(c) \/ passesSettled(c)
    PROVE  Served'
<1>1. CheckedOwn'
  BY ResumedFacts DEF Served, CheckedOwn, CheckSteps, SignedIn, Kept
<1>2. PassOwn'
  BY ResumedFacts DEF Served, PassOwn, SignedIn, Kept
<1>3. Settled'
  BY ResumedFacts DEF Served, Unserved, Settled, Kept
<1>4. Read'
  BY ResumedFacts DEF Served, Read, Unserved, Due, Reader, Returning, Checking, Ending, Enders, CheckSteps, Watching, SignedIn, Kept
<1> QED
  BY <1>1, <1>2, <1>3, <1>4 DEF Served

LEMMA SignInFinishedServed ==
    ASSUME Types, Waited, Orderly, Placed, Served, NEW c \in Slots, SignInFinished(c)
    PROVE  Served'
<1>1. CheckedOwn'
  BY SignInFinishedFacts DEF Served, CheckedOwn, CheckSteps, SignedIn, Kept
<1>2. PassOwn'
  BY SignInFinishedFacts DEF Served, PassOwn, SignedIn, Kept
<1>3. Settled'
  BY SignInFinishedFacts DEF Served, Unserved, Settled, Kept
<1>4. Read'
  BY SignInFinishedFacts DEF Served, Read, Unserved, Due, Reader, Returning, Checking, Ending, Enders, CheckSteps, Watching, SignedIn, Kept
<1> QED
  BY <1>1, <1>2, <1>3, <1>4 DEF Served

LEMMA EndWaitedServed ==
    ASSUME Types, Waited, Orderly, Placed, Served, NEW c \in Slots, EndWaited(c)
    PROVE  Served'
<1>1. CheckedOwn'
  BY EndWaitedFacts DEF Served, CheckedOwn, CheckSteps, SignedIn, Kept
<1>2. PassOwn'
  <2>1. mgr' \in Manager /\ {c} \in SUBSET Slots /\ mgr'.identity = mgr.identity
    BY EndWaitedFacts DEF Types
  <2>2. CASE runSync({c})
    BY <2>1, <2>2, SyncOwn DEF Served
  <2>3. CASE ~runSync({c})
    BY <2>1, <2>3, EndWaitedFacts DEF Served, PassOwn, SignedIn
  <2> QED
    BY <2>2, <2>3
<1>3. Settled'
  BY EndWaitedFacts DEF Served, Unserved, Settled, Kept
<1>4. Read'
  <2>1. mgr' \in Manager /\ OnScreen' /\ {c} \in SUBSET Slots
    BY EndWaitedFacts, EndWaitedPlaced DEF Types, Placed
  <2>2. CASE runSync({c})
    BY <1>3, <2>1, <2>2, SyncReads
  <2>3. CASE ~runSync({c})
    BY <2>3, EndWaitedFacts DEF Served, Read, Unserved, Due, Reader, Returning, Checking, Ending, Enders, CheckSteps, Watching, SignedIn, Kept
  <2> QED
    BY <2>2, <2>3
<1> QED
  BY <1>1, <1>2, <1>3, <1>4 DEF Served

LEMMA RevokeWaitedServed ==
    ASSUME Types, Waited, Orderly, Placed, Served, NEW c \in Slots, RevokeWaited(c)
    PROVE  Served'
<1>1. CheckedOwn'
  BY RevokeWaitedFacts DEF Served, CheckedOwn, CheckSteps, SignedIn, Kept, SameManager, SameScreen
<1>2. PassOwn'
  BY RevokeWaitedFacts DEF Served, PassOwn, SignedIn, Kept, SameManager, SameScreen
<1>3. Settled'
  BY RevokeWaitedFacts DEF Served, Unserved, Settled, Kept, SameManager, SameScreen
<1>4. Read'
  BY RevokeWaitedFacts DEF Served, Read, Unserved, Due, Reader, Returning, Checking, Ending, Enders, CheckSteps, Watching, SignedIn, Kept, SameManager, SameScreen
<1> QED
  BY <1>1, <1>2, <1>3, <1>4 DEF Served

LEMMA ForgetServed ==
    ASSUME Types, Waited, Orderly, Placed, Served, NEW c \in Slots, Deleted(c) \/ SignedOutOfAuth(c) \/ GoneFromAuth(c)
    PROVE  Served'
<1>1. CheckedOwn'
  BY ForgetFacts DEF Served, CheckedOwn, CheckSteps, SignedIn, Unseen, SameScreen, Orderly, Placed, OnScreen, Watched, Launched, Launching
<1>2. PassOwn'
  BY ForgetFacts DEF Served, PassOwn, SignedIn, Unseen, SameScreen, Orderly, Placed, OnScreen, Watched, Launched, Launching
<1>3. Settled'
  BY ForgetFacts DEF Served, Unserved, Settled, Unseen, SameScreen, Orderly, Placed, OnScreen, Watched, Launched, Launching
<1>4. Read'
  BY ForgetFacts DEF Served, Read, Unserved, Due, Reader, Returning, Checking, Ending, Enders, CheckSteps, Watching, SignedIn, Unseen, SameScreen, Orderly, Placed, OnScreen, Watched, Launched, Launching
<1> QED
  BY <1>1, <1>2, <1>3, <1>4 DEF Served

LEMMA ForgottenServed ==
    ASSUME Types, Waited, Orderly, Placed, Served, NEW c \in Slots, Forgotten(c)
    PROVE  Served'
<1>1. CheckedOwn'
  BY ForgottenFacts DEF Served, CheckedOwn, CheckSteps, SignedIn, Kept
<1>2. PassOwn'
  BY ForgottenFacts DEF Served, PassOwn, SignedIn, Kept
<1>3. Settled'
  BY ForgottenFacts DEF Served, Unserved, Settled, Kept
<1>4. Read'
  BY ForgottenFacts DEF Served, Read, Unserved, Due, Reader, Returning, Checking, Ending, Enders, CheckSteps, Watching, SignedIn, Kept
<1> QED
  BY <1>1, <1>2, <1>3, <1>4 DEF Served

LEMMA DeletionServed ==
    ASSUME Types, Waited, Orderly, Placed, Served, NEW c \in Slots, Reauthorized(c) \/ DeletionFailed(c) \/ RetryFailed(c) \/ HoldsRead(c)
    PROVE  Served'
<1>1. CheckedOwn'
  BY DeletionFacts DEF Served, CheckedOwn, CheckSteps, SignedIn, Kept, SameManager, SameScreen
<1>2. PassOwn'
  BY DeletionFacts DEF Served, PassOwn, SignedIn, Kept, SameManager, SameScreen
<1>3. Settled'
  BY DeletionFacts DEF Served, Unserved, Settled, Kept, SameManager, SameScreen
<1>4. Read'
  BY DeletionFacts DEF Served, Read, Unserved, Due, Reader, Returning, Checking, Ending, Enders, CheckSteps, Watching, SignedIn, Kept, SameManager, SameScreen
<1> QED
  BY <1>1, <1>2, <1>3, <1>4 DEF Served

LEMMA ExchangeEndsServed ==
    ASSUME Types, Waited, Orderly, Placed, Served, NEW c \in Slots, ExchangeFails(c) \/ ExchangeAbandoned(c)
    PROVE  Served'
<1>1. CheckedOwn'
  BY ExchangeEndsFacts DEF Served, CheckedOwn, CheckSteps, SignedIn, Kept, SameScreen
<1>2. PassOwn'
  BY ExchangeEndsFacts DEF Served, PassOwn, SignedIn, Kept, SameScreen
<1>3. Settled'
  BY ExchangeEndsFacts DEF Served, Unserved, Settled, Kept, SameScreen
<1>4. Read'
  <2>1. Due' => Due
    BY ExchangeEndsFacts DEF Unserved, Due, SignedIn
  <2>2. call[c].pc \notin CheckSteps \cup Enders /\ ~Returning(c)
    BY ExchangeEndsFacts DEF CheckSteps, Enders, Returning, Watching
  <2> QED
    BY <2>1, <2>2, ExchangeEndsFacts, ReadKept DEF Served
<1> QED
  BY <1>1, <1>2, <1>3, <1>4 DEF Served

LEMMA OrphanDroppedServed ==
    ASSUME Types, Waited, Orderly, Placed, Served, NEW c \in Slots, OrphanDropped(c)
    PROVE  Served'
<1>1. CheckedOwn'
  BY OrphanDroppedFacts DEF Served, CheckedOwn, CheckSteps, SignedIn, Kept, SameScreen
<1>2. PassOwn'
  BY OrphanDroppedFacts DEF Served, PassOwn, SignedIn, Kept, SameScreen
<1>3. Settled'
  BY OrphanDroppedFacts DEF Served, Unserved, Settled, Kept, SameScreen
<1>4. Read'
  BY OrphanDroppedFacts DEF Served, Read, Unserved, Due, Reader, Returning, Checking, Ending, Enders, CheckSteps, Watching, SignedIn, Kept, SameScreen
<1> QED
  BY <1>1, <1>2, <1>3, <1>4 DEF Served

LEMMA ExchangeAdoptedServed ==
    ASSUME Types, Waited, Orderly, Placed, Served, NEW c \in Slots, ExchangeAdopted(c)
    PROVE  Served'
<1>1. CheckedOwn'
  BY ExchangeAdoptedFacts DEF Served, CheckedOwn, CheckSteps, SignedIn, Unseen, Orderly, Placed, OnScreen, Watched, Launched, Launching
<1>2. PassOwn'
  BY ExchangeAdoptedFacts DEF Served, PassOwn, SignedIn, Unseen, Orderly, Placed, OnScreen, Watched, Launched, Launching
<1>3. Settled'
  BY ExchangeAdoptedFacts DEF Served, Unserved, Settled, Unseen, Orderly, Placed, OnScreen, Watched, Launched, Launching
<1>4. Read'
  BY ExchangeAdoptedFacts DEF Served, Read, Unserved, Due, Reader, Returning, Checking, Ending, Enders, CheckSteps, Watching, SignedIn, Unseen, Orderly, Placed, OnScreen, Watched, Launched, Launching
<1> QED
  BY <1>1, <1>2, <1>3, <1>4 DEF Served

LEMMA ConsentReadServed ==
    ASSUME Types, Waited, Orderly, Placed, Served, NEW c \in Slots, ConsentRead(c)
    PROVE  Served'
<1>1. CheckedOwn'
  BY ConsentReadFacts DEF Served, CheckedOwn, CheckSteps, SignedIn, Kept
<1>2. PassOwn'
  <2>1. mgr' \in Manager /\ {c} \in SUBSET Slots /\ mgr'.identity = mgr.identity
    BY ConsentReadFacts DEF Types
  <2>2. CASE runSync({c})
    BY <2>1, <2>2, SyncOwn DEF Served
  <2>3. CASE ~runSync({c})
    BY <2>1, <2>3, ConsentReadFacts DEF Served, PassOwn, SignedIn
  <2> QED
    BY <2>2, <2>3
<1>3. Settled'
  BY ConsentReadFacts DEF Served, Unserved, Settled, Kept
<1>4. Read'
  <2>1. mgr' \in Manager /\ OnScreen' /\ {c} \in SUBSET Slots
    BY ConsentReadFacts, ConsentReadPlaced DEF Types, Placed
  <2>2. CASE runSync({c})
    BY <1>3, <2>1, <2>2, SyncReads
  <2>3. CASE ~runSync({c})
    BY <2>3, ConsentReadFacts DEF Served, Read, Unserved, Due, Reader, Returning, Checking, Ending, Enders, CheckSteps, Watching, SignedIn, Kept
  <2> QED
    BY <2>2, <2>3
<1> QED
  BY <1>1, <1>2, <1>3, <1>4 DEF Served

LEMMA QuestionShownServed ==
    ASSUME Types, Waited, Orderly, Placed, Served, NEW c \in Slots, QuestionShown(c)
    PROVE  Served'
<1>1. CheckedOwn'
  BY QuestionShownFacts DEF Served, CheckedOwn, CheckSteps, SignedIn, Kept
<1>2. PassOwn'
  BY QuestionShownFacts DEF Served, PassOwn, SignedIn, Kept
<1>3. Settled'
  BY QuestionShownFacts DEF Served, Unserved, Settled, Kept
<1>4. Read'
  BY QuestionShownFacts DEF Served, Read, Unserved, Due, Reader, Returning, Checking, Ending, Enders, CheckSteps, Watching, SignedIn, Kept
<1> QED
  BY <1>1, <1>2, <1>3, <1>4 DEF Served

LEMMA ConsentGivenServed ==
    ASSUME Types, Waited, Orderly, Placed, Served, NEW c \in Slots, ConsentGiven(c)
    PROVE  Served'
<1>1. CheckedOwn'
  BY ConsentGivenFacts DEF Served, CheckedOwn, CheckSteps, SignedIn, Kept
<1>2. PassOwn'
  <2>1. mgr' \in Manager /\ {c} \in SUBSET Slots /\ mgr'.identity = mgr.identity
    BY ConsentGivenFacts DEF Types
  <2>2. CASE runSync({c})
    BY <2>1, <2>2, SyncOwn DEF Served
  <2>3. CASE ~runSync({c})
    BY <2>1, <2>3, ConsentGivenFacts DEF Served, PassOwn, SignedIn
  <2> QED
    BY <2>2, <2>3
<1>3. Settled'
  BY ConsentGivenFacts DEF Served, Unserved, Settled, Kept
<1>4. Read'
  <2>1. mgr' \in Manager /\ OnScreen' /\ {c} \in SUBSET Slots
    BY ConsentGivenFacts, ConsentGivenPlaced DEF Types, Placed
  <2>2. CASE runSync({c})
    BY <1>3, <2>1, <2>2, SyncReads
  <2>3. CASE ~runSync({c})
    BY <2>3, ConsentGivenFacts DEF Served, Read, Unserved, Due, Reader, Returning, Checking, Ending, Enders, CheckSteps, Watching, SignedIn, Kept
  <2> QED
    BY <2>2, <2>3
<1> QED
  BY <1>1, <1>2, <1>3, <1>4 DEF Served

LEMMA QuestionSettledServed ==
    ASSUME Types, Waited, Orderly, Placed, Served, NEW c \in Slots, QuestionSettled(c)
    PROVE  Served'
<1>1. CheckedOwn'
  BY QuestionSettledFacts DEF Served, CheckedOwn, CheckSteps, SignedIn, Kept
<1>2. PassOwn'
  <2>1. mgr' \in Manager /\ {c} \in SUBSET Slots /\ mgr'.identity = mgr.identity
    BY QuestionSettledFacts DEF Types
  <2>2. CASE runSync({c})
    BY <2>1, <2>2, SyncOwn DEF Served
  <2>3. CASE ~runSync({c})
    BY <2>1, <2>3, QuestionSettledFacts DEF Served, PassOwn, SignedIn
  <2> QED
    BY <2>2, <2>3
<1>3. Settled'
  BY QuestionSettledFacts DEF Served, Unserved, Settled, Kept
<1>4. Read'
  <2>1. mgr' \in Manager /\ OnScreen' /\ {c} \in SUBSET Slots
    BY QuestionSettledFacts, QuestionSettledPlaced DEF Types, Placed
  <2>2. CASE runSync({c})
    BY <1>3, <2>1, <2>2, SyncReads
  <2>3. CASE ~runSync({c})
    <3>1. Due' => Due
      BY <2>3, QuestionSettledFacts DEF Unserved, Due, SignedIn
    <3>2. call[c].pc \notin CheckSteps \cup Enders /\ ~Returning(c)
      BY QuestionSettledFacts DEF CheckSteps, Enders, Returning, Watching
    <3> QED
      BY <2>3, <3>1, <3>2, QuestionSettledFacts, ReadKept DEF Served
  <2> QED
    BY <2>2, <2>3
<1> QED
  BY <1>1, <1>2, <1>3, <1>4 DEF Served

LEMMA ConsentWithdrawnServed ==
    ASSUME Types, Waited, Orderly, Placed, Served, NEW c \in Slots, ConsentWithdrawn(c)
    PROVE  Served'
<1>1. CheckedOwn'
  BY ConsentWithdrawnFacts DEF Served, CheckedOwn, CheckSteps, SignedIn, Kept
<1>2. PassOwn'
  <2>1. mgr' \in Manager /\ {c} \in SUBSET Slots /\ mgr'.identity = mgr.identity
    BY ConsentWithdrawnFacts DEF Types
  <2>2. CASE runSync({c})
    BY <2>1, <2>2, SyncOwn DEF Served
  <2>3. CASE ~runSync({c})
    BY <2>1, <2>3, ConsentWithdrawnFacts DEF Served, PassOwn, SignedIn
  <2> QED
    BY <2>2, <2>3
<1>3. Settled'
  BY ConsentWithdrawnFacts DEF Served, Unserved, Settled, Kept
<1>4. Read'
  <2>1. mgr' \in Manager /\ OnScreen' /\ {c} \in SUBSET Slots
    BY ConsentWithdrawnFacts, ConsentWithdrawnPlaced DEF Types, Placed
  <2>2. CASE runSync({c})
    BY <1>3, <2>1, <2>2, SyncReads
  <2>3. CASE ~runSync({c})
    BY <2>3, ConsentWithdrawnFacts DEF Served, Read, Unserved, Due, Reader, Returning, Checking, Ending, Enders, CheckSteps, Watching, SignedIn, Kept
  <2> QED
    BY <2>2, <2>3
<1> QED
  BY <1>1, <1>2, <1>3, <1>4 DEF Served

LEMMA SessionReadServed ==
    ASSUME Types, Waited, Orderly, Placed, Served, NEW c \in Slots, SessionRead(c)
    PROVE  Served'
<1>1. CheckedOwn'
  BY SessionReadFacts DEF Served, CheckedOwn, CheckSteps, SignedIn, Kept, Unseen, Orderly, Placed, OnScreen, Watched, Launched, Launching
<1>2. PassOwn'
  BY SessionReadFacts DEF Served, PassOwn, SignedIn, Kept, Unseen, Orderly, Placed, OnScreen, Watched, Launched, Launching
<1>3. Settled'
  BY SessionReadFacts DEF Served, Unserved, Settled, Kept, Unseen, Orderly, Placed, OnScreen, Watched, Launched, Launching
<1>4. Read'
  BY SessionReadFacts DEF Served, Read, Unserved, Due, Reader, Returning, Checking, Ending, Enders, CheckSteps, Watching, SignedIn, Kept, Unseen, Orderly, Placed, OnScreen, Watched, Launched, Launching
<1> QED
  BY <1>1, <1>2, <1>3, <1>4 DEF Served

LEMMA RefreshedServed ==
    ASSUME Types, Waited, Orderly, Placed, Served, NEW c \in Slots, Refreshed(c)
    PROVE  Served'
<1>1. CheckedOwn'
  BY RefreshedFacts DEF Served, CheckedOwn, CheckSteps, SignedIn, Kept
<1>2. PassOwn'
  BY RefreshedFacts DEF Served, PassOwn, SignedIn, Kept
<1>3. Settled'
  BY RefreshedFacts DEF Served, Unserved, Settled, Kept
<1>4. Read'
  <2>1. CASE ~Unserved'
    BY <2>1 DEF Read, Due
  <2>2. CASE ~call[c].same /\ hist' = hist /\ call'[c].pc = "idle"
    <3>1. call[c].pc \notin CheckSteps \cup Enders /\ ~Returning(c)
      BY <2>2, RefreshedFacts DEF CheckSteps, Enders, Returning, Watching
    <3>2. Kept(c) /\ UNCHANGED <<mgr, pass>>
      BY RefreshedFacts
    <3>3. Due' => Due
      BY <2>2, <3>2 DEF Unserved, Due, SignedIn
    <3> QED
      BY <3>1, <3>2, <3>3, ReadKept DEF Served
  <2>3. CASE call'[c].pc \in Watching /\ call'[c].same
    BY <2>3 DEF Read, Returning
  <2> QED
    BY <2>1, <2>2, <2>3, RefreshedFacts DEF Watching
<1> QED
  BY <1>1, <1>2, <1>3, <1>4 DEF Served

LEMMA AppleAskedServed ==
    ASSUME Types, Waited, Orderly, Placed, Served, NEW c \in Slots, AppleAsked(c)
    PROVE  Served'
<1>1. CheckedOwn'
  <2> SUFFICES ASSUME NEW d \in Slots, call'[d].pc \in CheckSteps, SignedIn'
               PROVE  call'[d].user = mgr'.identity
    BY DEF CheckedOwn
  <2>1. CASE UNCHANGED mgr /\ Kept(c) /\ call'[c].pc = "idle"
    BY <2>1 DEF Served, CheckedOwn, CheckSteps, Kept, SignedIn
  <2>2. CASE /\ call[c].pc = "appleLaunch" \/ call[c].same
           /\ mgr'.identity = call[c].user /\ call'[c].user = call[c].user /\ Unseen(c)
    <3>1. CASE d = c
      BY <2>2, <3>1
    <3>2. CASE d # c
      <4>1. call'[d].pc = call[d].pc /\ call'[d].user = call[d].user
        BY <2>2, <3>2 DEF Unseen
      <4>2. call[c].pc = "apple" /\ call[c].same
        BY <2>2, <3>2, <4>1, AppleAskedFacts DEF Placed, Launched, Launching, CheckSteps
      <4> QED
        BY <2>2, <4>1, <4>2 DEF Placed, Watched, Watching, Served, CheckedOwn, SignedIn
    <3> QED
      BY <3>1, <3>2
  <2> QED
    BY <2>1, <2>2, AppleAskedFacts
<1>2. PassOwn'
  <2>1. mgr' \in Manager /\ {c} \in SUBSET Slots
    BY AppleAskedFacts DEF Types
  <2>2. pass.step = "token" => mgr'.identity = mgr.identity
    BY AppleAskedFacts DEF Placed, Launched, Launching, Watched, Watching
  <2>3. CASE runSync({c})
    BY <2>1, <2>2, <2>3, SyncOwn DEF Served
  <2>4. CASE pass' = pass
    BY <2>2, <2>4 DEF Served, PassOwn, SignedIn
  <2> QED
    BY <2>3, <2>4, AppleAskedFacts
<1>3. Settled'
  BY AppleAskedFacts DEF Served, Unserved, Settled, Kept, Unseen, Orderly, Placed, OnScreen, Watched, Launched, Launching
<1>4. Read'
  <2>1. mgr' \in Manager /\ OnScreen' /\ {c} \in SUBSET Slots
    BY AppleAskedFacts, AppleAskedPlaced DEF Types, Placed
  <2>2. CASE runSync({c})
    BY <1>3, <2>1, <2>2, SyncReads
  <2>3. CASE ~runSync({c})
    BY <2>3, AppleAskedFacts DEF Served, Read, Unserved, Due, Reader, Returning, Checking, Ending, Enders, CheckSteps, Watching, SignedIn, Kept, Unseen, Orderly, Placed, OnScreen, Watched, Launched, Launching
  <2> QED
    BY <2>2, <2>3
<1> QED
  BY <1>1, <1>2, <1>3, <1>4 DEF Served

LEMMA MarkReadServed ==
    ASSUME Types, Waited, Orderly, Placed, Served, NEW c \in Slots, MarkRead(c)
    PROVE  Served'
<1>1. CheckedOwn'
  BY MarkReadFacts DEF Served, CheckedOwn, CheckSteps, SignedIn, Kept
<1>2. PassOwn'
  <2>1. mgr' \in Manager /\ {c} \in SUBSET Slots /\ mgr'.identity = mgr.identity
    BY MarkReadFacts DEF Types
  <2>2. CASE runSync({c})
    BY <2>1, <2>2, SyncOwn DEF Served
  <2>3. CASE ~runSync({c})
    BY <2>1, <2>3, MarkReadFacts DEF Served, PassOwn, SignedIn
  <2> QED
    BY <2>2, <2>3
<1>3. Settled'
  BY MarkReadFacts DEF Served, Unserved, Settled, Kept
<1>4. Read'
  <2>1. mgr' \in Manager /\ OnScreen' /\ {c} \in SUBSET Slots
    BY MarkReadFacts, MarkReadPlaced DEF Types, Placed
  <2>2. CASE runSync({c})
    BY <1>3, <2>1, <2>2, SyncReads
  <2>3. CASE ~runSync({c})
    BY <2>3, MarkReadFacts DEF Served, Read, Unserved, Due, Reader, Returning, Checking, Ending, Enders, CheckSteps, Watching, SignedIn, Kept
  <2> QED
    BY <2>2, <2>3
<1> QED
  BY <1>1, <1>2, <1>3, <1>4 DEF Served

LEMMA CheckReadServed ==
    ASSUME Types, Waited, Orderly, Placed, Served, NEW c \in Slots, CheckRead(c)
    PROVE  Served'
<1>1. CheckedOwn'
  BY CheckReadFacts DEF Served, CheckedOwn, CheckSteps, SignedIn, Kept
<1>2. PassOwn'
  <2>1. mgr' \in Manager /\ {c} \in SUBSET Slots /\ mgr'.identity = mgr.identity
    BY CheckReadFacts DEF Types
  <2>2. CASE runSync({c})
    BY <2>1, <2>2, SyncOwn DEF Served
  <2>3. CASE ~runSync({c})
    BY <2>1, <2>3, CheckReadFacts DEF Served, PassOwn, SignedIn
  <2> QED
    BY <2>2, <2>3
<1>3. Settled'
  BY CheckReadFacts DEF Served, Unserved, Settled, Kept
<1>4. Read'
  <2>1. mgr' \in Manager /\ OnScreen' /\ {c} \in SUBSET Slots
    BY CheckReadFacts, CheckReadPlaced DEF Types, Placed
  <2>2. CASE runSync({c})
    BY <1>3, <2>1, <2>2, SyncReads
  <2>3. CASE ~runSync({c})
    <3>1. CASE mgr.identity # call[c].user /\ UNCHANGED mgr
      <4>1. ~SignedIn'
        BY <3>1, CheckReadFacts DEF Served, CheckedOwn, CheckSteps, SignedIn
      <4> QED
        BY <4>1 DEF Read, Unserved, Due
    <3>2. CASE mgr'.awaiting
      BY <3>2 DEF Read, Unserved, Due
    <3> QED
      BY <2>3, <3>1, <3>2, CheckReadFacts
  <2> QED
    BY <2>2, <2>3
<1> QED
  BY <1>1, <1>2, <1>3, <1>4 DEF Served

LEMMA SignInServed ==
    ASSUME Types, Waited, Orderly, Placed, Served, NEW c \in Slots, signIn(c)
    PROVE  Served'
<1>1. CheckedOwn'
  BY SignInFacts DEF Served, CheckedOwn, CheckSteps, SignedIn, Kept, SameScreen, Orderly, Placed, OnScreen, Watched, Launched, Launching
<1>2. PassOwn'
  BY SignInFacts DEF Served, PassOwn, SignedIn, Kept, SameScreen, Orderly, Placed, OnScreen, Watched, Launched, Launching
<1>3. Settled'
  BY SignInFacts DEF Served, Unserved, Settled, Kept, SameScreen, Orderly, Placed, OnScreen, Watched, Launched, Launching
<1>4. Read'
  BY SignInFacts DEF Served, Read, Unserved, Due, Reader, Returning, Checking, Ending, Enders, CheckSteps, Watching, SignedIn, Kept, SameScreen, Orderly, Placed, OnScreen, Watched, Launched, Launching
<1> QED
  BY <1>1, <1>2, <1>3, <1>4 DEF Served

LEMMA CloseSheetServed ==
    ASSUME Types, Waited, Orderly, Placed, Served, NEW c \in Slots, closeSheet(c)
    PROVE  Served'
<1>1. CheckedOwn'
  BY CloseSheetFacts DEF Served, CheckedOwn, CheckSteps, SignedIn, Kept
<1>2. PassOwn'
  BY CloseSheetFacts DEF Served, PassOwn, SignedIn, Kept
<1>3. Settled'
  BY CloseSheetFacts DEF Served, Unserved, Settled, Kept
<1>4. Read'
  BY CloseSheetFacts DEF Served, Read, Unserved, Due, Reader, Returning, Checking, Ending, Enders, CheckSteps, Watching, SignedIn, Kept
<1> QED
  BY <1>1, <1>2, <1>3, <1>4 DEF Served

LEMMA AnswerConsentServed ==
    ASSUME Types, Waited, Orderly, Placed, Served, NEW c \in Slots, answerConsent(c)
    PROVE  Served'
<1>1. CheckedOwn'
  BY AnswerConsentFacts DEF Served, CheckedOwn, CheckSteps, SignedIn, Kept
<1>2. PassOwn'
  BY AnswerConsentFacts DEF Served, PassOwn, SignedIn, Kept
<1>3. Settled'
  BY AnswerConsentFacts DEF Served, Unserved, Settled, Kept
<1>4. Read'
  BY AnswerConsentFacts DEF Served, Read, Unserved, Due, Reader, Returning, Checking, Ending, Enders, CheckSteps, Watching, SignedIn, Kept
<1> QED
  BY <1>1, <1>2, <1>3, <1>4 DEF Served

LEMMA WithdrawConsentServed ==
    ASSUME Types, Waited, Orderly, Placed, Served, NEW c \in Slots, withdrawConsent(c)
    PROVE  Served'
<1>1. CheckedOwn'
  BY WithdrawConsentFacts DEF Served, CheckedOwn, CheckSteps, SignedIn, Kept
<1>2. PassOwn'
  BY WithdrawConsentFacts DEF Served, PassOwn, SignedIn, Kept
<1>3. Settled'
  BY WithdrawConsentFacts DEF Served, Unserved, Settled, Kept
<1>4. Read'
  BY WithdrawConsentFacts DEF Served, Read, Unserved, Due, Reader, Returning, Checking, Ending, Enders, CheckSteps, Watching, SignedIn, Kept
<1> QED
  BY <1>1, <1>2, <1>3, <1>4 DEF Served

LEMMA BegunServed ==
    ASSUME Types, Waited, Orderly, Placed, Served, NEW c \in Slots, signOut(c) \/ deleteAccount(c) \/ appleRevoked(c)
    PROVE  Served'
<1>1. CheckedOwn'
  BY BegunFacts DEF Served, CheckedOwn, CheckSteps, SignedIn, Kept, SameManager, SameScreen
<1>2. PassOwn'
  BY BegunFacts DEF Served, PassOwn, SignedIn, Kept, SameManager, SameScreen
<1>3. Settled'
  BY BegunFacts DEF Served, Unserved, Settled, Kept, SameManager, SameScreen
<1>4. Read'
  BY BegunFacts DEF Served, Read, Unserved, Due, Reader, Returning, Checking, Ending, Enders, CheckSteps, Watching, SignedIn, Kept, SameManager, SameScreen
<1> QED
  BY <1>1, <1>2, <1>3, <1>4 DEF Served

LEMMA LaunchedServed ==
    ASSUME Types, Waited, Orderly, Placed, Served, NEW c \in Slots, start(c) \/ foreground(c)
    PROVE  Served'
<1>1. CheckedOwn'
  BY LaunchedFacts DEF Served, CheckedOwn, CheckSteps, SignedIn, Kept
<1>2. PassOwn'
  BY LaunchedFacts DEF Served, PassOwn, SignedIn, Kept
<1>3. Settled'
  BY LaunchedFacts DEF Served, Unserved, Settled, Kept
<1>4. Read'
  BY LaunchedFacts DEF Served, Read, Unserved, Due, Reader, Returning, Checking, Ending, Enders, CheckSteps, Watching, SignedIn, Kept
<1> QED
  BY <1>1, <1>2, <1>3, <1>4 DEF Served

-----------------------------------------------------------------------------
(* No pass runs ahead of the consent question, and its mark outlives no session. *)

\* Signed out, no question shows, and no mark is left but for the launch to read.
NoneShown == ~SignedIn /\ ~Forgetting => ui.prompt # "signIn"
NoneMarked ==
    disk.mark /\ ~SignedIn /\ ~Forgetting =>
        mgr.launch \in {"off", "reading"} \/ \E c \in Slots : call[c].pc = "appleLaunch"

\* The mark is written for a session, or cleared with it.
MarksOwn == \A c \in Slots : call[c].pc \in {"markQ", "unmark"} => SignedIn \/ Forgetting

\* A sign-in that is about to ask is the only one, and its question is open nowhere else.
Elsewhere(c) ==
    call[c].pc \in {"consent", "markQ", "unmark"} \cup CheckSteps \/ (call[c].pc = "give" /\ call[c].asked)
AsksOnce ==
    \A c \in Slots : call[c].pc \in {"consent", "markQ"} /\ SignedIn =>
        /\ mgr.awaiting /\ call[c].user = mgr.identity /\ ~disk.mark /\ ui.prompt # "signIn"
        /\ \A d \in Slots : d # c => ~Elsewhere(d)

\* A question left open is known, or is being looked for, or its session ends.
MarkKnown == disk.mark /\ SignedIn => mgr.awaiting \/ Checking \/ Ending

\* No pass reads its token ahead of the answer, unless the session ends.
Unanswered == mgr.awaiting \/ disk.mark \/ \E c \in Slots : call[c].pc = "checkConsent"
AnswerFirst == pass.step = "token" /\ SignedIn /\ Unanswered => Ending

Asked == NoneShown /\ NoneMarked /\ MarksOwn /\ AsksOnce /\ MarkKnown /\ AnswerFirst

LEMMA SyncWaits ==
    ASSUME Types, Waited, mgr' \in Manager, MarkKnown', NEW w \in SUBSET Slots, runSync(w),
           pass.step = "token" /\ SignedIn' /\ Unanswered' => Ending'
    PROVE  AnswerFirst'
<1>1. CASE pass.step # "idle"
  BY <1>1, SyncFacts DEF AnswerFirst
<1>2. CASE CanPass'
  BY <1>2 DEF CanPass, MarkKnown, AnswerFirst, Unanswered, Checking, CheckSteps, SignedIn
<1>3. CASE pass' = pass
  BY <1>3 DEF AnswerFirst
<1> QED
  BY <1>1, <1>2, <1>3, SyncFacts

LEMMA FollowWaits ==
    ASSUME Types, Waited, MarkKnown, NEW token \in BOOLEAN, Follow(token), UNCHANGED <<mgr, disk>>,
           \A d \in Slots : call'[d].pc = call[d].pc
    PROVE  AnswerFirst'
<1>1. CASE CanPass
  BY <1>1 DEF CanPass, MarkKnown, AnswerFirst, Unanswered, Checking, CheckSteps, Ending, SignedIn
<1>2. CASE pass'.step = "idle"
  BY <1>2 DEF AnswerFirst
<1> QED
  BY <1>1, <1>2, FollowFacts

LEMMA TokenReadAsked ==
    ASSUME Types, Waited, Orderly, ~Outlived, Placed, Served, Asked, TokenRead
    PROVE  Asked'
<1>1. NoneShown'
  BY TokenReadFacts DEF Asked, NoneShown, Forgetting, SignedIn
<1>2. NoneMarked'
  BY TokenReadFacts DEF Asked, NoneMarked, Forgetting, SignedIn
<1>3. MarksOwn'
  BY TokenReadFacts DEF Asked, MarksOwn, Forgetting, SignedIn
<1>4. AsksOnce'
  BY TokenReadFacts DEF Asked, AsksOnce, Elsewhere, CheckSteps, SignedIn
<1>5. MarkKnown'
  BY TokenReadFacts DEF Asked, MarkKnown, Checking, Ending, CheckSteps, Enders, SignedIn
<1>6. AnswerFirst'
  <2>1. pass.token \in BOOLEAN
    BY DEF Types, Passing
  <2>2. CASE Follow(pass.token) \/ Follow(TRUE)
    BY <2>1, <2>2, TokenReadFacts, FollowWaits DEF Asked
  <2>3. CASE pass'.step = "run"
    BY <2>3 DEF AnswerFirst
  <2> QED
    BY <2>2, <2>3, TokenReadFacts
<1> QED
  BY <1>1, <1>2, <1>3, <1>4, <1>5, <1>6 DEF Asked

LEMMA RunEndsAsked ==
    ASSUME Types, Waited, Orderly, ~Outlived, Placed, Served, Asked, RunEnds
    PROVE  Asked'
<1>1. NoneShown'
  BY RunEndsFacts DEF Asked, NoneShown, Forgetting, SignedIn
<1>2. NoneMarked'
  BY RunEndsFacts DEF Asked, NoneMarked, Forgetting, SignedIn
<1>3. MarksOwn'
  BY RunEndsFacts DEF Asked, MarksOwn, Forgetting, SignedIn
<1>4. AsksOnce'
  BY RunEndsFacts DEF Asked, AsksOnce, Elsewhere, CheckSteps, SignedIn
<1>5. MarkKnown'
  BY RunEndsFacts DEF Asked, MarkKnown, Checking, Ending, CheckSteps, Enders, SignedIn
<1>6. AnswerFirst'
  <2>1. pass.token \in BOOLEAN
    BY DEF Types, Passing
  <2> QED
    BY <2>1, RunEndsFacts, FollowWaits DEF Asked
<1> QED
  BY <1>1, <1>2, <1>3, <1>4, <1>5, <1>6 DEF Asked

LEMMA AskingAsked ==
    ASSUME Types, Waited, Orderly, ~Outlived, Placed, Served, Asked, localWrite \/ tokenRefreshed \/ setOnline
    PROVE  Asked'
<1>1. NoneShown'
  BY AskingFacts DEF Asked, NoneShown, Forgetting, SignedIn
<1>2. NoneMarked'
  BY AskingFacts DEF Asked, NoneMarked, Forgetting, SignedIn
<1>3. MarksOwn'
  BY AskingFacts DEF Asked, MarksOwn, Forgetting, SignedIn
<1>4. AsksOnce'
  BY AskingFacts DEF Asked, AsksOnce, Elsewhere, CheckSteps, SignedIn
<1>5. MarkKnown'
  BY AskingFacts DEF Asked, MarkKnown, Checking, Ending, CheckSteps, Enders, SignedIn
<1>6. AnswerFirst'
  <2>1. mgr' \in Manager /\ {} \in SUBSET Slots
    BY AskingFacts DEF Types
  <2>2. CASE runSync({})
    <3>1. pass.step = "token" /\ SignedIn' /\ Unanswered' => Ending'
      BY AskingFacts DEF Asked, AnswerFirst, Unanswered, Ending, Enders, SignedIn
    <3> QED
      BY <1>5, <2>1, <2>2, <3>1, SyncWaits
  <2>3. CASE ~runSync({})
    BY <2>3, AskingFacts DEF Asked, AnswerFirst, Unanswered, Ending, Enders, SignedIn
  <2> QED
    BY <2>2, <2>3
<1> QED
  BY <1>1, <1>2, <1>3, <1>4, <1>5, <1>6 DEF Asked

LEMMA ScreensAsked ==
    ASSUME Types, Waited, Orderly, ~Outlived, Placed, Served, Asked, openSignIn \/ openConsent
    PROVE  Asked'
<1>1. NoneShown'
  BY ScreenFacts DEF Asked, NoneShown, Forgetting, SignedIn, Kept
<1>2. NoneMarked'
  BY ScreenFacts DEF Asked, NoneMarked, Forgetting, SignedIn, Kept
<1>3. MarksOwn'
  BY ScreenFacts DEF Asked, MarksOwn, Forgetting, SignedIn, Kept
<1>4. AsksOnce'
  BY ScreenFacts DEF Asked, AsksOnce, Elsewhere, CheckSteps, SignedIn, Kept
<1>5. MarkKnown'
  BY ScreenFacts DEF Asked, MarkKnown, Checking, Ending, CheckSteps, Enders, SignedIn, Kept
<1>6. AnswerFirst'
  BY ScreenFacts DEF Asked, AnswerFirst, Unanswered, Ending, Enders, SignedIn, Kept
<1> QED
  BY <1>1, <1>2, <1>3, <1>4, <1>5, <1>6 DEF Asked

LEMMA KilledAsked ==
    ASSUME Types, Waited, Orderly, ~Outlived, Placed, Served, Asked, Killed
    PROVE  Asked'
<1>1. NoneShown'
  BY KilledFacts DEF Asked, NoneShown, Forgetting, SignedIn, Fresh, NoCall, NoPass, SignedOut
<1>2. NoneMarked'
  BY KilledFacts DEF Asked, NoneMarked, Forgetting, SignedIn, Fresh, NoCall, NoPass, SignedOut
<1>3. MarksOwn'
  BY KilledFacts DEF Asked, MarksOwn, Forgetting, SignedIn, Fresh, NoCall, NoPass, SignedOut
<1>4. AsksOnce'
  BY KilledFacts DEF Asked, AsksOnce, Elsewhere, CheckSteps, SignedIn, Fresh, NoCall, NoPass, SignedOut
<1>5. MarkKnown'
  BY KilledFacts DEF Asked, MarkKnown, Checking, Ending, CheckSteps, Enders, SignedIn, Fresh, NoCall, NoPass, SignedOut
<1>6. AnswerFirst'
  BY KilledFacts DEF Asked, AnswerFirst, Unanswered, Ending, Enders, SignedIn, Fresh, NoCall, NoPass, SignedOut
<1> QED
  BY <1>1, <1>2, <1>3, <1>4, <1>5, <1>6 DEF Asked

LEMMA ResumedAsked ==
    ASSUME Types, Waited, Orderly, ~Outlived, Placed, Served, Asked, NEW c \in Slots, PassAwaited(c) \/ LastPassEnded(c) \/ GoneWaited(c) \/ passesSettled(c)
    PROVE  Asked'
<1>1. NoneShown'
  BY ResumedFacts DEF Asked, NoneShown, Forgetting, SignedIn, Kept
<1>2. NoneMarked'
  BY ResumedFacts DEF Asked, NoneMarked, Forgetting, SignedIn, Kept
<1>3. MarksOwn'
  BY ResumedFacts DEF Asked, MarksOwn, Forgetting, SignedIn, Kept
<1>4. AsksOnce'
  BY ResumedFacts DEF Asked, AsksOnce, Elsewhere, CheckSteps, SignedIn, Kept
<1>5. MarkKnown'
  BY ResumedFacts DEF Asked, MarkKnown, Checking, Ending, CheckSteps, Enders, SignedIn, Kept
<1>6. AnswerFirst'
  BY ResumedFacts DEF Asked, AnswerFirst, Unanswered, Ending, Enders, SignedIn, Kept
<1> QED
  BY <1>1, <1>2, <1>3, <1>4, <1>5, <1>6 DEF Asked

LEMMA SignInFinishedAsked ==
    ASSUME Types, Waited, Orderly, ~Outlived, Placed, Served, Asked, NEW c \in Slots, SignInFinished(c)
    PROVE  Asked'
<1>1. NoneShown'
  BY SignInFinishedFacts DEF Asked, NoneShown, Forgetting, SignedIn, Kept
<1>2. NoneMarked'
  BY SignInFinishedFacts DEF Asked, NoneMarked, Forgetting, SignedIn, Kept
<1>3. MarksOwn'
  BY SignInFinishedFacts DEF Asked, MarksOwn, Forgetting, SignedIn, Kept
<1>4. AsksOnce'
  BY SignInFinishedFacts DEF Asked, AsksOnce, Elsewhere, CheckSteps, SignedIn, Kept
<1>5. MarkKnown'
  BY SignInFinishedFacts DEF Asked, MarkKnown, Checking, Ending, CheckSteps, Enders, SignedIn, Kept
<1>6. AnswerFirst'
  BY SignInFinishedFacts DEF Asked, AnswerFirst, Unanswered, Ending, Enders, SignedIn, Kept
<1> QED
  BY <1>1, <1>2, <1>3, <1>4, <1>5, <1>6 DEF Asked

LEMMA EndWaitedAsked ==
    ASSUME Types, Waited, Orderly, ~Outlived, Placed, Served, Asked, NEW c \in Slots, EndWaited(c)
    PROVE  Asked'
<1>1. NoneShown'
  BY EndWaitedFacts DEF Asked, NoneShown, Forgetting, SignedIn, Kept
<1>2. NoneMarked'
  BY EndWaitedFacts DEF Asked, NoneMarked, Forgetting, SignedIn, Kept
<1>3. MarksOwn'
  BY EndWaitedFacts DEF Asked, MarksOwn, Forgetting, SignedIn, Kept
<1>4. AsksOnce'
  BY EndWaitedFacts DEF Asked, AsksOnce, Elsewhere, CheckSteps, SignedIn, Kept
<1>5. MarkKnown'
  BY EndWaitedFacts DEF Asked, MarkKnown, Checking, Ending, CheckSteps, Enders, SignedIn, Kept
<1>6. AnswerFirst'
  <2>1. mgr' \in Manager /\ {c} \in SUBSET Slots
    BY EndWaitedFacts DEF Types
  <2>2. CASE runSync({c})
    <3>1. pass.step = "token" /\ SignedIn' /\ Unanswered' => Ending'
      BY EndWaitedFacts DEF Asked, AnswerFirst, Unanswered, Ending, Enders, SignedIn, Kept
    <3> QED
      BY <1>5, <2>1, <2>2, <3>1, SyncWaits
  <2>3. CASE ~runSync({c})
    BY <2>3, EndWaitedFacts DEF Asked, AnswerFirst, Unanswered, Ending, Enders, SignedIn, Kept
  <2> QED
    BY <2>2, <2>3
<1> QED
  BY <1>1, <1>2, <1>3, <1>4, <1>5, <1>6 DEF Asked

LEMMA RevokeWaitedAsked ==
    ASSUME Types, Waited, Orderly, ~Outlived, Placed, Served, Asked, NEW c \in Slots, RevokeWaited(c)
    PROVE  Asked'
<1>1. NoneShown'
  BY RevokeWaitedFacts DEF Asked, NoneShown, Forgetting, SignedIn, Kept, SameManager, SameScreen
<1>2. NoneMarked'
  BY RevokeWaitedFacts DEF Asked, NoneMarked, Forgetting, SignedIn, Kept, SameManager, SameScreen
<1>3. MarksOwn'
  BY RevokeWaitedFacts DEF Asked, MarksOwn, Forgetting, SignedIn, Kept, SameManager, SameScreen
<1>4. AsksOnce'
  BY RevokeWaitedFacts DEF Asked, AsksOnce, Elsewhere, CheckSteps, SignedIn, Kept, SameManager, SameScreen
<1>5. MarkKnown'
  BY RevokeWaitedFacts DEF Asked, MarkKnown, Checking, Ending, CheckSteps, Enders, SignedIn, Kept, SameManager, SameScreen
<1>6. AnswerFirst'
  BY RevokeWaitedFacts DEF Asked, AnswerFirst, Unanswered, Ending, Enders, SignedIn, Kept, SameManager, SameScreen
<1> QED
  BY <1>1, <1>2, <1>3, <1>4, <1>5, <1>6 DEF Asked

LEMMA ForgetAsked ==
    ASSUME Types, Waited, Orderly, ~Outlived, Placed, Served, Asked, NEW c \in Slots, Deleted(c) \/ SignedOutOfAuth(c) \/ GoneFromAuth(c)
    PROVE  Asked'
<1>1. NoneShown'
  BY ForgetFacts DEF Asked, NoneShown, Forgetting, SignedIn, Unseen, SameScreen, Orderly, Placed, OnScreen, Watched, Launched, Launching, Named, Acting
<1>2. NoneMarked'
  BY ForgetFacts DEF Asked, NoneMarked, Forgetting, SignedIn, Unseen, SameScreen, Orderly, Placed, OnScreen, Watched, Launched, Launching, Named, Acting
<1>3. MarksOwn'
  BY ForgetFacts DEF Asked, MarksOwn, Forgetting, SignedIn, Unseen, SameScreen, Orderly, Placed, OnScreen, Watched, Launched, Launching, Named, Acting
<1>4. AsksOnce'
  BY ForgetFacts DEF Asked, AsksOnce, Elsewhere, CheckSteps, SignedIn, Unseen, SameScreen, Orderly, Placed, OnScreen, Watched, Launched, Launching, Named, Acting
<1>5. MarkKnown'
  BY ForgetFacts DEF Asked, MarkKnown, Checking, Ending, CheckSteps, Enders, SignedIn, Unseen, SameScreen, Orderly, Placed, OnScreen, Watched, Launched, Launching, Named, Acting
<1>6. AnswerFirst'
  BY ForgetFacts DEF Asked, AnswerFirst, Unanswered, Ending, Enders, SignedIn, Unseen, SameScreen, Orderly, Placed, OnScreen, Watched, Launched, Launching, Named, Acting
<1> QED
  BY <1>1, <1>2, <1>3, <1>4, <1>5, <1>6 DEF Asked

LEMMA ForgottenAsked ==
    ASSUME Types, Waited, Orderly, ~Outlived, Placed, Served, Asked, NEW c \in Slots, Forgotten(c)
    PROVE  Asked'
<1>1. NoneShown'
  BY ForgottenFacts DEF Asked, NoneShown, Forgetting, SignedIn, Kept
<1>2. NoneMarked'
  BY ForgottenFacts DEF Asked, NoneMarked, Forgetting, SignedIn, Kept
<1>3. MarksOwn'
  BY ForgottenFacts DEF Asked, MarksOwn, Forgetting, SignedIn, Kept
<1>4. AsksOnce'
  BY ForgottenFacts DEF Asked, AsksOnce, Elsewhere, CheckSteps, SignedIn, Kept
<1>5. MarkKnown'
  BY ForgottenFacts DEF Asked, MarkKnown, Checking, Ending, CheckSteps, Enders, SignedIn, Kept
<1>6. AnswerFirst'
  BY ForgottenFacts DEF Asked, AnswerFirst, Unanswered, Ending, Enders, SignedIn, Kept
<1> QED
  BY <1>1, <1>2, <1>3, <1>4, <1>5, <1>6 DEF Asked

LEMMA DeletionAsked ==
    ASSUME Types, Waited, Orderly, ~Outlived, Placed, Served, Asked, NEW c \in Slots, Reauthorized(c) \/ DeletionFailed(c) \/ RetryFailed(c) \/ HoldsRead(c)
    PROVE  Asked'
<1>1. NoneShown'
  BY DeletionFacts DEF Asked, NoneShown, Forgetting, SignedIn, Kept, SameManager, SameScreen
<1>2. NoneMarked'
  BY DeletionFacts DEF Asked, NoneMarked, Forgetting, SignedIn, Kept, SameManager, SameScreen
<1>3. MarksOwn'
  BY DeletionFacts DEF Asked, MarksOwn, Forgetting, SignedIn, Kept, SameManager, SameScreen
<1>4. AsksOnce'
  BY DeletionFacts DEF Asked, AsksOnce, Elsewhere, CheckSteps, SignedIn, Kept, SameManager, SameScreen
<1>5. MarkKnown'
  BY DeletionFacts DEF Asked, MarkKnown, Checking, Ending, CheckSteps, Enders, SignedIn, Kept, SameManager, SameScreen
<1>6. AnswerFirst'
  BY DeletionFacts DEF Asked, AnswerFirst, Unanswered, Ending, Enders, SignedIn, Kept, SameManager, SameScreen
<1> QED
  BY <1>1, <1>2, <1>3, <1>4, <1>5, <1>6 DEF Asked

LEMMA ExchangeEndsAsked ==
    ASSUME Types, Waited, Orderly, ~Outlived, Placed, Served, Asked, NEW c \in Slots, ExchangeFails(c) \/ ExchangeAbandoned(c)
    PROVE  Asked'
<1>1. NoneShown'
  BY ExchangeEndsFacts DEF Asked, NoneShown, Forgetting, SignedIn, Kept, SameScreen
<1>2. NoneMarked'
  <2>1. \A d \in Slots : call[d].pc \in {"forget", "forgetDeleted", "appleLaunch"} => call'[d].pc = call[d].pc
    BY ExchangeEndsFacts DEF Kept
  <2>2. mgr'.identity = mgr.identity /\ mgr'.launch = mgr.launch /\ disk'.mark = disk.mark
    BY ExchangeEndsFacts
  <2> QED
    BY <2>1, <2>2 DEF Asked, NoneMarked, SignedIn, Forgetting
<1>3. MarksOwn'
  BY ExchangeEndsFacts DEF Asked, MarksOwn, Forgetting, SignedIn, Kept, SameScreen
<1>4. AsksOnce'
  BY ExchangeEndsFacts DEF Asked, AsksOnce, Elsewhere, CheckSteps, SignedIn, Kept, SameScreen
<1>5. MarkKnown'
  BY ExchangeEndsFacts DEF Asked, MarkKnown, Checking, Ending, CheckSteps, Enders, SignedIn, Kept, SameScreen
<1>6. AnswerFirst'
  BY ExchangeEndsFacts DEF Asked, AnswerFirst, Unanswered, Ending, Enders, SignedIn, Kept, SameScreen
<1> QED
  BY <1>1, <1>2, <1>3, <1>4, <1>5, <1>6 DEF Asked

LEMMA OrphanDroppedAsked ==
    ASSUME Types, Waited, Orderly, ~Outlived, Placed, Served, Asked, NEW c \in Slots, OrphanDropped(c)
    PROVE  Asked'
<1>1. NoneShown'
  BY OrphanDroppedFacts DEF Asked, NoneShown, Forgetting, SignedIn, Kept, SameScreen
<1>2. NoneMarked'
  BY OrphanDroppedFacts DEF Asked, NoneMarked, Forgetting, SignedIn, Kept, SameScreen
<1>3. MarksOwn'
  BY OrphanDroppedFacts DEF Asked, MarksOwn, Forgetting, SignedIn, Kept, SameScreen
<1>4. AsksOnce'
  BY OrphanDroppedFacts DEF Asked, AsksOnce, Elsewhere, CheckSteps, SignedIn, Kept, SameScreen
<1>5. MarkKnown'
  BY OrphanDroppedFacts DEF Asked, MarkKnown, Checking, Ending, CheckSteps, Enders, SignedIn, Kept, SameScreen
<1>6. AnswerFirst'
  BY OrphanDroppedFacts DEF Asked, AnswerFirst, Unanswered, Ending, Enders, SignedIn, Kept, SameScreen
<1> QED
  BY <1>1, <1>2, <1>3, <1>4, <1>5, <1>6 DEF Asked

LEMMA ExchangeAdoptedAsked ==
    ASSUME Types, Waited, Orderly, ~Outlived, Placed, Served, Asked, NEW c \in Slots, ExchangeAdopted(c)
    PROVE  Asked'
<1>1. NoneShown'
  BY ExchangeAdoptedFacts DEF Asked, NoneShown, Forgetting, SignedIn, Unseen, Orderly, Placed, OnScreen, Watched, Launched, Launching, Named, Acting
<1>2. NoneMarked'
  BY ExchangeAdoptedFacts DEF Asked, NoneMarked, Forgetting, SignedIn, Unseen, Orderly, Placed, OnScreen, Watched, Launched, Launching, Named, Acting
<1>3. MarksOwn'
  BY ExchangeAdoptedFacts DEF Asked, MarksOwn, Forgetting, SignedIn, Unseen, Orderly, Placed, OnScreen, Watched, Launched, Launching, Named, Acting
<1>4. AsksOnce'
  <2>1. mgr.exchanging = c
    BY ExchangeAdoptedFacts DEF Placed, Exchanging, On
  <2>2. \A d \in Slots : d # c =>
          call[d].pc \in {"idle", "pass", "firstPass"} /\ call'[d].pc = call[d].pc
    BY <2>1, ExchangeAdoptedFacts DEF Orderly, Unseen
  <2>3. call[c].pc = "exchange" /\ ~SignedIn
    BY ExchangeAdoptedFacts DEF Placed, OnScreen
  <2>4. ~Forgetting /\ mgr.launch = "on" /\ \A d \in Slots : call[d].pc # "appleLaunch"
    BY <2>2, <2>3 DEF Forgetting, Placed, Launched, Types, Manager
  <2>5. ui'.prompt # "signIn" /\ ~disk'.mark
    BY <2>3, <2>4, ExchangeAdoptedFacts DEF Asked, NoneShown, NoneMarked
  <2>6. \A d \in Slots : d # c => call'[d].pc \notin {"consent", "markQ"} /\ ~Elsewhere(d)'
    BY <2>2 DEF Elsewhere, CheckSteps
  <2>7. mgr'.awaiting /\ call'[c].user = mgr'.identity
    BY ExchangeAdoptedFacts
  <2> QED
    BY <2>5, <2>6, <2>7 DEF AsksOnce
<1>5. MarkKnown'
  BY ExchangeAdoptedFacts DEF Asked, MarkKnown, Checking, Ending, CheckSteps, Enders, SignedIn, Unseen, Orderly, Placed, OnScreen, Watched, Launched, Launching, Named, Acting
<1>6. AnswerFirst'
  BY ExchangeAdoptedFacts DEF Asked, AnswerFirst, Unanswered, Ending, Enders, SignedIn, Unseen, Orderly, Placed, OnScreen, Watched, Launched, Launching, Named, Acting
<1> QED
  BY <1>1, <1>2, <1>3, <1>4, <1>5, <1>6 DEF Asked

LEMMA ConsentReadAsked ==
    ASSUME Types, Waited, Orderly, ~Outlived, Placed, Served, Asked, NEW c \in Slots, ConsentRead(c)
    PROVE  Asked'
<1>1. NoneShown'
  BY ConsentReadFacts DEF Asked, NoneShown, Forgetting, SignedIn, Kept
<1>2. NoneMarked'
  BY ConsentReadFacts DEF Asked, NoneMarked, Forgetting, SignedIn, Kept
<1>3. MarksOwn'
  <2> SUFFICES ASSUME NEW d \in Slots, call'[d].pc \in {"markQ", "unmark"}
               PROVE  SignedIn' \/ Forgetting'
    BY DEF MarksOwn
  <2>1. CASE d = c
    BY <2>1, ConsentReadFacts DEF Placed, Named, Acting, SignedIn
  <2>2. CASE d # c
    <3>1. SignedIn \/ Forgetting
      BY <2>2, ConsentReadFacts DEF Kept, Asked, MarksOwn
    <3> QED
      BY <3>1, ConsentReadFacts DEF Kept, SignedIn, Forgetting
  <2> QED
    BY <2>1, <2>2
<1>4. AsksOnce'
  <2> SUFFICES ASSUME NEW d \in Slots, call'[d].pc \in {"consent", "markQ"}, SignedIn'
               PROVE  /\ mgr'.awaiting /\ call'[d].user = mgr'.identity /\ ~disk'.mark /\ ui'.prompt # "signIn"
                      /\ \A e \in Slots : e # d => ~Elsewhere(e)'
    BY DEF AsksOnce
  <2>1. SignedIn /\ call[c].pc = "consent"
    BY ConsentReadFacts DEF SignedIn
  <2>2. CASE d = c
    <3>1. call'[c].pc = "markQ" /\ call'[c].user = call[c].user /\ mgr'.awaiting = mgr.awaiting
      BY <2>2, ConsentReadFacts
    <3> QED
      BY <2>1, <2>2, <3>1, ConsentReadFacts DEF Kept, Asked, AsksOnce, Elsewhere
  <2>3. CASE d # c
    <3>1. call[d].pc \in {"consent", "markQ"}
      BY <2>3, ConsentReadFacts DEF Kept
    <3> QED
      BY <2>1, <2>3, <3>1 DEF Asked, AsksOnce, Elsewhere
  <2> QED
    BY <2>2, <2>3
<1>5. MarkKnown'
  <2>1. SignedIn => mgr.awaiting /\ ~disk.mark
    BY ConsentReadFacts DEF Asked, AsksOnce
  <2> QED
    BY <2>1, ConsentReadFacts DEF MarkKnown, SignedIn
<1>6. AnswerFirst'
  <2>1. mgr' \in Manager /\ {c} \in SUBSET Slots
    BY ConsentReadFacts DEF Types
  <2>2. CASE runSync({c})
    <3>1. pass.step = "token" /\ SignedIn' /\ Unanswered' => Ending'
      BY ConsentReadFacts DEF Asked, AnswerFirst, Unanswered, Ending, Enders, SignedIn, Kept
    <3> QED
      BY <1>5, <2>1, <2>2, <3>1, SyncWaits
  <2>3. CASE ~runSync({c})
    BY <2>3, ConsentReadFacts DEF Asked, AnswerFirst, Unanswered, Ending, Enders, SignedIn, Kept
  <2> QED
    BY <2>2, <2>3
<1> QED
  BY <1>1, <1>2, <1>3, <1>4, <1>5, <1>6 DEF Asked

LEMMA QuestionShownAsked ==
    ASSUME Types, Waited, Orderly, ~Outlived, Placed, Served, Asked, NEW c \in Slots, QuestionShown(c)
    PROVE  Asked'
<1>1. NoneShown'
  BY QuestionShownFacts DEF Asked, NoneShown, Forgetting, SignedIn, Kept, Orderly, Placed, OnScreen, Watched, Launched, Launching, Named, Acting
<1>2. NoneMarked'
  <2>1. SignedIn \/ Forgetting
    BY QuestionShownFacts DEF Asked, MarksOwn
  <2>2. SignedIn' \/ Forgetting'
    BY <2>1, QuestionShownFacts DEF SignedIn, Forgetting, Kept
  <2> QED
    BY <2>2 DEF NoneMarked
<1>3. MarksOwn'
  BY QuestionShownFacts DEF Asked, MarksOwn, Forgetting, SignedIn, Kept, Orderly, Placed, OnScreen, Watched, Launched, Launching, Named, Acting
<1>4. AsksOnce'
  BY QuestionShownFacts DEF Asked, AsksOnce, Elsewhere, CheckSteps, SignedIn, Kept, Orderly, Placed, OnScreen, Watched, Launched, Launching, Named, Acting
<1>5. MarkKnown'
  <2>1. SignedIn => mgr.awaiting
    BY QuestionShownFacts DEF Asked, AsksOnce
  <2> QED
    BY <2>1, QuestionShownFacts DEF MarkKnown, SignedIn
<1>6. AnswerFirst'
  <2>1. SignedIn => Unanswered
    BY QuestionShownFacts DEF Asked, AsksOnce, Unanswered
  <2>2. Ending => Ending'
    BY QuestionShownFacts DEF Ending, Enders, Kept
  <2> QED
    BY <2>1, <2>2, QuestionShownFacts DEF Asked, AnswerFirst, SignedIn
<1> QED
  BY <1>1, <1>2, <1>3, <1>4, <1>5, <1>6 DEF Asked

LEMMA ConsentGivenAsked ==
    ASSUME Types, Waited, Orderly, ~Outlived, Placed, Served, Asked, NEW c \in Slots, ConsentGiven(c)
    PROVE  Asked'
<1>1. NoneShown'
  BY ConsentGivenFacts DEF Asked, NoneShown, Forgetting, SignedIn, Kept, Orderly, Placed, OnScreen, Watched, Launched, Launching, Named, Acting
<1>2. NoneMarked'
  BY ConsentGivenFacts DEF Asked, NoneMarked, Forgetting, SignedIn, Kept, Orderly, Placed, OnScreen, Watched, Launched, Launching, Named, Acting
<1>3. MarksOwn'
  <2> SUFFICES ASSUME NEW d \in Slots, call'[d].pc \in {"markQ", "unmark"}
               PROVE  SignedIn' \/ Forgetting'
    BY DEF MarksOwn
  <2>1. CASE d = c
    BY <2>1, ConsentGivenFacts DEF Placed, Named, Acting, SignedIn
  <2>2. CASE d # c
    <3>1. SignedIn \/ Forgetting
      BY <2>2, ConsentGivenFacts DEF Kept, Asked, MarksOwn
    <3> QED
      BY <3>1, ConsentGivenFacts DEF Kept, SignedIn, Forgetting
  <2> QED
    BY <2>1, <2>2
<1>4. AsksOnce'
  <2> SUFFICES ASSUME NEW d \in Slots, call'[d].pc \in {"consent", "markQ"}, SignedIn'
               PROVE  /\ mgr'.awaiting /\ call'[d].user = mgr'.identity /\ ~disk'.mark /\ ui'.prompt # "signIn"
                      /\ \A e \in Slots : e # d => ~Elsewhere(e)'
    BY DEF AsksOnce
  <2>1. d # c /\ call'[d] = call[d] /\ SignedIn
    BY ConsentGivenFacts DEF Kept, SignedIn
  <2>2. /\ mgr.awaiting /\ call[d].user = mgr.identity /\ ~disk.mark /\ ui.prompt # "signIn"
        /\ \A e \in Slots : e # d => ~Elsewhere(e)
    BY <2>1 DEF Asked, AsksOnce
  <2>3. ~call[c].asked /\ call'[c].pc \in {"idle", "pass"} /\ ui'.prompt # "signIn"
    BY <2>1, <2>2, ConsentGivenFacts DEF Elsewhere
  <2> QED
    BY <2>1, <2>2, <2>3, ConsentGivenFacts DEF Kept, Elsewhere, CheckSteps
<1>5. MarkKnown'
  BY ConsentGivenFacts DEF Asked, MarkKnown, Checking, Ending, CheckSteps, Enders, SignedIn, Kept, Orderly, Placed, OnScreen, Watched, Launched, Launching, Named, Acting
<1>6. AnswerFirst'
  <2>1. mgr' \in Manager /\ {c} \in SUBSET Slots
    BY ConsentGivenFacts DEF Types
  <2>2. CASE runSync({c})
    <3>1. pass.step = "token" /\ SignedIn' /\ Unanswered' => Ending'
      BY ConsentGivenFacts DEF Asked, AnswerFirst, Unanswered, Ending, Enders, SignedIn, Kept, Orderly, Placed, OnScreen, Watched, Launched, Launching, Named, Acting
    <3> QED
      BY <1>5, <2>1, <2>2, <3>1, SyncWaits
  <2>3. CASE ~runSync({c})
    BY <2>3, ConsentGivenFacts DEF Asked, AnswerFirst, Unanswered, Ending, Enders, SignedIn, Kept, Orderly, Placed, OnScreen, Watched, Launched, Launching, Named, Acting
  <2> QED
    BY <2>2, <2>3
<1> QED
  BY <1>1, <1>2, <1>3, <1>4, <1>5, <1>6 DEF Asked

LEMMA QuestionSettledAsked ==
    ASSUME Types, Waited, Orderly, ~Outlived, Placed, Served, Asked, NEW c \in Slots, QuestionSettled(c)
    PROVE  Asked'
<1>1. NoneShown'
  BY QuestionSettledFacts DEF Asked, NoneShown, Forgetting, SignedIn, Kept
<1>2. NoneMarked'
  BY QuestionSettledFacts DEF Asked, NoneMarked, Forgetting, SignedIn, Kept
<1>3. MarksOwn'
  BY QuestionSettledFacts DEF Asked, MarksOwn, Forgetting, SignedIn, Kept
<1>4. AsksOnce'
  BY QuestionSettledFacts DEF Asked, AsksOnce, Elsewhere, CheckSteps, SignedIn, Kept
<1>5. MarkKnown'
  BY QuestionSettledFacts DEF Asked, MarkKnown, Checking, Ending, CheckSteps, Enders, SignedIn, Kept
<1>6. AnswerFirst'
  <2>1. mgr' \in Manager /\ {c} \in SUBSET Slots
    BY QuestionSettledFacts DEF Types
  <2>2. CASE runSync({c})
    <3>1. pass.step = "token" /\ SignedIn' /\ Unanswered' => Ending'
      BY QuestionSettledFacts DEF Asked, AnswerFirst, Unanswered, Ending, Enders, SignedIn, Kept
    <3> QED
      BY <1>5, <2>1, <2>2, <3>1, SyncWaits
  <2>3. CASE ~runSync({c})
    BY <2>3, QuestionSettledFacts DEF Asked, AnswerFirst, Unanswered, Ending, Enders, SignedIn, Kept
  <2> QED
    BY <2>2, <2>3
<1> QED
  BY <1>1, <1>2, <1>3, <1>4, <1>5, <1>6 DEF Asked

LEMMA ConsentWithdrawnAsked ==
    ASSUME Types, Waited, Orderly, ~Outlived, Placed, Served, Asked, NEW c \in Slots, ConsentWithdrawn(c)
    PROVE  Asked'
<1>1. NoneShown'
  BY ConsentWithdrawnFacts DEF Asked, NoneShown, Forgetting, SignedIn, Kept
<1>2. NoneMarked'
  BY ConsentWithdrawnFacts DEF Asked, NoneMarked, Forgetting, SignedIn, Kept
<1>3. MarksOwn'
  BY ConsentWithdrawnFacts DEF Asked, MarksOwn, Forgetting, SignedIn, Kept
<1>4. AsksOnce'
  <2> SUFFICES ASSUME NEW d \in Slots, call'[d].pc \in {"consent", "markQ"}, SignedIn'
               PROVE  /\ mgr'.awaiting /\ call'[d].user = mgr'.identity /\ ~disk'.mark /\ ui'.prompt # "signIn"
                      /\ \A e \in Slots : e # d => ~Elsewhere(e)'
    BY DEF AsksOnce
  <2>1. d # c /\ call'[d] = call[d] /\ SignedIn
    BY ConsentWithdrawnFacts DEF Kept, SignedIn
  <2>2. /\ mgr.awaiting /\ call[d].user = mgr.identity /\ ~disk.mark /\ ui.prompt # "signIn"
        /\ \A e \in Slots : e # d => ~Elsewhere(e)
    BY <2>1 DEF Asked, AsksOnce
  <2>3. call'[c].pc \in {"idle", "pass"} /\ ui'.prompt # "signIn"
    BY <2>2, ConsentWithdrawnFacts
  <2> QED
    BY <2>1, <2>2, <2>3, ConsentWithdrawnFacts DEF Kept, Elsewhere, CheckSteps
<1>5. MarkKnown'
  BY ConsentWithdrawnFacts DEF Asked, MarkKnown, Checking, Ending, CheckSteps, Enders, SignedIn, Kept
<1>6. AnswerFirst'
  <2>1. mgr' \in Manager /\ {c} \in SUBSET Slots
    BY ConsentWithdrawnFacts DEF Types
  <2>2. CASE runSync({c})
    <3>1. pass.step = "token" /\ SignedIn' /\ Unanswered' => Ending'
      BY ConsentWithdrawnFacts DEF Asked, AnswerFirst, Unanswered, Ending, Enders, SignedIn, Kept
    <3> QED
      BY <1>5, <2>1, <2>2, <3>1, SyncWaits
  <2>3. CASE ~runSync({c})
    BY <2>3, ConsentWithdrawnFacts DEF Asked, AnswerFirst, Unanswered, Ending, Enders, SignedIn, Kept
  <2> QED
    BY <2>2, <2>3
<1> QED
  BY <1>1, <1>2, <1>3, <1>4, <1>5, <1>6 DEF Asked

LEMMA SessionReadAsked ==
    ASSUME Types, Waited, Orderly, ~Outlived, Placed, Served, Asked, NEW c \in Slots, SessionRead(c)
    PROVE  Asked'
<1>1. NoneShown'
  BY SessionReadFacts DEF Asked, NoneShown, Forgetting, SignedIn, Kept, Unseen, Orderly, Placed, OnScreen, Watched, Launched, Launching, Named, Acting
<1>2. NoneMarked'
  BY SessionReadFacts DEF Asked, NoneMarked, Forgetting, SignedIn, Kept, Unseen, Orderly, Placed, OnScreen, Watched, Launched, Launching, Named, Acting
<1>3. MarksOwn'
  BY SessionReadFacts DEF Asked, MarksOwn, Forgetting, SignedIn, Kept, Unseen, Orderly, Placed, OnScreen, Watched, Launched, Launching, Named, Acting
<1>4. AsksOnce'
  BY SessionReadFacts DEF Asked, AsksOnce, Elsewhere, CheckSteps, SignedIn, Kept, Unseen, Orderly, Placed, OnScreen, Watched, Launched, Launching, Named, Acting
<1>5. MarkKnown'
  BY SessionReadFacts DEF Asked, MarkKnown, Checking, Ending, CheckSteps, Enders, SignedIn, Kept, Unseen, Orderly, Placed, OnScreen, Watched, Launched, Launching, Named, Acting
<1>6. AnswerFirst'
  BY SessionReadFacts DEF Asked, AnswerFirst, Unanswered, Ending, Enders, SignedIn, Kept, Unseen, Orderly, Placed, OnScreen, Watched, Launched, Launching, Named, Acting
<1> QED
  BY <1>1, <1>2, <1>3, <1>4, <1>5, <1>6 DEF Asked

LEMMA RefreshedAsked ==
    ASSUME Types, Waited, Orderly, ~Outlived, Placed, Served, Asked, NEW c \in Slots, Refreshed(c)
    PROVE  Asked'
<1>1. NoneShown'
  BY RefreshedFacts DEF Asked, NoneShown, Forgetting, SignedIn, Kept
<1>2. NoneMarked'
  BY RefreshedFacts DEF Asked, NoneMarked, Forgetting, SignedIn, Kept
<1>3. MarksOwn'
  BY RefreshedFacts DEF Asked, MarksOwn, Forgetting, SignedIn, Kept
<1>4. AsksOnce'
  BY RefreshedFacts DEF Asked, AsksOnce, Elsewhere, CheckSteps, SignedIn, Kept
<1>5. MarkKnown'
  BY RefreshedFacts DEF Asked, MarkKnown, Checking, Ending, CheckSteps, Enders, SignedIn, Kept
<1>6. AnswerFirst'
  BY RefreshedFacts DEF Asked, AnswerFirst, Unanswered, Ending, Enders, SignedIn, Kept
<1> QED
  BY <1>1, <1>2, <1>3, <1>4, <1>5, <1>6 DEF Asked

LEMMA AppleAskedAsked ==
    ASSUME Types, Waited, Orderly, ~Outlived, Placed, Served, Asked, NEW c \in Slots, AppleAsked(c)
    PROVE  Asked'
<1>1. NoneShown'
  BY AppleAskedFacts DEF Asked, NoneShown, Forgetting, SignedIn, Kept, Unseen, Orderly, Placed, OnScreen, Watched, Launched, Launching, Named, Acting
<1>2. NoneMarked'
  BY AppleAskedFacts DEF Asked, NoneMarked, Forgetting, SignedIn, Kept, Unseen, Orderly, Placed, OnScreen, Watched, Launched, Launching, Named, Acting
<1>3. MarksOwn'
  BY AppleAskedFacts DEF Asked, MarksOwn, Forgetting, SignedIn, Kept, Unseen, Orderly, Placed, OnScreen, Watched, Launched, Launching, Named, Acting
<1>4. AsksOnce'
  <2> SUFFICES ASSUME NEW d \in Slots, call'[d].pc \in {"consent", "markQ"}, SignedIn'
               PROVE  /\ mgr'.awaiting /\ call'[d].user = mgr'.identity /\ ~disk'.mark /\ ui'.prompt # "signIn"
                      /\ \A e \in Slots : e # d => ~Elsewhere(e)'
    BY DEF AsksOnce
  <2>1. \A e \in Slots : e # c =>
          call'[e].pc = call[e].pc /\ call'[e].user = call[e].user /\ call'[e].asked = call[e].asked
    BY AppleAskedFacts DEF Kept, Unseen
  <2>2. d # c /\ call[d].pc \in {"consent", "markQ"} /\ call[c].pc = "apple"
    BY <2>1, AppleAskedFacts DEF Placed, Launched, Launching
  <2>3. mgr'.identity = mgr.identity /\ SignedIn
    BY <2>2, AppleAskedFacts DEF Placed, Watched, Watching, SignedIn
  <2>4. /\ mgr.awaiting /\ call[d].user = mgr.identity /\ ~disk.mark /\ ui.prompt # "signIn"
        /\ \A e \in Slots : e # d => ~Elsewhere(e)
    BY <2>2, <2>3 DEF Asked, AsksOnce
  <2>5. call'[c].pc \in {"idle", "revokeWait", "pass"}
    BY <2>4, AppleAskedFacts
  <2>6. mgr'.awaiting = mgr.awaiting /\ ui'.prompt = ui.prompt /\ disk' = disk
    BY AppleAskedFacts
  <2> QED
    BY <2>1, <2>2, <2>3, <2>4, <2>5, <2>6 DEF Elsewhere, CheckSteps
<1>5. MarkKnown'
  BY AppleAskedFacts DEF Asked, MarkKnown, Checking, Ending, CheckSteps, Enders, SignedIn, Kept, Unseen, Orderly, Placed, OnScreen, Watched, Launched, Launching, Named, Acting
<1>6. AnswerFirst'
  <2>1. pass.step = "token" => call[c].pc = "apple" /\ mgr'.identity = mgr.identity
    BY AppleAskedFacts DEF Placed, Launched, Launching, Watched, Watching
  <2>2. \A d \in Slots : d # c => call'[d].pc = call[d].pc
    BY AppleAskedFacts DEF Kept, Unseen
  <2>3. Unanswered' => Unanswered
    <3>1. call'[c].pc # "checkConsent" /\ mgr'.awaiting = mgr.awaiting /\ disk' = disk
      BY AppleAskedFacts
    <3> QED
      BY <2>2, <3>1 DEF Unanswered
  <2>4. Ending => Ending'
    BY <2>2, AppleAskedFacts DEF Ending, Enders
  <2>5. pass.step = "token" /\ SignedIn' /\ Unanswered' => Ending'
    BY <2>1, <2>3, <2>4 DEF Asked, AnswerFirst, SignedIn
  <2>6. CASE runSync({c})
    <3>1. mgr' \in Manager /\ {c} \in SUBSET Slots
      BY AppleAskedFacts DEF Types
    <3> QED
      BY <1>5, <2>5, <2>6, <3>1, SyncWaits
  <2>7. CASE pass' = pass
    BY <2>5, <2>7 DEF AnswerFirst
  <2> QED
    BY <2>6, <2>7, AppleAskedFacts
<1> QED
  BY <1>1, <1>2, <1>3, <1>4, <1>5, <1>6 DEF Asked

LEMMA MarkReadAsked ==
    ASSUME Types, Waited, Orderly, ~Outlived, Placed, Served, Asked, NEW c \in Slots, MarkRead(c)
    PROVE  Asked'
<1>1. NoneShown'
  BY MarkReadFacts DEF Asked, NoneShown, Forgetting, SignedIn, Kept
<1>2. NoneMarked'
  BY MarkReadFacts DEF Asked, NoneMarked, Forgetting, SignedIn, Kept
<1>3. MarksOwn'
  BY MarkReadFacts DEF Asked, MarksOwn, Forgetting, SignedIn, Kept
<1>4. AsksOnce'
  BY MarkReadFacts DEF Asked, AsksOnce, Elsewhere, CheckSteps, SignedIn, Kept
<1>5. MarkKnown'
  BY MarkReadFacts DEF Asked, MarkKnown, Checking, Ending, CheckSteps, Enders, SignedIn, Kept
<1>6. AnswerFirst'
  <2>1. mgr' \in Manager /\ {c} \in SUBSET Slots
    BY MarkReadFacts DEF Types
  <2>2. CASE runSync({c})
    <3>1. pass.step = "token" /\ SignedIn' /\ Unanswered' => Ending'
      BY MarkReadFacts DEF Asked, AnswerFirst, Unanswered, Ending, Enders, SignedIn, Kept
    <3> QED
      BY <1>5, <2>1, <2>2, <3>1, SyncWaits
  <2>3. CASE ~runSync({c})
    BY <2>3, MarkReadFacts DEF Asked, AnswerFirst, Unanswered, Ending, Enders, SignedIn, Kept
  <2> QED
    BY <2>2, <2>3
<1> QED
  BY <1>1, <1>2, <1>3, <1>4, <1>5, <1>6 DEF Asked

LEMMA CheckReadAsked ==
    ASSUME Types, Waited, Orderly, ~Outlived, Placed, Served, Asked, NEW c \in Slots, CheckRead(c)
    PROVE  Asked'
<1>1. NoneShown'
  BY CheckReadFacts DEF Asked, NoneShown, Forgetting, SignedIn, Kept, Orderly, Placed, OnScreen, Watched, Launched, Launching, Named, Acting
<1>2. NoneMarked'
  BY CheckReadFacts DEF Asked, NoneMarked, Forgetting, SignedIn, Kept, Orderly, Placed, OnScreen, Watched, Launched, Launching, Named, Acting
<1>3. MarksOwn'
  BY CheckReadFacts DEF Asked, MarksOwn, Forgetting, SignedIn, Kept, Orderly, Placed, OnScreen, Watched, Launched, Launching, Named, Acting
<1>4. AsksOnce'
  BY CheckReadFacts DEF Asked, AsksOnce, Elsewhere, CheckSteps, SignedIn, Kept, Orderly, Placed, OnScreen, Watched, Launched, Launching, Named, Acting
<1>5. MarkKnown'
  <2>1. CASE mgr.identity # call[c].user /\ UNCHANGED mgr
    <3>1. ~SignedIn'
      BY <2>1, CheckReadFacts DEF Served, CheckedOwn, CheckSteps, SignedIn
    <3> QED
      BY <3>1 DEF MarkKnown
  <2>2. CASE mgr'.awaiting \/ ~disk'.mark
    BY <2>2 DEF MarkKnown
  <2> QED
    BY <2>1, <2>2, CheckReadFacts
<1>6. AnswerFirst'
  <2>1. mgr' \in Manager /\ {c} \in SUBSET Slots
    BY CheckReadFacts DEF Types
  <2>2. CASE runSync({c})
    <3>1. pass.step = "token" /\ SignedIn' /\ Unanswered' => Ending'
      BY CheckReadFacts DEF Asked, AnswerFirst, Unanswered, Ending, Enders, SignedIn, Kept, Orderly, Placed, OnScreen, Watched, Launched, Launching, Named, Acting
    <3> QED
      BY <1>5, <2>1, <2>2, <3>1, SyncWaits
  <2>3. CASE ~runSync({c})
    BY <2>3, CheckReadFacts DEF Asked, AnswerFirst, Unanswered, Ending, Enders, SignedIn, Kept, Orderly, Placed, OnScreen, Watched, Launched, Launching, Named, Acting
  <2> QED
    BY <2>2, <2>3
<1> QED
  BY <1>1, <1>2, <1>3, <1>4, <1>5, <1>6 DEF Asked

LEMMA SignInAsked ==
    ASSUME Types, Waited, Orderly, ~Outlived, Placed, Served, Asked, NEW c \in Slots, signIn(c)
    PROVE  Asked'
<1>1. NoneShown'
  BY SignInFacts DEF Asked, NoneShown, Forgetting, SignedIn, Kept, SameScreen, Orderly, Placed, OnScreen, Watched, Launched, Launching, Named, Acting
<1>2. NoneMarked'
  BY SignInFacts DEF Asked, NoneMarked, Forgetting, SignedIn, Kept, SameScreen, Orderly, Placed, OnScreen, Watched, Launched, Launching, Named, Acting
<1>3. MarksOwn'
  BY SignInFacts DEF Asked, MarksOwn, Forgetting, SignedIn, Kept, SameScreen, Orderly, Placed, OnScreen, Watched, Launched, Launching, Named, Acting
<1>4. AsksOnce'
  BY SignInFacts DEF Asked, AsksOnce, Elsewhere, CheckSteps, SignedIn, Kept, SameScreen, Orderly, Placed, OnScreen, Watched, Launched, Launching, Named, Acting
<1>5. MarkKnown'
  BY SignInFacts DEF Asked, MarkKnown, Checking, Ending, CheckSteps, Enders, SignedIn, Kept, SameScreen, Orderly, Placed, OnScreen, Watched, Launched, Launching, Named, Acting
<1>6. AnswerFirst'
  BY SignInFacts DEF Asked, AnswerFirst, Unanswered, Ending, Enders, SignedIn, Kept, SameScreen, Orderly, Placed, OnScreen, Watched, Launched, Launching, Named, Acting
<1> QED
  BY <1>1, <1>2, <1>3, <1>4, <1>5, <1>6 DEF Asked

LEMMA CloseSheetAsked ==
    ASSUME Types, Waited, Orderly, ~Outlived, Placed, Served, Asked, NEW c \in Slots, closeSheet(c)
    PROVE  Asked'
<1>1. NoneShown'
  BY CloseSheetFacts DEF Asked, NoneShown, Forgetting, SignedIn, Kept
<1>2. NoneMarked'
  BY CloseSheetFacts DEF Asked, NoneMarked, Forgetting, SignedIn, Kept
<1>3. MarksOwn'
  BY CloseSheetFacts DEF Asked, MarksOwn, Forgetting, SignedIn, Kept
<1>4. AsksOnce'
  BY CloseSheetFacts DEF Asked, AsksOnce, Elsewhere, CheckSteps, SignedIn, Kept
<1>5. MarkKnown'
  BY CloseSheetFacts DEF Asked, MarkKnown, Checking, Ending, CheckSteps, Enders, SignedIn, Kept
<1>6. AnswerFirst'
  BY CloseSheetFacts DEF Asked, AnswerFirst, Unanswered, Ending, Enders, SignedIn, Kept
<1> QED
  BY <1>1, <1>2, <1>3, <1>4, <1>5, <1>6 DEF Asked

LEMMA AnswerConsentAsked ==
    ASSUME Types, Waited, Orderly, ~Outlived, Placed, Served, Asked, NEW c \in Slots, answerConsent(c)
    PROVE  Asked'
<1>1. NoneShown'
  BY AnswerConsentFacts DEF Asked, NoneShown, Forgetting, SignedIn, Kept
<1>2. NoneMarked'
  BY AnswerConsentFacts DEF Asked, NoneMarked, Forgetting, SignedIn, Kept
<1>3. MarksOwn'
  BY AnswerConsentFacts DEF Asked, MarksOwn, Forgetting, SignedIn, Kept
<1>4. AsksOnce'
  BY AnswerConsentFacts DEF Asked, AsksOnce, Elsewhere, CheckSteps, SignedIn, Kept
<1>5. MarkKnown'
  BY AnswerConsentFacts DEF Asked, MarkKnown, Checking, Ending, CheckSteps, Enders, SignedIn, Kept
<1>6. AnswerFirst'
  BY AnswerConsentFacts DEF Asked, AnswerFirst, Unanswered, Ending, Enders, SignedIn, Kept
<1> QED
  BY <1>1, <1>2, <1>3, <1>4, <1>5, <1>6 DEF Asked

LEMMA WithdrawConsentAsked ==
    ASSUME Types, Waited, Orderly, ~Outlived, Placed, Served, Asked, NEW c \in Slots, withdrawConsent(c)
    PROVE  Asked'
<1>1. NoneShown'
  BY WithdrawConsentFacts DEF Asked, NoneShown, Forgetting, SignedIn, Kept
<1>2. NoneMarked'
  BY WithdrawConsentFacts DEF Asked, NoneMarked, Forgetting, SignedIn, Kept
<1>3. MarksOwn'
  BY WithdrawConsentFacts DEF Asked, MarksOwn, Forgetting, SignedIn, Kept
<1>4. AsksOnce'
  BY WithdrawConsentFacts DEF Asked, AsksOnce, Elsewhere, CheckSteps, SignedIn, Kept
<1>5. MarkKnown'
  BY WithdrawConsentFacts DEF Asked, MarkKnown, Checking, Ending, CheckSteps, Enders, SignedIn, Kept
<1>6. AnswerFirst'
  BY WithdrawConsentFacts DEF Asked, AnswerFirst, Unanswered, Ending, Enders, SignedIn, Kept
<1> QED
  BY <1>1, <1>2, <1>3, <1>4, <1>5, <1>6 DEF Asked

LEMMA BegunAsked ==
    ASSUME Types, Waited, Orderly, ~Outlived, Placed, Served, Asked, NEW c \in Slots, signOut(c) \/ deleteAccount(c) \/ appleRevoked(c)
    PROVE  Asked'
<1>1. NoneShown'
  BY BegunFacts DEF Asked, NoneShown, Forgetting, SignedIn, Kept, SameManager, SameScreen
<1>2. NoneMarked'
  BY BegunFacts DEF Asked, NoneMarked, Forgetting, SignedIn, Kept, SameManager, SameScreen
<1>3. MarksOwn'
  BY BegunFacts DEF Asked, MarksOwn, Forgetting, SignedIn, Kept, SameManager, SameScreen
<1>4. AsksOnce'
  BY BegunFacts DEF Asked, AsksOnce, Elsewhere, CheckSteps, SignedIn, Kept, SameManager, SameScreen
<1>5. MarkKnown'
  BY BegunFacts DEF Asked, MarkKnown, Checking, Ending, CheckSteps, Enders, SignedIn, Kept, SameManager, SameScreen
<1>6. AnswerFirst'
  BY BegunFacts DEF Asked, AnswerFirst, Unanswered, Ending, Enders, SignedIn, Kept, SameManager, SameScreen
<1> QED
  BY <1>1, <1>2, <1>3, <1>4, <1>5, <1>6 DEF Asked

LEMMA LaunchedAsked ==
    ASSUME Types, Waited, Orderly, ~Outlived, Placed, Served, Asked, NEW c \in Slots, start(c) \/ foreground(c)
    PROVE  Asked'
<1>1. NoneShown'
  BY LaunchedFacts DEF Asked, NoneShown, Forgetting, SignedIn, Kept, Orderly, Placed, OnScreen, Watched, Launched, Launching, Named, Acting
<1>2. NoneMarked'
  BY LaunchedFacts DEF Asked, NoneMarked, Forgetting, SignedIn, Kept, Orderly, Placed, OnScreen, Watched, Launched, Launching, Named, Acting
<1>3. MarksOwn'
  BY LaunchedFacts DEF Asked, MarksOwn, Forgetting, SignedIn, Kept, Orderly, Placed, OnScreen, Watched, Launched, Launching, Named, Acting
<1>4. AsksOnce'
  BY LaunchedFacts DEF Asked, AsksOnce, Elsewhere, CheckSteps, SignedIn, Kept, Orderly, Placed, OnScreen, Watched, Launched, Launching, Named, Acting
<1>5. MarkKnown'
  BY LaunchedFacts DEF Asked, MarkKnown, Checking, Ending, CheckSteps, Enders, SignedIn, Kept, Orderly, Placed, OnScreen, Watched, Launched, Launching, Named, Acting
<1>6. AnswerFirst'
  BY LaunchedFacts DEF Asked, AnswerFirst, Unanswered, Ending, Enders, SignedIn, Kept, Orderly, Placed, OnScreen, Watched, Launched, Launching, Named, Acting
<1> QED
  BY <1>1, <1>2, <1>3, <1>4, <1>5, <1>6 DEF Asked

-----------------------------------------------------------------------------
(* The consent question is seen.                                             *)

\* The question's answer is being saved or settled by a call.
Replying == \E c \in Slots : call[c].pc \in {"give", "unmark"} /\ call[c].asked

\* The answers are the signed-in account's, and only a session waits for one.
AnswersOwn ==
    /\ mgr.awaiting => SignedIn
    /\ \A c \in Slots : call[c].pc \in AnswerSteps /\ SignedIn => call[c].user = mgr.identity

\* Screens without a session show no question: so while one is signed in or restored.
Blank ==
    /\ ~ui.shown => ui.prompt = "none"
    /\ mgr.launch # "on" => ~ui.shown
    /\ \A c \in Slots : call[c].pc = "exchange" \/ Launching(c) => ~ui.shown

\* The answer of a question shown as being saved is a call's.
Saving == ui.prompt = "signIn" /\ ui.status = "saving" /\ SignedIn => Replying

Seen == AnswersOwn /\ Blank /\ Saving /\ QuestionVisible

LEMMA TokenReadSeen ==
    ASSUME Types, Waited, Orderly, Placed, Served, Asked, Seen, TokenRead
    PROVE  Seen'
<1>1. AnswersOwn'
  BY TokenReadFacts DEF Seen, AnswersOwn, AnswerSteps, SignedIn
<1>2. Blank'
  BY TokenReadFacts DEF Seen, Blank, Launching
<1>3. Saving'
  BY TokenReadFacts DEF Seen, Saving, Replying, SignedIn
<1>4. QuestionVisible'
  BY TokenReadFacts DEF Seen, QuestionVisible, Enders
<1> QED
  BY <1>1, <1>2, <1>3, <1>4 DEF Seen

LEMMA RunEndsSeen ==
    ASSUME Types, Waited, Orderly, Placed, Served, Asked, Seen, RunEnds
    PROVE  Seen'
<1>1. AnswersOwn'
  BY RunEndsFacts DEF Seen, AnswersOwn, AnswerSteps, SignedIn
<1>2. Blank'
  BY RunEndsFacts DEF Seen, Blank, Launching
<1>3. Saving'
  BY RunEndsFacts DEF Seen, Saving, Replying, SignedIn
<1>4. QuestionVisible'
  BY RunEndsFacts DEF Seen, QuestionVisible, Enders
<1> QED
  BY <1>1, <1>2, <1>3, <1>4 DEF Seen

LEMMA AskingSeen ==
    ASSUME Types, Waited, Orderly, Placed, Served, Asked, Seen, localWrite \/ tokenRefreshed \/ setOnline
    PROVE  Seen'
<1>1. AnswersOwn'
  BY AskingFacts DEF Seen, AnswersOwn, AnswerSteps, SignedIn
<1>2. Blank'
  BY AskingFacts DEF Seen, Blank, Launching
<1>3. Saving'
  BY AskingFacts DEF Seen, Saving, Replying, SignedIn
<1>4. QuestionVisible'
  BY AskingFacts DEF Seen, QuestionVisible, Enders
<1> QED
  BY <1>1, <1>2, <1>3, <1>4 DEF Seen

LEMMA ScreensSeen ==
    ASSUME Types, Waited, Orderly, Placed, Served, Asked, Seen, openSignIn \/ openConsent
    PROVE  Seen'
<1>1. AnswersOwn'
  BY ScreenFacts DEF Seen, AnswersOwn, AnswerSteps, SignedIn, Kept
<1>2. Blank'
  BY ScreenFacts DEF Seen, Blank, Launching, SignedIn, Placed, OnScreen
<1>3. Saving'
  BY ScreenFacts DEF Seen, Saving, Replying, SignedIn, Kept
<1>4. QuestionVisible'
  BY ScreenFacts DEF Seen, QuestionVisible, Enders, Kept
<1> QED
  BY <1>1, <1>2, <1>3, <1>4 DEF Seen

LEMMA KilledSeen ==
    ASSUME Types, Waited, Orderly, Placed, Served, Asked, Seen, Killed
    PROVE  Seen'
<1>1. AnswersOwn'
  BY KilledFacts DEF Seen, AnswersOwn, AnswerSteps, SignedIn, Fresh, NoCall, NoPass, SignedOut
<1>2. Blank'
  BY KilledFacts DEF Seen, Blank, Launching, Fresh, NoCall, NoPass, SignedOut
<1>3. Saving'
  BY KilledFacts DEF Seen, Saving, Replying, SignedIn, Fresh, NoCall, NoPass, SignedOut
<1>4. QuestionVisible'
  BY KilledFacts DEF Seen, QuestionVisible, Enders, Fresh, NoCall, NoPass, SignedOut
<1> QED
  BY <1>1, <1>2, <1>3, <1>4 DEF Seen

LEMMA ResumedSeen ==
    ASSUME Types, Waited, Orderly, Placed, Served, Asked, Seen, NEW c \in Slots, PassAwaited(c) \/ LastPassEnded(c) \/ GoneWaited(c) \/ passesSettled(c)
    PROVE  Seen'
<1>1. AnswersOwn'
  BY ResumedFacts DEF Seen, AnswersOwn, AnswerSteps, SignedIn, Kept
<1>2. Blank'
  BY ResumedFacts DEF Seen, Blank, Launching, Kept
<1>3. Saving'
  BY ResumedFacts DEF Seen, Saving, Replying, SignedIn, Kept
<1>4. QuestionVisible'
  BY ResumedFacts DEF Seen, QuestionVisible, Enders, Kept
<1> QED
  BY <1>1, <1>2, <1>3, <1>4 DEF Seen

LEMMA SignInFinishedSeen ==
    ASSUME Types, Waited, Orderly, Placed, Served, Asked, Seen, NEW c \in Slots, SignInFinished(c)
    PROVE  Seen'
<1>1. AnswersOwn'
  BY SignInFinishedFacts DEF Seen, AnswersOwn, AnswerSteps, SignedIn, Kept
<1>2. Blank'
  BY SignInFinishedFacts DEF Seen, Blank, Launching, Kept
<1>3. Saving'
  BY SignInFinishedFacts DEF Seen, Saving, Replying, SignedIn, Kept
<1>4. QuestionVisible'
  BY SignInFinishedFacts DEF Seen, QuestionVisible, Enders, Kept
<1> QED
  BY <1>1, <1>2, <1>3, <1>4 DEF Seen

LEMMA EndWaitedSeen ==
    ASSUME Types, Waited, Orderly, Placed, Served, Asked, Seen, NEW c \in Slots, EndWaited(c)
    PROVE  Seen'
<1>1. AnswersOwn'
  BY EndWaitedFacts DEF Seen, AnswersOwn, AnswerSteps, SignedIn, Kept
<1>2. Blank'
  BY EndWaitedFacts DEF Seen, Blank, Launching, Kept
<1>3. Saving'
  BY EndWaitedFacts DEF Seen, Saving, Replying, SignedIn, Kept
<1>4. QuestionVisible'
  <2>1. ~SignedIn => ~mgr'.awaiting
    BY EndWaitedFacts DEF Seen, AnswersOwn
  <2>2. SignedIn => call'[c].pc \in Enders
    BY EndWaitedFacts DEF Enders
  <2> QED
    BY <2>1, <2>2 DEF QuestionVisible
<1> QED
  BY <1>1, <1>2, <1>3, <1>4 DEF Seen

LEMMA RevokeWaitedSeen ==
    ASSUME Types, Waited, Orderly, Placed, Served, Asked, Seen, NEW c \in Slots, RevokeWaited(c)
    PROVE  Seen'
<1>1. AnswersOwn'
  BY RevokeWaitedFacts DEF Seen, AnswersOwn, AnswerSteps, SignedIn, Kept, SameManager, SameScreen
<1>2. Blank'
  BY RevokeWaitedFacts DEF Seen, Blank, Launching, Kept, SameManager, SameScreen
<1>3. Saving'
  BY RevokeWaitedFacts DEF Seen, Saving, Replying, SignedIn, Kept, SameManager, SameScreen
<1>4. QuestionVisible'
  BY RevokeWaitedFacts DEF Seen, QuestionVisible, Enders, Kept, SameManager, SameScreen
<1> QED
  BY <1>1, <1>2, <1>3, <1>4 DEF Seen

LEMMA ForgetSeen ==
    ASSUME Types, Waited, Orderly, Placed, Served, Asked, Seen, NEW c \in Slots, Deleted(c) \/ SignedOutOfAuth(c) \/ GoneFromAuth(c)
    PROVE  Seen'
<1>1. AnswersOwn'
  BY ForgetFacts DEF Seen, AnswersOwn, AnswerSteps, SignedIn, Unseen, SameScreen, Orderly, Placed, OnScreen, Watched, Launched, Launching, Named, Acting
<1>2. Blank'
  <2>1. ui'.shown = ui.shown /\ ui'.prompt = ui.prompt /\ mgr'.launch = mgr.launch
    BY ForgetFacts DEF SameScreen
  <2>2. call'[c].pc \in {"forget", "forgetDeleted"} /\ \A d \in Slots : d # c => call'[d].pc = call[d].pc
    BY ForgetFacts DEF Unseen
  <2> QED
    BY <2>1, <2>2 DEF Seen, Blank, Launching
<1>3. Saving'
  BY ForgetFacts DEF Seen, Saving, Replying, SignedIn, Unseen, SameScreen, Orderly, Placed, OnScreen, Watched, Launched, Launching, Named, Acting
<1>4. QuestionVisible'
  BY ForgetFacts DEF Seen, QuestionVisible, Enders, Unseen, SameScreen, Orderly, Placed, OnScreen, Watched, Launched, Launching, Named, Acting, SignedIn
<1> QED
  BY <1>1, <1>2, <1>3, <1>4 DEF Seen

LEMMA ForgottenSeen ==
    ASSUME Types, Waited, Orderly, Placed, Served, Asked, Seen, NEW c \in Slots, Forgotten(c)
    PROVE  Seen'
<1>1. AnswersOwn'
  BY ForgottenFacts DEF Seen, AnswersOwn, AnswerSteps, SignedIn, Kept, Orderly, Placed, OnScreen, Watched, Launched, Launching, Named, Acting
<1>2. Blank'
  BY ForgottenFacts DEF Seen, Blank, Launching, Kept, Orderly, Placed, OnScreen, Watched, Launched, Named, Acting, SignedIn
<1>3. Saving'
  BY ForgottenFacts DEF Seen, Saving, Replying, SignedIn, Kept, Orderly, Placed, OnScreen, Watched, Launched, Launching, Named, Acting
<1>4. QuestionVisible'
  BY ForgottenFacts DEF Seen, QuestionVisible, Enders, Kept, Orderly, Placed, OnScreen, Watched, Launched, Launching, Named, Acting, SignedIn
<1> QED
  BY <1>1, <1>2, <1>3, <1>4 DEF Seen

LEMMA DeletionSeen ==
    ASSUME Types, Waited, Orderly, Placed, Served, Asked, Seen, NEW c \in Slots, Reauthorized(c) \/ DeletionFailed(c) \/ RetryFailed(c) \/ HoldsRead(c)
    PROVE  Seen'
<1>1. AnswersOwn'
  BY DeletionFacts DEF Seen, AnswersOwn, AnswerSteps, SignedIn, Kept, SameManager, SameScreen
<1>2. Blank'
  BY DeletionFacts DEF Seen, Blank, Launching, Kept, SameManager, SameScreen
<1>3. Saving'
  BY DeletionFacts DEF Seen, Saving, Replying, SignedIn, Kept, SameManager, SameScreen
<1>4. QuestionVisible'
  BY DeletionFacts DEF Seen, QuestionVisible, Enders, Kept, SameManager, SameScreen
<1> QED
  BY <1>1, <1>2, <1>3, <1>4 DEF Seen

LEMMA ExchangeEndsSeen ==
    ASSUME Types, Waited, Orderly, Placed, Served, Asked, Seen, NEW c \in Slots, ExchangeFails(c) \/ ExchangeAbandoned(c)
    PROVE  Seen'
<1>1. AnswersOwn'
  BY ExchangeEndsFacts DEF Seen, AnswersOwn, AnswerSteps, SignedIn, Kept, SameScreen
<1>2. Blank'
  BY ExchangeEndsFacts DEF Seen, Blank, Launching, Kept, SameScreen
<1>3. Saving'
  BY ExchangeEndsFacts DEF Seen, Saving, Replying, SignedIn, Kept, SameScreen
<1>4. QuestionVisible'
  <2>1. ~SignedIn' /\ ~mgr'.awaiting
    BY ExchangeEndsFacts DEF Placed, OnScreen, Seen, AnswersOwn, SignedIn
  <2> QED
    BY <2>1 DEF QuestionVisible
<1> QED
  BY <1>1, <1>2, <1>3, <1>4 DEF Seen

LEMMA OrphanDroppedSeen ==
    ASSUME Types, Waited, Orderly, Placed, Served, Asked, Seen, NEW c \in Slots, OrphanDropped(c)
    PROVE  Seen'
<1>1. AnswersOwn'
  BY OrphanDroppedFacts DEF Seen, AnswersOwn, AnswerSteps, SignedIn, Kept, SameScreen
<1>2. Blank'
  BY OrphanDroppedFacts DEF Seen, Blank, Launching, Kept, SameScreen
<1>3. Saving'
  BY OrphanDroppedFacts DEF Seen, Saving, Replying, SignedIn, Kept, SameScreen
<1>4. QuestionVisible'
  BY OrphanDroppedFacts DEF Seen, QuestionVisible, Enders, Kept, SameScreen
<1> QED
  BY <1>1, <1>2, <1>3, <1>4 DEF Seen

LEMMA ExchangeAdoptedSeen ==
    ASSUME Types, Waited, Orderly, Placed, Served, Asked, Seen, NEW c \in Slots, ExchangeAdopted(c)
    PROVE  Seen'
<1>1. AnswersOwn'
  BY ExchangeAdoptedFacts DEF Seen, AnswersOwn, AnswerSteps, SignedIn, Unseen, Orderly, Placed, OnScreen, Watched, Launched, Launching, Named, Acting
<1>2. Blank'
  <2>1. mgr.launch = "on"
    BY ExchangeAdoptedFacts DEF Placed, Launched
  <2>2. mgr.exchanging = c
    BY ExchangeAdoptedFacts DEF Placed, Exchanging, On
  <2>3. \A d \in Slots : d # c => call'[d].pc \in {"idle", "pass", "firstPass"}
    BY <2>2, ExchangeAdoptedFacts DEF Unseen, Orderly
  <2>4. ui.prompt = "none"
    BY ExchangeAdoptedFacts DEF Seen, Blank
  <2> QED
    BY <2>1, <2>3, ExchangeAdoptedFacts DEF Blank, Launching
<1>3. Saving'
  <2>1. mgr.launch = "on"
    BY ExchangeAdoptedFacts DEF Placed, Launched
  <2>2. mgr.exchanging = c
    BY ExchangeAdoptedFacts DEF Placed, Exchanging, On
  <2>3. \A d \in Slots : d # c => call'[d].pc \in {"idle", "pass", "firstPass"}
    BY <2>2, ExchangeAdoptedFacts DEF Unseen, Orderly
  <2>4. ui.prompt = "none"
    BY ExchangeAdoptedFacts DEF Seen, Blank
  <2> QED
    BY <2>4, ExchangeAdoptedFacts DEF Saving
<1>4. QuestionVisible'
  BY ExchangeAdoptedFacts DEF Seen, QuestionVisible, Enders, Unseen, Orderly, Placed, OnScreen, Watched, Launched, Launching, Named, Acting, SignedIn
<1> QED
  BY <1>1, <1>2, <1>3, <1>4 DEF Seen

LEMMA ConsentReadSeen ==
    ASSUME Types, Waited, Orderly, Placed, Served, Asked, Seen, NEW c \in Slots, ConsentRead(c)
    PROVE  Seen'
<1>1. AnswersOwn'
  BY ConsentReadFacts DEF Seen, AnswersOwn, AnswerSteps, SignedIn, Kept
<1>2. Blank'
  BY ConsentReadFacts DEF Seen, Blank, Launching, Kept
<1>3. Saving'
  BY ConsentReadFacts DEF Seen, Saving, Replying, SignedIn, Kept
<1>4. QuestionVisible'
  BY ConsentReadFacts DEF Seen, QuestionVisible, Enders, Kept
<1> QED
  BY <1>1, <1>2, <1>3, <1>4 DEF Seen

LEMMA QuestionShownSeen ==
    ASSUME Types, Waited, Orderly, Placed, Served, Asked, Seen, NEW c \in Slots, QuestionShown(c)
    PROVE  Seen'
<1>1. AnswersOwn'
  BY QuestionShownFacts DEF Seen, AnswersOwn, AnswerSteps, SignedIn, Kept, Orderly, Placed, OnScreen, Watched, Launched, Launching, Named, Acting
<1>2. Blank'
  BY QuestionShownFacts DEF Seen, Blank, Launching, Kept, Orderly, Placed, OnScreen, Watched, Launched, Named, Acting, SignedIn
<1>3. Saving'
  BY QuestionShownFacts DEF Seen, Saving, Replying, SignedIn, Kept, Orderly, Placed, OnScreen, Watched, Launched, Launching, Named, Acting
<1>4. QuestionVisible'
  BY QuestionShownFacts DEF Seen, QuestionVisible, Enders, Kept, Orderly, Placed, OnScreen, Watched, Launched, Launching, Named, Acting, SignedIn
<1> QED
  BY <1>1, <1>2, <1>3, <1>4 DEF Seen

LEMMA ConsentGivenSeen ==
    ASSUME Types, Waited, Orderly, Placed, Served, Asked, Seen, NEW c \in Slots, ConsentGiven(c)
    PROVE  Seen'
<1>1. AnswersOwn'
  BY ConsentGivenFacts DEF Seen, AnswersOwn, AnswerSteps, SignedIn, Kept, Orderly, Placed, OnScreen, Watched, Launched, Launching, Named, Acting
<1>2. Blank'
  BY ConsentGivenFacts DEF Seen, Blank, Launching, Kept, Orderly, Placed, OnScreen, Watched, Launched, Named, Acting, SignedIn
<1>3. Saving'
  BY ConsentGivenFacts DEF Seen, Saving, Replying, SignedIn, Kept, Ending, AnswersOwn, AnswerSteps, Orderly, Placed, OnScreen, Watched, Launched, Launching, Named, Acting
<1>4. QuestionVisible'
  BY ConsentGivenFacts DEF Seen, QuestionVisible, Enders, Kept, Saving, Replying, Ending, AnswersOwn, AnswerSteps, SignedIn, Orderly, Placed, OnScreen, Watched, Launched, Launching, Named, Acting
<1> QED
  BY <1>1, <1>2, <1>3, <1>4 DEF Seen

LEMMA QuestionSettledSeen ==
    ASSUME Types, Waited, Orderly, Placed, Served, Asked, Seen, NEW c \in Slots, QuestionSettled(c)
    PROVE  Seen'
<1>1. AnswersOwn'
  BY QuestionSettledFacts DEF Seen, AnswersOwn, AnswerSteps, SignedIn, Kept
<1>2. Blank'
  BY QuestionSettledFacts DEF Seen, Blank, Launching, Kept
<1>3. Saving'
  BY QuestionSettledFacts DEF Seen, Saving, Replying, SignedIn, Kept
<1>4. QuestionVisible'
  BY QuestionSettledFacts DEF Seen, QuestionVisible, Enders, Kept
<1> QED
  BY <1>1, <1>2, <1>3, <1>4 DEF Seen

LEMMA ConsentWithdrawnSeen ==
    ASSUME Types, Waited, Orderly, Placed, Served, Asked, Seen, NEW c \in Slots, ConsentWithdrawn(c)
    PROVE  Seen'
<1>1. AnswersOwn'
  BY ConsentWithdrawnFacts DEF Seen, AnswersOwn, AnswerSteps, SignedIn, Kept
<1>2. Blank'
  BY ConsentWithdrawnFacts DEF Seen, Blank, Launching, Kept
<1>3. Saving'
  BY ConsentWithdrawnFacts DEF Seen, Saving, Replying, SignedIn, Kept, Ending, AnswersOwn, AnswerSteps
<1>4. QuestionVisible'
  BY ConsentWithdrawnFacts DEF Seen, QuestionVisible, Enders, Kept, Saving, Replying, Ending, AnswersOwn, AnswerSteps, SignedIn
<1> QED
  BY <1>1, <1>2, <1>3, <1>4 DEF Seen

LEMMA SessionReadSeen ==
    ASSUME Types, Waited, Orderly, Placed, Served, Asked, Seen, NEW c \in Slots, SessionRead(c)
    PROVE  Seen'
<1>1. AnswersOwn'
  BY SessionReadFacts DEF Seen, AnswersOwn, AnswerSteps, SignedIn, Kept, Unseen, Orderly, Placed, OnScreen, Watched, Launched, Launching, Named, Acting
<1>2. Blank'
  BY SessionReadFacts DEF Seen, Blank, Launching, Kept, Unseen, Orderly, Placed, OnScreen, Watched, Launched, Named, Acting, SignedIn
<1>3. Saving'
  BY SessionReadFacts DEF Seen, Saving, Replying, SignedIn, Kept, Unseen, Orderly, Placed, OnScreen, Watched, Launched, Launching, Named, Acting
<1>4. QuestionVisible'
  BY SessionReadFacts DEF Seen, QuestionVisible, Enders, Kept, Unseen, Orderly, Placed, OnScreen, Watched, Launched, Launching, Named, Acting, SignedIn
<1> QED
  BY <1>1, <1>2, <1>3, <1>4 DEF Seen

LEMMA RefreshedSeen ==
    ASSUME Types, Waited, Orderly, Placed, Served, Asked, Seen, NEW c \in Slots, Refreshed(c)
    PROVE  Seen'
<1>1. AnswersOwn'
  BY RefreshedFacts DEF Seen, AnswersOwn, AnswerSteps, SignedIn, Kept
<1>2. Blank'
  BY RefreshedFacts DEF Seen, Blank, Launching, Kept
<1>3. Saving'
  BY RefreshedFacts DEF Seen, Saving, Replying, SignedIn, Kept
<1>4. QuestionVisible'
  BY RefreshedFacts DEF Seen, QuestionVisible, Enders, Kept
<1> QED
  BY <1>1, <1>2, <1>3, <1>4 DEF Seen

LEMMA AppleAskedSeen ==
    ASSUME Types, Waited, Orderly, Placed, Served, Asked, Seen, NEW c \in Slots, AppleAsked(c)
    PROVE  Seen'
<1>1. AnswersOwn'
  <2>1. CASE call[c].pc = "apple" /\ ~call[c].same
    BY <2>1, AppleAskedFacts DEF Seen, AnswersOwn, AnswerSteps, SignedIn, Kept
  <2>2. CASE call[c].pc = "appleLaunch"
    <3>1. /\ ~SignedIn /\ ~mgr.awaiting /\ ui.prompt = "none" /\ mgr.launch = "on"
          /\ \A d \in Slots : d # c => call[d].pc = "idle"
      BY <2>2 DEF Placed, Launched, Launching, Seen, AnswersOwn, Blank, Screen, Types
    <3>2. \A d \in Slots : d # c => call'[d].pc = "idle"
      BY <2>2, <3>1, AppleAskedFacts DEF Unseen
    <3> QED
      BY <2>2, <3>1, <3>2, AppleAskedFacts DEF AnswersOwn, AnswerSteps
  <2>3. CASE call[c].pc = "apple" /\ call[c].same
    <3>1. SignedIn /\ mgr'.identity = mgr.identity /\ SignedIn'
      BY <2>3, AppleAskedFacts DEF Placed, Watched, Watching, SignedIn
    <3>2. \A d \in Slots : d # c => /\ call'[d].pc = call[d].pc /\ call'[d].user = call[d].user
                                   /\ call'[d].asked = call[d].asked
      BY <2>3, AppleAskedFacts DEF Unseen
    <3>3. call'[c].pc \in {"revokeWait", "checkMark", "pass"}
      BY <2>3, AppleAskedFacts
    <3> QED
      BY <2>3, <3>1, <3>2, <3>3, AppleAskedFacts DEF Seen, AnswersOwn, AnswerSteps
  <2> QED
    BY <2>1, <2>2, <2>3, AppleAskedFacts
<1>2. Blank'
  <2>1. CASE call[c].pc = "apple" /\ ~call[c].same
    BY <2>1, AppleAskedFacts DEF Seen, Blank, Launching, Kept
  <2>2. CASE call[c].pc = "appleLaunch"
    <3>1. /\ ~SignedIn /\ ~mgr.awaiting /\ ui.prompt = "none" /\ mgr.launch = "on"
          /\ \A d \in Slots : d # c => call[d].pc = "idle"
      BY <2>2 DEF Placed, Launched, Launching, Seen, AnswersOwn, Blank, Screen, Types
    <3>2. \A d \in Slots : d # c => call'[d].pc = "idle"
      BY <2>2, <3>1, AppleAskedFacts DEF Unseen
    <3> QED
      BY <2>2, <3>1, <3>2, AppleAskedFacts DEF Blank, Launching
  <2>3. CASE call[c].pc = "apple" /\ call[c].same
    <3>1. SignedIn /\ mgr'.identity = mgr.identity /\ SignedIn'
      BY <2>3, AppleAskedFacts DEF Placed, Watched, Watching, SignedIn
    <3>2. \A d \in Slots : d # c => /\ call'[d].pc = call[d].pc /\ call'[d].user = call[d].user
                                   /\ call'[d].asked = call[d].asked
      BY <2>3, AppleAskedFacts DEF Unseen
    <3>3. call'[c].pc \in {"revokeWait", "checkMark", "pass"}
      BY <2>3, AppleAskedFacts
    <3>4. mgr.launch = "on" /\ \A d \in Slots : call[d].pc # "exchange" /\ ~Launching(d)
      BY <2>3, <3>1 DEF Placed, Launched, OnScreen
    <3> QED
      BY <2>3, <3>2, <3>3, <3>4, AppleAskedFacts DEF Blank, Launching
  <2> QED
    BY <2>1, <2>2, <2>3, AppleAskedFacts
<1>3. Saving'
  <2>1. CASE call[c].pc = "apple" /\ ~call[c].same
    BY <2>1, AppleAskedFacts DEF Seen, Saving, Replying, SignedIn, Kept
  <2>2. CASE call[c].pc = "appleLaunch"
    <3>1. /\ ~SignedIn /\ ~mgr.awaiting /\ ui.prompt = "none" /\ mgr.launch = "on"
          /\ \A d \in Slots : d # c => call[d].pc = "idle"
      BY <2>2 DEF Placed, Launched, Launching, Seen, AnswersOwn, Blank, Screen, Types
    <3>2. \A d \in Slots : d # c => call'[d].pc = "idle"
      BY <2>2, <3>1, AppleAskedFacts DEF Unseen
    <3> QED
      BY <2>2, <3>1, AppleAskedFacts DEF Saving
  <2>3. CASE call[c].pc = "apple" /\ call[c].same
    <3>1. SignedIn /\ mgr'.identity = mgr.identity /\ SignedIn'
      BY <2>3, AppleAskedFacts DEF Placed, Watched, Watching, SignedIn
    <3>2. \A d \in Slots : d # c => /\ call'[d].pc = call[d].pc /\ call'[d].user = call[d].user
                                   /\ call'[d].asked = call[d].asked
      BY <2>3, AppleAskedFacts DEF Unseen
    <3>3. call'[c].pc \in {"revokeWait", "checkMark", "pass"}
      BY <2>3, AppleAskedFacts
    <3>4. Replying => Replying'
      BY <2>3, <3>2 DEF Replying
    <3> QED
      BY <2>3, <3>1, <3>4, AppleAskedFacts DEF Seen, Saving
  <2> QED
    BY <2>1, <2>2, <2>3, AppleAskedFacts
<1>4. QuestionVisible'
  <2>1. CASE call[c].pc = "apple" /\ ~call[c].same
    BY <2>1, AppleAskedFacts DEF Seen, QuestionVisible, Enders, Kept
  <2>2. CASE call[c].pc = "appleLaunch"
    <3>1. /\ ~SignedIn /\ ~mgr.awaiting /\ ui.prompt = "none" /\ mgr.launch = "on"
          /\ \A d \in Slots : d # c => call[d].pc = "idle"
      BY <2>2 DEF Placed, Launched, Launching, Seen, AnswersOwn, Blank, Screen, Types
    <3>2. \A d \in Slots : d # c => call'[d].pc = "idle"
      BY <2>2, <3>1, AppleAskedFacts DEF Unseen
    <3> QED
      BY <2>2, <3>1, AppleAskedFacts DEF QuestionVisible
  <2>3. CASE call[c].pc = "apple" /\ call[c].same
    <3>1. SignedIn /\ mgr'.identity = mgr.identity /\ SignedIn'
      BY <2>3, AppleAskedFacts DEF Placed, Watched, Watching, SignedIn
    <3>2. \A d \in Slots : d # c => /\ call'[d].pc = call[d].pc /\ call'[d].user = call[d].user
                                   /\ call'[d].asked = call[d].asked
      BY <2>3, AppleAskedFacts DEF Unseen
    <3>3. call'[c].pc \in {"revokeWait", "checkMark", "pass"}
      BY <2>3, AppleAskedFacts
    <3>4. /\ mgr'.awaiting = mgr.awaiting /\ ui'.prompt = ui.prompt /\ ui'.sheet = ui.sheet
          /\ hist' = hist
      BY <2>3, AppleAskedFacts
    <3>5. Ending => Ending'
      BY <2>3, <3>2 DEF Ending, Enders
    <3> QED
      BY <2>3, <3>1, <3>2, <3>4, <3>5 DEF Seen, QuestionVisible, Ending
  <2> QED
    BY <2>1, <2>2, <2>3, AppleAskedFacts
<1> QED
  BY <1>1, <1>2, <1>3, <1>4 DEF Seen

LEMMA MarkReadSeen ==
    ASSUME Types, Waited, Orderly, Placed, Served, Asked, Seen, NEW c \in Slots, MarkRead(c)
    PROVE  Seen'
<1>1. AnswersOwn'
  BY MarkReadFacts DEF Seen, AnswersOwn, AnswerSteps, SignedIn, Kept
<1>2. Blank'
  BY MarkReadFacts DEF Seen, Blank, Launching, Kept
<1>3. Saving'
  BY MarkReadFacts DEF Seen, Saving, Replying, SignedIn, Kept
<1>4. QuestionVisible'
  BY MarkReadFacts DEF Seen, QuestionVisible, Enders, Kept
<1> QED
  BY <1>1, <1>2, <1>3, <1>4 DEF Seen

LEMMA CheckReadSeen ==
    ASSUME Types, Waited, Orderly, Placed, Served, Asked, Seen, NEW c \in Slots, CheckRead(c)
    PROVE  Seen'
<1>1. AnswersOwn'
  BY CheckReadFacts DEF Seen, AnswersOwn, AnswerSteps, SignedIn, Kept, Orderly, Placed, OnScreen, Watched, Launched, Launching, Named, Acting
<1>2. Blank'
  BY CheckReadFacts DEF Seen, Blank, Launching, Kept, Orderly, Placed, OnScreen, Watched, Launched, Named, Acting, SignedIn
<1>3. Saving'
  BY CheckReadFacts DEF Seen, Saving, Replying, SignedIn, Kept, Ending, AnswersOwn, AnswerSteps, Orderly, Placed, OnScreen, Watched, Launched, Launching, Named, Acting
<1>4. QuestionVisible'
  BY CheckReadFacts DEF Seen, QuestionVisible, Enders, Kept, Saving, Replying, Ending, AnswersOwn, AnswerSteps, SignedIn, Orderly, Placed, OnScreen, Watched, Launched, Launching, Named, Acting
<1> QED
  BY <1>1, <1>2, <1>3, <1>4 DEF Seen

LEMMA SignInSeen ==
    ASSUME Types, Waited, Orderly, Placed, Served, Asked, Seen, NEW c \in Slots, signIn(c)
    PROVE  Seen'
<1>1. AnswersOwn'
  BY SignInFacts DEF Seen, AnswersOwn, AnswerSteps, SignedIn, Kept, SameScreen, Orderly, Placed, OnScreen, Watched, Launched, Launching, Named, Acting
<1>2. Blank'
  BY SignInFacts DEF Seen, Blank, Launching, Kept, SameScreen, Orderly, Placed, OnScreen, Watched, Launched, Named, Acting, SignedIn
<1>3. Saving'
  BY SignInFacts DEF Seen, Saving, Replying, SignedIn, Kept, SameScreen, Orderly, Placed, OnScreen, Watched, Launched, Launching, Named, Acting
<1>4. QuestionVisible'
  BY SignInFacts DEF Seen, QuestionVisible, Enders, Kept, SameScreen, Orderly, Placed, OnScreen, Watched, Launched, Launching, Named, Acting, SignedIn
<1> QED
  BY <1>1, <1>2, <1>3, <1>4 DEF Seen

LEMMA CloseSheetSeen ==
    ASSUME Types, Waited, Orderly, Placed, Served, Asked, Seen, NEW c \in Slots, closeSheet(c)
    PROVE  Seen'
<1>1. AnswersOwn'
  BY CloseSheetFacts DEF Seen, AnswersOwn, AnswerSteps, SignedIn, Kept
<1>2. Blank'
  BY CloseSheetFacts DEF Seen, Blank, Launching, Kept
<1>3. Saving'
  BY CloseSheetFacts DEF Seen, Saving, Replying, SignedIn, Kept, Ending, AnswersOwn, AnswerSteps
<1>4. QuestionVisible'
  BY CloseSheetFacts DEF Seen, QuestionVisible, Enders, Kept, Saving, Replying, Ending, AnswersOwn, AnswerSteps, SignedIn
<1> QED
  BY <1>1, <1>2, <1>3, <1>4 DEF Seen

LEMMA AnswerConsentSeen ==
    ASSUME Types, Waited, Orderly, Placed, Served, Asked, Seen, NEW c \in Slots, answerConsent(c)
    PROVE  Seen'
<1>1. AnswersOwn'
  BY AnswerConsentFacts DEF Seen, AnswersOwn, AnswerSteps, SignedIn, Kept
<1>2. Blank'
  BY AnswerConsentFacts DEF Seen, Blank, Launching, Kept
<1>3. Saving'
  BY AnswerConsentFacts DEF Seen, Saving, Replying, SignedIn, Kept, Ending, AnswersOwn, AnswerSteps
<1>4. QuestionVisible'
  BY AnswerConsentFacts DEF Seen, QuestionVisible, Enders, Kept, Saving, Replying, Ending, AnswersOwn, AnswerSteps, SignedIn
<1> QED
  BY <1>1, <1>2, <1>3, <1>4 DEF Seen

LEMMA WithdrawConsentSeen ==
    ASSUME Types, Waited, Orderly, Placed, Served, Asked, Seen, NEW c \in Slots, withdrawConsent(c)
    PROVE  Seen'
<1>1. AnswersOwn'
  BY WithdrawConsentFacts DEF Seen, AnswersOwn, AnswerSteps, SignedIn, Kept
<1>2. Blank'
  BY WithdrawConsentFacts DEF Seen, Blank, Launching, Kept
<1>3. Saving'
  BY WithdrawConsentFacts DEF Seen, Saving, Replying, SignedIn, Kept, Ending, AnswersOwn, AnswerSteps
<1>4. QuestionVisible'
  BY WithdrawConsentFacts DEF Seen, QuestionVisible, Enders, Kept, Saving, Replying, Ending, AnswersOwn, AnswerSteps, SignedIn
<1> QED
  BY <1>1, <1>2, <1>3, <1>4 DEF Seen

LEMMA BegunSeen ==
    ASSUME Types, Waited, Orderly, Placed, Served, Asked, Seen, NEW c \in Slots, signOut(c) \/ deleteAccount(c) \/ appleRevoked(c)
    PROVE  Seen'
<1>1. AnswersOwn'
  BY BegunFacts DEF Seen, AnswersOwn, AnswerSteps, SignedIn, Kept, SameManager, SameScreen
<1>2. Blank'
  BY BegunFacts DEF Seen, Blank, Launching, Kept, SameManager, SameScreen
<1>3. Saving'
  BY BegunFacts DEF Seen, Saving, Replying, SignedIn, Kept, SameManager, SameScreen
<1>4. QuestionVisible'
  BY BegunFacts DEF Seen, QuestionVisible, Enders, Kept, SameManager, SameScreen
<1> QED
  BY <1>1, <1>2, <1>3, <1>4 DEF Seen

LEMMA LaunchedSeen ==
    ASSUME Types, Waited, Orderly, Placed, Served, Asked, Seen, NEW c \in Slots, start(c) \/ foreground(c)
    PROVE  Seen'
<1>1. AnswersOwn'
  BY LaunchedFacts DEF Seen, AnswersOwn, AnswerSteps, SignedIn, Kept, Orderly, Placed, OnScreen, Watched, Launched, Launching, Named, Acting
<1>2. Blank'
  BY LaunchedFacts DEF Seen, Blank, Launching, Kept, Orderly, Placed, OnScreen, Watched, Launched, Named, Acting, SignedIn
<1>3. Saving'
  BY LaunchedFacts DEF Seen, Saving, Replying, SignedIn, Kept, Orderly, Placed, OnScreen, Watched, Launched, Launching, Named, Acting
<1>4. QuestionVisible'
  BY LaunchedFacts DEF Seen, QuestionVisible, Enders, Kept, Orderly, Placed, OnScreen, Watched, Launched, Launching, Named, Acting, SignedIn
<1> QED
  BY <1>1, <1>2, <1>3, <1>4 DEF Seen

-----------------------------------------------------------------------------
(* Every step of the manager keeps them all.                                 *)

\* The types.
LEMMA TypesStep ==
    ASSUME Types, Waited, [Next]_vars
    PROVE  Types' /\ Waited'
<1>1. ASSUME NEW c \in Slots, Resumes(c) PROVE Types' /\ Waited'
  BY <1>1, ResumedFacts, SignInFinishedFacts, EndWaitedFacts, RevokeWaitedFacts
  DEF Resumes
<1>2. ASSUME NEW c \in Slots, Answers(c) PROVE Types' /\ Waited'
  BY <1>2, ForgetFacts, ForgottenFacts, DeletionFacts, ExchangeEndsFacts, OrphanDroppedFacts,
     ExchangeAdoptedFacts, ConsentReadFacts, QuestionShownFacts, ConsentGivenFacts,
     QuestionSettledFacts, ConsentWithdrawnFacts, SessionReadFacts, RefreshedFacts,
     AppleAskedFacts, MarkReadFacts, CheckReadFacts
  DEF Answers
<1>3. ASSUME NEW c \in Slots, Starts(c) PROVE Types' /\ Waited'
  BY <1>3, SignInFacts, CloseSheetFacts, AnswerConsentFacts, WithdrawConsentFacts, BegunFacts,
     LaunchedFacts
  DEF Starts
<1>4. CASE TokenRead \/ RunEnds \/ Events
  BY <1>4, TokenReadFacts, RunEndsFacts, AskingFacts, ScreenFacts, KilledFacts
  DEF Events
<1>5. CASE UNCHANGED vars
  BY <1>5 DEF vars, Types, Waited
<1> QED
  BY <1>1, <1>2, <1>3, <1>4, <1>5 DEF Next

\* The exchange that runs is a call's.
LEMMA HeldStep ==
    ASSUME Types, Waited, Held, [Next]_vars
    PROVE  Held'
<1>1. CASE TokenRead
  BY <1>1, TokenReadFacts, SessionAssumption DEF Types, Manager, Held, On
<1>2. CASE RunEnds
  BY <1>2, RunEndsFacts, SessionAssumption DEF Types, Manager, Held, On
<1>3. CASE localWrite \/ tokenRefreshed \/ setOnline
  BY <1>3, AskingFacts, SessionAssumption DEF Types, Manager, Held, On
<1>4. CASE openSignIn \/ openConsent
  BY <1>4, ScreenFacts, SessionAssumption DEF Types, Manager, Held, On, Kept
<1>5. CASE Killed
  BY <1>5, KilledFacts, SessionAssumption DEF Types, Manager, Held, On, Fresh
<1>6. ASSUME NEW c \in Slots, PassAwaited(c) \/ LastPassEnded(c) \/ GoneWaited(c) \/ passesSettled(c) PROVE Held'
  BY <1>6, ResumedFacts, SessionAssumption DEF Types, Manager, Held, On, Kept
<1>7. ASSUME NEW c \in Slots, SignInFinished(c) PROVE Held'
  BY <1>7, SignInFinishedFacts, SessionAssumption DEF Types, Manager, Held, On, Kept
<1>8. ASSUME NEW c \in Slots, EndWaited(c) PROVE Held'
  BY <1>8, EndWaitedFacts, SessionAssumption DEF Types, Manager, Held, On, Kept
<1>9. ASSUME NEW c \in Slots, RevokeWaited(c) PROVE Held'
  BY <1>9, RevokeWaitedFacts, SessionAssumption DEF Types, Manager, Held, On, Kept, SameManager
<1>10. ASSUME NEW c \in Slots, Deleted(c) \/ SignedOutOfAuth(c) \/ GoneFromAuth(c) PROVE Held'
  <2> SUFFICES ASSUME mgr'.exchanging # NoSlot
               PROVE  call'[mgr'.exchanging].pc = "exchange"
    BY DEF Held, On
  <2>1. mgr'.exchanging = mgr.exchanging /\ mgr.exchanging # NoSlot
    BY <1>10, ForgetFacts
  <2>2. mgr.exchanging \in Slots /\ call[mgr.exchanging].pc = "exchange"
    BY <2>1 DEF Types, Manager, Held, On
  <2>3. mgr.exchanging # c
    BY <1>10, <2>1, <2>2, ForgetFacts
  <2>4. call'[mgr.exchanging].pc = "exchange"
    BY <1>10, <2>2, <2>3, ForgetFacts DEF Unseen
  <2> QED
    BY <2>1, <2>4
<1>11. ASSUME NEW c \in Slots, Forgotten(c) PROVE Held'
  BY <1>11, ForgottenFacts, SessionAssumption DEF Types, Manager, Held, On, Kept
<1>12. ASSUME NEW c \in Slots, Reauthorized(c) \/ DeletionFailed(c) \/ RetryFailed(c) \/ HoldsRead(c) PROVE Held'
  BY <1>12, DeletionFacts, SessionAssumption DEF Types, Manager, Held, On, Kept, SameManager
<1>13. ASSUME NEW c \in Slots, ExchangeFails(c) \/ ExchangeAbandoned(c) PROVE Held'
  BY <1>13, ExchangeEndsFacts, SessionAssumption DEF Types, Manager, Held, On, Kept
<1>14. ASSUME NEW c \in Slots, OrphanDropped(c) PROVE Held'
  BY <1>14, OrphanDroppedFacts, SessionAssumption DEF Types, Manager, Held, On, Kept
<1>15. ASSUME NEW c \in Slots, ExchangeAdopted(c) PROVE Held'
  <2> SUFFICES ASSUME mgr'.exchanging # NoSlot
               PROVE  call'[mgr'.exchanging].pc = "exchange"
    BY DEF Held, On
  <2>1. mgr'.exchanging = mgr.exchanging /\ mgr.exchanging # NoSlot
    BY <1>15, ExchangeAdoptedFacts
  <2>2. mgr.exchanging \in Slots /\ call[mgr.exchanging].pc = "exchange"
    BY <2>1 DEF Types, Manager, Held, On
  <2>3. mgr.exchanging # c
    BY <1>15, <2>1, <2>2, ExchangeAdoptedFacts
  <2>4. call'[mgr.exchanging].pc = "exchange"
    BY <1>15, <2>2, <2>3, ExchangeAdoptedFacts DEF Unseen
  <2> QED
    BY <2>1, <2>4
<1>16. ASSUME NEW c \in Slots, ConsentRead(c) PROVE Held'
  BY <1>16, ConsentReadFacts, SessionAssumption DEF Types, Manager, Held, On, Kept
<1>17. ASSUME NEW c \in Slots, QuestionShown(c) PROVE Held'
  <2> SUFFICES ASSUME mgr'.exchanging # NoSlot
               PROVE  call'[mgr'.exchanging].pc = "exchange"
    BY DEF Held, On
  <2>1. mgr'.exchanging = mgr.exchanging /\ mgr.exchanging # NoSlot
    BY <1>17, QuestionShownFacts
  <2>2. mgr.exchanging \in Slots /\ call[mgr.exchanging].pc = "exchange"
    BY <2>1 DEF Types, Manager, Held, On
  <2>3. Kept(c) /\ call[c].pc # "exchange"
    BY <1>17, QuestionShownFacts
  <2>4. call'[mgr.exchanging] = call[mgr.exchanging]
    BY <2>2, <2>3 DEF Kept
  <2> QED
    BY <2>1, <2>2, <2>4
<1>18. ASSUME NEW c \in Slots, ConsentGiven(c) PROVE Held'
  <2> SUFFICES ASSUME mgr'.exchanging # NoSlot
               PROVE  call'[mgr'.exchanging].pc = "exchange"
    BY DEF Held, On
  <2>1. mgr'.exchanging = mgr.exchanging /\ mgr.exchanging # NoSlot
    BY <1>18, ConsentGivenFacts
  <2>2. mgr.exchanging \in Slots /\ call[mgr.exchanging].pc = "exchange"
    BY <2>1 DEF Types, Manager, Held, On
  <2>3. Kept(c) /\ call[c].pc # "exchange"
    BY <1>18, ConsentGivenFacts
  <2>4. call'[mgr.exchanging] = call[mgr.exchanging]
    BY <2>2, <2>3 DEF Kept
  <2> QED
    BY <2>1, <2>2, <2>4
<1>19. ASSUME NEW c \in Slots, QuestionSettled(c) PROVE Held'
  <2> SUFFICES ASSUME mgr'.exchanging # NoSlot
               PROVE  call'[mgr'.exchanging].pc = "exchange"
    BY DEF Held, On
  <2>1. mgr'.exchanging = mgr.exchanging /\ mgr.exchanging # NoSlot
    BY <1>19, QuestionSettledFacts
  <2>2. mgr.exchanging \in Slots /\ call[mgr.exchanging].pc = "exchange"
    BY <2>1 DEF Types, Manager, Held, On
  <2>3. Kept(c) /\ call[c].pc # "exchange"
    BY <1>19, QuestionSettledFacts
  <2>4. call'[mgr.exchanging] = call[mgr.exchanging]
    BY <2>2, <2>3 DEF Kept
  <2> QED
    BY <2>1, <2>2, <2>4
<1>20. ASSUME NEW c \in Slots, ConsentWithdrawn(c) PROVE Held'
  <2> SUFFICES ASSUME mgr'.exchanging # NoSlot
               PROVE  call'[mgr'.exchanging].pc = "exchange"
    BY DEF Held, On
  <2>1. mgr'.exchanging = mgr.exchanging /\ mgr.exchanging # NoSlot
    BY <1>20, ConsentWithdrawnFacts
  <2>2. mgr.exchanging \in Slots /\ call[mgr.exchanging].pc = "exchange"
    BY <2>1 DEF Types, Manager, Held, On
  <2>3. Kept(c) /\ call[c].pc # "exchange"
    BY <1>20, ConsentWithdrawnFacts
  <2>4. call'[mgr.exchanging] = call[mgr.exchanging]
    BY <2>2, <2>3 DEF Kept
  <2> QED
    BY <2>1, <2>2, <2>4
<1>21. ASSUME NEW c \in Slots, SessionRead(c) PROVE Held'
  BY <1>21, SessionReadFacts, SessionAssumption DEF Types, Manager, Held, On, Kept, Unseen
<1>22. ASSUME NEW c \in Slots, Refreshed(c) PROVE Held'
  BY <1>22, RefreshedFacts, SessionAssumption DEF Types, Manager, Held, On, Kept
<1>23. ASSUME NEW c \in Slots, AppleAsked(c) PROVE Held'
  <2> SUFFICES ASSUME mgr'.exchanging # NoSlot
               PROVE  call'[mgr'.exchanging].pc = "exchange"
    BY DEF Held, On
  <2>1. mgr'.exchanging = mgr.exchanging /\ mgr.exchanging # NoSlot
    BY <1>23, AppleAskedFacts
  <2>2. mgr.exchanging \in Slots /\ call[mgr.exchanging].pc = "exchange"
    BY <2>1 DEF Types, Manager, Held, On
  <2>3. mgr.exchanging # c
    BY <1>23, <2>1, <2>2, AppleAskedFacts
  <2>4. call'[mgr.exchanging].pc = "exchange"
    BY <1>23, <2>2, <2>3, AppleAskedFacts DEF Kept, Unseen
  <2> QED
    BY <2>1, <2>4
<1>24. ASSUME NEW c \in Slots, MarkRead(c) PROVE Held'
  BY <1>24, MarkReadFacts, SessionAssumption DEF Types, Manager, Held, On, Kept
<1>25. ASSUME NEW c \in Slots, CheckRead(c) PROVE Held'
  <2> SUFFICES ASSUME mgr'.exchanging # NoSlot
               PROVE  call'[mgr'.exchanging].pc = "exchange"
    BY DEF Held, On
  <2>1. mgr'.exchanging = mgr.exchanging /\ mgr.exchanging # NoSlot
    BY <1>25, CheckReadFacts
  <2>2. mgr.exchanging \in Slots /\ call[mgr.exchanging].pc = "exchange"
    BY <2>1 DEF Types, Manager, Held, On
  <2>3. mgr.exchanging # c
    BY <1>25, <2>1, <2>2, CheckReadFacts
  <2>4. call'[mgr.exchanging].pc = "exchange"
    BY <1>25, <2>2, <2>3, CheckReadFacts DEF Kept
  <2> QED
    BY <2>1, <2>4
<1>26. ASSUME NEW c \in Slots, signIn(c) PROVE Held'
  BY <1>26, SignInFacts, SessionAssumption DEF Types, Manager, Held, On, Kept
<1>27. ASSUME NEW c \in Slots, closeSheet(c) PROVE Held'
  BY <1>27, CloseSheetFacts, SessionAssumption DEF Types, Manager, Held, On, Kept
<1>28. ASSUME NEW c \in Slots, answerConsent(c) PROVE Held'
  BY <1>28, AnswerConsentFacts, SessionAssumption DEF Types, Manager, Held, On, Kept
<1>29. ASSUME NEW c \in Slots, withdrawConsent(c) PROVE Held'
  BY <1>29, WithdrawConsentFacts, SessionAssumption DEF Types, Manager, Held, On, Kept
<1>30. ASSUME NEW c \in Slots, signOut(c) \/ deleteAccount(c) \/ appleRevoked(c) PROVE Held'
  BY <1>30, BegunFacts, SessionAssumption DEF Types, Manager, Held, On, Kept, SameManager
<1>31. ASSUME NEW c \in Slots, start(c) \/ foreground(c) PROVE Held'
  BY <1>31, LaunchedFacts, SessionAssumption DEF Types, Manager, Held, On, Kept
<1>32. ASSUME NEW c \in Slots, Resumes(c) PROVE Held'
  BY <1>32, <1>6, <1>7, <1>8, <1>9
  DEF Resumes
<1>33. ASSUME NEW c \in Slots, Answers(c) PROVE Held'
  BY <1>33, <1>10, <1>11, <1>12, <1>13, <1>14, <1>15, <1>16, <1>17, <1>18, <1>19, <1>20, <1>21,
     <1>22, <1>23, <1>24, <1>25
  DEF Answers
<1>34. ASSUME NEW c \in Slots, Starts(c) PROVE Held'
  BY <1>34, <1>26, <1>27, <1>28, <1>29, <1>30, <1>31
  DEF Starts
<1>35. CASE TokenRead \/ RunEnds \/ Events
  BY <1>35, <1>1, <1>2, <1>3, <1>4, <1>5
  DEF Events
<1>36. CASE UNCHANGED vars
  BY <1>36 DEF vars, Held, On
<1> QED
  BY <1>32, <1>33, <1>34, <1>35, <1>36 DEF Next

\* Where the calls stand to the session.
LEMMA PlacedStep ==
    ASSUME Types, Waited, Orderly, Placed, [Next]_vars
    PROVE  Placed'
<1>1. ASSUME NEW c \in Slots, Resumes(c) PROVE Placed'
  BY <1>1, ResumedPlaced, SignInFinishedPlaced, EndWaitedPlaced, RevokeWaitedPlaced
  DEF Resumes
<1>2. ASSUME NEW c \in Slots, Answers(c) PROVE Placed'
  BY <1>2, ForgetPlaced, ForgottenPlaced, DeletionPlaced, ExchangeEndsPlaced,
     OrphanDroppedPlaced, ExchangeAdoptedPlaced, ConsentReadPlaced, QuestionShownPlaced,
     ConsentGivenPlaced, QuestionSettledPlaced, ConsentWithdrawnPlaced, SessionReadPlaced,
     RefreshedPlaced, AppleAskedPlaced, MarkReadPlaced, CheckReadPlaced
  DEF Answers
<1>3. ASSUME NEW c \in Slots, Starts(c) PROVE Placed'
  BY <1>3, SignInPlaced, CloseSheetPlaced, AnswerConsentPlaced, WithdrawConsentPlaced,
     BegunPlaced, LaunchedPlaced
  DEF Starts
<1>4. CASE TokenRead \/ RunEnds \/ Events
  BY <1>4, TokenReadPlaced, RunEndsPlaced, AskingPlaced, ScreensPlaced, KilledPlaced
  DEF Events
<1>5. CASE UNCHANGED vars
  BY <1>5 DEF vars, Placed, Exchanging, OnScreen, Watched, Launched, Launching, Named,
              StoredIsIdentity, Erased, SignedIn, On
<1> QED
  BY <1>1, <1>2, <1>3, <1>4, <1>5 DEF Next

\* Who reads a write.
LEMMA ServedStep ==
    ASSUME Types, Waited, Orderly, Placed, Served, [Next]_vars
    PROVE  Served'
<1>1. ASSUME NEW c \in Slots, Resumes(c) PROVE Served'
  BY <1>1, ResumedServed, SignInFinishedServed, EndWaitedServed, RevokeWaitedServed
  DEF Resumes
<1>2. ASSUME NEW c \in Slots, Answers(c) PROVE Served'
  BY <1>2, ForgetServed, ForgottenServed, DeletionServed, ExchangeEndsServed,
     OrphanDroppedServed, ExchangeAdoptedServed, ConsentReadServed, QuestionShownServed,
     ConsentGivenServed, QuestionSettledServed, ConsentWithdrawnServed, SessionReadServed,
     RefreshedServed, AppleAskedServed, MarkReadServed, CheckReadServed
  DEF Answers
<1>3. ASSUME NEW c \in Slots, Starts(c) PROVE Served'
  BY <1>3, SignInServed, CloseSheetServed, AnswerConsentServed, WithdrawConsentServed,
     BegunServed, LaunchedServed
  DEF Starts
<1>4. CASE TokenRead \/ RunEnds \/ Events
  BY <1>4, TokenReadServed, RunEndsServed, AskingServed, ScreensServed, KilledServed
  DEF Events
<1>5. CASE UNCHANGED vars
  BY <1>5 DEF vars, Served, CheckedOwn, PassOwn, Unserved, Settled, Read, Due, Reader, Returning,
              Checking, Ending, SignedIn
<1> QED
  BY <1>1, <1>2, <1>3, <1>4, <1>5 DEF Next

\* The question and its mark.
LEMMA AskedStep ==
    ASSUME Types, Waited, Orderly, ~Outlived, Placed, Served, Asked, [Next]_vars
    PROVE  Asked'
<1>1. ASSUME NEW c \in Slots, Resumes(c) PROVE Asked'
  BY <1>1, ResumedAsked, SignInFinishedAsked, EndWaitedAsked, RevokeWaitedAsked
  DEF Resumes
<1>2. ASSUME NEW c \in Slots, Answers(c) PROVE Asked'
  BY <1>2, ForgetAsked, ForgottenAsked, DeletionAsked, ExchangeEndsAsked, OrphanDroppedAsked,
     ExchangeAdoptedAsked, ConsentReadAsked, QuestionShownAsked, ConsentGivenAsked,
     QuestionSettledAsked, ConsentWithdrawnAsked, SessionReadAsked, RefreshedAsked,
     AppleAskedAsked, MarkReadAsked, CheckReadAsked
  DEF Answers
<1>3. ASSUME NEW c \in Slots, Starts(c) PROVE Asked'
  BY <1>3, SignInAsked, CloseSheetAsked, AnswerConsentAsked, WithdrawConsentAsked, BegunAsked,
     LaunchedAsked
  DEF Starts
<1>4. CASE TokenRead \/ RunEnds \/ Events
  BY <1>4, TokenReadAsked, RunEndsAsked, AskingAsked, ScreensAsked, KilledAsked
  DEF Events
<1>5. CASE UNCHANGED vars
  BY <1>5 DEF vars, Asked, NoneShown, NoneMarked, MarksOwn, AsksOnce, Elsewhere, MarkKnown,
              AnswerFirst, Unanswered, Checking, Ending, Forgetting, SignedIn
<1> QED
  BY <1>1, <1>2, <1>3, <1>4, <1>5 DEF Next

\* Who sees the question.
LEMMA SeenStep ==
    ASSUME Types, Waited, Orderly, Placed, Served, Asked, Seen, [Next]_vars
    PROVE  Seen'
<1>1. ASSUME NEW c \in Slots, Resumes(c) PROVE Seen'
  BY <1>1, ResumedSeen, SignInFinishedSeen, EndWaitedSeen, RevokeWaitedSeen
  DEF Resumes
<1>2. ASSUME NEW c \in Slots, Answers(c) PROVE Seen'
  BY <1>2, ForgetSeen, ForgottenSeen, DeletionSeen, ExchangeEndsSeen, OrphanDroppedSeen,
     ExchangeAdoptedSeen, ConsentReadSeen, QuestionShownSeen, ConsentGivenSeen,
     QuestionSettledSeen, ConsentWithdrawnSeen, SessionReadSeen, RefreshedSeen,
     AppleAskedSeen, MarkReadSeen, CheckReadSeen
  DEF Answers
<1>3. ASSUME NEW c \in Slots, Starts(c) PROVE Seen'
  BY <1>3, SignInSeen, CloseSheetSeen, AnswerConsentSeen, WithdrawConsentSeen, BegunSeen,
     LaunchedSeen
  DEF Starts
<1>4. CASE TokenRead \/ RunEnds \/ Events
  BY <1>4, TokenReadSeen, RunEndsSeen, AskingSeen, ScreensSeen, KilledSeen
  DEF Events
<1>5. CASE UNCHANGED vars
  BY <1>5 DEF vars, Seen, AnswersOwn, Blank, Saving, QuestionVisible, Replying, Launching, SignedIn
<1> QED
  BY <1>1, <1>2, <1>3, <1>4, <1>5 DEF Next

-----------------------------------------------------------------------------
(* The theorems.                                                             *)

LEMMA InitHolds ==
    ASSUME Init
    PROVE  Types /\ Waited /\ Held /\ Placed /\ Served /\ Asked /\ Seen
<1>1. /\ call = [c \in Slots |-> NoCall] /\ \A c \in Slots : call[c].pc = "idle"
      /\ mgr = Fresh /\ mgr.identity = NoUser /\ mgr.launch = "off" /\ mgr.exchanging = NoSlot
      /\ pass = NoPass /\ pass.step = "idle" /\ ui = SignedOut /\ ui.prompt = "none"
      /\ disk = [stored |-> NoUser, mark |-> FALSE] /\ disk.stored = NoUser /\ ~disk.mark
      /\ hist = [writes |-> "read", covered |-> FALSE]
  BY DEF Init, NoCall, Fresh, SignedOut, NoPass
<1>2. Types
  BY <1>1, ConstantFacts DEF Types, Device, History
<1>3. Waited /\ Held
  BY <1>1 DEF Waited, Held, NoPass
<1>4. Exchanging /\ OnScreen /\ Named
  BY <1>1 DEF Exchanging, OnScreen, Named, Acting, SignedIn, On
<1>5. Watched /\ Launched
  BY <1>1 DEF Watched, Watching, Launched, Launching, SignedIn
<1>6. StoredIsIdentity /\ Erased
  BY <1>1 DEF StoredIsIdentity, Erased
<1>7. Served
  BY <1>1 DEF Served, CheckedOwn, CheckSteps, PassOwn, Unserved, Settled, Read, Due
<1>8. NoneShown /\ NoneMarked /\ MarksOwn /\ MarkKnown /\ AnswerFirst
  BY <1>1 DEF NoneShown, NoneMarked, MarksOwn, MarkKnown, AnswerFirst
<1>9. AsksOnce
  BY <1>1 DEF AsksOnce
<1>10. ui = SignedOut /\ ~SignedIn /\ ~mgr.awaiting /\ mgr.current = NoSlot /\ ~ui.shown
  BY <1>1 DEF Fresh, SignedOut, SignedIn
<1>11. AnswersOwn /\ Blank
  BY <1>1, <1>10 DEF AnswersOwn, Blank
<1>12. Saving /\ QuestionVisible
  BY <1>10 DEF Saving, QuestionVisible
<1> QED
  BY <1>2, <1>3, <1>4, <1>5, <1>6, <1>7, <1>8, <1>9, <1>11, <1>12 DEF Placed, Asked, Seen

\* The manager's state is always of its types, a trailing pass or a waiting call
\* has a pass in flight, and the exchange that runs is a call's.
THEOREM TypeCorrect == Spec => []TypeOK
<1>1. Init => Types /\ Waited /\ Held
  BY InitHolds
<1>2. Types /\ Waited /\ Held /\ [Next]_vars => Types' /\ Waited' /\ Held'
  BY TypesStep, HeldStep
<1>3. Types /\ Waited /\ Held => TypeOK
  BY DEF Types, Waited, Held, TypeOK, Manager, Screen, Passing, Device, History
<1> QED
  BY <1>1, <1>2, <1>3, PTL DEF Spec

\* What the calls keep while the auth client answers in turn and the stored
\* session can be read.
THEOREM CallsInPlace ==
    ASSUME Orderly
    PROVE  Spec => [](Types /\ Waited /\ Placed /\ Served)
<1>1. Init => Types /\ Waited /\ Placed /\ Served
  BY InitHolds
<1>2. Types /\ Waited /\ Placed /\ Served /\ [Next]_vars => Types' /\ Waited' /\ Placed' /\ Served'
  BY TypesStep, PlacedStep, ServedStep
<1> QED
  BY <1>1, <1>2, PTL DEF Spec

\* No pass runs while the account is erased, and the account on screen is the
\* one whose session the requests carry, however the calls interleave, where the
\* auth client answers in turn and the launch reads the stored session (Orderly).
THEOREM AlwaysConsistent ==
    ASSUME Orderly
    PROVE  Spec => []Consistent
<1>1. TypeOK /\ Placed => Consistent
  BY DEF Placed, Erased, Consistent, DeletionAlone
<1> QED
  BY <1>1, TypeCorrect, CallsInPlace, PTL

\* A local write made while the phone is signed in and online is read by a pass:
\* once nothing is under way, it waits for a token or an answer at most.  It
\* assumes Orderly.  The two exceptions are WritesServed's own: a deletion in
\* flight after the write that then failed, and a foreground that forgot that a
\* pass waits for a token and could not refresh the session.  Both are recorded
\* by the steps that put the write off; neither is ruled out of the steps.
THEOREM WritesServedAlways ==
    ASSUME Orderly
    PROVE  Spec => []WritesServed
<1>1. Read => WritesServed
  <2> SUFFICES ASSUME Read, Unserved, Quiet, pass.step = "idle", mgr.identity # NoUser, mgr.online,
                      ~pass.token, ~mgr.awaiting
               PROVE  FALSE
    BY DEF WritesServed, Unserved
  <2>1. Due /\ \A c \in Slots : call[c].pc = "idle"
    BY DEF Unserved, Due, SignedIn, Quiet, Idle, On
  <2>2. ~Reader /\ \A c \in Slots : ~Returning(c)
    BY <2>1 DEF Reader, Checking, CheckSteps, Ending, Enders, Returning, Watching
  <2> QED
    BY <2>1, <2>2 DEF Read
<1>2. Served => Read
  BY DEF Served
<1> QED
  BY <1>1, <1>2, CallsInPlace, PTL

\* A session is signed in only by its exchange, or by the launch, from the
\* session the auth client stores: no call of an ended session brings it back.
LEMMA NoneBackStep ==
    ASSUME Types, Waited, Orderly, Placed, [Next]_vars
    PROVE  BringsNoneBack
<1> SUFFICES ASSUME mgr.identity = NoUser, mgr'.identity # NoUser
             PROVE  disk'.stored = mgr'.identity
  BY DEF BringsNoneBack
<1>1. CASE \E c \in Slots : ExchangeAdopted(c)
  BY <1>1, ExchangeAdoptedFacts
<1>2. CASE \E c \in Slots : AppleAsked(c)
  <2>1. PICK c \in Slots : AppleAsked(c)
    BY <1>2
  <2>2. /\ UNCHANGED disk /\ mgr'.identity = call[c].user
        /\ call[c].pc = "appleLaunch" \/ (call[c].pc = "apple" /\ call[c].same)
    BY <2>1, AppleAskedFacts
  <2>3. call[c].pc # "apple" \/ ~call[c].same
    BY DEF Placed, Watched, Watching, SignedIn
  <2> QED
    BY <2>2, <2>3 DEF Placed, Launched, Launching
<1>3. ASSUME NEW c \in Slots, Answers(c), ~ExchangeAdopted(c), ~AppleAsked(c) PROVE FALSE
  BY <1>3, ExchangeEndsFacts, OrphanDroppedFacts, ConsentReadFacts, QuestionShownFacts,
     ConsentGivenFacts, QuestionSettledFacts, ConsentWithdrawnFacts, ForgottenFacts, ForgetFacts,
     DeletionFacts, SessionReadFacts, RefreshedFacts, MarkReadFacts, CheckReadFacts
  DEF Answers, SignedIn, SameManager
<1>4. ASSUME NEW c \in Slots, Resumes(c) PROVE FALSE
  BY <1>4, ResumedFacts, SignInFinishedFacts, EndWaitedFacts, RevokeWaitedFacts DEF Resumes, SameManager
<1>5. ASSUME NEW c \in Slots, Starts(c) PROVE FALSE
  BY <1>5, SignInFacts, CloseSheetFacts, AnswerConsentFacts, WithdrawConsentFacts, BegunFacts,
     LaunchedFacts
  DEF Starts, SameManager
<1>6. CASE TokenRead \/ RunEnds \/ Events
  <2>1. CASE Killed
    BY <2>1, KilledFacts DEF Fresh
  <2> QED
    BY <1>6, <2>1, TokenReadFacts, RunEndsFacts, AskingFacts, ScreenFacts DEF Events
<1>7. CASE UNCHANGED vars
  BY <1>7 DEF vars
<1> QED
  BY <1>1, <1>2, <1>3, <1>4, <1>5, <1>6, <1>7 DEF Next

\* A pass goes on from its token only in TokenRead.
LEMMA RunsStep ==
    ASSUME Types, Waited, [Next]_vars, pass.step # "run", pass'.step = "run"
    PROVE  TokenRead
<1>1. mgr' \in Manager
  BY TypesStep DEF Types
<1>2. \A w \in SUBSET Slots : ~runSync(w)
  BY <1>1, SyncFacts
<1>3. ASSUME NEW c \in Slots, Answers(c) PROVE FALSE
  BY <1>2, <1>3, ExchangeEndsFacts, OrphanDroppedFacts, ExchangeAdoptedFacts, ConsentReadFacts,
     QuestionShownFacts, ConsentGivenFacts, QuestionSettledFacts, ConsentWithdrawnFacts, ForgottenFacts,
     ForgetFacts, DeletionFacts, SessionReadFacts, RefreshedFacts, AppleAskedFacts, MarkReadFacts,
     CheckReadFacts
  DEF Answers
<1>4. ASSUME NEW c \in Slots, Resumes(c) PROVE FALSE
  BY <1>2, <1>4, ResumedFacts, SignInFinishedFacts, EndWaitedFacts, RevokeWaitedFacts DEF Resumes
<1>5. ASSUME NEW c \in Slots, Starts(c) PROVE FALSE
  BY <1>5, SignInFacts, CloseSheetFacts, AnswerConsentFacts, WithdrawConsentFacts, BegunFacts,
     LaunchedFacts
  DEF Starts
<1>6. CASE RunEnds \/ Events
  BY <1>2, <1>6, RunEndsFacts, AskingFacts, ScreenFacts, KilledFacts DEF Events, NoPass
<1>7. CASE UNCHANGED vars
  BY <1>7 DEF vars
<1> QED
  BY <1>3, <1>4, <1>5, <1>6, <1>7 DEF Next

\* A pass that starts its requests found the sign-in's question answered, or its
\* session is being ended.
LEMMA AnsweredStep ==
    ASSUME Types, Waited, Served, Asked, [Next]_vars
    PROVE  WaitsForAnswer
<1> SUFFICES ASSUME pass.step # "run", pass'.step = "run", mgr.awaiting
             PROVE  \E c \in Slots : call[c].pc \in EndSteps
  BY DEF WaitsForAnswer
<1>1. TokenRead
  BY RunsStep
<1>2. pass.step = "token" /\ mgr.identity = pass.user /\ ~Deleting
  <2>1. pass.token \in BOOLEAN
    BY DEF Types, Passing
  <2> QED
    BY <1>1, <2>1, TokenReadFacts, FollowFacts
<1>3. SignedIn
  BY <1>2 DEF Served, PassOwn, SignedIn
<1>4. Ending
  BY <1>2, <1>3 DEF Asked, AnswerFirst, Unanswered
<1> QED
  BY <1>2, <1>4 DEF Ending, Enders, EndSteps, Deleting, DeletionSteps

\* No step brings an ended session back, or starts a pass before the sign-in's
\* question is answered.  It assumes Orderly, and that no mark outlives its session.
THEOREM StepsInOrderAlways ==
    ASSUME Orderly, ~Outlived
    PROVE  Spec => StepsInOrder
<1>1. Init => Types /\ Waited /\ Placed /\ Served /\ Asked
  BY InitHolds
<1>2. Types /\ Waited /\ Placed /\ Served /\ Asked /\ [Next]_vars
        => Types' /\ Waited' /\ Placed' /\ Served' /\ Asked'
  BY TypesStep, PlacedStep, ServedStep, AskedStep
<1>3. Types /\ Waited /\ Placed /\ Served /\ Asked /\ [Next]_vars => [BringsNoneBack /\ WaitsForAnswer]_vars
  BY NoneBackStep, AnsweredStep
<1> QED
  BY <1>1, <1>2, <1>3, PTL DEF Spec, StepsInOrder

\* A sign-in that waits for the consent question never waits for one nobody
\* sees, but for the case QuestionVisible records: an answer or a withdrawal of
\* the Account screen took the question off the sheet.  The Account screen may
\* ask at any time, also while the manager looks for a question left open.  It
\* assumes Orderly, and that no mark outlives its session.
THEOREM QuestionVisibleAlways ==
    ASSUME Orderly, ~Outlived
    PROVE  Spec => []QuestionVisible
<1>1. Init => Types /\ Waited /\ Placed /\ Served /\ Asked /\ Seen
  BY InitHolds
<1>2. Types /\ Waited /\ Placed /\ Served /\ Asked /\ Seen /\ [Next]_vars
        => Types' /\ Waited' /\ Placed' /\ Served' /\ Asked' /\ Seen'
  BY TypesStep, PlacedStep, ServedStep, AskedStep, SeenStep
<1>3. Seen => QuestionVisible
  BY DEF Seen
<1> QED
  BY <1>1, <1>2, <1>3, PTL DEF Spec

=============================================================================
