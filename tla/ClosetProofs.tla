---------------------------- MODULE ClosetProofs ----------------------------
(***************************************************************************)
(* Proofs about Closet: that no photo of a piece is ever removed and none is  *)
(* left behind, that the list at rest is the stored one, and that a save's    *)
(* indicator is right, for any number of pieces, loads, writes and copies.    *)
(***************************************************************************)
EXTENDS Closet, TLAPS

Contents == {"unchanged", "remove", "replace"}
Reader == [pc : ReadSteps, got : List, same : BOOLEAN, older : BOOLEAN, beaten : BOOLEAN]
Reloader == [pc : ReadSteps \cup {"wait", "tidy"}, got : List, same : BOOLEAN, older : BOOLEAN,
             beaten : BOOLEAN, again : BOOLEAN, waits : BOOLEAN]
Loader == [pc : {"off", "open", "ask", "answered", "tidy", "await", "files", "names", "delete"},
           got : List, files : SUBSET Photos, whole : BOOLEAN]
Saver == [pc : {"off", "gate", "read", "copy", "write", "undo", "drop", "tidy", "ask", "answered"},
          kind : {"none", "create", "update", "delete", "seed"}, item : Items \cup {NoItem},
          photo : Contents, copy : Photos \cup {0}, old : Photos \cup {0}, shown : List, got : List,
          sweep : Launches \cup {NoLaunch}]
Tidier == [pc : {"off", "list", "next", "clear"}, todo : SUBSET (Items \X Photos),
           job : (Items \X Photos) \cup {NoJob}]
Rows == [st : {"none", "live", "gone"}, ver : 0..MaxWrites, photo : Photos \cup {0}]
Screens == [status : {"loading", "ready", "error"}, items : List, refreshing : BOOLEAN,
            mutating : BOOLEAN, failed : BOOLEAN]

\* The types alone.
Types ==
    /\ row \in [Items -> Rows] /\ file \subseteq Photos /\ writes \in 0..MaxWrites
    /\ copies \in 0..MaxCopies /\ ui \in Screens
    /\ ctl \in [repository : BOOLEAN, sweep : Launches \cup {NoLaunch}]
    /\ load \in [Launches -> Loader] /\ refresh \in Reader /\ reload \in Reloader /\ save \in Saver
    /\ tidy \in [Cleaners -> Tidier]
    /\ missed \in [list : BOOLEAN, tidy : BOOLEAN, file : BOOLEAN]
    /\ save.kind \in {"create", "update", "delete"} => save.item \in Items
    /\ save.pc = "read" => save.kind = "update"

-----------------------------------------------------------------------------
(* Type correctness.                                                         *)

LEMMA ConstantFacts ==
    /\ 0 \in 0..MaxWrites /\ 0 \in 0..MaxCopies /\ 0 \notin Photos /\ Nothing \in List
    /\ NoRead \in Reader /\ NoReload \in Reloader /\ NoLoad \in Loader /\ NoSave \in Saver
    /\ NoTidy \in Tidier /\ NoRow \in Rows /\ Loading \in Screens
    /\ "reload" \in Cleaners /\ "save" \in Cleaners /\ Launches \subseteq Cleaners
<1>1. 0 \in 0..MaxWrites /\ 0 \in 0..MaxCopies /\ 0 \notin Photos
  BY ClosetAssumption DEF Photos
<1>2. Nothing \in List
  BY <1>1 DEF Nothing, List
<1>3. NoRead \in Reader /\ NoReload \in Reloader /\ NoLoad \in Loader
  BY <1>2 DEF NoRead, Reader, NoReload, Reloader, NoLoad, Loader, ReadSteps
<1>4. NoSave \in Saver
  BY <1>2 DEF NoSave, Saver, Contents
<1>5. NoTidy \in Tidier /\ NoRow \in Rows
  BY <1>1 DEF NoTidy, Tidier, NoRow, Rows
<1>6. Loading \in Screens
  BY <1>2 DEF Loading, Screens
<1> QED
  BY <1>1, <1>2, <1>3, <1>4, <1>5, <1>6 DEF Cleaners

LEMMA ListedFacts == Types => Listed \in List
<1> SUFFICES ASSUME Types PROVE Listed \in List
  OBVIOUS
<1>1. \A i \in Items : row[i].ver \in 0..MaxWrites
  BY DEF Types, Rows
<1> QED
  BY <1>1, ConstantFacts DEF Listed, List

\* The three outcomes of asking for a reload.
LEMMA AskFacts ==
    ASSUME Types, reloadRun
    PROVE  /\ reload' \in Reloader
           /\ \/ reload.pc # "off" /\ reload' = [reload EXCEPT !.again = TRUE]
              \/ reload.pc = "off" /\ Ready /\ reload' = [NoReload EXCEPT !.pc = "wait", !.waits = Saving]
              \/ reload.pc = "off" /\ ~Ready /\ reload' = reload
<1>1. Saving \in BOOLEAN
  BY DEF Saving
<1>2. reload \in Reloader
  BY DEF Types
<1>3. [reload EXCEPT !.again = TRUE] \in Reloader
  BY <1>2 DEF Reloader
<1>4. [NoReload EXCEPT !.pc = "wait", !.waits = Saving] \in Reloader
  BY <1>1, ConstantFacts DEF Reloader
<1> QED
  BY <1>2, <1>3, <1>4 DEF reloadRun

\* Both outcomes of a reload that ends.
LEMMA OverFacts ==
    ASSUME Types, NEW again \in BOOLEAN, ReloadOver(again)
    PROVE  /\ reload' \in Reloader
           /\ \/ (again \/ reload.again) /\ Ready /\ reload' = [NoReload EXCEPT !.pc = "wait", !.waits = Saving]
              \/ ~((again \/ reload.again) /\ Ready) /\ reload' = NoReload
<1>1. Saving \in BOOLEAN
  BY DEF Saving
<1>2. [NoReload EXCEPT !.pc = "wait", !.waits = Saving] \in Reloader
  BY <1>1, ConstantFacts DEF Reloader
<1> QED
  BY <1>2, ConstantFacts DEF ReloadOver

LEMMA ReadFacts ==
    ASSUME Types
    PROVE  /\ Begun(refresh) \in Reader /\ Passed(refresh) \in Reader /\ Outdated(refresh) \in Reader
           /\ Begun(reload) \in Reloader /\ Passed(reload) \in Reloader /\ Outdated(reload) \in Reloader
           /\ [Outdated(reload) EXCEPT !.waits = FALSE] \in Reloader
<1>1. refresh \in Reader /\ reload \in Reloader
  BY DEF Types
<1>2. Begun(refresh) \in Reader /\ Passed(refresh) \in Reader /\ Outdated(refresh) \in Reader
  BY <1>1 DEF Begun, Passed, Outdated, Reader
<1>3. Begun(reload) \in Reloader /\ Passed(reload) \in Reloader /\ Outdated(reload) \in Reloader
  BY <1>1 DEF Begun, Passed, Outdated, Reloader
<1>4. [Outdated(reload) EXCEPT !.waits = FALSE] \in Reloader
  BY <1>3 DEF Reloader
<1> QED
  BY <1>2, <1>3, <1>4

LEMMA TypesInit == Init => Types
BY ConstantFacts, ClosetAssumption DEF Init, Types, Closed, NoSave

LEMMA TypesRows ==
    ASSUME Types, NEW i \in Items, NEW st \in {"live", "gone"}, land(i, st)
    PROVE  Types'
<1>1. writes + 1 \in 0..MaxWrites
  BY ClosetAssumption DEF land, Types
<1>2. row[i] \in Rows
  BY DEF Types
<1>3. [row EXCEPT ![i].st = st, ![i].ver = writes + 1] \in [Items -> Rows]
  BY <1>1, <1>2 DEF Types, Rows
<1> QED
  BY <1>1, <1>3, AskFacts DEF land, Types

LEMMA JobFacts ==
    ASSUME Types, NEW c \in Cleaners, NEW job, NextJob(c, job)
    PROVE  tidy' \in [Cleaners -> Tidier]
<1> DEFINE left == tidy[c].todo \ {job}
<1>0. tidy[c] \in Tidier /\ left \in SUBSET (Items \X Photos)
  BY DEF Types, Tidier
<1>1. [tidy[c] EXCEPT !.pc = "next", !.todo = left, !.job = NoJob] \in Tidier
  <2> HIDE DEF left
  <2> QED
    BY <1>0 DEF Tidier
<1>2. tidy' = [tidy EXCEPT ![c] = [tidy[c] EXCEPT !.pc = "next", !.todo = @ \ {job}, !.job = NoJob]]
  BY DEF Types, NextJob
<1> QED
  BY <1>1, <1>2 DEF Types

LEMMA TypesTidy ==
    ASSUME Types, NEW c \in Cleaners, TidyAnswers(c)
    PROVE  Types'
<1>0. tidy[c] \in Tidier /\ tidy \in [Cleaners -> Tidier]
  BY DEF Types
<1>1. CASE TidyLists(c)
  <2> DEFINE todo == {<<i, row[i].photo>> : i \in {j \in Items : Pending(j) /\ (c = "save" => save.item = j)}}
  <2>1. \A i \in Items : Pending(i) => row[i].photo \in Photos
    BY DEF Types, Rows, Pending
  <2>2. todo \subseteq Items \X Photos
    BY <2>1
  <2>3. tidy' = [tidy EXCEPT ![c] = [NoTidy EXCEPT !.pc = "next", !.todo = todo]]
    BY <1>1 DEF TidyLists
  <2> HIDE DEF todo
  <2>4. [NoTidy EXCEPT !.pc = "next", !.todo = todo] \in Tidier
    BY <2>2, ConstantFacts DEF Tidier
  <2>5. missed' \in [list : BOOLEAN, tidy : BOOLEAN, file : BOOLEAN]
    BY <1>1 DEF TidyLists, Types
  <2>6. tidy' \in [Cleaners -> Tidier]
    BY <1>0, <2>3, <2>4
  <2> QED
    BY <1>1, <2>5, <2>6 DEF TidyLists, Types, disk, rows
<1>2. CASE TidyClears(c)
  <2>1. tidy' \in [Cleaners -> Tidier]
    BY <1>2, JobFacts DEF TidyClears
  <2>2. row' \in [Items -> Rows] /\ reload' \in Reloader
    <3>1. CASE UNCHANGED <<row, reload>>
      BY <3>1 DEF Types
    <3>2. CASE row' = [row EXCEPT ![tidy[c].job[1]].photo = 0] /\ reloadRun
      <4>1. ASSUME NEW i \in Items PROVE [row[i] EXCEPT !.photo = 0] \in Rows
        BY DEF Types, Rows
      <4>2. row \in [Items -> Rows]
        BY DEF Types
      <4>3. row' \in [Items -> Rows]
        BY <3>2, <4>1, <4>2
      <4> QED
        BY <3>2, <4>3, AskFacts
    <3> QED
      BY <1>2, <3>1, <3>2 DEF TidyClears
  <2> QED
    BY <1>2, <2>1, <2>2 DEF TidyClears, Types
<1>3. CASE TidyFails(c)
  <2>1. tidy' \in [Cleaners -> Tidier]
    BY <1>3, JobFacts DEF TidyFails
  <2> QED
    BY <1>3, <2>1 DEF TidyFails, Types, Excused, disk, rows
<1>4. ASSUME NEW job \in tidy[c].todo, TidyDeletes(c, job) PROVE Types'
  <2>1. job \in Items \X Photos
    BY <1>0 DEF Tidier
  <2>2. [tidy[c] EXCEPT !.pc = "clear", !.job = job] \in Tidier
    BY <1>0, <2>1 DEF Tidier
  <2>3. tidy' = [tidy EXCEPT ![c] = [tidy[c] EXCEPT !.pc = "clear", !.job = job]]
    BY <1>0, <1>4 DEF TidyDeletes
  <2> QED
    BY <1>4, <2>2, <2>3 DEF TidyDeletes, Types, rows
<1> QED
  BY <1>1, <1>2, <1>3, <1>4 DEF TidyAnswers

LEMMA TypesLoad ==
    ASSUME Types, NEW l \in Launches, initialize(l) \/ LoadSteps(l)
    PROVE  Types'
<1>0. load[l] \in Loader /\ load \in [Launches -> Loader] /\ l \in Cleaners
  BY DEF Types, Cleaners
<1>1. ASSUME NEW pc \in {"off", "open", "ask", "answered", "tidy", "await", "files", "names", "delete"},
             LoadStep(l, pc)
      PROVE  load' \in [Launches -> Loader]
  BY <1>0, <1>1 DEF LoadStep, Loader
<1>2. CASE initialize(l) \/ LoadOpens(l) \/ SweepStarts(l)
  BY <1>1, <1>2 DEF initialize, LoadOpens, SweepStarts, Types, disk, rows
<1>3. CASE LoadAnswered(l)
  BY <1>0, <1>3, ListedFacts DEF LoadAnswered, Types, Loader, disk, rows
<1>4. CASE LoadFails(l)
  <2>1. [Loading EXCEPT !.status = "error"] \in Screens
    BY ConstantFacts DEF Screens
  <2> QED
    BY <1>0, <1>4, <2>1, ConstantFacts DEF LoadFails, Types, Excused, disk, rows
<1>5. CASE LoadLands(l)
  <2>1. [Loading EXCEPT !.status = "ready", !.items = load[l].got] \in Screens
    BY <1>0, ConstantFacts DEF Screens, Loader
  <2>2. [NoTidy EXCEPT !.pc = "list"] \in Tidier
    BY ConstantFacts DEF Tidier
  <2>3. load' \in [Launches -> Loader]
    BY <1>0, <1>5, ConstantFacts DEF LoadLands, Loader
  <2> QED
    BY <1>0, <1>5, <2>1, <2>2, <2>3 DEF LoadLands, Types, TidyStart, disk, rows
<1>6. CASE LoadTidied(l)
  BY <1>0, <1>1, <1>6, ConstantFacts DEF LoadTidied, TidyOver, Types, disk, rows
<1>7. CASE SweepLists(l)
  BY <1>0, <1>7 DEF SweepLists, Types, Loader, disk, rows
<1>8. CASE SweepNames(l)
  <2>1. PICK old \in SUBSET orphanedWardrobePhotoPaths(l) :
          load' = [load EXCEPT ![l].pc = "delete", ![l].files = old,
                               ![l].whole = old = orphanedWardrobePhotoPaths(l)]
    BY <1>8 DEF SweepNames
  <2>2. old \subseteq Photos
    BY <1>0, <2>1 DEF orphanedWardrobePhotoPaths, Loader
  <2> DEFINE whole == old = orphanedWardrobePhotoPaths(l)
  <2>3. whole \in BOOLEAN /\ load' = [load EXCEPT ![l].pc = "delete", ![l].files = old, ![l].whole = whole]
    BY <2>1
  <2> HIDE DEF whole
  <2>4. load' \in [Launches -> Loader]
    BY <1>0, <2>2, <2>3 DEF Loader
  <2> QED
    BY <1>8, <2>4 DEF SweepNames, Types, disk, rows
<1>9. CASE SweepEnds(l)
  <2>1. missed' \in [list : BOOLEAN, tidy : BOOLEAN, file : BOOLEAN]
    BY <1>0, <1>9 DEF SweepEnds, Types, Loader
  <2> QED
    BY <1>0, <1>9, <2>1, ConstantFacts DEF SweepEnds, Types, disk, rows
<1>10. ASSUME NEW p \in Photos, SweepDeletes(l, p) PROVE Types'
  <2>1. load' \in [Launches -> Loader]
    BY <1>0, <1>10 DEF SweepDeletes, Loader
  <2> QED
    BY <1>10, <2>1 DEF SweepDeletes, Types, rows
<1> QED
  BY <1>2, <1>3, <1>4, <1>5, <1>6, <1>7, <1>8, <1>9, <1>10 DEF LoadSteps

LEMMA TypesReads ==
    ASSUME Types, refreshOnce \/ Reads
    PROVE  Types'
<1>0. refresh \in Reader /\ reload \in Reloader /\ ui \in Screens /\ Saving \in BOOLEAN
  BY DEF Types, Saving
<1>1. CASE refreshOnce
  <2>1. [NoRead EXCEPT !.pc = "ask"] \in Reader
    BY ConstantFacts DEF Reader, ReadSteps
  <2>2. ui' \in Screens
    BY <1>0, <1>1, ConstantFacts DEF refreshOnce, Screens
  <2> QED
    BY <1>1, <2>1, <2>2, ReadFacts DEF refreshOnce, Types, disk, rows
<1>2. CASE RefreshAnswered
  BY <1>0, <1>2, ListedFacts DEF RefreshAnswered, Types, Reader, ReadSteps, disk, rows
<1>3. CASE RefreshLands
  <2>1. [status |-> "ready", items |-> refresh.got, refreshing |-> FALSE, mutating |-> Saving,
         failed |-> FALSE] \in Screens
    BY <1>0 DEF Screens, Reader
  <2>2. [ui EXCEPT !.refreshing = FALSE] \in Screens
    BY <1>0 DEF Screens
  <2>3. ui' \in Screens /\ reload' \in Reloader
    BY <1>0, <1>3, <2>1, <2>2, ReadFacts DEF RefreshLands
  <2> QED
    BY <1>3, <2>3, ConstantFacts DEF RefreshLands, Types, disk, rows
<1>4. CASE RefreshFails
  <2>1. ui' \in Screens
    BY <1>0, <1>4, ConstantFacts DEF RefreshFails, Screens, Reader
  <2> QED
    BY <1>4, <2>1, ConstantFacts DEF RefreshFails, Types, disk, rows
<1>5. CASE ReloadReads
  <2>1. [NoReload EXCEPT !.pc = "ask", !.again = reload.again] \in Reloader
    BY <1>0, ConstantFacts DEF Reloader, ReadSteps
  <2> QED
    BY <1>5, <2>1, ReadFacts DEF ReloadReads, Types, disk, rows
<1>6. CASE ReloadAnswered
  BY <1>0, <1>6, ListedFacts DEF ReloadAnswered, Types, Reloader, ReadSteps, disk, rows
<1>7. CASE ReloadFails
  <2>1. missed' \in [list : BOOLEAN, tidy : BOOLEAN, file : BOOLEAN]
    BY <1>7 DEF ReloadFails, Types
  <2> QED
    BY <1>7, <2>1, OverFacts DEF ReloadFails, Types, disk, rows
<1>8. CASE ReloadLands
  <2>1. CASE ~reload.same
    BY <1>8, <2>1, OverFacts DEF ReloadLands, Types, disk, rows
  <2>2. CASE reload.same
    <3>1. [NoReload EXCEPT !.pc = "tidy", !.again = reload.again] \in Reloader
      BY <1>0, ConstantFacts DEF Reloader
    <3>2. [NoTidy EXCEPT !.pc = "list"] \in Tidier
      BY ConstantFacts DEF Tidier
    <3>3. missed' \in [list : BOOLEAN, tidy : BOOLEAN, file : BOOLEAN]
      BY <1>8, <2>2 DEF ReloadLands, Types
    <3>4. ui' \in Screens /\ refresh' \in Reader
      BY <1>0, <1>8, <2>2, ReadFacts DEF ReloadLands, Screens, Reloader
    <3> QED
      BY <1>8, <2>2, <3>1, <3>2, <3>3, <3>4, ConstantFacts DEF ReloadLands, TidyStart, Types, disk, rows
  <2> QED
    BY <2>1, <2>2
<1>9. CASE ReloadTidied
  BY <1>9, OverFacts, ConstantFacts DEF ReloadTidied, TidyOver, Types, disk, rows
<1> QED
  BY <1>1, <1>2, <1>3, <1>4, <1>5, <1>6, <1>7, <1>8, <1>9 DEF Reads

\* What ends every save.
LEMMA SaveOverFacts ==
    ASSUME Types, SaveOver
    PROVE  /\ save' = NoSave /\ refresh' = Outdated(refresh)
           /\ reload' = [Outdated(reload) EXCEPT !.waits = FALSE]
           /\ save' \in Saver /\ refresh' \in Reader /\ reload' \in Reloader
BY ReadFacts, ConstantFacts DEF SaveOver

LEMMA AskListFacts ==
    ASSUME Types, NEW shown \in List, SaveReadsList(shown)
    PROVE  /\ save' \in Saver
           /\ save'.pc = "ask" /\ save'.kind = "none" /\ save'.item = save.item
           /\ save'.photo = "unchanged" /\ save'.copy = 0 /\ save'.old = 0 /\ save'.shown = shown
<1>1. save \in Saver
  BY DEF Types
<1>2. [NoSave EXCEPT !.pc = "ask", !.item = save.item, !.shown = shown] \in Saver
  BY <1>1, ConstantFacts DEF Saver
<1> QED
  BY <1>2 DEF SaveReadsList, NoSave

\* What a save carries when it begins.
LEMMA MutateFacts ==
    ASSUME Types, NEW kind \in {"create", "update", "delete", "seed"}, NEW i \in Items \cup {NoItem},
           NEW photo \in Contents, mutate(kind, i, photo)
    PROVE  /\ save' \in Saver
           /\ save'.kind = kind /\ save'.item = i /\ save'.photo = photo /\ save'.copy = 0
           /\ save'.old = 0 /\ save'.sweep = ctl.sweep
           /\ save'.pc \in {"gate", "read", "copy", "write"}
           /\ ctl.sweep # NoLaunch <=> save'.pc = "gate"
           /\ save'.pc = "copy" => photo = "replace"
           /\ kind = "update" => save'.pc \in {"gate", "read"}
           /\ save'.pc = "read" => kind = "update"
<1> DEFINE s == [NoSave EXCEPT !.kind = kind, !.item = i, !.photo = photo, !.shown = ui.items,
                               !.sweep = ctl.sweep]
<1>1. ui.items \in List /\ ctl.sweep \in Launches \cup {NoLaunch}
  BY DEF Types, Screens
<1>2. s \in Saver
  BY <1>1, ConstantFacts DEF Saver
<1>3. /\ s.kind = kind /\ s.item = i /\ s.photo = photo /\ s.copy = 0 /\ s.old = 0
      /\ s.sweep = ctl.sweep
  BY DEF NoSave
<1>4. save' = [s EXCEPT !.pc = IF ctl.sweep # NoLaunch THEN "gate" ELSE Operation(s)]
  BY DEF mutate
<1> HIDE DEF s
<1>5. Operation(s) \in {"read", "copy", "write"} /\ (Operation(s) = "copy" => photo = "replace")
      /\ (kind = "update" <=> Operation(s) = "read")
  BY <1>3 DEF Operation
<1> DEFINE pc == IF ctl.sweep # NoLaunch THEN "gate" ELSE Operation(s)
<1>6. pc \in {"gate", "read", "copy", "write"} /\ (ctl.sweep # NoLaunch <=> pc = "gate")
      /\ (pc = "copy" => photo = "replace") /\ (kind = "update" => pc \in {"gate", "read"})
      /\ (pc = "read" => kind = "update")
  BY <1>5
<1>7. save' = [s EXCEPT !.pc = pc]
  BY <1>4
<1> HIDE DEF pc
<1> QED
  BY <1>2, <1>3, <1>6, <1>7 DEF Saver

\* Every save that begins.
Begins(kind, i, photo) ==
    /\ mutate(kind, i, photo)
    /\ kind = "create" => row[i].st = "none" /\ photo # "remove"
    /\ kind \in {"delete", "seed"} => photo = "unchanged"
    /\ kind # "seed" => i \in Items

LEMMA BeginFacts ==
    ASSUME \/ \E i \in Items, photo \in Contents : createItem(i, photo) \/ updateItem(i, photo)
           \/ \E i \in Items : softDeleteItem(i)
           \/ seedEmptyCloset
    PROVE  \E kind \in {"create", "update", "delete", "seed"}, i \in Items \cup {NoItem}, photo \in Contents :
             Begins(kind, i, photo)
<1>1. ASSUME NEW i \in Items, NEW photo \in Contents, createItem(i, photo)
      PROVE  Begins("create", i, photo)
  BY <1>1 DEF createItem, Begins
<1>2. ASSUME NEW i \in Items, NEW photo \in Contents, updateItem(i, photo)
      PROVE  Begins("update", i, photo)
  BY <1>2 DEF updateItem, Begins
<1>3. ASSUME NEW i \in Items, softDeleteItem(i)
      PROVE  Begins("delete", i, "unchanged") /\ "unchanged" \in Contents
  BY <1>3 DEF softDeleteItem, Begins, Contents
<1>4. ASSUME seedEmptyCloset PROVE Begins("seed", NoItem, "unchanged") /\ "unchanged" \in Contents
  BY <1>4 DEF seedEmptyCloset, Begins, Contents
<1> QED
  BY <1>1, <1>2, <1>3, <1>4

LEMMA TypesBegins ==
    ASSUME Types, NEW kind \in {"create", "update", "delete", "seed"}, NEW i \in Items \cup {NoItem},
           NEW photo \in Contents, Begins(kind, i, photo)
    PROVE  Types'
<1>1. save' \in Saver /\ save'.item = i /\ (save'.pc = "read" => save'.kind = "update")
      /\ (save'.kind \in {"create", "update", "delete"} => i \in Items)
  BY MutateFacts DEF Begins
<1>2. ui' \in Screens
  BY DEF Begins, mutate, Types, Screens
<1> QED
  BY <1>1, <1>2, ReadFacts DEF Begins, mutate, Types, disk, rows

\* The row a save writes, and where it goes on.
Writes(i, r) ==
    /\ Written(i, r) /\ r.ver = writes + 1 /\ row' = [row EXCEPT ![i] = r]
    /\ r.st = "live" \/ (r.st = "gone" /\ save.kind = "delete")

LEMMA WritesFacts ==
    ASSUME Types, SaveWrites
    PROVE  /\ \E i \in Items, r \in Rows : Writes(i, r)
           /\ \E shown \in List : SaveWritten(shown)
           /\ writes + 1 \in 0..MaxWrites
<1>1. PICK i \in Items, st \in {"live", "gone"}, photo \in Photos \cup {0} :
        /\ Written(i, [st |-> st, ver |-> writes + 1, photo |-> photo])
        /\ row' = [row EXCEPT ![i] = [st |-> st, ver |-> writes + 1, photo |-> photo]]
        /\ SaveWritten([save.shown EXCEPT ![i] = IF st = "live" THEN writes + 1 ELSE 0])
  BY DEF SaveWrites
<1> DEFINE r == [st |-> st, ver |-> writes + 1, photo |-> photo]
<1>2. writes + 1 \in 0..MaxWrites
  BY ClosetAssumption DEF SaveWrites, Types
<1>3. r \in Rows /\ r.ver = writes + 1
  BY <1>2 DEF Rows
<1>4. save.shown \in List
  BY DEF Types, Saver
<1>5. [save.shown EXCEPT ![i] = IF st = "live" THEN writes + 1 ELSE 0] \in List
  BY <1>2, <1>4, ConstantFacts DEF List
<1>6. r.st = "live" \/ (r.st = "gone" /\ save.kind = "delete")
  BY <1>1 DEF Written
<1>7. Writes(i, r)
  BY <1>1, <1>3, <1>6 DEF Writes
<1> QED
  BY <1>1, <1>2, <1>3, <1>5, <1>7

LEMMA WrittenFacts ==
    ASSUME Types, NEW shown \in List, SaveWritten(shown)
    PROVE  /\ save' \in Saver /\ save'.item = save.item
           /\ Afterwards \in {"tidy", "drop", "ask"}
           /\ \/ Afterwards # "ask" /\ save'.pc = Afterwards /\ save'.kind = save.kind
                 /\ save'.copy = save.copy /\ save'.old = save.old /\ save'.photo = save.photo
              \/ Afterwards = "ask" /\ save'.pc = "ask" /\ save'.kind = "none" /\ save'.copy = 0
                 /\ save'.old = 0 /\ save'.photo = "unchanged"
<1>1. Afterwards \in {"tidy", "drop", "ask"}
  BY DEF Afterwards
<1>2. CASE Afterwards = "ask"
  BY <1>2, AskListFacts DEF SaveWritten
<1>3. CASE Afterwards # "ask"
  <2>1. save' = [save EXCEPT !.pc = Afterwards, !.shown = shown] /\ save \in Saver
    BY <1>3 DEF SaveWritten, Types
  <2> QED
    BY <1>1, <1>3, <2>1 DEF Saver
<1> QED
  BY <1>1, <1>2, <1>3

LEMMA TypesSave ==
    ASSUME Types, SaveSteps
    PROVE  Types'
<1>0. save \in Saver /\ row \in [Items -> Rows] /\ [ui EXCEPT !.mutating = FALSE] \in Screens
      /\ save.shown \in List
  BY DEF Types, Saver, Screens
<1>1. CASE SavePassesSweep
  <2>1. Operation(save) \in {"read", "copy", "write"} /\ (Operation(save) = "read" => save.kind = "update")
    BY DEF Operation
  <2>2. save' \in Saver /\ save'.kind = save.kind /\ save'.item = save.item
        /\ (save'.pc = "read" => save'.kind = "update")
    BY <1>0, <1>1, <2>1 DEF SavePassesSweep, Saver
  <2> QED
    BY <1>1, <2>2 DEF SavePassesSweep, Types, disk, rows
<1>2. CASE SaveReads
  <2>2. save.item \in Items
    BY <1>2 DEF SaveReads, Types
  <2>1. row[save.item].photo \in Photos \cup {0} /\ row[save.item].ver \in 0..MaxWrites
    BY <1>0, <2>2 DEF Rows
  <2>3. [save.shown EXCEPT ![save.item] = row[save.item].ver] \in List
    BY <1>0, <2>1, <2>2 DEF List
  <2>4. save' \in Saver /\ save'.kind = save.kind /\ save'.item = save.item /\ save'.pc # "read"
    BY <1>0, <1>2, <2>1, <2>2, <2>3 DEF SaveReads, Saver
  <2> QED
    BY <1>2, <2>4 DEF SaveReads, Types, disk, rows
<1>3. CASE SaveCopies
  <2>1. copies + 1 \in Photos /\ copies + 1 \in 0..MaxCopies
    BY <1>3, ClosetAssumption DEF SaveCopies, Types, Photos
  <2>2. save' \in Saver /\ save'.kind = save.kind /\ save'.item = save.item /\ save'.pc # "read"
    BY <1>0, <1>3, <2>1 DEF SaveCopies, Saver
  <2> QED
    BY <1>3, <2>1, <2>2 DEF SaveCopies, Types, rows
<1>4. CASE SaveWrites
  <2>1. PICK i \in Items, r \in Rows : Writes(i, r)
    BY <1>4, WritesFacts
  <2>2. save' \in Saver /\ save'.item = save.item /\ save'.kind \in {save.kind, "none"} /\ save'.pc # "read"
    BY <1>4, WritesFacts, WrittenFacts
  <2>3. row' \in [Items -> Rows]
    BY <1>0, <2>1 DEF Writes
  <2>4. [NoTidy EXCEPT !.pc = "list"] \in Tidier
    BY ConstantFacts DEF Tidier
  <2>5. tidy' \in [Cleaners -> Tidier]
    BY <1>4, <2>4 DEF SaveWrites, TidyStart, Types
  <2> QED
    BY <1>4, <2>2, <2>3, <2>5, WritesFacts, AskFacts DEF SaveWrites, Types
<1>5. CASE SaveWritesNothing
  BY <1>0, <1>5, AskListFacts DEF SaveWritesNothing, Types, disk, rows
<1>6. CASE SaveFails
  <2>1. /\ save' \in Saver /\ refresh' \in Reader /\ reload' \in Reloader /\ ui' \in Screens
        /\ save'.pc # "read" /\ save'.item \in {save.item, NoItem} /\ save'.kind \in {save.kind, "none"}
        /\ save'.kind # "none" => save'.item = save.item
    <3>1. CASE SaveStep("undo") /\ UNCHANGED <<ui, refresh, reload>>
      BY <1>0, <3>1 DEF SaveStep, Saver, Types
    <3>2. CASE SaveOver /\ ui' = [ui EXCEPT !.mutating = FALSE]
      BY <1>0, <3>2, SaveOverFacts DEF NoSave
    <3> QED
      BY <1>6, <3>1, <3>2 DEF SaveFails
  <2> QED
    BY <1>6, <2>1 DEF SaveFails, Types, disk, rows
<1>7. ASSUME NEW p \in Nat, Removes(p)
      PROVE  file' \subseteq Photos /\ missed' \in [list : BOOLEAN, tidy : BOOLEAN, file : BOOLEAN]
  BY <1>7 DEF Removes, Excused, Types
<1>8. save.copy \in Nat /\ save.old \in Nat
  BY <1>0, ClosetAssumption DEF Saver, Photos
<1>9. CASE SaveUndoes
  BY <1>0, <1>7, <1>8, <1>9, SaveOverFacts DEF SaveUndoes, Types, rows, NoSave
<1>10. CASE SaveDrops
  BY <1>0, <1>7, <1>8, <1>10, AskListFacts DEF SaveDrops, Types, rows
<1>11. CASE SaveTidied
  BY <1>0, <1>11, AskListFacts, ConstantFacts DEF SaveTidied, TidyOver, Types, disk, rows
<1>12. CASE SaveAnswered
  <2>1. save' \in Saver /\ save'.kind = save.kind /\ save'.item = save.item /\ save'.pc # "read"
    BY <1>0, <1>12, ListedFacts DEF SaveAnswered, Saver
  <2> QED
    BY <1>12, <2>1 DEF SaveAnswered, Types, disk, rows
<1>13. CASE SaveLands
  <2> DEFINE read == save.pc = "answered"
             items == IF read THEN save.got ELSE save.shown
  <2>1. items \in List
    BY <1>0 DEF Saver
  <2>2. ui' = [Loading EXCEPT !.status = "ready", !.failed = ~read, !.items = items]
    BY <1>13 DEF SaveLands
  <2>4. (~read) \in BOOLEAN
    OBVIOUS
  <2> HIDE DEF items, read
  <2>3. ui' \in Screens
    BY <2>1, <2>2, <2>4, ConstantFacts DEF Screens
  <2> QED
    BY <1>13, <2>3, SaveOverFacts DEF SaveLands, Types, disk, rows, NoSave
<1> QED
  BY <1>1, <1>2, <1>3, <1>4, <1>5, <1>6, <1>9, <1>10, <1>11, <1>12, <1>13 DEF SaveSteps

LEMMA TypesKilled ==
    ASSUME Types, Killed
    PROVE  Types'
<1>1. Closed \in [repository : BOOLEAN, sweep : Launches \cup {NoLaunch}]
  BY DEF Closed
<1>2. missed' \in [list : BOOLEAN, tidy : BOOLEAN, file : BOOLEAN]
  BY DEF Killed, Types
<1> QED
  BY <1>1, <1>2, ConstantFacts DEF Killed, Types, disk, rows, NoSave

\* Every step, by who takes it.
LEMMA StepFacts ==
    ASSUME [Next]_vars
    PROVE  \/ \E i \in Items, st \in {"live", "gone"} : land(i, st)
           \/ \E c \in Cleaners : TidyAnswers(c)
           \/ \E l \in Launches : (Patient /\ initialize(l)) \/ LoadSteps(l)
           \/ (Patient /\ refreshOnce) \/ Reads
           \/ \E kind \in {"create", "update", "delete", "seed"}, i \in Items \cup {NoItem}, photo \in Contents :
                Begins(kind, i, photo)
           \/ SaveSteps \/ Killed \/ UNCHANGED vars
BY BeginFacts DEF Next, Contents

LEMMA TypesStep == Types /\ [Next]_vars => Types'
<1> SUFFICES ASSUME Types, [Next]_vars PROVE Types'
  OBVIOUS
<1>1. CASE UNCHANGED vars
  BY <1>1 DEF vars, disk, rows, Types
<1> QED
  BY <1>1, StepFacts, TypesRows, TypesTidy, TypesLoad, TypesReads, TypesBegins, TypesSave, TypesKilled

\* Rows, files, the screens and everything the controller keeps have their
\* types, whatever fails and whenever the process ends.
THEOREM TypeCorrect == Spec => []TypeOK
<1>1. Types => TypeOK
  BY DEF Types, TypeOK, Rows, Screens, Loader, Reader, Reloader, Saver, Tidier
<1> QED
  BY <1>1, TypesInit, TypesStep, PTL DEF Spec

-----------------------------------------------------------------------------
(* What runs beside what.                                                    *)

Sweeping(l) == load[l].pc \in {"files", "names", "delete"}

\* One load at a time; the Closet is not open before its first list, and
\* nothing else runs before it is.
Loads ==
    /\ \A l, m \in Launches : load[l].pc # "off" /\ load[m].pc # "off" => l = m
    /\ \A l \in Launches : load[l].pc = "open" => ~ctl.repository
    /\ \A l \in Launches : load[l].pc \notin {"off", "open"} => ctl.repository
    /\ \A l \in Launches : load[l].pc \in {"open", "ask", "answered"} => ~Ready /\ refresh.pc = "off"
    /\ \A l \in Launches : load[l].pc \notin {"off", "open", "ask", "answered"} => Ready
    /\ Ready \/ refresh.pc # "off" => ctl.repository
    /\ reload.pc # "off" \/ Saving => Ready
    /\ reload.pc = "off" => ~reload.again

\* A save and the sweep keep out of each other's way.
Apart ==
    /\ ctl.sweep # NoLaunch => ctl.sweep \in Launches /\ Sweeping(ctl.sweep)
    /\ \A l \in Launches : Sweeping(l) => ctl.sweep = l
    /\ Saving /\ ctl.sweep # NoLaunch => save.pc = "gate" /\ save.sweep = ctl.sweep
    /\ save.pc = "gate" => save.sweep \in Launches

\* Who removes photos: a load, a reload or a save that waits for it.
Tidying ==
    /\ \A l \in Launches : tidy[l].pc # "off" <=> load[l].pc = "tidy"
    /\ tidy["reload"].pc # "off" <=> reload.pc = "tidy"
    /\ tidy["save"].pc # "off" <=> save.pc = "tidy"
    /\ \A c \in Cleaners : tidy[c].pc \in {"off", "list"} => tidy[c].todo = {}
    /\ \A c \in Cleaners : tidy[c].pc = "clear" => tidy[c].job \in tidy[c].todo

Held == Loads /\ Apart /\ Tidying /\ BusyShown
Steady == Types /\ Held

LEMMA SteadyInit == Init => Steady
<1> SUFFICES ASSUME Init PROVE Steady
  OBVIOUS
<1>1. Types
  BY TypesInit
<1>2. Held
  BY ConstantFacts, ClosetAssumption
  DEF Init, Held, Loads, Apart, Tidying, BusyShown, Ready, Saving, Sweeping, NoLoad, NoSave, NoReload, NoRead,
      NoTidy, Closed, Loading
<1> QED
  BY <1>1, <1>2 DEF Steady

\* What a reload that was asked for changes.
LEMMA AskedHeld ==
    ASSUME Types, reloadRun \/ reload' = reload
    PROVE  /\ reload'.pc = "tidy" <=> reload.pc = "tidy"
           /\ reload'.pc # "off" => reload.pc # "off" \/ Ready
           /\ reload'.again => reload.again \/ reload.pc # "off"
           /\ reload'.pc = "off" => reload' = reload
<1>1. reload \in Reloader
  BY DEF Types
<1>2. CASE reload' = reload
  BY <1>2
<1>3. CASE reloadRun
  BY <1>1, <1>3, AskFacts DEF Reloader, NoReload
<1> QED
  BY <1>2, <1>3

LEMMA OverHeld ==
    ASSUME Types, NEW again \in BOOLEAN, ReloadOver(again)
    PROVE  /\ reload'.pc \in {"off", "wait"} /\ (reload'.pc = "wait" => Ready) /\ ~reload'.again
           /\ (reload'.pc = "wait" <=> (again \/ reload.again) /\ Ready)
           /\ (reload'.pc = "wait" => reload'.waits = Saving)
<1> DEFINE busy == Saving
<1>1. busy \in BOOLEAN
  BY DEF Saving
<1>2. \/ (again \/ reload.again) /\ Ready /\ reload' = [NoReload EXCEPT !.pc = "wait", !.waits = busy]
      \/ ~((again \/ reload.again) /\ Ready) /\ reload' = NoReload
  BY OverFacts
<1> HIDE DEF busy
<1> DEFINE waiting == [NoReload EXCEPT !.pc = "wait", !.waits = busy]
<1>3. waiting.pc = "wait" /\ ~waiting.again /\ waiting.waits = busy
  BY DEF NoReload
<1>4. CASE (again \/ reload.again) /\ Ready
  <2>1. reload' = waiting
    BY <1>2, <1>4
  <2>2. reload'.pc = "wait" /\ ~reload'.again /\ reload'.waits = busy
    BY <1>3, <2>1
  <2> QED
    BY <1>4, <2>2 DEF busy
<1>5. CASE ~((again \/ reload.again) /\ Ready)
  <2>1. reload' = NoReload
    BY <1>2, <1>5
  <2>2. reload'.pc = "off" /\ ~reload'.again
    BY <2>1 DEF NoReload
  <2> QED
    BY <1>5, <2>2
<1> QED
  BY <1>4, <1>5

LEMMA SteadyRows ==
    ASSUME Steady, NEW i \in Items, NEW st \in {"live", "gone"}, land(i, st)
    PROVE  Held'
<1>1. UNCHANGED <<ui, ctl, load, refresh, save, tidy>> /\ reloadRun
  BY DEF land
<1>2. Types
  BY DEF Steady
<1> QED
  BY <1>1, <1>2, AskedHeld
  DEF Steady, Held, Loads, Apart, Tidying, BusyShown, Ready, Saving, Sweeping

LEMMA SteadyTidy ==
    ASSUME Steady, NEW c \in Cleaners, TidyAnswers(c)
    PROVE  Held'
<1>0. Types
  BY DEF Steady
<1>1. tidy[c] \in Tidier /\ tidy \in [Cleaners -> Tidier]
  BY <1>0 DEF Types
<1>2. UNCHANGED <<ui, ctl, load, refresh, save>> /\ (reloadRun \/ reload' = reload)
  BY DEF TidyAnswers, TidyLists, TidyClears, TidyFails, TidyDeletes
<1>3. tidy[c].pc # "off"
  BY DEF TidyAnswers, TidyLists, TidyClears, TidyFails, TidyDeletes
<1>4. \E t : /\ tidy' = [tidy EXCEPT ![c] = t] /\ t.pc \notin {"off", "list"}
             /\ (t.pc = "clear" => t.job \in t.todo)
  <2>1. CASE TidyLists(c)
    <3> DEFINE todo == {<<i, row[i].photo>> : i \in {j \in Items : Pending(j) /\ (c = "save" => save.item = j)}}
    <3>1. tidy' = [tidy EXCEPT ![c] = [NoTidy EXCEPT !.pc = "next", !.todo = todo]]
      BY <2>1 DEF TidyLists
    <3> HIDE DEF todo
    <3>2. [NoTidy EXCEPT !.pc = "next", !.todo = todo].pc = "next"
      BY DEF NoTidy
    <3> QED
      BY <3>1, <3>2
  <2>2. ASSUME NEW job, NextJob(c, job)
        PROVE  \E t : tidy' = [tidy EXCEPT ![c] = t] /\ t.pc = "next"
    <3> DEFINE t == [tidy[c] EXCEPT !.pc = "next", !.todo = @ \ {job}, !.job = NoJob]
    <3>1. tidy' = [tidy EXCEPT ![c] = t]
      BY <1>1, <2>2 DEF NextJob
    <3>2. t.pc = "next"
      BY <1>1 DEF Tidier
    <3> QED
      BY <3>1, <3>2
  <2>3. CASE TidyClears(c)
    BY <2>2, <2>3 DEF TidyClears
  <2>4. CASE TidyFails(c)
    BY <2>2, <2>4 DEF TidyFails
  <2>5. ASSUME NEW job \in tidy[c].todo, TidyDeletes(c, job)
        PROVE  \E t : /\ tidy' = [tidy EXCEPT ![c] = t] /\ t.pc \notin {"off", "list"}
                      /\ (t.pc = "clear" => t.job \in t.todo)
    <3> DEFINE t == [tidy[c] EXCEPT !.pc = "clear", !.job = job]
    <3>1. tidy' = [tidy EXCEPT ![c] = t]
      BY <1>1, <2>5 DEF TidyDeletes
    <3>2. t.pc = "clear" /\ t.job = job /\ t.todo = tidy[c].todo
      BY <1>1 DEF Tidier
    <3> QED
      BY <3>1, <3>2
  <2> QED
    BY <2>1, <2>3, <2>4, <2>5 DEF TidyAnswers
<1>5. Tidying'
  BY <1>0, <1>1, <1>2, <1>3, <1>4, AskedHeld, ConstantFacts DEF Steady, Held, Tidying
<1>6. Loads' /\ Apart' /\ BusyShown'
  BY <1>0, <1>2, AskedHeld DEF Steady, Held, Loads, Apart, BusyShown, Ready, Saving, Sweeping
<1> QED
  BY <1>5, <1>6 DEF Held

LEMMA SteadyLoad ==
    ASSUME ~DoubleRetry, Steady, NEW l \in Launches, (Patient /\ initialize(l)) \/ LoadSteps(l)
    PROVE  Held'
<1>0. Types
  BY DEF Steady
<1>1. load[l] \in Loader /\ load \in [Launches -> Loader] /\ l \in Cleaners /\ l # "reload" /\ l # "save"
      /\ l # NoLaunch /\ ctl \in [repository : BOOLEAN, sweep : Launches \cup {NoLaunch}]
      /\ tidy \in [Cleaners -> Tidier]
  BY <1>0, ClosetAssumption DEF Types, Cleaners
<1>2. CASE Patient /\ initialize(l)
  <2>1. /\ \A m \in Launches : load[m].pc = "off"
        /\ ~ctl.repository /\ UNCHANGED <<ui, ctl, refresh, reload, save, tidy>>
        /\ load' = [load EXCEPT ![l].pc = "open"]
    BY <1>2 DEF initialize, LoadStep, Patient, Underway, Steady, Held, Loads
  <2> QED
    BY <1>1, <2>1 DEF Steady, Held, Loads, Apart, Tidying, BusyShown, Ready, Saving, Sweeping
<1>3. CASE LoadOpens(l)
  BY <1>1, <1>3 DEF LoadOpens, LoadStep, disk, Steady, Held, Loads, Apart, Tidying, BusyShown, Ready, Saving, Sweeping
<1>4. CASE LoadAnswered(l)
  BY <1>1, <1>4 DEF LoadAnswered, disk, Steady, Held, Loads, Apart, Tidying, BusyShown, Ready, Saving, Sweeping
<1>5. CASE LoadFails(l)
  BY <1>1, <1>5 DEF LoadFails, NoLoad, Loading, disk, Steady, Held, Loads, Apart, Tidying, BusyShown, Ready, Saving, Sweeping
<1>6. CASE LoadLands(l)
  <2>1. [NoTidy EXCEPT !.pc = "list"].pc = "list" /\ [NoTidy EXCEPT !.pc = "list"].todo = {}
    BY DEF NoTidy
  <2> QED
    BY <1>1, <1>6, <2>1 DEF LoadLands, TidyStart, Loading, disk, Steady, Held, Loads, Apart, Tidying, BusyShown, Ready, Saving, Sweeping
<1>7. CASE LoadTidied(l)
  BY <1>1, <1>7 DEF LoadTidied, TidyOver, LoadStep, NoTidy, disk, Steady, Held, Loads, Apart, Tidying, BusyShown, Ready, Saving, Sweeping
<1>8. CASE SweepStarts(l)
  BY <1>1, <1>8 DEF SweepStarts, LoadStep, disk, Steady, Held, Loads, Apart, Tidying, BusyShown, Ready, Saving, Sweeping
<1>9. CASE SweepLists(l)
  BY <1>1, <1>9 DEF SweepLists, disk, Steady, Held, Loads, Apart, Tidying, BusyShown, Ready, Saving, Sweeping
<1>10. CASE SweepNames(l)
  <2>1. /\ load[l].pc = "names" /\ \A m \in Launches : load'[m].pc = IF m = l THEN "delete" ELSE load[m].pc
        /\ UNCHANGED <<ui, ctl, refresh, reload, save, tidy>>
    BY <1>1, <1>10 DEF SweepNames, Loader
  <2> QED
    BY <1>1, <2>1 DEF Steady, Held, Loads, Apart, Tidying, BusyShown, Ready, Saving, Sweeping
<1>11. CASE SweepEnds(l)
  <2>1. /\ load[l].pc \in {"files", "names", "delete"} /\ load' = [load EXCEPT ![l] = NoLoad]
        /\ UNCHANGED <<ui, refresh, reload, save, tidy>> /\ ctl' = [ctl EXCEPT !.sweep = NoLaunch]
    BY <1>11 DEF SweepEnds
  <2> QED
    BY <1>1, <2>1 DEF NoLoad, Steady, Held, Loads, Apart, Tidying, BusyShown, Ready, Saving, Sweeping
<1>12. ASSUME NEW p \in Photos, SweepDeletes(l, p) PROVE Held'
  <2>1. /\ load[l].pc = "delete" /\ \A m \in Launches : load'[m].pc = load[m].pc
        /\ UNCHANGED <<ui, ctl, refresh, reload, save, tidy>>
    BY <1>1, <1>12 DEF SweepDeletes, Loader
  <2> QED
    BY <1>1, <2>1 DEF Steady, Held, Loads, Apart, Tidying, BusyShown, Ready, Saving, Sweeping
<1> QED
  BY <1>2, <1>3, <1>4, <1>5, <1>6, <1>7, <1>8, <1>9, <1>10, <1>11, <1>12 DEF LoadSteps

\* A read keeps where it is, whatever it is told of the others.
LEMMA TouchedFacts ==
    ASSUME Types
    PROVE  /\ Begun(reload).pc = reload.pc /\ Begun(reload).again = reload.again
           /\ Passed(reload).pc = reload.pc /\ Passed(reload).again = reload.again
           /\ Outdated(reload).pc = reload.pc /\ Outdated(reload).again = reload.again
           /\ [Outdated(reload) EXCEPT !.waits = FALSE].pc = reload.pc
           /\ [Outdated(reload) EXCEPT !.waits = FALSE].again = reload.again
           /\ Begun(refresh).pc = refresh.pc /\ Passed(refresh).pc = refresh.pc
           /\ Outdated(refresh).pc = refresh.pc
<1>1. refresh \in Reader /\ reload \in Reloader
  BY DEF Types
<1> QED
  BY <1>1 DEF Begun, Passed, Outdated, Reader, Reloader

LEMMA SteadyReads ==
    ASSUME ~DoubleRetry, Steady, (Patient /\ refreshOnce) \/ Reads
    PROVE  Held'
<1>0. Types /\ refresh \in Reader /\ reload \in Reloader /\ ui \in Screens /\ tidy \in [Cleaners -> Tidier]
  BY DEF Steady, Types
<1>1. CASE Patient /\ refreshOnce
  <2>1. /\ ctl.repository /\ (ui.status = "error" \/ Ready) /\ reload' = Begun(reload) /\ refresh'.pc = "ask"
        /\ \A l \in Launches : load[l].pc \notin {"open", "ask", "answered"}
        /\ ui' = IF Ready THEN [ui EXCEPT !.refreshing = TRUE] ELSE Loading
        /\ UNCHANGED <<ctl, load, save, tidy>>
    BY <1>1 DEF refreshOnce, Patient, Underway, NoRead, Ready
  <2> QED
    BY <1>0, <2>1, TouchedFacts
    DEF Loading, Screens, Steady, Held, Loads, Apart, Tidying, BusyShown, Ready, Saving, Sweeping
<1>2. CASE RefreshAnswered
  BY <1>0, <1>2 DEF RefreshAnswered, Reader, disk, Steady, Held, Loads, Apart, Tidying, BusyShown, Ready, Saving, Sweeping
<1>3. CASE RefreshLands
  <2>1. /\ refresh.pc # "off" /\ refresh'.pc = "off" /\ Ready' /\ reload'.pc = reload.pc
        /\ reload'.again = reload.again /\ (Ready => (ui'.mutating <=> ui.mutating) \/ (ui'.mutating <=> Saving))
        /\ (~Ready => (ui'.mutating <=> Saving)) /\ UNCHANGED <<ctl, load, save, tidy>>
    BY <1>0, <1>3, TouchedFacts DEF RefreshLands, Ready, NoRead, Screens
  <2> QED
    BY <2>1 DEF Steady, Held, Loads, Apart, Tidying, BusyShown, Ready, Saving, Sweeping
<1>4. CASE RefreshFails
  <2>1. /\ refresh.pc # "off" /\ refresh'.pc = "off" /\ (Ready' <=> Ready)
        /\ (Ready => ui'.mutating = ui.mutating) /\ UNCHANGED <<ctl, load, reload, save, tidy>>
    BY <1>0, <1>4 DEF RefreshFails, Ready, NoRead, Screens, Loading
  <2> QED
    BY <2>1 DEF Steady, Held, Loads, Apart, Tidying, BusyShown, Ready, Saving, Sweeping
<1>5. CASE ReloadReads
  <2>1. /\ reload.pc = "wait" /\ reload'.pc = "ask" /\ refresh'.pc = refresh.pc
        /\ UNCHANGED <<ui, ctl, load, save, tidy>>
    BY <1>0, <1>5, TouchedFacts DEF ReloadReads, NoReload
  <2> QED
    BY <2>1 DEF Steady, Held, Loads, Apart, Tidying, BusyShown, Ready, Saving, Sweeping
<1>6. CASE ReloadAnswered
  BY <1>0, <1>6 DEF ReloadAnswered, Reloader, disk, Steady, Held, Loads, Apart, Tidying, BusyShown, Ready, Saving, Sweeping
<1>7. CASE ReloadFails
  BY <1>0, <1>7, OverHeld DEF ReloadFails, disk, Steady, Held, Loads, Apart, Tidying, BusyShown, Ready, Saving, Sweeping
<1>8. CASE ReloadLands
  <2>1. CASE ~reload.same
    <3>1. ReloadOver(TRUE) /\ reload.pc = "answered" /\ UNCHANGED <<ui, ctl, load, refresh, save, tidy>>
      BY <1>8, <2>1 DEF ReloadLands
    <3>2. reload'.pc \in {"off", "wait"} /\ (reload'.pc = "wait" => Ready) /\ ~reload'.again
      BY <1>0, <3>1, OverHeld
    <3> QED
      BY <3>1, <3>2 DEF Steady, Held, Loads, Apart, Tidying, BusyShown, Ready, Saving, Sweeping
  <2>2. CASE reload.same
    <3>1. /\ reload.pc = "answered" /\ reload'.pc = "tidy" /\ refresh'.pc = refresh.pc /\ (Ready' <=> Ready)
          /\ ui'.mutating = ui.mutating /\ UNCHANGED <<ctl, load, save>>
          /\ tidy' = [tidy EXCEPT !["reload"] = [NoTidy EXCEPT !.pc = "list"]]
      BY <1>0, <1>8, <2>2, TouchedFacts DEF ReloadLands, NoReload, TidyStart, Screens, Ready
    <3>2. [NoTidy EXCEPT !.pc = "list"].pc = "list" /\ [NoTidy EXCEPT !.pc = "list"].todo = {}
      BY DEF NoTidy
    <3> QED
      BY <1>0, <3>1, <3>2, ConstantFacts, ClosetAssumption
      DEF Steady, Held, Loads, Apart, Tidying, BusyShown, Ready, Saving, Sweeping
  <2> QED
    BY <2>1, <2>2
<1>9. CASE ReloadTidied
  <2>1. tidy' = [tidy EXCEPT !["reload"] = NoTidy] /\ UNCHANGED <<ui, ctl, load, refresh, save>>
        /\ reload.pc = "tidy" /\ ReloadOver(FALSE)
    BY <1>9 DEF ReloadTidied, TidyOver
  <2>2. reload'.pc \in {"off", "wait"} /\ (reload'.pc = "wait" => Ready) /\ ~reload'.again
    BY <1>0, <2>1, OverHeld
  <2>3. /\ NoTidy.pc = "off" /\ NoTidy.todo = {}
        /\ \A d \in Cleaners : d # "reload" => tidy'[d] = tidy[d]
        /\ tidy'["reload"] = NoTidy
    BY <1>0, <2>1, ConstantFacts DEF NoTidy
  <2>4. Loads' /\ Apart' /\ BusyShown'
    BY <2>1, <2>2 DEF Steady, Held, Loads, Apart, BusyShown, Ready, Saving, Sweeping
  <2>5. Tidying'
    BY <2>1, <2>2, <2>3, ConstantFacts, ClosetAssumption DEF Steady, Held, Tidying, Sweeping
  <2> QED
    BY <2>4, <2>5 DEF Held
<1> QED
  BY <1>1, <1>2, <1>3, <1>4, <1>5, <1>6, <1>7, <1>8, <1>9 DEF Reads

LEMMA SteadyBegins ==
    ASSUME Steady, NEW kind \in {"create", "update", "delete", "seed"}, NEW i \in Items \cup {NoItem},
           NEW photo \in Contents, Begins(kind, i, photo)
    PROVE  Held'
<1>0. Types /\ ui \in Screens
  BY DEF Steady, Types
<1>1. /\ ~Saving /\ Ready /\ ui' = [ui EXCEPT !.mutating = TRUE] /\ UNCHANGED <<ctl, load, tidy>>
      /\ refresh' = Outdated(refresh) /\ reload' = Outdated(reload)
  BY DEF Begins, mutate
<1>2. /\ save'.pc \in {"gate", "read", "copy", "write"} /\ save'.sweep = ctl.sweep
      /\ (ctl.sweep # NoLaunch <=> save'.pc = "gate")
  BY <1>0, MutateFacts DEF Begins
<1> QED
  BY <1>0, <1>1, <1>2, TouchedFacts
  DEF Screens, Steady, Held, Loads, Apart, Tidying, BusyShown, Ready, Saving, Sweeping

LEMMA SteadySave ==
    ASSUME Steady, SaveSteps
    PROVE  Held'
<1>0. Types /\ save \in Saver /\ ui \in Screens /\ tidy \in [Cleaners -> Tidier] /\ save.shown \in List
  BY DEF Steady, Types, Saver
<1>1. CASE SavePassesSweep
  <2>1. Operation(save) \in {"read", "copy", "write"}
    BY DEF Operation
  <2> QED
    BY <1>0, <1>1, <2>1
    DEF SavePassesSweep, Saver, disk, Steady, Held, Loads, Apart, Tidying, BusyShown, Ready, Saving, Sweeping
\* A save that goes on, past the gate and outside its removal of photos.
<1>2. ASSUME Saving, save.pc \notin {"gate", "tidy"}, Saving', save'.pc \notin {"gate", "tidy"},
             UNCHANGED <<ui, ctl, load, refresh, reload, tidy>>
      PROVE  Held'
  BY <1>2 DEF Steady, Held, Loads, Apart, Tidying, BusyShown, Ready, Saving, Sweeping
<1>3. CASE SaveReads \/ SaveCopies \/ SaveAnswered
  <2>1. /\ Saving /\ save.pc \notin {"gate", "tidy"} /\ Saving' /\ save'.pc \notin {"gate", "tidy"}
        /\ UNCHANGED <<ui, ctl, load, refresh, reload, tidy>>
    BY <1>0, <1>3 DEF SaveReads, SaveCopies, SaveAnswered, Saving, Saver
  <2> QED
    BY <1>2, <2>1
<1>4. CASE SaveWrites
  <2>1. /\ save.pc = "write" /\ save'.pc = Afterwards /\ Afterwards \in {"tidy", "drop", "ask"} /\ reloadRun
        /\ UNCHANGED <<ui, ctl, load, refresh>>
        /\ IF Afterwards = "tidy" THEN tidy' = [tidy EXCEPT !["save"] = [NoTidy EXCEPT !.pc = "list"]]
           ELSE tidy' = tidy
    BY <1>0, <1>4, WritesFacts, WrittenFacts DEF SaveWrites, TidyStart
  <2>2. [NoTidy EXCEPT !.pc = "list"].pc = "list" /\ [NoTidy EXCEPT !.pc = "list"].todo = {}
    BY DEF NoTidy
  <2>3. /\ reload'.pc = "tidy" <=> reload.pc = "tidy"
        /\ reload'.pc # "off" => reload.pc # "off" \/ Ready
        /\ reload'.again => reload.again \/ reload.pc # "off"
        /\ reload'.pc = "off" => reload' = reload
    BY <1>0, <2>1, AskedHeld
  <2>4. Loads' /\ Apart' /\ BusyShown'
    BY <1>0, <2>1, <2>3 DEF Steady, Held, Loads, Apart, BusyShown, Ready, Saving, Sweeping
  <2>5. Tidying'
    BY <1>0, <2>1, <2>2, <2>3, ConstantFacts, ClosetAssumption DEF Steady, Held, Tidying
  <2> QED
    BY <2>4, <2>5 DEF Held
<1>5. CASE SaveWritesNothing
  <2>1. save.pc = "write" /\ save'.pc = "ask" /\ UNCHANGED <<ui, ctl, load, refresh, reload, tidy>>
    BY <1>0, <1>5, AskListFacts DEF SaveWritesNothing
  <2> QED
    BY <1>2, <2>1 DEF Saving
\* A save that is over.
<1>6. ASSUME SaveOver, Saving, save.pc # "gate", save.pc # "tidy", UNCHANGED <<ctl, load, tidy>>, Ready',
             ~ui'.mutating
      PROVE  Held'
  <2>0. /\ save' = NoSave /\ refresh' = Outdated(refresh)
        /\ reload' = [Outdated(reload) EXCEPT !.waits = FALSE]
    BY <1>6 DEF SaveOver
  <2>1. save'.pc = "off" /\ refresh'.pc = refresh.pc /\ reload'.pc = reload.pc /\ reload'.again = reload.again
    BY <1>0, <2>0, TouchedFacts DEF NoSave
  <2> QED
    BY <1>6, <2>1 DEF Steady, Held, Loads, Apart, Tidying, BusyShown, Ready, Saving, Sweeping
<1>7. ui.mutating \in BOOLEAN /\ (Saving => Ready)
  BY <1>0 DEF Screens, Steady, Held, Loads
<1>8. ASSUME ui' = [ui EXCEPT !.mutating = FALSE], Ready PROVE Ready' /\ ~ui'.mutating
  BY <1>0, <1>8 DEF Screens, Ready
<1>9. CASE SaveFails
  <2>1. CASE SaveStep("undo") /\ UNCHANGED <<ui, refresh, reload>>
    <3>1. save'.pc = "undo" /\ Saving /\ Saving' /\ save.pc \notin {"gate", "tidy"}
      BY <1>0, <1>9, <2>1 DEF SaveFails, SaveStep, Saver, Saving
    <3> QED
      BY <1>2, <1>9, <2>1, <3>1 DEF SaveFails
  <2>2. CASE SaveOver /\ ui' = [ui EXCEPT !.mutating = FALSE]
    BY <1>6, <1>7, <1>8, <1>9, <2>2 DEF SaveFails, Saving
  <2> QED
    BY <1>9, <2>1, <2>2 DEF SaveFails
<1>10. CASE SaveUndoes
  BY <1>6, <1>7, <1>8, <1>10 DEF SaveUndoes, Saving
<1>11. CASE SaveDrops
  <2>1. save.pc = "drop" /\ save'.pc = "ask" /\ UNCHANGED <<ui, ctl, load, refresh, reload, tidy>>
    BY <1>0, <1>11, AskListFacts DEF SaveDrops
  <2> QED
    BY <1>2, <2>1 DEF Saving
<1>12. CASE SaveTidied
  <2>1. /\ save.pc = "tidy" /\ save'.pc = "ask" /\ UNCHANGED <<ui, ctl, load, refresh, reload>>
        /\ tidy' = [tidy EXCEPT !["save"] = NoTidy]
    BY <1>0, <1>12, AskListFacts DEF SaveTidied, TidyOver
  <2> QED
    BY <1>0, <2>1, ConstantFacts, ClosetAssumption
    DEF NoTidy, Steady, Held, Loads, Apart, Tidying, BusyShown, Ready, Saving, Sweeping
<1>13. CASE SaveLands
  <2>1. SaveOver /\ save.pc \in {"ask", "answered"} /\ UNCHANGED <<ctl, load, tidy>>
    BY <1>13 DEF SaveLands
  <2>2. Ready' /\ ~ui'.mutating
    BY <1>13 DEF SaveLands, Loading, Ready
  <2> QED
    BY <1>6, <2>1, <2>2 DEF Saving
<1> QED
  BY <1>1, <1>3, <1>4, <1>5, <1>9, <1>10, <1>11, <1>12, <1>13 DEF SaveSteps

LEMMA SteadyKilled ==
    ASSUME Killed
    PROVE  Held'
BY ConstantFacts, ClosetAssumption
DEF Killed, Held, Loads, Apart, Tidying, BusyShown, Ready, Saving, Sweeping, NoLoad, NoSave, NoReload, NoRead,
    NoTidy, Closed, Loading

LEMMA SteadyStep ==
    ASSUME ~DoubleRetry, Steady, [Next]_vars
    PROVE  Steady'
<1>1. Types'
  BY TypesStep DEF Steady
<1>2. ASSUME UNCHANGED vars PROVE Held'
  BY <1>2 DEF vars, disk, rows, Steady, Held, Loads, Apart, Tidying, BusyShown, Ready, Saving, Sweeping
<1>4. Held'
  BY <1>2, StepFacts, SteadyRows, SteadyTidy, SteadyLoad, SteadyReads, SteadyBegins, SteadySave, SteadyKilled
  DEF Steady
<1> QED
  BY <1>1, <1>4 DEF Steady

\* The Closet shows that a save is under way exactly while one is: with a
\* failed load not retried twice at once, no list that lands and no failure
\* clears the indicator of a save or leaves it on.
THEOREM AlwaysConsistent ==
    ASSUME ~DoubleRetry PROVE Spec => []Consistent
<1>1. Types => TypeOK
  BY DEF Types, TypeOK, Rows, Screens, Loader, Reader, Reloader, Saver, Tidier
<1>2. Steady => Consistent
  BY <1>1 DEF Steady, Held, Consistent
<1>3. Steady /\ [Next]_vars => Steady'
  BY SteadyStep
<1> QED
  BY <1>2, <1>3, SteadyInit, PTL DEF Spec

-----------------------------------------------------------------------------
(* The photos.                                                               *)

Names(p) == \E i \in Items : row[i].photo = p
\* A photo was copied for the save, and no row names it yet.
Copied == save.pc \in {"write", "undo"} /\ save.copy # 0
Creating == save.kind = "create" /\ save.pc \in {"gate", "copy", "write"}
Updating == save.kind = "update" /\ save.pc \in {"copy", "write"}

\* What a save carries fits its kind.
Carried ==
    /\ save.pc \in {"off", "gate", "read", "copy"} => save.copy = 0
    /\ save.copy # 0 \/ save.pc = "copy" => save.photo = "replace"
    /\ save.pc = "undo" => save.copy # 0
    /\ save.kind \in {"seed", "delete"} => save.photo = "unchanged"
    /\ save.kind = "create" => save.photo # "remove"
    /\ save.kind # "update" => save.old = 0
    /\ save.pc = "drop" => save.old # 0
    /\ save.pc = "tidy" => save.item \in Items /\ save.kind = "delete"
    /\ save.pc = "off" => save.kind = "none"

\* A photo belongs to one piece, or to the save that copied it; an update knows
\* the photo of its piece while that is in the Closet.
Owned ==
    /\ \A i \in Items : row[i].photo <= copies /\ (row[i].st = "none" => row[i].photo = 0)
    /\ \A p \in file : p <= copies
    /\ save.copy <= copies /\ save.old <= copies
    /\ \A i, j \in Items : row[i].photo # 0 /\ row[i].photo = row[j].photo => i = j
    /\ Copied => save.copy # save.old /\ ~Names(save.copy) /\ save.copy \in file
    /\ save.pc = "drop" => ~Names(save.old)
    /\ Updating => row[save.item].st # "none" /\ (Live(save.item) => row[save.item].photo = save.old)
    /\ Creating => row[save.item].photo = 0

\* A photo to remove is of a deleted piece, and nobody else's.
Doomed ==
    /\ \A c \in Cleaners : \A job \in tidy[c].todo :
         /\ row[job[1]].st = "gone" /\ row[job[1]].photo \in {0, job[2]} /\ job[2] <= copies
         /\ Copied => job[2] # save.copy
         /\ \A i \in Items : row[i].photo = job[2] => i = job[1]
         /\ Creating => job[1] # save.item
    /\ \A c \in Cleaners : tidy[c].pc = "clear" => tidy[c].job[2] \notin file

\* What a sweep takes is nobody's.
Swept ==
    \A l \in Launches :
        /\ load[l].pc = "names" => file \subseteq load[l].files
        /\ load[l].pc = "delete" => \A i \in Items : row[i].photo \notin load[l].files
        /\ load[l].pc = "delete" /\ load[l].whole => \A p \in file : p \in load[l].files \/ Names(p)

\* A file nobody names is on its way out, or a failure left it.
Accounted ==
    missed.file \/ \A p \in file : \/ Names(p)
                                   \/ Copied /\ p = save.copy
                                   \/ save.pc = "drop" /\ p = save.old

Cared == Carried /\ Owned /\ Doomed /\ PhotosKept /\ Swept /\ Accounted

LEMMA CaredInit == Init => Cared
BY ConstantFacts, ClosetAssumption
DEF Init, Cared, Carried, Owned, Doomed, PhotosKept, Swept, Accounted, Copied, Creating, Updating, Names, Live,
    NoLoad, NoSave, NoTidy, NoRow

LEMMA PhotoFacts ==
    ASSUME Types
    PROVE  /\ row \in [Items -> Rows] /\ \A i \in Items : row[i] \in Rows /\ row[i].photo \in Nat
           /\ file \subseteq Nat \ {0} /\ copies \in Nat /\ save.copy \in Nat /\ save.old \in Nat
           /\ tidy \in [Cleaners -> Tidier] /\ load \in [Launches -> Loader] /\ save \in Saver
           /\ \A c \in Cleaners : \A job \in tidy[c].todo :
                job[1] \in Items /\ job[2] \in Nat \ {0} /\ job = <<job[1], job[2]>>
           /\ \A l \in Launches : load[l].files \subseteq Nat \ {0}
<1>1. Photos \subseteq Nat \ {0} /\ 0 \in Nat
  BY ClosetAssumption DEF Photos
<1>2. /\ row \in [Items -> Rows] /\ file \subseteq Photos /\ save \in Saver /\ tidy \in [Cleaners -> Tidier]
      /\ load \in [Launches -> Loader] /\ copies \in 0..MaxCopies
  BY DEF Types
<1>3. \A i \in Items : row[i] \in Rows /\ row[i].photo \in Nat
  BY <1>1, <1>2 DEF Rows
<1>7. copies \in Nat
  BY <1>2, ClosetAssumption
<1>4. save.copy \in Nat /\ save.old \in Nat
  <2>1. save.copy \in Photos \cup {0} /\ save.old \in Photos \cup {0}
    BY <1>2 DEF Saver
  <2> QED
    BY <1>1, <2>1
<1>5. \A c \in Cleaners : \A job \in tidy[c].todo : job \in Items \X Photos
  BY <1>2 DEF Tidier
<1>6. \A l \in Launches : load[l].files \subseteq Photos
  BY <1>2 DEF Loader
<1> QED
  BY <1>1, <1>2, <1>3, <1>4, <1>5, <1>6, <1>7

\* Steps that write no row, touch no file and find no new photo to remove.
LEMMA CaredKept ==
    ASSUME Types, Cared, UNCHANGED <<row, file, copies, save>>,
           \A c \in Cleaners : tidy'[c].todo \subseteq tidy[c].todo
             /\ (tidy'[c].pc = "clear" => tidy[c].pc = "clear" /\ tidy'[c].job = tidy[c].job),
           \A l \in Launches : load'[l].pc \in {"names", "delete"} =>
             load'[l].pc = load[l].pc /\ load'[l].files = load[l].files /\ load'[l].whole = load[l].whole,
           missed.file => missed'.file
    PROVE  Cared'
<1>1. Carried' /\ Owned' /\ PhotosKept'
  BY DEF Cared, Carried, Owned, PhotosKept, Copied, Creating, Updating, Names, Live
<1>2. Doomed'
  BY DEF Cared, Doomed, Copied, Creating
<1>3. Swept' /\ Accounted'
  BY DEF Cared, Swept, Accounted, Names, Copied
<1> QED
  BY <1>1, <1>2, <1>3 DEF Cared

LEMMA CaredRows ==
    ASSUME ~Revived, Steady, Cared, NEW i \in Items, NEW st \in {"live", "gone"}, land(i, st)
    PROVE  Cared'
<1>0. Types
  BY DEF Steady
<1>1. /\ UNCHANGED <<file, copies, load, save, tidy, missed>> /\ ~Going(i) /\ (st = "gone" => Live(i))
      /\ \A j \in Items : row'[j].photo = row[j].photo /\ row'[j].st = IF j = i THEN st ELSE row[j].st
  BY <1>0, PhotoFacts DEF land, Rows
<1>2. \A c \in Cleaners : \A job \in tidy[c].todo : job[1] # i
  BY <1>1 DEF Going, Cared, Doomed, Live
<1>3. Carried' /\ PhotosKept'
  <2>1. row[i].st = "gone" => row[i].photo \in file \cup {0}
    BY <1>1 DEF Going
  <2>2. row[i].st = "none" => row[i].photo = 0
    BY DEF Cared, Owned
  <2>3. row[i].st \in {"none", "live", "gone"}
    BY <1>0, PhotoFacts DEF Rows
  <2> QED
    BY <1>1, <2>1, <2>2, <2>3 DEF Cared, Carried, PhotosKept, Live
<1>4. Owned'
  <2>1. Updating => save.item # i \/ Live(i)
    <3>1. row[i].st \in {"none", "live", "gone"}
      BY <1>0, PhotoFacts DEF Rows
    <3> QED
      BY <1>1, <3>1 DEF Cared, Owned, Going, Live
  <2>2. Updating => save.item \in Items
    BY <1>0 DEF Updating, Types
  <2>3. Creating => save.item \in Items
    BY <1>0 DEF Creating, Types
  <2> QED
    BY <1>1, <2>1, <2>2, <2>3 DEF Cared, Owned, Copied, Creating, Updating, Names, Live
<1>5. Doomed'
  <2>1. \A c \in Cleaners : \A job \in tidy[c].todo : job[1] \in Items
    BY <1>0, PhotoFacts
  <2> QED
    BY <1>1, <1>2, <2>1 DEF Cared, Doomed, Copied, Creating
<1>6. Swept' /\ Accounted'
  BY <1>1 DEF Cared, Swept, Accounted, Names, Copied
<1> QED
  BY <1>3, <1>4, <1>5, <1>6 DEF Cared

LEMMA CaredTidy ==
    ASSUME Steady, Cared, NEW c \in Cleaners, TidyAnswers(c)
    PROVE  Cared'
<1>0. Types
  BY DEF Steady
<1>1. /\ tidy[c] \in Tidier /\ tidy \in [Cleaners -> Tidier] /\ \A i \in Items : row[i].photo \in Nat
      /\ copies \in Nat
  BY <1>0, PhotoFacts
<1>2. CASE TidyLists(c)
  <2> DEFINE todo == {<<i, row[i].photo>> : i \in {j \in Items : Pending(j) /\ (c = "save" => save.item = j)}}
  <2>1. /\ tidy[c].pc = "list" /\ UNCHANGED <<row, file, copies, load, save>> /\ missed'.file = missed.file
        /\ tidy' = [tidy EXCEPT ![c] = [NoTidy EXCEPT !.pc = "next", !.todo = todo]]
    BY <1>0, <1>2 DEF TidyLists, disk, rows, Types
  <2>2. \A job \in todo : \E i \in Items : job = <<i, row[i].photo>> /\ row[i].st = "gone" /\ row[i].photo # 0
    BY DEF Pending
  <2> HIDE DEF todo
  <2>3. /\ tidy'[c].pc = "next" /\ tidy'[c].todo = todo
        /\ \A d \in Cleaners : d # c => tidy'[d] = tidy[d]
    BY <1>1, <2>1 DEF NoTidy
  <2>4. \A job \in todo : /\ job[1] \in Items /\ row[job[1]].st = "gone" /\ row[job[1]].photo = job[2]
                          /\ job[2] # 0
    BY <2>2
  <2>5. \A job \in todo : /\ job[2] <= copies /\ (Copied => job[2] # save.copy)
                          /\ \A i \in Items : row[i].photo = job[2] => i = job[1]
                          /\ (Creating => job[1] # save.item)
    BY <2>4 DEF Cared, Owned, Names
  <2>6. Doomed'
    BY <2>1, <2>3, <2>4, <2>5 DEF Cared, Doomed, Copied, Creating
  <2>7. Carried' /\ Owned' /\ PhotosKept'
    BY <2>1 DEF Cared, Carried, Owned, PhotosKept, Copied, Creating, Updating, Names, Live
  <2>8. Swept' /\ Accounted'
    BY <2>1 DEF Cared, Swept, Accounted, Names, Copied
  <2> QED
    BY <2>6, <2>7, <2>8 DEF Cared
<1>3. ASSUME NEW job, NextJob(c, job)
      PROVE  /\ \A d \in Cleaners : tidy'[d].todo \subseteq tidy[d].todo
                  /\ (tidy'[d].pc = "clear" => tidy[d].pc = "clear" /\ tidy'[d].job = tidy[d].job)
             /\ \A d \in Cleaners : tidy'[d].todo = IF d = c THEN tidy[c].todo \ {job} ELSE tidy[d].todo
  BY <1>1, <1>3 DEF NextJob, Tidier
<1>4. CASE TidyFails(c)
  <2>1. /\ UNCHANGED <<row, file, copies, load, save>> /\ missed'.file = missed.file
        /\ \E job : NextJob(c, job)
    BY <1>0, <1>4 DEF TidyFails, Excused, disk, rows, Types
  <2> QED
    BY <1>0, <1>3, <2>1, CaredKept
<1>5. CASE TidyClears(c)
  <2> DEFINE i == tidy[c].job[1]
             p == tidy[c].job[2]
  <2>1. /\ tidy[c].pc = "clear" /\ NextJob(c, tidy[c].job) /\ UNCHANGED <<file, copies, load, save, missed>>
        /\ \/ UNCHANGED row
           \/ Pending(i) /\ row[i].photo = p /\ row' = [row EXCEPT ![i].photo = 0]
    BY <1>5 DEF TidyClears
  <2>2. /\ tidy[c].job \in tidy[c].todo /\ i \in Items /\ row[i].st = "gone" /\ p \notin file
    BY <1>0, <2>1, PhotoFacts DEF Steady, Held, Tidying, Cared, Doomed
  <2> HIDE DEF i, p
  <2>3. CASE UNCHANGED row
    BY <1>0, <1>3, <2>1, <2>3, CaredKept
  <2>4. CASE row[i].photo = p /\ row' = [row EXCEPT ![i].photo = 0]
    <3>1. \A j \in Items : row'[j].st = row[j].st /\ row'[j].photo = IF j = i THEN 0 ELSE row[j].photo
      BY <1>0, <2>2, <2>4, PhotoFacts DEF Rows
    <3>2. \A d \in Cleaners : tidy'[d].todo \subseteq tidy[d].todo
                  /\ (tidy'[d].pc = "clear" => tidy[d].pc = "clear" /\ tidy'[d].job = tidy[d].job)
      BY <1>3, <2>1
    <3>3. file \subseteq Nat \ {0} /\ \A l \in Launches : load[l].files \subseteq Nat \ {0}
      BY <1>0, PhotoFacts
    <3>4. Carried' /\ PhotosKept'
      BY <2>1, <2>2, <3>1 DEF Cared, Carried, PhotosKept, Live
    <3>5. Owned'
      <4>1. Updating \/ Creating => save.item \in Items
        BY <1>0 DEF Updating, Creating, Types
      <4>2. /\ \A j \in Items : row'[j].photo <= copies /\ (row'[j].st = "none" => row'[j].photo = 0)
            /\ \A j, k \in Items : row'[j].photo # 0 /\ row'[j].photo = row'[k].photo => j = k
        BY <1>1, <2>1, <2>2, <3>1 DEF Cared, Owned
      <4>3. \A q \in Nat \ {0} : Names(q)' => Names(q)
        BY <2>1, <3>1 DEF Names
      <4>4. (Copied => save.copy # save.old /\ ~Names(save.copy)') /\ (save.pc = "drop" => ~Names(save.old)')
        <5>1. save.copy \in Nat /\ save.old \in Nat /\ (save.pc = "drop" => save.old # 0)
          BY <1>0, PhotoFacts DEF Cared, Carried
        <5> QED
          BY <2>1, <4>3, <5>1 DEF Cared, Owned, Copied
      <4>5. /\ Updating => row'[save.item].st # "none" /\ (row'[save.item].st = "live" => row'[save.item].photo = save.old)
            /\ Creating => row'[save.item].photo = 0
        BY <2>1, <2>2, <3>1, <4>1 DEF Cared, Owned, Live
      <4> QED
        BY <2>1, <4>2, <4>4, <4>5 DEF Cared, Owned, Copied, Creating, Updating, Names, Live
    <3>6. Doomed'
      <4>1. \A d \in Cleaners : \A job \in tidy[d].todo : job[1] \in Items /\ job[2] \in Nat \ {0}
        BY <1>0, PhotoFacts
      <4> QED
        BY <2>1, <2>2, <3>1, <3>2, <4>1 DEF Cared, Doomed, Copied, Creating
    <3>7. Swept' /\ Accounted'
      <4>1. \A q \in file : Names(q) => Names(q)'
        BY <2>1, <2>2, <2>4, <3>1 DEF Names
      <4> QED
        BY <2>1, <3>1, <3>3, <4>1 DEF Cared, Swept, Accounted, Copied
    <3> QED
      BY <3>4, <3>5, <3>6, <3>7 DEF Cared
  <2> QED
    BY <2>1, <2>3, <2>4 DEF i, p
<1>6. ASSUME NEW job \in tidy[c].todo, TidyDeletes(c, job) PROVE Cared'
  <2>1. /\ tidy[c].pc = "next" /\ file' = file \ {job[2]} /\ UNCHANGED <<row, copies, load, save, missed>>
        /\ tidy'[c].pc = "clear" /\ tidy'[c].job = job
        /\ \A d \in Cleaners : tidy'[d].todo = tidy[d].todo /\ (d # c => tidy'[d] = tidy[d])
    BY <1>1, <1>6 DEF TidyDeletes, rows, Tidier
  <2>2. Carried' /\ Owned'
    <3>1. Copied => job[2] # save.copy
      BY DEF Cared, Doomed
    <3> QED
      BY <2>1, <3>1 DEF Cared, Carried, Owned, Copied, Creating, Updating, Names, Live
  <2>3. Doomed'
    BY <2>1 DEF Cared, Doomed, Copied, Creating
  <2>4. PhotosKept'
    <3>1. job[1] \in Items /\ row[job[1]].st = "gone" /\ \A i \in Items : row[i].photo = job[2] => i = job[1]
      BY <1>0, PhotoFacts DEF Cared, Doomed
    <3> QED
      BY <2>1, <3>1 DEF Cared, PhotosKept, Live
  <2>5. Swept' /\ Accounted'
    BY <2>1 DEF Cared, Swept, Accounted, Names, Copied
  <2> QED
    BY <2>2, <2>3, <2>4, <2>5 DEF Cared
<1> QED
  BY <1>2, <1>4, <1>5, <1>6 DEF TidyAnswers

LEMMA CaredLoad ==
    ASSUME Steady, Cared, NEW l \in Launches, initialize(l) \/ LoadSteps(l)
    PROVE  Cared'
<1>0. Types
  BY DEF Steady
<1>1. /\ load[l] \in Loader /\ load \in [Launches -> Loader] /\ tidy \in [Cleaners -> Tidier]
      /\ missed.file \in BOOLEAN
  BY <1>0 DEF Types
<1>2. ASSUME UNCHANGED <<row, file, copies, save, tidy, missed>>,
             \E pc \in {"open", "ask", "answered", "await", "files"} :
               load' = [load EXCEPT ![l] = [load[l] EXCEPT !.pc = pc]]
      PROVE  Cared'
  BY <1>0, <1>1, <1>2, CaredKept DEF Loader
<1>3. CASE initialize(l) \/ LoadOpens(l) \/ SweepStarts(l)
  BY <1>2, <1>3 DEF initialize, LoadOpens, SweepStarts, LoadStep, disk, rows
<1>4. CASE LoadAnswered(l)
  <2>1. /\ UNCHANGED <<row, file, copies, save, tidy, missed>>
        /\ \A m \in Launches : load'[m].pc = IF m = l THEN "answered" ELSE load[m].pc
        /\ \A m \in Launches : load'[m].files = load[m].files /\ load'[m].whole = load[m].whole
    BY <1>1, <1>4 DEF LoadAnswered, disk, rows, Loader
  <2> QED
    BY <1>0, <2>1, CaredKept
<1>5. CASE LoadFails(l)
  <2>1. /\ UNCHANGED <<row, file, copies, save, tidy>> /\ missed'.file = missed.file
        /\ load' = [load EXCEPT ![l] = NoLoad]
    BY <1>0, <1>5 DEF LoadFails, Excused, disk, rows, Types
  <2> QED
    BY <1>0, <1>1, <2>1, CaredKept DEF NoLoad
<1>6. CASE LoadLands(l)
  <2>1. /\ UNCHANGED <<row, file, copies, save, missed>>
        /\ \A m \in Launches : load'[m].pc = IF m = l THEN "tidy" ELSE load[m].pc
        /\ \A m \in Launches : load'[m].files = load[m].files /\ load'[m].whole = load[m].whole
        /\ tidy' = [tidy EXCEPT ![l] = [NoTidy EXCEPT !.pc = "list"]]
    BY <1>1, <1>6 DEF LoadLands, TidyStart, disk, rows, Loader
  <2>2. [NoTidy EXCEPT !.pc = "list"].pc = "list" /\ [NoTidy EXCEPT !.pc = "list"].todo = {}
    BY DEF NoTidy
  <2> QED
    BY <1>0, <1>1, <2>1, <2>2, CaredKept
<1>7. CASE LoadTidied(l)
  <2>1. /\ UNCHANGED <<row, file, copies, save, missed>> /\ tidy' = [tidy EXCEPT ![l] = NoTidy]
        /\ \A m \in Launches : load'[m].pc = IF m = l THEN "await" ELSE load[m].pc
        /\ \A m \in Launches : load'[m].files = load[m].files /\ load'[m].whole = load[m].whole
    BY <1>1, <1>7 DEF LoadTidied, LoadStep, TidyOver, disk, rows, Loader
  <2> QED
    BY <1>0, <1>1, <2>1, CaredKept DEF NoTidy
<1>8. ASSUME UNCHANGED <<row, file, copies, save, tidy>>, missed' = missed, Swept'
      PROVE  Cared'
  BY <1>8 DEF Cared, Carried, Owned, Doomed, PhotosKept, Accounted, Copied, Creating, Updating, Names, Live
<1>9. CASE SweepLists(l)
  <2>1. /\ UNCHANGED <<row, file, copies, save, tidy, missed>>
        /\ load' = [load EXCEPT ![l] = [load[l] EXCEPT !.pc = "names", !.files = file]]
    BY <1>1, <1>9 DEF SweepLists, disk, rows
  <2>2. Swept'
    BY <1>1, <2>1 DEF Cared, Swept, Names, Loader
  <2> QED
    BY <1>8, <2>1, <2>2
<1>10. CASE SweepNames(l)
  <2> DEFINE whole(old) == old = orphanedWardrobePhotoPaths(l)
  <2>1. /\ UNCHANGED <<row, file, copies, save, tidy, missed>> /\ load[l].pc = "names"
    BY <1>10 DEF SweepNames, disk, rows
  <2>2. PICK old \in SUBSET orphanedWardrobePhotoPaths(l) :
          load' = [load EXCEPT ![l].pc = "delete", ![l].files = old, ![l].whole = whole(old)]
    BY <1>10 DEF SweepNames
  <2>3. whole(old) \in BOOLEAN
    OBVIOUS
  <2>4. /\ whole(old) => \A p \in load[l].files : p \in old \/ Names(p)
        /\ \A i \in Items : row[i].photo \notin old
    BY <2>2 DEF orphanedWardrobePhotoPaths, Names
  <2> DEFINE w == whole(old)
  <2>5. w \in BOOLEAN /\ load' = [load EXCEPT ![l].pc = "delete", ![l].files = old, ![l].whole = w]
        /\ (w => \A p \in load[l].files : p \in old \/ Names(p))
    BY <2>2, <2>3, <2>4
  <2> HIDE DEF w, whole
  <2>6. /\ load'[l].pc = "delete" /\ load'[l].files = old /\ load'[l].whole = w
        /\ \A m \in Launches : m # l => load'[m] = load[m]
    BY <1>1, <2>5 DEF Loader
  <2>7. \A p : Names(p)' <=> Names(p)
    BY <2>1 DEF Names
  <2>8. ASSUME NEW m \in Launches, m # l
        PROVE  /\ load'[m].pc = "names" => file' \subseteq load'[m].files
               /\ load'[m].pc = "delete" => \A i \in Items : row'[i].photo \notin load'[m].files
               /\ load'[m].pc = "delete" /\ load'[m].whole =>
                    \A p \in file' : p \in load'[m].files \/ Names(p)'
    BY <2>1, <2>6, <2>7, <2>8 DEF Cared, Swept
  <2>9. file' \subseteq load[l].files
    BY <2>1 DEF Cared, Swept
  <2>10. load'[l].whole => \A p \in file' : p \in load'[l].files \/ Names(p)'
    BY <2>5, <2>6, <2>7, <2>9
  <2>11. \A i \in Items : row'[i].photo \notin load'[l].files
    BY <2>1, <2>4, <2>6
  <2>12. Swept'
    BY <2>6, <2>8, <2>10, <2>11 DEF Swept
  <2> QED
    BY <1>8, <2>1, <2>12
<1>11. CASE SweepEnds(l)
  <2>1. /\ UNCHANGED <<row, file, copies, save, tidy>> /\ load' = [load EXCEPT ![l] = NoLoad]
    BY <1>11 DEF SweepEnds, disk, rows
  <2>2. \/ missed' = missed
        \/ load[l].pc = "delete" /\ load[l].files = {} /\ (missed'.file <=> missed.file /\ ~load[l].whole)
    BY <1>0, <1>1, <1>11 DEF SweepEnds, Types, Loader
  <2>3. Swept'
    BY <1>1, <2>1 DEF Cared, Swept, Names, NoLoad
  <2>4. Accounted'
    BY <2>1, <2>2 DEF Cared, Swept, Accounted, Names, Copied
  <2> QED
    BY <2>1, <2>3, <2>4 DEF Cared, Carried, Owned, Doomed, PhotosKept, Copied, Creating, Updating, Names, Live
<1>12. ASSUME NEW p \in Photos, SweepDeletes(l, p) PROVE Cared'
  <2>1. /\ load[l].pc = "delete" /\ p \in load[l].files /\ UNCHANGED <<row, copies, save, tidy, missed>>
        /\ file' \in {file, file \ {p}} /\ load'[l].pc = "delete" /\ load'[l].files = load[l].files \ {p}
        /\ (load'[l].whole => load[l].whole /\ file' = file \ {p})
        /\ \A m \in Launches : m # l => load'[m] = load[m]
    BY <1>1, <1>12 DEF SweepDeletes, rows, Loader
  <2>2. \A i \in Items : row[i].photo # p
    BY <2>1 DEF Cared, Swept
  <2>7. ~Copied
    BY <2>1, ClosetAssumption DEF Steady, Held, Apart, Saving, Sweeping, Copied
  <2>3. Carried' /\ Owned' /\ PhotosKept'
    BY <2>1, <2>2, <2>7 DEF Cared, Carried, Owned, PhotosKept, Copied, Creating, Updating, Names, Live
  <2>4. Doomed'
    BY <2>1 DEF Cared, Doomed, Copied, Creating
  <2>5. Accounted'
    BY <2>1 DEF Cared, Accounted, Names, Copied
  <2>6. Swept'
    BY <2>1 DEF Cared, Swept, Names
  <2> QED
    BY <2>3, <2>4, <2>5, <2>6 DEF Cared
<1> QED
  BY <1>3, <1>4, <1>5, <1>6, <1>7, <1>9, <1>10, <1>11, <1>12 DEF LoadSteps

LEMMA CaredReads ==
    ASSUME Types, Cared, refreshOnce \/ Reads
    PROVE  Cared'
<1>0. tidy \in [Cleaners -> Tidier] /\ "reload" \in Cleaners
  BY ConstantFacts DEF Types
<1>1. UNCHANGED <<row, file, copies, save, load>> /\ missed'.file = missed.file
  BY DEF refreshOnce, Reads, RefreshAnswered, RefreshLands, RefreshFails, ReloadReads, ReloadAnswered,
         ReloadFails, ReloadLands, ReloadTidied, disk, rows, Types
<1>2. tidy' = tidy \/ (\E t : tidy' = [tidy EXCEPT !["reload"] = t] /\ t.pc # "clear" /\ t.todo = {})
  <2>1. CASE ReloadLands
    <3>1. [NoTidy EXCEPT !.pc = "list"].pc # "clear" /\ [NoTidy EXCEPT !.pc = "list"].todo = {}
      BY DEF NoTidy
    <3> QED
      BY <2>1, <3>1 DEF ReloadLands, TidyStart
  <2>2. CASE ReloadTidied
    <3>1. NoTidy.pc # "clear" /\ NoTidy.todo = {}
      BY DEF NoTidy
    <3> QED
      BY <2>2, <3>1 DEF ReloadTidied, TidyOver
  <2>3. CASE refreshOnce \/ RefreshAnswered \/ RefreshLands \/ RefreshFails
    BY <2>3 DEF refreshOnce, RefreshAnswered, RefreshLands, RefreshFails
  <2>4. CASE ReloadReads \/ ReloadAnswered \/ ReloadFails
    BY <2>4 DEF ReloadReads, ReloadAnswered, ReloadFails
  <2> QED
    BY <2>1, <2>2, <2>3, <2>4 DEF Reads
<1> QED
  BY <1>0, <1>1, <1>2, CaredKept

\* A save that begins carries no photo yet.
LEMMA CaredBegins ==
    ASSUME Steady, Cared, NEW kind \in {"create", "update", "delete", "seed"},
           NEW i \in Items \cup {NoItem}, NEW photo \in Contents, Begins(kind, i, photo)
    PROVE  Cared'
<1>0. Types
  BY DEF Steady
<1>1. /\ UNCHANGED <<row, file, copies, load, tidy, missed>> /\ save.pc = "off"
  BY DEF Begins, mutate, disk, rows, Saving
<1>2. /\ save'.kind = kind /\ save'.item = i /\ save'.photo = photo /\ save'.copy = 0 /\ save'.old = 0
      /\ save'.pc \in {"gate", "read", "copy", "write"} /\ (kind = "update" => save'.pc \in {"gate", "read"})
      /\ (save'.pc = "copy" => photo = "replace")
  BY <1>0, MutateFacts DEF Begins
<1>3. /\ kind = "create" => i \in Items /\ row[i].st = "none" /\ photo # "remove"
      /\ kind \in {"delete", "seed"} => photo = "unchanged"
  BY DEF Begins
<1>4. copies \in Nat
  BY <1>0, PhotoFacts
<1>8. Carried'
  BY <1>2, <1>3 DEF Carried
<1>5. Owned'
  BY <1>1, <1>2, <1>3, <1>4 DEF Cared, Owned, Copied, Creating, Updating, Names, Live
<1>6. Doomed'
  BY <1>1, <1>2, <1>3 DEF Cared, Doomed, Copied, Creating
<1>7. PhotosKept' /\ Swept' /\ Accounted'
  BY <1>1, <1>2 DEF Cared, PhotosKept, Swept, Accounted, Names, Copied, Live
<1> QED
  BY <1>5, <1>6, <1>7, <1>8 DEF Cared

LEMMA CaredWrites ==
    ASSUME Steady, Cared, SaveWrites
    PROVE  Cared'
<1>0. /\ Types /\ save \in Saver /\ save.copy \in Nat /\ save.old \in Nat /\ copies \in Nat
      /\ row \in [Items -> Rows] /\ tidy \in [Cleaners -> Tidier]
      /\ file \subseteq Nat \ {0} /\ \A i \in Items : row[i].photo \in Nat /\ row[i] \in Rows
  BY PhotoFacts DEF Steady
<1>1. /\ save.pc = "write" /\ UNCHANGED <<file, copies, load, missed>>
      /\ IF Afterwards = "tidy" THEN tidy' = [tidy EXCEPT !["save"] = [NoTidy EXCEPT !.pc = "list"]]
         ELSE tidy' = tidy
  BY DEF SaveWrites, TidyStart
<1>2. PICK i \in Items, r \in Rows : Writes(i, r)
  BY <1>0, WritesFacts
<1>3. PICK shown \in List : SaveWritten(shown)
  BY <1>0, WritesFacts
<1>4. /\ save'.item = save.item
      /\ \/ Afterwards # "ask" /\ save'.pc = Afterwards /\ save'.kind = save.kind
            /\ save'.copy = save.copy /\ save'.old = save.old /\ save'.photo = save.photo
         \/ Afterwards = "ask" /\ save'.pc = "ask" /\ save'.kind = "none" /\ save'.copy = 0
            /\ save'.old = 0 /\ save'.photo = "unchanged"
      /\ Afterwards \in {"tidy", "drop", "ask"}
  BY <1>0, <1>3, WrittenFacts
<1>5. /\ row'[i].photo = r.photo /\ row'[i].st = r.st
      /\ \A j \in Items : j # i => row'[j] = row[j]
  BY <1>0, <1>2 DEF Writes
\* A photo it writes is the piece's own, its new copy, or none.
<1>6. \/ r.photo = 0
      \/ r.photo = row[i].photo
      \/ save.copy # 0 /\ r.photo = save.copy
  <2>1. CASE save.kind = "create"
    BY <1>2, <2>1 DEF Writes, Written
  <2>2. CASE save.kind = "update"
    <3>1. i = save.item /\ Live(i) /\ row[i].photo = save.old /\ r.photo = NewPhoto
      BY <1>1, <1>2, <2>2 DEF Writes, Written, Cared, Owned, Updating, Live
    <3> QED
      BY <3>1 DEF NewPhoto
  <2>3. CASE save.kind = "delete"
    BY <1>0, <1>2, <2>3 DEF Writes, Written, Rows
  <2>4. CASE save.kind = "seed"
    BY <1>2, <2>4 DEF Writes, Written
  <2> QED
    BY <1>2, <2>1, <2>2, <2>3, <2>4 DEF Writes, Written
\* The photo the piece had is kept, or is the one to drop.
<1>7. \/ row[i].photo = 0 \/ row[i].photo = r.photo
      \/ Afterwards = "drop" /\ save.old = row[i].photo
  <2>1. CASE save.kind = "create"
    BY <1>1, <1>2, <2>1 DEF Writes, Written, Cared, Owned, Creating
  <2>2. CASE save.kind = "update"
    <3>1. i = save.item /\ Live(i) /\ row[i].photo = save.old /\ r.photo = NewPhoto
      BY <1>1, <1>2, <2>2 DEF Writes, Written, Cared, Owned, Updating, Live
    <3> QED
      BY <2>2, <3>1 DEF NewPhoto, Afterwards
  <2>3. CASE save.kind = "delete"
    BY <1>0, <1>2, <2>3 DEF Writes, Written, Rows
  <2>4. CASE save.kind = "seed"
    BY <1>2, <2>4 DEF Writes, Written, Cared, Owned
  <2> QED
    BY <1>2, <2>1, <2>2, <2>3, <2>4 DEF Writes, Written
\* A photo copied for it is the piece's now.
<1>8. save.copy # 0 => r.photo = save.copy
  BY <1>1, <1>2 DEF Writes, Written, NewPhoto, Cared, Carried
<1>9. Copied => save.copy # save.old /\ \A j \in Items : row[j].photo # save.copy
  BY DEF Cared, Owned, Names
<1>10. save.copy # 0 => Copied
  BY <1>1 DEF Copied
<1>11. ~Copied' /\ ~Creating' /\ ~Updating'
  BY <1>4 DEF Copied, Creating, Updating
<1>12. /\ Afterwards = "drop" => save.old # 0 /\ save.photo # "unchanged" /\ save.kind = "update"
       /\ Afterwards = "tidy" => save.kind = "delete"
  BY DEF Afterwards, Cared, Carried
<1>13. Carried'
  <2>1. Afterwards = "tidy" => save.item \in Items
    BY <1>0, <1>12 DEF Types
  <2> QED
    BY <1>1, <1>4, <1>12, <2>1 DEF Cared, Carried
\* The photo to drop is nobody's any more.
<1>14. Afterwards = "drop" => \A j \in Items : row'[j].photo # save.old
  <2> SUFFICES ASSUME Afterwards = "drop" PROVE \A j \in Items : row'[j].photo # save.old
    OBVIOUS
  <2>1. i = save.item /\ Live(i) /\ row[i].photo = save.old /\ r.photo = NewPhoto
    BY <1>1, <1>2, <1>12 DEF Writes, Written, Cared, Owned, Updating, Live
  <2>2. r.photo = save.copy
    BY <1>12, <2>1 DEF NewPhoto
  <2>3. r.photo # save.old
    BY <1>9, <1>10, <1>12, <2>2
  <2>4. \A j \in Items : j # i => row[j].photo # save.old
    BY <1>12, <2>1 DEF Cared, Owned
  <2> QED
    BY <1>5, <2>3, <2>4
<1>15. Owned'
  <2>1. \A j \in Items : row'[j].photo <= copies /\ (row'[j].st = "none" => row'[j].photo = 0)
    BY <1>0, <1>2, <1>5, <1>6 DEF Cared, Owned, Writes
  <2>2. \A j, k \in Items : row'[j].photo # 0 /\ row'[j].photo = row'[k].photo => j = k
    BY <1>5, <1>6, <1>9, <1>10 DEF Cared, Owned
  <2>3. save'.copy <= copies /\ save'.old <= copies
    BY <1>0, <1>4 DEF Cared, Owned
  <2>4. (save.pc = "drop" => ~Names(save.old))'
    BY <1>4, <1>14 DEF Names
  <2> QED
    BY <1>1, <1>11, <2>1, <2>2, <2>3, <2>4 DEF Cared, Owned
<1>16. Doomed'
  <2>1. /\ [NoTidy EXCEPT !.pc = "list"].pc = "list" /\ [NoTidy EXCEPT !.pc = "list"].todo = {}
    BY DEF NoTidy
  <2>2. \A c \in Cleaners : tidy'[c].todo \subseteq tidy[c].todo
               /\ (tidy'[c].pc = "clear" => tidy[c].pc = "clear" /\ tidy'[c].job = tidy[c].job)
    BY <1>0, <1>1, <2>1, ConstantFacts
  \* A piece with a photo to remove is not written.
  <2>3. \A c \in Cleaners : \A job \in tidy[c].todo : job[1] # i
    <3>1. \A c \in Cleaners : \A job \in tidy[c].todo : row[job[1]].st = "gone" /\ (Creating => job[1] # save.item)
      BY DEF Cared, Doomed
    <3>2. Live(i) \/ row[i].st = "none" \/ (Creating /\ i = save.item)
      BY <1>1, <1>2 DEF Writes, Written, Creating
    <3> QED
      BY <3>1, <3>2 DEF Live
  <2>4. \A c \in Cleaners : \A job \in tidy[c].todo : job[1] \in Items /\ job[2] \in Nat \ {0}
    BY <1>0, PhotoFacts
  <2>5. \A c \in Cleaners : \A job \in tidy[c].todo : r.photo # job[2]
    <3>1. \A c \in Cleaners : \A job \in tidy[c].todo : /\ row[i].photo # job[2]
                                                        /\ (Copied => job[2] # save.copy)
      BY <2>3 DEF Cared, Doomed
    <3> QED
      BY <1>6, <1>10, <2>4, <3>1
  <2> QED
    BY <1>1, <1>5, <1>11, <2>2, <2>3, <2>4, <2>5 DEF Cared, Doomed
<1>17. PhotosKept'
  <2>1. save.copy # 0 /\ r.photo = save.copy => save.copy \in file
    BY <1>1 DEF Cared, Owned, Copied
  <2>2. \/ r.st = "gone" \/ r.photo = 0
        \/ (r.photo = save.copy /\ save.copy # 0)
        \/ (Live(i) /\ r.photo = row[i].photo)
    BY <1>0, <1>1, <1>2, <1>6 DEF Rows, Writes, Written, NewPhoto, Cared, Carried, Owned, Updating, Live
  <2> QED
    BY <1>1, <1>5, <2>1, <2>2 DEF Cared, PhotosKept, Live
<1>18. Swept'
  <2>1. \A l \in Launches : ~Sweeping(l)
    BY <1>1, ClosetAssumption DEF Steady, Held, Apart, Saving
  <2> QED
    BY <1>1, <2>1 DEF Swept, Sweeping
<1>19. Accounted'
  <2>1. \A p \in file : Names(p) => Names(p)' \/ (Afterwards = "drop" /\ p = save.old)
    <3> SUFFICES ASSUME NEW p \in file, NEW j \in Items, row[j].photo = p
                 PROVE  Names(p)' \/ (Afterwards = "drop" /\ p = save.old)
      BY DEF Names
    <3>1. CASE j # i
      BY <1>5, <3>1 DEF Names
    <3>2. CASE j = i
      BY <1>0, <1>5, <1>7, <3>2 DEF Names
    <3> QED
      BY <3>1, <3>2
  <2>2. \A p \in file : Copied /\ p = save.copy => Names(p)'
    BY <1>5, <1>8 DEF Names, Copied
  <2> QED
    BY <1>1, <1>4, <2>1, <2>2 DEF Cared, Accounted
<1> QED
  BY <1>13, <1>15, <1>16, <1>17, <1>18, <1>19 DEF Cared

LEMMA CaredSave ==
    ASSUME Steady, Cared, SaveSteps
    PROVE  Cared'
<1>0. /\ Types /\ save \in Saver /\ save.copy \in Nat /\ save.old \in Nat /\ copies \in Nat
      /\ file \subseteq Nat \ {0} /\ \A i \in Items : row[i].photo \in Nat /\ row[i] \in Rows
  BY PhotoFacts DEF Steady
\* A save that goes on without touching a row or a file.
<1>1. ASSUME UNCHANGED <<row, file, copies, load, missed>>, Carried', Owned',
             Copied' /\ save'.copy = save.copy => Copied, Copied' => save'.copy = save.copy,
             Creating' => Creating /\ save'.item = save.item,
             Copied => Copied', save.pc # "drop",
             \A c \in Cleaners : tidy'[c].todo \subseteq tidy[c].todo
               /\ (tidy'[c].pc = "clear" => tidy[c].pc = "clear" /\ tidy'[c].job = tidy[c].job)
      PROVE  Cared'
  <2>1. Doomed'
    BY <1>1 DEF Cared, Doomed
  <2>2. PhotosKept' /\ Swept' /\ Accounted'
    BY <1>1 DEF Cared, PhotosKept, Swept, Accounted, Names, Live
  <2> QED
    BY <1>1, <2>1, <2>2 DEF Cared
<1>2. CASE SavePassesSweep
  <2>1. /\ UNCHANGED <<row, file, copies, load, missed, tidy>> /\ save.pc = "gate"
        /\ save' = [save EXCEPT !.pc = Operation(save), !.sweep = NoLaunch]
    BY <1>2 DEF SavePassesSweep, disk, rows
  <2>2. /\ Operation(save) \in {"read", "copy", "write"}
        /\ Operation(save) = "read" <=> save.kind = "update"
        /\ Operation(save) = "copy" => save.photo = "replace"
    BY DEF Operation
  <2>3. /\ save'.pc = Operation(save) /\ save'.kind = save.kind /\ save'.item = save.item
        /\ save'.photo = save.photo /\ save'.copy = save.copy /\ save'.old = save.old
    BY <1>0, <2>1 DEF Saver
  <2>4. save.copy = 0
    BY <2>1 DEF Cared, Carried
  <2>5. Carried' /\ Owned'
    BY <2>1, <2>2, <2>3, <2>4 DEF Cared, Carried, Owned, Copied, Creating, Updating, Names, Live
  <2> QED
    BY <1>1, <2>1, <2>2, <2>3, <2>4, <2>5 DEF Copied, Creating
<1>3. CASE SaveReads
  <2>1. /\ UNCHANGED <<row, file, copies, load, missed, tidy>> /\ save.pc = "read" /\ Live(save.item)
        /\ save.item \in Items /\ save.kind = "update"
    BY <1>0, <1>3 DEF SaveReads, disk, rows, Types
  <2>2. /\ save'.pc = (IF save.photo = "replace" THEN "copy" ELSE "write") /\ save'.kind = save.kind /\ save'.item = save.item
        /\ save'.photo = save.photo /\ save'.copy = save.copy /\ save'.old = row[save.item].photo
    BY <1>0, <1>3 DEF SaveReads, Saver
  <2>4. save.copy = 0
    BY <2>1 DEF Cared, Carried
  <2>5. Carried' /\ Owned'
    BY <1>0, <2>1, <2>2, <2>4 DEF Cared, Carried, Owned, Copied, Creating, Updating, Names, Live
  <2> QED
    BY <1>1, <2>1, <2>2, <2>4, <2>5 DEF Copied, Creating
<1>4. CASE SaveAnswered
  <2>1. /\ UNCHANGED <<row, file, copies, load, missed, tidy>> /\ save.pc = "ask"
    BY <1>4 DEF SaveAnswered, disk, rows
  <2>2. /\ save'.pc = "answered" /\ save'.kind = save.kind /\ save'.item = save.item
        /\ save'.photo = save.photo /\ save'.copy = save.copy /\ save'.old = save.old
    BY <1>0, <1>4 DEF SaveAnswered, Saver
  <2>5. Carried' /\ Owned'
    BY <2>1, <2>2 DEF Cared, Carried, Owned, Copied, Creating, Updating, Names, Live
  <2> QED
    BY <1>1, <2>1, <2>2, <2>5 DEF Copied, Creating
<1>5. CASE SaveCopies
  <2>1. /\ UNCHANGED <<row, load, missed, tidy>> /\ save.pc = "copy" /\ copies' = copies + 1
        /\ file' = file \cup {copies + 1}
    BY <1>5 DEF SaveCopies, rows
  <2>2. /\ save'.pc = "write" /\ save'.kind = save.kind /\ save'.item = save.item
        /\ save'.photo = save.photo /\ save'.copy = copies + 1 /\ save'.old = save.old
    BY <1>0, <1>5 DEF SaveCopies, Saver
  <2>3. \A i \in Items : row[i].photo <= copies /\ row[i].photo # copies + 1
    BY <1>0 DEF Cared, Owned
  <2>4. save.photo = "replace"
    BY <2>1 DEF Cared, Carried
  <2>5. Carried'
    BY <1>0, <2>1, <2>2, <2>4 DEF Cared, Carried
  <2>6. Owned'
    <3>1. save.old # copies + 1 /\ save.old <= copies + 1
      BY <1>0 DEF Cared, Owned
    <3>2. \A p \in file : p <= copies + 1
      BY <1>0 DEF Cared, Owned
    <3>3. ~Names(copies + 1)
      BY <2>3 DEF Names
    <3> QED
      BY <1>0, <2>1, <2>2, <2>3, <3>1, <3>2, <3>3
      DEF Cared, Owned, Copied, Creating, Updating, Names, Live
  <2>7. Doomed'
    <3>1. \A c \in Cleaners : \A job \in tidy[c].todo : job[2] \in Nat /\ job[2] <= copies
      BY <1>0, PhotoFacts DEF Cared, Doomed
    <3>2. \A c \in Cleaners : \A job \in tidy[c].todo : job[2] <= copies + 1 /\ job[2] # copies + 1
      BY <1>0, <3>1
    <3>3. \A c \in Cleaners : tidy[c].pc = "clear" => tidy[c].job \in tidy[c].todo
      BY DEF Steady, Held, Tidying
    <3>4. (Creating)' => Creating
      BY <2>1, <2>2 DEF Creating
    <3>5. \A c \in Cleaners : tidy[c].pc = "clear" => tidy[c].job[2] \notin file'
      BY <2>1, <3>2, <3>3 DEF Cared, Doomed
    <3> QED
      BY <2>1, <2>2, <3>2, <3>4, <3>5 DEF Cared, Doomed, Copied
  <2>8. PhotosKept' /\ Accounted'
    BY <1>0, <2>1, <2>2 DEF Cared, PhotosKept, Accounted, Names, Copied, Live
  <2>9. Swept'
    <3>1. \A l \in Launches : ~Sweeping(l)
      BY <2>1, ClosetAssumption DEF Steady, Held, Apart, Saving
    <3> QED
      BY <2>1, <3>1 DEF Swept, Sweeping
  <2> QED
    BY <2>5, <2>6, <2>7, <2>8, <2>9 DEF Cared
<1>6. CASE SaveWrites
  BY <1>0, <1>6, CaredWrites
<1>7. CASE SaveWritesNothing
  <2>1. /\ UNCHANGED <<row, file, copies, load, missed, tidy>> /\ save.pc = "write"
        /\ SaveReadsList(save.shown)
        /\ save.kind = "seed" \/ (save.kind = "update" /\ save.old = NewPhoto)
    BY <1>7 DEF SaveWritesNothing, disk, rows
  <2>2. save.shown \in List
    BY <1>0 DEF Saver
  <2>3. /\ save'.pc = "ask" /\ save'.kind = "none" /\ save'.photo = "unchanged" /\ save'.copy = 0 /\ save'.old = 0
    BY <1>0, <2>1, <2>2, AskListFacts
  <2>4. save.copy = 0
    BY <2>1 DEF Cared, Carried, Owned, Copied, NewPhoto
  <2>5. Carried' /\ Owned'
    BY <1>0, <2>1, <2>3 DEF Cared, Carried, Owned, Copied, Creating, Updating, Names, Live
  <2> QED
    BY <1>1, <2>1, <2>3, <2>4, <2>5 DEF Copied, Creating
<1>8. ASSUME SaveOver PROVE save' = NoSave /\ save'.pc = "off" /\ save'.kind = "none" /\ save'.photo = "unchanged"
                            /\ save'.copy = 0 /\ save'.old = 0
  BY <1>8 DEF SaveOver, NoSave
<1>9. CASE SaveFails
  <2>1. /\ UNCHANGED <<row, file, copies, load, missed, tidy>> /\ save.pc \in {"read", "copy", "write"}
    BY <1>9 DEF SaveFails, disk, rows
  <2>2. CASE save.copy # 0
    <3>1. /\ save'.pc = "undo" /\ save'.kind = save.kind /\ save'.item = save.item
          /\ save'.photo = save.photo /\ save'.copy = save.copy /\ save'.old = save.old
      BY <1>0, <1>9, <2>2 DEF SaveFails, SaveStep, Saver
    <3>2. save.pc = "write"
      BY <2>1, <2>2 DEF Cared, Carried
    <3>3. Carried' /\ Owned'
      BY <1>0, <2>1, <2>2, <3>1, <3>2 DEF Cared, Carried, Owned, Copied, Creating, Updating, Names, Live
    <3> QED
      BY <1>1, <2>1, <3>1, <3>2, <3>3 DEF Copied, Creating
  <2>3. CASE save.copy = 0
    <3>1. SaveOver
      BY <1>9, <2>3 DEF SaveFails
    <3>2. Carried' /\ Owned'
      BY <1>0, <1>8, <2>1, <3>1 DEF Cared, Carried, Owned, Copied, Creating, Updating, Names, Live
    <3> QED
      BY <1>1, <1>8, <2>1, <2>3, <3>1, <3>2 DEF Copied, Creating
  <2> QED
    BY <2>2, <2>3
\* A file that no row names goes, or a failure leaves it.
<1>10. ASSUME NEW p, Removes(p), ~Names(p), UNCHANGED <<row, copies, load, tidy>>, Saving, save.pc # "gate",
              Carried', save'.copy = 0, save'.old = 0, save'.kind = "none",
              \A q \in file : (Copied /\ q = save.copy) \/ (save.pc = "drop" /\ q = save.old) => q = p
       PROVE  Cared'
  <2>1. /\ \/ file' = file \ {p} /\ missed' = missed
           \/ file' = file /\ missed'.file
    BY <1>0, <1>10 DEF Removes, Excused, Types
  <2>7. ~Copied' /\ ~Creating' /\ ~Updating' /\ save'.pc # "drop"
    BY <1>10 DEF Copied, Creating, Updating, Carried
  <2>2. Owned'
    <3>1. Owned
      BY DEF Cared
    <3>2. /\ \A i \in Items : row'[i].photo <= copies' /\ (row'[i].st = "none" => row'[i].photo = 0)
          /\ \A i, j \in Items : row'[i].photo # 0 /\ row'[i].photo = row'[j].photo => i = j
      BY <1>10, <3>1 DEF Owned
    <3>3. \A q \in file : q <= copies
      BY <3>1 DEF Owned
    <3>4. copies' = copies /\ file' \subseteq file
      BY <1>10, <2>1
    <3>5. \A q \in file' : q <= copies'
      BY <3>3, <3>4
    <3>6. save'.copy <= copies' /\ save'.old <= copies'
      BY <1>0, <1>10, <3>4
    <3> QED
      BY <2>7, <3>2, <3>5, <3>6 DEF Owned
  <2>3. Doomed'
    BY <1>10, <2>1 DEF Cared, Doomed, Copied, Creating
  <2>4. PhotosKept'
    BY <1>10, <2>1 DEF Cared, PhotosKept, Names, Live
  <2>5. Swept'
    <3>1. \A l \in Launches : ~Sweeping(l)
      BY <1>10, ClosetAssumption DEF Steady, Held, Apart, Saving
    <3> QED
      BY <1>10, <3>1 DEF Swept, Sweeping
  <2>6. Accounted'
    BY <1>10, <2>1 DEF Cared, Accounted, Names
  <2> QED
    BY <1>10, <2>2, <2>3, <2>4, <2>5, <2>6 DEF Cared
<1>11. CASE SaveUndoes
  <2>1. /\ UNCHANGED <<row, copies, load, tidy>> /\ save.pc = "undo" /\ Removes(save.copy) /\ SaveOver
    BY <1>11 DEF SaveUndoes, rows
  <2>2. save.copy # 0
    BY <2>1 DEF Cared, Carried
  <2>3. Copied /\ ~Names(save.copy)
    BY <2>1, <2>2 DEF Cared, Owned, Copied
  <2>4. Carried'
    BY <1>8, <2>1 DEF Carried
  <2> QED
    BY <1>8, <1>10, <2>1, <2>3, <2>4 DEF Saving
<1>12. CASE SaveDrops
  <2>1. /\ UNCHANGED <<row, copies, load, tidy>> /\ save.pc = "drop" /\ Removes(save.old)
        /\ SaveReadsList(save.shown)
    BY <1>12 DEF SaveDrops, rows
  <2>2. save.shown \in List
    BY <1>0 DEF Saver
  <2>3. /\ save'.pc = "ask" /\ save'.kind = "none" /\ save'.photo = "unchanged" /\ save'.copy = 0 /\ save'.old = 0
    BY <1>0, <2>1, <2>2, AskListFacts
  <2>4. Carried' /\ ~Names(save.old)
    BY <2>1, <2>3 DEF Cared, Carried, Owned
  <2> QED
    BY <1>10, <2>1, <2>3, <2>4 DEF Saving, Copied
<1>13. CASE SaveTidied
  <2>1. /\ UNCHANGED <<row, file, copies, load, missed>> /\ save.pc = "tidy"
        /\ SaveReadsList(save.shown) /\ tidy' = [tidy EXCEPT !["save"] = NoTidy]
    BY <1>13 DEF SaveTidied, TidyOver, disk, rows
  <2>2. save.shown \in List
    BY <1>0 DEF Saver
  <2>3. /\ save'.pc = "ask" /\ save'.kind = "none" /\ save'.photo = "unchanged" /\ save'.copy = 0 /\ save'.old = 0
    BY <1>0, <2>1, <2>2, AskListFacts
  <2>4. \A c \in Cleaners : tidy'[c].todo \subseteq tidy[c].todo
               /\ (tidy'[c].pc = "clear" => tidy[c].pc = "clear" /\ tidy'[c].job = tidy[c].job)
    BY <1>0, <2>1, ConstantFacts DEF NoTidy, Types
  <2>5. Carried' /\ Owned'
    BY <1>0, <2>1, <2>3 DEF Cared, Carried, Owned, Copied, Creating, Updating, Names, Live
  <2> QED
    BY <1>1, <2>1, <2>3, <2>4, <2>5 DEF Copied, Creating
<1>14. CASE SaveLands
  <2>1. /\ UNCHANGED <<row, file, copies, load, missed, tidy>> /\ save.pc \in {"ask", "answered"} /\ SaveOver
    BY <1>14 DEF SaveLands, disk, rows
  <2>2. Carried' /\ Owned'
    BY <1>0, <1>8, <2>1 DEF Cared, Carried, Owned, Copied, Creating, Updating, Names, Live
  <2> QED
    BY <1>1, <1>8, <2>1, <2>2 DEF Copied, Creating
<1> QED
  BY <1>2, <1>3, <1>4, <1>5, <1>6, <1>7, <1>9, <1>11, <1>12, <1>13, <1>14 DEF SaveSteps

LEMMA CaredKilled ==
    ASSUME Types, Cared, Killed
    PROVE  Cared'
<1>1. /\ UNCHANGED <<row, file, copies>> /\ load' = [l \in Launches |-> NoLoad] /\ save' = NoSave
      /\ tidy' = [c \in Cleaners |-> NoTidy]
      /\ (missed'.file <=> missed.file \/ save.pc \in {"write", "undo", "drop"})
  BY DEF Killed, disk, rows, Types
<1>2. copies \in Nat
  BY PhotoFacts
<1>3. Carried' /\ Owned'
  BY <1>1, <1>2 DEF Cared, Carried, Owned, Copied, Creating, Updating, Names, Live, NoSave
<1>4. Doomed'
  BY <1>1 DEF Doomed, NoTidy
<1>5. PhotosKept' /\ Swept' /\ Accounted'
  BY <1>1 DEF Cared, PhotosKept, Swept, Accounted, Names, Copied, Live, NoLoad
<1> QED
  BY <1>3, <1>4, <1>5 DEF Cared

\* A deleted piece's photo is on the way out: a reload will look for it, a
\* removal is about to, or has it on its list.
Rereads == reload.pc \in {"wait", "ask", "answered"} \/ reload.again
Handled(i) ==
    \/ Rereads
    \/ \E c \in Cleaners : tidy[c].pc = "list" /\ (c = "save" => save.item = i)
    \/ \E c \in Cleaners : <<i, row[i].photo>> \in tidy[c].todo
Due ==
    /\ ~Ready /\ ~missed.tidy => refresh.pc = "off" /\ ui.status = "loading"
    /\ Ready /\ ~missed.tidy => \A i \in Items : Pending(i) => Handled(i)

LEMMA DueInit == Init => Due
BY DEF Init, Due, NoRead, Loading, Ready

\* Steps after which whatever was on its way still is.
LEMMA DueKept ==
    ASSUME Due, UNCHANGED row, Ready' <=> Ready,
           ~Ready => ui'.status = ui.status /\ refresh'.pc = refresh.pc,
           missed'.tidy <=> missed.tidy, Ready /\ Rereads => Rereads',
           \A c \in Cleaners : tidy[c].pc = "list" => tidy'[c].pc = "list" /\ (c = "save" => save'.item = save.item),
           \A c \in Cleaners : tidy[c].todo \subseteq tidy'[c].todo
    PROVE  Due'
<1>1. ASSUME NEW i \in Items, Ready, Handled(i) PROVE Handled(i)'
  BY <1>1 DEF Handled
<1> QED
  BY <1>1 DEF Due, Pending

\* Steps that ask for a reload of an open Closet.
LEMMA DueAsked ==
    ASSUME Types, Due, reloadRun, UNCHANGED <<ui, refresh>>, missed'.tidy <=> missed.tidy
    PROVE  Due'
<1>1. Ready => Rereads'
  <2>1. reload \in Reloader
    BY DEF Types
  <2>2. [NoReload EXCEPT !.pc = "wait", !.waits = Saving].pc = "wait"
    BY DEF NoReload
  <2>3. [reload EXCEPT !.again = TRUE].again
    BY <2>1 DEF Reloader
  <2> QED
    BY <2>2, <2>3, AskFacts DEF Rereads
<1> QED
  BY <1>1 DEF Due, Handled, Ready

LEMMA RereadsFacts ==
    ASSUME Types
    PROVE  /\ reload' = Begun(reload) => (Rereads' <=> Rereads)
           /\ reload' = Passed(reload) => (Rereads' <=> Rereads)
           /\ reload' = Outdated(reload) => (Rereads' <=> Rereads)
           /\ reload' = [Outdated(reload) EXCEPT !.waits = FALSE] => (Rereads' <=> Rereads)
           /\ reload' = reload => (Rereads' <=> Rereads)
BY TouchedFacts DEF Rereads

LEMMA DueTidy ==
    ASSUME Steady, Due, NEW c \in Cleaners, TidyAnswers(c)
    PROVE  Due'
<1>0. Types /\ tidy[c] \in Tidier /\ tidy \in [Cleaners -> Tidier] /\ missed.tidy \in BOOLEAN
  BY DEF Steady, Types
<1>1. CASE TidyLists(c)
  <2> DEFINE todo == {<<i, row[i].photo>> : i \in {j \in Items : Pending(j) /\ (c = "save" => save.item = j)}}
  <2>1. /\ tidy[c].pc = "list" /\ UNCHANGED <<row, ui, refresh, reload, save>>
        /\ tidy' = [tidy EXCEPT ![c] = [NoTidy EXCEPT !.pc = "next", !.todo = todo]]
        /\ (missed'.tidy <=> missed.tidy /\ c = "save")
    BY <1>0, <1>1 DEF TidyLists, disk, rows, Types
  <2>2. \A i \in Items : Pending(i) /\ (c = "save" => save.item = i) => <<i, row[i].photo>> \in todo
    OBVIOUS
  <2> HIDE DEF todo
  <2>3. /\ tidy'[c].todo = todo /\ \A d \in Cleaners : d # c => tidy'[d] = tidy[d]
    BY <1>0, <2>1 DEF NoTidy
  <2>4. Ready
    BY <2>1, ConstantFacts DEF Steady, Held, Tidying, Loads, Saving, Cleaners
  <2>5. tidy[c].todo = {}
    BY <2>1 DEF Steady, Held, Tidying
  <2>6. ASSUME NEW i \in Items, Pending(i), ~missed'.tidy PROVE Handled(i)'
    <3>1. CASE c # "save"
      BY <2>1, <2>2, <2>3, <2>6, <3>1 DEF Handled
    <3>2. CASE c = "save" /\ save.item = i
      BY <2>1, <2>2, <2>3, <2>6, <3>2 DEF Handled
    <3>3. CASE c = "save" /\ save.item # i
      <4>1. Handled(i)
        BY <2>1, <2>4, <2>6, <3>3 DEF Due
      <4> QED
        BY <2>1, <2>3, <2>5, <3>3, <4>1 DEF Handled, Rereads
    <3> QED
      BY <3>1, <3>2, <3>3
  <2> QED
    BY <2>1, <2>4, <2>6 DEF Due, Ready, Pending
<1>2. CASE TidyFails(c)
  <2>1. missed'.tidy
    BY <1>0, <1>2 DEF TidyFails, Excused, Types
  <2> QED
    BY <2>1 DEF Due
<1>3. CASE TidyClears(c)
  <2>1. CASE reloadRun
    BY <1>0, <1>3, <2>1, DueAsked DEF TidyClears
  <2>2. CASE UNCHANGED <<row, reload>> /\ ~(Pending(tidy[c].job[1]) /\ row[tidy[c].job[1]].photo = tidy[c].job[2])
    <3>1. /\ tidy[c].pc = "clear" /\ UNCHANGED <<row, ui, refresh, reload, save, missed>>
          /\ tidy' = [tidy EXCEPT ![c] = [tidy[c] EXCEPT !.pc = "next", !.todo = @ \ {tidy[c].job}, !.job = NoJob]]
      BY <1>0, <1>3, <2>2 DEF TidyClears, NextJob
    <3>2. /\ tidy'[c].todo = tidy[c].todo \ {tidy[c].job} /\ \A d \in Cleaners : d # c => tidy'[d] = tidy[d]
      BY <1>0, <3>1 DEF Tidier
    <3>3. \A i \in Items : Pending(i) => <<i, row[i].photo>> # tidy[c].job
      BY <2>2
    <3>4. ASSUME NEW i \in Items, Pending(i), Handled(i) PROVE Handled(i)'
      BY <3>1, <3>2, <3>3, <3>4 DEF Handled, Rereads
    <3> QED
      BY <3>1, <3>4 DEF Due, Pending, Ready
  <2> QED
    BY <1>3, <2>1, <2>2 DEF TidyClears
<1>4. ASSUME NEW job \in tidy[c].todo, TidyDeletes(c, job) PROVE Due'
  <2>1. /\ UNCHANGED <<row, ui, refresh, reload, save, missed>> /\ tidy[c].pc = "next"
        /\ \A d \in Cleaners : tidy'[d].todo = tidy[d].todo /\ (d # c => tidy'[d] = tidy[d])
    BY <1>0, <1>4 DEF TidyDeletes, rows, Tidier
  <2> QED
    BY <2>1, DueKept DEF Ready, Rereads
<1> QED
  BY <1>1, <1>2, <1>3, <1>4 DEF TidyAnswers

LEMMA DueLoad ==
    ASSUME Steady, Due, NEW l \in Launches, initialize(l) \/ LoadSteps(l)
    PROVE  Due'
<1>0. Types /\ tidy \in [Cleaners -> Tidier] /\ l \in Cleaners
  BY DEF Steady, Types, Cleaners
<1>1. CASE LoadFails(l)
  <2>1. missed'.tidy
    BY <1>0, <1>1 DEF LoadFails, Excused, Types
  <2> QED
    BY <2>1 DEF Due
<1>2. CASE LoadLands(l)
  <2>1. tidy' = [tidy EXCEPT ![l] = [NoTidy EXCEPT !.pc = "list"]] /\ Ready'
    BY <1>2 DEF LoadLands, TidyStart, Ready, Loading
  <2>2. [NoTidy EXCEPT !.pc = "list"].pc = "list"
    BY DEF NoTidy
  <2>3. \A i \in Items : Handled(i)'
    BY <1>0, <2>1, <2>2, ClosetAssumption DEF Handled
  <2> QED
    BY <2>1, <2>3 DEF Due
<1>3. CASE LoadTidied(l)
  <2>1. /\ tidy[l].pc = "next" /\ tidy[l].todo = {} /\ tidy' = [tidy EXCEPT ![l] = NoTidy]
        /\ UNCHANGED <<row, ui, refresh, reload, save, missed>>
    BY <1>3 DEF LoadTidied, TidyDone, TidyOver, disk, rows
  <2> QED
    BY <1>0, <2>1, DueKept DEF Ready, Rereads
<1>4. ASSUME UNCHANGED <<row, ui, refresh, reload, save, tidy>>, missed'.tidy <=> missed.tidy PROVE Due'
  BY <1>4, DueKept DEF Ready, Rereads
<1>5. CASE initialize(l) \/ LoadOpens(l) \/ LoadAnswered(l) \/ SweepStarts(l) \/ SweepLists(l)
  BY <1>4, <1>5 DEF initialize, LoadOpens, LoadAnswered, SweepStarts, SweepLists, disk, rows
<1>6. CASE SweepNames(l)
  BY <1>4, <1>6 DEF SweepNames, disk, rows
<1>7. CASE SweepEnds(l)
  <2>1. missed'.tidy <=> missed.tidy
    BY <1>0, <1>7 DEF SweepEnds, Types
  <2> QED
    BY <1>4, <1>7, <2>1 DEF SweepEnds, disk, rows
<1>8. ASSUME NEW p \in Photos, SweepDeletes(l, p) PROVE Due'
  BY <1>4, <1>8 DEF SweepDeletes, rows
<1> QED
  BY <1>1, <1>2, <1>3, <1>5, <1>6, <1>7, <1>8 DEF LoadSteps

LEMMA DueReads ==
    ASSUME Steady, Due, refreshOnce \/ Reads
    PROVE  Due'
<1>0. /\ Types /\ tidy \in [Cleaners -> Tidier] /\ "reload" \in Cleaners /\ ui \in Screens /\ refresh \in Reader
      /\ reload \in Reloader
  BY ConstantFacts DEF Steady, Types
\* Before the Closet is open, only a failed load leaves a refresh to do it.
<1>1. ASSUME ~Ready, refresh.pc # "off" \/ ui.status = "error" PROVE missed.tidy
  BY <1>1 DEF Due
<1>2. CASE refreshOnce
  <2>1. /\ (ui.status = "error" \/ Ready) /\ UNCHANGED <<row, tidy, save, missed>> /\ reload' = Begun(reload)
        /\ ui' = IF Ready THEN [ui EXCEPT !.refreshing = TRUE] ELSE Loading
    BY <1>2 DEF refreshOnce, disk, rows, Ready
  <2>2. CASE Ready
    <3>1. Ready'
      BY <1>0, <2>1, <2>2 DEF Ready, Screens
    <3> QED
      BY <1>0, <2>1, <2>2, <3>1, DueKept, RereadsFacts
  <2>3. CASE ~Ready
    <3>1. ~Ready' /\ missed'.tidy
      BY <1>1, <2>1, <2>3 DEF Ready, Loading
    <3> QED
      BY <3>1 DEF Due
  <2> QED
    BY <2>2, <2>3
<1>3. CASE RefreshAnswered
  BY <1>0, <1>1, <1>3, DueKept, RereadsFacts DEF RefreshAnswered, disk, rows, Ready, Due
<1>4. CASE RefreshLands \/ RefreshFails
  <2>1. /\ refresh.pc # "off" /\ UNCHANGED <<row, tidy, save, missed>>
        /\ (reload' = Passed(reload) \/ reload' = reload)
        /\ (Ready => Ready')
    <3>1. CASE RefreshLands
      BY <1>0, <3>1 DEF RefreshLands, disk, rows, Ready, Screens
    <3>2. CASE RefreshFails
      BY <1>0, <3>2 DEF RefreshFails, disk, rows, Ready, Screens
    <3> QED
      BY <1>4, <3>1, <3>2
  <2>2. CASE Ready
    BY <1>0, <2>1, <2>2, DueKept, RereadsFacts
  <2>3. CASE ~Ready
    BY <1>1, <2>1, <2>3 DEF Due
  <2> QED
    BY <2>2, <2>3
<1>5. CASE ReloadReads
  <2>1. /\ UNCHANGED <<row, ui, tidy, save, missed>> /\ reload.pc = "wait" /\ refresh'.pc = refresh.pc
        /\ reload'.pc = "ask"
    BY <1>0, <1>5, TouchedFacts DEF ReloadReads, NoReload, disk, rows
  <2> QED
    BY <2>1, DueKept DEF Ready, Rereads
<1>6. CASE ReloadAnswered
  <2>1. /\ UNCHANGED <<row, ui, tidy, save, missed, refresh>> /\ reload'.pc = "answered"
    BY <1>0, <1>6 DEF ReloadAnswered, Reloader, disk, rows
  <2> QED
    BY <2>1, DueKept DEF Ready, Rereads
<1>7. CASE ReloadFails
  <2>1. missed'.tidy
    BY <1>0, <1>7 DEF ReloadFails, Types
  <2> QED
    BY <2>1 DEF Due
<1>8. CASE ReloadLands
  <2>0. Ready /\ reload.pc = "answered"
    BY <1>8 DEF ReloadLands, Steady, Held, Loads
  <2>1. CASE ~reload.same
    <3>1. ReloadOver(TRUE) /\ UNCHANGED <<ui, row>>
      BY <1>8, <2>1 DEF ReloadLands, disk, rows
    <3>2. reload'.pc = "wait"
      BY <1>0, <2>0, <3>1, OverHeld
    <3> QED
      BY <2>0, <3>1, <3>2 DEF Due, Handled, Rereads, Ready
  <2>2. CASE reload.same
    <3>1. tidy' = [tidy EXCEPT !["reload"] = [NoTidy EXCEPT !.pc = "list"]] /\ Ready'
      BY <1>0, <1>8, <2>0, <2>2 DEF ReloadLands, TidyStart, Ready, Screens
    <3>2. [NoTidy EXCEPT !.pc = "list"].pc = "list"
      BY DEF NoTidy
    <3>3. \A i \in Items : Handled(i)'
      BY <1>0, <3>1, <3>2 DEF Handled
    <3> QED
      BY <3>1, <3>3 DEF Due
  <2> QED
    BY <2>1, <2>2
<1>9. CASE ReloadTidied
  <2>1. /\ reload.pc = "tidy" /\ tidy["reload"].pc = "next" /\ tidy["reload"].todo = {}
        /\ tidy' = [tidy EXCEPT !["reload"] = NoTidy] /\ ReloadOver(FALSE)
        /\ UNCHANGED <<row, ui, refresh, save, missed>>
    BY <1>9 DEF ReloadTidied, TidyDone, TidyOver, disk, rows
  <2>2. Rereads /\ Ready => Rereads'
    BY <1>0, <2>1, OverHeld DEF Rereads
  <2> QED
    BY <1>0, <2>1, <2>2, DueKept DEF Ready
<1> QED
  BY <1>2, <1>3, <1>4, <1>5, <1>6, <1>7, <1>8, <1>9 DEF Reads

LEMMA DueBegins ==
    ASSUME Steady, Due, NEW kind \in {"create", "update", "delete", "seed"},
           NEW i \in Items \cup {NoItem}, NEW photo \in Contents, Begins(kind, i, photo)
    PROVE  Due'
<1>0. Types /\ ui \in Screens
  BY DEF Steady, Types
<1>1. /\ Ready /\ ~Saving /\ ui' = [ui EXCEPT !.mutating = TRUE] /\ UNCHANGED <<row, tidy, missed>>
      /\ reload' = Outdated(reload)
  BY DEF Begins, mutate, disk, rows
<1>2. Ready'
  BY <1>0, <1>1 DEF Ready, Screens
<1>3. tidy["save"].pc = "off"
  BY <1>1 DEF Saving, Steady, Held, Tidying
<1> QED
  BY <1>0, <1>1, <1>2, <1>3, DueKept, RereadsFacts

LEMMA DueSave ==
    ASSUME Steady, Due, SaveSteps
    PROVE  Due'
<1>0. /\ Types /\ save \in Saver /\ ui \in Screens /\ tidy \in [Cleaners -> Tidier] /\ save.shown \in List
      /\ missed.tidy \in BOOLEAN
  BY DEF Steady, Types, Saver
<1>1. Saving /\ Ready
  BY DEF SaveSteps, SavePassesSweep, SaveReads, SaveCopies, SaveWrites, SaveWritesNothing, SaveFails, SaveUndoes,
         SaveDrops, SaveTidied, SaveAnswered, SaveLands, Saving, Steady, Held, Loads
<1>2. tidy["save"].pc # "off" <=> save.pc = "tidy"
  BY DEF Steady, Held, Tidying
\* A save that goes on, or ends outside its removal of photos.
<1>3. ASSUME save.pc # "tidy", UNCHANGED <<row, tidy>>, missed'.tidy <=> missed.tidy, Ready',
             Rereads' <=> Rereads
      PROVE  Due'
  BY <1>1, <1>2, <1>3, DueKept
<1>4. CASE SavePassesSweep \/ SaveReads \/ SaveCopies \/ SaveWritesNothing \/ SaveAnswered
  <2>1. save.pc # "tidy" /\ UNCHANGED <<row, ui, refresh, reload, tidy, missed>>
    BY <1>4 DEF SavePassesSweep, SaveReads, SaveCopies, SaveWritesNothing, SaveAnswered, disk, rows
  <2> QED
    BY <1>1, <1>3, <2>1 DEF Ready, Rereads
<1>5. CASE SaveWrites
  BY <1>0, <1>5, DueAsked DEF SaveWrites
<1>6. ASSUME SaveOver PROVE Rereads' <=> Rereads
  BY <1>0, <1>6, RereadsFacts DEF SaveOver
<1>7. ASSUME ui' = [ui EXCEPT !.mutating = FALSE] PROVE Ready'
  BY <1>0, <1>1, <1>7 DEF Ready, Screens
<1>8. ASSUME NEW p, Removes(p) PROVE missed'.tidy <=> missed.tidy
  BY <1>0, <1>8 DEF Removes, Excused, Types
<1>9. CASE SaveFails
  <2>1. save.pc # "tidy" /\ UNCHANGED <<row, tidy, missed>>
    BY <1>9 DEF SaveFails, disk, rows
  <2>2. Ready' /\ (Rereads' <=> Rereads)
    BY <1>1, <1>6, <1>7, <1>9 DEF SaveFails, Ready, Rereads
  <2> QED
    BY <1>3, <2>1, <2>2
<1>10. CASE SaveUndoes
  BY <1>3, <1>6, <1>7, <1>8, <1>10 DEF SaveUndoes, rows
<1>11. CASE SaveDrops
  BY <1>1, <1>3, <1>8, <1>11 DEF SaveDrops, rows, Ready, Rereads
<1>12. CASE SaveTidied
  <2>1. /\ tidy["save"].pc = "next" /\ tidy["save"].todo = {} /\ tidy' = [tidy EXCEPT !["save"] = NoTidy]
        /\ UNCHANGED <<row, ui, refresh, reload, missed>>
    BY <1>12 DEF SaveTidied, TidyDone, TidyOver, disk, rows
  <2> QED
    BY <1>0, <2>1, DueKept, ConstantFacts DEF Ready, Rereads
<1>13. CASE SaveLands
  <2>1. save.pc # "tidy" /\ SaveOver /\ UNCHANGED <<row, tidy, missed>> /\ Ready'
    BY <1>13 DEF SaveLands, disk, rows, Ready, Loading
  <2> QED
    BY <1>3, <1>6, <2>1
<1> QED
  BY <1>4, <1>5, <1>9, <1>10, <1>11, <1>12, <1>13 DEF SaveSteps

LEMMA PhotosStep ==
    ASSUME ~DoubleRetry, ~Revived, Steady, Cared, Due, [Next]_vars
    PROVE  Cared' /\ Due'
<1>0. Types
  BY DEF Steady
<1>1. ASSUME NEW i \in Items, NEW st \in {"live", "gone"}, land(i, st) PROVE Due'
  BY <1>0, <1>1, DueAsked DEF land
<1>2. ASSUME Killed PROVE Due'
  <2>1. missed'.tidy
    BY <1>0, <1>2 DEF Killed, Types
  <2> QED
    BY <2>1 DEF Due
<1>3. ASSUME UNCHANGED vars PROVE Cared' /\ Due'
  <2>1. Cared'
    BY <1>0, <1>3, CaredKept DEF vars, disk, rows
  <2>2. Due'
    BY <1>3, DueKept DEF vars, disk, rows, Ready, Rereads
  <2> QED
    BY <2>1, <2>2
<1>4. Cared'
  BY <1>0, <1>3, StepFacts, CaredRows, CaredTidy, CaredLoad, CaredReads, CaredBegins, CaredSave, CaredKilled
<1>5. Due'
  BY <1>1, <1>2, <1>3, StepFacts, DueTidy, DueLoad, DueReads, DueBegins, DueSave
<1> QED
  BY <1>4, <1>5

LEMMA PhotosRest ==
    ASSUME Steady, Cared, Due
    PROVE  PhotosMatch
<1>1. PhotosKept
  BY DEF Cared
<1>2. ASSUME Quiet PROVE missed.tidy \/ \A i \in Items : ~Pending(i)
  <2>1. \A c \in Cleaners : tidy[c].pc = "off" /\ tidy[c].todo = {}
    BY <1>2 DEF Quiet, Saving, Steady, Held, Tidying, Cleaners
  <2>2. ~Rereads
    BY <1>2 DEF Quiet, Rereads, Steady, Held, Loads
  <2>3. \A i \in Items : ~Handled(i)
    BY <2>1, <2>2 DEF Handled
  <2> QED
    BY <1>2, <2>3 DEF Due, Quiet
<1>3. ASSUME Quiet PROVE missed.file \/ file \subseteq {row[i].photo : i \in Items}
  BY <1>3 DEF Quiet, Saving, Cared, Accounted, Copied, Names
<1> QED
  BY <1>1, <1>2, <1>3 DEF PhotosMatch, NothingLeftBehind

\* The photo of a piece in the Closet is never removed, and at rest no photo is
\* left that no piece shows unless a removal failed or the process ended:
\* cleanupPendingPhotos, the sweep and a save that replaces a photo never take
\* another piece's, while pulls bring back no piece whose photo is going.
THEOREM PhotosAlwaysMatch ==
    ASSUME ~DoubleRetry, ~Revived PROVE Spec => []PhotosMatch
<1> DEFINE Inv == Steady /\ Cared /\ Due
<1>1. Init => Inv
  BY SteadyInit, CaredInit, DueInit
<1>2. Inv /\ [Next]_vars => Inv'
  BY SteadyStep, PhotosStep
<1>3. Inv => PhotosMatch
  BY PhotosRest
<1> QED
  BY <1>1, <1>2, <1>3, PTL DEF Spec

-----------------------------------------------------------------------------
(* The list.                                                                 *)

Current(read) == read.pc = "answered" => read.got = Listed
\* One more run of the reload was asked for, or it has not read yet.
Again == reload.again \/ reload.pc = "wait"

\* A list that was read is the stored one, or the reload reads it again.
Fresh ==
    /\ ~Ready => Current(refresh) /\ \A l \in Launches : Current(load[l])
    /\ reload.again \/ Current(reload)
    /\ reload.again \/ (reload.pc = "wait" /\ reload.waits) \/ Current(save)

\* Of a refresh and a reload that both read, one began after the other; the
\* later one's list is the stored one, unless the reload reads again.
Ordered ==
    /\ Reading(refresh) /\ Reading(reload) => (refresh.older <=> ~reload.older)
    /\ reload.beaten => reload.older
    /\ Reading(reload) /\ reload.older => reload.again \/ Current(refresh)
    /\ Ready /\ refresh.same /\ ~refresh.beaten =>
         Current(refresh) \/ Again \/ missed.list \/ Reading(reload)

\* The shown list is the stored one, or a read is still to land over it.
Shown ==
    /\ Reading(reload) /\ reload.beaten /\ reload.same => reload.again \/ ui.items = Listed
    /\ Ready => \/ ui.items = Listed \/ ui.failed \/ missed.list
                \/ Again \/ (Reading(reload) /\ ~(reload.same /\ reload.beaten))

Reread == Fresh /\ Ordered /\ Shown

LEMMA RereadInit == Init => Reread
BY ConstantFacts
DEF Init, Reread, Fresh, Ordered, Shown, Current, Again, Reading, Ready, NoRead, NoReload, NoSave, NoLoad, Loading

\* Steps that change no row a list shows and no read.
LEMMA RereadKept ==
    ASSUME Reread, Listed' = Listed, UNCHANGED <<ui, refresh, reload>>,
           \A l \in Launches : Current(load[l])' \/ ~Current(load[l]) \/ Ready,
           missed'.list <=> missed.list, Current(save) => Current(save)'
    PROVE  Reread'
<1>1. Fresh'
  BY DEF Reread, Fresh, Current, Ready
<1>2. Ordered'
  BY DEF Reread, Ordered, Current, Ready, Reading, Again
<1>3. Shown'
  BY DEF Reread, Shown, Ready, Reading, Again
<1> QED
  BY <1>1, <1>2, <1>3 DEF Reread

\* A row is written: an open Closet reads again.
LEMMA RereadAsked ==
    ASSUME Steady, Reread, reloadRun, UNCHANGED <<ui, refresh, load>>, missed'.list <=> missed.list,
           save' = save \/ save'.pc # "answered",
           ~Ready => Listed' = Listed \/ (refresh.pc # "answered" /\ \A l \in Launches : load[l].pc # "answered")
    PROVE  Reread'
<1>0. Types /\ reload \in Reloader
  BY DEF Steady, Types
<1>1. CASE reload.pc # "off"
  <2>1. /\ reload'.again /\ reload'.pc = reload.pc /\ reload'.older = reload.older
        /\ reload'.beaten = reload.beaten /\ reload'.same = reload.same /\ Ready
    BY <1>0, <1>1, AskFacts DEF Reloader, Steady, Held, Loads
  <2> QED
    BY <2>1 DEF Reread, Fresh, Ordered, Shown, Ready, Again, Reading
<1>2. CASE reload.pc = "off" /\ Ready
  <2> DEFINE busy == Saving
  <2>1. reload' = [NoReload EXCEPT !.pc = "wait", !.waits = busy]
    BY <1>2 DEF reloadRun
  <2> DEFINE waiting == [NoReload EXCEPT !.pc = "wait", !.waits = busy]
  <2>2. busy => Saving
    OBVIOUS
  <2>6. ~Saving => ~busy
    OBVIOUS
  <2>7. busy \in BOOLEAN
    BY DEF Saving
  <2> HIDE DEF busy
  <2>3. waiting.pc = "wait" /\ waiting.waits = busy /\ ~waiting.beaten /\ ~waiting.older
    BY DEF NoReload
  <2>4. reload'.pc = "wait" /\ reload'.waits = busy /\ ~reload'.beaten /\ ~reload'.older
    BY <2>1, <2>3
  <2>5. (save.pc # "answered" /\ save' = save) \/ save'.pc # "answered" \/ busy
    BY <2>2, <2>6, <2>7 DEF busy, Saving
  <2>8. Fresh'
    BY <1>2, <2>4, <2>5, <2>7 DEF Reread, Fresh, Current, Ready
  <2>9. Ordered' /\ Shown'
    BY <1>2, <2>4 DEF Reread, Ordered, Shown, Ready, Again, Reading
  <2> QED
    BY <2>8, <2>9 DEF Reread
<1>3. CASE reload.pc = "off" /\ ~Ready
  <2>1. reload' = reload /\ save.pc = "off"
    BY <1>3 DEF reloadRun, Steady, Held, Loads, Saving
  <2>2. Current(save)'
    BY <2>1 DEF Current
  <2>3. Fresh'
    BY <1>3, <2>1, <2>2 DEF Reread, Fresh, Current, Ready
  <2>4. Ordered' /\ Shown'
    BY <1>3, <2>1 DEF Reread, Ordered, Shown, Ready, Reading
  <2> QED
    BY <2>3, <2>4 DEF Reread
<1> QED
  BY <1>1, <1>2, <1>3

LEMMA RereadRows ==
    ASSUME ~EarlyPulls, Steady, Reread, NEW i \in Items, NEW st \in {"live", "gone"}, land(i, st)
    PROVE  Reread'
<1>1. /\ ~Early /\ reloadRun /\ UNCHANGED <<ui, refresh, load, missed, save>>
  BY DEF land
<1> QED
  BY <1>1, RereadAsked DEF Early

LEMMA RereadTidy ==
    ASSUME Steady, Reread, NEW c \in Cleaners, TidyAnswers(c)
    PROVE  Reread'
<1>0. Types
  BY DEF Steady
<1>1. UNCHANGED <<ui, ctl, load, refresh, save>> /\ (missed'.list <=> missed.list)
  BY <1>0 DEF TidyAnswers, TidyLists, TidyClears, TidyFails, TidyDeletes, Excused, Types
<1>2. Listed' = Listed
  <2>1. \A i \in Items : row'[i].st = row[i].st /\ row'[i].ver = row[i].ver
    <3>1. CASE TidyClears(c)
      BY <1>0, <3>1, PhotoFacts DEF TidyClears, Rows
    <3>2. CASE ~TidyClears(c)
      BY <3>2 DEF TidyAnswers, TidyLists, TidyFails, TidyDeletes, disk, rows
    <3> QED
      BY <3>1, <3>2
  <2> QED
    BY <2>1 DEF Listed, Live
<1>3. CASE reloadRun
  BY <1>1, <1>2, <1>3, RereadAsked
<1>4. CASE reload' = reload
  BY <1>1, <1>2, <1>4, RereadKept DEF Current
<1> QED
  BY <1>3, <1>4 DEF TidyAnswers, TidyLists, TidyClears, TidyFails, TidyDeletes

LEMMA RereadLoad ==
    ASSUME Steady, Reread, NEW l \in Launches, initialize(l) \/ LoadSteps(l)
    PROVE  Reread'
<1>0. /\ Types /\ load \in [Launches -> Loader] /\ load[l] \in Loader
  BY DEF Steady, Types
<1>1. ASSUME row' = row PROVE Listed' = Listed
  BY <1>1 DEF Listed, Live
<1>2. ASSUME UNCHANGED <<row, ui, refresh, reload, save>>, missed'.list <=> missed.list,
             \A m \in Launches : m # l => load'[m] = load[m], (Current(load[l]))'
      PROVE  Reread'
  <2>1. \A m \in Launches : Current(load[m])' \/ ~Current(load[m])
    BY <1>1, <1>2 DEF Current
  <2> QED
    BY <1>1, <1>2, <2>1, RereadKept DEF Current
<1>3. CASE LoadAnswered(l)
  <2>1. /\ UNCHANGED <<row, ui, refresh, reload, save, missed>> /\ load'[l].got = Listed
        /\ \A m \in Launches : m # l => load'[m] = load[m]
    BY <1>0, <1>3 DEF LoadAnswered, Loader, disk, rows
  <2>2. Listed' = Listed
    BY <1>1, <2>1
  <2>3. \A m \in Launches : Current(load[m])' \/ ~Current(load[m])
    BY <2>1, <2>2 DEF Current
  <2> QED
    BY <2>1, <2>2, <2>3, RereadKept DEF Current
<1>4. CASE LoadFails(l)
  <2>1. /\ UNCHANGED <<row, refresh, reload, save>> /\ (missed'.list <=> missed.list) /\ ~Ready'
        /\ load' = [load EXCEPT ![l] = NoLoad]
    BY <1>0, <1>4 DEF LoadFails, Excused, Types, Ready, Loading, disk, rows
  <2>2. ~Ready /\ reload.pc = "off"
    BY <1>4 DEF LoadFails, Steady, Held, Loads
  <2>3. Listed' = Listed
    BY <1>1, <2>1
  <2>4. Fresh'
    BY <1>0, <2>1, <2>2, <2>3 DEF Reread, Fresh, Current, NoLoad
  <2>5. Ordered' /\ Shown'
    BY <2>1, <2>2 DEF Reread, Ordered, Shown, Reading
  <2> QED
    BY <2>4, <2>5 DEF Reread
<1>5. CASE LoadLands(l)
  <2>1. /\ UNCHANGED <<row, refresh, reload, save, missed>> /\ Ready' /\ load[l].pc = "answered"
        /\ ui'.items = load[l].got
    BY <1>0, <1>5 DEF LoadLands, Ready, Loading, disk, rows
  <2>2. /\ ~Ready /\ refresh.pc = "off" /\ reload.pc = "off" /\ save.pc = "off"
    BY <2>1 DEF Steady, Held, Loads, Saving
  <2>3. Listed' = Listed /\ ui'.items = Listed
    BY <1>1, <2>1, <2>2 DEF Reread, Fresh, Current
  <2>4. Fresh'
    BY <1>1, <2>1, <2>2, <2>3 DEF Reread, Fresh, Current
  <2>5. Ordered'
    BY <2>1, <2>2 DEF Reread, Ordered, Reading, Current
  <2>6. Shown'
    BY <2>1, <2>2, <2>3 DEF Shown, Reading
  <2> QED
    BY <2>4, <2>5, <2>6 DEF Reread
<1>6. ASSUME UNCHANGED <<row, ui, refresh, reload, save>>, missed'.list <=> missed.list,
             \A m \in Launches : m # l => load'[m] = load[m], load'[l].pc # "answered"
      PROVE  Reread'
  BY <1>2, <1>6 DEF Current
<1>7. ASSUME NEW pc, LoadStep(l, pc) PROVE load'[l].pc = pc /\ \A m \in Launches : m # l => load'[m] = load[m]
  BY <1>0, <1>7 DEF LoadStep, Loader
<1>8. CASE initialize(l)
  BY <1>6, <1>7, <1>8 DEF initialize, disk, rows
<1>9. CASE LoadOpens(l) \/ LoadTidied(l) \/ SweepStarts(l)
  BY <1>6, <1>7, <1>9 DEF LoadOpens, LoadTidied, SweepStarts, disk, rows
<1>10. CASE SweepLists(l)
  <2>1. /\ UNCHANGED <<row, ui, refresh, reload, save, missed>> /\ load'[l].pc = "names"
        /\ \A m \in Launches : m # l => load'[m] = load[m]
    BY <1>0, <1>10 DEF SweepLists, Loader, disk, rows
  <2> QED
    BY <1>6, <2>1
<1>11. CASE SweepNames(l)
  <2>1. /\ UNCHANGED <<row, ui, refresh, reload, save, missed>> /\ load'[l].pc = "delete"
        /\ \A m \in Launches : m # l => load'[m] = load[m]
    BY <1>0, <1>11 DEF SweepNames, Loader, disk, rows
  <2> QED
    BY <1>6, <2>1
<1>12. CASE SweepEnds(l)
  <2>1. /\ UNCHANGED <<row, ui, refresh, reload, save>> /\ load' = [load EXCEPT ![l] = NoLoad]
        /\ (missed'.list <=> missed.list)
    BY <1>0, <1>12 DEF SweepEnds, Types, disk, rows
  <2> QED
    BY <1>0, <1>6, <2>1 DEF NoLoad
<1>13. ASSUME NEW p \in Photos, SweepDeletes(l, p) PROVE Reread'
  <2>1. /\ UNCHANGED <<row, ui, refresh, reload, save, missed>> /\ load'[l].pc = "delete"
        /\ \A m \in Launches : m # l => load'[m] = load[m]
    BY <1>0, <1>13 DEF SweepDeletes, Loader, rows
  <2> QED
    BY <1>6, <2>1
<1> QED
  BY <1>3, <1>4, <1>5, <1>8, <1>9, <1>10, <1>11, <1>12, <1>13 DEF LoadSteps

LEMMA RereadReads ==
    ASSUME Steady, Reread, refreshOnce \/ Reads
    PROVE  Reread'
<1>0. Types /\ ui \in Screens /\ refresh \in Reader /\ reload \in Reloader
  BY DEF Steady, Types
<1>1. UNCHANGED <<row, load, save>> /\ Listed' = Listed
  <2>1. UNCHANGED <<row, load, save>>
    <3>1. CASE refreshOnce \/ RefreshAnswered \/ RefreshLands \/ RefreshFails
      BY <3>1 DEF refreshOnce, RefreshAnswered, RefreshLands, RefreshFails, disk, rows
    <3>2. CASE ReloadReads \/ ReloadAnswered \/ ReloadFails \/ ReloadLands \/ ReloadTidied
      BY <3>2 DEF ReloadReads, ReloadAnswered, ReloadFails, ReloadLands, ReloadTidied, disk, rows
    <3> QED
      BY <3>1, <3>2 DEF Reads
  <2> QED
    BY <2>1 DEF Listed, Live
<1>2. /\ (Current(save))' <=> Current(save)
      /\ \A l \in Launches : (Current(load[l]))' <=> Current(load[l])
  BY <1>1 DEF Current
<1>3. CASE refreshOnce
  <2>1. /\ refresh'.pc = "ask" /\ ~refresh'.older /\ reload' = Begun(reload) /\ missed' = missed
        /\ ui' = IF Ready THEN [ui EXCEPT !.refreshing = TRUE] ELSE Loading
    BY <1>3 DEF refreshOnce, NoRead
  <2>2. /\ reload'.pc = reload.pc /\ reload'.got = reload.got /\ reload'.again = reload.again
        /\ reload'.same = reload.same /\ reload'.beaten = reload.beaten /\ reload'.waits = reload.waits
        /\ (reload.older => reload'.older) /\ (Reading(reload) => reload'.older)
    BY <1>0, <2>1 DEF Begun, Reloader
  <2>3. /\ (Ready' => Ready) /\ (Ready => ui'.items = ui.items /\ ui'.failed = ui.failed)
    BY <1>0, <2>1 DEF Ready, Screens, Loading
  <2>4. (Current(refresh))'
    BY <2>1 DEF Current
  <2>5. Ready' <=> Ready
    BY <1>0, <2>1 DEF Ready, Screens, Loading
  <2>6. Fresh'
    BY <1>1, <1>2, <2>2, <2>4, <2>5 DEF Reread, Fresh, Current
  <2>7. Ordered'
    BY <2>1, <2>2, <2>4 DEF Reread, Ordered, Reading
  <2>8. Shown'
    <3>1. Reading(reload) => Ready
      BY DEF Reading, Steady, Held, Loads
    <3> QED
      BY <1>1, <2>1, <2>2, <2>3, <3>1 DEF Reread, Shown, Reading, Again
  <2> QED
    BY <2>6, <2>7, <2>8 DEF Reread
<1>4. CASE RefreshAnswered
  <2>1. /\ UNCHANGED <<ui, reload, missed>> /\ refresh.pc = "ask" /\ refresh'.pc = "answered" /\ refresh'.got = Listed
        /\ refresh'.older = refresh.older
    BY <1>0, <1>4 DEF RefreshAnswered, Reader
  <2>2. (Current(refresh))'
    BY <1>1, <2>1 DEF Current
  <2> QED
    BY <1>1, <1>2, <2>1, <2>2 DEF Reread, Fresh, Ordered, Shown, Current, Ready, Reading, Again
<1>5. CASE RefreshLands
  <2>0. refresh.pc = "answered" /\ refresh'.pc = "off" /\ missed' = missed /\ (Current(refresh))'
    BY <1>5 DEF RefreshLands, NoRead, Current
  <2>1. CASE (~refresh.same \/ refresh.beaten) /\ Ready
    <3>1. reload' = reload /\ Ready' /\ ui'.items = ui.items /\ ui'.failed = ui.failed
      BY <1>0, <1>5, <2>1 DEF RefreshLands, Screens, Ready
    <3> QED
      BY <1>1, <1>2, <2>0, <2>1, <3>1 DEF Reread, Fresh, Ordered, Shown, Current, Reading, Again
  <2>2. CASE ~((~refresh.same \/ refresh.beaten) /\ Ready)
    <3>1. reload' = Passed(reload) /\ Ready' /\ ui'.items = refresh.got /\ ~ui'.failed
      BY <1>5, <2>2 DEF RefreshLands, Ready
    <3>2. /\ reload'.pc = reload.pc /\ reload'.got = reload.got /\ reload'.again = reload.again
          /\ reload'.same = reload.same /\ reload'.older = reload.older /\ reload'.waits = reload.waits
          /\ (reload'.beaten <=> reload.beaten \/ (Reading(reload) /\ reload.older))
      BY <1>0, <3>1 DEF Passed, Reloader
    <3>3. ~Ready => refresh.got = Listed
      BY <2>0 DEF Reread, Fresh, Current
    <3>4. Reading(reload) /\ reload.older => reload.again \/ refresh.got = Listed
      BY <2>0 DEF Reread, Ordered, Current
    <3>5. refresh.got = Listed \/ Again \/ missed.list \/ Reading(reload)
      BY <2>0, <2>2, <3>3 DEF Reread, Ordered, Current
    <3>6. Fresh'
      BY <1>1, <1>2, <3>1, <3>2 DEF Reread, Fresh, Current
    <3>7. Ordered'
      BY <2>0, <3>2 DEF Reread, Ordered, Reading
    <3>8. Shown'
      BY <1>1, <2>0, <3>1, <3>2, <3>4, <3>5 DEF Reread, Ordered, Shown, Reading, Again
    <3> QED
      BY <3>6, <3>7, <3>8 DEF Reread
  <2> QED
    BY <2>1, <2>2
<1>6. CASE RefreshFails
  <2>1. /\ refresh'.pc = "off" /\ reload' = reload /\ missed' = missed /\ (Ready' <=> Ready)
        /\ (Ready => ui'.items = ui.items /\ (ui.failed => ui'.failed))
    BY <1>0, <1>6 DEF RefreshFails, NoRead, Ready, Screens, Loading
  <2>2. Reading(reload) => Ready
    BY DEF Reading, Steady, Held, Loads
  <2>3. (Current(refresh))'
    BY <2>1 DEF Current
  <2>4. Fresh'
    BY <1>1, <1>2, <2>1, <2>3 DEF Reread, Fresh, Current
  <2>5. Ordered' /\ Shown'
    BY <1>1, <2>1, <2>2, <2>3 DEF Reread, Ordered, Shown, Reading, Again
  <2> QED
    BY <2>4, <2>5 DEF Reread
<1>7. CASE ReloadReads
  <2>1. /\ reload.pc = "wait" /\ ~reload.waits /\ UNCHANGED <<ui, missed>> /\ refresh' = Begun(refresh)
        /\ reload'.pc = "ask" /\ reload'.again = reload.again /\ ~reload'.older /\ ~reload'.beaten
    BY <1>7 DEF ReloadReads, NoReload
  <2>2. /\ refresh'.pc = refresh.pc /\ refresh'.got = refresh.got /\ (Reading(refresh) => refresh'.older)
    BY <1>0, <2>1 DEF Begun, Reader
  <2>3. Fresh'
    BY <1>1, <1>2, <2>1, <2>2 DEF Reread, Fresh, Current, Ready
  <2>4. Ordered' /\ Shown'
    BY <1>1, <2>1, <2>2 DEF Reread, Ordered, Shown, Reading, Ready
  <2> QED
    BY <2>3, <2>4 DEF Reread
<1>8. CASE ReloadAnswered
  <2>1. /\ reload.pc = "ask" /\ UNCHANGED <<ui, refresh, missed>> /\ reload'.pc = "answered" /\ reload'.got = Listed
        /\ reload'.again = reload.again /\ reload'.older = reload.older /\ reload'.beaten = reload.beaten
        /\ reload'.same = reload.same
    BY <1>0, <1>8 DEF ReloadAnswered, Reloader
  <2>2. Fresh'
    BY <1>1, <1>2, <2>1 DEF Reread, Fresh, Current, Ready
  <2>3. Ordered' /\ Shown'
    BY <1>1, <2>1 DEF Reread, Ordered, Shown, Reading, Ready, Again, Current
  <2> QED
    BY <2>2, <2>3 DEF Reread
\* A reload that ends reads again if it was asked to.
<1>9. ASSUME NEW again \in BOOLEAN, ReloadOver(again), Ready, UNCHANGED <<ui, refresh>>, reload.pc # "wait",
             again \/ reload.again \/ missed'.list \/ (reload.pc = "tidy" /\ missed' = missed)
      PROVE  Reread'
  <2>0. /\ reload'.pc \in {"off", "wait"} /\ (reload'.pc = "wait" <=> again \/ reload.again)
        /\ (reload'.pc = "wait" => reload'.waits = Saving)
    BY <1>0, <1>9, OverHeld
  <2>1. reload'.pc = "wait" => reload'.waits \/ save.pc = "off"
    BY <2>0 DEF Saving
  <2>2. reload'.pc = "wait" \/ Current(save)
    BY <1>9, <2>0 DEF Reread, Fresh
  <2>3. reload'.beaten => reload'.older
    <3>1. \/ reload' = [NoReload EXCEPT !.pc = "wait", !.waits = Saving]
          \/ reload' = NoReload
      BY <1>0, <1>9, OverFacts
    <3>2. CASE reload' = [NoReload EXCEPT !.pc = "wait", !.waits = Saving]
      BY <3>2 DEF NoReload
    <3>3. CASE reload' = NoReload
      BY <3>3 DEF NoReload
    <3> QED
      BY <3>1, <3>2, <3>3
  <2>4. Fresh'
    BY <1>1, <1>2, <1>9, <2>0, <2>1, <2>2 DEF Reread, Fresh, Current, Ready
  <2>5. Ordered'
    BY <1>1, <1>9, <2>0, <2>3 DEF Reread, Ordered, Reading, Ready, Again, Current
  <2>6. Shown'
    BY <1>1, <1>9, <2>0 DEF Reread, Shown, Reading, Ready, Again
  <2> QED
    BY <2>4, <2>5, <2>6 DEF Reread
<1>10. reload.pc # "off" => Ready
  BY DEF Steady, Held, Loads
<1>11. CASE ReloadFails
  <2>1. ReloadOver(FALSE) /\ UNCHANGED <<ui, refresh>> /\ reload.pc = "ask" /\ missed'.list
    BY <1>0, <1>11 DEF ReloadFails, Types
  <2> QED
    BY <1>9, <1>10, <2>1
<1>12. CASE ReloadTidied
  <2>1. ReloadOver(FALSE) /\ UNCHANGED <<ui, refresh>> /\ reload.pc = "tidy" /\ missed' = missed
    BY <1>12 DEF ReloadTidied
  <2> QED
    BY <1>9, <1>10, <2>1
<1>13. CASE ReloadLands
  <2>1. CASE ~reload.same
    <3>1. ReloadOver(TRUE) /\ UNCHANGED <<ui, refresh>> /\ reload.pc = "answered"
      BY <1>13, <2>1 DEF ReloadLands
    <3> QED
      BY <1>9, <1>10, <3>1
  <2>2. CASE reload.same
    <3>1. /\ reload.pc = "answered" /\ reload'.pc = "tidy" /\ reload'.again = reload.again /\ ~reload'.beaten
          /\ IF reload.beaten THEN UNCHANGED <<ui, refresh>>
             ELSE ui' = (IF Ready THEN [ui EXCEPT !.items = reload.got] ELSE ui) /\ refresh' = Passed(refresh)
      BY <1>13, <2>2 DEF ReloadLands, NoReload
    <3>2. Ready /\ Ready'
      BY <1>0, <1>10, <3>1 DEF Ready, Screens
    <3>3. reload.again \/ Current(save)
      BY <3>1 DEF Reread, Fresh
    <3>4. Fresh'
      BY <1>1, <1>2, <3>1, <3>2, <3>3 DEF Reread, Fresh, Current
    <3>5. CASE reload.beaten
      <4>1. Ordered'
        BY <1>1, <3>1, <3>2, <3>5 DEF Reread, Ordered, Reading, Again, Current
      <4>2. Shown'
        BY <1>1, <2>2, <3>1, <3>2, <3>5 DEF Reread, Shown, Reading, Again
      <4> QED
        BY <3>4, <4>1, <4>2 DEF Reread
    <3>6. CASE ~reload.beaten
      <4>1. /\ ui'.items = reload.got /\ refresh'.pc = refresh.pc /\ refresh'.got = refresh.got
            /\ (refresh'.beaten <=> refresh.beaten \/ (Reading(refresh) /\ refresh.older))
        BY <1>0, <3>1, <3>2, <3>6 DEF Passed, Reader, Screens
      <4>2. reload.again \/ reload.got = Listed
        BY <3>1 DEF Reread, Fresh, Current
      <4>3. reload.again \/ Current(refresh) \/ refresh'.beaten
        BY <3>1, <4>1 DEF Reread, Ordered, Reading, Current
      <4>4. Ordered'
        BY <1>1, <3>1, <3>2, <4>1, <4>3 DEF Ordered, Reading, Again, Current
      <4>5. Shown'
        BY <1>1, <3>1, <4>1, <4>2 DEF Shown, Reading, Again
      <4> QED
        BY <3>4, <4>4, <4>5 DEF Reread
    <3> QED
      BY <3>5, <3>6
  <2> QED
    BY <2>1, <2>2
<1> QED
  BY <1>3, <1>4, <1>5, <1>6, <1>7, <1>8, <1>11, <1>12, <1>13 DEF Reads

LEMMA RereadSave ==
    ASSUME Steady, Reread, SaveSteps \/ \E kind \in {"create", "update", "delete", "seed"},
             i \in Items \cup {NoItem}, photo \in Contents : Begins(kind, i, photo)
    PROVE  Reread'
<1>0. /\ Types /\ ui \in Screens /\ refresh \in Reader /\ reload \in Reloader /\ save \in Saver /\ save.shown \in List
  BY DEF Steady, Types, Saver
<1>1. ASSUME row' = row PROVE Listed' = Listed
  BY <1>1 DEF Listed, Live
\* A save that goes on.
<1>2. ASSUME UNCHANGED <<row, ui, load, refresh, reload>>, missed'.list <=> missed.list, save'.pc # "answered"
      PROVE  Reread'
  BY <1>1, <1>2, RereadKept DEF Current
\* A save that begins or ends: no read of the list lands over it unread again.
<1>3. ASSUME row' = row, load' = load, missed'.list <=> missed.list, Ready, Ready',
             refresh' = Outdated(refresh),
             \/ reload' = Outdated(reload) /\ save.pc = "off"
             \/ reload' = [Outdated(reload) EXCEPT !.waits = FALSE],
             save'.pc # "answered",
             \/ ui'.items = ui.items /\ (ui.failed => ui'.failed)
             \/ ui'.failed
             \/ save.pc = "answered" /\ ui'.items = save.got
      PROVE  Reread'
  <2>1. /\ refresh'.pc = refresh.pc /\ refresh'.got = refresh.got /\ refresh'.older = refresh.older
        /\ (Reading(refresh) => ~refresh'.same)
    BY <1>0, <1>3 DEF Outdated, Reader
  <2>2. /\ reload'.pc = reload.pc /\ reload'.got = reload.got /\ reload'.older = reload.older
        /\ reload'.beaten = reload.beaten /\ reload'.again = reload.again
        /\ (Reading(reload) => ~reload'.same)
    BY <1>0, <1>3 DEF Outdated, Reloader
  <2>3. Listed' = Listed
    BY <1>1, <1>3
  <2>4. Fresh'
    BY <1>3, <2>1, <2>2, <2>3 DEF Reread, Fresh, Current
  <2>5. Ordered'
    BY <1>3, <2>1, <2>2, <2>3 DEF Reread, Ordered, Reading, Current
  <2>6. Shown'
    <3>1. save.pc = "answered" => reload.again \/ reload.pc = "wait" \/ save.got = Listed
      BY DEF Reread, Fresh, Current
    <3> QED
      BY <1>3, <2>2, <2>3, <3>1 DEF Reread, Shown, Reading, Again
  <2> QED
    BY <2>4, <2>5, <2>6 DEF Reread
<1>4. Saving => Ready
  BY DEF Steady, Held, Loads
<1>5. ASSUME NEW kind \in {"create", "update", "delete", "seed"}, NEW i \in Items \cup {NoItem},
             NEW photo \in Contents, Begins(kind, i, photo)
      PROVE  Reread'
  <2>1. /\ Ready /\ save.pc = "off" /\ UNCHANGED <<row, load, missed>> /\ ui' = [ui EXCEPT !.mutating = TRUE]
        /\ refresh' = Outdated(refresh) /\ reload' = Outdated(reload)
    BY <1>5 DEF Begins, mutate, Saving, disk, rows
  <2>2. save'.pc # "answered"
    BY <1>0, <1>5, MutateFacts DEF Begins
  <2>3. Ready' /\ ui'.items = ui.items /\ ui'.failed = ui.failed
    BY <1>0, <2>1 DEF Ready, Screens
  <2> QED
    BY <1>3, <2>1, <2>2, <2>3
<1>6. CASE SavePassesSweep
  <2>1. Operation(save) # "answered"
    BY DEF Operation
  <2>2. save'.pc = Operation(save)
    BY <1>0, <1>6 DEF SavePassesSweep, Saver
  <2> QED
    BY <1>2, <1>6, <2>1, <2>2 DEF SavePassesSweep, disk, rows
<1>7. CASE SaveReads \/ SaveCopies
  <2>1. save'.pc # "answered"
    BY <1>0, <1>7 DEF SaveReads, SaveCopies, Saver
  <2> QED
    BY <1>2, <1>7, <2>1 DEF SaveReads, SaveCopies, disk, rows
<1>8. CASE SaveWrites
  <2>1. save'.pc # "answered"
    BY <1>0, <1>8, WritesFacts, WrittenFacts
  <2>2. Ready
    BY <1>4, <1>8 DEF SaveWrites, Saving
  <2> QED
    BY <1>8, <2>1, <2>2, RereadAsked DEF SaveWrites
<1>9. CASE SaveWritesNothing
  <2>1. save'.pc = "ask"
    BY <1>0, <1>9, AskListFacts DEF SaveWritesNothing
  <2> QED
    BY <1>2, <1>9, <2>1 DEF SaveWritesNothing, disk, rows
<1>10. ASSUME NEW p, Removes(p) PROVE missed'.list <=> missed.list
  BY <1>0, <1>10 DEF Removes, Excused, Types
<1>11. ASSUME ui' = [ui EXCEPT !.mutating = FALSE], Saving
       PROVE  Ready' /\ ui'.items = ui.items /\ ui'.failed = ui.failed
  BY <1>0, <1>4, <1>11 DEF Ready, Screens
<1>12. ASSUME SaveOver
       PROVE  /\ refresh' = Outdated(refresh) /\ reload' = [Outdated(reload) EXCEPT !.waits = FALSE]
              /\ save'.pc # "answered"
  BY <1>12 DEF SaveOver, NoSave
<1>13. CASE SaveFails
  <2>1. CASE save.copy # 0
    <3>1. save'.pc = "undo"
      BY <1>0, <1>13, <2>1 DEF SaveFails, SaveStep, Saver
    <3> QED
      BY <1>2, <1>13, <2>1, <3>1 DEF SaveFails, disk, rows
  <2>2. CASE save.copy = 0
    <3>1. SaveOver /\ ui' = [ui EXCEPT !.mutating = FALSE] /\ Saving /\ UNCHANGED <<row, load, missed>>
      BY <1>13, <2>2 DEF SaveFails, Saving, disk, rows
    <3> QED
      BY <1>3, <1>4, <1>11, <1>12, <3>1
  <2> QED
    BY <2>1, <2>2
<1>14. CASE SaveUndoes
  <2>1. SaveOver /\ ui' = [ui EXCEPT !.mutating = FALSE] /\ Saving /\ UNCHANGED <<row, load>>
    BY <1>14 DEF SaveUndoes, Saving, rows
  <2>2. missed'.list <=> missed.list
    BY <1>10, <1>14 DEF SaveUndoes
  <2> QED
    BY <1>3, <1>4, <1>11, <1>12, <2>1, <2>2
<1>15. CASE SaveDrops
  <2>1. save'.pc = "ask"
    BY <1>0, <1>15, AskListFacts DEF SaveDrops
  <2> QED
    BY <1>2, <1>10, <1>15, <2>1 DEF SaveDrops, rows
<1>16. CASE SaveTidied
  <2>1. save'.pc = "ask"
    BY <1>0, <1>16, AskListFacts DEF SaveTidied
  <2> QED
    BY <1>2, <1>16, <2>1 DEF SaveTidied, disk, rows
<1>17. CASE SaveAnswered
  <2>1. save'.got = Listed /\ UNCHANGED <<row, ui, load, refresh, reload, missed>>
    BY <1>0, <1>17 DEF SaveAnswered, Saver, disk, rows
  <2> QED
    BY <1>1, <2>1, RereadKept DEF Current
<1>18. CASE SaveLands
  <2>1. /\ SaveOver /\ UNCHANGED <<row, load, missed>> /\ Ready' /\ Saving
        /\ ui'.items = IF save.pc = "answered" THEN save.got ELSE save.shown
        /\ (save.pc # "answered" => ui'.failed)
    BY <1>18 DEF SaveLands, Saving, Ready, Loading, disk, rows
  <2> QED
    BY <1>3, <1>4, <1>12, <2>1
<1> QED
  BY <1>5, <1>6, <1>7, <1>8, <1>9, <1>13, <1>14, <1>15, <1>16, <1>17, <1>18 DEF SaveSteps

LEMMA RereadStep ==
    ASSUME ~EarlyPulls, Steady, Reread, [Next]_vars
    PROVE  Reread'
<1>1. ASSUME Killed PROVE Reread'
  BY <1>1 DEF Killed, Reread, Fresh, Ordered, Shown, Current, Again, Reading, Ready, NoRead, NoReload, NoSave,
              NoLoad, Loading
<1>2. ASSUME UNCHANGED vars PROVE Reread'
  <2>1. Listed' = Listed
    BY <1>2 DEF vars, disk, rows, Listed, Live
  <2> QED
    BY <1>2, <2>1, RereadKept DEF vars, disk, rows, Current
<1> QED
  BY <1>1, <1>2, StepFacts, RereadRows, RereadTidy, RereadLoad, RereadReads, RereadSave

\* Once nothing is under way, the shown list is the stored one unless a last
\* read failed: whichever of a pull, a save, a refresh and a reload comes last,
\* the reload that every committed write asks for reads again.
THEOREM AlwaysShowsWhatIsStored ==
    ASSUME ~DoubleRetry, ~EarlyPulls PROVE Spec => []ShowsWhatIsStored
<1> DEFINE Inv == Steady /\ Reread
<1>1. Init => Inv
  BY SteadyInit, RereadInit
<1>2. Inv /\ [Next]_vars => Inv'
  BY SteadyStep, RereadStep
<1>3. Inv => ShowsWhatIsStored
  BY DEF Steady, Held, Loads, Reread, Shown, ShowsWhatIsStored, Quiet, Again, Reading
<1> QED
  BY <1>1, <1>2, <1>3, PTL DEF Spec
=============================================================================
