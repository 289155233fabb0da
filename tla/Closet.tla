------------------------------- MODULE Closet -------------------------------
(***************************************************************************)
(* The Closet on one phone: the controller that shows the pieces, the rows  *)
(* it reads and writes, the photo files they name, the sweep at launch, and *)
(* the sync pulls that write the same rows beside it                        *)
(* (wardrobe-application-controller.ts).                                    *)
(*                                                                          *)
(* What runs between two awaits is one action.  A list read is asked for,   *)
(* answered by the database at any later moment and landed after that; any  *)
(* read, write or file operation may fail, and the process may end.  Every  *)
(* committed write asks for a reload.  A piece's content is abstracted to   *)
(* the number of its last write, a photo to the number of its copy.         *)
(*                                                                          *)
(* Screens retry a failed load and refresh, save or delete a loaded one;    *)
(* they offer nothing while it loads.  Left out: the staged photo that is   *)
(* copied, a photo manager that is unavailable, the order of the list, and  *)
(* rows the build cannot read.                                              *)
(***************************************************************************)
EXTENDS Naturals, FiniteSets

CONSTANTS
    Items,
    Launches,       \* loads of the Closet that may be under way at once
    NoLaunch, NoItem,
    DoubleRetry,    \* the screens may retry a failed load again before it is over
    EarlyPulls,     \* a pull may land while the first list is on its way
    Revived,        \* a pull may bring a deleted piece back while its photo is
                    \* being removed or its row saved
    MaxWrites,      \* bound on writes of rows
    MaxCopies       \* bound on copies of photos

ASSUME ClosetAssumption ==
    /\ NoLaunch \notin Launches /\ NoItem \notin Items
    /\ "reload" \notin Launches /\ "save" \notin Launches
    /\ DoubleRetry \in BOOLEAN /\ EarlyPulls \in BOOLEAN /\ Revived \in BOOLEAN
    /\ MaxWrites \in Nat /\ MaxCopies \in Nat

VARIABLES
    row,        \* row[i]: wardrobe_items; photo 0 for none
    file,       \* the stored photo files
    writes,     \* writes so far
    copies,     \* photo copies so far
    ui,         \* the controller's state, as screens see it
    ctl,        \* its repository, and whose sweep is its sweepPromise
    load,       \* load[l]: where load l of the Closet is
    refresh,    \* where the refresh is
    reload,     \* where the reload is
    save,       \* the save in progress
    tidy,       \* tidy[c]: the removal of pending photos that c waits for
    missed      \* history: what failures and a crash excuse

rows == <<row, writes>>
disk == <<rows, file, copies>>
vars == <<disk, ui, ctl, load, refresh, reload, save, tidy, missed>>

Photos == 1..MaxCopies
Cleaners == Launches \cup {"reload", "save"}
NoRow == [st |-> "none", ver |-> 0, photo |-> 0]
Nothing == [i \in Items |-> 0]
Live(i) == row[i].st = "live"

\* A list of pieces: the last write of each, 0 for one that is not in it.
Listed == [i \in Items |-> IF Live(i) THEN row[i].ver ELSE 0]

\* A read of the list: whether mutationEpoch is still the one it began with
\* (same), whether the other read began after it (older), and landed (beaten).
NoRead == [pc |-> "off", got |-> Nothing, same |-> TRUE, older |-> FALSE, beaten |-> FALSE]
\* again: one more run is asked for; waits: the save it awaits still runs.
NoReload == [pc |-> "off", got |-> Nothing, same |-> TRUE, older |-> FALSE, beaten |-> FALSE,
             again |-> FALSE, waits |-> FALSE]
NoLoad == [pc |-> "off", got |-> Nothing, files |-> {}, whole |-> TRUE]
\* copy: the photo copied for it; old: the photo its row named; shown: what it
\* shows if it cannot read the list; sweep: the sweep it waits for.
NoSave == [pc |-> "off", kind |-> "none", item |-> NoItem, photo |-> "unchanged", copy |-> 0,
           old |-> 0, shown |-> Nothing, got |-> Nothing, sweep |-> NoLaunch]
NoJob == <<NoItem, 0>>
NoTidy == [pc |-> "off", todo |-> {}, job |-> NoJob]
Loading == [status |-> "loading", items |-> Nothing, refreshing |-> FALSE, mutating |-> FALSE,
            failed |-> FALSE]
Closed == [repository |-> FALSE, sweep |-> NoLaunch]

Init ==
    /\ row = [i \in Items |-> NoRow]
    /\ file = {} /\ writes = 0 /\ copies = 0
    /\ ui = Loading /\ ctl = Closed
    /\ load = [l \in Launches |-> NoLoad]
    /\ refresh = NoRead /\ reload = NoReload /\ save = NoSave
    /\ tidy = [c \in Cleaners |-> NoTidy]
    /\ missed = [list |-> FALSE, tidy |-> FALSE, file |-> FALSE]

Ready == ui.status = "ready"
Saving == save.pc # "off"
Reading(r) == r.pc \in {"ask", "answered"}

Excused(what) == missed' = [missed EXCEPT ![what] = TRUE]

\* The reload a committed write asks for: nothing before the first load.
reloadRun ==
    reload' = IF reload.pc # "off" THEN [reload EXCEPT !.again = TRUE]
              ELSE IF Ready THEN [NoReload EXCEPT !.pc = "wait", !.waits = Saving]
              ELSE reload

-----------------------------------------------------------------------------
(* Sync pulls, which write rows and know nothing of photos.                  *)

\* Nothing between the answer of a list and its landing as the first one.
Early == ~Ready /\ (refresh.pc = "answered" \/ \E l \in Launches : load[l].pc = "answered")

\* A deleted piece whose photo is going or gone, or whose save is under way.
Going(i) ==
    /\ row[i].st = "gone"
    /\ \/ save.item = i \/ row[i].photo \notin file \cup {0}
       \/ \E c \in Cleaners : \E job \in tidy[c].todo : job[1] = i

land(i, st) ==
    /\ writes < MaxWrites /\ (EarlyPulls \/ ~Early)
    /\ st = "gone" => Live(i)
    /\ Revived \/ ~Going(i)
    /\ writes' = writes + 1
    /\ row' = [row EXCEPT ![i].st = st, ![i].ver = writes + 1]
    /\ reloadRun
    /\ UNCHANGED <<file, copies, ui, ctl, load, refresh, save, tidy, missed>>

-----------------------------------------------------------------------------
(* The removal of the photos of deleted pieces: cleanupPendingPhotos.        *)

TidyStart(c) == tidy' = [tidy EXCEPT ![c] = [NoTidy EXCEPT !.pc = "list"]]
TidyDone(c) == tidy[c].pc = "next" /\ tidy[c].todo = {}
TidyOver(c) == tidy' = [tidy EXCEPT ![c] = NoTidy]

\* Mutant: a deleted piece that had no photo is listed as well.
PendingAny(i) == row[i].st = "gone"

Pending(i) == row[i].st = "gone" /\ row[i].photo # 0

\* Lists the pending ones; after a deletion, only that piece's.
TidyLists(c) ==
    /\ tidy[c].pc = "list"
    /\ tidy' = [tidy EXCEPT ![c] = [NoTidy EXCEPT !.pc = "next",
           !.todo = {<<i, row[i].photo>> : i \in {j \in Items : Pending(j) /\ (c = "save" => save.item = j)}}]]
    /\ missed' = [missed EXCEPT !.tidy = @ /\ c = "save"]
    /\ UNCHANGED <<disk, ui, ctl, load, refresh, reload, save>>

TidyDeletes(c, job) ==
    /\ tidy[c].pc = "next" /\ job \in tidy[c].todo
    /\ file' = file \ {job[2]}
    /\ tidy' = [tidy EXCEPT ![c].pc = "clear", ![c].job = job]
    /\ UNCHANGED <<rows, copies, ui, ctl, load, refresh, reload, save, missed>>

NextJob(c, job) == tidy' = [tidy EXCEPT ![c].pc = "next", ![c].todo = @ \ {job}, ![c].job = NoJob]

\* clearPendingPhotoCleanup: only while the piece is still deleted.
TidyClears(c) ==
    LET i == tidy[c].job[1] IN
    /\ tidy[c].pc = "clear" /\ NextJob(c, tidy[c].job)
    /\ IF Pending(i) /\ row[i].photo = tidy[c].job[2]
       THEN row' = [row EXCEPT ![i].photo = 0] /\ reloadRun
       ELSE UNCHANGED <<row, reload>>
    /\ UNCHANGED <<file, writes, copies, ui, ctl, load, refresh, save, missed>>

\* A list, a deletion or a write that failed is passed over.
TidyFails(c) ==
    /\ \/ tidy[c].pc = "list" /\ NextJob(c, NoJob)
       \/ tidy[c].pc = "next" /\ \E job \in tidy[c].todo : NextJob(c, job)
       \/ tidy[c].pc = "clear" /\ NextJob(c, tidy[c].job)
    /\ Excused("tidy")
    /\ UNCHANGED <<disk, ui, ctl, load, refresh, reload, save>>

-----------------------------------------------------------------------------
(* The load, and the sweep after it.                                         *)

LoadStep(l, pc) == load' = [load EXCEPT ![l].pc = pc]

\* A load that shows neither its list nor its failure yet.
Underway == \E l \in Launches : load[l].pc \in {"open", "ask", "answered"}

\* initialize, at first and from a retry: nothing in it waits for another load.
initialize(l) ==
    /\ load[l].pc = "off" /\ ~ctl.repository
    /\ LoadStep(l, "open")
    /\ UNCHANGED <<disk, ui, ctl, refresh, reload, save, tidy, missed>>

LoadOpens(l) ==
    /\ load[l].pc = "open" /\ LoadStep(l, "ask")
    /\ ctl' = [ctl EXCEPT !.repository = TRUE]
    /\ UNCHANGED <<disk, ui, refresh, reload, save, tidy, missed>>

LoadAnswered(l) ==
    /\ load[l].pc = "ask"
    /\ load' = [load EXCEPT ![l].pc = "answered", ![l].got = Listed]
    /\ UNCHANGED <<disk, ui, ctl, refresh, reload, save, tidy, missed>>

\* Without a repository, or without its list.
LoadFails(l) ==
    /\ load[l].pc \in {"open", "ask"}
    /\ load' = [load EXCEPT ![l] = NoLoad]
    /\ ui' = [Loading EXCEPT !.status = "error"]
    /\ Excused("tidy")
    /\ UNCHANGED <<disk, ctl, refresh, reload, save, tidy>>

LoadLands(l) ==
    /\ load[l].pc = "answered"
    /\ ui' = [Loading EXCEPT !.status = "ready", !.items = load[l].got]
    /\ load' = [load EXCEPT ![l].pc = "tidy", ![l].got = Nothing]
    /\ TidyStart(l)
    /\ UNCHANGED <<disk, ctl, refresh, reload, save, missed>>

\* Mutant: the sweep is announced before the save it waits for has ended.
LoadTidiedEarly(l) ==
    /\ load[l].pc = "tidy" /\ TidyDone(l) /\ TidyOver(l)
    /\ LoadStep(l, "await")
    /\ ctl' = [ctl EXCEPT !.sweep = l]
    /\ UNCHANGED <<disk, ui, refresh, reload, save, missed>>

LoadTidied(l) ==
    /\ load[l].pc = "tidy" /\ TidyDone(l) /\ TidyOver(l)
    /\ LoadStep(l, "await")
    /\ UNCHANGED <<disk, ui, ctl, refresh, reload, save, missed>>

\* Mutant: the sweep does not wait for a save in progress.
SweepStartsAtOnce(l) ==
    /\ load[l].pc = "await" /\ LoadStep(l, "files")
    /\ ctl' = [ctl EXCEPT !.sweep = l]
    /\ UNCHANGED <<disk, ui, refresh, reload, save, tidy, missed>>

\* No save can start between the check and the claim.
SweepStarts(l) ==
    /\ load[l].pc = "await" /\ ~Saving
    /\ LoadStep(l, "files")
    /\ ctl' = [ctl EXCEPT !.sweep = l]
    /\ UNCHANGED <<disk, ui, refresh, reload, save, tidy, missed>>

SweepLists(l) ==
    /\ load[l].pc = "files"
    /\ load' = [load EXCEPT ![l].pc = "names", ![l].files = file]
    /\ UNCHANGED <<disk, ui, ctl, refresh, reload, save, tidy, missed>>

\* The orphans that are old enough; a file's age may be unknown, or too small.
orphanedWardrobePhotoPaths(l) == load[l].files \ {row[i].photo : i \in Items}

SweepNames(l) ==
    /\ load[l].pc = "names"
    /\ \E old \in SUBSET orphanedWardrobePhotoPaths(l) :
        load' = [load EXCEPT ![l].pc = "delete", ![l].files = old,
                             ![l].whole = old = orphanedWardrobePhotoPaths(l)]
    /\ UNCHANGED <<disk, ui, ctl, refresh, reload, save, tidy, missed>>

\* Deleted, or not.
SweepDeletes(l, p) ==
    /\ load[l].pc = "delete" /\ p \in load[l].files
    /\ \/ /\ file' = file \ {p}
          /\ load' = [load EXCEPT ![l].files = @ \ {p}]
       \/ /\ UNCHANGED file
          /\ load' = [load EXCEPT ![l].files = @ \ {p}, ![l].whole = FALSE]
    /\ UNCHANGED <<rows, copies, ui, ctl, refresh, reload, save, tidy, missed>>

\* Its finally; a list that failed ends it too.
SweepEnds(l) ==
    /\ \/ load[l].pc \in {"files", "names"} /\ UNCHANGED missed
       \/ /\ load[l].pc = "delete" /\ load[l].files = {}
          /\ missed' = [missed EXCEPT !.file = @ /\ ~load[l].whole]
    /\ load' = [load EXCEPT ![l] = NoLoad]
    /\ ctl' = [ctl EXCEPT !.sweep = NoLaunch]
    /\ UNCHANGED <<disk, ui, refresh, reload, save, tidy>>

-----------------------------------------------------------------------------
(* The refresh and the reload.                                               *)

\* A read that begins is the newer of the two; one that lands beats the older.
Begun(other) == IF Reading(other) THEN [other EXCEPT !.older = TRUE] ELSE other
Passed(other) == IF Reading(other) /\ other.older THEN [other EXCEPT !.beaten = TRUE] ELSE other

refreshOnce ==
    /\ ctl.repository /\ ui.status \in {"ready", "error"} /\ refresh.pc = "off"
    /\ refresh' = [NoRead EXCEPT !.pc = "ask"]
    /\ reload' = Begun(reload)
    /\ ui' = IF Ready THEN [ui EXCEPT !.refreshing = TRUE] ELSE Loading
    /\ UNCHANGED <<disk, ctl, load, save, tidy, missed>>

RefreshAnswered ==
    /\ refresh.pc = "ask"
    /\ refresh' = [refresh EXCEPT !.pc = "answered", !.got = Listed]
    /\ UNCHANGED <<disk, ui, ctl, load, reload, save, tidy, missed>>

\* Mutant: a later read that landed is not looked at.
RefreshLandsLate ==
    /\ refresh.pc = "answered"
    /\ IF ~refresh.same /\ Ready
       THEN ui' = [ui EXCEPT !.refreshing = FALSE] /\ UNCHANGED reload
       ELSE /\ ui' = [status |-> "ready", items |-> refresh.got, refreshing |-> FALSE,
                      mutating |-> Saving, failed |-> FALSE]
            /\ reload' = Passed(reload)
    /\ refresh' = NoRead
    /\ UNCHANGED <<disk, ctl, load, save, tidy, missed>>

\* Mutant: the list lands as if no save were under way.
RefreshLandsIdle ==
    /\ refresh.pc = "answered"
    /\ IF (~refresh.same \/ refresh.beaten) /\ Ready
       THEN ui' = [ui EXCEPT !.refreshing = FALSE] /\ UNCHANGED reload
       ELSE /\ ui' = [status |-> "ready", items |-> refresh.got, refreshing |-> FALSE,
                      mutating |-> FALSE, failed |-> FALSE]
            /\ reload' = Passed(reload)
    /\ refresh' = NoRead
    /\ UNCHANGED <<disk, ctl, load, save, tidy, missed>>

\* Over a save's own list, or over a later read, it lands nothing.
RefreshLands ==
    /\ refresh.pc = "answered"
    /\ IF (~refresh.same \/ refresh.beaten) /\ Ready
       THEN ui' = [ui EXCEPT !.refreshing = FALSE] /\ UNCHANGED reload
       ELSE /\ ui' = [status |-> "ready", items |-> refresh.got, refreshing |-> FALSE,
                      mutating |-> Saving, failed |-> FALSE]
            /\ reload' = Passed(reload)
    /\ refresh' = NoRead
    /\ UNCHANGED <<disk, ctl, load, save, tidy, missed>>

RefreshFails ==
    /\ refresh.pc = "ask"
    /\ ui' = IF Ready THEN [ui EXCEPT !.refreshing = FALSE, !.failed = refresh.same \/ @]
             ELSE [Loading EXCEPT !.status = "error"]
    /\ refresh' = NoRead
    /\ UNCHANGED <<disk, ctl, load, reload, save, tidy, missed>>

\* One more run, when one was asked for.
ReloadOver(again) ==
    reload' = IF (again \/ reload.again) /\ Ready
              THEN [NoReload EXCEPT !.pc = "wait", !.waits = Saving] ELSE NoReload

\* reloadOnce, once the save it awaited has ended.
ReloadReads ==
    /\ reload.pc = "wait" /\ ~reload.waits
    /\ reload' = [NoReload EXCEPT !.pc = "ask", !.again = reload.again]
    /\ refresh' = Begun(refresh)
    /\ UNCHANGED <<disk, ui, ctl, load, save, tidy, missed>>

ReloadAnswered ==
    /\ reload.pc = "ask"
    /\ reload' = [reload EXCEPT !.pc = "answered", !.got = Listed]
    /\ UNCHANGED <<disk, ui, ctl, load, refresh, save, tidy, missed>>

ReloadFails ==
    /\ reload.pc = "ask" /\ ReloadOver(FALSE)
    /\ missed' = [missed EXCEPT !.list = TRUE, !.tidy = TRUE]
    /\ UNCHANGED <<disk, ui, ctl, load, refresh, save, tidy>>

\* A save began meanwhile: read once more after it.  Else it lands, unless a
\* later read has, and the photos of pieces deleted elsewhere go.
ReloadLands ==
    /\ reload.pc = "answered"
    /\ IF ~reload.same
       THEN ReloadOver(TRUE) /\ UNCHANGED <<ui, refresh, tidy, missed>>
       ELSE /\ reload' = [NoReload EXCEPT !.pc = "tidy", !.again = reload.again]
            /\ TidyStart("reload")
            /\ missed' = [missed EXCEPT !.list = FALSE]
            /\ IF reload.beaten THEN UNCHANGED <<ui, refresh>>
               ELSE /\ ui' = IF Ready THEN [ui EXCEPT !.items = reload.got] ELSE ui
                    /\ refresh' = Passed(refresh)
    /\ UNCHANGED <<disk, ctl, load, save>>

ReloadTidied ==
    /\ reload.pc = "tidy" /\ TidyDone("reload") /\ TidyOver("reload")
    /\ ReloadOver(FALSE)
    /\ UNCHANGED <<disk, ui, ctl, load, refresh, save, missed>>

-----------------------------------------------------------------------------
(* A save, one at a time: mutate.                                            *)

\* The epoch a read began with has passed.
Outdated(read) == IF Reading(read) THEN [read EXCEPT !.same = FALSE] ELSE read

SaveStep(pc) == save' = [save EXCEPT !.pc = pc]

\* Only the piece and what it shows without a list still matter.
SaveReadsList(shown) == save' = [NoSave EXCEPT !.pc = "ask", !.item = save.item, !.shown = shown]

\* Where the operation begins, once no sweep runs.
Operation(s) == IF s.kind = "update" THEN "read" ELSE IF s.photo = "replace" THEN "copy" ELSE "write"

mutate(kind, i, photo) ==
    /\ ctl.repository /\ Ready /\ ~Saving
    /\ LET s == [NoSave EXCEPT !.kind = kind, !.item = i, !.photo = photo, !.shown = ui.items,
                               !.sweep = ctl.sweep] IN
        save' = [s EXCEPT !.pc = IF ctl.sweep # NoLaunch THEN "gate" ELSE Operation(s)]
    /\ refresh' = Outdated(refresh) /\ reload' = Outdated(reload)
    /\ ui' = [ui EXCEPT !.mutating = TRUE]
    /\ UNCHANGED <<disk, ctl, load, tidy, missed>>

createItem(i, photo) == row[i].st = "none" /\ photo # "remove" /\ mutate("create", i, photo)
updateItem(i, photo) == ui.items[i] # 0 /\ mutate("update", i, photo)
softDeleteItem(i) == ui.items[i] # 0 /\ mutate("delete", i, "unchanged")
seedEmptyCloset == ui.items = Nothing /\ mutate("seed", NoItem, "unchanged")

SavePassesSweep ==
    /\ save.pc = "gate" /\ load[save.sweep].pc \notin {"await", "files", "names", "delete"}
    /\ save' = [save EXCEPT !.pc = Operation(save), !.sweep = NoLaunch]
    /\ UNCHANGED <<disk, ui, ctl, load, refresh, reload, tidy, missed>>

\* mutationPromise is gone, and the epoch moves on.
SaveOver ==
    /\ save' = NoSave
    /\ refresh' = Outdated(refresh)
    /\ reload' = [Outdated(reload) EXCEPT !.waits = FALSE]

\* getActiveItem, read by the controller and again by the repository: only
\* saves change the photo of a live piece, so both name the same one.
SaveReads ==
    /\ save.pc = "read" /\ Live(save.item)
    /\ save' = [save EXCEPT !.old = row[save.item].photo, !.shown[save.item] = row[save.item].ver,
                            !.pc = IF save.photo = "replace" THEN "copy" ELSE "write"]
    /\ UNCHANGED <<disk, ui, ctl, load, refresh, reload, tidy, missed>>

\* commitStagedPhoto, under a name of its own.
SaveCopies ==
    /\ save.pc = "copy" /\ copies < MaxCopies
    /\ copies' = copies + 1
    /\ file' = file \cup {copies + 1}
    /\ save' = [save EXCEPT !.pc = "write", !.copy = copies + 1]
    /\ UNCHANGED <<rows, ui, ctl, load, refresh, reload, tidy, missed>>

\* The photo an update stores: a copy, none, or the one it read.
NewPhoto == IF save.photo = "unchanged" THEN save.old ELSE save.copy

\* The pieces a committed save writes, with their rows.
Written(i, r) ==
    \/ /\ save.kind = "create" /\ i = save.item
       /\ r = [st |-> "live", ver |-> writes + 1, photo |-> save.copy]
    \/ /\ save.kind = "update" /\ i = save.item /\ Live(i)
       /\ r = [st |-> "live", ver |-> writes + 1, photo |-> NewPhoto]
    \/ /\ save.kind = "delete" /\ i = save.item /\ Live(i)
       /\ r = [row[i] EXCEPT !.st = "gone", !.ver = writes + 1]
    \/ /\ save.kind = "seed" /\ \A j \in Items : ~Live(j)
       /\ row[i].st = "none"
       /\ r = [st |-> "live", ver |-> writes + 1, photo |-> 0]

\* Mutant: a photo that was replaced or removed is kept.
AfterwardsKept == IF save.kind = "delete" /\ row[save.item].photo # 0 THEN "tidy" ELSE "ask"

\* What is left to do once the row is written.
Afterwards ==
    IF save.kind = "delete" /\ row[save.item].photo # 0 THEN "tidy"
    ELSE IF save.photo # "unchanged" /\ save.old # 0 THEN "drop"
    ELSE "ask"

SaveWritten(shown) ==
    IF Afterwards = "ask" THEN SaveReadsList(shown)
    ELSE save' = [save EXCEPT !.pc = Afterwards, !.shown = shown]

\* The transaction commits.
SaveWrites ==
    /\ save.pc = "write" /\ writes < MaxWrites
    /\ \E i \in Items, st \in {"live", "gone"}, photo \in Photos \cup {0} :
        LET r == [st |-> st, ver |-> writes + 1, photo |-> photo] IN
        /\ Written(i, r)
        /\ row' = [row EXCEPT ![i] = r]
        /\ SaveWritten([save.shown EXCEPT ![i] = IF st = "live" THEN writes + 1 ELSE 0])
    /\ writes' = writes + 1
    /\ reloadRun
    /\ IF Afterwards = "tidy" THEN TidyStart("save") ELSE UNCHANGED tidy
    /\ UNCHANGED <<file, copies, ui, ctl, load, refresh, missed>>

\* An update that changes no field it read, or a seed of a Closet that is not empty.
SaveWritesNothing ==
    /\ save.pc = "write"
    /\ \/ /\ save.kind = "update" /\ save.old = NewPhoto
          /\ SaveReadsList(save.shown)
       \/ /\ save.kind = "seed" /\ \E j \in Items : Live(j)
          /\ SaveReadsList(save.shown)
    /\ UNCHANGED <<disk, ui, ctl, load, refresh, reload, tidy, missed>>

\* A read, a copy or a write that failed, or found no live piece: a photo
\* copied for it goes first.
SaveFails ==
    /\ save.pc \in {"read", "copy", "write"}
    /\ IF save.copy # 0 THEN SaveStep("undo") /\ UNCHANGED <<ui, refresh, reload>>
       ELSE SaveOver /\ ui' = [ui EXCEPT !.mutating = FALSE]
    /\ UNCHANGED <<disk, ctl, load, tidy, missed>>

\* A file is deleted, or stays.
Removes(p) == \/ file' = file \ {p} /\ UNCHANGED missed
              \/ UNCHANGED file /\ Excused("file")

SaveUndoes ==
    /\ save.pc = "undo" /\ Removes(save.copy)
    /\ SaveOver /\ ui' = [ui EXCEPT !.mutating = FALSE]
    /\ UNCHANGED <<rows, copies, ctl, load, tidy>>

\* The photo an update replaced or removed.
SaveDrops ==
    /\ save.pc = "drop" /\ Removes(save.old) /\ SaveReadsList(save.shown)
    /\ UNCHANGED <<rows, copies, ui, ctl, load, refresh, reload, tidy>>

SaveTidied ==
    /\ save.pc = "tidy" /\ TidyDone("save") /\ TidyOver("save") /\ SaveReadsList(save.shown)
    /\ UNCHANGED <<disk, ui, ctl, load, refresh, reload, missed>>

SaveAnswered ==
    /\ save.pc = "ask"
    /\ save' = [save EXCEPT !.pc = "answered", !.got = Listed]
    /\ UNCHANGED <<disk, ui, ctl, load, refresh, reload, tidy, missed>>

\* The list, or the shown one with what was saved.
SaveLands ==
    /\ save.pc \in {"ask", "answered"}
    /\ LET read == save.pc = "answered" IN
        ui' = [Loading EXCEPT !.status = "ready", !.failed = ~read,
                              !.items = IF read THEN save.got ELSE save.shown]
    /\ SaveOver
    /\ UNCHANGED <<disk, ctl, load, tidy, missed>>

-----------------------------------------------------------------------------
\* The process ends; rows and files stay.
Killed ==
    /\ ui # Loading \/ ctl # Closed
    /\ ui' = Loading /\ ctl' = Closed
    /\ load' = [l \in Launches |-> NoLoad]
    /\ refresh' = NoRead /\ reload' = NoReload /\ save' = NoSave
    /\ tidy' = [c \in Cleaners |-> NoTidy]
    /\ missed' = [missed EXCEPT !.tidy = TRUE, !.file = @ \/ save.pc \in {"write", "undo", "drop"}]
    /\ UNCHANGED disk

TidyAnswers(c) ==
    TidyLists(c) \/ TidyClears(c) \/ TidyFails(c) \/ \E job \in tidy[c].todo : TidyDeletes(c, job)
LoadSteps(l) ==
    \/ LoadOpens(l) \/ LoadAnswered(l) \/ LoadFails(l) \/ LoadLands(l) \/ LoadTidied(l)
    \/ SweepStarts(l) \/ SweepLists(l) \/ SweepNames(l) \/ SweepEnds(l)
    \/ \E p \in Photos : SweepDeletes(l, p)
Reads ==
    \/ RefreshAnswered \/ RefreshLands \/ RefreshFails
    \/ ReloadReads \/ ReloadAnswered \/ ReloadFails \/ ReloadLands \/ ReloadTidied
SaveSteps ==
    \/ SavePassesSweep \/ SaveReads \/ SaveCopies \/ SaveWrites \/ SaveWritesNothing \/ SaveFails
    \/ SaveUndoes \/ SaveDrops \/ SaveTidied \/ SaveAnswered \/ SaveLands

\* When the screens ask for a load or a refresh: none while one loads, and a
\* failed load is retried again before it is over only where DoubleRetry.
Patient == ~Underway \/ (DoubleRetry /\ ui.status # "loading")

Next ==
    \/ \E i \in Items, st \in {"live", "gone"} : land(i, st)
    \/ \E c \in Cleaners : TidyAnswers(c)
    \/ \E l \in Launches : (Patient /\ initialize(l)) \/ LoadSteps(l)
    \/ (Patient /\ refreshOnce) \/ Reads
    \/ \E i \in Items, photo \in {"unchanged", "remove", "replace"} :
        createItem(i, photo) \/ updateItem(i, photo)
    \/ \E i \in Items : softDeleteItem(i)
    \/ seedEmptyCloset \/ SaveSteps
    \/ Killed

Spec == Init /\ [][Next]_vars

-----------------------------------------------------------------------------
List == [Items -> 0..MaxWrites]
ReadSteps == {"off", "ask", "answered"}

\* The types of the rows, the files and everything the controller keeps.
TypeOK ==
    /\ row \in [Items -> [st : {"none", "live", "gone"}, ver : 0..MaxWrites, photo : Photos \cup {0}]]
    /\ file \subseteq Photos /\ writes \in 0..MaxWrites /\ copies \in 0..MaxCopies
    /\ ui \in [status : {"loading", "ready", "error"}, items : List, refreshing : BOOLEAN,
              mutating : BOOLEAN, failed : BOOLEAN]
    /\ ctl \in [repository : BOOLEAN, sweep : Launches \cup {NoLaunch}]
    /\ load \in [Launches -> [pc : {"off", "open", "ask", "answered", "tidy", "await", "files", "names",
                                   "delete"}, got : List, files : SUBSET Photos, whole : BOOLEAN]]
    /\ refresh \in [pc : ReadSteps, got : List, same : BOOLEAN, older : BOOLEAN, beaten : BOOLEAN]
    /\ reload \in [pc : ReadSteps \cup {"wait", "tidy"}, got : List, same : BOOLEAN, older : BOOLEAN,
                  beaten : BOOLEAN, again : BOOLEAN, waits : BOOLEAN]
    /\ save.pc \in {"off", "gate", "read", "copy", "write", "undo", "drop", "tidy", "ask", "answered"}
    /\ save.copy \in Photos \cup {0} /\ save.old \in Photos \cup {0} /\ save.shown \in List
    /\ \A c \in Cleaners : tidy[c].todo \subseteq Items \X Photos
    /\ missed \in [list : BOOLEAN, tidy : BOOLEAN, file : BOOLEAN]

\* The photo of every piece in the Closet is there: no sweep, no removal of a
\* deleted piece's photo and no save that failed takes it away.
PhotosKept == \A i \in Items : Live(i) /\ row[i].photo # 0 => row[i].photo \in file

Quiet ==
    /\ Ready /\ \A l \in Launches : load[l].pc = "off"
    /\ refresh.pc = "off" /\ reload.pc = "off" /\ ~Saving

\* Once nothing is under way, the shown list is the stored one, whatever order
\* pulls, saves and reads came in; or it says that its last read failed, or a
\* reload's did.
ShowsWhatIsStored == Quiet => ui.items = Listed \/ ui.failed \/ missed.list

\* Once nothing is under way, no photo is left that no piece shows, unless a
\* removal failed or the process ended; the next removal that lists, and the
\* next sweep that takes every orphan, make good for those too.
NothingLeftBehind ==
    Quiet => /\ missed.tidy \/ \A i \in Items : ~Pending(i)
             /\ missed.file \/ file \subseteq {row[i].photo : i \in Items}

\* Photos and pieces belong together: none is missing, none is left over.
PhotosMatch == PhotosKept /\ NothingLeftBehind

\* The Closet shows that a save is under way exactly while one is.
BusyShown == Ready => (ui.mutating <=> Saving)

\* A save that waits for the sweep and a sweep that waits for a save never wait
\* for each other: while a save is under way, it or what it waits for goes on.
NoStandstill ==
    Saving => \/ ENABLED SaveSteps \/ \E c \in Cleaners : ENABLED TidyAnswers(c)
              \/ \E l \in Launches : ENABLED LoadSteps(l)

\* The state hangs together: the types, and the indicator of a save.
Consistent == TypeOK /\ BusyShown
=============================================================================
