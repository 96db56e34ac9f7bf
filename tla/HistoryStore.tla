---------------------------- MODULE HistoryStore ----------------------------
(***************************************************************************)
(* The app-history database of crates/tm-core/src/app_history.rs on top of *)
(* crates/tm-core/src/persist.rs: the UI thread's model, the loader thread *)
(* of a deferred open, the writer thread, and the disk, over several runs  *)
(* of the program with kills and power losses in between.                  *)
(*                                                                         *)
(* The per-application usage maps are abstracted to one total; a snapshot  *)
(* that is observed adds one unit.                                         *)
(***************************************************************************)
EXTENDS Naturals, Sequences

CONSTANTS
    NoValue,
    MaxObserve,    \* bound: snapshots folded in per session
    MaxSaves,      \* bound: save generations per session
    MaxSessions,   \* bound: starts of the program
    SpawnMayFail   \* the loader thread may fail to start

\* A save on its way to the writer: its generation and the totals it holds.
SaveCmd == [op : {"Save"}, gen : Nat, total : Nat]

ASSUME HistoryAssumption ==
    /\ NoValue \notin SaveCmd
    /\ MaxObserve \in Nat /\ MaxSaves \in Nat /\ MaxSessions \in Nat \ {0}
    /\ SpawnMayFail \in BOOLEAN

VARIABLES
    \* Disk. kind: what a reader makes of the file. fresh: written by the
    \* session that is running. synced: its bytes reached stable storage.
    file, tempFile, asideFile,
    \* AppHistoryDb, on the UI thread.
    entries, loading, observing, saveAfterLoad, generation, rxOpen,
    loader,      \* loader thread: where it is
    text,        \* what read_db_text returned: the file's content, or absent
    wq,          \* the writer's channel
    pendingAdd,     \* the writer's newest unsaved generation, or None
    wpc, wcur,   \* the writer's place inside replace_file, and what it writes
    lifeOf,        \* "running", "flushing" (inside the exit save), "flushed", "ended"
    sessions, observed,
    \* Observation: the total the database should hold; whether the saved file
    \* was adopted or wiped on purpose; what went wrong on the disk so far.
    truth, settled, mishaps

historyDiskVars == <<file, tempFile, asideFile>>
dbVars == <<entries, loading, observing, saveAfterLoad, generation, rxOpen>>
loaderVars == <<loader, text>>
historyWriterVars == <<wq, pendingAdd, wpc, wcur>>
runVars == <<lifeOf, sessions, observed>>
ghostVars == <<truth, settled, mishaps>>
historyVars == <<historyDiskVars, dbVars, loaderVars, historyWriterVars, runVars, ghostVars>>

NoFile == [kind |-> "absent", total |-> 0, fresh |-> FALSE, synced |-> TRUE]
OldFiles == {NoFile} \cup
    [kind : {"good", "corrupt", "unreadable"}, total : {1}, fresh : {FALSE}, synced : {TRUE}]

-----------------------------------------------------------------------------
(* persist.rs                                                               *)

\* set_aside renames whatever is at the path now to .bad; a failing rename is
\* only logged.
HistorySetAside ==
    \/ /\ file.kind # "absent"
       /\ asideFile' = file
       /\ file' = NoFile
       /\ mishaps' = IF file.fresh THEN mishaps \cup {"movedFresh"} ELSE mishaps
    \/ /\ mishaps' = mishaps \cup {"asideFailed"}
       /\ UNCHANGED <<file, asideFile>>

-----------------------------------------------------------------------------
(* The loader thread: read_db_text, then one send.                          *)

\* Opening or reading an existing file may fail right now; oversized and
\* non-UTF-8 files are unusable; malformed JSON is only found by the UI thread.
LoaderRead ==
    /\ loader = "start" /\ lifeOf # "ended"
    /\ \/ file.kind # "unreadable" /\ loader' = "send" /\ text' = file
       \/ file.kind # "absent" /\ loader' = "setAside" /\ text' = NoFile
    /\ UNCHANGED <<historyDiskVars, dbVars, historyWriterVars, runVars, ghostVars>>

LoaderSetAside ==
    /\ loader = "setAside" /\ lifeOf # "ended"
    /\ HistorySetAside
    /\ loader' = "send"
    /\ UNCHANGED <<tempFile, text, dbVars, historyWriterVars, runVars, truth, settled>>

LoaderSend ==
    /\ loader = "send" /\ lifeOf # "ended"
    /\ loader' = "done"
    /\ UNCHANGED <<historyDiskVars, text, dbVars, historyWriterVars, runVars, ghostVars>>

-----------------------------------------------------------------------------
(* AppHistoryDb on the UI thread.                                           *)

\* Mutation: a save does not wait for the load.
EnqueueSaveAtOnce(isLoading, total) ==
    /\ generation' = generation + 1
    /\ wq' = Append(wq, [op |-> "Save", gen |-> generation + 1, total |-> total])
    /\ UNCHANGED saveAfterLoad
\* enqueue_save with the flags of this moment: deferred while a load is
\* outstanding, otherwise a new generation of the current totals.
EnqueueSave(isLoading, total) ==
    IF isLoading
      THEN saveAfterLoad' = TRUE /\ UNCHANGED <<generation, wq>>
      ELSE /\ saveAfterLoad' = FALSE
           /\ generation' = generation + 1
           /\ wq' = Append(wq, [op |-> "Save", gen |-> generation + 1, total |-> total])

\* Mutation: a save asked for during the load is forgotten.
FinishLoadForgets(total) ==
    loading' = FALSE /\ rxOpen' = FALSE /\ UNCHANGED <<saveAfterLoad, generation, wq>>
\* finish_load: the load is over, and a save asked for meanwhile is made now.
FinishLoad(total) ==
    /\ loading' = FALSE
    /\ rxOpen' = FALSE
    /\ IF saveAfterLoad THEN EnqueueSave(FALSE, total)
                        ELSE UNCHANGED <<saveAfterLoad, generation, wq>>

\* apply_loaded_file adds the observations of a slow load to the saved totals.
Merged(loaded) == IF observing THEN loaded + entries ELSE loaded

\* poll_load: the loader's answer has arrived.
PollLoaded ==
    /\ lifeOf = "running" /\ loading /\ rxOpen /\ loader = "done"
    /\ \/ /\ text.kind = "good"
          /\ entries' = Merged(text.total)
          /\ truth' = truth + text.total
          /\ settled' = TRUE
          /\ FinishLoad(Merged(text.total))
          /\ UNCHANGED <<file, asideFile, mishaps>>
       \/ /\ text.kind \in {"corrupt", "torn"}
          /\ HistorySetAside
          /\ FinishLoad(entries)
          /\ UNCHANGED <<entries, truth, settled>>
       \/ /\ text.kind = "absent"
          /\ FinishLoad(entries)
          /\ UNCHANGED <<entries, truth, settled, file, asideFile, mishaps>>
    /\ UNCHANGED <<tempFile, observing, loaderVars, pendingAdd, wpc, wcur, runVars>>

\* poll_load: nothing after two seconds; observation resumes.
PollTimeout ==
    /\ lifeOf = "running" /\ loading /\ rxOpen /\ loader # "done"
    /\ observing' = TRUE
    /\ UNCHANGED <<historyDiskVars, entries, loading, saveAfterLoad, generation, rxOpen,
                   loaderVars, historyWriterVars, runVars, ghostVars>>

\* observe: skipped until the load is over or known to be slow.
Observe ==
    /\ lifeOf = "running" /\ observed < MaxObserve
    /\ ~loading \/ observing
    /\ entries' = entries + 1
    /\ truth' = truth + 1
    /\ observed' = observed + 1
    /\ UNCHANGED <<historyDiskVars, loading, observing, saveAfterLoad, generation, rxOpen,
                   loaderVars, historyWriterVars, lifeOf, sessions, settled, mishaps>>

\* clear: a wipe outranks an unfinished read.
Clear ==
    /\ lifeOf = "running" /\ generation < MaxSaves
    /\ loading' = FALSE /\ rxOpen' = FALSE
    /\ entries' = 0 /\ truth' = 0
    /\ settled' = TRUE
    /\ EnqueueSave(FALSE, 0)
    /\ UNCHANGED <<historyDiskVars, observing, loaderVars, pendingAdd, wpc, wcur, runVars, mishaps>>

\* save_async, every 30 s.
SaveAsync ==
    /\ lifeOf = "running" /\ generation < MaxSaves
    /\ EnqueueSave(loading, entries)
    /\ UNCHANGED <<historyDiskVars, entries, loading, observing, rxOpen, loaderVars,
                   pendingAdd, wpc, wcur, runVars, ghostVars>>

\* The exit path's save: nothing is written while a load is outstanding,
\* otherwise the newest totals are queued and flushed.
ExitSave ==
    /\ lifeOf = "running"
    /\ IF loading
         THEN saveAfterLoad' = TRUE /\ lifeOf' = "flushed" /\ UNCHANGED <<generation, wq>>
         ELSE /\ generation' = generation + 1
              /\ wq' = wq \o <<[op |-> "Save", gen |-> generation + 1, total |-> entries],
                               [op |-> "Flush"]>>
              /\ lifeOf' = "flushing"
              /\ UNCHANGED saveAfterLoad
    /\ UNCHANGED <<historyDiskVars, entries, loading, observing, rxOpen, loaderVars,
                   pendingAdd, wpc, wcur, sessions, observed, ghostVars>>

\* flush gives up after three seconds.
ExitFlushTimeout ==
    /\ lifeOf = "flushing"
    /\ lifeOf' = "flushed"
    /\ mishaps' = mishaps \cup {"flushTimeout"}
    /\ UNCHANGED <<historyDiskVars, dbVars, loaderVars, historyWriterVars, sessions, observed, truth, settled>>

-----------------------------------------------------------------------------
(* history_writer_loop.                                                     *)

WriterAlive == lifeOf # "ended"

WriterSave ==
    /\ WriterAlive /\ wpc = "recv" /\ wq # <<>> /\ Head(wq).op = "Save"
    /\ pendingAdd' = IF pendingAdd = NoValue THEN Head(wq)
                  ELSE IF Head(wq).gen > pendingAdd.gen THEN Head(wq) ELSE pendingAdd
    /\ wq' = Tail(wq)
    /\ UNCHANGED <<historyDiskVars, dbVars, loaderVars, wpc, wcur, runVars, ghostVars>>

\* The coalescing window ended, or a Flush is next: write what is pending.
WriterBegin ==
    /\ WriterAlive /\ wpc = "recv" /\ pendingAdd # NoValue
    /\ wq # <<>> => Head(wq).op = "Flush"
    /\ wcur' = pendingAdd /\ pendingAdd' = NoValue
    /\ wpc' = "create"
    /\ UNCHANGED <<historyDiskVars, dbVars, loaderVars, wq, runVars, ghostVars>>

\* A Flush with nothing pending is answered.
WriterFlushed ==
    /\ WriterAlive /\ wpc = "recv" /\ pendingAdd = NoValue /\ wq # <<>> /\ Head(wq).op = "Flush"
    /\ wq' = Tail(wq)
    /\ lifeOf' = IF lifeOf = "flushing" THEN "flushed" ELSE lifeOf
    /\ UNCHANGED <<historyDiskVars, dbVars, loaderVars, pendingAdd, wpc, wcur, sessions, observed, ghostVars>>

\* replace_file: create and fill the temp file, force it to disk, rename.
WriterCreate ==
    /\ WriterAlive /\ wpc = "create"
    /\ tempFile' = [kind |-> "good", total |-> wcur.total, fresh |-> TRUE, synced |-> FALSE]
    /\ wpc' = "sync"
    /\ UNCHANGED <<file, asideFile, dbVars, loaderVars, wq, pendingAdd, wcur, runVars, ghostVars>>

WriterSync ==
    /\ WriterAlive /\ wpc = "sync"
    /\ tempFile' = [tempFile EXCEPT !.synced = TRUE]
    /\ wpc' = "rename"
    /\ UNCHANGED <<file, asideFile, dbVars, loaderVars, wq, pendingAdd, wcur, runVars, ghostVars>>

WriterRename ==
    /\ WriterAlive /\ wpc = "rename"
    /\ file' = tempFile
    /\ tempFile' = NoFile
    /\ wpc' = "recv" /\ wcur' = NoValue
    /\ UNCHANGED <<asideFile, dbVars, loaderVars, wq, pendingAdd, runVars, ghostVars>>

\* Any step of replace_file may fail: the save is lost and only logged.
WriterFails ==
    /\ WriterAlive /\ wpc \in {"create", "sync", "rename"}
    /\ wpc' = "recv" /\ wcur' = NoValue
    /\ mishaps' = mishaps \cup {"writeFailed"}
    /\ UNCHANGED <<historyDiskVars, dbVars, loaderVars, wq, pendingAdd, runVars, truth, settled>>

-----------------------------------------------------------------------------
(* The process and the machine.                                             *)

\* The process is gone: after its exit path, or killed. Threads die where
\* they are.
ProcessEnds ==
    /\ lifeOf # "ended"
    /\ lifeOf' = "ended"
    /\ UNCHANGED <<historyDiskVars, dbVars, loaderVars, historyWriterVars, sessions, observed, ghostVars>>

\* A power loss also tears what never reached stable storage.
Torn(f) == IF f.synced THEN f ELSE [f EXCEPT !.kind = "torn", !.synced = TRUE]
HistoryPowerLoss ==
    /\ lifeOf' = "ended"
    /\ file' = Torn(file) /\ tempFile' = Torn(tempFile)
    /\ UNCHANGED <<asideFile, dbVars, loaderVars, historyWriterVars, sessions, observed, ghostVars>>

\* open_deferred of the next session. Without a loader thread the database is
\* ready at once.
Opened(spawned) ==
    /\ entries' = 0 /\ observing' = FALSE /\ saveAfterLoad' = FALSE /\ generation' = 0
    /\ loading' = spawned /\ rxOpen' = spawned
    /\ loader' = IF spawned THEN "start" ELSE "none"
    /\ text' = NoFile
    /\ wq' = <<>> /\ pendingAdd' = NoValue /\ wpc' = "recv" /\ wcur' = NoValue
    /\ lifeOf' = "running" /\ observed' = 0
    /\ truth' = 0 /\ settled' = FALSE /\ mishaps' = {}

Restart ==
    /\ lifeOf = "ended" /\ sessions < MaxSessions
    /\ sessions' = sessions + 1
    /\ file' = [file EXCEPT !.fresh = FALSE]
    /\ Opened(TRUE) \/ (SpawnMayFail /\ Opened(FALSE))
    /\ UNCHANGED <<tempFile, asideFile>>

HistoryInit ==
    /\ file \in OldFiles /\ tempFile = NoFile /\ asideFile = NoFile
    /\ entries = 0 /\ loading = FALSE /\ observing = FALSE /\ saveAfterLoad = FALSE
    /\ generation = 0 /\ rxOpen = FALSE
    /\ loader = "none" /\ text = NoFile
    /\ wq = <<>> /\ pendingAdd = NoValue /\ wpc = "recv" /\ wcur = NoValue
    /\ lifeOf = "ended" /\ sessions = 0 /\ observed = 0
    /\ truth = 0 /\ settled = FALSE /\ mishaps = {}

LoaderStep == LoaderRead \/ LoaderSetAside \/ LoaderSend
WriterStep ==
    \/ WriterSave \/ WriterBegin \/ WriterFlushed
    \/ WriterCreate \/ WriterSync \/ WriterRename
UiStep == PollLoaded \/ PollTimeout \/ Observe \/ Clear \/ SaveAsync \/ ExitSave \/ ExitFlushTimeout

HistoryNext ==
    \/ UiStep \/ LoaderStep \/ WriterStep \/ WriterFails
    \/ ProcessEnds \/ HistoryPowerLoss \/ Restart

HistorySpec == HistoryInit /\ [][HistoryNext]_historyVars

\* The loader's reads return, the writer thread is scheduled, and the UI keeps
\* polling; a disk that fails, a user who leaves and a crash owe nothing.
HistoryLiveSpec == HistorySpec /\ WF_historyVars(LoaderStep) /\ WF_historyVars(WriterStep) /\ WF_historyVars(PollLoaded)

-----------------------------------------------------------------------------
\* Type invariant.
File == [kind : {"absent", "good", "corrupt", "unreadable", "torn"}, total : Nat,
         fresh : BOOLEAN, synced : BOOLEAN]
HistoryTypeOK ==
    /\ {file, tempFile, asideFile, text} \subseteq File
    /\ {entries, generation, sessions, observed, truth} \subseteq Nat
    /\ {loading, observing, saveAfterLoad, rxOpen, settled} \subseteq BOOLEAN
    /\ loader \in {"none", "start", "setAside", "send", "done"}
    /\ wq \in Seq(SaveCmd \cup [op : {"Flush"}])
    /\ pendingAdd \in SaveCmd \cup {NoValue} /\ wcur \in SaveCmd \cup {NoValue}
    /\ wpc \in {"recv", "create", "sync", "rename"}
    /\ lifeOf \in {"running", "flushing", "flushed", "ended"}
    /\ mishaps \subseteq {"movedFresh", "asideFailed", "writeFailed", "flushTimeout"}

\* Once no load is outstanding the database holds exactly the saved totals plus
\* what was observed: a late load neither drops nor doubles usage, and never
\* brings back what the user cleared. (poll_load, apply_loaded_file, observe, clear.)
TotalsExact == lifeOf # "ended" /\ ~loading => entries = truth

\* Whatever the moment of a kill or a power loss, the file is never a torn
\* write. (persist::replace_file syncs before it renames.)
FileNeverTorn == file.kind # "torn"

\* An exit whose flush was answered left the final totals on the disk, unless
\* the disk failed or the file was moved away. (save, flush and the coalescing
\* writer: no older generation is left in place of the newest.)
CleanExitPersists ==
    lifeOf = "flushed" /\ ~loading /\ mishaps \cap {"writeFailed", "flushTimeout", "movedFresh"} = {}
        => file.kind = "good" /\ file.total = entries

\* A save never replaces a file of an earlier session that was neither adopted
\* nor wiped by the user, unless keeping it aside failed. (enqueue_save waits
\* for the load; set_aside keeps what could not be used.)
UnreadHistoryKept ==
    [][(wpc = "rename" /\ wpc' = "recv" /\ file' # file /\ file.kind # "absent" /\ ~file.fresh)
          => settled \/ "asideFailed" \in mishaps]_historyVars

\* A save asked for during a load is made once the load is over: it reaches the
\* disk unless the disk fails, the user clears, or the process ends.
DeferredSaveWritten ==
    (lifeOf = "running" /\ saveAfterLoad) ~>
        (file.fresh \/ lifeOf # "running" \/ mishaps # {})

\* set_aside's comment: "Move an existing file that could not be used out of
\* the way". It never moves a file this session wrote.
AsideIsUnusable == "movedFresh" \notin mishaps

\* No usage is lost or counted twice on its way to the file: the totals are those of
\* the file plus what was observed, the file is never torn, an exit whose flush
\* succeeded leaves the newest totals there, and history that was never read is not
\* overwritten.
HistoryKept ==
  /\ []HistoryTypeOK /\ []TotalsExact /\ []FileNeverTorn /\ []CleanExitPersists /\ UnreadHistoryKept
=============================================================================
