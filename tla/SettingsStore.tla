--------------------------- MODULE SettingsStore ---------------------------
(***************************************************************************)
(* config.ini (crates/tm-core/src/settings.rs and persist.rs): loading it  *)
(* at the start, with what happens to a file that cannot be used; the      *)
(* autosave switch, applied where a snapshot is queued; the writer thread  *)
(* that coalesces snapshots; the temporary file that is synced and renamed *)
(* over the destination; the saves of a clean exit; and the writes that    *)
(* fail, crashes and power losses in between.                              *)
(***************************************************************************)
EXTENDS Naturals, Sequences

CONSTANTS MaxChanges,    \* bound: changes of the settings over all lives
          MaxLives,      \* bound: starts of the program
          None,          \* no snapshot
          Absent,        \* no file
          Unusable       \* a file that is there and cannot be read

ASSUME SettingsAssumption == MaxChanges \in Nat /\ MaxLives \in Nat

VARIABLES
    disk, bad, synced,   \* config.ini, config.ini.bad; the data of config.ini reached the disk
    tmp,                 \* config.ini.tmp: [s, whole, synced], or None
    life, lives,         \* phase of the process; starts so far
    mem, changes,        \* shared.settings; bound
    queue, pending,      \* the channel and the coalesced snapshot of the writer
    saving, then,        \* save_to in progress, and what the writer does after it
    ids,                 \* observation: snapshots approved so far
    lost                 \* observation: a write or a set-aside failed, or a flush timed out
diskVars == <<disk, bad, synced, tmp>>
writerVars == <<queue, pending, saving, then>>
setVars == <<diskVars, writerVars, life, lives, mem, changes, ids, lost>>

\* The numeric fields, in the units of the file (the zoom in percent), as they
\* are by default and at the ends of what the user interface offers: the graph
\* window, the scale, the card column of the Performance page, a column width.
Usual == [graph |-> 60, zoom |-> 100, card |-> 252, col |-> 340]
Least == [graph |-> 30, zoom |-> 80, card |-> 180, col |-> 40]
Most == [graph |-> 120, zoom |-> 125, card |-> 520, col |-> 1200]
Shown == {Usual, Least, Most}
Default == [gate |-> TRUE, rem |-> TRUE, size |-> 0, val |-> Usual]
AllSettings == [gate : BOOLEAN, rem : BOOLEAN, size : {0, 1}, val : Shown]
\* A file is absent, present but unusable, or a snapshot with its number.
Snapshots == [id : Nat, s : AllSettings]
\* A temporary file, whole once it is written.
Temporaries == [s : Snapshots, whole : BOOLEAN, synced : BOOLEAN]
ASSUME SnapshotAssumption == Absent # Unusable /\ {None, Absent, Unusable} \cap (Snapshots \cup Temporaries) = {}
Usable(f) == f \notin {Absent, Unusable}

-----------------------------------------------------------------------------
(* Loading. *)

Clamp(n, lo, hi) == IF n < lo THEN lo ELSE IF n > hi THEN hi ELSE n
Within(n, lo, hi, default) == IF n \in lo..hi THEN n ELSE default
\* The values a file may hold: the graph window is clamped, the others are
\* dropped for the default when they are out of range.
ReadValues(v) ==
    [graph |-> Clamp(v.graph, 10, 600), zoom |-> Within(v.zoom, 50, 300, Usual.zoom),
     card |-> Within(v.card, 100, 2000, Usual.card), col |-> Within(v.col, 40, 1200, Usual.col)]
\* from_ini_text, on what save_to rendered: the window size is not restored
\* unless it is remembered.
FromIni(s) == [gate |-> s.gate, rem |-> s.rem, size |-> IF s.rem THEN s.size ELSE Default.size, val |-> ReadValues(s.val)]

\* set_aside: renamed to .bad, or, failing that, left and only logged.
SetAside ==
    \/ bad' = disk /\ disk' = Absent /\ lost' = FALSE /\ UNCHANGED synced
    \/ lost' = TRUE /\ UNCHANGED <<disk, bad, synced>>
\* Settings::load at the start of a process.
Start ==
    /\ life = "off" /\ lives < MaxLives /\ lives' = lives + 1 /\ life' = "up"
    /\ IF disk = Unusable THEN SetAside ELSE lost' = FALSE /\ UNCHANGED <<disk, bad, synced>>
    /\ mem' = IF Usable(disk) THEN FromIni(disk.s) ELSE Default
    /\ UNCHANGED <<tmp, writerVars, changes, ids>>

-----------------------------------------------------------------------------
(* The user interface: changes, and the approval of snapshots. *)

\* SettingsWriter::enqueue and force: the snapshot is taken here.
Approved(s, kind) == queue' = Append(queue, [msg |-> kind, f |-> [id |-> ids + 1, s |-> s]]) /\ ids' = ids + 1
Posted(m) == queue' = Append(queue, [msg |-> m, f |-> None])

\* save_settings: nothing is queued while the switch is off.
SaveSettings == IF mem'.gate THEN Approved(mem', "write") ELSE UNCHANGED <<queue, ids>>

Changed == life = "up" /\ changes < MaxChanges /\ changes' = changes + 1 /\ UNCHANGED <<life, lives, diskVars, pending, saving, then, lost>>
UserChanges == Changed /\ (\E v \in Shown \ {mem.val} : mem' = [mem EXCEPT !.val = v]) /\ SaveSettings
UserRemembers == Changed /\ mem' = [mem EXCEPT !.rem = ~@] /\ SaveSettings
\* The window is resized: recorded in the settings, saved with the next snapshot.
UserResizes == Changed /\ mem' = [mem EXCEPT !.size = 1] /\ UNCHANGED <<queue, ids>>
\* The autosave switch is saved whichever way it is turned.
UserSwitchesSave == Changed /\ mem' = [mem EXCEPT !.gate = ~@] /\ Approved(mem', "force")
\* Reset keeps the switch; closing the dialog saves what it shows.
UserResets == Changed /\ mem' = [Default EXCEPT !.gate = mem.gate] /\ Approved(mem', "force")
UserClosesDialog == Changed /\ mem' = mem /\ Approved(mem', "force")
Ui == UserChanges \/ UserRemembers \/ UserResizes \/ UserSwitchesSave \/ UserResets \/ UserClosesDialog

\* TaskManApp::shutdown: a last save through the switch, then a flush.
Shutdown ==
    IF mem.gate
    THEN /\ queue' = queue \o <<[msg |-> "write", f |-> [id |-> ids + 1, s |-> mem]], [msg |-> "flush", f |-> None]>>
         /\ ids' = ids + 1
    ELSE Posted("flush") /\ UNCHANGED ids
UserExits == life = "up" /\ life' = "flushing" /\ Shutdown /\ UNCHANGED <<lives, mem, changes, diskVars, pending, saving, then, lost>>
\* The flush gives up after three seconds; the exit goes on all the same.
FlushTimeout == life = "flushing" /\ life' = "dropping" /\ UNCHANGED <<lives, mem, changes, diskVars, writerVars, ids, lost>>
\* SettingsWriter::drop: a shutdown message, then the join.
DropWriter == life = "dropping" /\ life' = "joining" /\ Posted("shutdown") /\ UNCHANGED <<lives, mem, changes, diskVars, pending, saving, then, ids, lost>>

-----------------------------------------------------------------------------
(* The writer thread. *)

Busy == saving # None
\* save_forced begins: replace_file creates the temporary file.
SaveForced(f, next) == /\ saving' = f /\ then' = next /\ tmp' = [s |-> f, whole |-> FALSE, synced |-> FALSE]
NothingSaved == UNCHANGED <<saving, then, tmp>>
WriterKeeps == UNCHANGED <<disk, bad, synced, lives, mem, changes, ids, lost>>

\* Mutation: an unconditional write goes straight to the disk.
CoalesceForced(m) == IF m.msg = "force" THEN SaveForced(m.f, "loop") /\ UNCHANGED pending ELSE pending' = m.f /\ NothingSaved
\* Within the window the newest snapshot replaces the pending one.
Coalesce(m) == pending' = m.f /\ NothingSaved
LastSave == IF pending = None THEN saving' = None /\ then' = "end" /\ UNCHANGED tmp ELSE SaveForced(pending, "end")
WriterReceives ==
    /\ life \in {"up", "flushing", "dropping", "joining"} /\ ~Busy /\ then = "loop" /\ queue # <<>>
    /\ queue' = Tail(queue)
    /\ CASE Head(queue).msg \in {"write", "force"} -> Coalesce(Head(queue))
         [] Head(queue).msg = "flush" ->
              /\ pending' = None
              /\ IF pending = None THEN then' = "reply" /\ UNCHANGED <<saving, tmp>> ELSE SaveForced(pending, "reply")
         [] Head(queue).msg = "shutdown" -> LastSave /\ pending' = None
    /\ UNCHANGED life /\ WriterKeeps
\* What was approved is written whatever the switch says by then.
WriteCoalesced(f) == SaveForced(f, "loop")
\* 250 ms without a message.
WindowCloses ==
    /\ life \in {"up", "flushing", "dropping", "joining"} /\ ~Busy /\ then = "loop" /\ queue = <<>> /\ pending # None
    /\ WriteCoalesced(pending) /\ pending' = None
    /\ UNCHANGED <<queue, life>> /\ WriterKeeps

\* replace_file: written, forced to the disk, renamed over config.ini.
Written == Busy /\ ~tmp.whole /\ tmp' = [tmp EXCEPT !.whole = TRUE] /\ UNCHANGED <<saving, disk, synced, lost>>
Synced == Busy /\ tmp.whole /\ ~tmp.synced /\ tmp' = [tmp EXCEPT !.synced = TRUE] /\ UNCHANGED <<saving, disk, synced, lost>>
\* Mutation: renamed without waiting for the data.
RenamedUnsynced == /\ Busy /\ tmp.whole /\ disk' = tmp.s /\ synced' = tmp.synced
                   /\ tmp' = None /\ saving' = None /\ UNCHANGED lost
Renamed == /\ Busy /\ tmp.synced /\ disk' = tmp.s /\ synced' = tmp.synced
           /\ tmp' = None /\ saving' = None /\ UNCHANGED lost
\* Any step may fail: the error is logged and the snapshot given up.
SaveFails == Busy /\ saving' = None /\ lost' = TRUE /\ UNCHANGED <<tmp, disk, synced>>
WriterSaves ==
    /\ life # "off" /\ (Written \/ Synced \/ Renamed \/ SaveFails)
    /\ UNCHANGED <<then, bad, queue, pending, life, lives, mem, changes, ids>>
\* The save is over: the loop goes on, the flush is answered, the thread ends.
WriterGoesOn ==
    /\ ~Busy /\ then # "loop"
    /\ \/ then = "reply" /\ then' = "loop" /\ life' = (IF life = "flushing" THEN "dropping" ELSE life)
       \/ then = "end" /\ then' = "ended" /\ life' = "gone"
    /\ UNCHANGED <<disk, bad, synced, tmp, queue, pending, saving, lives, mem, changes, ids, lost>>

-----------------------------------------------------------------------------
(* What happens to the process and the machine. *)

Restartable ==
    /\ queue' = <<>> /\ pending' = None /\ saving' = None /\ then' = "loop" /\ life' = "off"
    /\ UNCHANGED <<lives, changes, ids, bad>>
\* The user starts it again after a clean exit.
Gone == life = "gone" /\ Restartable /\ mem' = Default /\ UNCHANGED <<disk, synced, tmp, lost>>
\* The process is killed; the file system keeps what was written.
Killed == life \notin {"off", "gone"} /\ Restartable /\ lost' = TRUE /\ mem' = Default /\ UNCHANGED <<disk, synced, tmp>>
\* The machine loses power: data that was never forced to the disk is gone.
PowerLoss ==
    /\ life # "off" /\ Restartable /\ lost' = TRUE /\ tmp' = None
    /\ disk' = IF Usable(disk) /\ ~synced THEN Unusable ELSE disk
    /\ synced' = TRUE /\ mem' = Default

SettingsInit ==
    /\ disk \in {Absent, Unusable} \cup {[id |-> 0, s |-> [gate |-> g, rem |-> g, size |-> 1, val |-> Usual]] : g \in BOOLEAN}
    /\ bad = Absent /\ synced = TRUE /\ tmp = None
    /\ life = "off" /\ lives = 0 /\ mem = Default /\ changes = 0
    /\ queue = <<>> /\ pending = None /\ saving = None /\ then = "loop"
    /\ ids = 0 /\ lost = FALSE

Writer == WriterReceives \/ WindowCloses \/ WriterSaves \/ WriterGoesOn
Exit == UserExits \/ FlushTimeout \/ DropWriter
SettingsNext == Start \/ Ui \/ Exit \/ Writer \/ Gone \/ Killed \/ PowerLoss

SettingsFairness == WF_setVars(Writer)
SettingsSpec == SettingsInit /\ [][SettingsNext]_setVars

-----------------------------------------------------------------------------
\* Type invariant.
SettingsTypeOK ==
    /\ disk \in {Absent, Unusable} \/ (disk.id \in 0..ids /\ disk.s.val \in Shown)
    /\ bad \in {Absent, Unusable}
    /\ tmp = None \/ (tmp.s.id \in 0..ids /\ tmp.synced \in BOOLEAN /\ (tmp.synced => tmp.whole))
    /\ life \in {"off", "up", "flushing", "dropping", "joining", "gone"} /\ lives \in 0..MaxLives
    /\ changes \in 0..MaxChanges /\ then \in {"loop", "reply", "end", "ended"}
    /\ Busy => pending = None /\ tmp # None

\* The file only ever holds a snapshot that was approved, never moves back to
\* an older one, and is given up only by being put aside: whatever is queued,
\* coalesced, forced, killed or lost.  (settings_writer_loop, replace_file.)
Register == INSTANCE DurableRegister WITH
    approved <- ids, stored <- IF Usable(disk) THEN disk.id ELSE 0, aside <- bad # Absent
StoreImplementsRegister == Register!RegisterSpec

\* No save leaves a file that cannot be read, through a power loss neither.
\* (replace_file: sync_all before the rename.)
NeverTorn == [][disk' = Unusable => disk = Unusable]_setVars

\* A file that could not be read is not overwritten before it is kept aside,
\* unless keeping it failed.  (load_from, set_aside.)
UnusableKept == [][disk = Unusable /\ disk' # disk => bad' = Unusable \/ lost]_setVars

\* After a clean exit with the switch on the file holds the settings as they
\* were, also those changed without a save of their own, and although the
\* flush gave up.  (TaskManApp::shutdown, SettingsWriter::drop.)
CleanExitSaves == life = "gone" /\ ~lost /\ mem.gate => Usable(disk) /\ disk.s = mem

\* The switch itself survives a clean exit whichever way it is turned.
\* (save_settings_forced.)
SwitchSurvives == life = "gone" /\ ~lost => IF Usable(disk) THEN disk.s.gate = mem.gate ELSE mem.gate

\* A restart shows what was saved: nothing the user interface offers is refused
\* or changed when it is read back.  (from_ini_text.)
RestartShowsSaved ==
    [][life = "off" /\ life' = "up" /\ Usable(disk) =>
         mem' = [disk.s EXCEPT !.size = IF disk.s.rem THEN @ ELSE Default.size]]_setVars

\* A coalesced snapshot is written, or a newer one in its place, unless the
\* write fails or the process ends.  (settings_writer_loop.)
SettingsWritten == pending # None ~> (Usable(disk) /\ disk.id = ids) \/ lost \/ life = "off"

\* The settings of the user survive: the file is never torn, an unusable one is kept
\* aside, a clean exit leaves the newest values, the autosave switch itself is saved, and
\* a restart shows what was saved.
SettingsKept ==
  /\ []SettingsTypeOK /\ []CleanExitSaves /\ []SwitchSurvives /\ NeverTorn
  /\ UnusableKept /\ RestartShowsSaved
=============================================================================
