---------------------------- MODULE StartupItems ----------------------------
(***************************************************************************)
(* The Windows back end of the Startup page: the start-up entries and      *)
(* their approval in the registry (win/startup.rs), and the measured       *)
(* start-up impact (startup_impact.rs, fed and saved by app.rs).           *)
(*                                                                         *)
(* Both run beside Windows and other programs: entries come and go,        *)
(* Windows' own Settings page writes approvals, a write to the machine's   *)
(* hive may be refused, the machine restarts, PIDs are reused, and the     *)
(* program is closed or killed inside the measured window.                 *)
(***************************************************************************)
EXTENDS Integers, FiniteSets, FiniteSetsExt

CONSTANTS
    Places,      \* the Run keys and folders that are followed
    ItemNames,   \* value and file names
    SPids,       \* PIDs of the processes that start
    Images,      \* normalised image paths (process_rule_key)
    Window,      \* STARTUP_WINDOW_S in ticks
    MaxUse,      \* CPU time and I/O one process is followed to
    MaxBoots,    \* restarts of the machine
    MaxWrites,   \* changes other programs make to entries and approvals
    NoImage      \* no process, no measurement

ASSUME StartupAssumption ==
    /\ Places \subseteq {"hkcu", "hklm", "hklm32", "user", "common"}
    /\ Window \in Nat \ {0} /\ MaxUse \in Nat /\ MaxBoots \in Nat /\ MaxWrites \in Nat
    /\ NoImage \notin Images

VARIABLES
    half,       \* "items" or "impact": which of the two a behaviour follows
    runEntries,    \* the <<place, name>> that exist
    approvals,  \* StartupApproved: the flag byte of <<hive, subkey, name>>, if any
    shownItems, \* list_startup(): [place, name, enabled]
    toggle,     \* the last toggle: [place, name, to, ok]
    writes,     \* changes made by other programs
    procs,      \* pid |-> [image, born, use, path] of a running process, or NoImage
    uptime,     \* ticks since boot, up to Window
    boot,       \* the boot, numbered (boot_epoch_s)
    spent,      \* ghost: what the processes of each image have used since boot
    tracker,    \* StartupImpactTracker, NoImage before the first snapshot
    running,    \* the program runs
    store,      \* ImpactStore.entries: image |-> [use, boot]
    unsaved,    \* ImpactStore.dirty
    impactFile, \* startup-impact.json
    exit        \* ghost: what the last orderly exit had measured, and whether it was written

startupVars == <<half, runEntries, approvals, shownItems, toggle, writes, procs, uptime, boot,
                 spent, tracker, running, store, unsaved, impactFile, exit>>
itemVars == <<runEntries, approvals, shownItems, toggle, writes>>
impactVars == <<procs, uptime, boot, spent, tracker, running, store, unsaved, impactFile,
                exit>>

-----------------------------------------------------------------------------
(***************************************************************************)
(* Entries and approvals. A place is one of the three Run keys or one of   *)
(* the two start-up folders.                                               *)
(***************************************************************************)

\* Mutation: the 32-bit Run key shares the approvals of the 64-bit one.
ApprovedAtRun(place) ==
    CASE place = "hkcu" -> <<"HKCU", "Run">>
      [] place \in {"hklm", "hklm32"} -> <<"HKLM", "Run">>
      [] place = "user" -> <<"HKCU", "StartupFolder">>
      [] place = "common" -> <<"HKLM", "StartupFolder">>
\* LOCATIONS, and the hive of each folder scope.
ApprovedAt(place) ==
    CASE place = "hkcu" -> <<"HKCU", "Run">>
      [] place = "hklm" -> <<"HKLM", "Run">>
      [] place = "hklm32" -> <<"HKLM", "Run32">>
      [] place = "user" -> <<"HKCU", "StartupFolder">>
      [] place = "common" -> <<"HKLM", "StartupFolder">>

\* Where Windows looks when the user signs in.
WindowsKey(place) ==
    CASE place = "hkcu" -> <<"HKCU", "Run">>
      [] place = "hklm" -> <<"HKLM", "Run">>
      [] place = "hklm32" -> <<"HKLM", "Run32">>
      [] place = "user" -> <<"HKCU", "StartupFolder">>
      [] place = "common" -> <<"HKLM", "StartupFolder">>

\* The values of one StartupApproved subkey, as read_registry_binary has them.
Value(a, key, name) ==
    LET found == {v \in a : v.key = key /\ v.name = name}
    IN  IF found = {} THEN "absent" ELSE (CHOOSE v \in found : TRUE).flag

\* Windows starts an entry unless bit 0 of its flag byte is set.
WindowsStarts(a, place, name) == Value(a, WindowsKey(place), name) # "odd"

\* approval_says_enabled
SaysEnabled(flag) == flag \in {"absent", "empty", "even"}

\* list_startup
ListStartup(es, a) ==
    {[place |-> e[1], name |-> e[2],
      enabled |-> SaysEnabled(Value(a, ApprovedAt(e[1]), e[2]))] : e \in es}

RefreshItems ==
    /\ shownItems' = ListStartup(runEntries, approvals)
    /\ toggle' = NoImage
    /\ UNCHANGED <<runEntries, approvals, writes>>

Without(a, key, name) == {v \in a : ~(v.key = key /\ v.name = name)}

Written(a, key, name, flag) ==
    Without(a, key, name) \cup {[key |-> key, name |-> name, flag |-> flag]}

\* set_startup_enabled: enabling deletes the value, disabling writes 0x03. The
\* key cannot be created or written without the right; nothing is changed then.
Approve(a, place, name, to) ==
    IF to THEN Without(a, ApprovedAt(place), name)
          ELSE Written(a, ApprovedAt(place), name, "odd")

ToggleItem ==
    \E i \in shownItems, to, granted \in BOOLEAN :
        /\ toggle' = [place |-> i.place, name |-> i.name, to |-> to, ok |-> granted]
        /\ approvals' = IF granted THEN Approve(approvals, i.place, i.name, to) ELSE approvals
        /\ UNCHANGED <<runEntries, shownItems, writes>>

\* Windows' Settings page writes even and odd flags, installers leave an empty
\* value or none; an entry that is removed leaves its approval behind.
OthersWrite ==
    /\ writes < MaxWrites /\ writes' = writes + 1
    /\ \E place \in Places, name \in ItemNames :
        \/ /\ runEntries' \in {runEntries \cup {<<place, name>>}, runEntries \ {<<place, name>>}}
           /\ UNCHANGED approvals
        \/ /\ \E flag \in {"even", "odd", "empty"} :
                approvals' = Written(approvals, WindowsKey(place), name, flag)
           /\ UNCHANGED runEntries
    /\ toggle' = NoImage
    /\ UNCHANGED shownItems

Items == half = "items" /\ (RefreshItems \/ ToggleItem \/ OthersWrite)
                        /\ UNCHANGED half /\ UNCHANGED impactVars

-----------------------------------------------------------------------------
(***************************************************************************)
(* The measurement. use stands for CPU time and bytes together; a process  *)
(* born in the boot that is measured is charged from zero when it is first *)
(* seen, an older one only from there on.                                  *)
(***************************************************************************)
Alive(p) == procs[p] # NoImage

\* A process's start time: 0 is before the boot, Unread is not known, and
\* otherwise the tick it started on, which a second process may share.
Unread == 0 - 1

Spawn(p, image, born) ==
    /\ ~Alive(p)
    /\ procs' = [procs EXCEPT ![p] = [image |-> image, use |-> 0, path |-> FALSE, born |-> born]]
    /\ UNCHANGED spent

Works(p) ==
    /\ Alive(p) /\ procs[p].use < MaxUse
    /\ procs' = [procs EXCEPT ![p].use = @ + 1]
    /\ spent' = [spent EXCEPT ![procs[p].image] = Min({2 * MaxUse, @ + 1})]

PathRead(p) ==
    /\ Alive(p) /\ ~procs[p].path
    /\ procs' = [procs EXCEPT ![p].path = TRUE]
    /\ UNCHANGED spent

Dies(p) == Alive(p) /\ procs' = [procs EXCEPT ![p] = NoImage] /\ UNCHANGED spent

Processes ==
    /\ \E p \in SPids :
        \/ \E i \in Images, born \in {Unread, 0, uptime + 1} :
               /\ spent[i] + MaxUse <= 2 * MaxUse    \* ghost bound: two processes of an image
               /\ Spawn(p, i, born)
        \/ Works(p) \/ PathRead(p) \/ Dies(p)
    /\ UNCHANGED <<uptime, boot, tracker, running, store, unsaved, impactFile, exit>>

\* StartupImpactTracker::new, from the first snapshot.
NewTracker == [active |-> uptime < Window, boot |-> boot,
               totals |-> [i \in Images |-> 0], prev |-> [p \in SPids |-> NoImage]]

\* The previous reading of the same process; an unknown start matches any.
Previous(t, p, ps) ==
    IF t.prev[p] = NoImage THEN NoImage
    ELSE IF ps[p].born \in {Unread, t.prev[p].born} THEN t.prev[p] ELSE NoImage

\* What one process adds: the growth since the last reading, or all of it.
Charge(t, p, ps) ==
    LET last == Previous(t, p, ps)
    IN  IF last # NoImage THEN Max({0, ps[p].use - last.use})
        ELSE IF ps[p].born > 0 THEN ps[p].use ELSE 0

\* observe inside the window: a process whose image is not known is passed over.
Observed(t, ps) ==
    LET seen == {p \in SPids : ps[p] # NoImage /\ ps[p].path}
        of(i) == {p \in seen : ps[p].image = i}
    IN  [t EXCEPT !.totals = [i \in Images |->
                                @[i] + MapThenSumSet(LAMBDA p : Charge(t, p, ps), of(i))],
                  !.prev = [p \in SPids |-> IF p \in seen THEN ps[p] ELSE NoImage]]

\* ImpactStore::merge: an entry of this boot or an older one is replaced.
Merged(s, t) ==
    [i \in Images |-> IF t.totals[i] > 0 /\ (s[i] = NoImage \/ s[i].boot <= t.boot)
                      THEN [use |-> t.totals[i], boot |-> t.boot] ELSE s[i]]

Empty(s) == \A i \in Images : s[i] = NoImage

\* merge and then save; the write may fail and leaves the old file.
MergeAndSave(t, evenEmpty) ==
    LET s     == Merged(store, t)
        dirty == unsaved \/ \E i \in Images : t.totals[i] > 0 /\ s[i].boot = t.boot
    IN  \E written \in BOOLEAN :
        /\ store' = s
        /\ IF dirty /\ written /\ (evenEmpty \/ ~Empty(s))
           THEN impactFile' = s /\ unsaved' = FALSE
           ELSE impactFile' = impactFile /\ unsaved' = dirty

\* The part of the snapshot handling in app.rs, with observe's closing case.
Snapshot ==
    /\ running
    /\ LET t == IF tracker = NoImage THEN NewTracker ELSE tracker
       IN  CASE ~t.active -> tracker' = t /\ UNCHANGED <<store, unsaved, impactFile>>
             [] t.active /\ uptime >= Window -> /\ tracker' = [t EXCEPT !.active = FALSE]
                                               /\ MergeAndSave(t, FALSE)
             [] OTHER -> tracker' = Observed(t, procs) /\ UNCHANGED <<store, unsaved, impactFile>>
    /\ UNCHANGED <<procs, uptime, boot, spent, running, exit>>

TimePasses ==
    /\ uptime < Window /\ uptime' = uptime + 1
    /\ UNCHANGED <<procs, boot, spent, tracker, running, store, unsaved, impactFile, exit>>

\* shutdown: the totals are merged, inside the window or after it.
Shutdown ==
    /\ running /\ running' = FALSE /\ tracker' = NoImage
    /\ IF tracker = NoImage
       THEN UNCHANGED <<store, unsaved, impactFile>> /\ exit' = NoImage
       ELSE /\ MergeAndSave(tracker, TRUE)
            /\ exit' = [totals |-> tracker.totals, boot |-> tracker.boot, ok |-> ~unsaved']
    /\ UNCHANGED <<procs, uptime, boot, spent>>

Killed ==
    /\ running /\ running' = FALSE /\ tracker' = NoImage /\ exit' = NoImage
    /\ UNCHANGED <<procs, uptime, boot, spent, store, unsaved, impactFile>>

\* ImpactStore::open; replace_file never leaves a torn file.
Launched ==
    /\ ~running /\ running' = TRUE /\ tracker' = NoImage /\ exit' = NoImage
    /\ store' = impactFile /\ unsaved' = FALSE
    /\ UNCHANGED <<procs, uptime, boot, spent, impactFile>>

Reboot ==
    /\ boot < MaxBoots /\ ~running
    /\ boot' = boot + 1 /\ uptime' = 0
    /\ procs' = [p \in SPids |-> NoImage] /\ spent' = [i \in Images |-> 0]
    /\ UNCHANGED <<tracker, running, store, unsaved, impactFile, exit>>

Impact == half = "impact" /\ UNCHANGED half /\ UNCHANGED itemVars
          /\ (Processes \/ Snapshot \/ TimePasses \/ Shutdown \/ Killed \/ Launched \/ Reboot)

-----------------------------------------------------------------------------
StartupInit ==
    /\ half \in {"items", "impact"}
    /\ runEntries = Places \X ItemNames /\ writes = 0 /\ approvals = {} /\ shownItems = {} /\ toggle = NoImage
    /\ procs = [p \in SPids |-> NoImage] /\ uptime = 0 /\ boot = 1
    /\ spent = [i \in Images |-> 0]
    /\ tracker = NoImage /\ running = TRUE
    /\ store = [i \in Images |-> NoImage] /\ unsaved = FALSE /\ impactFile = store
    /\ exit = NoImage

StartupNext == Items \/ Impact

StartupSpec == StartupInit /\ [][StartupNext]_startupVars

-----------------------------------------------------------------------------
\* A toggle that reports success changes whether Windows starts that entry, to
\* what was asked, and no entry of another place or name; one that fails
\* changes nothing (set_startup_enabled).
ToggleExact ==
    [][toggle' # toggle /\ toggle' # NoImage =>
        \A place \in Places, name \in ItemNames :
            WindowsStarts(approvals', place, name) =
                IF toggle'.ok /\ toggle'.place = place /\ toggle'.name = name
                THEN toggle'.to ELSE WindowsStarts(approvals, place, name)]_startupVars

\* A fresh list says of every entry what Windows will do with it, whoever wrote
\* its approval last and in whatever form (list_startup).
ListTrue ==
    [][shownItems' # shownItems =>
        \A i \in shownItems' : i.enabled = WindowsStarts(approvals, i.place, i.name)]_startupVars

\* No image is charged for more than its processes used since the boot, when
\* PIDs are reused, starts are unknown and the program is restarted inside
\* the window (observe, merge).
ChargedOnce ==
    \A i \in Images :
        /\ tracker # NoImage => (tracker.boot = boot => tracker.totals[i] <= spent[i])
        /\ impactFile[i] # NoImage => (impactFile[i].boot = boot => impactFile[i].use <= spent[i])

\* What a session that ended in order had measured is on disk afterwards
\* unless the write failed, for a second session of one boot too (shutdown).
ExitKeepsMeasured ==
    ~running /\ exit # NoImage =>
        (exit.ok => \A i \in Images :
            exit.totals[i] > 0 => impactFile[i] = [use |-> exit.totals[i], boot |-> exit.boot])

\* Start-up entries and their impact: I/O of the measured window is charged once, an
\* exit keeps what was measured, a toggle changes its entry and no other, and the list
\* says of each entry what Windows will do with it.
StartupHonest ==
  /\ []ChargedOnce /\ []ExitKeepsMeasured /\ ToggleExact /\ ListTrue
=============================================================================
