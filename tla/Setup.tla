------------------------------- MODULE Setup -------------------------------
(***************************************************************************)
(* Installing, repairing and removing the program: setup                   *)
(* (crates/tm-installer: install.rs, win.rs) and the elevated helper that  *)
(* owns the service (crates/tm-platform/src/win/core_service.rs: install,  *)
(* uninstall).  Each is a list of steps over the machine; any step may     *)
(* fail, and the machine may lose power between two of them.  Meanwhile    *)
(* the service manager starts the service, which compares both programs    *)
(* with the manifest, and the user starts programs, whose files are then   *)
(* in use.  One operation runs at a time.                                  *)
(***************************************************************************)
EXTENDS Naturals, Sequences, FiniteSets

CONSTANTS Builds,                  \* generations of the program
          MaxRuns, MaxFaults,      \* bounds: operations; failed steps and power losses
          Absent

ASSUME SetupAssumption == Absent \notin Builds /\ MaxRuns \in Nat /\ MaxFaults \in Nat

VARIABLES
    gui, svc,     \* the build of each installed program
    pins,         \* the manifest: [gui, svc], or Absent
    scm, image,   \* the service: its state, and the build that is running
    debugger,     \* taskmgr.exe is replaced by: "none", "installed", "portable", "other"
    app,          \* the build of a running installed GUI
    uninst, arp,  \* the copy of setup in the directory; its entry in Settings
    marker,       \* the user's mark that portable copies redirect
    run,          \* the operation: [op, build, inside]
    todo,         \* its steps left
    moved,        \* setup has moved itself out of the directory
    verdict, failedAt,   \* how the last operation ended, and at which step
    runs, faults, lost   \* counted; power was lost, or the way back failed too
files == <<gui, svc, pins>>
service == <<scm, image>>
entries == <<debugger, uninst, arp, marker>>
ended == <<verdict, failedAt, faults, lost>>
setupVars == <<files, service, entries, app, run, todo, moved, ended, runs>>

Stopped == {"stopped", "integrity", "failed"}
Idle == todo = <<>>

-----------------------------------------------------------------------------
(* The operations. *)

\* Mutation: the manifest is taken before the files are replaced.
HelperInstallEarlyPins == <<"stopService", "manifest", "copyGui", "copySvc", "migrate", "register", "start">>
\* install of core_service.rs.
HelperInstall == <<"stopService", "copyGui", "copySvc", "migrate", "manifest", "register", "start">>
\* uninstall of core_service.rs.
HelperUninstall == <<"stopService", "deleteService">>
\* Removable before anything cosmetic can fail.
RegisterUninstaller == <<"copySetup", "arp", "shortcuts", "launch">>
UninstallSteps ==
    <<"restoreTaskmgr", "stopGui", "stopService">> \o HelperUninstall
        \o <<"removeShortcuts", "relocate", "removeFiles", "removeArp">>
Plan(op) ==
    CASE op = "install" -> <<"verify", "stopGui">> \o HelperInstall \o RegisterUninstaller
      [] op = "plain" -> <<"verify", "stopGui">> \o HelperUninstall \o <<"copyGui", "copySvc">> \o RegisterUninstaller
      [] op = "uninstall" -> UninstallSteps
      [] op = "repair" -> HelperInstall \o <<"mark">>
      [] op = "remove" -> HelperUninstall \o <<"unmark">>

\* service_state, as a GUI shows it: a portable copy is not let in.
ShownState(portable) ==
    CASE scm = "none" -> "NotInstalled"
      [] scm = "starting" -> "Starting"
      [] scm = "running" -> IF portable THEN "ForeignClient" ELSE IF app = pins.gui THEN "Running" ELSE "Degraded"
      [] scm = "integrity" -> "InstallIntegrityFailed"
      [] OTHER -> "Stopped"
\* The buttons of the settings page; the state may have changed since it was read.
Offered(op, portable) ==
    CASE op = "repair" -> ShownState(portable) \in {"NotInstalled", "Stopped", "InstallIntegrityFailed", "Degraded", "ForeignClient"}
      [] op = "remove" -> ShownState(portable) = "Running"
      [] OTHER -> TRUE

\* Setup brings a build and runs from the directory or from elsewhere; a GUI
\* repairs with its own build.
Starts(op, b, inside) ==
    /\ Idle /\ runs < MaxRuns /\ runs' = runs + 1
    /\ op # "uninstall" \/ gui # Absent \/ arp
    /\ inside => uninst /\ op \in {"install", "plain", "uninstall"}
    /\ Offered(op, b # app)
    /\ run' = [op |-> op, build |-> b, inside |-> inside] /\ todo' = Plan(op)
    /\ moved' = FALSE /\ verdict' = "none" /\ failedAt' = "none" /\ lost' = FALSE
    /\ UNCHANGED <<files, service, entries, app, faults>>

At(s) == ~Idle /\ Head(todo) = s
Advance ==
    /\ todo' = Tail(todo)
    /\ verdict' = IF Tail(todo) = <<>> THEN "ok" ELSE verdict
    /\ UNCHANGED <<run, runs, failedAt, faults, lost>>
Abort ==
    /\ faults < MaxFaults /\ faults' = faults + 1
    /\ todo' = <<>> /\ verdict' = "failed" /\ failedAt' = Head(todo)
    /\ UNCHANGED <<run, runs, lost>>

\* A step that does not go through and leaves what it found.
StepFails ==
    /\ ~Idle /\ Head(todo) \notin {"removeFiles", "removeShortcuts"}
    /\ Abort /\ UNCHANGED <<files, service, entries, app, moved>>

\* The payload is verified before anything is touched.
Verify == At("verify") /\ Advance /\ UNCHANGED <<files, service, entries, app, moved>>
\* stop_running_gui: asked to close, then terminated.
StopGui == At("stopGui") /\ app' = Absent /\ Advance /\ UNCHANGED <<files, service, entries, moved>>
\* stop_service_for_upgrade: a service that is starting is busy.
StopService ==
    /\ At("stopService") /\ scm # "starting"
    /\ scm' = IF scm = "running" THEN "stopped" ELSE scm
    /\ image' = Absent
    /\ Advance /\ UNCHANGED <<files, entries, app, moved>>
StopBusy == At("stopService") /\ scm = "starting" /\ Abort /\ UNCHANGED <<files, service, entries, app, moved>>

\* replace_file_from_pinned_source: equal files stay, a file in use cannot be
\* replaced.  A failure after the move leaves the new file.
Replaced(old, user) == old = run.build \/ user = Absent
CopyGui ==
    /\ At("copyGui") /\ Replaced(gui, app) /\ gui' = run.build
    /\ Advance \/ Abort
    /\ UNCHANGED <<svc, pins, service, entries, app, moved>>
CopySvc ==
    /\ At("copySvc") /\ Replaced(svc, image) /\ svc' = run.build
    /\ Advance \/ Abort
    /\ UNCHANGED <<gui, pins, service, entries, app, moved>>
InUse ==
    /\ (At("copyGui") /\ ~Replaced(gui, app)) \/ (At("copySvc") /\ ~Replaced(svc, image))
    /\ Abort /\ UNCHANGED <<files, service, entries, app, moved>>
\* A replacement by a copy of the program, installed or not, follows the install.
Migrate ==
    /\ At("migrate") /\ debugger' = IF debugger \in {"installed", "portable"} THEN "installed" ELSE debugger
    /\ Advance /\ UNCHANGED <<files, service, uninst, arp, marker, app, moved>>
\* write_manifest: the hashes of the installed files.
WriteManifest ==
    /\ At("manifest") /\ pins' = [gui |-> gui, svc |-> svc]
    /\ Advance \/ Abort
    /\ UNCHANGED <<gui, svc, service, entries, app, moved>>
\* create_service or change_config.
Register ==
    /\ At("register") /\ scm' = IF scm = "none" THEN "stopped" ELSE scm
    /\ Advance \/ Abort
    /\ UNCHANGED <<files, image, entries, app, moved>>
\* The service is stopped again and its start requested.
StartService ==
    /\ At("start") /\ scm # "starting" /\ scm' = "starting" /\ image' = Absent
    /\ Advance /\ UNCHANGED <<files, entries, app, moved>>
StartBusy == At("start") /\ scm = "starting" /\ Abort /\ UNCHANGED <<files, service, entries, app, moved>>
\* copy_to: setup in the directory is the copy.
CopySetup == At("copySetup") /\ uninst' = TRUE /\ Advance /\ UNCHANGED <<files, service, debugger, arp, marker, app, moved>>
WriteArp == At("arp") /\ arp' = TRUE /\ Advance /\ UNCHANGED <<files, service, debugger, uninst, marker, app, moved>>
CreateShortcuts == At("shortcuts") /\ Advance /\ UNCHANGED <<files, service, entries, app, moved>>
LaunchApp == At("launch") /\ app' \in {app, gui} /\ Advance /\ UNCHANGED <<files, service, entries, moved>>
\* The GUI marks its user when the helper has succeeded.
Mark == At("mark") /\ marker' = TRUE /\ Advance /\ UNCHANGED <<files, service, debugger, uninst, arp, app, moved>>
Unmark == At("unmark") /\ marker' = FALSE /\ Advance /\ UNCHANGED <<files, service, debugger, uninst, arp, app, moved>>

\* remove_task_manager_replacement_for_deleted_exe.
RestoreTaskmgr ==
    /\ At("restoreTaskmgr") /\ debugger' = IF debugger = "installed" THEN "none" ELSE debugger
    /\ Advance /\ UNCHANGED <<files, service, uninst, arp, marker, app, moved>>
\* The helper's delete, or delete_service_fallback where the helper is gone.
DeleteService ==
    /\ At("deleteService") /\ scm' = "none" /\ image' = Absent
    /\ Advance /\ UNCHANGED <<files, entries, app, moved>>
RemoveShortcuts == At("removeShortcuts") /\ Advance /\ UNCHANGED <<files, service, entries, app, moved>>
\* relocate_self_out_of.
Relocate ==
    /\ At("relocate") /\ moved' = run.inside /\ uninst' = (uninst /\ ~run.inside)
    /\ Advance /\ UNCHANGED <<files, service, debugger, arp, marker, app>>
\* remove_dir_all, then the data directory, which may stay.
RemoveFiles ==
    /\ At("removeFiles") /\ app = Absent
    /\ gui' = Absent /\ svc' = Absent /\ uninst' = FALSE /\ pins' \in {pins, Absent}
    /\ Advance /\ UNCHANGED <<service, debugger, arp, marker, app, moved>>
\* restore_setup_image.
RolledBack == moved
\* Some files are left: setup moves back, unless that fails as well.
RemoveHalf ==
    /\ At("removeFiles")
    /\ faults < MaxFaults /\ todo' = <<>> /\ verdict' = "failed" /\ failedAt' = "removeFiles"
    /\ gui' \in {gui} \cup (IF app = Absent THEN {Absent} ELSE {}) /\ svc' \in {svc, Absent}
    /\ \/ /\ \E kept \in BOOLEAN : uninst' = (RolledBack \/ (uninst /\ kept))
          /\ faults' = faults + 1 /\ UNCHANGED lost
       \/ moved /\ faults + 1 < MaxFaults /\ faults' = faults + 2 /\ uninst' = FALSE /\ lost' = TRUE
    /\ UNCHANGED <<pins, service, debugger, arp, marker, app, run, moved, runs>>
RemoveArp == At("removeArp") /\ arp' = FALSE /\ Advance /\ UNCHANGED <<files, service, debugger, uninst, marker, app, moved>>

-----------------------------------------------------------------------------
(* The machine. *)

Around == UNCHANGED <<run, todo, moved, verdict, failedAt, runs>>
\* load_manifest, validate_manifest.
Validated == IF pins = Absent THEN FALSE ELSE pins.gui = gui /\ pins.svc = svc
\* A manual start, the restart after a failure, or the boot.
ScmStarts ==
    /\ scm \in Stopped /\ scm' = "starting"
    /\ UNCHANGED <<files, image, entries, app, faults, lost>> /\ Around
\* The service comes up, or exits: a mismatch with its own code, anything else,
\* a missing manifest too, with the general one (service_exit_code).
ServiceUp ==
    /\ scm = "starting"
    /\ IF svc = Absent THEN scm' = "failed" /\ UNCHANGED image
       ELSE IF Validated THEN scm' = "running" /\ image' = svc
       ELSE scm' = (IF pins = Absent THEN "failed" ELSE "integrity") /\ UNCHANGED image
    /\ UNCHANGED <<files, entries, app, faults, lost>> /\ Around
ServiceStops ==
    /\ scm = "running" /\ scm' \in {"stopped", "failed"} /\ image' = Absent
    /\ UNCHANGED <<files, entries, app, faults, lost>> /\ Around
UserStartsApp ==
    /\ gui # Absent /\ app = Absent /\ app' = gui
    /\ UNCHANGED <<files, service, entries, faults, lost>> /\ Around
UserQuits ==
    /\ app # Absent /\ app' = Absent
    /\ UNCHANGED <<files, service, entries, faults, lost>> /\ Around
\* Assumed: nobody changes the replacement while setup works.
UserReplaces ==
    /\ Idle
    /\ debugger' \in (IF gui # Absent THEN {"installed"} ELSE {}) \cup {"none", "portable"} /\ debugger # "other"
    /\ UNCHANGED <<files, service, uninst, arp, marker, app, faults, lost>> /\ Around
\* redirect_to_installed_gui at the start of a portable copy: the same build
\* with a registered service takes over; without one the mark goes.
Redirects(b) ==
    /\ Idle /\ marker /\ gui = b
    /\ IF scm = "none" THEN marker' = FALSE /\ UNCHANGED app
       ELSE app' = (IF app = Absent THEN gui ELSE app) /\ UNCHANGED marker
    /\ UNCHANGED <<files, service, debugger, uninst, arp, faults, lost>> /\ Around
PowerLoss ==
    /\ ~Idle /\ faults < MaxFaults /\ faults' = faults + 1 /\ lost' = TRUE
    /\ todo' = <<>> /\ verdict' = "lost" /\ failedAt' = Head(todo)
    /\ app' = Absent /\ image' = Absent /\ scm' = IF scm = "none" THEN scm ELSE "stopped"
    /\ UNCHANGED <<files, entries, run, moved, runs>>

\* A clean machine; another product or a portable copy may replace taskmgr.exe.
SetupInit ==
    /\ gui = Absent /\ svc = Absent /\ pins = Absent /\ scm = "none" /\ image = Absent /\ app = Absent
    /\ debugger \in {"none", "portable", "other"} /\ uninst = FALSE /\ arp = FALSE /\ marker = FALSE
    /\ run = [op |-> "none", build |-> Absent, inside |-> FALSE] /\ todo = <<>> /\ moved = FALSE
    /\ verdict = "none" /\ failedAt = "none" /\ runs = 0 /\ faults = 0 /\ lost = FALSE
SetupNext ==
    \/ \E op \in {"install", "plain", "uninstall", "repair", "remove"}, b \in Builds, inside \in BOOLEAN : Starts(op, b, inside)
    \/ StepFails \/ Verify \/ StopGui \/ StopService \/ StopBusy \/ CopyGui \/ CopySvc \/ InUse \/ Migrate
    \/ WriteManifest \/ Register \/ StartService \/ StartBusy \/ CopySetup \/ WriteArp \/ CreateShortcuts
    \/ LaunchApp \/ Mark \/ Unmark \/ RestoreTaskmgr \/ DeleteService \/ RemoveShortcuts \/ Relocate
    \/ RemoveFiles \/ RemoveHalf \/ RemoveArp
    \/ ScmStarts \/ ServiceUp \/ ServiceStops \/ UserStartsApp \/ UserQuits \/ UserReplaces \/ PowerLoss
    \/ \E b \in Builds : Redirects(b)
SetupSpec == SetupInit /\ [][SetupNext]_setupVars

-----------------------------------------------------------------------------
\* The service that runs is the one its manifest pins, whatever was interrupted
\* on the way, and its file is the one it runs from.  (validate_manifest.)
RunningIsPinned == scm = "running" => image = svc /\ (IF pins = Absent THEN FALSE ELSE pins.svc = image)

\* Nothing in Windows names a file that is gone: Ctrl+Shift+Esc opens something,
\* and no service is registered without its program, even when an operation was
\* cut short.  (The order of uninstall_steps and of install.)
NothingDangles == (debugger = "installed" => gui # Absent) /\ (scm # "none" => svc # Absent)

\* What was reported as installed works: both programs are the build that was
\* brought, the manifest agrees, and Settings can remove them.  (install.)
InstallWorks ==
    [][verdict # "ok" /\ verdict' = "ok" =>
        /\ run.op \in {"install", "repair"} => gui' = run.build /\ svc' = run.build /\ pins' = [gui |-> gui', svc |-> svc']
        /\ run.op \in {"install", "plain"} => uninst' /\ arp']_setupVars

\* What was reported as removed is gone.  (uninstall.)
RemovalComplete ==
    [][verdict # "ok" /\ verdict' = "ok" /\ run.op = "uninstall" =>
        gui' = Absent /\ svc' = Absent /\ scm' = "none" /\ ~arp' /\ debugger' # "installed"]_setupVars

\* An uninstall that was started from Settings and fails can be started from
\* there again, unless moving setup back failed as well.  (restore_setup_image.)
EntryUsable ==
    verdict = "failed" /\ run.op = "uninstall" /\ run.inside /\ failedAt # "removeArp" /\ ~lost => uninst

\* Where only a cosmetic step of an install failed, Settings can remove it.
\* (install_steps: right after the service.)
StillRemovable == verdict = "failed" /\ run.op \in {"install", "plain"} /\ failedAt \in {"shortcuts", "launch"} => arp /\ uninst

-----------------------------------------------------------------------------
(***************************************************************************)
(* The window of setup (crates/tm-installer/src/ui.rs): pages, a worker    *)
(* thread that runs the steps of install.rs and reports each through a     *)
(* channel, and the list of steps that shows what was reported.            *)
(***************************************************************************)

CONSTANT MaxEdits      \* bound: changes of the options

VARIABLES
    page, opts,      \* the page; [uninstall, shortcuts, launch] as chosen
    accepted, existing,   \* the license; an installation was found
    rows,            \* the list: sequence of [label, state]
    worker,          \* "none", "running", "ended"
    plan, next,      \* worker: the steps it runs and the one it is at
    mail,            \* reports not yet taken: [at, state], at = 0 for the end
    result, finished,    \* how the worker ended; what the window was told
    open, edits
wizardVars == <<page, opts, accepted, existing, rows, worker, plan, next, mail, result, finished, open, edits>>

\* install_steps, uninstall_steps.
Steps(o) ==
    IF o.uninstall THEN <<"restore", "stop", "service", "shortcuts", "files", "arp">>
    ELSE <<"extract", "stop", "files", "arp">> \o (IF o.shortcuts THEN <<"shortcuts">> ELSE <<>>)
                                              \o (IF o.launch THEN <<"launch">> ELSE <<>>)
\* plan_steps.
PlanSteps(o) == [i \in 1..Len(Steps(o)) |-> [label |-> Steps(o)[i], state |-> "pending"]]

\* SetupApp::new: without a payload an install ends here.
WizardInit ==
    /\ opts \in [uninstall : BOOLEAN, shortcuts : {TRUE}, launch : BOOLEAN] /\ existing \in BOOLEAN
    /\ \E usable \in BOOLEAN :
        IF usable \/ opts.uninstall
        THEN page = (IF opts.uninstall THEN "options" ELSE "welcome") /\ finished = "none"
        ELSE page = "done" /\ finished = "failed"
    /\ rows = PlanSteps(opts) /\ accepted = FALSE /\ worker = "none" /\ plan = <<>> /\ next = 0
    /\ mail = <<>> /\ result = "none" /\ open = TRUE /\ edits = 0

Thread == <<worker, plan, next, mail, result>>
WizardWindow == open /\ UNCHANGED existing
\* footer_band, welcome_page, options_page.
Accept == WizardWindow /\ page = "welcome" /\ accepted' = ~accepted /\ edits < MaxEdits /\ edits' = edits + 1 /\ UNCHANGED <<page, opts, rows, finished, open, Thread>>
NextPage == WizardWindow /\ page = "welcome" /\ accepted /\ page' = "options" /\ UNCHANGED <<opts, accepted, rows, finished, open, edits, Thread>>
Back == WizardWindow /\ page = "options" /\ ~opts.uninstall /\ page' = "welcome" /\ UNCHANGED <<opts, accepted, rows, finished, open, edits, Thread>>
ChooseUninstall ==
    /\ WizardWindow /\ page = "welcome" /\ existing
    /\ opts' = [opts EXCEPT !.uninstall = TRUE] /\ rows' = PlanSteps(opts') /\ page' = "options"
    /\ UNCHANGED <<accepted, finished, open, edits, Thread>>
\* The check boxes change the options and leave the list.
EditOptions ==
    /\ WizardWindow /\ page = "options" /\ ~opts.uninstall /\ edits < MaxEdits /\ edits' = edits + 1
    /\ \/ opts' = [opts EXCEPT !.shortcuts = ~@]
       \/ opts' = [opts EXCEPT !.launch = ~@]
    /\ UNCHANGED <<page, accepted, rows, finished, open, Thread>>
\* start_work: the thread may not start.
StartWork(spawned) ==
    /\ WizardWindow /\ page = "options" /\ page' = "working"
    /\ IF worker # "none" THEN UNCHANGED <<Thread, finished>>
       ELSE /\ worker' = IF spawned THEN "running" ELSE "none"
            /\ plan' = Steps(opts) /\ next' = 1
            /\ finished' = IF spawned THEN finished ELSE "failed"
            /\ UNCHANGED <<mail, result>>
    /\ UNCHANGED <<opts, accepted, rows, open, edits>>

\* The worker reports that a step runs, and that it is done or the failure of all.
Report(r) == mail' = Append(mail, r)
WorkerBegins ==
    /\ worker = "running" /\ next <= Len(plan) /\ result = "none"
    /\ Report([at |-> next, state |-> "running"]) /\ result' = "busy"
    /\ UNCHANGED <<page, opts, accepted, existing, rows, worker, plan, next, finished, open, edits>>
WizardWorkerEnds(ok) ==
    /\ worker = "running" /\ result = "busy"
    /\ IF ok THEN Report([at |-> next, state |-> "done"]) /\ next' = next + 1 /\ result' = "none" /\ UNCHANGED worker
       ELSE Report([at |-> 0, state |-> "failed"]) /\ result' = "failed" /\ worker' = "ended" /\ UNCHANGED next
    /\ UNCHANGED <<page, opts, accepted, existing, rows, plan, finished, open, edits>>
\* The checks before the first step.
WorkerRefused ==
    /\ worker = "running" /\ next = 1 /\ result = "none"
    /\ Report([at |-> 0, state |-> "failed"]) /\ result' = "failed" /\ worker' = "ended"
    /\ UNCHANGED <<page, opts, accepted, existing, rows, plan, next, finished, open, edits>>
WorkerDone ==
    /\ worker = "running" /\ next > Len(plan) /\ result = "none"
    /\ Report([at |-> 0, state |-> "ok"]) /\ result' = "ok" /\ worker' = "ended"
    /\ UNCHANGED <<page, opts, accepted, existing, rows, plan, next, finished, open, edits>>

\* Reports of steps, those the list has no row for ignored.
Told ==
    LET Apply[n \in 0..Len(mail)] ==
            IF n = 0 THEN rows
            ELSE IF mail[n].at \in DOMAIN rows THEN [Apply[n - 1] EXCEPT ![mail[n].at].state = mail[n].state]
            ELSE Apply[n - 1]
    IN  Apply[Len(mail)]
\* The running row is where it failed.
MarkFailed(list) ==
    LET at == {i \in DOMAIN list : list[i].state = "running"} IN
    IF at = {} THEN list ELSE [list EXCEPT ![CHOOSE i \in at : \A j \in at : i <= j].state = "failed"]
Last == IF mail = <<>> THEN 1 ELSE mail[Len(mail)].at
\* pump_events, in every frame.
Pump ==
    /\ WizardWindow
    /\ LET end == Last = 0
           how == mail[Len(mail)].state
       IN  /\ mail' = <<>>
           /\ rows' = IF end /\ how = "failed" THEN MarkFailed(Told) ELSE Told
           /\ finished' = IF end THEN how ELSE finished
           /\ worker' = IF end THEN "none" ELSE worker
           /\ page' = IF end \/ (page = "working" /\ worker = "none" /\ finished # "none") THEN "done" ELSE page
    /\ UNCHANGED <<opts, accepted, plan, next, result, open, edits>>
\* Close is cancelled while the page works.
MayClose == page # "working"
Close == WizardWindow /\ MayClose /\ open' = FALSE /\ UNCHANGED <<page, opts, accepted, rows, finished, edits, Thread>>

WizardNext ==
    \/ Accept \/ NextPage \/ Back \/ ChooseUninstall \/ EditOptions \/ WorkerBegins \/ WorkerRefused \/ WorkerDone \/ Pump \/ Close
    \/ \E ok \in BOOLEAN : StartWork(ok) \/ WizardWorkerEnds(ok)
WizardSpec == WizardInit /\ [][WizardNext]_wizardVars

-----------------------------------------------------------------------------
\* Setup cannot be closed under its worker, so a half-applied install is always
\* finished.  (draw: CancelClose.)
NotClosedAtWork == ~open => worker # "running"

\* The last page tells what the worker ended with, and no step of the list is
\* left running there.  (pump_events, start_work.)
DoneTruthful ==
    page = "done" /\ result \in {"ok", "failed"} =>
        finished = result /\ \A i \in DOMAIN rows : rows[i].state # "running"

\* The list is of the steps that run: "the index refers to the step list
\* returned by install_steps" (install.rs, Event).
ListIsPlan == worker = "running" => [i \in DOMAIN rows |-> rows[i].label] = plan

-----------------------------------------------------------------------------
(***************************************************************************)
(* The archive at the end of setup (crates/tm-installer/src/payload.rs):   *)
(* compressed files, a manifest that says where each begins, and a footer. *)
(* A file is [name, size, packed]: its length and its compressed length.   *)
(* Positions are counted in a word of Top + 1 values, like the 64-bit      *)
(* numbers of the manifest.                                                *)
(***************************************************************************)

CONSTANTS Names, Bad,       \* file names, and those among them that are refused
          Top,              \* the largest number
          MaxEntries, MaxSize

ASSUME PayloadAssumption == Bad \subseteq Names /\ Top \in Nat /\ MaxEntries \in Nat /\ MaxSize \in Nat

VARIABLES
    given,        \* files to pack, or a manifest to read
    blobEnd,      \* where the manifest begins
    archived      \* "no", "packed", "refused", "taken"
payloadVars == <<given, blobEnd, archived>>

\* validate_name.
ValidName(n) == n \notin Bad
\* write_blobs: each file right after the one before.
OffsetOf(fs, i) == LET Sum[n \in 0..Len(fs)] == IF n = 0 THEN 0 ELSE Sum[n - 1] + fs[n].packed IN Sum[i - 1]
Packable(fs) == \A i \in DOMAIN fs : ValidName(fs[i].name) /\ \A j \in 1..(i - 1) : fs[j].name # fs[i].name
ManifestOf(fs) == [i \in DOMAIN fs |-> [name |-> fs[i].name, offset |-> OffsetOf(fs, i), packed |-> fs[i].packed, size |-> fs[i].size]]

EndOf(e) == e.offset + e.packed
\* Every entry by itself; the sum is checked.
EntryValid(e) == ValidName(e.name) /\ e.size # 0 /\ e.packed # 0 /\ EndOf(e) <= Top
BlobLen(m) == IF m = <<>> THEN 0 ELSE CHOOSE n \in {EndOf(m[i]) : i \in DOMAIN m} : \A i \in DOMAIN m : EndOf(m[i]) <= n
\* The order of the ranges: by offset, then by end.
Before(e, f) == e.offset < f.offset \/ (e.offset = f.offset /\ EndOf(e) < EndOf(f))
\* Pairs next to each other when sorted; equal ranges are neighbours too.
Neighbours(m) ==
    {p \in (DOMAIN m) \X (DOMAIN m) :
        /\ p[1] # p[2] /\ ~Before(m[p[2]], m[p[1]])
        /\ ~\E k \in DOMAIN m : Before(m[p[1]], m[k]) /\ Before(m[k], m[p[2]])}
Overlap(e, f) == EndOf(e) > f.offset
\* Archive::parse.
Parses(m, start) ==
    /\ m # <<>> /\ \A i \in DOMAIN m : EntryValid(m[i])
    /\ BlobLen(m) <= start
    /\ \A p \in Neighbours(m) : ~Overlap(m[p[1]], m[p[2]])

\* The blobs end where the manifest begins.
BlobStart(m, start) == start - BlobLen(m)
\* read_entry: where in the file the bytes of an entry are.
SliceOf(m, start, e) == (BlobStart(m, start) + e.offset)..(BlobStart(m, start) + EndOf(e) - 1)

\* Bound: parse looks at one name only at a time, so one of each kind is enough.
Entries ==
    [name : {CHOOSE n \in Names : ValidName(n)}, offset : 0..Top, packed : 0..MaxSize, size : 0..1]
        \cup [name : Bad, offset : {0}, packed : {1}, size : {1}]
Packs == [name : Names, packed : 1..MaxSize, size : 0..1]
\* Any manifest, or any list of files behind a setup of any length.
PayloadInit ==
    /\ archived \in {"no", "packing"} /\ blobEnd \in {0, Top - 1, Top + 1}
    /\ given \in UNION {[1..n -> IF archived = "packing" THEN Packs ELSE Entries] : n \in 0..MaxEntries}
Build == archived = "packing" /\ archived' = (IF Packable(given) THEN "packed" ELSE "refused") /\ UNCHANGED <<given, blobEnd>>
Parse == archived = "no" /\ archived' = (IF Parses(given, blobEnd) THEN "taken" ELSE "refused") /\ UNCHANGED <<given, blobEnd>>
PayloadNext == Build \/ Parse
PayloadSpec == PayloadInit /\ [][PayloadNext]_payloadVars

-----------------------------------------------------------------------------
\* Comparing neighbours is enough: in an archive that is accepted no two entries
\* share a byte and all of them lie before the manifest.  (Archive::parse.)
EntriesApart ==
    archived = "taken" =>
        \A i, j \in DOMAIN given :
            /\ SliceOf(given, blobEnd, given[i]) \subseteq 0..(blobEnd - 1)
            /\ i # j => SliceOf(given, blobEnd, given[i]) \cap SliceOf(given, blobEnd, given[j]) = {}

\* What was packed behind a setup of any length is found again, each file where
\* it was written; only an empty file, or none, is not.  (build_payload, parse.)
RoundTrip ==
    archived = "packed" =>
        LET m == ManifestOf(given)
            start == blobEnd + BlobLen(m)
        IN  /\ Parses(m, start) <=> given # <<>> /\ \A i \in DOMAIN given : given[i].size # 0
            /\ \A i \in DOMAIN given :
                SliceOf(m, start, m[i]) = (blobEnd + OffsetOf(given, i))..(blobEnd + OffsetOf(given, i) + given[i].packed - 1)

\* Setup over failing steps and power losses: the service runs only the files its
\* manifest pins, no registration names removed files, what is half removed can still
\* be removed, the window does not close on a working step or report a failed one as
\* done, the archive is read back as written, and the operation itself succeeds when
\* nothing fails.
SetupSafe ==
  /\ []RunningIsPinned /\ []NothingDangles /\ []EntryUsable /\ []StillRemovable
  /\ []NotClosedAtWork /\ []DoneTruthful /\ []EntriesApart /\ []RoundTrip
  /\ InstallWorks /\ RemovalComplete
=============================================================================
