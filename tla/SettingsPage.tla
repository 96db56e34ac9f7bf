---------------------------- MODULE SettingsPage ----------------------------
(***************************************************************************)
(* The settings dialog over the life of the program: what the user         *)
(* chooses, what is in force, what the settings file will hold after the   *)
(* next start, and the two registrations outside the file that the dialog  *)
(* also owns, the logon entry in the registry's Run key and the Task       *)
(* Manager replacement.  Every value is a small number, 0 the default; the *)
(* speed is 0 normal, 1 high, 2 paused.                                    *)
(***************************************************************************)
EXTENDS Naturals

CONSTANTS
    MaxClicks,  \* bound: controls used in one behaviour
    MaxStarts,  \* bound: starts of the program
    NoEntry     \* no Run value, no state known

\* A Run value: the executable it starts, and whether it starts it hidden.
RunEntries == [exe : {"portable", "installed", "other"}, hidden : BOOLEAN]

ASSUME SettingsAssumption == NoEntry \notin RunEntries

VARIABLES
    up, pageOpen,      \* the program runs; the dialog is shown
    set,           \* app.shared.settings
    live,          \* what the window, the fonts and the language use
    engine,        \* the sampling engine's [paused, interval]
    handed, disk,  \* the snapshot the settings writer has; the file
    exe, runKey,      \* the running executable; the Run value
    gap,           \* history: the Run value was changed behind the file's back
    ifeo, check,   \* the replacement registration; the start-up check
    core, adv,     \* the core service; what the dialog knows and asked about it
    clicks, starts

prefVars == <<set, live, engine, handed>>
runKeyVars == <<runKey, gap>>
advVars == <<ifeo, check, core, adv>>
settingsPageVars == <<up, pageOpen, prefVars, disk, exe, runKeyVars, advVars, clicks, starts>>

Looks == {"theme", "smoothing", "zoom", "language"}
KeptOn == {"page", "render", "remember", "tray", "wifi", "graph", "elevated", "widths"}
Fields == Looks \cup KeptOn \cup {"speed", "ontop", "auto", "start"}
Paused == 2
Defaults == [f \in Fields |-> IF f = "auto" THEN 1 ELSE 0]

\* core is one of "absent", "stopped", "running" and "foreign".
Registrations == {"off", "mine", "other copy", "missing", "conflict"}

\* save_settings and save_settings_forced: the snapshot goes to the writer.
Autosaved(s) == IF s["auto"] = 1 THEN s ELSE handed
Forced(s) == s

EngineAt(speed) == [paused |-> speed = Paused, interval |-> speed]
NothingAsked == [shown |-> NoEntry, tm |-> NoEntry, box |-> NoEntry, polls |-> 0,
                 flag |-> FALSE, change |-> "none"]

SettingsPageInit ==
    /\ up = FALSE /\ pageOpen = FALSE
    /\ set = Defaults /\ live = [f \in Looks |-> 0] /\ engine = EngineAt(0)
    /\ handed = Defaults /\ disk = Defaults
    /\ exe = "portable" /\ runKey = NoEntry /\ gap = FALSE
    /\ ifeo \in {"off", "missing"} /\ check = "done" /\ core \in {"absent", "running"}
    /\ adv = NothingAsked
    /\ clicks = 0 /\ starts = 0

-----------------------------------------------------------------------------
(* The start and the end of the program.                                    *)

\* TaskManApp::new: everything the file holds is put in force.
Started(s) ==
    /\ live' = [f \in Looks |-> s[f]]
    /\ engine' = EngineAt(s["speed"])

ProgramStarts ==
    /\ ~up /\ starts < MaxStarts
    /\ starts' = starts + 1 /\ up' = TRUE /\ pageOpen' = FALSE
    /\ \E e \in {"portable", "installed"} : exe' = e
    /\ set' = disk /\ handed' = disk /\ Started(disk)
    /\ check' = "due" /\ adv' = NothingAsked
    /\ UNCHANGED <<disk, runKeyVars, ifeo, core, clicks>>

\* The process is gone and its memory with it.
Ended(file) ==
    /\ up' = FALSE /\ pageOpen' = FALSE /\ check' = "done" /\ adv' = NothingAsked
    /\ set' = file /\ live' = [f \in Looks |-> 0] /\ engine' = EngineAt(0)

\* shutdown: one more autosave, and the writer is flushed.
ProgramExits ==
    /\ up
    /\ handed' = Autosaved(set) /\ disk' = handed' /\ Ended(disk')
    /\ UNCHANGED <<exe, runKeyVars, ifeo, core, clicks, starts>>

\* What the writer had not written yet is lost.
ProgramKilled ==
    /\ up
    /\ handed' = disk /\ Ended(disk)
    /\ gap' = (gap \/ disk["start"] # set["start"])
    /\ UNCHANGED <<disk, exe, runKey, ifeo, core, clicks, starts>>

WriterWrites ==
    /\ up /\ disk # handed
    /\ disk' = handed
    /\ UNCHANGED <<up, pageOpen, prefVars, exe, runKeyVars, advVars, clicks, starts>>

\* Another program, or the user with regedit.
OthersEdit ==
    /\ clicks < MaxClicks /\ clicks' = clicks + 1
    /\ \/ /\ \E r \in {NoEntry, [exe |-> "other", hidden |-> FALSE]} : runKey' = r
          /\ runKey' # runKey /\ gap' = TRUE /\ UNCHANGED ifeo
       \/ \E i \in Registrations : ifeo' = i /\ UNCHANGED runKeyVars
    /\ UNCHANGED <<up, pageOpen, prefVars, disk, exe, check, core, adv, starts>>

-----------------------------------------------------------------------------
(* The controls.  Each one is a click in a frame in which the dialog is     *)
(* drawn.                                                                   *)

OpenSettings ==
    /\ up /\ ~pageOpen
    /\ pageOpen' = TRUE
    /\ UNCHANGED <<up, prefVars, disk, exe, runKeyVars, advVars, clicks, starts>>

Click ==
    /\ up /\ pageOpen /\ clicks < MaxClicks
    /\ clicks' = clicks + 1
    /\ UNCHANGED <<up, disk, exe, ifeo, check, core, starts>>

\* A click that sets one field and leaves everything outside the file alone.
Sets(f, v) ==
    /\ set[f] # v
    /\ set' = [set EXCEPT ![f] = v]
    /\ handed' = Autosaved(set')
    /\ UNCHANGED <<runKeyVars, pageOpen, adv>>

Applies(f) == \E v \in 0..1 : Sets(f, v) /\ live' = [live EXCEPT ![f] = v] /\ UNCHANGED engine
Keeps(f) == \E v \in 0..1 : Sets(f, v) /\ UNCHANGED <<live, engine>>

ChooseTheme == Click /\ Applies("theme")
ChooseLanguage == Click /\ Applies("language")
ChooseSmoothing == Click /\ Applies("smoothing")
ChooseZoom == Click /\ Applies("zoom")
ChooseStartPage == Click /\ Keeps("page")
ChooseRenderMode == Click /\ Keeps("render")
ChooseGraphWindow == Click /\ Keeps("graph")
ToggleRemember == Click /\ Keeps("remember")
ToggleTray == Click /\ Keeps("tray")
ToggleWifi == Click /\ Keeps("wifi")
ToggleElevated == Click /\ Keeps("elevated")
ToggleOnTop == Click /\ Keeps("ontop")
ResetWidths == Click /\ Sets("widths", 0) /\ UNCHANGED <<live, engine>>

\* Mutation: leaving the pause only sets the interval.
ChooseSpeedUnresumed ==
    /\ Click
    /\ \E v \in 0..2 :
          /\ Sets("speed", v)
          /\ engine' = IF v = Paused THEN [engine EXCEPT !.paused = TRUE] ELSE [engine EXCEPT !.interval = v]
    /\ UNCHANGED live
ChooseSpeed ==
    /\ Click
    /\ \E v \in 0..2 :
          /\ Sets("speed", v)
          /\ engine' = IF v = Paused THEN [engine EXCEPT !.paused = TRUE]
                                     ELSE [paused |-> FALSE, interval |-> v]
    /\ UNCHANGED live

ToggleAutosave ==
    /\ Click
    /\ set' = [set EXCEPT !["auto"] = 1 - @] /\ handed' = Forced(set')
    /\ UNCHANGED <<live, engine, runKeyVars, pageOpen, adv>>

\* set_enabled_for_exe: the Run value is written or deleted, or the call fails.
SetEnabled(on, ok) ==
    runKey' = IF ~ok THEN runKey ELSE IF on = 1 THEN [exe |-> exe, hidden |-> TRUE] ELSE NoEntry

ToggleStart ==
    /\ Click
    /\ \E ok \in BOOLEAN :
          /\ SetEnabled(1 - set["start"], ok)
          /\ IF ok THEN /\ set' = [set EXCEPT !["start"] = 1 - @]
                        /\ handed' = Autosaved(set')
                        /\ gap' = (gap \/ set["auto"] = 0)
                   ELSE UNCHANGED <<set, handed, gap>>
    /\ UNCHANGED <<live, engine, pageOpen, adv>>

ResetTo(ok) ==
    [Defaults EXCEPT !["auto"] = set["auto"], !["start"] = IF ok THEN 0 ELSE set["start"]]

\* Mutation: the pause survives the reset.
ResetEngineInterval == [engine EXCEPT !.interval = Defaults["speed"]]
ResetEngine == EngineAt(Defaults["speed"])

ResetAll ==
    /\ Click
    /\ \E ok \in BOOLEAN :
          /\ SetEnabled(0, ok)
          /\ set' = ResetTo(ok) /\ handed' = Forced(set')
    /\ live' = [f \in Looks |-> Defaults[f]]
    /\ engine' = ResetEngine
    /\ UNCHANGED <<gap, pageOpen, adv>>

\* Escape, Enter and the Close button force a save; the title bar's X does not.
CloseSettings ==
    /\ up /\ pageOpen
    /\ pageOpen' = FALSE
    /\ \E byX \in BOOLEAN : handed' = IF byX THEN handed ELSE Forced(set)
    /\ UNCHANGED <<up, set, live, engine, disk, exe, runKeyVars, advVars, clicks, starts>>

-----------------------------------------------------------------------------
(* The advanced section: state read by a worker, at most every 3 seconds,   *)
(* and only while the dialog is drawn.                                      *)

PollDue == ~adv.flag

PollAdvanced ==
    /\ up /\ pageOpen
    /\ LET taken == adv.box # NoEntry
           taken1 == IF taken THEN [adv EXCEPT !.shown = adv.box.core, !.tm = adv.box.tm,
                                              !.box = NoEntry, !.flag = FALSE] ELSE adv
       IN  \/ /\ taken /\ adv' = taken1
           \/ /\ PollDue /\ ~taken /\ adv.polls < 2
              /\ adv' = [taken1 EXCEPT !.polls = @ + 1, !.flag = TRUE]
    /\ UNCHANGED <<up, pageOpen, prefVars, disk, exe, runKeyVars, ifeo, check, core, clicks, starts>>

PollAnswers ==
    /\ up /\ adv.polls > 0
    /\ adv' = [adv EXCEPT !.polls = @ - 1, !.box = [core |-> core, tm |-> ifeo]]
    /\ UNCHANGED <<up, pageOpen, prefVars, disk, exe, runKeyVars, ifeo, check, core, clicks, starts>>

\* The button is enabled by the state shown and by no change being under way.
CoreButton ==
    /\ Click
    /\ adv.shown # NoEntry /\ adv.change = "none"
    /\ \/ adv.shown \in {"absent", "stopped"} /\ adv' = [adv EXCEPT !.change = "install"]
       \/ adv.shown = "running" /\ adv' = [adv EXCEPT !.change = "remove"]
       \/ adv.shown = "foreign" /\ \E c \in {"switch", "repair"} : adv' = [adv EXCEPT !.change = c]
    /\ UNCHANGED <<prefVars, runKeyVars, pageOpen>>

\* retarget_if_registered: only an entry this program wrote is moved.
Retargeted ==
    IF runKey = NoEntry THEN runKey
    ELSE IF runKey.exe \in {exe, "installed"} THEN [runKey EXCEPT !.exe = "installed"] ELSE runKey

\* The worker's end: installed, removed, handed over, or failed.
CoreChanged ==
    /\ up /\ adv.change # "none"
    /\ \/ /\ adv' = [adv EXCEPT !.change = "none"]
          /\ \/ UNCHANGED <<core, runKey>>
             \/ /\ adv.change = "install" /\ runKey' = Retargeted
                /\ core' = IF exe = "installed" THEN "running" ELSE "foreign"
             \/ adv.change = "remove" /\ core' = "absent" /\ UNCHANGED runKey
          /\ UNCHANGED <<up, pageOpen, prefVars, disk, check>>
       \/ /\ adv.change \in {"switch", "repair"}
          /\ runKey' = IF adv.change = "repair" THEN Retargeted ELSE runKey
          /\ handed' = Autosaved(set) /\ disk' = handed' /\ Ended(disk')
          /\ UNCHANGED core
    /\ UNCHANGED <<exe, gap, ifeo, clicks, starts>>

\* The checkbox asks for what it shows; its helper may be declined.
ToggleReplacement ==
    /\ up /\ pageOpen /\ clicks < MaxClicks /\ clicks' = clicks + 1
    /\ adv.tm # NoEntry
    /\ \E ok \in BOOLEAN :
          ifeo' = IF ~ok THEN ifeo
                  ELSE IF adv.tm \in {"mine", "other copy", "missing"}
                         THEN (IF ifeo = "conflict" THEN ifeo ELSE "off")
                         ELSE (IF ifeo = "conflict" THEN ifeo ELSE "mine")
    /\ UNCHANGED <<up, pageOpen, prefVars, disk, exe, runKeyVars, check, core, adv, starts>>

RepairReplacement ==
    /\ up /\ pageOpen /\ clicks < MaxClicks /\ clicks' = clicks + 1
    /\ adv.tm \in {"other copy", "missing"}
    /\ \E ok \in BOOLEAN : ifeo' = IF ok /\ ifeo # "conflict" THEN "mine" ELSE ifeo
    /\ UNCHANGED <<up, pageOpen, prefVars, disk, exe, runKeyVars, check, core, adv, starts>>

\* check_task_manager_replacement, once per start on a thread of its own:
\* read the registration, and repair it if its target is missing.
CheckReads ==
    /\ up /\ check = "due"
    /\ check' = IF ifeo = "missing" THEN "repair" ELSE "done"
    /\ UNCHANGED <<up, pageOpen, prefVars, disk, exe, runKeyVars, ifeo, core, adv, clicks, starts>>

\* Only a reachable service can repair without a prompt.
CheckRepairs ==
    /\ up /\ check = "repair"
    /\ check' = "done"
    /\ ifeo' = IF core = "running" /\ ifeo # "conflict" THEN "mine" ELSE ifeo
    /\ UNCHANGED <<up, pageOpen, prefVars, disk, exe, runKeyVars, core, adv, clicks, starts>>

Controls ==
    \/ ChooseTheme \/ ChooseSpeed \/ ChooseLanguage \/ ChooseStartPage \/ ChooseSmoothing
    \/ ChooseRenderMode \/ ToggleOnTop \/ ToggleAutosave \/ ToggleRemember \/ ToggleTray
    \/ ToggleStart \/ ToggleWifi \/ ChooseGraphWindow \/ ChooseZoom \/ ToggleElevated
    \/ ResetWidths \/ ResetAll \/ CoreButton \/ ToggleReplacement \/ RepairReplacement

SettingsPageNext ==
    \/ ProgramStarts \/ ProgramExits \/ ProgramKilled \/ WriterWrites \/ OthersEdit
    \/ OpenSettings \/ Controls \/ CloseSettings
    \/ PollAdvanced \/ PollAnswers \/ CoreChanged \/ CheckReads \/ CheckRepairs

SettingsPageSpec == SettingsPageInit /\ [][SettingsPageNext]_settingsPageVars

-----------------------------------------------------------------------------
(* Properties.                                                              *)

\* Whatever was chosen, reset or loaded at a start, the theme, the fonts, the
\* scale, the language and the engine's pause and interval are the ones the
\* dialog shows as chosen (settings_dialog, TaskManApp::new).
InForceAsShown ==
    up => /\ \A f \in Looks : live[f] = set[f]
          /\ engine.paused <=> (set["speed"] = Paused)
          /\ ~engine.paused => engine.interval = set["speed"]

\* The autosave switch itself is never forgotten, and while it is on, every
\* choice has reached the writer: a restart shows what the user left.
ChoicesKept ==
    /\ up => handed["auto"] = set["auto"]
    /\ up /\ set["auto"] = 1 => handed = set

\* "The registry is authoritative for autostart": as long as nobody else edits
\* the Run value, autosave was on when the switch was used and no kill came
\* before the writer, the checkbox tells whether the entry exists.
AutostartShown ==
    up /\ ~gap => (set["start"] = 1 <=> (runKey # NoEntry /\ (runKey # NoEntry => runKey.hidden)))

\* The advanced state is read by one worker at a time, however often the
\* dialog is drawn, closed and opened (poll_advanced_state).
OnePoll == adv.polls <= 1

\* The page, the file, the registry and what is in force agree: what a control shows is
\* what the program does, a choice survives the restart if it was saved, the logon
\* checkbox follows the Run value, and one worker at a time reads the advanced state.
SettingsHonest ==
  /\ InForceAsShown /\ ChoicesKept /\ AutostartShown /\ OnePoll

=============================================================================
