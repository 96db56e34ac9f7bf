------------------------------- MODULE Shell --------------------------------
(***************************************************************************)
(* The native shell around the application window                          *)
(* (crates/tm-app/src/main.rs, NativeApp and TrayShell): show and exit     *)
(* requests from other threads, the cloaked restore, starting hidden,      *)
(* closing to the notification area, and the tray thread that owns the     *)
(* icon.  A frame is logic, then (only for a window on screen) ui; the     *)
(* viewport commands it sent are applied when it ends.                     *)
(***************************************************************************)
EXTENDS Naturals

CONSTANT MaxEvents    \* bound: requests, clicks and changes of the setting

ASSUME ShellAssumption == MaxEvents \in Nat

VARIABLES
    action,                  \* TRAY_ACTION
    w,                       \* NativeApp, and the commands of the frame in progress
    frame,                   \* where the UI thread is in its frame
    visible, cloaked,        \* the window as Windows has it
    closeReq, over,          \* egui's close_requested; the application has exited
    closeToTray, stimuli,     \* settings.close_to_tray; bound
    exitAsked,               \* observation: an exit was asked for
    tray, lastVisible,       \* NativeApp::tray; TrayShell::visible
    thread, desired, tid,    \* the tray thread; TRAY_DESIRED_VISIBLE; TRAY_THREAD_ID # 0
    mail, icon               \* messages of the tray thread; the icon as shown
winVars == <<action, w, frame, visible, cloaked, closeReq, over, closeToTray, stimuli, exitAsked>>
trayVars == <<tray, lastVisible, thread, desired, tid, mail, icon>>
shellVars == <<winVars, trayVars>>

OPEN == 1
EXIT == 2
Larger(a, b) == IF a > b THEN a ELSE b

-----------------------------------------------------------------------------
(* The tray thread, and the UI thread's side of it. *)

\* tray_thread_main: the icon is created, or cannot be; the thread publishes
\* itself and then reads what the icon should be.
TrayStarts ==
    \/ thread = "starting" /\ thread' = "published" /\ tid' = TRUE /\ UNCHANGED icon
    \/ thread = "starting" /\ thread' = "failed" /\ UNCHANGED <<tid, icon>>
    \/ thread = "published" /\ thread' = "running" /\ icon' = desired /\ UNCHANGED tid
TrayBuilds == TrayStarts /\ UNCHANGED <<tray, lastVisible, desired, mail, winVars>>
TrayMessage ==
    /\ thread = "running" /\ mail # "none" /\ mail' = "none"
    /\ IF mail = "quit" THEN thread' = "ended" /\ icon' = FALSE /\ tid' = FALSE
                        ELSE icon' = desired /\ UNCHANGED <<thread, tid>>
    /\ UNCHANGED <<tray, lastVisible, desired, winVars>>

\* TrayShell::new; the spawn may fail, and is not tried again.
NewTray(v) ==
    /\ desired' = v
    /\ \/ tray' = "some" /\ lastVisible' = v /\ thread' = "starting"
       \/ tray' = "none" /\ UNCHANGED <<lastVisible, thread>>
    /\ UNCHANGED <<tid, mail, icon>>

-----------------------------------------------------------------------------
(* What a frame does to the window's state. *)

\* finish_restore, before the tray actions; another frame is asked for until
\* the window is revealed.
FinishRestore(s) ==
    IF s.owed = 0 THEN s
    ELSE [s EXCEPT !.owed = @ - 1, !.cloak = s.owed > 1, !.repaint = s.owed > 1]

\* restore_window: shown, cloaked for two frames if it was hidden, and
\* acknowledged.
Restore(s) ==
    [s EXCEPT !.hidden = FALSE, !.pending = FALSE, !.want = "show", !.repaint = TRUE,
              !.asked = FALSE, !.cloak = @ \/ s.hidden, !.owed = IF s.hidden THEN 2 ELSE @]

\* handle_tray_actions.
Handle(s) ==
    IF action = OPEN THEN Restore(s)
    ELSE IF action = EXIT THEN [s EXCEPT !.exit = TRUE, !.hidden = FALSE, !.close = TRUE]
    ELSE s

\* Mutation: hidden whether there is a tray to come back from or not.
InitialHideAlways(s) == IF s.pending THEN [s EXCEPT !.pending = FALSE, !.want = "hide"] ELSE s
\* The first frame of a start in the tray hides the window, if there is a tray.
InitialHide(s) ==
    IF ~s.pending THEN s
    ELSE IF tray = "some" THEN [s EXCEPT !.pending = FALSE, !.want = "hide"]
    ELSE [s EXCEPT !.pending = FALSE, !.hidden = FALSE, !.want = "show"]

\* The frame ends: its commands are applied, and a close request that was not
\* cancelled ends the application.
FrameEnds(s, cancelled) ==
    /\ frame' = "idle"
    /\ visible' = IF s.want = "none" THEN visible ELSE s.want = "show"
    /\ cloaked' = s.cloak
    /\ over' = (closeReq /\ ~cancelled)
    /\ closeReq' = s.close
    /\ w' = [s EXCEPT !.want = "none", !.close = FALSE, !.repaint = @ \/ s.close]

\* NativeApp::logic.
Logic ==
    /\ frame = "idle" /\ ~over /\ (w.repaint \/ closeReq)
    /\ LET s == InitialHide(Handle(FinishRestore([w EXCEPT !.repaint = FALSE]))) IN
         IF visible
         THEN w' = s /\ frame' = "ui" /\ cloaked' = s.cloak /\ UNCHANGED <<visible, closeReq, over>>
         ELSE FrameEnds(s, FALSE)
    /\ action' = 0
    /\ UNCHANGED <<closeToTray, stimuli, exitAsked, trayVars>>

\* The close button hides a window that lives on in the tray.
KeepInTray(s) == closeReq /\ ~s.exit /\ closeToTray /\ tray = "some"
\* NativeApp::ui: tray actions again, the tray as the settings want it (its
\* visibility stored before the thread id is read), and the close request.
WindowThread ==
    /\ frame = "ui" /\ action' = 0
    /\ LET s == Handle(w)
           wanted == closeToTray \/ s.hidden
           kept == KeepInTray(s)
       IN /\ IF wanted /\ tray = "untried" THEN NewTray(TRUE)
             ELSE IF tray = "some" /\ lastVisible # wanted
             THEN lastVisible' = wanted /\ desired' = wanted /\ UNCHANGED <<tray, thread, tid, mail, icon>>
             ELSE UNCHANGED trayVars
          /\ w' = [s EXCEPT !.hidden = @ \/ kept, !.want = IF kept THEN "hide" ELSE @,
                            !.tell = tray = "some" /\ lastVisible # wanted]
          /\ frame' = IF kept THEN "kept" ELSE "post"
    /\ UNCHANGED <<visible, cloaked, closeReq, over, closeToTray, stimuli, exitAsked>>
\* TrayShell::set_visible reads the thread id and posts; then the frame ends.
UiPosts ==
    /\ frame \in {"post", "kept"}
    /\ mail' = IF w.tell /\ tid THEN "apply" ELSE mail
    /\ FrameEnds(w, frame = "kept")
    /\ UNCHANGED <<action, closeToTray, stimuli, exitAsked, tray, lastVisible, thread, desired, tid, icon>>

\* NativeApp::shutdown, TrayShell::shutdown.
Exits ==
    /\ over /\ frame = "idle" /\ frame' = "exited"
    /\ desired' = FALSE /\ lastVisible' = FALSE /\ tid' = FALSE
    /\ mail' = IF tid THEN "quit" ELSE mail
    /\ visible' = FALSE
    /\ UNCHANGED <<action, w, cloaked, closeReq, over, closeToTray, stimuli, exitAsked, tray, thread, icon>>

-----------------------------------------------------------------------------
(* Other threads and the user. *)

Event == ~over /\ stimuli < MaxEvents /\ stimuli' = stimuli + 1
\* signal_tray: fetch_max, from the tray, a launch or the hotkey worker.
Raised(a) == Larger(action, a)
Signal(a) ==
    /\ Event
    /\ action' = Raised(a)
    /\ w' = [w EXCEPT !.repaint = TRUE, !.asked = @ \/ a = OPEN]
    /\ exitAsked' = (exitAsked \/ a = EXIT)
    /\ UNCHANGED <<frame, visible, cloaked, closeReq, over, closeToTray, trayVars>>
UserCloses ==
    /\ Event /\ visible /\ closeReq' = TRUE
    /\ frame = "idle"
    /\ UNCHANGED <<action, w, frame, visible, cloaked, over, closeToTray, exitAsked, trayVars>>
UserTogglesTray ==
    /\ Event /\ visible /\ frame = "idle"
    /\ closeToTray' = ~closeToTray /\ w' = [w EXCEPT !.repaint = TRUE]
    /\ UNCHANGED <<action, frame, visible, cloaked, closeReq, over, exitAsked, trayVars>>

\* NativeApp::new.
ShellInit ==
    /\ action = 0 /\ frame = "idle" /\ cloaked = FALSE /\ closeReq = FALSE /\ over = FALSE
    /\ closeToTray \in BOOLEAN /\ stimuli = 0 /\ exitAsked = FALSE
    /\ \E hide \in BOOLEAN :
         /\ visible = ~hide
         /\ w = [hidden |-> hide, pending |-> hide, cloak |-> FALSE, owed |-> 0, exit |-> FALSE,
                 want |-> "none", close |-> FALSE, repaint |-> TRUE, asked |-> FALSE, tell |-> FALSE]
         /\ tray \in IF hide \/ closeToTray THEN {"some", "none"} ELSE {"untried"}
    /\ lastVisible = (tray = "some") /\ desired = (tray = "some")
    /\ thread = IF tray = "some" THEN "starting" ELSE "none"
    /\ tid = FALSE /\ mail = "none" /\ icon = FALSE

TrayThread == TrayBuilds \/ TrayMessage
UiThread == Logic \/ WindowThread \/ UiPosts \/ Exits
ShellNext ==
    \/ TrayThread \/ UiThread
    \/ \E a \in {OPEN, EXIT} : Signal(a)
    \/ UserCloses \/ UserTogglesTray

\* The event loop runs a frame that was asked for; the tray thread runs.
ShellFairness == WF_shellVars(UiThread) /\ WF_shellVars(TrayThread)

-----------------------------------------------------------------------------
\* Type invariant; the window is cloaked exactly as long as frames are owed.
ShellTypeOK ==
    /\ action \in 0..2 /\ w.owed \in 0..2 /\ w.want \in {"none", "show", "hide"}
    /\ frame \in {"idle", "ui", "post", "kept", "exited"}
    /\ tray \in {"untried", "some", "none"} /\ mail \in {"none", "apply", "quit"}
    /\ thread \in {"none", "starting", "published", "running", "failed", "ended"}
    /\ stimuli \in 0..MaxEvents /\ w.cloak = (w.owed > 0)

\* A request to open ends with the window on screen and not cloaked, unless it
\* is closed again or an exit came first: also one that meets a start into the tray, or a close.
\* (restore_window, finish_restore.)
OpenShows == w.asked ~> ((visible /\ ~cloaked) \/ over \/ w.exit \/ frame = "kept")

\* An exit chosen in the tray menu ends the application, whatever else is asked
\* for at the same time and however the close button is set.
\* (signal_tray, handle_tray_actions.)
ExitEnds == exitAsked ~> over

\* The icon is what the UI thread last wanted once no message is under way:
\* neither overlap of the thread's start with a change may lose the change.
\* (tray_thread_main, TrayShell::set_visible.)
IconFollows ==
    thread = "running" /\ mail = "none" /\ frame \in {"idle", "ui"} => icon = desired

\* A window hidden in the tray has its icon, unless the icon cannot be created.
\* (NativeApp::ui, InitialHide.)
HiddenHasIcon == (w.hidden /\ ~visible) ~> (icon \/ visible \/ over \/ thread = "failed")

\* The window and its icon: the icon follows the setting, what asks for the window
\* shows it, Exit ends the program, and a hidden window has an icon to come back from.
ShellHonest ==
  /\ []ShellTypeOK /\ []IconFollows /\ OpenShows /\ ExitEnds /\ HiddenHasIcon
=============================================================================
