----------------------------- MODULE HotkeyHook -----------------------------
(***************************************************************************)
(* The Ctrl+Shift+Esc hook (crates/tm-platform/src/win/hotkey_hook.rs):    *)
(* a keyboard callback that may swallow a press and hand it to a worker    *)
(* thread, the hook thread that installs, moves and removes the hook, the  *)
(* UI thread that shows the window, the registration that says whether     *)
(* there should be a hook at all, and the teardown of all of it.           *)
(*                                                                         *)
(* The callback runs on the hook thread while that thread waits for        *)
(* messages.  An event that passes one copy of the hook passes a second    *)
(* copy too (nothing it looks at can have turned in its favour without a   *)
(* step of another thread in between), so an event is one step whether     *)
(* one or two copies are installed.                                        *)
(***************************************************************************)
EXTENDS Naturals, Sequences, FiniteSets

CONSTANTS
    MaxChanges,   \* bound: changes of the registration
    MaxPosts      \* bound: messages waiting for the hook thread when a launch posts one

ASSUME HotkeyAssumption == MaxChanges \in Nat /\ MaxPosts \in Nat \ {0}

VARIABLES
    hooks, current, retiring,   \* installed copies; CURRENT_HOOK, RETIRING_HOOK (0: none)
    posts, tidPublished,        \* hook thread's queue; HOOK_THREAD_ID # 0
    mods, esc, appEsc,          \* Ctrl+Shift held; Escape held; Escape as applications see it
    press,                      \* what became of the events of the press being held
    consumed, tick,             \* CONSUMED_DOWN; age of LAST_DOWN_TICK
    wpc, installed, enabled,    \* worker; its `installed`; REPLACEMENT_ENABLED
    busy, trig, shown, stalled, \* WORKER_BUSY, trigger event, shown event, UI_STALLED
    registered, changes, watch, armed, regEv,   \* registration, its watch, its event
    target, req, ui, owed,      \* TARGET_WINDOW # 0; a show request; the UI thread; unanswered press
    life                        \* the handle: running, then the steps of Drop

hookVars == <<hooks, current, retiring, posts, tidPublished>>
keyVars  == <<mods, esc, appEsc, press, consumed, tick>>
flags    == <<busy, trig, shown, stalled>>
workVars == <<wpc, installed, enabled>>
regs     == <<registered, changes, watch, armed, regEv>>
uiVars   == <<target, req, ui, owed>>
hkVars   == <<hookVars, keyVars, flags, workVars, regs, uiVars, life>>

FreshCopy(hs) == CHOOSE c \in 1..3 : c \notin hs
CanPost == Len(posts) < MaxPosts

-----------------------------------------------------------------------------
(* The hook thread. *)

\* begin_move_to_front, from the copies hs and the retiring one r, with q
\* queued: the fresh copy is installed first and the old one retired by a
\* message; an installation or a post that fails leaves things as they were.
BeginMove(hs, r, q) ==
    \/ hooks' = hs /\ retiring' = r /\ posts' = q /\ UNCHANGED current
    \/ /\ current # 0 /\ r = 0
       /\ current' = FreshCopy(hs) /\ hooks' = hs \union {FreshCopy(hs)}
       /\ retiring' = current /\ posts' = Append(q, "retire")

\* set_hook(true): an installation may be refused.
SetHookOn ==
    /\ UNCHANGED <<retiring, consumed, tick>>
    /\ \/ UNCHANGED <<hooks, current>>
       \/ current = 0 /\ current' = FreshCopy(hooks) /\ hooks' = hooks \union {FreshCopy(hooks)}

\* set_hook(false).
SetHookOff ==
    IF current = 0 THEN UNCHANGED <<hooks, current, retiring, consumed, tick>>
    ELSE /\ hooks' = hooks \ {current, retiring} /\ current' = 0 /\ retiring' = 0
         /\ consumed' = FALSE /\ tick' = "zero"

HookMessage ==
    /\ posts # <<>>
    /\ LET rest == Tail(posts) IN
         CASE Head(posts) = "on"  -> SetHookOn /\ posts' = rest /\ UNCHANGED life
           [] Head(posts) = "off" -> SetHookOff /\ posts' = rest /\ UNCHANGED life
           [] Head(posts) = "retire" ->
                /\ hooks' = hooks \ {retiring} /\ retiring' = 0 /\ posts' = rest
                /\ UNCHANGED <<current, consumed, tick, life>>
           [] Head(posts) = "front" ->
                BeginMove(hooks \ {retiring}, 0, rest) /\ UNCHANGED <<consumed, tick, life>>
           \* The loop ends, the hook goes, and Drop's join returns.
           [] Head(posts) = "quit" -> SetHookOff /\ posts' = <<>> /\ life' = "joined"
    /\ UNCHANGED <<tidPublished, mods, esc, appEsc, press, flags, workVars, regs, uiVars>>

-----------------------------------------------------------------------------
(* The keyboard, and the callback. *)

Hooked == hooks # {}

\* The chord forms: the hook may move to the head of the chain.
ChordDown ==
    /\ ~mods /\ mods' = TRUE
    /\ IF Hooked /\ enabled /\ target /\ ~stalled
       THEN BeginMove(hooks, retiring, posts)
       ELSE UNCHANGED <<hooks, current, retiring, posts>>
    /\ UNCHANGED <<tidPublished, esc, appEsc, press, consumed, tick, flags, workVars, regs, uiVars, life>>

ModsUp ==
    /\ mods /\ mods' = FALSE
    /\ UNCHANGED <<hookVars, esc, appEsc, press, consumed, tick, flags, workVars, regs, uiVars, life>>

\* WORKER_RUNNING, and TRIGGER_EVENT # 0: stop_worker ends both.
WorkerRunning == life \in {"running", "closing"}
UiActive == ui = "live" /\ life = "running"
\* is_repeat_of_swallowed_press.
Repeats == consumed /\ tick = "fresh"
\* claim_worker.
Claimable == WorkerRunning /\ target /\ ~stalled /\ ~busy

\* Escape goes down, or repeats while it is held.
After(event) == IF ~esc \/ press = event THEN event ELSE "mixed"
RepeatSwallowed ==
    /\ Hooked /\ enabled /\ mods /\ Repeats
    /\ esc' = TRUE /\ press' = After("swallowed")
    /\ UNCHANGED <<hookVars, mods, appEsc, consumed, tick, flags, workVars, regs, uiVars, life>>
PressSwallowed ==
    /\ Hooked /\ enabled /\ mods /\ ~Repeats /\ Claimable
    /\ busy' = TRUE /\ trig' = TRUE
    /\ consumed' = TRUE /\ tick' = "fresh" /\ owed' = TRUE
    /\ esc' = TRUE /\ press' = After("swallowed")
    /\ UNCHANGED <<hookVars, mods, appEsc, shown, stalled, workVars, regs, target, req, ui, life>>
\* Mutation: a press that passes leaves the flags of an earlier one.
PressPassesKeepsFlags ==
    /\ ~(Hooked /\ enabled /\ mods /\ (Repeats \/ Claimable))
    /\ esc' = TRUE /\ appEsc' = TRUE /\ press' = After("passed")
    /\ UNCHANGED <<hookVars, mods, consumed, tick, flags, workVars, regs, uiVars, life>>
PressPasses ==
    /\ ~(Hooked /\ enabled /\ mods /\ (Repeats \/ Claimable))
    /\ esc' = TRUE /\ appEsc' = TRUE /\ press' = After("passed")
    /\ IF Hooked THEN consumed' = FALSE /\ tick' = "zero" ELSE UNCHANGED <<consumed, tick>>
    /\ UNCHANGED <<hookVars, mods, flags, workVars, regs, uiVars, life>>

\* The release is swallowed if it belongs to a recent swallowed press.
EscUp ==
    /\ esc /\ esc' = FALSE
    /\ appEsc' = (appEsc /\ Hooked /\ Repeats)
    /\ IF Hooked THEN consumed' = FALSE /\ tick' = "zero" ELSE UNCHANGED <<consumed, tick>>
    /\ press' = "none"
    /\ UNCHANGED <<hookVars, mods, flags, workVars, regs, uiVars, life>>
\* Another desktop took the release: no callback, and no application here.
EscUpElsewhere ==
    /\ esc /\ esc' = FALSE /\ appEsc' = FALSE /\ press' = "none"
    /\ UNCHANGED <<hookVars, mods, consumed, tick, flags, workVars, regs, uiVars, life>>
\* CONSUMED_DOWN_TTL_MS passes; auto-repeat keeps a held press fresh.
TickAges ==
    /\ tick = "fresh" /\ ~esc
    /\ tick' = "stale"
    /\ UNCHANGED <<hookVars, mods, esc, appEsc, press, consumed, flags, workVars, regs, uiVars, life>>

-----------------------------------------------------------------------------
(* The worker. *)

\* request_hook: the queue holds what is posted.
RequestHook(on) == posts' = Append(posts, IF on THEN "on" ELSE "off")
Rest == <<keyVars, flags, uiVars, life, hooks, current, retiring, tidPublished, registered, changes>>

\* sync_hook_state.
SyncReads ==
    /\ wpc = "sync"
    /\ enabled' = registered
    /\ IF registered = installed THEN UNCHANGED <<installed, posts>>
       ELSE installed' = registered /\ RequestHook(registered)
    /\ wpc' = "wait"
    /\ UNCHANGED <<Rest, watch, armed, regEv>>

\* The one-shot watch is armed again, if it can be, and then read.
WakeRegistry ==
    /\ wpc = "wait" /\ WorkerRunning
    /\ ~trig /\ regEv /\ regEv' = FALSE
    /\ armed' \in BOOLEAN /\ watch' = armed'
    /\ wpc' = "sync"
    /\ UNCHANGED <<Rest, posts, enabled, installed>>
\* Only a worker without a watch wakes on its own.
WakePoll ==
    /\ wpc = "wait" /\ WorkerRunning /\ ~armed /\ registered # installed
    /\ wpc' = "sync"
    /\ UNCHANGED <<Rest, posts, enabled, installed, watch, armed, regEv>>

\* serve_press: an old confirmation is dropped, then the UI is asked.
ServePress ==
    /\ wpc = "wait" /\ WorkerRunning
    /\ trig /\ trig' = FALSE
    /\ shown' = FALSE /\ req' = (req \/ life = "running")
    /\ wpc' = "await1"
    /\ UNCHANGED <<hookVars, keyVars, busy, stalled, installed, enabled, regs, target, ui, owed, life>>

Served(outcome) ==
    /\ wpc' = "wait" /\ busy' = FALSE
    /\ stalled' = (stalled \/ outcome = "stalled")
Kept == <<hookVars, keyVars, installed, enabled, regs, target, req, ui, life>>
\* wait_for_shown, first and extended: the confirmation, or the stop.
AwaitShown ==
    /\ wpc \in {"await1", "await2"}
    /\ \/ shown /\ shown' = FALSE /\ UNCHANGED trig
       \/ ~shown /\ trig /\ trig' = FALSE /\ UNCHANGED shown
    /\ Served("answered") /\ UNCHANGED <<Kept, owed>>
\* No confirmation in time: the window is probed, unless it is going away.
AwaitTimeout ==
    /\ wpc = "await1" /\ ~shown /\ ~trig
    /\ IF target /\ WorkerRunning
       THEN wpc' = "probe" /\ UNCHANGED <<busy, stalled>>
       ELSE Served("abandoned")
    /\ UNCHANGED <<Kept, trig, shown, owed>>
\* window_responds: it pumps messages, it does not, or the probe cannot tell.
\* Busy: the UI will get to the request.
ProbeBusy ==
    /\ wpc = "probe" /\ UiActive
    /\ Served("busy") /\ UNCHANGED <<Kept, trig, shown, owed>>
ProbeUnsure ==
    /\ wpc = "probe" /\ wpc' = "await2"
    /\ UNCHANGED <<Kept, flags, owed>>
\* Stalled: swallowing stops and a fresh task manager is started, unless the
\* hook is being torn down.
Stalled ==
    /\ (wpc = "probe" /\ ~UiActive) \/ (wpc = "await2" /\ ~shown /\ ~trig)
    /\ IF target /\ WorkerRunning
       THEN Served("stalled") /\ owed' = FALSE
       ELSE Served("abandoned") /\ UNCHANGED owed
    /\ UNCHANGED <<Kept, trig, shown>>

\* The loop ends; the hook thread is asked to let go of the hook.
WorkerEnds ==
    /\ wpc = "wait" /\ ~WorkerRunning
    /\ wpc' = "ended" /\ trig' = FALSE
    /\ IF installed THEN RequestHook(FALSE) ELSE UNCHANGED posts
    /\ UNCHANGED <<hooks, current, retiring, tidPublished, keyVars, busy, shown, stalled,
                   installed, enabled, regs, uiVars, life>>

-----------------------------------------------------------------------------
(* The registration, the UI thread and the teardown. *)

RegistrationChanges ==
    /\ changes < MaxChanges /\ changes' = changes + 1
    /\ registered' = ~registered
    /\ regEv' = (regEv \/ watch) /\ watch' = FALSE
    /\ UNCHANGED <<armed, hookVars, keyVars, flags, workVars, uiVars, life>>

\* publish_window.
UiWindow ==
    /\ UiActive /\ ~target /\ target' = TRUE
    /\ UNCHANGED <<hookVars, keyVars, flags, workVars, regs, req, ui, owed, life>>
\* acknowledge_show / notify_shown, for every show whichever path asked.
UiShows ==
    /\ UiActive /\ target
    /\ req' = FALSE /\ owed' = FALSE
    /\ stalled' = FALSE /\ shown' = TRUE
    /\ UNCHANGED <<hookVars, keyVars, busy, trig, workVars, regs, target, ui, life>>
UiHangs ==
    /\ UiActive /\ ui' = "hung"
    /\ UNCHANGED <<hookVars, keyVars, flags, workVars, regs, target, req, owed, life>>
UiRecovers ==
    /\ ui = "hung" /\ ui' = "live"
    /\ UNCHANGED <<hookVars, keyVars, flags, workVars, regs, target, req, owed, life>>

\* request_move_to_front, when a launch handed its request over.
LaunchHandsOver ==
    /\ tidPublished /\ CanPost /\ life = "running"
    /\ posts' = Append(posts, "front")
    /\ UNCHANGED <<hooks, current, retiring, tidPublished, keyVars, flags, workVars, regs, uiVars, life>>

\* Primary::drop withdraws the window, then HotkeyHook::drop takes the
\* callback and stops the worker through its trigger event.
StopBegins ==
    /\ UiActive /\ life' = "closing" /\ target' = FALSE
    /\ UNCHANGED <<hookVars, keyVars, flags, workVars, regs, req, ui, owed>>
StopWorker ==
    /\ life = "closing" /\ life' = "joinWorker"
    /\ trig' = TRUE
    /\ UNCHANGED <<hookVars, keyVars, busy, shown, stalled, workVars, regs, uiVars>>
\* The worker is joined; then the hook thread is asked to quit.
StopHookThread ==
    /\ life = "joinWorker" /\ wpc = "ended" /\ life' = "joinHook"
    /\ busy' = FALSE /\ tidPublished' = FALSE
    /\ posts' = Append(posts, "quit")
    /\ UNCHANGED <<hooks, current, retiring, keyVars, trig, shown, stalled, workVars, regs, uiVars>>
\* teardown_events, after the hook thread is joined.
Teardown ==
    /\ life = "joined" /\ life' = "closed"
    /\ consumed' = FALSE /\ tick' = "zero" /\ enabled' = FALSE
    /\ busy' = FALSE /\ stalled' = FALSE /\ trig' = FALSE /\ shown' = FALSE
    /\ UNCHANGED <<hookVars, mods, esc, appEsc, press, wpc, installed, regs, uiVars>>

-----------------------------------------------------------------------------
\* The current registration is applied before the worker waits for a change.
StartWith == "sync"
\* HotkeyHook::install: both threads are up, no hook is installed, and the
\* worker has armed its watch if it could.
HotkeyInit ==
    /\ hooks = {} /\ current = 0 /\ retiring = 0 /\ posts = <<>> /\ tidPublished = TRUE
    /\ mods = FALSE /\ esc = FALSE /\ appEsc = FALSE /\ press = "none"
    /\ consumed = FALSE /\ tick = "zero"
    /\ wpc = StartWith /\ installed = FALSE /\ enabled = FALSE
    /\ busy = FALSE /\ trig = FALSE /\ shown = FALSE /\ stalled = FALSE
    /\ registered \in BOOLEAN /\ changes = 0
    /\ armed \in BOOLEAN /\ watch = armed /\ regEv = FALSE
    /\ target = FALSE /\ req = FALSE /\ ui = "live" /\ owed = FALSE
    /\ life = "running"

Keyboard ==
    \/ ChordDown \/ ModsUp \/ RepeatSwallowed \/ PressSwallowed \/ PressPasses
    \/ EscUp \/ EscUpElsewhere \/ TickAges
Worker ==
    \/ SyncReads \/ WakeRegistry \/ WakePoll \/ ServePress
    \/ AwaitShown \/ AwaitTimeout \/ ProbeBusy \/ ProbeUnsure \/ Stalled \/ WorkerEnds
Teardowns == StopWorker \/ StopHookThread \/ Teardown
HotkeyNext ==
    \/ Keyboard \/ HookMessage \/ Worker \/ Teardowns
    \/ RegistrationChanges \/ UiWindow \/ UiShows \/ UiHangs \/ UiRecovers
    \/ LaunchHandsOver \/ StopBegins
HotkeySpec == HotkeyInit /\ [][HotkeyNext]_hkVars

-----------------------------------------------------------------------------
\* Type invariant; two copies of the hook are the most there may be.
HotkeyTypeOK ==
    /\ hooks \subseteq 1..3 /\ Cardinality(hooks) <= 2 /\ {current, retiring} \subseteq 0..3
    /\ Len(posts) <= MaxPosts + MaxChanges + 4
    /\ tick \in {"zero", "fresh", "stale"} /\ press \in {"none", "swallowed", "passed", "mixed"}
    /\ wpc \in {"sync", "wait", "await1", "probe", "await2", "ended"}
    /\ changes \in 0..MaxChanges /\ ui \in {"live", "hung"}
    /\ life \in {"running", "closing", "joinWorker", "joinHook", "joined", "closed"}

\* Every installed copy of the hook is the current one or the one about to be
\* removed, whatever the order of moves, removals and registration changes: a
\* copy nobody knows would see every key for the rest of the session.
\* (begin_move_to_front, set_hook.)
HooksAccounted == hooks = {current, retiring} \ {0} /\ (current = 0 => retiring = 0)

\* When the handles are closed no thread can use them and no hook is left.
\* (HotkeyHook::drop, teardown_events.)
NothingAfterTeardown == life = "closed" => wpc = "ended" /\ hooks = {}

\* An application that was given every event of a press is given its release
\* too. (low_level_keyboard_proc.)
PassedPressReleased == [][esc /\ ~esc' /\ press = "passed" => ~appEsc']_hkVars

\* An application that saw Escape go down sees it come up again. (The comment
\* in low_level_keyboard_proc: "This press reaches the application, so its
\* release must too".)
SeenPressReleased == [][esc /\ ~esc' => ~appEsc']_hkVars

\* A swallowed press never reached Explorer, so somebody owes the user a window:
\* the worker that serves it, or a UI that answered the probe and has the
\* request.  A UI found wedged is not enough: by then a fresh task manager was
\* started. (serve_press, claim_worker.)
PressAnswered ==
    owed /\ life = "running" =>
        trig \/ wpc \in {"await1", "probe", "await2"} \/ (req /\ ~stalled)

\* A worker that waits has seen the newest registration, unless a change of it
\* is about to wake it; a hook that stays in place is wanted.
\* (sync_hook_state, ReplacementWatch::arm.)
HookFollowsRegistration ==
    wpc = "wait" /\ armed /\ ~regEv =>
        /\ enabled = registered /\ installed = registered
        /\ posts = <<>> /\ current # 0 => registered

\* The hook through moves, removals, registration changes and teardown: every installed
\* copy is one the hook thread will take out, nothing of it outlives its owner, a press
\* that was swallowed is answered, one that was passed on is released, and the hook is
\* there when the registration is.
HookInv ==
  /\ HotkeyTypeOK /\ HooksAccounted /\ NothingAfterTeardown /\ PressAnswered
  /\ HookFollowsRegistration
HookSafe == []HookInv /\ PassedPressReleased
=============================================================================
