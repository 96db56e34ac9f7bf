------------------------------ MODULE EngineUi ------------------------------
(***************************************************************************)
(* The UI thread of crates/tm-app/src/app.rs driving the sampling engine.  *)
(* A frame is a logic pass, which runs for a hidden window too, and, only  *)
(* while the window is on screen, a ui pass. The engine is told what the   *)
(* window shows: telemetry demand, background mode, interval and pause.    *)
(* todo holds the engine calls of the pass that is running: the engine may *)
(* act between any two of them.                                            *)
(***************************************************************************)
EXTENDS Engine

CONSTANTS
    HiddenDemand,    \* TelemetryDemand::hidden()
    HiddenInterval,  \* HIDDEN_INTERVAL
    Speeds,          \* update speeds, each known by its UpdateSpeed::interval
    Paused           \* UpdateSpeed::Paused

ASSUME UiAssumption ==
    /\ HiddenDemand \in Demands
    /\ HiddenInterval \in Intervals
    /\ Speeds \subseteq Intervals /\ Paused \in Speeds
    /\ Backgrounds = BOOLEAN

VARIABLES
    onScreen,    \* the window is neither hidden, minimized nor occluded
    pass,        \* the pass that runs next: "logic" or "ui"
    todo,        \* engine calls the current pass still has to make
    speed,       \* settings.update_speed
    shown,       \* the demand of the page on screen (demand_for of the tab)
    painted,     \* painted_last_frame
    visible,     \* surface_visible
    lastDemand,  \* last_demand_bits
    started,     \* engine_started
    seen         \* history.last() is the latest snapshot

uiVars == <<onScreen, pass, todo, speed, shown, painted, visible, lastDemand, started, seen>>
allVars == <<vars, uiVars>>

PageDemands == Demands \ {HiddenDemand}

\* Paused is not an interval of its own choosing: the pause command outranks it.
IntervalFor(vis) == IF vis THEN speed ELSE HiddenInterval

-----------------------------------------------------------------------------
(* The logic pass.                                                          *)

\* sync_surface_visibility: calls made when the surface came or went.
VisibilityCalls ==
    IF painted = visible THEN <<>>
    ELSE <<[op |-> "SetBackground", arg |-> ~painted]>>
         \o (IF speed # Paused THEN <<[op |-> "SetInterval", arg |-> IntervalFor(painted)]>> ELSE <<>>)
         \o (IF painted THEN <<[op |-> "Refresh"]>> ELSE <<>>)

\* update_demand: the demand is shipped when it differs from the last one.
DemandFor(vis) == IF vis THEN shown ELSE HiddenDemand
DemandCalls ==
    IF DemandFor(painted) = lastDemand THEN <<>>
    ELSE <<[op |-> "SetDemand", arg |-> DemandFor(painted)]>>

\* Mutation: the proof of a painted frame is not consumed.
LogicKeepsPainted ==
    /\ pass = "logic" /\ todo = <<>> /\ wake
    /\ wake' = FALSE /\ seen' = TRUE
    /\ visible' = painted
    /\ lastDemand' = DemandFor(painted)
    /\ todo' = VisibilityCalls \o DemandCalls
    /\ pass' = IF onScreen THEN "ui" ELSE "logic"
    /\ UNCHANGED <<queue, state, latest, interval, threadVars, clientVars, selfPaused,
                   onScreen, speed, shown, painted, started>>
Logic ==
    /\ pass = "logic" /\ todo = <<>> /\ wake
    /\ wake' = FALSE
    /\ seen' = TRUE                     \* poll_engine
    /\ visible' = painted
    /\ painted' = FALSE
    /\ lastDemand' = DemandFor(painted)
    /\ todo' = VisibilityCalls \o DemandCalls
    /\ pass' = IF onScreen THEN "ui" ELSE "logic"
    /\ UNCHANGED <<queue, state, latest, interval, threadVars, clientVars, selfPaused,
                   onScreen, speed, shown, started>>

-----------------------------------------------------------------------------
(* The ui pass.                                                             *)

\* The settings page: a speed other than Paused resumes and sets the interval.
SpeedCalls(s) ==
    IF s = Paused THEN <<[op |-> "Pause"]>>
    ELSE <<[op |-> "Resume"], [op |-> "SetInterval", arg |-> s]>>

\* The engine is started at the end of the first painted frame.
StartCalls == IF started THEN <<>> ELSE <<[op |-> "Start"]>>

\* ui asks for one more frame when logic has not yet seen the surface as
\* visible; a click makes egui run another frame in any case.
UiPass(calls, clicked) ==
    /\ pass = "ui" /\ todo = <<>>
    /\ painted' = TRUE
    /\ wake' = (wake \/ ~visible \/ clicked)
    /\ todo' = calls \o StartCalls
    /\ started' = TRUE
    /\ pass' = "logic"
    /\ UNCHANGED <<queue, state, latest, interval, threadVars, clientVars, selfPaused,
                   onScreen, visible, lastDemand, seen>>

UiIdle == UiPass(<<>>, FALSE) /\ UNCHANGED <<speed, shown>>
UiSpeed(s) == UiPass(SpeedCalls(s), TRUE) /\ speed' = s /\ UNCHANGED shown
UiPage(d) == UiPass(<<>>, TRUE) /\ shown' = d /\ UNCHANGED speed
UiRefresh == "F5" \in Methods /\ UiPass(<<[op |-> "Refresh"]>>, TRUE) /\ UNCHANGED <<speed, shown>>

\* The next engine call of the pass; set_interval takes two steps.
UiCall ==
    /\ todo # <<>>
    /\ LET c == Head(todo) IN
       \/ c.op = "SetDemand" /\ SetDemand(c.arg) /\ todo' = Tail(todo)
       \/ c.op = "SetBackground" /\ SetBackground(c.arg) /\ todo' = Tail(todo)
       \/ c.op = "SetInterval" /\ WriteInterval(c.arg) /\ UNCHANGED todo
       \/ c.op = "SetInterval" /\ SendInterval /\ todo' = Tail(todo)
       \/ c.op \in {"Pause", "Resume"} /\ SetSpeedPaused(c.op = "Pause") /\ todo' = Tail(todo)
       \/ c.op = "Refresh" /\ RequestRefresh /\ todo' = Tail(todo)
       \/ c.op = "Start" /\ SendStart /\ todo' = Tail(todo)
    /\ UNCHANGED <<onScreen, pass, speed, shown, painted, visible, lastDemand, started, seen>>

\* The desktop shows or hides the window; showing it makes it paint.
ShowWindow ==
    /\ ~onScreen
    /\ onScreen' = TRUE
    /\ wake' = TRUE
    /\ UNCHANGED <<queue, state, latest, interval, threadVars, clientVars, selfPaused,
                   pass, todo, speed, shown, painted, visible, lastDemand, started, seen>>
HideWindow ==
    /\ onScreen /\ pass = "logic"
    /\ onScreen' = FALSE
    /\ UNCHANGED <<vars, pass, todo, speed, shown, painted, visible, lastDemand, started, seen>>

\* A step of the engine thread, as the UI can observe it: a publication makes
\* the last point pulled stale.
UiEngineStep ==
    /\ EngineStep
    /\ seen' = (seen /\ pc' # "published")
    /\ UNCHANGED <<onScreen, pass, todo, speed, shown, painted, visible, lastDemand, started>>

UiInit ==
    /\ Init /\ wake = TRUE /\ pc = "parked"
    /\ onScreen \in BOOLEAN
    /\ pass = "logic"
    /\ speed \in Speeds /\ interval = speed
    /\ todo = IF speed = Paused THEN <<[op |-> "Pause"]>> ELSE <<>>
    /\ shown \in PageDemands
    /\ painted = TRUE /\ visible = TRUE /\ lastDemand = None
    /\ started = FALSE /\ seen = TRUE

UiThread ==
    \/ Logic \/ UiIdle \/ UiRefresh \/ UiCall
    \/ \E s \in Speeds : UiSpeed(s)
    \/ \E d \in PageDemands : UiPage(d)

UiNext ==
    \/ UiThread \/ UiEngineStep \/ ShowWindow \/ HideWindow
    \/ TimePasses /\ UNCHANGED uiVars

UiSpec == UiInit /\ [][UiNext]_allVars

\* Both threads are scheduled, time passes, and the collector succeeds again
\* and again (SF on Publish): a sample that fails wakes nobody.
UiLiveSpec ==
    /\ UiSpec
    /\ WF_allVars(UiThread) /\ WF_allVars(UiEngineStep)
    /\ WF_allVars(TimePasses /\ UNCHANGED uiVars)
    /\ SF_allVars(Publish /\ UiEngineStep)

-----------------------------------------------------------------------------
\* Type invariant: the UI thread's state, next to the engine's.
UiTyped ==
    /\ pass \in {"logic", "ui"} /\ todo \in Seq(EngineCmd)
    /\ speed \in Speeds /\ shown \in PageDemands
    /\ lastDemand \in Demands \cup {None}
    /\ onScreen \in BOOLEAN /\ painted \in BOOLEAN /\ visible \in BOOLEAN
    /\ started \in BOOLEAN /\ seen \in BOOLEAN
UiTypeOK == TypeOK /\ UiTyped

\* Every call made and every command handled; ui has not painted a frame that
\* logic still has to learn about.
Settled ==
    /\ todo = <<>> /\ queue = <<>> /\ pc \in {"top", "wait"} /\ ~selfPaused
    /\ painted => visible

\* However showing, hiding, page changes and speed changes interleave with the
\* engine thread, once both are settled the engine samples exactly as the
\* window's state asks: the page's demand, the background class, the pause and
\* the interval. A paused engine is left alone by the window coming and going.
\* (sync_surface_visibility, update_demand, the speed buttons, run_loop.)
EngineMatchesWindow ==
    Settled =>
        /\ collector.demand = lastDemand
        /\ collector.background \in {~visible} \cup (IF visible THEN {None} ELSE {})
        /\ (state = "Paused") = (speed = Paused)
        /\ speed # Paused => interval = IntervalFor(visible)

\* The notifier never loses a publication: a snapshot the UI has not pulled has
\* a repaint pending, or the engine is about to ask for one. (sample_and_publish
\* stores before it notifies; poll_engine runs on every frame.)
NoMissedPublication == ~seen => wake \/ pc = "published"

\* A window that stays hidden while the engine runs releases its providers: the
\* collector ends up with the hidden demand, in the background, on the hidden
\* interval.
HiddenReleasesProviders ==
    <>[](~onScreen /\ started /\ speed # Paused /\ ~selfPaused)
        => <>[](/\ collector.demand = HiddenDemand
                /\ collector.background = TRUE
                /\ interval = HiddenInterval)

\* A window that stays on screen gets back the demand of its page and the
\* foreground class, in both modes of the engine.
ShownRestoresProviders ==
    <>[]onScreen => []<>(collector.demand # HiddenDemand /\ collector.background # TRUE)

\* sync_surface_visibility's comment: "on the way back in it restores all three
\* and forces one immediate sample": the sample the restored window asks for is
\* taken with the restored demand.
RestoredSampleHasDemand ==
    [][(pc = "wait" /\ pc' = "sampling" /\ reason' = "refresh" /\ visible)
          => collector.demand # HiddenDemand]_allVars

\* The engine follows the window: once both are settled it samples what the window
\* asks for, and no publication is missed by a frame. (app.rs, engine.rs)
WindowFollowed == []UiTypeOK /\ []EngineMatchesWindow /\ []NoMissedPublication

\* All of that, and a window that stays hidden releases the providers of its page and
\* one that stays on screen gets them back.
WindowHonoured == WindowFollowed /\ HiddenReleasesProviders /\ ShownRestoresProviders
=============================================================================
