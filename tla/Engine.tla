------------------------------- MODULE Engine -------------------------------
(***************************************************************************)
(* The background sampling engine of crates/tm-core/src/engine.rs: one     *)
(* thread that parks until Start, builds the collector, samples it on a    *)
(* cadence and answers the commands that handles send it over an unbounded *)
(* FIFO channel.                                                           *)
(*                                                                         *)
(* Time is kept relative to the last tick: elapsed is now - last_tick and  *)
(* dueAfter is next_due - last_tick, so that no clock grows without bound. *)
(* A snapshot is abstracted to the configuration it was sampled under.     *)
(***************************************************************************)
EXTENDS Naturals, Sequences

CONSTANTS
    Demands,      \* telemetry demand bitmasks the UI may ask for
    Intervals,    \* update intervals, in clock units
    None,         \* Option::None
    Backgrounds,  \* what set_background is called with in an instance
    Methods,      \* the commands whose handle methods are called in an instance
    MaxQueue      \* bound: commands in the channel at once

ASSUME EngineAssumption ==
    /\ Intervals \subseteq (Nat \ {0})
    /\ \E m \in Intervals : \A i \in Intervals : i <= m
    /\ None \notin Demands /\ None \notin BOOLEAN /\ None \notin Intervals
    /\ Backgrounds \subseteq BOOLEAN /\ MaxQueue \in Nat \ {0}

VARIABLES
    queue,      \* cmd_tx / cmd_rx
    connected,  \* some EngineHandle is still alive
    state,      \* Shared.state
    latest,     \* Shared.latest; tick_count, which counts its writes, is left out
    interval,   \* Shared.interval
    wake,       \* a repaint the notifier asked for and no frame has served
    pc,         \* where the engine thread is
    reason,     \* which caller of TickHealth::sample is running
    pending,    \* pending_demand, pending_background; pending_paused until honoured
    collector,  \* what the collector was last told
    elapsed,    \* now - last_tick, saturating at the longest interval
    dueAfter,   \* next_due - last_tick
    call,       \* the caller blocked in sample_now, and how it returned
    \* Observation: what handles asked for last (and an interval written but not
    \* yet sent), and whether the engine paused itself.
    want, selfPaused

sharedVars == <<state, latest, interval, wake>>
threadVars == <<pc, reason, pending, collector, elapsed, dueAfter>>
clientVars == <<connected, call, want>>
vars == <<queue, sharedVars, threadVars, clientVars, selfPaused>>

EngineState == {"NotStarted", "Starting", "Running", "Paused", "Stopped"}
EngineCmd ==
    [op : {"SetDemand"}, arg : Demands]
        \cup [op : {"SetBackground"}, arg : BOOLEAN]
        \cup [op : {"SetInterval"}, arg : Intervals]
        \cup [op : {"Start", "Pause", "Resume", "Refresh", "SampleNow", "Shutdown"}]
Config == [demand : Demands \cup {None}, background : BOOLEAN \cup {None}]
MaxInterval == CHOOSE m \in Intervals : \A i \in Intervals : i <= m

-----------------------------------------------------------------------------
(* EngineHandle: every method appends a command; a channel whose receiver is *)
(* gone drops it.                                                           *)

Post(c) == queue' = IF pc = "stopped" THEN queue ELSE Append(queue, c)
CanSend(op) == op \in Methods /\ connected /\ Len(queue) < MaxQueue
Send(c) ==
    /\ CanSend(c.op)
    /\ Post(c)
    /\ UNCHANGED <<connected, sharedVars, threadVars, selfPaused>>

SendStart == Send([op |-> "Start"]) /\ UNCHANGED <<call, want>>
SendShutdown == Send([op |-> "Shutdown"]) /\ UNCHANGED <<call, want>>
RequestRefresh == Send([op |-> "Refresh"]) /\ UNCHANGED <<call, want>>
SetDemand(d) ==
    Send([op |-> "SetDemand", arg |-> d]) /\ want' = [want EXCEPT !.demand = d] /\ UNCHANGED call
SetBackground(b) ==
    Send([op |-> "SetBackground", arg |-> b]) /\ want' = [want EXCEPT !.background = b] /\ UNCHANGED call
SetSpeedPaused(p) ==
    Send([op |-> IF p THEN "Pause" ELSE "Resume"]) /\ want' = [want EXCEPT !.paused = p] /\ UNCHANGED call

\* set_interval writes the shared interval first and sends the command after:
\* the engine may run in between. Only the UI thread calls it.
WriteInterval(i) ==
    /\ CanSend("SetInterval") /\ want.sending = None
    /\ interval' = i
    /\ want' = [want EXCEPT !.interval = i, !.sending = i]
    /\ UNCHANGED <<queue, connected, state, latest, wake, threadVars, call, selfPaused>>
SendInterval ==
    /\ want.sending # None
    /\ Post([op |-> "SetInterval", arg |-> want.sending])
    /\ want' = [want EXCEPT !.sending = None]
    /\ UNCHANGED <<connected, sharedVars, threadVars, call, selfPaused>>

Queued(ops) == {i \in 1..Len(queue) : queue[i].op \in ops}

\* The caller blocks until the reply, the loss of the reply sender, or 10 s.
\* One caller at a time; a late reply goes to a receiver that is gone.
SampleNow ==
    /\ call # "waiting" /\ Queued({"SampleNow"}) = {} /\ reason # "sampleNow"
    /\ Send([op |-> "SampleNow"])
    /\ call' = IF pc = "stopped" THEN "none" ELSE "waiting"
    /\ UNCHANGED want
SampleNowTimeout ==
    /\ call = "waiting"
    /\ call' = "timedOut"
    /\ UNCHANGED <<queue, connected, sharedVars, threadVars, want, selfPaused>>

\* The last handle is dropped, never in the middle of a call.
DropHandle ==
    /\ connected /\ want.sending = None /\ call # "waiting"
    /\ connected' = FALSE
    /\ UNCHANGED <<queue, sharedVars, threadVars, call, want, selfPaused>>

-----------------------------------------------------------------------------
(* The engine thread, run_loop.                                             *)

\* The thread returns: the receiver and what is still queued are dropped, and
\* a dropped reply sender makes sample_now return None.
Stop ==
    /\ state' = "Stopped"
    /\ pc' = "stopped"
    /\ queue' = <<>>
    /\ call' = IF call = "waiting" THEN "none" ELSE call
    /\ UNCHANGED <<connected, latest, interval, reason, pending, collector,
                   elapsed, dueAfter, want, selfPaused>>

\* Mutation: the parked loop drops configuration that arrives before Start.
ParkedCmdForgets ==
    /\ pc = "parked" /\ queue # <<>> /\ Head(queue).op # "Shutdown"
    /\ queue' = Tail(queue)
    /\ pc' = IF Head(queue).op = "Start" THEN "boot" ELSE "parked"
    /\ UNCHANGED <<sharedVars, reason, pending, collector, elapsed, dueAfter, clientVars, selfPaused>>

\* The parked loop remembers configuration, applies an interval at once, and
\* drops what asks for a sample.
ParkedCmd ==
    /\ pc = "parked" /\ queue # <<>> /\ Head(queue).op # "Shutdown"
    /\ queue' = Tail(queue)
    /\ LET c == Head(queue) IN
       /\ pc' = IF c.op = "Start" THEN "boot" ELSE "parked"
       /\ pending' = CASE c.op = "SetDemand" -> [pending EXCEPT !.demand = c.arg]
                       [] c.op = "SetBackground" -> [pending EXCEPT !.background = c.arg]
                       [] c.op \in {"Pause", "Resume"} -> [pending EXCEPT !.paused = (c.op = "Pause")]
                       [] OTHER -> pending
       /\ interval' = IF c.op = "SetInterval" THEN c.arg ELSE interval
       /\ call' = IF c.op = "SampleNow" /\ call = "waiting" THEN "none" ELSE call
    /\ UNCHANGED <<connected, state, latest, wake, reason, collector, elapsed,
                   dueAfter, want, selfPaused>>

\* Shutdown while parked notifies; the loss of every handle does not.
ParkedStop ==
    /\ pc = "parked"
    /\ \/ queue # <<>> /\ Head(queue).op = "Shutdown" /\ wake' = TRUE
       \/ queue = <<>> /\ ~connected /\ UNCHANGED wake
    /\ Stop

\* TickHealth::sample is entered with last_tick = now.
BeginSample(why) == pc' = "sampling" /\ reason' = why /\ elapsed' = 0

\* The factory returned: apply what was remembered, publish Running, and take
\* one sample first if the engine was paused before it started.
Boot ==
    /\ pc = "boot"
    /\ collector' = [demand |-> pending.demand, background |-> pending.background]
    /\ pending' = [pending EXCEPT !.demand = None, !.background = None]
    /\ state' = "Running"
    /\ wake' = TRUE
    /\ \/ pending.paused /\ BeginSample("startPaused")
       \/ ~pending.paused /\ pc' = "top" /\ elapsed' = 0 /\ UNCHANGED reason
    /\ dueAfter' = 0
    /\ UNCHANGED <<queue, latest, interval, clientVars, selfPaused>>

\* sample_and_publish stores the snapshot; the notification comes after.
Publish ==
    /\ pc = "sampling"
    /\ latest' = collector
    /\ pc' = "published"
    /\ UNCHANGED <<queue, state, interval, wake, reason, pending, collector,
                   elapsed, dueAfter, clientVars, selfPaused>>

\* What the caller of TickHealth::sample goes on to do: a paused start honours
\* the pause, SampleNow replies if there is a snapshot, and all but the paused
\* start set the next deadline from the interval of this moment.
AfterSample(published, stateNow, wakeNow) ==
    /\ state' = IF pending.paused THEN "Paused" ELSE stateNow
    /\ wake' = (wakeNow \/ pending.paused)
    /\ pending' = [pending EXCEPT !.paused = FALSE]
    /\ dueAfter' = IF pending.paused THEN 0 ELSE interval
    /\ elapsed' = IF pending.paused THEN 0 ELSE elapsed
    /\ pc' = IF reason = "cadence" THEN "wait" ELSE "top"
    /\ reason' = None
    /\ call' = IF reason = "sampleNow" /\ call = "waiting"
                 THEN IF published THEN "answered" ELSE "none"
                 ELSE call
    /\ UNCHANGED <<queue, connected, latest, interval, collector, want>>

NotifyPublished == pc = "published" /\ AfterSample(TRUE, state, TRUE) /\ UNCHANGED selfPaused

\* TmError::Unsupported pauses the engine and notifies; any other error keeps
\* the previous snapshot (it is only logged).
SampleUnsupported == pc = "sampling" /\ AfterSample(FALSE, "Paused", TRUE) /\ selfPaused' = TRUE
SampleFailed == pc = "sampling" /\ AfterSample(FALSE, state, wake) /\ UNCHANGED selfPaused

\* Mutation: the cadence does not look at the mode.
LoopTopAlways ==
    /\ pc = "top"
    /\ IF elapsed >= dueAfter THEN BeginSample("cadence")
                              ELSE pc' = "wait" /\ UNCHANGED <<reason, elapsed>>
    /\ UNCHANGED <<queue, sharedVars, pending, collector, dueAfter, clientVars, selfPaused>>
\* The top of the loop: a tick that is due is taken, otherwise wait.
LoopTop ==
    /\ pc = "top"
    /\ IF state = "Running" /\ elapsed >= dueAfter
         THEN BeginSample("cadence")
         ELSE pc' = "wait" /\ UNCHANGED <<reason, elapsed>>
    /\ UNCHANGED <<queue, sharedVars, pending, collector, dueAfter, clientVars, selfPaused>>

\* recv_timeout ran out: at the deadline while running, after an hour otherwise.
WaitTimeout ==
    /\ pc = "wait" /\ queue = <<>> /\ connected
    /\ state = "Running" => elapsed >= dueAfter
    /\ pc' = "top"
    /\ UNCHANGED <<queue, sharedVars, reason, pending, collector, elapsed,
                   dueAfter, clientVars, selfPaused>>

\* One command is taken per pass of the loop.
Recv(op) ==
    /\ pc = "wait" /\ queue # <<>> /\ Head(queue).op = op
    /\ queue' = Tail(queue)
    /\ UNCHANGED <<latest, pending, clientVars>>

\* Mutation: the deadline keeps the old interval.
OnSetIntervalLate ==
    /\ Recv("SetInterval")
    /\ interval' = Head(queue).arg
    /\ pc' = "top"
    /\ UNCHANGED <<state, wake, reason, collector, elapsed, dueAfter, selfPaused>>
\* Mutation: the cadence restarts.
OnSetIntervalRestarts ==
    /\ Recv("SetInterval")
    /\ interval' = Head(queue).arg /\ dueAfter' = Head(queue).arg /\ elapsed' = 0
    /\ pc' = "top"
    /\ UNCHANGED <<state, wake, reason, collector, selfPaused>>
OnSetInterval ==
    /\ Recv("SetInterval")
    /\ interval' = Head(queue).arg
    /\ dueAfter' = Head(queue).arg
    /\ pc' = "top"
    /\ UNCHANGED <<state, wake, reason, collector, elapsed, selfPaused>>

OnConfig ==
    /\ \/ Recv("SetDemand") /\ collector' = [collector EXCEPT !.demand = Head(queue).arg]
       \/ Recv("SetBackground") /\ collector' = [collector EXCEPT !.background = Head(queue).arg]
    /\ pc' = "top"
    /\ UNCHANGED <<state, interval, wake, reason, elapsed, dueAfter, selfPaused>>

OnPause ==
    /\ Recv("Pause")
    /\ state' = "Paused"
    /\ wake' = TRUE
    /\ selfPaused' = FALSE
    /\ pc' = "top"
    /\ UNCHANGED <<interval, reason, collector, elapsed, dueAfter>>

\* Leaving a pause makes the next tick due now.
OnResume ==
    /\ Recv("Resume")
    /\ IF state # "Running"
         THEN state' = "Running" /\ dueAfter' = elapsed /\ wake' = TRUE
         ELSE UNCHANGED <<state, dueAfter, wake>>
    /\ selfPaused' = FALSE
    /\ pc' = "top"
    /\ UNCHANGED <<interval, reason, collector, elapsed>>

\* Refresh and SampleNow sample once in either mode; a second Start is ignored.
OnRequest ==
    /\ \/ Recv("Refresh") /\ BeginSample("refresh")
       \/ Recv("SampleNow") /\ BeginSample("sampleNow")
       \/ Recv("Start") /\ pc' = "top" /\ UNCHANGED <<reason, elapsed>>
    /\ UNCHANGED <<state, interval, wake, collector, dueAfter, selfPaused>>

\* Shutdown, or every handle gone: leave the loop, publish Stopped, notify.
LoopExit ==
    /\ pc = "wait"
    /\ \/ queue # <<>> /\ Head(queue).op = "Shutdown"
       \/ queue = <<>> /\ ~connected
    /\ Stop
    /\ wake' = TRUE

TimePasses ==
    /\ pc \in {"sampling", "published", "top", "wait"} /\ elapsed < MaxInterval
    /\ elapsed' = elapsed + 1
    /\ UNCHANGED <<queue, sharedVars, pc, reason, pending, collector, dueAfter,
                   clientVars, selfPaused>>

-----------------------------------------------------------------------------
Init ==
    /\ queue = <<>> /\ connected = TRUE
    /\ \/ pc = "parked" /\ state = "NotStarted"      \* spawn_lazy
       \/ pc = "boot" /\ state = "Starting"          \* spawn
    /\ latest = None /\ wake \in BOOLEAN /\ reason = None /\ call = "idle"
    /\ interval \in Intervals
    /\ pending = [demand |-> None, background |-> None, paused |-> FALSE]
    /\ collector = [demand |-> None, background |-> None]
    /\ elapsed = 0 /\ dueAfter = 0
    /\ want = [demand |-> None, background |-> None, paused |-> FALSE,
               interval |-> interval, sending |-> None]
    /\ selfPaused = FALSE

LoopCmd == OnSetInterval \/ OnConfig \/ OnPause \/ OnResume \/ OnRequest

EngineStep ==
    \/ ParkedCmd \/ ParkedStop \/ Boot
    \/ Publish \/ NotifyPublished \/ SampleUnsupported \/ SampleFailed
    \/ LoopTop \/ WaitTimeout \/ LoopCmd \/ LoopExit

HandleStep ==
    \/ SendStart \/ SendShutdown \/ RequestRefresh
    \/ \E d \in Demands : SetDemand(d)
    \/ \E b \in Backgrounds : SetBackground(b)
    \/ \E p \in BOOLEAN : SetSpeedPaused(p)
    \/ \E i \in Intervals : WriteInterval(i)
    \/ SendInterval \/ SampleNow \/ SampleNowTimeout \/ DropHandle

\* A frame of the UI serves the repaint request.
ServeWake ==
    /\ wake
    /\ wake' = FALSE
    /\ UNCHANGED <<queue, state, latest, interval, threadVars, clientVars, selfPaused>>

Next == EngineStep \/ HandleStep \/ TimePasses \/ ServeWake

Spec == Init /\ [][Next]_vars

\* The scheduler runs the engine thread, the collector's calls return, time
\* passes, and the thread inside set_interval gets to its send.
LiveSpec == Spec /\ WF_vars(EngineStep) /\ WF_vars(TimePasses) /\ WF_vars(SendInterval)

-----------------------------------------------------------------------------
FlagsTyped == connected \in BOOLEAN /\ wake \in BOOLEAN /\ selfPaused \in BOOLEAN
DataTyped ==
    /\ queue \in Seq(EngineCmd)
    /\ state \in EngineState
    /\ latest \in Config \cup {None}
    /\ interval \in Intervals
    /\ pc \in {"parked", "boot", "sampling", "published", "top", "wait", "stopped"}
    /\ reason \in {"startPaused", "cadence", "refresh", "sampleNow", None}
    /\ pending \in [demand : Demands \cup {None}, background : BOOLEAN \cup {None},
                    paused : BOOLEAN]
    /\ collector \in Config
    /\ elapsed \in Nat /\ dueAfter \in Nat
    /\ call \in {"idle", "waiting", "answered", "none", "timedOut"}
    /\ want \in [demand : Demands \cup {None}, background : BOOLEAN \cup {None},
                 paused : BOOLEAN, interval : Intervals, sending : Intervals \cup {None}]

\* Type invariant: what the fields of Shared and run_loop's locals may hold.
TypeOK == FlagsTyped /\ DataTyped

-----------------------------------------------------------------------------
Live == pc # "stopped"
Newest(i, ops) == i \in Queued(ops) /\ \A j \in Queued(ops) : j <= i

\* The newest queued command of a kind carries what was asked for last, and
\* once none is queued the engine holds it.
Agrees(op, held, wanted) ==
    /\ \A i \in 1..Len(queue) : Newest(i, {op}) => queue[i].arg = wanted
    /\ Queued({op}) = {} => held = wanted

HeldDemand == IF pc \in {"parked", "boot"} THEN pending.demand ELSE collector.demand
HeldBackground == IF pc \in {"parked", "boot"} THEN pending.background ELSE collector.background

\* Configuration is never lost or undone, whether it was sent before, during
\* or after the start: a demand sent while the engine is parked reaches the
\* collector (run_loop's pending_*), and the interval, which set_interval
\* writes directly while older SetInterval commands are still queued, settles
\* on the value asked for last.
NewestConfigWins ==
    Live => /\ Agrees("SetDemand", HeldDemand, want.demand)
            /\ Agrees("SetBackground", HeldBackground, want.background)
            /\ want.sending = None => Agrees("SetInterval", interval, want.interval)

\* The pause mode settles on the last Pause or Resume sent, a Pause sent
\* before Start included; only an unsupported collector pauses the engine by
\* itself. (run_loop's pending_paused, Pause and Resume arms.)
PauseHonoured ==
    (Live /\ ~selfPaused) =>
        /\ \A i \in 1..Len(queue) :
              Newest(i, {"Pause", "Resume"}) => (queue[i].op = "Pause") = want.paused
        /\ Queued({"Pause", "Resume"}) = {}
              => want.paused = (pending.paused \/ state = "Paused")

\* A running engine never sleeps past the interval asked for: once no interval
\* change is in flight, the deadline it waits for is at most one interval
\* after the last tick, or already reached. (next_due in run_loop.)
NoOversleep ==
    (/\ pc = "wait" /\ state = "Running"
     /\ want.sending = None /\ Queued({"SetInterval"}) = {})
        => dueAfter <= interval \/ dueAfter <= elapsed

\* A pause is never broken by the cadence: while paused, or asked to start
\* paused, the engine publishes only what a Refresh, a SampleNow or the paused
\* start asked for.
PausedPublishesOnRequest ==
    [][(pc = "sampling" /\ pc' = "published" /\ (state = "Paused" \/ pending.paused))
          => reason \in {"refresh", "sampleNow", "startPaused"}]_vars

\* A Shutdown that was sent is obeyed, whatever is queued before it and
\* whatever the engine is doing. (run_loop's two Shutdown arms.)
ShutdownStops == (Queued({"Shutdown"}) # {}) ~> (state = "Stopped")

\* A running engine samples again and again: no stream of configuration
\* commands pushes its deadline away for ever. (next_due in run_loop.)
RunningSamples == (state = "Running") ~> (pc = "sampling" \/ state # "Running")

\* The parked loop's comment on Refresh and SampleNow: "the first one Start
\* takes answers them". A sample_now call comes back empty only when the engine
\* stopped or a sample was attempted for it and failed.
ParkedCallsAnswered ==
    [][call = "waiting" /\ call' = "none" => pc' = "stopped" \/ pc = "sampling"]_vars

\* The pause: the mode follows the newest request, and while it lasts the cadence
\* publishes nothing.  (run_loop.)
PauseKept == []PauseHonoured /\ PausedPublishesOnRequest

\* What a caller of EngineHandle may count on over time: a running engine keeps
\* sampling whatever is sent to it, and a shutdown stops it.
EngineAnswers ==
  /\ []TypeOK /\ ShutdownStops /\ RunningSamples
=============================================================================
