---------------------------- MODULE TraceSessions ----------------------------
(***************************************************************************)
(* The kernel trace sessions of the core service (crates/tm-platform/src/  *)
(* win: etw.rs, core_service.rs, net_etw.rs, disk_etw.rs, module_etw.rs,   *)
(* profile_etw.rs).  A session has a fixed name, belongs to the kernel and *)
(* outlives its process.  The service keeps one in a slot while somebody   *)
(* asks; a watchdog thread ends it when nobody does.  The network and disk *)
(* traces are replaced in place when they were stopped from outside; those *)
(* of one target (modules, code samples) are dropped and started anew,     *)
(* also for another target, each with a generation and its own watchdog.   *)
(***************************************************************************)
EXTENDS Naturals, FiniteSets, FiniteSetsExt

CONSTANTS MaxStarts,    \* bound: sessions started
          MaxFails,     \* bound: starts that fail
          MaxLives,     \* bound: processes of the service
          NoTrace

ASSUME TraceAssumption == MaxStarts \in Nat \ {0} /\ MaxFails \in Nat /\ MaxLives \in Nat \ {0}

VARIABLES
    trace,       \* the feature: "net", "disk", "target"
    kern,        \* the kernel's session of this name, 0: none
    slot,        \* [id, ended, idle, target, gen], or NoTrace
    mark,        \* LIVE_SESSIONS
    dogs,        \* watchdog threads, by generation
    unwatched,   \* the slot's watchdog could not be spawned
    started, fails, lives,   \* bounds; started also numbers the generations
    asking,      \* a page that shows the values is open
    svc,         \* up, cleaned (TraceCleanup ran), stopped, killed
    told         \* observation: the answer to the last request since a session ended
traceVars == <<trace, kern, slot, mark, dogs, unwatched, started, fails, lives, asking, svc, told>>

Gens == 0..MaxStarts
Targets == IF trace = "target" THEN {1, 2} ELSE {1}

Unmarked == FALSE
\* Session::drop: a session that ended underneath is not stopped by name.
Stopped(k, s) == IF ~s.ended /\ k = s.id THEN 0 ELSE k

\* Session::try_start, start_session: a session of the name is stopped first.
FailedStart == fails < MaxFails /\ fails' = fails + 1 /\ UNCHANGED <<started, dogs, unwatched>>
GoodStart == started < MaxStarts /\ started' = started + 1 /\ UNCHANGED fails
Fresh(t, g) == [id |-> started + 1, ended |-> FALSE, idle |-> FALSE, target |-> t, gen |-> g]
Spawns(g) ==
    \/ dogs' = [dogs EXCEPT ![g] = @ + 1] /\ unwatched' = FALSE
    \/ unwatched' = TRUE /\ UNCHANGED dogs

\* process_network_sample, process_disk_sample on a session that was stopped
\* from outside.  The new session is marked when it starts; the old one is
\* dropped after that and takes the mark with it.
MarkReplaced == Unmarked
WatchReplaced == UNCHANGED <<dogs, unwatched>>
Replace ==
    \/ /\ GoodStart /\ kern' = started + 1 /\ mark' = MarkReplaced /\ WatchReplaced
       /\ slot' = [Fresh(1, 0) EXCEPT !.idle = IF trace = "net" THEN FALSE ELSE slot.idle]
       /\ told' = IF trace = "net" THEN "active" ELSE "unknown"
    \/ FailedStart /\ kern' \in {kern, 0} /\ told' = "unknown" /\ UNCHANGED <<slot, mark>>

\* The slot is empty.
FirstGen == IF trace = "target" THEN started + 1 ELSE 0
OpenTrace(t, k, m) ==
    \/ /\ GoodStart /\ kern' = started + 1 /\ mark' = TRUE /\ Spawns(FirstGen)
       /\ slot' = Fresh(t, FirstGen)
       /\ told' = IF trace = "net" THEN "active" ELSE "unknown"
    \/ FailedStart /\ kern' \in {k, 0} /\ mark' = m /\ slot' = NoTrace /\ told' = "unknown"
\* sample_process_module_code, protected_process_modules for another target.
Retarget(t) == OpenTrace(t, Stopped(kern, slot), Unmarked)

\* is_running.
Dead == slot.ended
\* One request of a client, in a worker, under the lock of the slot.
Request(t) ==
    /\ svc \in {"up", "cleaned"} /\ asking
    /\ IF slot = NoTrace THEN OpenTrace(t, kern, mark)
       ELSE IF trace = "target" THEN
            IF Dead \/ slot.target # t THEN Retarget(t)
            ELSE \/ slot' = [slot EXCEPT !.idle = FALSE] /\ told' = "active"
                    /\ UNCHANGED <<kern, mark, dogs, unwatched, started, fails>>
                 \* The process behind the PID is another one now.
                 \/ slot' = NoTrace /\ kern' = Stopped(kern, slot) /\ mark' = Unmarked /\ told' = "unknown"
                    /\ UNCHANGED <<dogs, unwatched, started, fails>>
       ELSE IF Dead THEN Replace
       ELSE slot' = [slot EXCEPT !.idle = FALSE] /\ told' = "active"
            /\ UNCHANGED <<kern, mark, dogs, unwatched, started, fails>>
    /\ UNCHANGED <<trace, lives, asking, svc>>

Covers(g) == slot.gen = g
\* spawn_trace_watchdog: one pass of the loop of a watchdog.
Watch(g) ==
    /\ svc \in {"up", "cleaned"} /\ dogs[g] > 0
    /\ IF slot = NoTrace THEN UNCHANGED <<slot, kern, mark>>
       ELSE IF ~Covers(g) THEN UNCHANGED <<slot, kern, mark>>
       ELSE slot.idle /\ slot' = NoTrace /\ kern' = Stopped(kern, slot) /\ mark' = Unmarked
    /\ dogs' = [dogs EXCEPT ![g] = @ - 1]
    /\ UNCHANGED <<trace, unwatched, started, fails, lives, asking, svc, told>>
\* NET_TRACE_IDLE, PROFILE_TRACE_IDLE, MODULE_TRACE_IDLE pass without a request.
IdlePasses ==
    /\ svc \in {"up", "cleaned"} /\ slot # NoTrace
    /\ ~slot.idle /\ slot' = [slot EXCEPT !.idle = TRUE]
    /\ UNCHANGED <<trace, kern, mark, dogs, unwatched, started, fails, lives, asking, svc, told>>

\* Another tool stops the session; the consumer thread returns some time later.
StoppedOutside ==
    /\ kern # 0 /\ kern' = 0
    /\ UNCHANGED <<trace, slot, mark, dogs, unwatched, started, fails, lives, asking, svc, told>>
ConsumerEnds ==
    /\ svc \in {"up", "cleaned"} /\ slot # NoTrace /\ ~slot.ended /\ kern # slot.id
    /\ slot' = [slot EXCEPT !.ended = TRUE] /\ told' = "none"
    /\ UNCHANGED <<trace, kern, mark, dogs, unwatched, started, fails, lives, asking, svc>>

PageCloses ==
    /\ asking /\ asking' = FALSE
    /\ UNCHANGED <<trace, kern, slot, mark, dogs, unwatched, started, fails, lives, svc, told>>

\* stop_live_sessions, by name, for those marked.
Cleaned == IF mark THEN 0 ELSE kern
\* run_broker returns: TraceCleanup.  The workers run until the process ends.
Cleanup ==
    /\ svc = "up" /\ svc' = "cleaned" /\ kern' = Cleaned /\ mark' = FALSE
    /\ UNCHANGED <<trace, slot, dogs, unwatched, started, fails, lives, asking, told>>
ProcessGone(how) ==
    /\ svc' = how /\ slot' = NoTrace /\ mark' = FALSE /\ dogs' = [g \in Gens |-> 0] /\ unwatched' = FALSE
    /\ UNCHANGED <<trace, kern, started, fails, lives, asking, told>>
Exits == svc = "cleaned" /\ ProcessGone("stopped")
\* A killed process runs nothing; the hook of the service for a panic replaces
\* the one that would stop the sessions.
Killed == svc \in {"up", "cleaned"} /\ ProcessGone("killed")
Restarts ==
    /\ svc \in {"stopped", "killed"} /\ lives < MaxLives /\ lives' = lives + 1 /\ svc' = "up"
    /\ UNCHANGED <<trace, kern, slot, mark, dogs, unwatched, started, fails, asking, told>>

TraceInit ==
    /\ trace \in {"net", "disk", "target"} /\ kern = 0 /\ slot = NoTrace /\ mark = FALSE
    /\ dogs = [g \in Gens |-> 0] /\ unwatched = FALSE
    /\ started = 0 /\ fails = 0 /\ lives = 1 /\ asking = TRUE /\ svc = "up" /\ told = "none"
Watches == \E g \in Gens : Watch(g)
TraceNext ==
    \/ \E t \in Targets : Request(t)
    \/ Watches \/ IdlePasses \/ StoppedOutside \/ ConsumerEnds
    \/ PageCloses \/ Cleanup \/ Exits \/ Killed \/ Restarts
\* Time passes and the watchdog threads run.
TraceFairness == WF_traceVars(Watches) /\ WF_traceVars(IdlePasses)
TraceSpec == TraceInit /\ [][TraceNext]_traceVars

-----------------------------------------------------------------------------
\* Type invariant; a name is marked only while a session of the slot has it.
TraceTypeOK ==
    /\ kern \in 0..MaxStarts /\ mark \in BOOLEAN /\ unwatched \in BOOLEAN
    /\ dogs \in [Gens -> Nat] /\ svc \in {"up", "cleaned", "stopped", "killed"}
    /\ slot # NoTrace => slot.id \in 1..started /\ slot.gen \in Gens /\ svc \in {"up", "cleaned"}
    /\ mark => slot # NoTrace
    /\ told \in {"none", "active", "unknown"}

\* A session in the slot has exactly one watchdog, however often it was
\* replaced, dropped or asked for again while an old watchdog slept.
\* (spawn_trace_watchdog.)
OneWatchdog ==
    /\ \A g \in Gens : trace = "target" => dogs[g] <= 1
    /\ slot # NoTrace /\ ~unwatched => dogs[slot.gen] = 1

\* A watchdog never ends a session that was asked for within the idle time, and
\* never the successor of the one it was started for.  (spawn_trace_watchdog.)
OnlyIdleEnded ==
    [][\A g \in Gens : dogs'[g] < dogs[g] /\ svc' = svc /\ slot # NoTrace /\ slot' = NoTrace => slot.idle /\ slot.gen = g]_traceVars

\* Two sessions are never running under the control of one slot: what the
\* kernel runs while the slot is empty was left by an earlier process.
\* (process_network_sample, protected_process_modules.)
NoStraySession == svc \in {"up", "cleaned"} /\ slot = NoTrace /\ lives = 1 => kern = 0

\* Frozen totals are never an answer: a session whose consumer has ended is
\* replaced before anything is read from it.  (Session::is_running.)
NeverFrozen == told = "active" /\ slot # NoTrace => ~slot.ended

\* Nobody asks any more: the trace is stopped in the end.  (spawn_trace_watchdog.)
IdleStops == ~asking ~> (slot = NoTrace \/ unwatched)

\* "Stop every session this process still owns, by name."  (stop_live_sessions,
\* which run_broker calls when it returns.)
CleanupStopsOwn == [][svc = "up" /\ svc' = "cleaned" /\ slot # NoTrace => kern' # slot.id]_traceVars

-----------------------------------------------------------------------------
(***************************************************************************)
(* What the consumers of the kernel traces make of the records             *)
(* (crates/tm-platform/src/win: disk_etw.rs, profile_etw.rs,               *)
(* module_etw.rs).  Threads and images of the machine come and go, each    *)
(* with a record that may be lost; the disk trace charges requests to the  *)
(* process of the issuing thread, the profile trace counts the samples of  *)
(* one process, and the module trace keeps its list of images.             *)
(***************************************************************************)

CONSTANTS Pids, Tids, Bases,     \* processes, thread ids, image addresses
          MaxThreads,            \* MAX_TRACKED_THREADS
          MaxModules,            \* MAX_TRACKED_MODULES
          MaxRecords,            \* bound: records of a trace
          Target, Free           \* the process under inspection; no owner

ASSUME WindowAssumption == Target \in Pids /\ Free \notin Pids /\ MaxThreads \in Nat \ {0} /\ MaxModules \in Nat

VARIABLES
    part,                       \* the trace: "disk", "profile", "module"
    records, missed,            \* bound; a record was lost
    owner, exited,              \* the machine: who owns a thread, who is gone
    threads, reseed,            \* State.threads, needs_reseed
    totals, unattributed, all,  \* the window of the disk trace
    window,                     \* what take_window returned last
    targets, doubly,            \* target_threads; threads whose stop was lost and nothing seen since
    loaded, untold,                \* images of the target; those the rundown has not told yet
    modules, overflowed, undecoded, listed   \* State of the module trace, its snapshot
diskVars == <<threads, reseed, totals, unattributed, all, window>>
profileVars == <<targets, doubly>>
moduleVars == <<loaded, untold, modules, overflowed, undecoded, listed>>
windowVars == <<part, records, missed, owner, exited, diskVars, profileVars, moduleVars>>

SumOf(f) == MapThenSumSet(LAMBDA p : f[p], Pids)
NoTime == [p \in Pids |-> 0]
Recorded == records < MaxRecords /\ records' = records + 1

-----------------------------------------------------------------------------
(* Threads start and stop; each consumer sees the record, or it is lost. *)

Known(map) == {t \in Tids : map[t] # Free}
\* Shared::track_thread of the disk trace, with its limit.
Track(t, p) ==
    IF Cardinality(Known(threads)) >= MaxThreads
    THEN threads' = [[u \in Tids |-> Free] EXCEPT ![t] = p] /\ reseed' = TRUE
    ELSE threads' = [threads EXCEPT ![t] = p] /\ UNCHANGED reseed
\* State::track_thread of the profile trace.
ProfileTrack(t, p) == IF p = Target THEN targets \cup {t} ELSE targets \ {t}
ThreadStarts(t, p) ==
    /\ Recorded /\ part \in {"disk", "profile"}
    /\ owner[t] = Free /\ p \notin exited /\ owner' = [owner EXCEPT ![t] = p]
    /\ \/ /\ CASE part = "disk" -> Track(t, p) /\ UNCHANGED targets
               [] part = "profile" -> targets' = ProfileTrack(t, p) /\ UNCHANGED <<threads, reseed>>
          /\ doubly' = doubly \ {t} /\ UNCHANGED missed
       \/ missed' = TRUE /\ UNCHANGED <<threads, reseed, targets, doubly>>
    /\ UNCHANGED <<part, exited, totals, unattributed, all, window, moduleVars>>
ThreadStops(t) ==
    /\ Recorded /\ part \in {"disk", "profile"}
    /\ owner[t] # Free /\ owner' = [owner EXCEPT ![t] = Free]
    /\ \/ /\ threads' = IF part = "disk" THEN [threads EXCEPT ![t] = Free] ELSE threads
          /\ targets' = IF part = "profile" THEN targets \ {t} ELSE targets
          /\ doubly' = doubly \ {t} /\ UNCHANGED missed
       \/ missed' = TRUE /\ doubly' = doubly \cup {t} /\ UNCHANGED <<threads, targets>>
    /\ UNCHANGED <<part, exited, reseed, totals, unattributed, all, window, moduleVars>>
ProcessExits(p) ==
    /\ part = "disk" /\ p \notin exited /\ (\A t \in Tids : owner[t] # p) /\ exited' = exited \cup {p}
    /\ UNCHANGED <<part, records, missed, owner, diskVars, profileVars, moduleVars>>

-----------------------------------------------------------------------------
(* The disk trace. *)

\* record_request, one unit of service time.
DiskRequest(t) ==
    /\ Recorded /\ part = "disk" /\ owner[t] # Free
    /\ all' = all + 1
    /\ IF threads[t] = Free THEN unattributed' = unattributed + 1 /\ UNCHANGED totals
       ELSE totals' = [totals EXCEPT ![threads[t]] = @ + 1] /\ UNCHANGED unattributed
    /\ UNCHANGED <<part, missed, owner, exited, threads, reseed, window, profileVars, moduleVars>>
\* The time of a process that exited stays in the denominator.
OfTheGone(live) == MapThenSumSet(LAMBDA p : totals[p], Pids \ live)
Reseeded == IF reseed THEN owner ELSE threads
\* take_window; an empty list of processes means it could not be read.
TakeWindow(read) ==
    LET live == IF read THEN Pids \ exited ELSE Pids IN
    /\ part = "disk" /\ all > 0
    /\ window' = [procs |-> [p \in Pids |-> IF p \in live THEN totals[p] ELSE 0],
                  rest |-> unattributed + OfTheGone(live), all |-> all]
    /\ totals' = NoTime /\ unattributed' = 0 /\ all' = 0
    /\ threads' = Reseeded /\ reseed' = FALSE
    /\ UNCHANGED <<part, records, missed, owner, exited, profileVars, moduleVars>>

-----------------------------------------------------------------------------
(* The profile trace. *)

\* State::record_sample: a header that names the target makes its thread known;
\* without one the sample is charged by the thread, which changes no map.
ProfileSample(t) ==
    /\ Recorded /\ part = "profile" /\ owner[t] = Target /\ targets' = targets \cup {t}
    /\ UNCHANGED <<part, missed, owner, exited, diskVars, doubly, moduleVars>>

-----------------------------------------------------------------------------
(* The module trace. *)

\* Mutation: past the limit an image is left out.
BeyondDropped == overflowed
Beyond == TRUE
\* State::record of a load: a rundown record or a new image.
Insert(b) ==
    IF b \notin modules /\ Cardinality(modules) >= MaxModules
    THEN overflowed' = Beyond /\ UNCHANGED modules
    ELSE modules' = modules \cup {b} /\ UNCHANGED overflowed
\* How a record arrives: decoded, undecodable, not at all.
Image(Seen) ==
    \/ Seen /\ UNCHANGED <<undecoded, missed>>
    \/ undecoded' = TRUE /\ UNCHANGED <<modules, overflowed, missed>>
    \/ missed' = TRUE /\ UNCHANGED <<modules, overflowed, undecoded>>
Rundown(b) ==
    /\ Recorded /\ part = "module" /\ b \in untold /\ untold' = untold \ {b} /\ Image(Insert(b))
    /\ UNCHANGED <<part, owner, exited, diskVars, profileVars, loaded, listed>>
Loads(b) ==
    /\ Recorded /\ part = "module" /\ b \notin loaded /\ loaded' = loaded \cup {b} /\ Image(Insert(b))
    /\ UNCHANGED <<part, owner, exited, diskVars, profileVars, untold, listed>>
Unloads(b) ==
    /\ Recorded /\ part = "module" /\ b \in loaded \ untold /\ loaded' = loaded \ {b}
    /\ Image(modules' = modules \ {b} /\ UNCHANGED overflowed)
    /\ UNCHANGED <<part, owner, exited, diskVars, profileVars, untold, listed>>
\* Mutation: records the kernel lost are not asked for.
IncompleteUnlost == overflowed \/ modules = {} \/ undecoded
\* State::snapshot.
Incomplete == overflowed \/ modules = {} \/ undecoded \/ missed
\* ModuleTrace::snapshot once the rundown has settled.
Snapshot ==
    /\ part = "module" /\ untold = {}
    /\ listed' = IF Incomplete THEN {} ELSE modules
    /\ UNCHANGED <<part, records, missed, owner, exited, diskVars, profileVars, loaded, untold, modules, overflowed, undecoded>>

-----------------------------------------------------------------------------
\* The maps are seeded from the machine when a trace starts.
WindowInit ==
    /\ part \in {"disk", "profile", "module"} /\ records = 0 /\ missed = FALSE
    /\ owner \in [Tids -> Pids \cup {Free}] /\ exited = {}
    /\ threads = owner /\ reseed = FALSE /\ totals = NoTime /\ unattributed = 0 /\ all = 0
    /\ window = [procs |-> NoTime, rest |-> 0, all |-> 0]
    /\ targets = {t \in Tids : owner[t] = Target} /\ doubly = {}
    /\ loaded \in SUBSET Bases /\ untold = loaded
    /\ modules = {} /\ overflowed = FALSE /\ undecoded = FALSE /\ listed = {}
    /\ part = "module" => owner = [t \in Tids |-> Free]
    /\ part # "module" => loaded = {}
    /\ part = "disk" => Cardinality(Known(owner)) <= MaxThreads
WindowNext ==
    \/ \E t \in Tids : ThreadStops(t) \/ DiskRequest(t) \/ ProfileSample(t) \/ (\E p \in Pids : ThreadStarts(t, p))
    \/ \E p \in Pids : ProcessExits(p)
    \/ \E read \in BOOLEAN : TakeWindow(read)
    \/ \E b \in Bases : Rundown(b) \/ Loads(b) \/ Unloads(b)
    \/ Snapshot
WindowSpec == WindowInit /\ [][WindowNext]_windowVars

-----------------------------------------------------------------------------
\* The time of a window, and of the one that is being filled, is charged to
\* processes or to nobody, each unit once: shares of it never exceed the whole.
\* (record_request, take_window.)
TimeConserved ==
    /\ SumOf(totals) + unattributed = all
    /\ SumOf(window.procs) + window.rest = window.all

\* Until a record is lost the map of threads is the machine's, except between a
\* clearing at the limit and the next window.  (track_thread, take_window.)
MapCurrent == part = "disk" /\ ~missed /\ ~reseed => threads = owner

\* A sample is charged to the wrong process only if the stop of the thread and
\* the start of its successor were both lost.  (profile_etw track_thread,
\* forget_thread, record_sample.)
TargetOnly == \A t \in Tids : part = "profile" /\ owner[t] \notin {Target, Free} /\ t \in targets => t \in doubly

\* A list of images that is given out is the process's own when it is read:
\* anything that could have made it wrong makes it unavailable.
\* (module_etw State::record, snapshot.)
ListExact == [][listed' # listed /\ listed' # {} => listed' = loaded]_windowVars

\* Kernel traces: one watchdog each, no session without an owner, an idle one is ended
\* and only an idle one, totals of a stopped session are no answer, and CPU time and
\* images are counted for the process they belong to.
TracesHonest ==
  /\ []TraceTypeOK /\ []OneWatchdog /\ []NoStraySession /\ []NeverFrozen
  /\ []TimeConserved /\ []MapCurrent /\ []TargetOnly /\ IdleStops /\ OnlyIdleEnded
  /\ ListExact
=============================================================================
