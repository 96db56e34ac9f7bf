------------------------------- MODULE Sampler -------------------------------
(***************************************************************************)
(* What the Windows sampler carries from tick to tick about a process       *)
(* (win/sampler.rs): the attribute cache and its holes (attrs_for,          *)
(* process_ops note_attrs_changed), the zombie rule and the release of      *)
(* sysinfo's handles, and the hold of "Not responding". A tick reads the    *)
(* kernel table, then sysinfo's list, then the attributes of each row; PIDs *)
(* are reused between any two of these. Instants are ages, capped where the *)
(* code compares them with a limit. PIDs 0 and 4, which never exit, are     *)
(* left out.                                                                *)
(***************************************************************************)
EXTENDS Integers, FiniteSets, FiniteSetsExt

CONSTANTS TablePids,
          MaxBirths,   \* processes started in a run
          AttrTtl, RetryTtl, Cooldown, Grace,   \* the time limits
          Trip,        \* a window that has not pumped for so long is hung
          Fresh,       \* how long a process counts as just started
          MaxGap,      \* longest time between two ticks
          None

ASSUME SamplerAssumption ==
  /\ AttrTtl \in Nat \ {0} /\ RetryTtl \in Nat \ {0} /\ Cooldown \in Nat \ {0}
  /\ Grace \in Nat /\ Trip \in Nat \ {0} /\ Fresh \in Nat /\ MaxBirths \in Nat

VARIABLES procOf,        \* the machine: PID -> process or None
          sampleBirths,      \* processes started so far
          unnoted,     \* priorities set and not yet noted (an action thread)
          changed,     \* CHANGED_ATTRS
          held,        \* PIDs of which sysinfo holds a handle
          attrs,       \* the attribute cache
          hold,        \* NotRespondingHold::since
          zombies,     \* zombie_pids, with the process and whether a release has followed
          reset,       \* age of last_sys_reset, or None
          stage, table, rows, gap

samplerVars == <<procOf, sampleBirths, unnoted, changed, held, attrs, hold, zombies, reset, stage, table, rows, gap>>
machineVars == <<procOf, sampleBirths, unnoted, changed, gap>>
cacheVars == <<held, attrs, hold, zombies, reset, stage, table, rows>>

-----------------------------------------------------------------------------
Lower(a, b) == IF a < b THEN a ELSE b
OlderSample(age, cap) == Lower(age + 1, cap)

SampledAlive(p) == procOf[p] # None /\ ~procOf[p].dead

SamplerInit ==
  /\ procOf = [p \in TablePids |-> None] /\ sampleBirths = 0 /\ unnoted = {} /\ changed = {} /\ gap = 0
  /\ held = {} /\ attrs = [p \in TablePids |-> None] /\ hold = [p \in TablePids |-> None]
  /\ zombies = [p \in TablePids |-> None] /\ reset = None
  /\ stage = "idle" /\ table = [p \in TablePids |-> 0] /\ rows = [p \in TablePids |-> None]

-----------------------------------------------------------------------------
(* The machine. *)

Spawns(p, readable) ==
  /\ stage # "shown" /\ procOf[p] = None /\ sampleBirths < MaxBirths
  /\ sampleBirths' = sampleBirths + 1
  /\ procOf' = [procOf EXCEPT ![p] = [born |-> sampleBirths + 1, age |-> 0, dead |-> FALSE, readable |-> readable,
                                  quiet |-> 0, prio |-> "normal", pinned |-> FALSE]]
  /\ UNCHANGED <<unnoted, changed, gap, cacheVars>>

\* A process that exits stays as long as somebody holds it.
ProcessExits(p, pinned) ==
  /\ stage # "shown" /\ SampledAlive(p)
  /\ procOf' = [procOf EXCEPT ![p] = IF pinned \/ p \in held THEN [@ EXCEPT !.dead = TRUE, !.pinned = pinned] ELSE None]
  /\ unnoted' = unnoted \ {p}
  /\ UNCHANGED <<sampleBirths, changed, gap, cacheVars>>

Unpinned(p) ==
  /\ stage # "shown" /\ procOf[p] # None /\ procOf[p].dead /\ procOf[p].pinned
  /\ procOf' = [procOf EXCEPT ![p] = IF p \in held THEN [@ EXCEPT !.pinned = FALSE] ELSE None]
  /\ UNCHANGED <<sampleBirths, unnoted, changed, gap, cacheVars>>

\* SetPriorityClass, SetProcessInformation, SetTokenInformation by an action.
SetsPriority(p) ==
  /\ stage # "shown" /\ SampledAlive(p) /\ procOf[p].prio = "normal"
  /\ procOf' = [procOf EXCEPT ![p].prio = "high"] /\ unnoted' = unnoted \cup {p}
  /\ UNCHANGED <<sampleBirths, changed, gap, cacheVars>>

\* note_attrs_changed
Notes(p) ==
  /\ stage # "shown" /\ p \in unnoted
  /\ unnoted' = unnoted \ {p} /\ changed' = changed \cup {p}
  /\ UNCHANGED <<procOf, sampleBirths, gap, cacheVars>>

Aged(r, cap) == IF r = None THEN None ELSE [r EXCEPT !.age = OlderSample(@, cap)]

\* Time passes; the processes of S pump their windows' messages.
Passes(S) ==
  /\ stage = "idle" /\ gap < MaxGap
  /\ gap' = gap + 1
  /\ procOf' = [p \in TablePids |-> IF procOf[p] = None THEN None
                             ELSE [procOf[p] EXCEPT !.age = OlderSample(@, Fresh + 1), !.quiet = IF p \in S THEN 0 ELSE OlderSample(@, Grace + Trip)]]
  /\ attrs' = [p \in TablePids |-> IF attrs[p] = None THEN None
                              ELSE [attrs[p] EXCEPT !.age = OlderSample(@, AttrTtl), !.retry = IF @ = None THEN None ELSE OlderSample(@, RetryTtl)]]
  /\ hold' = [p \in TablePids |-> Aged(hold[p], Grace)]
  /\ reset' = IF reset = None THEN None ELSE OlderSample(reset, Cooldown)
  /\ UNCHANGED <<sampleBirths, unnoted, changed, held, zombies, stage, table, rows>>

-----------------------------------------------------------------------------
(* A tick. *)

\* cpu_load.sample: the kernel's process table. An exited process is missing
\* from it or listed without threads (Z), which a negative entry stands for.
ReadTable(Z) ==
  /\ stage = "idle"
  /\ Z \subseteq {p \in TablePids : procOf[p] # None /\ procOf[p].dead}
  /\ table' = [p \in TablePids |-> IF SampledAlive(p) THEN procOf[p].born ELSE IF p \in Z THEN 0 - procOf[p].born ELSE 0]
  /\ stage' = "table" /\ gap' = 0
  /\ UNCHANGED <<procOf, sampleBirths, unnoted, changed, held, attrs, hold, zombies, reset, rows>>

InTable(p) == IF table[p] < 0 THEN 0 - table[p] ELSE table[p]

\* The start time: through a handle, else what the table has for the PID, else
\* unknown (0).
StartOf(p) == IF procOf[p].readable THEN procOf[p].born ELSE InTable(p)

SameStart(p) == table[p] # 0 /\ StartOf(p) \in {0, InTable(p)}

\* is_zombie: the threads the table lists decide; else a probe, which needs a
\* handle; else the absence from the table, but for a process that just started.
IsZombie(p) ==
  IF SameStart(p) THEN table[p] < 0
  ELSE (procOf[p].dead /\ procOf[p].readable) \/ ~(StartOf(p) # 0 /\ procOf[p].age <= Fresh)

\* NotRespondingHold::observe
Observed(p) ==
  IF procOf[p].quiet < Trip THEN None
  ELSE IF hold[p] = None \/ hold[p].start # StartOf(p) THEN [start |-> StartOf(p), age |-> 0] ELSE hold[p]

\* should_release_handles
Releases(fresh) == fresh /\ (reset = None \/ reset >= Cooldown)

\* take_changed_attrs: the cached attributes that this tick forgets.
Dropped == changed

\* refresh_raw and the loop over the processes: the row or the eviction, then
\* the release of the handles.
Enumerate ==
  /\ stage = "table"
  /\ LET here  == {p \in TablePids : procOf[p] # None}
         evict == {p \in here : IsZombie(p)}
         seen  == [p \in here |-> Observed(p)]
         fresh == \E p \in evict : zombies[p] = None
         free  == Releases(fresh)
     IN  /\ rows' = [p \in TablePids |-> IF p \in here \ evict
                                    THEN [start |-> StartOf(p), born |-> procOf[p].born, of |-> 0, prio |-> None,
                                          hung |-> seen[p] # None /\ seen[p].age >= Grace]
                                    ELSE None]
         /\ hold' = [p \in TablePids |-> IF p \in here \ evict THEN seen[p] ELSE IF p \in here THEN hold[p] ELSE None]
         /\ attrs' = [p \in TablePids |-> IF p \in evict \cup Dropped THEN None ELSE attrs[p]]
         /\ zombies' = [p \in TablePids |-> IF p \notin evict THEN None
                                       ELSE [of |-> procOf[p].born,
                                             freed |-> free \/ (zombies[p] # None /\ zombies[p].of = procOf[p].born /\ zombies[p].freed)]]
         /\ changed' = {}
         /\ IF free
            THEN held' = {} /\ reset' = 0 /\ procOf' = [p \in TablePids |-> IF p \in here /\ procOf[p].dead /\ ~procOf[p].pinned THEN None ELSE procOf[p]]
            ELSE held' = held \cup {p \in here : procOf[p].readable} /\ UNCHANGED <<reset, procOf>>
  /\ stage' = "listed"
  /\ UNCHANGED <<sampleBirths, unnoted, table, gap>>

\* The account and command line that a native read by PID answers with: those
\* of whatever process has the PID now, 0 when it cannot be read.
ReadNow(p) == IF procOf[p] # None /\ procOf[p].readable THEN procOf[p].born ELSE 0
PrioNow(p) == IF procOf[p] # None THEN procOf[p].prio ELSE None

\* attrs_for: the cached values while they are young and of this process.
Cached(p, start) == attrs[p] # None /\ attrs[p].age < AttrTtl /\ attrs[p].start = start

\* attrs_for: what is known of the same process is kept; the broker is asked
\* when the token cannot be read, and again only after a while.
Fetched(p, start, answers) ==
  LET same  == attrs[p] # None /\ attrs[p].start = start
      known == IF same THEN attrs[p].of ELSE 0
      retry == IF same THEN attrs[p].retry ELSE None
      local == IF known # 0 THEN known ELSE ReadNow(p)
      asks  == local = 0 /\ start # 0 /\ (retry = None \/ retry >= RetryTtl)
      told  == asks /\ answers /\ procOf[p] # None /\ procOf[p].born = start
  IN  [start |-> start, age |-> 0, prio |-> PrioNow(p),
       of |-> IF told THEN start ELSE local,
       retry |-> IF told THEN None ELSE IF asks THEN 0 ELSE retry]

\* The pass over the rows that fills in the attributes, then the snapshot.
Publishes(A) ==
  /\ stage = "listed"
  /\ attrs' = [p \in TablePids |-> IF rows[p] = None \/ Cached(p, rows[p].start) THEN attrs[p]
                              ELSE Fetched(p, rows[p].start, p \in A)]
  /\ rows' = [p \in TablePids |-> IF rows[p] = None THEN None ELSE [rows[p] EXCEPT !.of = attrs'[p].of, !.prio = attrs'[p].prio]]
  /\ stage' = "shown"
  /\ UNCHANGED <<machineVars, held, hold, zombies, reset, table>>

Rests == stage = "shown" /\ stage' = "idle" /\ rows' = [p \in TablePids |-> None] /\ table' = [p \in TablePids |-> 0]
         /\ UNCHANGED <<machineVars, held, attrs, hold, zombies, reset>>

SamplerNext ==
  \/ \E p \in TablePids, b \in BOOLEAN : Spawns(p, b) \/ ProcessExits(p, b)
  \/ \E p \in TablePids : Unpinned(p) \/ SetsPriority(p) \/ Notes(p)
  \/ \E S \in SUBSET TablePids : Passes(S) \/ ReadTable(S) \/ Publishes(S)
  \/ Enumerate \/ Rests

SamplerSpec == SamplerInit /\ [][SamplerNext]_samplerVars

-----------------------------------------------------------------------------
Shown(p) == stage = "shown" /\ rows[p] # None

\* A process that runs through the tick, or that started since the table was
\* read and can be opened, is on the list: no rule meant for zombies evicts it,
\* whatever had its PID before.
LiveListed ==
  stage = "shown" =>
    \A p \in TablePids : SampledAlive(p) =>
      /\ table[p] = procOf[p].born => rows[p] # None /\ rows[p].born = procOf[p].born
      /\ (zombies[p] # None /\ zombies[p].of = procOf[p].born) => ~procOf[p].readable

\* A row that names a running process shows its account and command line, never
\* those of a process that had the PID before.
AttrsOwn == \A p \in TablePids : (Shown(p) /\ SampledAlive(p) /\ rows[p].start = procOf[p].born) => rows[p].of \in {0, procOf[p].born}

\* "Recording the PID here makes the very next sample query it natively again"
\* (process_ops.rs:1449): what an action changed and noted before the tick began
\* is on the row, however young the cache.
ChangeShown ==
  \A p \in TablePids : (Shown(p) /\ SampledAlive(p) /\ rows[p].start = procOf[p].born /\ rows[p].prio # procOf[p].prio)
                  => p \in unnoted \cup changed

\* A row says "Not responding" only of a process whose window has not pumped
\* for the grace and the five seconds before it, across reused PIDs.
HungIsContinuous ==
  \A p \in TablePids : (Shown(p) /\ SampledAlive(p) /\ rows[p].start = procOf[p].born /\ rows[p].hung) => procOf[p].quiet >= Grace + Trip

\* "Tracked so a zombie that persists tick after tick is recognised as one we
\* already answered for" (sampler.rs:239): its handles were released once.
AnsweredFor == stage = "idle" => \A p \in TablePids : (zombies[p] # None /\ (reset = None \/ reset >= Cooldown)) => zombies[p].freed

-----------------------------------------------------------------------------
(***************************************************************************)
(* Where busy CPU time goes (win/cpu_load.rs and the pseudo rows of         *)
(* win/sampler.rs): a tick reads the per-core counters, then the process    *)
(* table, and charges the time between two readings to the live processes,  *)
(* to "System interrupts" and to "Terminated processes". Processes start,   *)
(* work and exit between any two of these steps, PIDs are reused, a query   *)
(* may fail, a tick may come too early. One core; a unit of time is a unit  *)
(* of the clock, and shares are those units over the length of the window.  *)
(***************************************************************************)

CONSTANTS CPids,
          MaxClock, MaxBorn, MaxGlitches,   \* bounds of a run
          MinWindow,     \* MIN_WINDOW_S
          MinShare,      \* PSEUDO_ROW_MIN_PCT
          HoldTicks,     \* PSEUDO_ROW_HOLD_TICKS
          NoValue

ASSUME CpuLoadAssumption == MinWindow \in Nat \ {0} /\ MinShare \in Nat \ {0} /\ HoldTicks \in Nat \ {0}

VARIABLES clock, core,   \* the machine: time, and the counters of the core
          running,       \* PID -> process or NoValue
          born, glitches,
          wide,          \* the core records carry the time of interrupts
          loadPhase,         \* of a tick: idle, cores, load, shown
          reading,       \* the core counters just read, with the time
          prevLoad,      \* CpuLoadAccountant::prev
          cpuLoad,          \* Sampler::last_load
          newLoad,       \* this tick measured it
          irq, goneAt,     \* PseudoRowHold
          lastWork       \* what really happened since the table was last kept

loadVars == <<clock, core, running, born, glitches, wide, loadPhase, reading, prevLoad, cpuLoad, newLoad, irq, goneAt, lastWork>>

-----------------------------------------------------------------------------
Least(a, b) == IF a < b THEN a ELSE b
Minus(a, b) == IF a > b THEN a - b ELSE 0
Nothing0 == [ran |-> [p \in CPids |-> 0], died |-> 0, skewed |-> FALSE, skewing |-> FALSE]

LoadInit ==
  /\ clock = 0 /\ core = [idle |-> 0, kernel |-> 0, user |-> 0, servicing |-> 0]
  /\ running = [p \in CPids |-> NoValue] /\ born = 0 /\ glitches = 0 /\ wide \in BOOLEAN
  /\ loadPhase = "idle" /\ reading = NoValue /\ prevLoad = NoValue /\ cpuLoad = NoValue /\ newLoad = FALSE
  /\ irq = NoValue /\ goneAt = NoValue /\ lastWork = Nothing0

-----------------------------------------------------------------------------
(* The machine. *)

Passing == clock < MaxClock /\ loadPhase # "shown" /\ clock' = clock + 1
           /\ UNCHANGED <<born, glitches, wide, loadPhase, reading, prevLoad, cpuLoad, newLoad, irq, goneAt>>
\* Time passes between the two queries of a reading.
Skewing(w) == [w EXCEPT !.skewing = @ \/ loadPhase = "cores"]

Runs(p) ==
  /\ Passing /\ running[p] # NoValue
  /\ core' = [core EXCEPT !.user = @ + 1]
  /\ running' = [running EXCEPT ![p].spent = @ + 1]
  /\ lastWork' = Skewing([lastWork EXCEPT !.ran[p] = @ + 1])

Interrupts ==
  /\ Passing /\ core' = [core EXCEPT !.kernel = @ + 1, !.servicing = @ + 1]
  /\ lastWork' = Skewing(lastWork) /\ UNCHANGED running

Idles ==
  /\ Passing /\ core' = [core EXCEPT !.kernel = @ + 1, !.idle = @ + 1]
  /\ lastWork' = Skewing(lastWork) /\ UNCHANGED running

Arrives(p) ==
  /\ loadPhase # "shown" /\ running[p] = NoValue /\ born < MaxBorn
  /\ born' = born + 1 /\ running' = [running EXCEPT ![p] = [born |-> born + 1, spent |-> 0]]
  /\ UNCHANGED <<clock, core, glitches, wide, loadPhase, reading, prevLoad, cpuLoad, newLoad, irq, goneAt, lastWork>>

Leaves(p) ==
  /\ loadPhase # "shown" /\ running[p] # NoValue
  /\ running' = [running EXCEPT ![p] = NoValue]
  /\ lastWork' = [lastWork EXCEPT !.died = @ + lastWork.ran[p], !.ran[p] = 0]
  /\ UNCHANGED <<clock, core, born, glitches, wide, loadPhase, reading, prevLoad, cpuLoad, newLoad, irq, goneAt>>

\* The counters of the core go backwards (a counter glitch).
Glitch ==
  /\ glitches < MaxGlitches /\ loadPhase = "idle"
  /\ core' = [idle |-> 0, kernel |-> 0, user |-> 0, servicing |-> 0]
  /\ glitches' = glitches + 1 /\ lastWork' = [lastWork EXCEPT !.skewed = TRUE]
  /\ UNCHANGED <<clock, running, born, wide, loadPhase, reading, prevLoad, cpuLoad, newLoad, irq, goneAt>>

-----------------------------------------------------------------------------
(* CpuLoadAccountant::sample *)

\* nonneg of a difference: a counter that went backwards counts for nothing.
Delta(now, before) == Minus(now, before)

\* query_cores, after the time was taken
QueryCores ==
  /\ loadPhase = "idle"
  /\ loadPhase' = "cores" /\ reading' = [at |-> clock, cores |-> core]
  /\ lastWork' = [lastWork EXCEPT !.skewing = FALSE]
  /\ UNCHANGED <<clock, core, running, born, glitches, wide, prevLoad, cpuLoad, newLoad, irq, goneAt>>

\* One of the queries fails, or names no core: the last load is kept.
LoadQueryFails ==
  /\ loadPhase \in {"idle", "cores"}
  /\ loadPhase' = "load" /\ newLoad' = FALSE /\ reading' = NoValue
  /\ UNCHANGED <<clock, core, running, born, glitches, wide, prevLoad, cpuLoad, irq, goneAt, lastWork>>

Busy(c, p) == Minus(Delta(c.kernel, p.kernel) + Delta(c.user, p.user), Delta(c.idle, p.idle))

\* build_sample: the delta for the same process, everything for one that is new.
InWindow(p) ==
  IF prevLoad.procs[p] # NoValue /\ prevLoad.procs[p].born = running[p].born
  THEN Minus(running[p].spent, prevLoad.procs[p].spent) ELSE running[p].spent

\* The processes of the previous table that are gone.
Exited == {p \in CPids : prevLoad.procs[p] # NoValue /\ (running[p] = NoValue \/ running[p].born # prevLoad.procs[p].born)}

\* build_sample
Built ==
  LET dt    == reading.at - prevLoad.at
      c     == reading.cores
      pc    == prevLoad.cores
      live  == {p \in CPids : running[p] # NoValue}
      busy  == Busy(c, pc)
      spent == MapThenSumSet(InWindow, live)
  IN  [dt       |-> dt,
       busy     |-> Least(busy, Delta(c.kernel, pc.kernel) + Delta(c.user, pc.user)),
       rows     |-> [p \in CPids |-> IF p \in live THEN Least(InWindow(p), dt) ELSE NoValue],
       rest     |-> Least(Minus(busy, spent), dt),
       servicing |-> IF wide THEN Least(Least(Delta(c.servicing, pc.servicing), busy), dt) ELSE NoValue,
       exited   |-> Cardinality(Exited),
       truth    |-> lastWork]

\* query_procs; the first window, and one that is too short, only resynchronise.
QueryProcs ==
  /\ loadPhase = "cores"
  /\ LET long == prevLoad # NoValue => reading.at - prevLoad.at >= MinWindow
         built == prevLoad # NoValue /\ long
     IN  cpuLoad' = (IF built THEN Built ELSE cpuLoad) /\ newLoad' = built
  /\ prevLoad' = [at |-> reading.at, cores |-> reading.cores, procs |-> running]
  /\ lastWork' = [Nothing0 EXCEPT !.skewed = lastWork.skewing]
  /\ loadPhase' = "load" /\ reading' = NoValue
  /\ UNCHANGED <<clock, core, running, born, glitches, wide, irq, goneAt>>

-----------------------------------------------------------------------------
(* Sampler::update_pseudo_rows *)

\* Mutation: a held measurement does not expire.
DecayedNever(slot) == slot
\* decay_pseudo
Decayed(slot) == IF slot = NoValue \/ slot.left = 1 THEN NoValue ELSE [slot EXCEPT !.left = @ - 1]
Held(share) == [share |-> share, left |-> HoldTicks]

\* A row held through quiet ticks shows the current share.
HeldShare(slot, share) == IF slot = NoValue THEN NoValue ELSE [slot EXCEPT !.share = share]

\* The residual without the interrupts; whole when these are unknown.
Terminated(measured) == IF measured = NoValue THEN cpuLoad.rest ELSE Minus(cpuLoad.rest, measured)

\* pdh is the interrupt time of the performance counters, or NoValue.
PseudoRows(pdh) ==
  /\ loadPhase = "load"
  /\ LET measured == IF cpuLoad # NoValue /\ cpuLoad.servicing # NoValue THEN cpuLoad.servicing ELSE pdh
         share    == IF cpuLoad = NoValue THEN 0 ELSE Terminated(measured)
     IN  /\ irq' = IF measured = NoValue THEN Decayed(irq)
                   ELSE IF measured >= MinShare THEN Held(measured) ELSE NoValue
         /\ goneAt' = IF cpuLoad = NoValue THEN Decayed(goneAt)
                    ELSE IF share >= MinShare THEN Held(share) ELSE HeldShare(Decayed(goneAt), share)
  /\ loadPhase' = "shown"
  /\ UNCHANGED <<clock, core, running, born, glitches, wide, reading, prevLoad, cpuLoad, newLoad, lastWork>>

Settles == loadPhase = "shown" /\ loadPhase' = "idle" /\ newLoad' = FALSE
           /\ UNCHANGED <<clock, core, running, born, glitches, wide, reading, prevLoad, cpuLoad, irq, goneAt, lastWork>>

LoadNext ==
  \/ \E p \in CPids : Runs(p) \/ Arrives(p) \/ Leaves(p)
  \/ Interrupts \/ Idles \/ Glitch \/ QueryCores \/ LoadQueryFails \/ QueryProcs
  \/ \E pdh \in 0..1 \cup {NoValue} : PseudoRows(pdh)
  \/ Settles

LoadSpec == LoadInit /\ [][LoadNext]_loadVars

-----------------------------------------------------------------------------
Measured == loadPhase = "shown" /\ newLoad
ShareOf(slot) == IF slot = NoValue THEN 0 ELSE slot.share

\* A process is charged exactly the time it ran itself since the table was last
\* kept, whoever had its PID before and however many queries failed in between.
RowIsOwn == Measured => \A p \in CPids : cpuLoad.rows[p] # NoValue => cpuLoad.rows[p] = Least(cpuLoad.truth.ran[p], cpuLoad.dt)

\* "So busy work is never left unidentified" (cpu_load.rs:38): what the
\* interrupts do not explain of the residual is the time of processes that
\* exited in the window, to the unit, when nothing ran between the two queries.
TerminatedExact ==
  (Measured /\ wide /\ ~cpuLoad.truth.skewed /\ ~cpuLoad.truth.skewing) => cpuLoad.rest - cpuLoad.servicing = cpuLoad.truth.died

\* The rows do not outgrow the header: the rows of processes and the two pseudo
\* rows add up to no more than the busy time, when the records carry the
\* interrupts and nothing ran between the queries.
RowsWithinHeader ==
  (Measured /\ wide /\ ~cpuLoad.truth.skewed /\ ~cpuLoad.truth.skewing) =>
    MapThenSumSet(LAMBDA p : IF cpuLoad.rows[p] = NoValue THEN 0 ELSE cpuLoad.rows[p], CPids) + ShareOf(irq) + ShareOf(goneAt) <= cpuLoad.busy

\* A counter that went backwards never shows as load.
NoWrap == cpuLoad # NoValue => cpuLoad.busy <= cpuLoad.dt /\ cpuLoad.rest <= cpuLoad.dt

\* A pseudo row is there because of a measurement of at most the last ticks: a
\* terminated row without a residual is on its way out.
HoldExpires ==
  [][loadPhase = "load" /\ loadPhase' = "shown" /\ goneAt # NoValue /\ goneAt' # NoValue /\ goneAt'.share < MinShare => goneAt'.left < goneAt.left]_loadVars

\* "The same busy time is never shown twice" (sampler.rs:1996).
NeverTwiceShown == Measured => ShareOf(irq) + ShareOf(goneAt) <= cpuLoad.busy

\* A tick against the machine: live processes are listed with their own attributes over
\* reused PIDs, a change is shown, the CPU time of a row is its own, rows and exited
\* processes add up to the header and no counter wraps, and a held row runs out.
SampleTrue ==
  /\ []LiveListed /\ []AttrsOwn /\ []ChangeShown /\ []HungIsContinuous /\ []RowIsOwn
  /\ []TerminatedExact /\ []RowsWithinHeader /\ []NoWrap /\ HoldExpires
=============================================================================
