---------------------------- MODULE UsageSources ----------------------------
(***************************************************************************)
(* Where the Windows sampler takes per-process network and disk activity   *)
(* from (crates/tm-platform/src/win/sampler.rs): the core service, or a    *)
(* trace of its own when there is no service, or nowhere.  One tick asks,  *)
(* may change the source, and fills the row of one process, whose PID may  *)
(* be reused between two ticks.  A value rests on an earlier reading: the  *)
(* network rate on the previous totals, the disk values of a window too    *)
(* short to measure on those of the last one.                              *)
(***************************************************************************)
EXTENDS Naturals, Sequences

CONSTANTS MaxTicks,      \* bound: ticks of the sampler
          Tolerance,     \* BROKER_MISS_TOLERANCE
          NoReading

ASSUME UsageAssumption == MaxTicks \in Nat /\ Tolerance \in Nat \ {0}

VARIABLES
    kind,          \* "net" or "disk"
    want, era,     \* the demand of the UI; how often it was withdrawn
    who,           \* the process that has the PID
    src, misses,   \* net_source, disk_source
    due,           \* NET_SOURCE_RETRY has passed since the source was given up
    localUp,       \* the session of the local trace runs
    answer,        \* observation: what the service said in the last tick, or "unasked"
    reading,       \* prev_proc_net, last_proc_disk: [who, era], or NoReading
    out,           \* the row: [known, basis]
    ticks          \* bound
usageVars == <<kind, want, era, who, src, misses, due, localUp, answer, reading, out, ticks>>

Unknown == [known |-> FALSE, basis |-> NoReading]
Mine == [who |-> who, era |-> era]

\* Mutation: the previous reading of the PID is used whoever has it now.
UsableAny == reading # NoReading
\* A reading counts for the same PID with the same start time only.
Usable == IF reading = NoReading THEN FALSE ELSE reading.who = who
\* apply_process_network, apply_process_disk: a new reading; a network rate
\* needs the one before; a disk window too short carries the last one on.
Reads ==
    \/ reading' = Mine
       /\ out' = [known |-> TRUE, basis |-> IF kind = "net" /\ Usable THEN reading ELSE NoReading]
    \/ kind = "disk" /\ UNCHANGED reading
       /\ out' = IF Usable THEN [known |-> TRUE, basis |-> reading] ELSE Unknown
    \* Records that cannot be decoded are no measurement.
    \/ kind = "disk" /\ UNCHANGED reading /\ out' = Unknown
Nothing == out' = Unknown /\ UNCHANGED reading

Answers == {"active", "inactive", "unavailable", "rejected"}
GiveUp == src' = "unavailable" /\ due' = FALSE /\ misses' = 0
Settle == src' = "broker" /\ misses' = 0 /\ UNCHANGED due
Sampled(a) == IF a = "active" THEN Reads ELSE Nothing

\* probe_net_source falls back unless refused, also from a service whose trace
\* does not run; probe_disk_source only when there is no service.
MayStartLocal(a) == a = "unavailable" \/ (a = "inactive" /\ kind = "net")
\* The probe; with the source it leaves, the rest of the tick asks again: a
\* service that was inactive once may answer now.
Probe(a) ==
    IF MayStartLocal(a)
    THEN \/ src' = "local" /\ localUp' = TRUE /\ misses' = 0 /\ UNCHANGED due /\ (Reads \/ Nothing)
         \/ GiveUp /\ Nothing /\ UNCHANGED localUp
    ELSE /\ UNCHANGED localUp
         /\ \/ a = "rejected" /\ GiveUp /\ Nothing
            \/ a = "active" /\ Settle /\ Reads
            \/ a = "inactive" /\ Settle /\ (Reads \/ Nothing)

\* net_totals and disk_window with the service as the source.
AskBroker(a) ==
    /\ UNCHANGED localUp
    /\ \/ a \in {"active", "inactive"} /\ Settle /\ Sampled(a)
       \/ a = "rejected" /\ GiveUp /\ Nothing
       \/ a = "unavailable" /\ Nothing
          /\ IF misses + 1 >= Tolerance THEN GiveUp ELSE misses' = misses + 1 /\ UNCHANGED <<src, due>>
ReadLocal ==
    IF localUp THEN Reads /\ UNCHANGED <<src, misses, due, localUp>>
    ELSE GiveUp /\ Nothing /\ UNCHANGED localUp

\* Only the local trace is held back, the service is asked in every tick.
Asks == TRUE
Retry(a) ==
    IF ~Asks THEN Nothing /\ UNCHANGED <<src, misses, due, localUp>>
    ELSE CASE a \in {"active", "inactive"} -> Settle /\ Sampled(a) /\ UNCHANGED localUp
           [] a = "rejected" -> Nothing /\ UNCHANGED <<src, misses, due, localUp>>
           [] a = "unavailable" -> IF due THEN \E b \in Answers : Probe(b)
                                   ELSE Nothing /\ UNCHANGED <<src, misses, due, localUp>>

\* Mutation: what was read is kept while nobody asks.
ForgetNothing == reading
\* Nothing is carried across a gap of unknown length.
Forget == NoReading
Unwanted == src' = "undecided" /\ misses' = 0 /\ reading' = Forget /\ out' = Unknown /\ localUp' = FALSE /\ UNCHANGED due

Tick ==
    /\ ticks < MaxTicks /\ ticks' = ticks + 1
    /\ IF ~want THEN Unwanted /\ answer' = "unasked"
       ELSE \E a \in Answers :
              /\ answer' = IF src = "local" THEN "unasked" ELSE a
              /\ CASE src = "unavailable" -> Retry(a)
                   [] src = "undecided" -> Probe(a)
                   [] src = "broker" -> AskBroker(a)
                   [] src = "local" -> ReadLocal
    /\ UNCHANGED <<kind, want, era, who>>

\* set_demand; a page with the column opens or closes.  The sampler sees a
\* withdrawal in its next tick.
Demand ==
    /\ ticks < MaxTicks /\ want' = ~want /\ era' = IF want THEN era + 1 ELSE era
    /\ (want => src # "undecided") /\ (~want => src = "undecided")
    /\ UNCHANGED <<kind, who, src, misses, due, localUp, answer, reading, out, ticks>>
PidReused ==
    /\ who = 1 /\ who' = 2
    /\ UNCHANGED <<kind, want, era, src, misses, due, localUp, answer, reading, out, ticks>>
TraceStopped ==
    /\ src = "local" /\ localUp /\ localUp' = FALSE
    /\ UNCHANGED <<kind, want, era, who, src, misses, due, answer, reading, out, ticks>>
RetryDue ==
    /\ src = "unavailable" /\ ~due /\ due' = TRUE
    /\ UNCHANGED <<kind, want, era, who, src, misses, localUp, answer, reading, out, ticks>>

UsageInit ==
    /\ kind \in {"net", "disk"} /\ want = TRUE /\ era = 0 /\ who = 1
    /\ src = "undecided" /\ misses = 0 /\ due = FALSE /\ localUp = FALSE
    /\ answer = "unasked" /\ reading = NoReading /\ out = Unknown /\ ticks = 0
UsageNext == Tick \/ Demand \/ PidReused \/ TraceStopped \/ RetryDue
UsageSpec == UsageInit /\ [][UsageNext]_usageVars

-----------------------------------------------------------------------------
\* Type invariant; misses are counted only while the service is the source.
UsageTypeOK ==
    /\ src \in {"undecided", "broker", "local", "unavailable"}
    /\ misses \in 0..(Tolerance - 1) /\ (misses > 0 => src = "broker")
    /\ localUp => src = "local"
    /\ answer \in Answers \cup {"unasked"} /\ out.known \in BOOLEAN

\* A value rests on earlier readings of the same process only, taken since the
\* page has been asking without a gap.  (apply_process_network,
\* carry_process_disk, disk_window.)
BasisHonest ==
    [][(ticks' # ticks /\ out'.basis # NoReading) => out'.basis = [who |-> who, era |-> era]]_usageVars

\* A refusal of the service is never worked around with the GUI's own token.
\* (probe_net_source, probe_disk_source.)
RefusalFinal == [][answer' = "rejected" /\ ticks' # ticks => src' # "local"]_usageVars

\* A service that answers is used in the very tick, also by a sampler that had
\* given it up: nothing has to be restarted.  (net_totals, disk_window.)
ServicePickedUp ==
    [][(ticks' # ticks /\ want /\ src = "unavailable" /\ answer' = "active") => src' = "broker"]_usageVars

-----------------------------------------------------------------------------
(***************************************************************************)
(* TelemetryBroker of crates/tm-platform/src/win/core_service.rs: threads  *)
(* that sample ask the service through one worker, with a deadline.  A     *)
(* call that times out leaves the worker blocked; until it comes back every*)
(* further call is turned away at once.                                    *)
(***************************************************************************)

CONSTANTS Callers,     \* threads that ask
          MaxCalls,    \* bound
          Nobody0      \* the worker is idle, or its thread was never started

VARIABLES
    busy, jobs,            \* the flag, the channel of capacity 1
    serving, freed,        \* the job of the worker; its request is done, its answer not sent
    awaits,                \* the number of the call a thread waits for, 0: none
    calls, got             \* bound; observation: the call whose answer a thread got last
laneVars == <<busy, jobs, serving, freed, awaits, calls, got>>

\* call_with_timeout up to recv_timeout; a channel that has room takes the job.
Ask(c) ==
    /\ awaits[c] = 0 /\ calls < MaxCalls /\ calls' = calls + 1
    /\ IF busy THEN UNCHANGED <<busy, jobs, awaits>>
       ELSE IF jobs = <<>>
       THEN busy' = TRUE /\ jobs' = <<[caller |-> c, call |-> calls + 1]>> /\ awaits' = [awaits EXCEPT ![c] = calls + 1]
       ELSE UNCHANGED <<busy, jobs, awaits>>
    /\ UNCHANGED <<serving, freed, got>>
BusyAfterTimeout == busy
TimesOut(c) ==
    /\ awaits[c] # 0 /\ awaits' = [awaits EXCEPT ![c] = 0] /\ busy' = BusyAfterTimeout
    /\ UNCHANGED <<jobs, serving, freed, calls, got>>
LaneTakes ==
    /\ serving = Nobody0 /\ jobs # <<>> /\ serving' = Head(jobs) /\ jobs' = Tail(jobs) /\ freed' = FALSE
    /\ UNCHANGED <<busy, awaits, calls, got>>
\* The reply channel belongs to the call.
Replies(j) == awaits[j.caller] = j.call
\* The worker clears the flag before it answers.
LaneFrees ==
    /\ serving # Nobody0 /\ ~freed /\ freed' = TRUE /\ busy' = FALSE
    /\ UNCHANGED <<jobs, serving, awaits, calls, got>>
LaneAnswers ==
    /\ serving # Nobody0 /\ freed /\ serving' = Nobody0 /\ freed' = FALSE
    /\ IF Replies(serving)
       THEN awaits' = [awaits EXCEPT ![serving.caller] = 0]
            /\ got' = [got EXCEPT ![serving.caller] = [asked |-> awaits[serving.caller], answer |-> serving.call]]
       ELSE UNCHANGED <<awaits, got>>
    /\ UNCHANGED <<busy, jobs, calls>>

LaneInit ==
    /\ busy = FALSE /\ jobs = <<>> /\ serving = Nobody0 /\ freed = FALSE /\ awaits = [c \in Callers |-> 0]
    /\ calls = 0 /\ got = [c \in Callers |-> [asked |-> 0, answer |-> 0]]
LaneNext == LaneTakes \/ LaneFrees \/ LaneAnswers \/ \E c \in Callers : Ask(c) \/ TimesOut(c)
LaneSpec == LaneInit /\ [][LaneNext]_laneVars

-----------------------------------------------------------------------------
\* However many calls time out, one request is with the service at a time and
\* none piles up behind it.  (TelemetryBroker::call_with_timeout.)
OneInFlight ==
    /\ Len(jobs) + (IF serving = Nobody0 \/ freed THEN 0 ELSE 1) <= 1
    /\ ~busy => jobs = <<>> /\ (serving = Nobody0 \/ freed)
\* A late answer is never taken for the answer to a later call.
AnswerIsOwn == \A c \in Callers : got[c].asked = got[c].answer

\* Per-process usage: one call is in flight and its answer goes to its own caller, a
\* rate rests on totals of the same source without a gap, a refusal is final, and a
\* service that comes back is picked up.
UsageHonest ==
  /\ []UsageTypeOK /\ []OneInFlight /\ []AnswerIsOwn /\ BasisHonest /\ RefusalFinal
  /\ ServicePickedUp
=============================================================================
