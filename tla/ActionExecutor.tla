--------------------------- MODULE ActionExecutor ---------------------------
(***************************************************************************)
(* Platform actions off the UI thread (crates/tm-app/src/action_executor.rs*)
(* and the callers in app.rs): two bounded lanes tried in turn, the toast  *)
(* every action ends in, the sample asked for after it, the flag that      *)
(* keeps a second core service change from starting, and the saved process *)
(* rules, applied once to every process that starts.                       *)
(***************************************************************************)
EXTENDS Naturals, Sequences, FiniteSets, Functions

CONSTANTS Cap,            \* jobs a lane holds (32)
          MaxActions,     \* bound: actions the user asks for
          Procs,          \* identities of processes a saved rule applies to
          NoJob           \* a lane that runs nothing

\* Jobs are numbers of actions, or identities of processes whose rule is applied.
ASSUME ExecutorAssumption ==
    /\ Cap \in Nat \ {0} /\ MaxActions \in Nat
    /\ Procs \cap Nat = {} /\ NoJob \notin Procs \cup Nat

VARIABLES
    lanes, running, wedged,   \* the queue of each lane, the job it runs; lanes stuck in a call
    next,                     \* next_lane, modulo the number of lanes
    act,                      \* the actions asked for, see Asked
    inflight,                 \* core_service_change_inflight
    alive, unborn,            \* processes there are, and those still to come
    snap, toQueue,            \* those of the last snapshot; rules of this frame still to queue
    applied, rInflight,       \* process_rules_applied, process_rules_inflight
    failures, results,        \* process_rule_failures, process_rule_results
    tried, told               \* observation: times a rule was applied; toasts about a rule
laneVars == <<lanes, running, wedged, next>>
ruleVars == <<alive, unborn, snap, toQueue, applied, rInflight, failures, results, tried, told>>
execVars == <<laneVars, act, inflight, ruleVars>>

N == Len(lanes)
Lane == 1..N
IsRule(j) == j \in Procs
Queued(j) == \E l \in Lane : j \in Range(lanes[l])
Runs(j) == \E l \in Lane : running[l] = j

-----------------------------------------------------------------------------
(* ActionExecutor. *)

\* try_queue: the lanes in turn, the next one when the first is full.
Room(l) == Len(lanes[l]) < Cap
First == (next % N) + 1
Second == ((next + 1) % N) + 1
HasRoom == N > 0 /\ (Room(First) \/ Room(Second))
TryQueue(j) ==
    /\ next' = IF N = 0 THEN next ELSE (next + 1) % N
    /\ lanes' = IF ~HasRoom THEN lanes
                ELSE LET l == IF Room(First) THEN First ELSE Second IN [lanes EXCEPT ![l] = Append(@, j)]
    /\ UNCHANGED <<running, wedged>>

\* A worker takes its next job; a call into Windows may never come back.
Take(l) ==
    /\ running[l] = NoJob /\ lanes[l] # <<>>
    /\ running' = [running EXCEPT ![l] = Head(lanes[l])]
    /\ lanes' = [lanes EXCEPT ![l] = Tail(@)]
    /\ UNCHANGED <<wedged, next, act, inflight, ruleVars>>
Wedge(l) ==
    /\ running[l] # NoJob /\ wedged = {} /\ wedged' = {l}
    /\ UNCHANGED <<lanes, running, next, act, inflight, ruleVars>>

-----------------------------------------------------------------------------
(* Actions of the user. *)

Kinds == {"batch", "core"}
Outcomes == {"all", "some", "none"}
\* What is known of an action: what became of its targets, its toasts, and
\* whether a sample was asked for after it.
Asked(kind) == [kind |-> kind, out |-> "open", toasts |-> <<>>, refresh |-> FALSE]

\* A change that could not be queued clears the flag again.
ActionRefused(f) == FALSE
\* run_action and run: without room, or without a worker, the toast comes at once.
Submit(kind) ==
    /\ toQueue = {} /\ Len(act) < MaxActions
    /\ kind = "core" => ~inflight
    /\ TryQueue(Len(act) + 1)
    /\ act' = Append(act, IF HasRoom THEN Asked(kind)
                          ELSE [Asked(kind) EXCEPT !.out = "refused", !.toasts = <<"refused">>])
    /\ inflight' = IF kind # "core" THEN inflight ELSE IF HasRoom THEN TRUE ELSE ActionRefused(TRUE)
    /\ UNCHANGED ruleVars

\* apply_batch and finish_core_service_change: every target is tried, a
\* refused one does not stop the others, and the flag is cleared.
Perform(l) ==
    /\ running[l] # NoJob /\ ~IsRule(running[l]) /\ l \notin wedged
    /\ act[running[l]].out = "open"
    /\ \E out \in Outcomes :
         /\ out = "some" => act[running[l]].kind = "batch"
         /\ act' = [act EXCEPT ![running[l]].out = out]
    /\ inflight' = (inflight /\ act[running[l]].kind # "core")
    /\ UNCHANGED <<laneVars, ruleVars>>

\* The toast of the outcome: a refused target makes it an error.
ToastOf(out) == IF out = "all" THEN "ok" ELSE IF out = "some" THEN "partial" ELSE "failed"
Toasts(out) == <<ToastOf(out)>>
\* run_action_refreshing asks for a sample when the job succeeded; then the
\* toast, and the wake.
Report(l) ==
    /\ running[l] # NoJob /\ ~IsRule(running[l])
    /\ LET a == act[running[l]] IN
         /\ a.out \in Outcomes
         /\ act' = [act EXCEPT ![running[l]].toasts = @ \o Toasts(a.out),
                               ![running[l]].refresh = a.kind = "batch" /\ a.out = "all"]
    /\ running' = [running EXCEPT ![l] = NoJob]
    /\ UNCHANGED <<lanes, wedged, next, inflight, ruleVars>>

-----------------------------------------------------------------------------
(* Saved process rules. *)

\* A result ends the attempt.
Drained(p) == p \in rInflight /\ ~\E i \in 1..Len(results) : results[i].p = p
FailuresOf(p) == failures[p] + Cardinality({i \in 1..Len(results) : results[i].p = p /\ ~results[i].ok})
SucceededIn(p) == \E i \in 1..Len(results) : results[i].p = p /\ results[i].ok

\* Mutation: only what this snapshot applied is remembered.
KnownNow(done) == done
Known(done) == (applied \cap alive) \cup done
GivenUp(n) == n >= 3
\* apply_saved_process_rules, with a new snapshot: forget what is gone, take
\* the results, and find the processes whose rule is still to be applied.
Tick ==
    /\ toQueue = {}
    /\ snap' = alive /\ results' = <<>>
    /\ applied' = Known({p \in Procs : SucceededIn(p)})
    /\ rInflight' = {p \in alive : Drained(p)}
    /\ failures' = [p \in Procs |-> IF SucceededIn(p) THEN 0 ELSE
                      LET n == IF p \in alive THEN FailuresOf(p) ELSE FailuresOf(p) - failures[p] IN IF n > 3 THEN 3 ELSE n]
    /\ told' = told \cup {p \in Procs : failures[p] < 3 /\ failures'[p] = 3}
    /\ toQueue' = {p \in alive : p \notin applied' /\ p \notin rInflight' /\ ~GivenUp(failures'[p])}
    /\ UNCHANGED <<laneVars, act, inflight, alive, unborn, tried>>

\* Mutation: a rule that found no room stays marked as in flight.
RuleRefusedStays(p) == rInflight' = rInflight \cup {p} /\ UNCHANGED results
\* No room: a failed attempt, told of like any other.
RuleRefused(p) == results' = Append(results, [p |-> p, ok |-> FALSE]) /\ UNCHANGED rInflight
QueueRule(p) ==
    /\ p \in toQueue /\ toQueue' = toQueue \ {p}
    /\ TryQueue(p)
    /\ IF HasRoom THEN rInflight' = rInflight \cup {p} /\ UNCHANGED results ELSE RuleRefused(p)
    /\ UNCHANGED <<act, inflight, alive, unborn, snap, applied, failures, tried, told>>

\* The worker applies it: it works only on a process that is still there.
RunRule(l) ==
    /\ running[l] # NoJob /\ IsRule(running[l]) /\ l \notin wedged
    /\ \E ok \in BOOLEAN :
         /\ ok => running[l] \in alive
         /\ results' = Append(results, [p |-> running[l], ok |-> ok])
         /\ tried' = [tried EXCEPT ![running[l]] = IF ok THEN @ + 1 ELSE @]
    /\ running' = [running EXCEPT ![l] = NoJob]
    /\ UNCHANGED <<lanes, wedged, next, act, inflight, alive, unborn, snap, toQueue, applied, rInflight, failures, told>>

ProcessStarts(p) == p \in unborn /\ unborn' = unborn \ {p} /\ alive' = alive \cup {p}
                    /\ UNCHANGED <<laneVars, act, inflight, snap, toQueue, applied, rInflight, failures, results, tried, told>>
ProcessExits(p) == p \in alive /\ alive' = alive \ {p}
                   /\ UNCHANGED <<laneVars, act, inflight, unborn, snap, toQueue, applied, rInflight, failures, results, tried, told>>

-----------------------------------------------------------------------------
\* ActionExecutor::start: two lanes, one or none if threads cannot be created.
ExecInit ==
    /\ \E n \in 0..2 : lanes = [l \in 1..n |-> <<>>] /\ running = [l \in 1..n |-> NoJob]
    /\ wedged = {} /\ next = 0 /\ act = <<>> /\ inflight = FALSE
    /\ alive = {} /\ unborn = Procs /\ snap = {} /\ toQueue = {}
    /\ applied = {} /\ rInflight = {} /\ failures = [p \in Procs |-> 0] /\ results = <<>>
    /\ tried = [p \in Procs |-> 0] /\ told = {}

Worker(l) == Take(l) \/ Perform(l) \/ Report(l) \/ RunRule(l)
Frame == Tick \/ \E p \in Procs : QueueRule(p)
ExecNext ==
    \/ \E l \in Lane : Worker(l) \/ Wedge(l)
    \/ Frame
    \/ \E k \in Kinds : Submit(k)
    \/ \E p \in Procs : ProcessStarts(p) \/ ProcessExits(p)

\* A worker goes on unless a call never returns; snapshots keep coming.
ExecFairness == WF_execVars(Frame) /\ \A l \in 1..2 : WF_execVars(l \in Lane /\ Worker(l))
ExecSpec == ExecInit /\ [][ExecNext]_execVars

-----------------------------------------------------------------------------
\* Type invariant.
ExecTypeOK ==
    /\ \A l \in Lane : Len(lanes[l]) <= Cap /\ running[l] \in {NoJob} \cup Procs \cup 1..Len(act)
    /\ next \in 0..1 /\ wedged \subseteq Lane
    /\ snap \cup applied \cup rInflight \subseteq Procs /\ failures \in [Procs -> 0..3]
    /\ \A i \in 1..Len(act) : act[i].kind \in Kinds

\* An action is waiting, running, or answered: with one toast, and a toast of
\* success only if no target refused.  (run, try_queue, apply_batch.)
OneToast ==
    \A i \in 1..Len(act) :
        LET a == act[i] IN
        /\ Len(a.toasts) = IF Queued(i) \/ Runs(i) THEN 0 ELSE 1
        /\ a.toasts = <<"ok">> => a.out = "all"

\* The flag is set exactly while a change of the core service is on its way,
\* so the buttons come back whatever became of it, and two changes never run
\* at once.  (dispatch_core_service_change, finish_core_service_change.)
CoreFlagExact ==
    LET open == {i \in 1..Len(act) : act[i].kind = "core" /\ act[i].out = "open"} IN
    inflight = (open # {}) /\ Cardinality(open) <= 1

\* A process of the snapshot has one attempt of its rule on its way at most,
\* and is marked exactly while it has.  (apply_saved_process_rules.)
RuleOnce ==
    \A p \in Procs :
        LET ways == Cardinality({l \in Lane : p \in Range(lanes[l]) \/ running[l] = p}) IN
        /\ ways <= 1
        /\ p \in snap /\ ways = 1 => p \in rInflight
        /\ p \in snap /\ p \in rInflight => ways = 1 \/ \E i \in 1..Len(results) : results[i].p = p

\* A rule that was applied is not applied again while the process lives.
\* (process_rules_applied.)
AppliedOnce == \A p \in Procs : p \in snap => tried[p] <= 1

\* A rule is applied to a process that stays, or given up with a toast, unless
\* a call never came back.  (apply_saved_process_rules.)
RuleSettles == \A p \in Procs : p \in alive ~> (p \in applied \/ p \in told \/ p \notin alive \/ wedged # {})

\* Every action is answered: an action waits for ever only behind a call that
\* does not return, and the other lane goes on.  (ActionExecutor::start.)
Answered ==
    \A i \in 1..MaxActions :
        (Len(act) >= i /\ act[i].toasts = <<>>) ~>
            ((Len(act) >= i /\ act[i].toasts # <<>>) \/ \E l \in wedged : running[l] = i \/ i \in Range(lanes[l]))

\* The executor at its limits: every accepted or refused job has one toast, the flag of
\* a core-service switch is up exactly while one is on its way, and a process has neither
\* two attempts of a rule at a time nor its rule applied twice.
ExecutorSafe ==
  /\ ExecTypeOK /\ OneToast /\ CoreFlagExact /\ RuleOnce /\ AppliedOnce
=============================================================================
