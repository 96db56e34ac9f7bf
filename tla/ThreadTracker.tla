---------------------------- MODULE ThreadTracker ----------------------------
(***************************************************************************)
(* What the Threads page claims about the threads of a process, and the     *)
(* Modules page about the modules they started in (tabs/threads.rs Tracker, *)
(* tabs/modules.rs module_activity).                                        *)
(*                                                                         *)
(* A query notes the time, then lists the threads with their counters. The  *)
(* frame that takes the result replaces every track and row; nothing it     *)
(* computes depends on when that is, so it is taken as it is listed. Times  *)
(* are ages, counted up to Cap. `moved` stands for the counters: what of a  *)
(* thread's switches and CPU time or cycles advanced since the last listing.*)
(***************************************************************************)
EXTENDS Integers

CONSTANTS Tids,        \* thread identifiers, reused by later threads
          InModule,    \* TIDs of threads that start in the module of interest
          Unreadable,  \* TIDs of threads whose start address is not known
          Dormant,     \* DORMANT_AFTER, in units of time
          MaxDelay,    \* bound on how long a query runs before it lists
          NoThread     \* no thread, track, row, time or query

ASSUME TrackerAssumption ==
  /\ Dormant \in Nat \ {0} /\ MaxDelay \in Nat
  /\ InModule \subseteq Tids /\ Unreadable \subseteq Tids
  /\ NoThread \notin Int

VARIABLES threads,     \* TID -> [fresh, on, ran, moved]: not in the last listing, has a processor, last had one
          query,       \* age of the query that runs
          sampled,     \* age of the sample the tracks come from
          tracks,      \* TID -> [since, active, watch]: last_active or else first_seen, which of them, observing
          shown        \* TID -> [activity, ran]: the row, and the thread's last run, before the sample

trackerVars == <<threads, query, sampled, tracks, shown>>

Cap == 2 * Dormant + MaxDelay + 1

Older(age) == IF age = NoThread \/ age = Cap THEN age ELSE age + 1

-----------------------------------------------------------------------------
TrackerInit ==
  /\ threads = [t \in Tids |-> NoThread]
  /\ query = NoThread
  /\ sampled = NoThread
  /\ tracks = [t \in Tids |-> NoThread]
  /\ shown = [t \in Tids |-> NoThread]

\* Time passes; a thread that holds a processor uses it.
TrackerTick ==
  /\ query # NoThread => query < MaxDelay
  /\ query' = Older(query)
  /\ sampled' = Older(sampled)
  /\ threads' = [t \in Tids |-> IF threads[t] = NoThread THEN NoThread
                                ELSE IF threads[t].on THEN [threads[t] EXCEPT !.ran = 0, !.moved = IF @ = "no" THEN "cpu" ELSE @]
                                ELSE [threads[t] EXCEPT !.ran = Older(@)]]
  /\ tracks' = [t \in Tids |-> IF tracks[t] = NoThread THEN NoThread
                               ELSE [tracks[t] EXCEPT !.since = Older(@), !.watch = Older(@)]]
  /\ UNCHANGED shown

ThreadStarts(t) ==
  /\ threads[t] = NoThread
  /\ threads' = [threads EXCEPT ![t] = [fresh |-> TRUE, on |-> FALSE, ran |-> 0, moved |-> "switch"]]
  /\ UNCHANGED <<query, sampled, tracks, shown>>

ThreadExits(t) ==
  /\ threads[t] # NoThread
  /\ threads' = [threads EXCEPT ![t] = NoThread]
  /\ UNCHANGED <<query, sampled, tracks, shown>>

\* It is given a processor, for longer or only for a moment.
ThreadRuns(t) ==
  /\ threads[t] # NoThread
  /\ \E on \in BOOLEAN :
       threads' = [threads EXCEPT ![t].on = on, ![t].ran = 0, ![t].moved = IF threads[t].on THEN @ ELSE "switch"]
  /\ UNCHANGED <<query, sampled, tracks, shown>>

-----------------------------------------------------------------------------
\* Poll::start: one query at a time; it notes the time first.
QueryStarts ==
  /\ query = NoThread
  /\ query' = 0
  /\ UNCHANGED <<threads, sampled, tracks, shown>>

QueryFails ==
  /\ query # NoThread
  /\ query' = NoThread
  /\ UNCHANGED <<threads, sampled, tracks, shown>>

\* A TID names the same thread only while its creation time matches.
Continues(t) == tracks[t] # NoThread /\ ~threads[t].fresh

AppliedIgnoringGaps(t) ==
  LET ran == Continues(t) /\ threads[t].moved # "no"
  IN  IF threads[t].on \/ ran THEN [since |-> query, active |-> TRUE, watch |-> NoThread]
      ELSE IF Continues(t) THEN tracks[t] ELSE [since |-> query, active |-> FALSE, watch |-> query]

\* Tracker::apply, the history of one thread: counters that advanced across a
\* gap longer than Dormant say only that it ran at some time in it.
Applied(t) ==
  LET ran == Continues(t) /\ threads[t].moved # "no"
      gap == sampled - query > Dormant
  IN  IF threads[t].on THEN [since |-> query, active |-> TRUE, watch |-> NoThread]
      ELSE IF ran THEN [since |-> query, active |-> TRUE, watch |-> IF gap THEN query ELSE NoThread]
      ELSE IF Continues(t) THEN tracks[t]
      ELSE [since |-> query, active |-> FALSE, watch |-> query]

\* ... and the claim made from it.
Activity(t, tr) ==
  LET idle == tr.since - query >= Dormant
  IN  IF threads[t].on THEN "running"
      ELSE IF tr.watch = NoThread THEN IF idle THEN "idle" ELSE IF tr.active THEN "recent" ELSE "observing"
      ELSE IF tr.watch - query < Dormant THEN "observing"
      ELSE IF idle THEN "idle" ELSE "recent"

\* The threads are listed, and every track and row replaced.
QueryLists ==
  /\ query # NoThread
  /\ LET up  == {t \in Tids : threads[t] # NoThread}
         new == [t \in up |-> Applied(t)]
         act == [t \in up |-> Activity(t, new[t])]
     IN  /\ tracks' = [t \in Tids |-> IF t \notin up THEN NoThread
                                      ELSE IF act[t] = "observing" THEN new[t] ELSE [new[t] EXCEPT !.watch = NoThread]]
         /\ shown' = [t \in Tids |-> IF t \notin up THEN NoThread ELSE [activity |-> act[t], ran |-> threads[t].ran - query]]
         /\ threads' = [t \in Tids |-> IF t \notin up THEN NoThread ELSE [threads[t] EXCEPT !.moved = "no", !.fresh = FALSE]]
  /\ sampled' = query
  /\ query' = NoThread

TrackerNext ==
  \/ TrackerTick \/ QueryStarts \/ QueryLists \/ QueryFails
  \/ \E t \in Tids : ThreadStarts(t) \/ ThreadExits(t) \/ ThreadRuns(t)

TrackerSpec == TrackerInit /\ [][TrackerNext]_trackerVars

-----------------------------------------------------------------------------
Listed == {t \in Tids : shown[t] # NoThread}

Claims(own) == {shown[t].activity : t \in own}

\* module_activity: the threads that start in the module; one whose start is
\* not known might be one of them.
ModuleActivity ==
  LET own == (Listed \ Unreadable) \cap InModule
      unsure == Listed \cap Unreadable # {}
  IN  IF own = {} THEN IF unsure THEN "unknown" ELSE "none"
      ELSE IF "running" \in Claims(own) THEN "running" ELSE IF "recent" \in Claims(own) THEN "recent"
      ELSE IF "observing" \in Claims(own) THEN "observing" ELSE IF unsure THEN "unknown" ELSE "idle"

\* A thread called idle had no processor for Dormant before the sample, up to
\* the time the query itself took: its listing, not its start, is what proved
\* it. Neither a reused TID nor a pause in the sampling makes a busy one idle.
IdleIsTrue == \A t \in Listed : shown[t].activity = "idle" => shown[t].ran >= Dormant - MaxDelay

\* "A thread is idle when, for at least DORMANT_AFTER, it was not in the
\* kernel's Running state and neither its context-switch count, its CPU time
\* nor its cycle counter advanced" (threads.rs:4), however long the query took.
IdleForDormant == \A t \in Listed : shown[t].activity = "idle" => shown[t].ran >= Dormant

\* A thread called recent ran within two continuous windows before the sample:
\* a run somewhere in a long gap of the sampling is never called recent.
RecentIsTrue == \A t \in Listed : shown[t].activity = "recent" => shown[t].ran < 2 * Dormant

\* A module is called idle, or without threads, only if that is true of every
\* thread that started in it, those of unknown start included.
ModuleClaimTrue ==
  LET mine == Listed \cap InModule
  IN  /\ ModuleActivity = "none" => mine = {}
      /\ ModuleActivity = "idle" => \A t \in mine : shown[t].ran >= Dormant - MaxDelay

\* Idle means idle: a thread or a module is called idle only if it did nothing while it
\* was watched, over reused TIDs and gaps in the sampling.
VerdictsTrue ==
  /\ IdleIsTrue /\ RecentIsTrue /\ ModuleClaimTrue
=============================================================================
