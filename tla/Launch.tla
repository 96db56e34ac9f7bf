------------------------------- MODULE Launch -------------------------------
(***************************************************************************)
(* One launch of the GUI, from the command line to a window: main and      *)
(* run_gui hand the launch to a running instance, redirect it to the       *)
(* installed copy, restart it elevated, take the single-instance role and  *)
(* try one renderer after the other.  A redirect and an elevation each     *)
(* spawn the next process of the chain with the arguments of the last one. *)
(* The single-instance protocol itself is module Instance; here it answers *)
(* that an instance was raised, that it hangs, or that there is none.      *)
(***************************************************************************)
EXTENDS Naturals, FiniteSets

CONSTANTS
    LaunchFlags,   \* sets of arguments a launch may come with
    MaxLaunchChanges,    \* bound: changes of the machine while a chain runs
    Backends,      \* how many renderers are compiled in
    NoProcess0     \* no process of this chain is starting

VARIABLES
    task,      \* the process that is starting: its executable, its arguments ...
    asked,     \* history: the arguments the user's launch had
    chain,     \* history: processes started, consent prompts shown, by this chain
    launched,    \* what the launch came to
    hold,      \* who holds the single-instance role: "none", "serving", "hung", "leaving"
    redirectMark, copy, broker, policy, \* the redirect marker, the installed copy, the service, start_elevated
    launchChanges

\* A process of the chain: what it runs as, its arguments, whether it knows of an
\* instance that hangs, where it stands and the renderers it has tried.
Flags == {"verb", "handoff", "unresponsive", "hotkey", "minimized"}
Process0s == [exe : {"portable", "installed"}, elevated : BOOLEAN, args : SUBSET Flags, marked : BOOLEAN,
              at : {"main", "redirect", "gui", "policy", "acquire", "window"}, tried : Nat]
ASSUME LaunchAssumption ==
    LaunchFlags \subseteq SUBSET Flags /\ NoProcess0 \notin Process0s /\ MaxLaunchChanges \in Nat /\ Backends \in Nat

facts == <<redirectMark, copy, broker, policy, launchChanges>>
launchVars == <<task, asked, chain, launched, hold, facts>>

Process0(exe, elevated, args) ==
    [exe |-> exe, elevated |-> elevated, args |-> args, marked |-> FALSE, at |-> "main", tried |-> 0]

LaunchInit ==
    /\ task = NoProcess0 /\ asked = {} /\ launched = "none"
    /\ chain = [started |-> 0, prompts |-> 0]
    /\ hold \in {"none", "serving", "hung"}
    /\ redirectMark \in {"none", "installed", "elsewhere"}
    /\ copy \in {"absent", "same", "differs"}
    /\ broker \in BOOLEAN /\ policy \in BOOLEAN
    /\ launchChanges = 0

Goes(at) == task' = [task EXCEPT !.at = at]
Spawned(exe, elevated, args) ==
    /\ task' = Process0(exe, elevated, args)
    /\ chain' = [chain EXCEPT !.started = @ + 1]

\* The launch is over.
Over(r) == launched' = r /\ task' = NoProcess0

UserLaunches ==
    /\ task = NoProcess0 /\ launched = "none"
    /\ \E e \in {"portable", "installed"}, l \in BOOLEAN, f \in LaunchFlags :
          /\ e = "installed" => copy # "absent"
          /\ Spawned(e, l, f) /\ asked' = f
    /\ UNCHANGED <<launched, hold, facts>>

\* Other launches come and go; a service is installed or removed meanwhile.
MachineChanges ==
    /\ task # NoProcess0 /\ launchChanges < MaxLaunchChanges
    /\ launchChanges' = launchChanges + 1
    /\ \/ \E h \in {"none", "serving", "hung"} : hold' = h /\ UNCHANGED <<redirectMark, copy, broker, policy>>
       \/ \E k \in {"none", "installed"}, c \in {"absent", "same", "differs"}, b \in BOOLEAN :
             redirectMark' = k /\ copy' = c /\ broker' = b /\ UNCHANGED <<hold, policy>>
    /\ UNCHANGED <<task, asked, chain, launched>>

-----------------------------------------------------------------------------
(* main.                                                                    *)

\* The short-lived helpers: the verb is done and no GUI is started.
RunVerb ==
    /\ task # NoProcess0 /\ task.at = "main" /\ "verb" \in task.args
    /\ Over("verb done")
    /\ UNCHANGED <<asked, chain, hold, facts>>

Skips(t) == "handoff" \in t.args \/ t.marked \/ "unresponsive" \in t.args
\* activate_existing, before anything slow: main asks, and run_gui once more.
Activate(from, to) ==
    /\ task # NoProcess0 /\ task.at = from /\ "verb" \notin task.args
    /\ IF ~Skips(task) /\ hold \in {"serving", "leaving"} THEN Over("raised")
       ELSE /\ task' = [task EXCEPT !.at = to,
                                    !.marked = @ \/ "unresponsive" \in task.args
                                                 \/ (~Skips(task) /\ hold = "hung")]
            /\ UNCHANGED launched
    /\ UNCHANGED <<asked, chain, hold, facts>>
ActivateInMain == Activate("main", "redirect")
ActivateInGui == Activate("gui", "policy")

\* client_redirect_marker: a readable per-user marker that names the copy.
Marked == redirectMark = "installed"

\* Mutation: the installed copy redirects like any other.
RedirectTargetAny(t) ==
    ~t.elevated /\ Marked /\ copy = "same"
RedirectTarget(t) ==
    /\ ~t.elevated /\ t.exe # "installed"
    /\ Marked /\ copy = "same"

AfterRedirect == Goes("gui") /\ UNCHANGED <<chain, launched>>

\* redirect_to_installed_gui: a marker whose service is gone is removed, any
\* error leaves the launch where it is.
Redirect ==
    /\ task # NoProcess0 /\ task.at = "redirect"
    /\ \/ /\ RedirectTarget(task) /\ broker
          /\ \/ Spawned("installed", FALSE, task.args) /\ UNCHANGED launched
             \/ AfterRedirect
          /\ UNCHANGED redirectMark
       \/ /\ RedirectTarget(task) /\ ~broker
          /\ redirectMark' = "none" /\ Goes("gui") /\ UNCHANGED <<chain, launched>>
       \/ ~RedirectTarget(task) /\ AfterRedirect /\ UNCHANGED redirectMark
    /\ UNCHANGED <<asked, hold, copy, broker, policy, launchChanges>>

-----------------------------------------------------------------------------
(* run_gui.                                                                 *)

\* Mutation: the elevated process asks again.
NeedsElevationAlways(t) == policy
NeedsElevation(t) == policy /\ ~t.elevated

\* "Always start elevated": a declined prompt degrades to a normal start.
Elevate ==
    /\ task # NoProcess0 /\ task.at = "policy"
    /\ IF NeedsElevation(task)
         THEN \E granted \in BOOLEAN :
                /\ IF granted
                     THEN /\ task' = Process0(task.exe, TRUE,
                                        task.args \cup (IF task.marked THEN {"unresponsive"} ELSE {}))
                          /\ chain' = [started |-> chain.started + 1, prompts |-> chain.prompts + 1]
                     ELSE /\ Goes("acquire") /\ chain' = [chain EXCEPT !.prompts = @ + 1]
                /\ UNCHANGED launched
         ELSE Goes("acquire") /\ UNCHANGED <<chain, launched>>
    /\ UNCHANGED <<asked, hold, facts>>

\* acquire: primary, deferred to the instance that answered, or uncoordinated.
Acquire ==
    /\ task # NoProcess0 /\ task.at = "acquire"
    /\ \/ /\ hold = "none" \/ ("handoff" \in task.args /\ hold = "leaving")
          /\ hold' = "serving" /\ Goes("window") /\ UNCHANGED launched
       \/ /\ hold # "none" /\ "handoff" \notin task.args /\ ~task.marked
          /\ IF hold \in {"serving", "leaving"} THEN Over("raised")
                                                ELSE Goes("window") /\ UNCHANGED launched
          /\ UNCHANGED hold
       \/ /\ hold # "none" /\ ("handoff" \in task.args \/ task.marked)
          /\ Goes("window") /\ UNCHANGED <<launched, hold>>
    /\ UNCHANGED <<asked, chain, facts>>

Hidden(t) == "hotkey" \notin t.args /\ "minimized" \in t.args

\* The loop over the renderers: one window, or the next attempt.
TryRenderer ==
    /\ task # NoProcess0 /\ task.at = "window" /\ task.tried < Backends
    /\ \/ Over(IF Hidden(task) THEN "hidden" ELSE "shown")
       \/ task' = [task EXCEPT !.tried = @ + 1] /\ UNCHANGED launched
    /\ UNCHANGED <<asked, chain, hold, facts>>
NoRenderer ==
    /\ task # NoProcess0 /\ task.at = "window" /\ task.tried = Backends
    /\ Over("no renderer")
    /\ UNCHANGED <<asked, chain, hold, facts>>

-----------------------------------------------------------------------------
(* A running window that hands its session to another process.              *)

\* relaunch_elevated and relaunch_into_installed_gui; this session then closes.
HandOver ==
    /\ task = NoProcess0 /\ launched \in {"shown", "hidden"}
    /\ \/ Spawned("portable", TRUE, {"handoff"})
       \/ copy # "absent" /\ broker /\ Spawned("installed", FALSE, asked \cup {"handoff"})
    /\ launched' = "none" /\ asked' = task'.args
    /\ hold' = IF hold = "serving" THEN "leaving" ELSE hold
    /\ UNCHANGED facts
HandOverEnds ==
    /\ hold = "leaving" /\ hold' = "none"
    /\ UNCHANGED <<task, asked, chain, launched, facts>>

LaunchNext ==
    \/ UserLaunches \/ MachineChanges \/ RunVerb \/ ActivateInMain \/ Redirect \/ ActivateInGui
    \/ Elevate \/ Acquire \/ TryRenderer \/ NoRenderer \/ HandOverEnds
    \/ HandOver /\ chain.started < 3

LaunchSpec == LaunchInit /\ [][LaunchNext]_launchVars

-----------------------------------------------------------------------------
(* Properties.                                                              *)

HandedOver == "handoff" \in asked

\* Whatever the marker, the copies and the policy become on the way, a launch
\* is at most the portable copy, the installed one and its elevated child, and
\* asks for consent at most once: no redirect or elevation loop.
ChainBounded ==
    ~HandedOver => chain.started <= 3 /\ chain.prompts <= 1

\* "a launch through the hotkey always shows its window": through a redirect
\* and an elevation it ends on a window or on the instance it raised, and no
\* launch is hidden that did not ask for it (run_gui).
HotkeyShows ==
    launched = "hidden" => "minimized" \in asked /\ "hotkey" \notin asked

\* No launch dies without a trace: it ends with a window, with the running
\* instance raised, with its verb done, or after every renderer failed.
EndsInSomething ==
    launched \in {"none", "shown", "hidden", "raised", "verb done", "no renderer"}

\* A session that hands itself over is not raised by its own successor, which
\* would leave no window at all (--single-instance-handoff).
SuccessorOpens ==
    HandedOver => launched # "raised"

\* One launch by the user: redirects and elevations make a bounded chain of processes,
\* the chain ends in something the user sees, the hotkey ends in a visible window, and
\* a successor is not put off by the instance that is about to close.
LaunchHonest ==
  /\ ChainBounded /\ HotkeyShows /\ EndsInSomething /\ SuccessorOpens

=============================================================================
