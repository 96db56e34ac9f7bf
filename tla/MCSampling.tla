----------------------------- MODULE MCSampling -----------------------------
(***************************************************************************)
(* What the sampler finds out, in one run of TLC: the rows of a tick, the  *)
(* CPU load, what is inferred of a process, the counters of the devices,   *)
(* and the times of the threads of one process. They share no state here:  *)
(* each behaviour follows one of them (the focus) while the others stay in *)
(* their initial states.                                                   *)
(***************************************************************************)
EXTENDS Sampler, ProcessFacts, DeviceCounters, ThreadTracker

\* What the classification may see of a process.
MCSorts ==
    {[name |-> "core", owned |-> TRUE, critical |-> FALSE, window |-> FALSE],
     [name |-> "core", owned |-> FALSE, critical |-> FALSE, window |-> FALSE],
     [name |-> "core", owned |-> Unsaid, critical |-> FALSE, window |-> TRUE],
     [name |-> "plain", owned |-> FALSE, critical |-> TRUE, window |-> FALSE],
     [name |-> "plain", owned |-> FALSE, critical |-> FALSE, window |-> TRUE],
     [name |-> "plain", owned |-> FALSE, critical |-> FALSE, window |-> FALSE]}

VARIABLE focus

vars == <<focus, samplerVars, loadVars, factsVars, deviceVars, trackerVars>>

Init ==
    /\ focus \in {"sampler", "load", "facts", "devices", "threads"}
    /\ SamplerInit
    /\ (focus # "load" => wide = FALSE)
    /\ LoadInit
    /\ (focus # "facts" => topic = "owner" /\ world = CHOOSE w \in Worlds : Sound(w))
    /\ FactsInit
    /\ (focus # "devices" => part = "group" /\ pdh = NewGroup(FALSE))
    /\ DeviceInit
    /\ TrackerInit

InSampler(A) == focus = "sampler" /\ A /\ UNCHANGED <<focus, loadVars, factsVars, deviceVars, trackerVars>>
InLoad(A) == focus = "load" /\ A /\ UNCHANGED <<focus, samplerVars, factsVars, deviceVars, trackerVars>>
InFacts(A) == focus = "facts" /\ A /\ UNCHANGED <<focus, samplerVars, loadVars, deviceVars, trackerVars>>
InDevices(A) == focus = "devices" /\ A /\ UNCHANGED <<focus, samplerVars, loadVars, factsVars, trackerVars>>
InThreads(A) == focus = "threads" /\ A /\ UNCHANGED <<focus, samplerVars, loadVars, factsVars, deviceVars>>

Next ==
    \/ InSampler(SamplerNext)
    \/ InLoad(LoadNext)
    \/ InFacts(FactsNext)
    \/ InDevices(DeviceNext)
    \/ InThreads(TrackerNext)

Spec == Init /\ [][Next]_vars
=============================================================================
