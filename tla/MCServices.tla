----------------------------- MODULE MCServices -----------------------------
(***************************************************************************)
(* The core service and its clients in one run of TLC: the broker, the     *)
(* lane the samplers ask it through, where the sampler takes its values    *)
(* from, the sessions of the kernel traces and what is read from them.     *)
(* Each behaviour follows one of them, the focus.                          *)
(***************************************************************************)
EXTENDS Broker, UsageSources, TraceSessions

VARIABLE focus

vars == <<focus, brokerVars, laneVars, usageVars, traceVars, windowVars>>

Init ==
    /\ focus \in {"broker", "lane", "usage", "sessions", "windows"}
    /\ BrokerInit /\ LaneInit /\ UsageInit /\ TraceInit /\ WindowInit
    /\ focus # "usage" => kind = "net"
    /\ focus # "sessions" => trace = "net"
    /\ focus # "windows" => part = "module" /\ loaded = {}

InBroker(A) == focus = "broker" /\ A /\ UNCHANGED <<focus, laneVars, usageVars, traceVars, windowVars>>
InLane(A) == focus = "lane" /\ A /\ UNCHANGED <<focus, brokerVars, usageVars, traceVars, windowVars>>
InUsage(A) == focus = "usage" /\ A /\ UNCHANGED <<focus, brokerVars, laneVars, traceVars, windowVars>>
InSessions(A) == focus = "sessions" /\ A /\ UNCHANGED <<focus, brokerVars, laneVars, usageVars, windowVars>>
InWindows(A) == focus = "windows" /\ A /\ UNCHANGED <<focus, brokerVars, laneVars, usageVars, traceVars>>

Next ==
    \/ InBroker(BrokerNext) \/ InLane(LaneNext) \/ InUsage(UsageNext)
    \/ InSessions(TraceNext) \/ InWindows(WindowNext)

\* BrokerFairness and TraceFairness: the actions of a component out of focus
\* are never enabled.
Fairness ==
    /\ WF_vars(InBroker(Accepts) \/ InSessions(Watches))
    /\ WF_vars(InBroker(StopperWakes) \/ InSessions(IdlePasses))

LiveSpec == Init /\ [][Next]_vars /\ Fairness
=============================================================================
