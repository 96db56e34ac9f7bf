------------------------------ MODULE Instance ------------------------------
(***************************************************************************)
(* Coordination of the instances of one logon session:                     *)
(* crates/tm-platform/src/win/instance.rs, called from crates/tm-app/src/  *)
(* main.rs. A launch asks the primary instance to show itself and exits,   *)
(* becomes the primary, or runs uncoordinated. Named kernel objects live   *)
(* while some process holds a handle; both events reset when one wait is   *)
(* satisfied. The primary's listener thread and UI thread belong to the    *)
(* owner of the mutex. A window handle is abstracted to its process.       *)
(***************************************************************************)
EXTENDS Naturals, FiniteSets

CONSTANTS
    Procs,         \* launches of the program
    Replacements,  \* those started by "restart elevated", with the handoff flag
    None,
    CanProbe,      \* a launch may send messages to the primary's window (no UIPI)
    Faults         \* among "close", "wedge", "crash", "objects"

ASSUME InstanceAssumption ==
    /\ Replacements \subseteq Procs /\ None \notin Procs
    /\ CanProbe \in BOOLEAN
    /\ Faults \subseteq {"close", "wedge", "crash", "objects"}

VARIABLES
    pc,        \* where each process is
    stage,     \* which call of the handshake it makes: main, run_gui, acquire
    marked,    \* PROBE_UNRESPONSIVE
    seen,      \* the record read: pid and window
    owner,     \* owner of the mutex
    handles,   \* processes holding the mutex open; the name exists while there are any
    events,    \* processes holding the two events open
    show, ack, \* the events
    mapped,    \* processes holding the section open
    section,   \* SharedInfo
    ui,        \* the primary's UI thread: "down", "starting", "up", "wedged"
    uiReq,     \* TRAY_ACTION holds an open request
    listener,  \* show listener: "none", "on", "poll" (on the UI thread), "stopping"
    \* Observation: who was answered since it asked; whether a show was asked for
    \* since the last one; the worst that happened: "none", "exit", "fault".
    served, asked, trouble

procVars == <<pc, stage, marked, seen>>
objVars == <<owner, handles, events, show, ack, mapped, section>>
uiVars == <<ui, uiReq, listener>>
ghostVars == <<served, asked, trouble>>
vars == <<procVars, objVars, uiVars, ghostVars>>

Gone == {"off", "deferred", "dead"}
Dropping == {"drop", "stop", "join", "unmap", "release"}
Alive(p) == pc[p] \notin Gone
Go(p, where) == pc' = [pc EXCEPT ![p] = where]

Fault == trouble' = "fault"
Exit == trouble' = IF trouble = "fault" THEN trouble ELSE "exit"

\* p closes its handles; an event nobody holds is gone with its state.
CloseHandles(p) ==
    /\ handles' = handles \ {p}
    /\ events' = events \ {p}
    /\ show' = (show /\ events' # {}) /\ ack' = (ack /\ events' # {})
CloseEvents(p) ==
    /\ events' = events \ {p}
    /\ show' = (show /\ events' # {}) /\ ack' = (ack /\ events' # {})
    /\ UNCHANGED handles

-----------------------------------------------------------------------------
(* A launch, up to the handshake.                                           *)

Launch(p) ==
    /\ pc[p] = "off" /\ p \notin Replacements
    /\ Go(p, "open") /\ stage' = [stage EXCEPT ![p] = "main"]
    /\ UNCHANGED <<marked, seen, objVars, uiVars, ghostVars>>

\* activate_existing: main asks once, run_gui once more.
OpenMutex(p) ==
    /\ pc[p] = "open"
    /\ \/ /\ handles # {}
          /\ Go(p, "read") /\ events' = events \cup {p}
          /\ UNCHANGED <<stage, marked, trouble>>
       \/ /\ handles = {}
          /\ IF stage[p] = "main" THEN stage' = [stage EXCEPT ![p] = "gui"] /\ UNCHANGED pc
                                  ELSE Go(p, "create") /\ UNCHANGED stage
          /\ UNCHANGED <<events, marked, trouble>>
       \/ /\ "objects" \in Faults /\ Fault
          /\ Go(p, "create") /\ marked' = [marked EXCEPT ![p] = TRUE]
          /\ UNCHANGED <<events, stage>>
    /\ UNCHANGED <<seen, owner, handles, show, ack, mapped, section, uiVars, served, asked>>

\* What the caller of the handshake makes of its outcome.
Activated(p) ==
    /\ Go(p, "deferred")
    /\ IF stage[p] = "acquire" THEN CloseHandles(p) ELSE CloseEvents(p)
    /\ UNCHANGED <<stage, marked>>
Unresponsive(p) ==
    IF stage[p] = "acquire"
      THEN Go(p, "running") /\ CloseHandles(p) /\ UNCHANGED <<stage, marked>>
      ELSE /\ Go(p, "create") /\ CloseEvents(p)
           /\ marked' = [marked EXCEPT ![p] = TRUE] /\ UNCHANGED stage

-----------------------------------------------------------------------------
(* The handshake.                                                           *)

HasRecord == mapped # {} /\ section.magic

HandshakeRead(p) ==
    /\ pc[p] = "read"
    /\ IF HasRecord /\ ~Alive(section.pid)
         THEN Unresponsive(p)
         ELSE Go(p, "reset") /\ UNCHANGED <<stage, marked, handles, events, show, ack>>
    /\ UNCHANGED <<seen, owner, mapped, section, uiVars, ghostVars>>

\* Mutation: an acknowledgement left over from an earlier launch is kept.
HandshakeResetForgets(p) ==
    /\ pc[p] = "reset"
    /\ Go(p, "ask") /\ served' = served \ {p}
    /\ UNCHANGED <<stage, marked, seen, objVars, uiVars, asked, trouble>>
HandshakeReset(p) ==
    /\ pc[p] = "reset"
    /\ ack' = FALSE
    /\ Go(p, "ask")
    /\ served' = served \ {p}
    /\ UNCHANGED <<stage, marked, seen, owner, handles, events, show, mapped, section, uiVars, asked, trouble>>

HandshakeAsk(p) ==
    /\ pc[p] = "ask"
    /\ \/ /\ show' = TRUE /\ asked' = TRUE
          /\ Go(p, "wait1")
          /\ UNCHANGED <<stage, marked, handles, events, ack, trouble>>
       \/ "objects" \in Faults /\ Fault /\ Unresponsive(p) /\ UNCHANGED asked
    /\ UNCHANGED <<seen, owner, mapped, section, uiVars, served>>

\* The wait for the acknowledgement consumes it, whoever it was meant for.
WaitAck(p) ==
    /\ pc[p] \in {"wait1", "wait2"} /\ ack
    /\ Go(p, "deferred")
    /\ events' = events \ {p} /\ handles' = IF stage[p] = "acquire" THEN handles \ {p} ELSE handles
    /\ ack' = FALSE /\ show' = (show /\ events' # {})
    /\ UNCHANGED <<stage, marked, seen, owner, mapped, section, uiVars, ghostVars>>

\* A wait runs out. That is a fault while an instance whose UI runs, or is about
\* to, still has the request before it.
NobodyToAnswer == IF owner = None THEN TRUE ELSE ui = "wedged" \/ pc[owner] \in Dropping
RunsOut ==
    /\ ~ack
    /\ IF NobodyToAnswer \/ (~show /\ ~uiReq) THEN UNCHANGED trouble ELSE Fault
Wait1Timeout(p) ==
    /\ pc[p] = "wait1" /\ RunsOut
    /\ Go(p, "map")
    /\ UNCHANGED <<stage, marked, seen, objVars, uiVars, served, asked>>

\* read_primary_info in its steps: open the section, load magic and pid, load
\* the window. Without a record there is nothing to probe.
ReadMap(p) ==
    /\ pc[p] = "map"
    /\ IF mapped # {} THEN mapped' = mapped \cup {p} /\ Go(p, "pid")
                      ELSE Go(p, "wait2") /\ UNCHANGED mapped
    /\ UNCHANGED <<stage, marked, seen, owner, handles, events, show, ack, section, uiVars, ghostVars>>
ReadPid(p) ==
    /\ pc[p] = "pid"
    /\ IF section.magic
         THEN /\ seen' = [seen EXCEPT ![p].pid = section.pid]
              /\ Go(p, "hwnd") /\ UNCHANGED mapped
         ELSE mapped' = mapped \ {p} /\ Go(p, "wait2") /\ UNCHANGED seen
    /\ UNCHANGED <<stage, marked, owner, handles, events, show, ack, section, uiVars, ghostVars>>
ReadHwnd(p) ==
    /\ pc[p] = "hwnd"
    /\ seen' = [seen EXCEPT ![p].hwnd = section.hwnd]
    /\ mapped' = mapped \ {p}
    /\ IF ~Alive(seen[p].pid) THEN Unresponsive(p)
       ELSE /\ Go(p, IF section.hwnd = None THEN "wait2" ELSE "probe")
            /\ UNCHANGED <<stage, marked, handles, events, show, ack>>
    /\ UNCHANGED <<owner, section, uiVars, ghostVars>>

\* window_responds: a window that pumps messages is raised and the request taken
\* as handled, one that does not loses it; no answer is no proof.
Probe(p) ==
    /\ pc[p] = "probe"
    /\ \/ CanProbe /\ owner = seen[p].hwnd /\ ui = "up" /\ Activated(p) /\ served' = served \cup {p}
       \/ CanProbe /\ owner = seen[p].hwnd /\ ui = "wedged" /\ Unresponsive(p) /\ UNCHANGED served
       \/ /\ ~CanProbe \/ owner # seen[p].hwnd \/ ui \in {"down", "starting"}
          /\ Go(p, "wait2")
          /\ UNCHANGED <<stage, marked, handles, events, show, ack, served>>
    /\ UNCHANGED <<seen, owner, mapped, section, uiVars, asked, trouble>>

Wait2Timeout(p) ==
    /\ pc[p] = "wait2" /\ RunsOut
    /\ Unresponsive(p)
    /\ UNCHANGED <<seen, owner, mapped, section, uiVars, served, asked>>

-----------------------------------------------------------------------------
(* acquire.                                                                 *)

\* Mutation: a mutex that already existed is taken for an own one.
CreateAlways(p) ==
    /\ pc[p] = "create"
    /\ handles' = handles \cup {p} /\ events' = events \cup {p}
    /\ owner' = p /\ Go(p, "publish") /\ UNCHANGED stage
    /\ UNCHANGED <<marked, seen, show, ack, mapped, section, uiVars, ghostVars>>

Create(p) ==
    /\ pc[p] = "create"
    /\ \/ /\ handles = {}
          /\ owner' = p /\ Go(p, "publish")
          /\ handles' = {p} /\ events' = events \cup {p} /\ UNCHANGED <<stage, trouble>>
       \/ /\ handles # {} /\ p \in Replacements
          /\ Go(p, "waitMutex")
          /\ handles' = handles \cup {p} /\ events' = events \cup {p}
          /\ UNCHANGED <<owner, stage, trouble>>
       \/ /\ handles # {} /\ p \notin Replacements /\ marked[p]
          /\ Go(p, "running")
          /\ UNCHANGED <<owner, handles, events, stage, trouble>>
       \/ /\ handles # {} /\ p \notin Replacements /\ ~marked[p]
          /\ Go(p, "read") /\ stage' = [stage EXCEPT ![p] = "acquire"]
          /\ handles' = handles \cup {p} /\ events' = events \cup {p}
          /\ UNCHANGED <<owner, trouble>>
       \/ /\ "objects" \in Faults /\ Fault
          /\ Go(p, "running")
          /\ UNCHANGED <<owner, handles, events, stage>>
    /\ UNCHANGED <<marked, seen, show, ack, mapped, section, uiVars, served, asked>>

\* The replacement waits for the outgoing instance; a dead owner's mutex is
\* inherited.
WaitMutex(p) ==
    /\ pc[p] = "waitMutex" /\ owner = None
    /\ owner' = p /\ Go(p, "publish")
    /\ UNCHANGED <<stage, marked, seen, handles, events, show, ack, mapped, section, uiVars, ghostVars>>
WaitMutexTimeout(p) ==
    /\ pc[p] = "waitMutex" /\ owner # None /\ Fault
    /\ Go(p, "running") /\ CloseHandles(p)
    /\ UNCHANGED <<stage, marked, seen, owner, mapped, section, uiVars, served, asked>>

\* The record is written pid first, window next, magic last, in a section that
\* a reader may have kept from the previous primary; without one the launch
\* goes on all the same.
PublishPid(p) ==
    /\ pc[p] = "publish"
    /\ \/ /\ mapped' = mapped \cup {p}
          /\ section' = IF mapped = {} THEN [pid |-> p, hwnd |-> None, magic |-> FALSE]
                                       ELSE [section EXCEPT !.pid = p]
          /\ Go(p, "publishHwnd") /\ UNCHANGED trouble
       \/ /\ "objects" \in Faults /\ Fault
          /\ Go(p, "listen") /\ UNCHANGED <<mapped, section>>
    /\ UNCHANGED <<stage, marked, seen, owner, handles, events, show, ack, uiVars, served, asked>>
PublishHwnd(p) ==
    /\ pc[p] = "publishHwnd"
    /\ section' = [section EXCEPT !.hwnd = None]
    /\ Go(p, "publishMagic")
    /\ UNCHANGED <<stage, marked, seen, owner, handles, events, show, ack, mapped, uiVars, ghostVars>>
PublishMagic(p) ==
    /\ pc[p] = "publishMagic"
    /\ section' = [section EXCEPT !.magic = TRUE]
    /\ Go(p, "listen")
    /\ UNCHANGED <<stage, marked, seen, owner, handles, events, show, ack, mapped, uiVars, ghostVars>>
StartListener(p) ==
    /\ pc[p] = "listen"
    /\ Go(p, "running")
    /\ ui' = "starting" /\ uiReq' = FALSE
    /\ \/ listener' = "on" /\ UNCHANGED trouble
       \/ "objects" \in Faults /\ listener' = "poll" /\ Fault
    /\ UNCHANGED <<stage, marked, seen, objVars, served, asked>>

-----------------------------------------------------------------------------
(* The primary: its listener, its UI thread, its end.                       *)

Primary == owner # None /\ pc[owner] = "running"

\* The first frame publishes the window and can answer from then on.
PublishWindow ==
    /\ Primary /\ ui = "starting"
    /\ ui' = "up"
    /\ section' = IF owner \in mapped THEN [section EXCEPT !.hwnd = owner] ELSE section
    /\ UNCHANGED <<procVars, owner, handles, events, show, ack, mapped, uiReq, listener, ghostVars>>

ListenerWakes ==
    /\ owner # None /\ show
    /\ show' = FALSE
    /\ \/ listener = "on" /\ uiReq' = TRUE /\ UNCHANGED listener
       \/ listener = "poll" /\ ui = "up" /\ uiReq' = TRUE /\ UNCHANGED listener
       \/ listener = "stopping" /\ listener' = "none" /\ UNCHANGED uiReq
    /\ UNCHANGED <<procVars, owner, handles, events, ack, mapped, section, ui, ghostVars>>

HotkeyPress ==
    /\ Primary /\ ui = "up"
    /\ uiReq' = TRUE /\ asked' = TRUE
    /\ UNCHANGED <<procVars, objVars, ui, listener, served, trouble>>

\* restore_window ends in acknowledge_show.
RestoreWindow ==
    /\ Primary /\ ui = "up" /\ uiReq
    /\ uiReq' = FALSE /\ ack' = TRUE
    /\ served' = Procs /\ asked' = show
    /\ UNCHANGED <<procVars, owner, handles, events, show, mapped, section, ui, listener, trouble>>

Wedge ==
    /\ "wedge" \in Faults /\ Primary
    /\ \/ ui = "up" /\ ui' = "wedged"
       \/ ui = "wedged" /\ ui' = "up"
    /\ Fault
    /\ UNCHANGED <<procVars, objVars, uiReq, listener, served, asked>>

\* q's window closes: the primary goes on to drop its claim, an uncoordinated
\* instance has nothing to release.
Shut(q, where) ==
    /\ pc[q] = "running"
    /\ IF q = owner THEN ui = "up" /\ ui' = "down" /\ pc' = [where EXCEPT ![q] = "drop"]
                    ELSE pc' = [where EXCEPT ![q] = "dead"] /\ UNCHANGED ui
    /\ Exit
    /\ UNCHANGED <<stage, marked, seen, objVars, uiReq, listener, served, asked>>
Close(p) == "close" \in Faults /\ Shut(p, pc)
\* "Restart elevated" starts p and closes the instance it was clicked in.
RelaunchElevated(p) ==
    /\ pc[p] = "off" /\ p \in Replacements
    /\ \E q \in Procs \ Replacements : Shut(q, [pc EXCEPT ![p] = "create"])

DropListener(p) ==
    /\ pc[p] = "drop"
    /\ IF listener = "on" THEN listener' = "stopping" /\ Go(p, "stop")
                          ELSE listener' = "none" /\ Go(p, "unmap")
    /\ UNCHANGED <<stage, marked, seen, objVars, ui, uiReq, ghostVars>>
DropSignal(p) ==
    /\ pc[p] = "stop"
    /\ show' = TRUE /\ Go(p, "join")
    /\ UNCHANGED <<stage, marked, seen, owner, handles, events, ack, mapped, section, uiVars, ghostVars>>
DropJoin(p) ==
    /\ pc[p] = "join" /\ listener = "none"
    /\ Go(p, "unmap")
    /\ UNCHANGED <<stage, marked, seen, objVars, uiVars, ghostVars>>
DropSection(p) ==
    /\ pc[p] = "unmap"
    /\ mapped' = mapped \ {p} /\ Go(p, "release")
    /\ UNCHANGED <<stage, marked, seen, owner, handles, events, show, ack, section, uiVars, ghostVars>>
DropMutex(p) ==
    /\ pc[p] = "release"
    /\ owner' = None /\ Go(p, "dead") /\ CloseHandles(p)
    /\ UNCHANGED <<stage, marked, seen, mapped, section, uiVars, ghostVars>>

\* A process is killed: the kernel closes its handles and abandons its mutex.
Crash(p) ==
    /\ "crash" \in Faults /\ Alive(p)
    /\ Go(p, "dead") /\ CloseHandles(p)
    /\ mapped' = mapped \ {p}
    /\ IF p = owner THEN owner' = None /\ ui' = "down" /\ uiReq' = FALSE /\ listener' = "none"
                    ELSE UNCHANGED <<owner, uiVars>>
    /\ Fault
    \* A kill before the listener took its wake-up leaves that as a request.
    /\ asked' = (asked \/ (p = owner /\ pc[p] = "join"))
    /\ UNCHANGED <<stage, marked, seen, section, served>>

-----------------------------------------------------------------------------
Init ==
    /\ pc = [p \in Procs |-> "off"] /\ stage = [p \in Procs |-> "main"]
    /\ marked = [p \in Procs |-> FALSE]
    /\ seen = [p \in Procs |-> [pid |-> None, hwnd |-> None]]
    /\ owner = None /\ handles = {} /\ events = {} /\ mapped = {}
    /\ show = FALSE /\ ack = FALSE
    /\ section = [pid |-> None, hwnd |-> None, magic |-> FALSE]
    /\ ui = "down" /\ uiReq = FALSE /\ listener = "none"
    /\ served = {} /\ asked = FALSE /\ trouble = "none"

LaunchStep(p) ==
    \/ OpenMutex(p) \/ HandshakeRead(p) \/ HandshakeReset(p) \/ HandshakeAsk(p)
    \/ WaitAck(p) \/ Wait1Timeout(p) \/ ReadMap(p) \/ ReadPid(p) \/ ReadHwnd(p)
    \/ Probe(p) \/ Wait2Timeout(p)
    \/ Create(p) \/ WaitMutex(p) \/ WaitMutexTimeout(p)
    \/ PublishPid(p) \/ PublishHwnd(p) \/ PublishMagic(p) \/ StartListener(p)
DropStep(p) ==
    DropListener(p) \/ DropSignal(p) \/ DropJoin(p) \/ DropSection(p) \/ DropMutex(p)
UiStep == PublishWindow \/ RestoreWindow

Next ==
    \/ \E p \in Procs : \/ Launch(p) \/ RelaunchElevated(p) \/ LaunchStep(p)
                        \/ Close(p) \/ DropStep(p) \/ Crash(p)
    \/ UiStep \/ ListenerWakes \/ HotkeyPress \/ Wedge

Spec == Init /\ [][Next]_vars

\* Every launch is scheduled, waits with a time limit end, and the primary's
\* threads run; a wedged UI owes nothing.
LiveSpec ==
    /\ Spec
    /\ \A p \in Procs : WF_vars(LaunchStep(p)) /\ WF_vars(DropStep(p))
    /\ WF_vars(UiStep) /\ WF_vars(ListenerWakes)

-----------------------------------------------------------------------------
\* Type invariant.
Places == Gone \cup Dropping \cup
    {"open", "read", "reset", "ask", "wait1", "map", "pid", "hwnd", "probe", "wait2", "create",
     "waitMutex", "publish", "publishHwnd", "publishMagic", "listen", "running"}
TypeOK ==
    /\ pc \in [Procs -> Places]
    /\ stage \in [Procs -> {"main", "gui", "acquire"}] /\ marked \in [Procs -> BOOLEAN]
    /\ seen \in [Procs -> [pid : Procs \cup {None}, hwnd : Procs \cup {None}]]
    /\ owner \in Procs \cup {None}
    /\ handles \subseteq Procs /\ events \subseteq Procs /\ mapped \subseteq Procs
    /\ section \in [pid : Procs \cup {None}, hwnd : Procs \cup {None}, magic : BOOLEAN]
    /\ show \in BOOLEAN /\ ack \in BOOLEAN /\ uiReq \in BOOLEAN /\ asked \in BOOLEAN
    /\ ui \in {"down", "starting", "up", "wedged"}
    /\ listener \in {"none", "on", "poll", "stopping"}
    /\ served \subseteq Procs /\ trouble \in {"none", "exit", "fault"}

\* Whoever acts as the primary, from the record to the end of its drop, owns
\* the mutex, so two never publish or listen at once. (acquire, Primary::drop)
PrimaryOwnsMutex ==
    \A p \in Procs :
        pc[p] \in {"publish", "publishHwnd", "publishMagic", "listen"} \cup Dropping
            => owner = p /\ p \in handles

\* A launch defers only to an instance whose UI thread answered after the launch
\* cleared the acknowledgement, or whose window proved that it pumps messages:
\* an acknowledgement left over from an earlier request never ends a launch.
\* (handshake's ResetEvent)
DeferredWasServed ==
    [][\A p \in Procs : pc[p] # "deferred" /\ pc'[p] = "deferred" => p \in served']_vars

\* The window is never shown to a user who did not ask: stopping the outgoing
\* listener through the show event does not leave a request for the successor.
\* (Primary::drop joins its listener; a kill in between is excused.)
NoSpuriousShow == uiReq => asked

\* A primary whose UI runs is never duplicated: as long as no process exits, dies
\* or hangs, no kernel object fails and no answer is late, racing launches leave
\* one task manager. "Exactly one of them may become the running task manager"
\* (instance.rs:4, and handshake's comment on a slow instance).
AtMostOneRuns == Cardinality({p \in Procs : pc[p] = "running"}) <= 1
OneTaskManager == trouble = "none" => AtMostOneRuns

\* The same with orderly exits in between, where the module comment makes no
\* exception for a launch that meets an instance on its way out.
OneTaskManagerAcrossExit == trouble # "fault" => AtMostOneRuns

\* Every launch comes to an end, it runs a task manager of its own or found one
\* that answered, and every exit releases the claim, whatever hangs or dies on
\* the way. (acquire, handshake: every wait has a time limit; Primary::drop.)
LaunchesEnd == <>[](\A p \in Procs : pc[p] \in Gone \cup {"running"})

\* What no launch may do: a healthy primary is not duplicated, a launch gives way only
\* to an instance that answered it, and nothing but a request shows the window.
LaunchesSafe ==
  []TypeOK /\ []OneTaskManager /\ []NoSpuriousShow /\ DeferredWasServed

\* Every launch ends in a window: all of that, and every launch and every exit comes
\* to an end.
LaunchesServed == LaunchesSafe /\ LaunchesEnd
=============================================================================
