--------------------------- MODULE ProcessActions ---------------------------
(***************************************************************************)
(* What a user does to a process (crates/tm-platform/src/win:              *)
(* process_ops.rs, BrokeredActions and dispatch of core_service.rs).  A    *)
(* row names a PID and, if it was sampled, the second its process started. *)
(* Until the action is carried out, by the service or with the token of    *)
(* the GUI, processes start and end and PIDs are given out again.          *)
(***************************************************************************)
EXTENDS Naturals, FiniteSets

CONSTANTS Pids, GuiPid, SvcPid,   \* PIDs; those of TaskMan and of its service
          Tried,                  \* bound: the operations tried
          MaxProcs, MaxSecs,      \* bounds: processes started, seconds passed
          NoProc, NoStart

ASSUME ActionAssumption ==
    /\ GuiPid \notin Pids /\ SvcPid \notin Pids \cup {GuiPid} /\ IsFiniteSet(Pids)
    /\ MaxProcs \in Nat \ {0} /\ NoStart \notin Nat

VARIABLES
    proc,          \* the machine: PID -> [id, pid, sec, parent, critical, above], or NoProc
    past, sec,     \* every process there was; the second of the clock
    ask,           \* the row and the operation: [op, pid, start]
    step, side,    \* where the operation is; "local", "service"
    handle,        \* the process its handle refers to
    kids, listed,  \* descendants still to end: [pid, sec]; observation: those found
    trouble,       \* a child could not be ended
    seen,          \* the process whose modules were listed
    hits,          \* observation: processes that were changed: [p, op, by]
    outcome, refused   \* how it ended; observation: the service refused
machine == <<proc, past, sec>>
work == <<handle, kids, listed, trouble, seen, hits, outcome>>
actionVars == <<machine, ask, step, side, work, refused>>

AllPids == Pids \cup {GuiPid, SvcPid}
ActAlive == {proc[q] : q \in {q \in AllPids : proc[q] # NoProc}}
Process(i, q, s, up, c, above) == [id |-> i, pid |-> q, sec |-> s, parent |-> up, critical |-> c, above |-> above]

-----------------------------------------------------------------------------
(* What an operation is. *)

Terminates == {"kill", "tree"}
Suspends == {"suspend", "resume"}
Schedules == {"priority", "affinity"}
Throttles == {"eco", "uneco"}
Virtualizes == {"uac"}
Unloads == {"unload"}
RestartsShell == {"explorer"}
ListsModules == {"modules"} \cup Unloads
Inspects == {"security"}
ReadsMask == {"mask"}
Dumps == {"dump"}
Reads == {"modules"} \cup Inspects \cup ReadsMask \cup Dumps
Ops == Terminates \cup Suspends \cup Schedules \cup Throttles \cup Virtualizes \cup Unloads \cup RestartsShell \cup Reads

\* Requests the service takes; a dump and a shell restart keep the user's token.
Brokered(op) == op \notin Dumps \cup RestartsShell
\* refuse_self: the direction that would slow TaskMan's own keyboard hook.
SlowsSelf(op) == op \in {"suspend", "eco"} \cup Schedules \cup Unloads
NeedsStart(op) == op \in Unloads
\* open_destructive_process_verified.
Destructive(op) == op \notin Reads
\* dispatch: the target is checked for every change and for the affinity mask.
Targeted(op) == op \notin {"modules"} \cup Inspects

Own == IF side = "service" THEN SvcPid ELSE GuiPid
Ends(how) == step' = "done" /\ outcome' = how
\* Reads of a rejecting service are tried locally, changes never.
MayRetry(op) == op \in {"modules"} \cup Inspects
\* The operation failed where it is: a service answers with the error.
Fails(how) ==
    IF side = "service" /\ MayRetry(ask.op) THEN step' = "open" /\ side' = "local" /\ UNCHANGED outcome
    ELSE Ends(how) /\ UNCHANGED side

\* unit_or_local, value_or_local.
Route(up) ==
    /\ step = "route"
    /\ IF ask.start = NoStart /\ NeedsStart(ask.op) THEN Ends("failed") /\ UNCHANGED side
       ELSE /\ UNCHANGED outcome
            /\ IF Brokered(ask.op) /\ ask.start # NoStart /\ up THEN side' = "service" /\ step' = "check"
               ELSE side' = "local" /\ step' = "open"
    /\ UNCHANGED <<machine, ask, handle, kids, listed, trouble, seen, hits, refused>>

Protected == {SvcPid, GuiPid}
\* checked_target, refuse_critical_process.
Check ==
    /\ step = "check"
    /\ IF Targeted(ask.op) /\ (ask.pid \in Protected \/ (IF proc[ask.pid] = NoProc THEN TRUE ELSE proc[ask.pid].critical))
       THEN Fails("refused") /\ refused' = TRUE
       ELSE step' = "open" /\ UNCHANGED <<side, outcome, refused>>
    /\ UNCHANGED <<machine, ask, handle, kids, listed, trouble, seen, hits>>

\* Mutation: the PID is taken for the process.
MatchesPid(p, s) == TRUE
\* creation_matches, on the handle that will be used.
Matches(p, s) == s = NoStart \/ p.sec = s
\* refuse_critical_handle.
Barred(p) == p.critical
\* open_process_verified, open_destructive_process_verified.
Open ==
    /\ step = "open"
    /\ LET p == proc[ask.pid] IN
       \/ IF SlowsSelf(ask.op) /\ ask.pid = Own THEN Fails("refused") /\ UNCHANGED handle
          ELSE IF p = NoProc THEN Fails("gone") /\ UNCHANGED handle
          ELSE IF ~Matches(p, ask.start) THEN Fails("gone") /\ UNCHANGED handle
          ELSE IF Destructive(ask.op) /\ Barred(p) THEN Fails("refused") /\ UNCHANGED handle
          ELSE /\ handle' = p /\ UNCHANGED <<side, outcome>>
               /\ step' = IF ask.op = "tree" THEN "list" ELSE IF ask.op \in ListsModules THEN "snap" ELSE "act"
       \/ Fails("failed") /\ UNCHANGED handle
    /\ UNCHANGED <<machine, ask, kids, listed, trouble, seen, hits, refused>>

Hit(p) == hits' = hits \cup {[p |-> p, op |-> ask.op, by |-> side]}
StillThere(p) == proc[p.pid] = p
\* The system call on the handle.  A process that is gone counts as ended, and
\* for everything else the call fails.
Act ==
    /\ step = "act"
    /\ \/ /\ StillThere(handle)
          /\ IF ask.op \in Reads THEN UNCHANGED <<proc, hits>>
             ELSE Hit(handle) /\ proc' = IF ask.op \in {"kill"} \cup RestartsShell THEN [proc EXCEPT ![handle.pid] = NoProc] ELSE proc
          /\ seen' = IF ask.op \in Reads THEN handle ELSE seen
          /\ Ends("ok") /\ UNCHANGED side
       \/ ~StillThere(handle) /\ ask.op = "kill" /\ Ends("ok") /\ UNCHANGED <<side, proc, hits, seen>>
       \/ Fails("failed") /\ UNCHANGED <<proc, hits, seen>>
    /\ UNCHANGED <<past, sec, ask, handle, kids, listed, trouble, refused>>

-----------------------------------------------------------------------------
(* A process tree. *)

\* Mutation: a child is whoever names the PID as its parent.
ChildOfPid(c, p) == c.parent = p.pid /\ c.pid # p.pid
\* An older child names a parent PID that was given out again since.
ChildOf(c, p) == c.parent = p.pid /\ c.pid # p.pid /\ c.id >= p.id
\* descendants: breadth first over one table of the kernel.
Descendants(root) ==
    LET Reach[n \in 0..Cardinality(AllPids)] ==
            IF n = 0 THEN {root}
            ELSE Reach[n - 1] \cup {c \in ActAlive : \E p \in Reach[n - 1] : ChildOf(c, p)}
    IN  Reach[Cardinality(AllPids)] \ {root}
Key(p) == [pid |-> p.pid, sec |-> p.sec]
\* collect_children_with_births.
List ==
    /\ step = "list"
    /\ \/ LET found == Descendants(handle) IN
          kids' = {Key(p) : p \in found} /\ listed' = found /\ step' = "verify" /\ UNCHANGED <<outcome, side>>
       \/ Fails("failed") /\ UNCHANGED <<kids, listed>>
    /\ UNCHANGED <<machine, ask, handle, trouble, seen, hits, refused>>
\* verify_pid_still_refers_to.
StillRefers == StillThere(handle)
Verify ==
    /\ step = "verify"
    /\ IF StillRefers
       THEN CASE ask.op = "tree" -> step' = "kids" /\ UNCHANGED <<outcome, side>>
              [] ask.op = "unload" -> step' = "act" /\ UNCHANGED <<outcome, side>>
              [] ask.op = "modules" -> Ends("ok") /\ UNCHANGED side
       ELSE Fails("gone")
    /\ UNCHANGED <<machine, ask, handle, kids, listed, trouble, seen, hits, refused>>

\* Mutation: the GUI that asked is not spared by the service.
SparedOwn == {Own}
\* Neither the process that does it nor the GUI that asked.
Spared == {Own, GuiPid}
Noted == TRUE
\* terminate_verified of one child; in which order is left open.
EndChild(k) ==
    /\ step = "kids" /\ k \in kids /\ kids' = kids \ {k}
    /\ LET p == proc[k.pid] IN
       IF k.pid \in Spared THEN UNCHANGED <<proc, hits, trouble>>
       ELSE IF p = NoProc THEN UNCHANGED <<proc, hits, trouble>>
       ELSE IF ~Matches(p, k.sec) THEN UNCHANGED <<proc, hits, trouble>>
       ELSE \/ ~Barred(p) /\ Hit(p) /\ proc' = [proc EXCEPT ![k.pid] = NoProc] /\ UNCHANGED trouble
            \/ trouble' = Noted /\ UNCHANGED <<proc, hits>>
    /\ UNCHANGED <<past, sec, ask, step, side, handle, listed, seen, outcome, refused>>
EndRoot ==
    /\ step = "kids" /\ kids = {}
    /\ \/ /\ IF StillThere(handle) THEN Hit(handle) /\ proc' = [proc EXCEPT ![handle.pid] = NoProc] ELSE UNCHANGED <<proc, hits>>
          /\ Ends(IF trouble THEN "failed" ELSE "ok")
       \/ Ends("failed") /\ UNCHANGED <<proc, hits>>
    /\ UNCHANGED <<past, sec, ask, side, handle, kids, listed, trouble, seen, refused>>

\* module_snapshot enumerates whoever has the PID.
Snap ==
    /\ step = "snap"
    /\ \/ proc[ask.pid] # NoProc /\ seen' = proc[ask.pid] /\ step' = "verify" /\ UNCHANGED <<outcome, side>>
       \/ Fails("failed") /\ UNCHANGED seen
    /\ UNCHANGED <<machine, ask, handle, kids, listed, trouble, hits, refused>>

-----------------------------------------------------------------------------
(* The machine. *)

\* Bound: nothing happens after the operation.
MachineOnly == step # "done" /\ UNCHANGED <<ask, step, side, work, refused>>
\* Bound: the children of the service stand for the critical processes.
Starts(q, up) ==
    /\ Cardinality(past) < MaxProcs /\ proc[q] = NoProc /\ proc[up] # NoProc /\ q \in Pids
    /\ LET p == Process(Cardinality(past) + 1, q, sec, up, up = SvcPid, proc[up].above \cup {proc[up].id}) IN
       proc' = [proc EXCEPT ![q] = p] /\ past' = past \cup {p}
    /\ UNCHANGED sec /\ MachineOnly
Exits(q) ==
    /\ q \in Pids /\ proc[q] # NoProc /\ proc' = [proc EXCEPT ![q] = NoProc]
    /\ UNCHANGED <<past, sec>> /\ MachineOnly
SecondPasses == sec < MaxSecs /\ sec' = sec + 1 /\ UNCHANGED <<proc, past>> /\ MachineOnly

\* A row of the snapshot, with its start or without; the user takes some time.
Asks(op, q, known) ==
    /\ step = "idle" /\ proc[q] # NoProc /\ step' = "route"
    /\ ask' = [op |-> op, pid |-> q, start |-> IF known THEN proc[q].sec ELSE NoStart]
    /\ UNCHANGED <<machine, side, work, refused>>

\* The shell started the GUI.
ActionInit ==
    /\ \E shell \in Pids :
        LET svc == Process(1, SvcPid, 0, SvcPid, FALSE, {})
            top == Process(2, shell, 0, SvcPid, FALSE, {1})
            gui == Process(3, GuiPid, 0, shell, FALSE, {1, 2})
        IN  /\ past = {svc, top, gui}
            /\ proc = [q \in AllPids |-> CASE q = SvcPid -> svc [] q = GuiPid -> gui [] q = shell -> top [] OTHER -> NoProc]
    /\ sec = 0 /\ ask = [op |-> "kill", pid |-> GuiPid, start |-> NoStart]
    /\ step = "idle" /\ side = "local" /\ handle = NoProc /\ kids = {} /\ listed = {} /\ trouble = FALSE
    /\ seen = NoProc /\ hits = {} /\ outcome = "none" /\ refused = FALSE
ActionNext ==
    \/ \E op \in Ops \cap Tried, q \in AllPids, known \in BOOLEAN : Asks(op, q, known)
    \/ \E up \in BOOLEAN : Route(up)
    \/ Check \/ Open \/ Act \/ List \/ Verify \/ EndRoot \/ Snap
    \/ \E k \in kids : EndChild(k)
    \/ \E q \in Pids, up \in AllPids : Starts(q, up)
    \/ \E q \in Pids : Exits(q)
    \/ SecondPasses
ActionSpec == ActionInit /\ [][ActionNext]_actionVars

-----------------------------------------------------------------------------
\* The processes the row can stand for: a start is known to the second.
Meant == {p \in past : p.pid = ask.pid /\ p.sec = ask.start}
Below == {p \in past : \E m \in Meant : m.id \in p.above}
Same(p, S) == \E m \in S : Key(m) = Key(p)

\* A change hits the process of the row, or for a tree one that descends from
\* it, and never a stranger that has the PID by then (within the second that a
\* start is known to).  (open_process_verified, descendants, terminate_verified.)
OnlyMeant ==
    \A h \in hits : ask.start # NoStart => Same(h.p, Meant) \/ (h.op = "tree" /\ Same(h.p, Below))

\* Nothing destructive is done to a critical process, by the service or with an
\* elevated token.  (refuse_critical_handle.)
CriticalSafe == \A h \in hits : ~h.p.critical

\* TaskMan never slows itself down and never ends itself with a tree it is in,
\* whoever carries the request out.  (refuse_self, checked_target,
\* kill_process_excluding.)
SelfSafe == \A h \in hits : h.p.pid = GuiPid => ~SlowsSelf(h.op) /\ (h.op = "tree" => ask.pid = GuiPid)

\* The service acts on a sampled process only, never on a bare PID, and what it
\* refuses is not done another way.  (BrokeredActions, unit_or_local.)
RefusalStands ==
    /\ \A h \in hits : h.by = "service" => ask.start # NoStart
    /\ refused => \A h \in hits : FALSE

\* A tree that is reported as ended is: no process that was found is left, but
\* those spared.  (kill_process_excluding.)
TreeDone ==
    [][step = "kids" /\ outcome' = "ok" => \A p \in listed : p.pid \in {Own, GuiPid} \/ proc'[p.pid] # p]_actionVars

\* What a read shows belongs to the process of the row.  (list_process_modules,
\* process_security_info.)
ShownMeant == outcome = "ok" /\ ask.op \in Reads /\ ask.start # NoStart => Same(seen, Meant)

\* A command reaches the process it was given for, through reused PIDs and through the
\* service: never a critical process, never the program itself, and a refusal of the
\* service is not retried with the GUI's token; a tree reported as ended is.
ActionsSafe ==
  /\ [](OnlyMeant /\ CriticalSafe /\ SelfSafe /\ RefusalStands /\ ShownMeant)
  /\ TreeDone
=============================================================================
