------------------------------ MODULE AppProofs ------------------------------
(***************************************************************************)
(* Machine-checked proofs about the program as its user has it: the         *)
(* instances of one logon session (Instance.tla), for any number of         *)
(* launches and replacements and any set of faults; the settings dialog     *)
(* over its starts and ends (SettingsPage.tla), for any number of clicks    *)
(* and starts; the claims of the Threads and Modules pages                  *)
(* (ThreadTracker.tla), for any threads, idle time and query time; and the  *)
(* place a table keeps while its list changes (TableView.tla), for any      *)
(* rows, any height of the window and any number of edits; the safety of    *)
(* the shell (Shell.tla) and of the Services, Startup and Users pages       *)
(* (Pages.tla), for any number of requests and controls.                    *)
(***************************************************************************)
EXTENDS Instance, SettingsPage, ThreadTracker, TableView, Shell, Pages,
        SequenceTheorems, FiniteSetTheorems, WellFoundedInduction, TLAPS

-----------------------------------------------------------------------------
(* The inductive invariant.                                                 *)

Publishing == {"publish", "publishHwnd", "publishMagic", "listen"}
Acting == Publishing \cup Dropping

\* The owner of the mutex is one process that acts as the primary and holds the
\* name, nobody else acts as one, and a replacement that waits for the mutex keeps
\* it open. (acquire, Primary::drop)
OwnerActs ==
    /\ owner # None => owner \in Procs /\ owner \in handles /\ pc[owner] \in Acting \cup {"running"}
    /\ \A p \in Procs : /\ pc[p] \in Acting => p = owner
                        /\ pc[p] = "waitMutex" => p \in handles

\* A request for the window stands behind the show event, except the one that
\* stops the outgoing listener. (Primary::drop, the show listener)
ShowIsAsked ==
    /\ uiReq => asked
    /\ show /\ ~asked => owner # None /\ pc[owner] = "join" /\ listener = "stopping"
    /\ owner # None /\ pc[owner] = "stop" /\ listener # "stopping" => asked

\* An acknowledgement is for every launch that has cleared it. (handshake's ResetEvent)
AckServesAll == ack => served = Procs

InstanceInv == TypeOK /\ OwnerActs /\ ShowIsAsked /\ AckServesAll

-----------------------------------------------------------------------------
(* The outcomes of the handshake.                                           *)

\* A primary that does not answer lets the launch go on: it runs at once, or goes on
\* to the mutex, marked, and closes what it opened. (handshake, acquire)
LEMMA UnresponsiveType ==
    ASSUME TypeOK, NEW p \in Procs, Unresponsive(p)
    PROVE  /\ pc' = [pc EXCEPT ![p] = "running"] \/ pc' = [pc EXCEPT ![p] = "create"]
           /\ pc' \in [Procs -> Places]
           /\ stage' = stage
           /\ marked' \in [Procs -> BOOLEAN]
           /\ handles' \subseteq handles /\ handles \ {p} \subseteq handles'
           /\ events' \subseteq Procs
           /\ (show' => show) /\ (ack' => ack)
           /\ show' \in BOOLEAN /\ ack' \in BOOLEAN
  <1> USE DEF Unresponsive, CloseHandles, CloseEvents, Go, TypeOK, Places
  <1>1. CASE stage[p] = "acquire"
    BY <1>1
  <1>2. CASE stage[p] # "acquire"
    BY <1>2
  <1> QED BY <1>1, <1>2

\* A launch that was answered ends, and closes what it opened. (main, acquire)
LEMMA ActivatedType ==
    ASSUME TypeOK, NEW p \in Procs, Activated(p)
    PROVE  /\ pc' = [pc EXCEPT ![p] = "deferred"]
           /\ pc' \in [Procs -> Places]
           /\ stage' = stage /\ marked' = marked
           /\ handles' \subseteq handles /\ handles \ {p} \subseteq handles'
           /\ events' \subseteq Procs
           /\ (show' => show) /\ (ack' => ack)
           /\ show' \in BOOLEAN /\ ack' \in BOOLEAN
  <1> USE DEF Activated, CloseHandles, CloseEvents, Go, TypeOK, Places, Gone
  <1>1. CASE stage[p] = "acquire"
    BY <1>1
  <1>2. CASE stage[p] # "acquire"
    BY <1>2
  <1> QED BY <1>1, <1>2

-----------------------------------------------------------------------------
(* Types.                                                                   *)

\* The first state is typed, and nobody acts in it.
LEMMA InitInstance == Init => InstanceInv
  <1> SUFFICES ASSUME Init PROVE InstanceInv
    OBVIOUS
  <1> USE InstanceAssumption DEF Init
  <1>1. TypeOK
    <2>1. seen \in [Procs -> [pid : Procs \cup {None}, hwnd : Procs \cup {None}]]
      OBVIOUS
    <2>2. section \in [pid : Procs \cup {None}, hwnd : Procs \cup {None}, magic : BOOLEAN]
      OBVIOUS
    <2>3. pc \in [Procs -> Places] /\ stage \in [Procs -> {"main", "gui", "acquire"}] /\ marked \in [Procs -> BOOLEAN]
      BY DEF Places, Gone
    <2> QED BY <2>1, <2>2, <2>3 DEF TypeOK
  <1>2. OwnerActs
    BY DEF OwnerActs, Acting, Publishing, Dropping
  <1>3. ShowIsAsked
    BY DEF ShowIsAsked
  <1> QED BY <1>1, <1>2, <1>3 DEF InstanceInv, AckServesAll

\* Every step keeps the types.
LEMMA TypeStep ==
    ASSUME TypeOK, Next
    PROVE  TypeOK'
  <1> USE InstanceAssumption DEF procVars, objVars, uiVars, ghostVars, Go, Fault, Exit, TypeOK, Places, Gone, Dropping
  <1>1. ASSUME NEW p \in Procs, Launch(p) PROVE TypeOK'
    BY <1>1 DEF Launch
  <1>2. ASSUME NEW p \in Procs, OpenMutex(p) PROVE TypeOK'
    <2>1. pc' \in [Procs -> Places] /\ stage' \in [Procs -> {"main", "gui", "acquire"}]
      BY <1>2 DEF OpenMutex
    <2>2. marked' \in [Procs -> BOOLEAN]
      BY <1>2 DEF OpenMutex
    <2>3. events' \subseteq Procs /\ trouble' \in {"none", "exit", "fault"}
      BY <1>2 DEF OpenMutex
    <2> QED BY <1>2, <2>1, <2>2, <2>3 DEF OpenMutex
  <1>3. ASSUME NEW p \in Procs, HandshakeRead(p) PROVE TypeOK'
    <2>1. CASE HasRecord /\ ~Alive(section.pid)
      <3>1. Unresponsive(p)
        BY <1>3, <2>1 DEF HandshakeRead
      <3> QED BY <1>3, <3>1, UnresponsiveType DEF HandshakeRead
    <2>2. CASE ~(HasRecord /\ ~Alive(section.pid))
      BY <1>3, <2>2 DEF HandshakeRead
    <2> QED BY <2>1, <2>2
  <1>4. ASSUME NEW p \in Procs, HandshakeReset(p) PROVE TypeOK'
    <2>1. pc' \in [Procs -> Places]
      BY <1>4 DEF HandshakeReset
    <2>2. served' \subseteq Procs /\ ack' \in BOOLEAN
      BY <1>4 DEF HandshakeReset
    <2> QED BY <1>4, <2>1, <2>2 DEF HandshakeReset
  <1>5. ASSUME NEW p \in Procs, HandshakeAsk(p) PROVE TypeOK'
    <2>1. CASE Unresponsive(p) /\ Fault /\ UNCHANGED asked
      BY <1>5, <2>1, UnresponsiveType DEF HandshakeAsk
    <2>2. CASE pc' = [pc EXCEPT ![p] = "wait1"] /\ show' = TRUE /\ asked' = TRUE
               /\ UNCHANGED <<stage, marked, handles, events, ack, trouble>>
      BY <1>5, <2>2 DEF HandshakeAsk
    <2> QED BY <1>5, <2>1, <2>2 DEF HandshakeAsk
  <1>6. ASSUME NEW p \in Procs, WaitAck(p) PROVE TypeOK'
    <2>1. handles' \subseteq Procs /\ events' \subseteq Procs
      BY <1>6 DEF WaitAck
    <2>2. show' \in BOOLEAN /\ ack' \in BOOLEAN
      BY <1>6 DEF WaitAck
    <2>3. pc' \in [Procs -> Places]
      BY <1>6 DEF WaitAck
    <2> QED BY <1>6, <2>1, <2>2, <2>3 DEF WaitAck
  <1>7. ASSUME NEW p \in Procs, Wait1Timeout(p) PROVE TypeOK'
    BY <1>7 DEF Wait1Timeout, RunsOut
  <1>8. ASSUME NEW p \in Procs, ReadMap(p) PROVE TypeOK'
    BY <1>8 DEF ReadMap
  <1>9. ASSUME NEW p \in Procs, ReadPid(p) PROVE TypeOK'
    <2>1. seen' \in [Procs -> [pid : Procs \cup {None}, hwnd : Procs \cup {None}]]
      BY <1>9 DEF ReadPid
    <2>2. pc' \in [Procs -> Places] /\ mapped' \subseteq Procs
      BY <1>9 DEF ReadPid
    <2> QED BY <1>9, <2>1, <2>2 DEF ReadPid
  <1>10. ASSUME NEW p \in Procs, ReadHwnd(p) PROVE TypeOK'
    <2>1. seen' \in [Procs -> [pid : Procs \cup {None}, hwnd : Procs \cup {None}]] /\ mapped' \subseteq Procs
      BY <1>10 DEF ReadHwnd
    <2>2. CASE Unresponsive(p)
      BY <1>10, <2>1, <2>2, UnresponsiveType DEF ReadHwnd
    <2>3. CASE /\ pc' = [pc EXCEPT ![p] = IF section.hwnd = None THEN "wait2" ELSE "probe"]
               /\ UNCHANGED <<stage, marked, handles, events, show, ack>>
      <3>1. pc' \in [Procs -> Places]
        BY <2>3
      <3> QED BY <1>10, <2>1, <2>3, <3>1 DEF ReadHwnd
    <2> QED BY <1>10, <2>2, <2>3 DEF ReadHwnd
  <1>11. ASSUME NEW p \in Procs, Probe(p) PROVE TypeOK'
    <2>1. CASE Activated(p) /\ served' = served \cup {p}
      BY <1>11, <2>1, ActivatedType DEF Probe
    <2>2. CASE Unresponsive(p) /\ UNCHANGED served
      BY <1>11, <2>2, UnresponsiveType DEF Probe
    <2>3. CASE pc' = [pc EXCEPT ![p] = "wait2"] /\ UNCHANGED <<stage, marked, handles, events, show, ack, served>>
      BY <1>11, <2>3 DEF Probe
    <2> QED BY <1>11, <2>1, <2>2, <2>3 DEF Probe
  <1>12. ASSUME NEW p \in Procs, Wait2Timeout(p) PROVE TypeOK'
    <2>1. Unresponsive(p) /\ trouble' \in {"none", "exit", "fault"}
      BY <1>12 DEF Wait2Timeout, RunsOut
    <2> QED BY <1>12, <2>1, UnresponsiveType DEF Wait2Timeout
  <1>13. ASSUME NEW p \in Procs, Create(p) PROVE TypeOK'
    <2>1. pc' \in [Procs -> Places] /\ stage' \in [Procs -> {"main", "gui", "acquire"}]
      BY <1>13 DEF Create
    <2>2. handles' \subseteq Procs /\ events' \subseteq Procs /\ owner' \in Procs \cup {None}
      BY <1>13 DEF Create
    <2> QED BY <1>13, <2>1, <2>2 DEF Create
  <1>14. ASSUME NEW p \in Procs, WaitMutex(p) PROVE TypeOK'
    BY <1>14 DEF WaitMutex
  <1>15. ASSUME NEW p \in Procs, WaitMutexTimeout(p) PROVE TypeOK'
    BY <1>15 DEF WaitMutexTimeout, CloseHandles
  <1>16. ASSUME NEW p \in Procs, PublishPid(p) PROVE TypeOK'
    <2>1. section' \in [pid : Procs \cup {None}, hwnd : Procs \cup {None}, magic : BOOLEAN]
      <3>1. [section EXCEPT !.pid = p] \in [pid : Procs \cup {None}, hwnd : Procs \cup {None}, magic : BOOLEAN]
        OBVIOUS
      <3>2. [pid |-> p, hwnd |-> None, magic |-> FALSE] \in [pid : Procs \cup {None}, hwnd : Procs \cup {None}, magic : BOOLEAN]
        OBVIOUS
      <3> QED BY <1>16, <3>1, <3>2 DEF PublishPid
    <2>2. pc' \in [Procs -> Places]
      BY <1>16 DEF PublishPid
    <2>3. mapped' \subseteq Procs
      BY <1>16 DEF PublishPid
    <2> QED BY <1>16, <2>1, <2>2, <2>3 DEF PublishPid
  <1>17. ASSUME NEW p \in Procs, PublishHwnd(p) PROVE TypeOK'
    BY <1>17 DEF PublishHwnd
  <1>18. ASSUME NEW p \in Procs, PublishMagic(p) PROVE TypeOK'
    <2>1. section' \in [pid : Procs \cup {None}, hwnd : Procs \cup {None}, magic : BOOLEAN]
      BY <1>18 DEF PublishMagic
    <2>2. pc' \in [Procs -> Places]
      BY <1>18 DEF PublishMagic
    <2> QED BY <1>18, <2>1, <2>2 DEF PublishMagic
  <1>19. ASSUME NEW p \in Procs, StartListener(p) PROVE TypeOK'
    BY <1>19 DEF StartListener
  <1>20. ASSUME NEW p \in Procs, DropListener(p) PROVE TypeOK'
    BY <1>20 DEF DropListener
  <1>21. ASSUME NEW p \in Procs, DropSignal(p) PROVE TypeOK'
    BY <1>21 DEF DropSignal
  <1>22. ASSUME NEW p \in Procs, DropJoin(p) PROVE TypeOK'
    BY <1>22 DEF DropJoin
  <1>23. ASSUME NEW p \in Procs, DropSection(p) PROVE TypeOK'
    BY <1>23 DEF DropSection
  <1>24. ASSUME NEW p \in Procs, DropMutex(p) PROVE TypeOK'
    BY <1>24 DEF DropMutex, CloseHandles
  <1>25. ASSUME NEW p \in Procs, Crash(p) PROVE TypeOK'
    BY <1>25 DEF Crash, CloseHandles
  <1>26. ASSUME NEW p \in Procs, Close(p) PROVE TypeOK'
    BY <1>26 DEF Close, Shut
  <1>27. ASSUME NEW p \in Procs, RelaunchElevated(p) PROVE TypeOK'
    BY <1>27 DEF RelaunchElevated, Shut
  <1>28. CASE PublishWindow
    BY <1>28 DEF PublishWindow, Primary
  <1>29. CASE RestoreWindow
    BY <1>29 DEF RestoreWindow, Primary
  <1>30. CASE ListenerWakes
    BY <1>30 DEF ListenerWakes, Primary
  <1>31. CASE HotkeyPress
    BY <1>31 DEF HotkeyPress, Primary
  <1>32. CASE Wedge
    BY <1>32 DEF Wedge, Primary
  <1> QED
    BY <1>1, <1>2, <1>3, <1>4, <1>5, <1>6, <1>7, <1>8, <1>9, <1>10, <1>11, <1>12, <1>13, <1>14,
       <1>15, <1>16, <1>17, <1>18, <1>19, <1>20, <1>21, <1>22, <1>23, <1>24, <1>25, <1>26,
       <1>27, <1>28, <1>29, <1>30, <1>31, <1>32
    DEF Next, LaunchStep, DropStep, UiStep

\* Whoever takes the mutex finds nobody acting as the primary, and whoever lets it go stops acting. (acquire, Primary::drop)
LEMMA OwnerStep ==
    ASSUME TypeOK, OwnerActs, Next
    PROVE  OwnerActs'
  <1> USE InstanceAssumption DEF procVars, objVars, uiVars, ghostVars, Go, Fault, Exit, TypeOK, Places, Gone, Dropping, OwnerActs, Acting, Publishing
  <1>1. ASSUME NEW p \in Procs, Launch(p) PROVE OwnerActs'
    BY <1>1 DEF Launch
  <1>2. ASSUME NEW p \in Procs, OpenMutex(p) PROVE OwnerActs'
    BY <1>2 DEF OpenMutex
  <1>3. ASSUME NEW p \in Procs, HandshakeRead(p) PROVE OwnerActs'
    BY <1>3 DEF HandshakeRead, Unresponsive, CloseHandles, CloseEvents
  <1>4. ASSUME NEW p \in Procs, HandshakeReset(p) PROVE OwnerActs'
    BY <1>4 DEF HandshakeReset
  <1>5. ASSUME NEW p \in Procs, HandshakeAsk(p) PROVE OwnerActs'
    BY <1>5 DEF HandshakeAsk, Unresponsive, CloseHandles, CloseEvents
  <1>6. ASSUME NEW p \in Procs, WaitAck(p) PROVE OwnerActs'
    BY <1>6 DEF WaitAck
  <1>7. ASSUME NEW p \in Procs, Wait1Timeout(p) PROVE OwnerActs'
    BY <1>7 DEF Wait1Timeout, RunsOut
  <1>8. ASSUME NEW p \in Procs, ReadMap(p) PROVE OwnerActs'
    BY <1>8 DEF ReadMap
  <1>9. ASSUME NEW p \in Procs, ReadPid(p) PROVE OwnerActs'
    BY <1>9 DEF ReadPid
  <1>10. ASSUME NEW p \in Procs, ReadHwnd(p) PROVE OwnerActs'
    BY <1>10 DEF ReadHwnd, Unresponsive, CloseHandles, CloseEvents
  <1>11. ASSUME NEW p \in Procs, Probe(p) PROVE OwnerActs'
    BY <1>11 DEF Probe, Activated, Unresponsive, CloseHandles, CloseEvents
  <1>12. ASSUME NEW p \in Procs, Wait2Timeout(p) PROVE OwnerActs'
    BY <1>12 DEF Wait2Timeout, Unresponsive, CloseHandles, CloseEvents, RunsOut
  <1>13. ASSUME NEW p \in Procs, Create(p) PROVE OwnerActs'
    BY <1>13 DEF Create
  <1>14. ASSUME NEW p \in Procs, WaitMutex(p) PROVE OwnerActs'
    <2>1. p \in handles
      BY <1>14 DEF WaitMutex
    <2>2. \A r \in Procs : pc[r] \notin Acting
      BY <1>14 DEF WaitMutex
    <2> QED BY <1>14, <2>1, <2>2 DEF WaitMutex
  <1>15. ASSUME NEW p \in Procs, WaitMutexTimeout(p) PROVE OwnerActs'
    BY <1>15 DEF WaitMutexTimeout, CloseHandles
  <1>16. ASSUME NEW p \in Procs, PublishPid(p) PROVE OwnerActs'
    BY <1>16 DEF PublishPid
  <1>17. ASSUME NEW p \in Procs, PublishHwnd(p) PROVE OwnerActs'
    BY <1>17 DEF PublishHwnd
  <1>18. ASSUME NEW p \in Procs, PublishMagic(p) PROVE OwnerActs'
    BY <1>18 DEF PublishMagic
  <1>19. ASSUME NEW p \in Procs, StartListener(p) PROVE OwnerActs'
    BY <1>19 DEF StartListener
  <1>20. ASSUME NEW p \in Procs, DropListener(p) PROVE OwnerActs'
    BY <1>20 DEF DropListener
  <1>21. ASSUME NEW p \in Procs, DropSignal(p) PROVE OwnerActs'
    BY <1>21 DEF DropSignal
  <1>22. ASSUME NEW p \in Procs, DropJoin(p) PROVE OwnerActs'
    BY <1>22 DEF DropJoin
  <1>23. ASSUME NEW p \in Procs, DropSection(p) PROVE OwnerActs'
    BY <1>23 DEF DropSection
  <1>24. ASSUME NEW p \in Procs, DropMutex(p) PROVE OwnerActs'
    BY <1>24 DEF DropMutex, CloseHandles
  <1>25. ASSUME NEW p \in Procs, Crash(p) PROVE OwnerActs'
    BY <1>25 DEF Crash, CloseHandles
  <1>26. ASSUME NEW p \in Procs, Close(p) PROVE OwnerActs'
    BY <1>26 DEF Close, Shut
  <1>27. ASSUME NEW p \in Procs, RelaunchElevated(p) PROVE OwnerActs'
    BY <1>27 DEF RelaunchElevated, Shut
  <1>28. CASE PublishWindow
    BY <1>28 DEF PublishWindow, Primary
  <1>29. CASE RestoreWindow
    BY <1>29 DEF RestoreWindow, Primary
  <1>30. CASE ListenerWakes
    BY <1>30 DEF ListenerWakes, Primary
  <1>31. CASE HotkeyPress
    BY <1>31 DEF HotkeyPress, Primary
  <1>32. CASE Wedge
    BY <1>32 DEF Wedge, Primary
  <1> QED
    BY <1>1, <1>2, <1>3, <1>4, <1>5, <1>6, <1>7, <1>8, <1>9, <1>10, <1>11, <1>12, <1>13, <1>14,
       <1>15, <1>16, <1>17, <1>18, <1>19, <1>20, <1>21, <1>22, <1>23, <1>24, <1>25, <1>26,
       <1>27, <1>28, <1>29, <1>30, <1>31, <1>32
    DEF Next, LaunchStep, DropStep, UiStep

\* The show event is set by a request or for the listener that is to stop.
LEMMA ShowStep ==
    ASSUME TypeOK, OwnerActs, ShowIsAsked, Next
    PROVE  ShowIsAsked'
  <1> USE InstanceAssumption DEF procVars, objVars, uiVars, ghostVars, Go, Fault, Exit, TypeOK, Dropping, OwnerActs, Acting, Publishing, ShowIsAsked
  <1>1. ASSUME NEW p \in Procs, Launch(p) PROVE ShowIsAsked'
    BY <1>1 DEF Launch
  <1>2. ASSUME NEW p \in Procs, OpenMutex(p) PROVE ShowIsAsked'
    BY <1>2 DEF OpenMutex
  <1>3. ASSUME NEW p \in Procs, HandshakeRead(p) PROVE ShowIsAsked'
    BY <1>3 DEF HandshakeRead, Unresponsive, CloseHandles, CloseEvents
  <1>4. ASSUME NEW p \in Procs, HandshakeReset(p) PROVE ShowIsAsked'
    BY <1>4 DEF HandshakeReset
  <1>5. ASSUME NEW p \in Procs, HandshakeAsk(p) PROVE ShowIsAsked'
    BY <1>5 DEF HandshakeAsk, Unresponsive, CloseHandles, CloseEvents
  <1>6. ASSUME NEW p \in Procs, WaitAck(p) PROVE ShowIsAsked'
    BY <1>6 DEF WaitAck
  <1>7. ASSUME NEW p \in Procs, Wait1Timeout(p) PROVE ShowIsAsked'
    BY <1>7 DEF Wait1Timeout, RunsOut
  <1>8. ASSUME NEW p \in Procs, ReadMap(p) PROVE ShowIsAsked'
    BY <1>8 DEF ReadMap
  <1>9. ASSUME NEW p \in Procs, ReadPid(p) PROVE ShowIsAsked'
    BY <1>9 DEF ReadPid
  <1>10. ASSUME NEW p \in Procs, ReadHwnd(p) PROVE ShowIsAsked'
    BY <1>10 DEF ReadHwnd, Unresponsive, CloseHandles, CloseEvents
  <1>11. ASSUME NEW p \in Procs, Probe(p) PROVE ShowIsAsked'
    BY <1>11 DEF Probe, Activated, Unresponsive, CloseHandles, CloseEvents
  <1>12. ASSUME NEW p \in Procs, Wait2Timeout(p) PROVE ShowIsAsked'
    BY <1>12 DEF Wait2Timeout, Unresponsive, CloseHandles, CloseEvents, RunsOut
  <1>13. ASSUME NEW p \in Procs, Create(p) PROVE ShowIsAsked'
    BY <1>13 DEF Create
  <1>14. ASSUME NEW p \in Procs, WaitMutex(p) PROVE ShowIsAsked'
    BY <1>14 DEF WaitMutex
  <1>15. ASSUME NEW p \in Procs, WaitMutexTimeout(p) PROVE ShowIsAsked'
    BY <1>15 DEF WaitMutexTimeout, CloseHandles
  <1>16. ASSUME NEW p \in Procs, PublishPid(p) PROVE ShowIsAsked'
    BY <1>16 DEF PublishPid
  <1>17. ASSUME NEW p \in Procs, PublishHwnd(p) PROVE ShowIsAsked'
    BY <1>17 DEF PublishHwnd
  <1>18. ASSUME NEW p \in Procs, PublishMagic(p) PROVE ShowIsAsked'
    BY <1>18 DEF PublishMagic
  <1>19. ASSUME NEW p \in Procs, StartListener(p) PROVE ShowIsAsked'
    BY <1>19 DEF StartListener
  <1>20. ASSUME NEW p \in Procs, DropListener(p) PROVE ShowIsAsked'
    BY <1>20 DEF DropListener
  <1>21. ASSUME NEW p \in Procs, DropSignal(p) PROVE ShowIsAsked'
    BY <1>21 DEF DropSignal
  <1>22. ASSUME NEW p \in Procs, DropJoin(p) PROVE ShowIsAsked'
    BY <1>22 DEF DropJoin
  <1>23. ASSUME NEW p \in Procs, DropSection(p) PROVE ShowIsAsked'
    BY <1>23 DEF DropSection
  <1>24. ASSUME NEW p \in Procs, DropMutex(p) PROVE ShowIsAsked'
    BY <1>24 DEF DropMutex, CloseHandles
  <1>25. ASSUME NEW p \in Procs, Crash(p) PROVE ShowIsAsked'
    BY <1>25 DEF Crash, CloseHandles
  <1>26. ASSUME NEW p \in Procs, Close(p) PROVE ShowIsAsked'
    BY <1>26 DEF Close, Shut
  <1>27. ASSUME NEW p \in Procs, RelaunchElevated(p) PROVE ShowIsAsked'
    BY <1>27 DEF RelaunchElevated, Shut
  <1>28. CASE PublishWindow
    BY <1>28 DEF PublishWindow, Primary
  <1>29. CASE RestoreWindow
    BY <1>29 DEF RestoreWindow, Primary
  <1>30. CASE ListenerWakes
    BY <1>30 DEF ListenerWakes, Primary
  <1>31. CASE HotkeyPress
    BY <1>31 DEF HotkeyPress, Primary
  <1>32. CASE Wedge
    BY <1>32 DEF Wedge, Primary
  <1> QED
    BY <1>1, <1>2, <1>3, <1>4, <1>5, <1>6, <1>7, <1>8, <1>9, <1>10, <1>11, <1>12, <1>13, <1>14,
       <1>15, <1>16, <1>17, <1>18, <1>19, <1>20, <1>21, <1>22, <1>23, <1>24, <1>25, <1>26,
       <1>27, <1>28, <1>29, <1>30, <1>31, <1>32
    DEF Next, LaunchStep, DropStep, UiStep

\* Only a restored window acknowledges, and a launch that clears the acknowledgement is served by a later one.
LEMMA AckStep ==
    ASSUME TypeOK, AckServesAll, Next
    PROVE  AckServesAll'
  <1> USE InstanceAssumption DEF procVars, objVars, uiVars, ghostVars, Go, Fault, Exit, TypeOK, AckServesAll
  <1>1. ASSUME NEW p \in Procs, Launch(p) PROVE AckServesAll'
    BY <1>1 DEF Launch
  <1>2. ASSUME NEW p \in Procs, OpenMutex(p) PROVE AckServesAll'
    BY <1>2 DEF OpenMutex
  <1>3. ASSUME NEW p \in Procs, HandshakeRead(p) PROVE AckServesAll'
    BY <1>3 DEF HandshakeRead, Unresponsive, CloseHandles, CloseEvents
  <1>4. ASSUME NEW p \in Procs, HandshakeReset(p) PROVE AckServesAll'
    BY <1>4 DEF HandshakeReset
  <1>5. ASSUME NEW p \in Procs, HandshakeAsk(p) PROVE AckServesAll'
    BY <1>5 DEF HandshakeAsk, Unresponsive, CloseHandles, CloseEvents
  <1>6. ASSUME NEW p \in Procs, WaitAck(p) PROVE AckServesAll'
    BY <1>6 DEF WaitAck
  <1>7. ASSUME NEW p \in Procs, Wait1Timeout(p) PROVE AckServesAll'
    BY <1>7 DEF Wait1Timeout, RunsOut
  <1>8. ASSUME NEW p \in Procs, ReadMap(p) PROVE AckServesAll'
    BY <1>8 DEF ReadMap
  <1>9. ASSUME NEW p \in Procs, ReadPid(p) PROVE AckServesAll'
    BY <1>9 DEF ReadPid
  <1>10. ASSUME NEW p \in Procs, ReadHwnd(p) PROVE AckServesAll'
    BY <1>10 DEF ReadHwnd, Unresponsive, CloseHandles, CloseEvents
  <1>11. ASSUME NEW p \in Procs, Probe(p) PROVE AckServesAll'
    <2>1. CASE Activated(p) /\ served' = served \cup {p}
      <3>1. ack' => ack
        BY <2>1, ActivatedType
      <3> QED BY <2>1, <3>1
    <2>2. CASE Unresponsive(p) /\ UNCHANGED served
      <3>1. ack' => ack
        BY <2>2, UnresponsiveType
      <3> QED BY <2>2, <3>1
    <2>3. CASE UNCHANGED <<ack, served>>
      BY <2>3
    <2> QED BY <1>11, <2>1, <2>2, <2>3 DEF Probe
  <1>12. ASSUME NEW p \in Procs, Wait2Timeout(p) PROVE AckServesAll'
    BY <1>12 DEF Wait2Timeout, Unresponsive, CloseHandles, CloseEvents, RunsOut
  <1>13. ASSUME NEW p \in Procs, Create(p) PROVE AckServesAll'
    BY <1>13 DEF Create
  <1>14. ASSUME NEW p \in Procs, WaitMutex(p) PROVE AckServesAll'
    BY <1>14 DEF WaitMutex
  <1>15. ASSUME NEW p \in Procs, WaitMutexTimeout(p) PROVE AckServesAll'
    BY <1>15 DEF WaitMutexTimeout, CloseHandles
  <1>16. ASSUME NEW p \in Procs, PublishPid(p) PROVE AckServesAll'
    BY <1>16 DEF PublishPid
  <1>17. ASSUME NEW p \in Procs, PublishHwnd(p) PROVE AckServesAll'
    BY <1>17 DEF PublishHwnd
  <1>18. ASSUME NEW p \in Procs, PublishMagic(p) PROVE AckServesAll'
    BY <1>18 DEF PublishMagic
  <1>19. ASSUME NEW p \in Procs, StartListener(p) PROVE AckServesAll'
    BY <1>19 DEF StartListener
  <1>20. ASSUME NEW p \in Procs, DropListener(p) PROVE AckServesAll'
    BY <1>20 DEF DropListener
  <1>21. ASSUME NEW p \in Procs, DropSignal(p) PROVE AckServesAll'
    BY <1>21 DEF DropSignal
  <1>22. ASSUME NEW p \in Procs, DropJoin(p) PROVE AckServesAll'
    BY <1>22 DEF DropJoin
  <1>23. ASSUME NEW p \in Procs, DropSection(p) PROVE AckServesAll'
    BY <1>23 DEF DropSection
  <1>24. ASSUME NEW p \in Procs, DropMutex(p) PROVE AckServesAll'
    BY <1>24 DEF DropMutex, CloseHandles
  <1>25. ASSUME NEW p \in Procs, Crash(p) PROVE AckServesAll'
    BY <1>25 DEF Crash, CloseHandles
  <1>26. ASSUME NEW p \in Procs, Close(p) PROVE AckServesAll'
    BY <1>26 DEF Close, Shut
  <1>27. ASSUME NEW p \in Procs, RelaunchElevated(p) PROVE AckServesAll'
    BY <1>27 DEF RelaunchElevated, Shut
  <1>28. CASE PublishWindow
    BY <1>28 DEF PublishWindow, Primary
  <1>29. CASE RestoreWindow
    BY <1>29 DEF RestoreWindow, Primary
  <1>30. CASE ListenerWakes
    BY <1>30 DEF ListenerWakes, Primary
  <1>31. CASE HotkeyPress
    BY <1>31 DEF HotkeyPress, Primary
  <1>32. CASE Wedge
    BY <1>32 DEF Wedge, Primary
  <1> QED
    BY <1>1, <1>2, <1>3, <1>4, <1>5, <1>6, <1>7, <1>8, <1>9, <1>10, <1>11, <1>12, <1>13, <1>14,
       <1>15, <1>16, <1>17, <1>18, <1>19, <1>20, <1>21, <1>22, <1>23, <1>24, <1>25, <1>26,
       <1>27, <1>28, <1>29, <1>30, <1>31, <1>32
    DEF Next, LaunchStep, DropStep, UiStep

-----------------------------------------------------------------------------
(* What every launch can rely on.                                           *)

\* Every reachable state satisfies the invariant.
LEMMA InstanceInvariant == Spec => []InstanceInv
  <1>1. ASSUME InstanceInv, [Next]_vars PROVE InstanceInv'
    <2>1. CASE Next
      BY <1>1, <2>1, TypeStep, OwnerStep, ShowStep, AckStep DEF InstanceInv
    <2>2. CASE UNCHANGED vars
      BY <1>1, <2>2 DEF InstanceInv, TypeOK, OwnerActs, ShowIsAsked, AckServesAll, vars, procVars, objVars, uiVars, ghostVars
    <2> QED BY <1>1, <2>1, <2>2
  <1> QED BY InitInstance, <1>1, PTL DEF Spec

\* However many launches race, whoever acts as the primary, from the record to the end
\* of its drop, owns the mutex, whatever fails on the way. (acquire, Primary::drop)
THEOREM PrimaryKeepsTheMutex == Spec => []PrimaryOwnsMutex
  <1>1. InstanceInv => PrimaryOwnsMutex
    BY InstanceAssumption DEF InstanceInv, TypeOK, OwnerActs, Acting, Publishing, PrimaryOwnsMutex
  <1> QED BY <1>1, InstanceInvariant, PTL

\* The window is never shown to a user who did not ask. (Primary::drop, the listener)
THEOREM OnlyRequestsShow == Spec => []NoSpuriousShow
  <1>1. InstanceInv => NoSpuriousShow
    BY DEF InstanceInv, ShowIsAsked, NoSpuriousShow
  <1> QED BY <1>1, InstanceInvariant, PTL

\* A launch is ended by the acknowledgement or by a window that pumps messages.
LEMMA DeferStep ==
    ASSUME TypeOK, AckServesAll, Next, NEW r \in Procs, pc[r] # "deferred", pc'[r] = "deferred"
    PROVE  r \in served'
  <1> USE InstanceAssumption DEF procVars, objVars, uiVars, ghostVars, Go, TypeOK, AckServesAll
  <1>1. ASSUME NEW p \in Procs, Launch(p) PROVE r \in served'
    BY <1>1 DEF Launch
  <1>2. ASSUME NEW p \in Procs, OpenMutex(p) PROVE r \in served'
    BY <1>2 DEF OpenMutex
  <1>3. ASSUME NEW p \in Procs, HandshakeRead(p) PROVE r \in served'
    BY <1>3 DEF HandshakeRead, Unresponsive, CloseHandles, CloseEvents
  <1>4. ASSUME NEW p \in Procs, HandshakeReset(p) PROVE r \in served'
    BY <1>4 DEF HandshakeReset
  <1>5. ASSUME NEW p \in Procs, HandshakeAsk(p) PROVE r \in served'
    BY <1>5 DEF HandshakeAsk, Unresponsive, CloseHandles, CloseEvents
  <1>6. ASSUME NEW p \in Procs, WaitAck(p) PROVE r \in served'
    BY <1>6 DEF WaitAck
  <1>7. ASSUME NEW p \in Procs, Wait1Timeout(p) PROVE r \in served'
    BY <1>7 DEF Wait1Timeout, RunsOut
  <1>8. ASSUME NEW p \in Procs, ReadMap(p) PROVE r \in served'
    BY <1>8 DEF ReadMap
  <1>9. ASSUME NEW p \in Procs, ReadPid(p) PROVE r \in served'
    BY <1>9 DEF ReadPid
  <1>10. ASSUME NEW p \in Procs, ReadHwnd(p) PROVE r \in served'
    BY <1>10 DEF ReadHwnd, Unresponsive, CloseHandles, CloseEvents
  <1>11. ASSUME NEW p \in Procs, Probe(p) PROVE r \in served'
    BY <1>11 DEF Probe, Activated, Unresponsive, CloseHandles, CloseEvents
  <1>12. ASSUME NEW p \in Procs, Wait2Timeout(p) PROVE r \in served'
    BY <1>12 DEF Wait2Timeout, Unresponsive, CloseHandles, CloseEvents, RunsOut
  <1>13. ASSUME NEW p \in Procs, Create(p) PROVE r \in served'
    BY <1>13 DEF Create
  <1>14. ASSUME NEW p \in Procs, WaitMutex(p) PROVE r \in served'
    BY <1>14 DEF WaitMutex
  <1>15. ASSUME NEW p \in Procs, WaitMutexTimeout(p) PROVE r \in served'
    BY <1>15 DEF WaitMutexTimeout, CloseHandles
  <1>16. ASSUME NEW p \in Procs, PublishPid(p) PROVE r \in served'
    BY <1>16 DEF PublishPid
  <1>17. ASSUME NEW p \in Procs, PublishHwnd(p) PROVE r \in served'
    BY <1>17 DEF PublishHwnd
  <1>18. ASSUME NEW p \in Procs, PublishMagic(p) PROVE r \in served'
    BY <1>18 DEF PublishMagic
  <1>19. ASSUME NEW p \in Procs, StartListener(p) PROVE r \in served'
    BY <1>19 DEF StartListener
  <1>20. ASSUME NEW p \in Procs, DropListener(p) PROVE r \in served'
    BY <1>20 DEF DropListener
  <1>21. ASSUME NEW p \in Procs, DropSignal(p) PROVE r \in served'
    BY <1>21 DEF DropSignal
  <1>22. ASSUME NEW p \in Procs, DropJoin(p) PROVE r \in served'
    BY <1>22 DEF DropJoin
  <1>23. ASSUME NEW p \in Procs, DropSection(p) PROVE r \in served'
    BY <1>23 DEF DropSection
  <1>24. ASSUME NEW p \in Procs, DropMutex(p) PROVE r \in served'
    BY <1>24 DEF DropMutex, CloseHandles
  <1>25. ASSUME NEW p \in Procs, Crash(p) PROVE r \in served'
    BY <1>25 DEF Crash, CloseHandles
  <1>26. ASSUME NEW p \in Procs, Close(p) PROVE r \in served'
    BY <1>26 DEF Close, Shut
  <1>27. ASSUME NEW p \in Procs, RelaunchElevated(p) PROVE r \in served'
    BY <1>27 DEF RelaunchElevated, Shut
  <1>28. CASE PublishWindow
    BY <1>28 DEF PublishWindow, Primary
  <1>29. CASE RestoreWindow
    BY <1>29 DEF RestoreWindow, Primary
  <1>30. CASE ListenerWakes
    BY <1>30 DEF ListenerWakes, Primary
  <1>31. CASE HotkeyPress
    BY <1>31 DEF HotkeyPress, Primary
  <1>32. CASE Wedge
    BY <1>32 DEF Wedge, Primary
  <1> QED
    BY <1>1, <1>2, <1>3, <1>4, <1>5, <1>6, <1>7, <1>8, <1>9, <1>10, <1>11, <1>12, <1>13, <1>14,
       <1>15, <1>16, <1>17, <1>18, <1>19, <1>20, <1>21, <1>22, <1>23, <1>24, <1>25, <1>26,
       <1>27, <1>28, <1>29, <1>30, <1>31, <1>32
    DEF Next, LaunchStep, DropStep, UiStep

\* A launch gives way only to an instance that answered it. (handshake's ResetEvent)
THEOREM AnsweredLaunchesDefer == Spec => DeferredWasServed
  <1>1. ASSUME InstanceInv, [Next]_vars
        PROVE  [\A p \in Procs : pc[p] # "deferred" /\ pc'[p] = "deferred" => p \in served']_vars
    <2>1. CASE Next
      BY <1>1, <2>1, DeferStep DEF InstanceInv
    <2>2. CASE UNCHANGED vars
      BY <2>2
    <2> QED BY <1>1, <2>1, <2>2
  <1> QED BY <1>1, InstanceInvariant, PTL DEF Spec, DeferredWasServed

-----------------------------------------------------------------------------
(* One task manager, as long as nothing goes wrong.                         *)

Asking == {"read", "reset", "ask", "wait1", "map", "pid", "hwnd", "probe"}

\* There is a primary while the mutex has a name, it alone runs, no launch has given
\* up on it and nobody is on the way out. (acquire)
OnePrimary ==
    /\ handles # {} => owner # None
    /\ \A p \in Procs : /\ pc[p] \notin Dropping \cup {"dead", "wait2"} /\ ~marked[p]
                        /\ pc[p] = "running" => p = owner

\* The record names the primary and, once its UI answers, its window.
\* (publish_primary_info, the first frame)
RecordIsTrue ==
    /\ owner # None /\ pc[owner] \notin {"publish"} => owner \in mapped /\ section.pid = owner
    /\ owner # None /\ pc[owner] \in {"listen", "running"} => section.magic
    /\ section.magic => owner # None /\ pc[owner] \in {"listen", "running"}
    /\ ui # "wedged" /\ (ui # "down" => owner # None /\ pc[owner] = "running")
    /\ ui = "up" => section.hwnd = owner
    /\ listener # "stopping" /\ (listener # "none" \/ uiReq => ui # "down")

\* A launch that asks keeps the events open; its request stands until a UI that runs
\* takes it, so what it reads of a primary that did not answer is current. (handshake)
AskersAreHeard ==
    \A p \in Procs :
        /\ pc[p] \in Asking => p \in events /\ owner # None
        /\ pc[p] = "wait1" => show \/ uiReq \/ ui = "up"
        /\ pc[p] \in {"map", "pid", "hwnd", "probe"} => ui = "up"
        /\ pc[p] \in {"hwnd", "probe"} => seen[p].pid = owner
        /\ pc[p] = "probe" => seen[p].hwnd = owner

Calm == OnePrimary /\ RecordIsTrue /\ AskersAreHeard
CalmInv == trouble = "none" => Calm

\* A launch that finds the name gives way, one that does not becomes the primary.
LEMMA OnePrimaryStep ==
    ASSUME CanProbe = TRUE, TypeOK, OwnerActs, Calm, Next, trouble = "none", trouble' = "none"
    PROVE  OnePrimary'
  <1> USE InstanceAssumption
      DEF procVars, objVars, uiVars, ghostVars, Go, Fault, Exit, TypeOK, Places, OwnerActs, Acting,
          Publishing, Dropping, Calm, OnePrimary, RecordIsTrue, AskersAreHeard, Asking
  <1>1. ASSUME NEW p \in Procs, Launch(p) PROVE OnePrimary'
    BY <1>1 DEF Launch
  <1>2. ASSUME NEW p \in Procs, OpenMutex(p) PROVE OnePrimary'
    BY <1>2 DEF OpenMutex
  <1>3. ASSUME NEW p \in Procs, HandshakeRead(p) PROVE OnePrimary'
    <2>1. ~(HasRecord /\ ~Alive(section.pid))
      BY DEF HasRecord, Alive, Gone, OwnerActs, Acting, Publishing, Dropping
    <2> QED BY <1>3, <2>1 DEF HandshakeRead
  <1>4. ASSUME NEW p \in Procs, HandshakeReset(p) PROVE OnePrimary'
    BY <1>4 DEF HandshakeReset
  <1>5. ASSUME NEW p \in Procs, HandshakeAsk(p) PROVE OnePrimary'
    BY <1>5 DEF HandshakeAsk
  <1>6. ASSUME NEW p \in Procs, WaitAck(p) PROVE OnePrimary'
    BY <1>6 DEF WaitAck
  <1>7. ASSUME NEW p \in Procs, Wait1Timeout(p) PROVE OnePrimary'
    BY <1>7 DEF Wait1Timeout, RunsOut
  <1>8. ASSUME NEW p \in Procs, ReadMap(p) PROVE OnePrimary'
    BY <1>8 DEF ReadMap
  <1>9. ASSUME NEW p \in Procs, ReadPid(p) PROVE OnePrimary'
    BY <1>9 DEF ReadPid
  <1>10. ASSUME NEW p \in Procs, ReadHwnd(p) PROVE OnePrimary'
    <2>1. Alive(seen[p].pid) /\ section.hwnd # None
      BY <1>10 DEF ReadHwnd, Alive, Gone, OwnerActs, Acting, Publishing, Dropping
    <2> QED BY <1>10, <2>1 DEF ReadHwnd
  <1>11. ASSUME NEW p \in Procs, Probe(p) PROVE OnePrimary'
    BY <1>11 DEF Probe, Activated, CloseHandles, CloseEvents
  <1>12. ASSUME NEW p \in Procs, Wait2Timeout(p) PROVE OnePrimary'
    BY <1>12 DEF Wait2Timeout
  <1>13. ASSUME NEW p \in Procs, Create(p) PROVE OnePrimary'
    BY <1>13 DEF Create
  <1>14. ASSUME NEW p \in Procs, WaitMutex(p) PROVE OnePrimary'
    BY <1>14 DEF WaitMutex
  <1>15. ASSUME NEW p \in Procs, WaitMutexTimeout(p) PROVE OnePrimary'
    BY <1>15 DEF WaitMutexTimeout, CloseHandles
  <1>16. ASSUME NEW p \in Procs, PublishPid(p) PROVE OnePrimary'
    BY <1>16 DEF PublishPid
  <1>17. ASSUME NEW p \in Procs, PublishHwnd(p) PROVE OnePrimary'
    BY <1>17 DEF PublishHwnd
  <1>18. ASSUME NEW p \in Procs, PublishMagic(p) PROVE OnePrimary'
    BY <1>18 DEF PublishMagic
  <1>19. ASSUME NEW p \in Procs, StartListener(p) PROVE OnePrimary'
    BY <1>19 DEF StartListener
  <1>20. ASSUME NEW p \in Procs, DropListener(p) PROVE OnePrimary'
    BY <1>20 DEF DropListener
  <1>21. ASSUME NEW p \in Procs, DropSignal(p) PROVE OnePrimary'
    BY <1>21 DEF DropSignal
  <1>22. ASSUME NEW p \in Procs, DropJoin(p) PROVE OnePrimary'
    BY <1>22 DEF DropJoin
  <1>23. ASSUME NEW p \in Procs, DropSection(p) PROVE OnePrimary'
    BY <1>23 DEF DropSection
  <1>24. ASSUME NEW p \in Procs, DropMutex(p) PROVE OnePrimary'
    BY <1>24 DEF DropMutex, CloseHandles
  <1>25. ASSUME NEW p \in Procs, Crash(p) PROVE OnePrimary'
    BY <1>25 DEF Crash, CloseHandles
  <1>26. ASSUME NEW p \in Procs, Close(p) PROVE OnePrimary'
    BY <1>26 DEF Close, Shut
  <1>27. ASSUME NEW p \in Procs, RelaunchElevated(p) PROVE OnePrimary'
    BY <1>27 DEF RelaunchElevated, Shut
  <1>28. CASE PublishWindow
    BY <1>28 DEF PublishWindow, Primary
  <1>29. CASE RestoreWindow
    BY <1>29 DEF RestoreWindow, Primary
  <1>30. CASE ListenerWakes
    BY <1>30 DEF ListenerWakes, Primary
  <1>31. CASE HotkeyPress
    BY <1>31 DEF HotkeyPress, Primary
  <1>32. CASE Wedge
    BY <1>32 DEF Wedge, Primary
  <1> QED
    BY <1>1, <1>2, <1>3, <1>4, <1>5, <1>6, <1>7, <1>8, <1>9, <1>10, <1>11, <1>12, <1>13, <1>14,
       <1>15, <1>16, <1>17, <1>18, <1>19, <1>20, <1>21, <1>22, <1>23, <1>24, <1>25, <1>26,
       <1>27, <1>28, <1>29, <1>30, <1>31, <1>32
    DEF Next, LaunchStep, DropStep, UiStep

\* The record is complete before the primary listens.
LEMMA RecordStep ==
    ASSUME CanProbe = TRUE, TypeOK, OwnerActs, Calm, Next, trouble = "none", trouble' = "none"
    PROVE  RecordIsTrue'
  <1> USE InstanceAssumption
      DEF procVars, objVars, uiVars, ghostVars, Go, Fault, Exit, TypeOK, Places, OwnerActs, Acting,
          Publishing, Dropping, Calm, OnePrimary, RecordIsTrue, AskersAreHeard, Asking
  <1>1. ASSUME NEW p \in Procs, Launch(p) PROVE RecordIsTrue'
    BY <1>1 DEF Launch
  <1>2. ASSUME NEW p \in Procs, OpenMutex(p) PROVE RecordIsTrue'
    BY <1>2 DEF OpenMutex
  <1>3. ASSUME NEW p \in Procs, HandshakeRead(p) PROVE RecordIsTrue'
    <2>1. ~(HasRecord /\ ~Alive(section.pid))
      BY DEF HasRecord, Alive, Gone, OwnerActs, Acting, Publishing, Dropping
    <2> QED BY <1>3, <2>1 DEF HandshakeRead
  <1>4. ASSUME NEW p \in Procs, HandshakeReset(p) PROVE RecordIsTrue'
    BY <1>4 DEF HandshakeReset
  <1>5. ASSUME NEW p \in Procs, HandshakeAsk(p) PROVE RecordIsTrue'
    BY <1>5 DEF HandshakeAsk
  <1>6. ASSUME NEW p \in Procs, WaitAck(p) PROVE RecordIsTrue'
    BY <1>6 DEF WaitAck
  <1>7. ASSUME NEW p \in Procs, Wait1Timeout(p) PROVE RecordIsTrue'
    BY <1>7 DEF Wait1Timeout, RunsOut
  <1>8. ASSUME NEW p \in Procs, ReadMap(p) PROVE RecordIsTrue'
    BY <1>8 DEF ReadMap
  <1>9. ASSUME NEW p \in Procs, ReadPid(p) PROVE RecordIsTrue'
    BY <1>9 DEF ReadPid
  <1>10. ASSUME NEW p \in Procs, ReadHwnd(p) PROVE RecordIsTrue'
    <2>1. Alive(seen[p].pid) /\ section.hwnd # None
      BY <1>10 DEF ReadHwnd, Alive, Gone, OwnerActs, Acting, Publishing, Dropping
    <2> QED BY <1>10, <2>1 DEF ReadHwnd
  <1>11. ASSUME NEW p \in Procs, Probe(p) PROVE RecordIsTrue'
    BY <1>11 DEF Probe, Activated, CloseHandles, CloseEvents
  <1>12. ASSUME NEW p \in Procs, Wait2Timeout(p) PROVE RecordIsTrue'
    BY <1>12 DEF Wait2Timeout
  <1>13. ASSUME NEW p \in Procs, Create(p) PROVE RecordIsTrue'
    BY <1>13 DEF Create
  <1>14. ASSUME NEW p \in Procs, WaitMutex(p) PROVE RecordIsTrue'
    BY <1>14 DEF WaitMutex
  <1>15. ASSUME NEW p \in Procs, WaitMutexTimeout(p) PROVE RecordIsTrue'
    BY <1>15 DEF WaitMutexTimeout, CloseHandles
  <1>16. ASSUME NEW p \in Procs, PublishPid(p) PROVE RecordIsTrue'
    BY <1>16 DEF PublishPid
  <1>17. ASSUME NEW p \in Procs, PublishHwnd(p) PROVE RecordIsTrue'
    BY <1>17 DEF PublishHwnd
  <1>18. ASSUME NEW p \in Procs, PublishMagic(p) PROVE RecordIsTrue'
    BY <1>18 DEF PublishMagic
  <1>19. ASSUME NEW p \in Procs, StartListener(p) PROVE RecordIsTrue'
    BY <1>19 DEF StartListener
  <1>20. ASSUME NEW p \in Procs, DropListener(p) PROVE RecordIsTrue'
    BY <1>20 DEF DropListener
  <1>21. ASSUME NEW p \in Procs, DropSignal(p) PROVE RecordIsTrue'
    BY <1>21 DEF DropSignal
  <1>22. ASSUME NEW p \in Procs, DropJoin(p) PROVE RecordIsTrue'
    BY <1>22 DEF DropJoin
  <1>23. ASSUME NEW p \in Procs, DropSection(p) PROVE RecordIsTrue'
    BY <1>23 DEF DropSection
  <1>24. ASSUME NEW p \in Procs, DropMutex(p) PROVE RecordIsTrue'
    BY <1>24 DEF DropMutex, CloseHandles
  <1>25. ASSUME NEW p \in Procs, Crash(p) PROVE RecordIsTrue'
    BY <1>25 DEF Crash, CloseHandles
  <1>26. ASSUME NEW p \in Procs, Close(p) PROVE RecordIsTrue'
    BY <1>26 DEF Close, Shut
  <1>27. ASSUME NEW p \in Procs, RelaunchElevated(p) PROVE RecordIsTrue'
    BY <1>27 DEF RelaunchElevated, Shut
  <1>28. CASE PublishWindow
    BY <1>28 DEF PublishWindow, Primary
  <1>29. CASE RestoreWindow
    BY <1>29 DEF RestoreWindow, Primary
  <1>30. CASE ListenerWakes
    BY <1>30 DEF ListenerWakes, Primary
  <1>31. CASE HotkeyPress
    BY <1>31 DEF HotkeyPress, Primary
  <1>32. CASE Wedge
    BY <1>32 DEF Wedge, Primary
  <1> QED
    BY <1>1, <1>2, <1>3, <1>4, <1>5, <1>6, <1>7, <1>8, <1>9, <1>10, <1>11, <1>12, <1>13, <1>14,
       <1>15, <1>16, <1>17, <1>18, <1>19, <1>20, <1>21, <1>22, <1>23, <1>24, <1>25, <1>26,
       <1>27, <1>28, <1>29, <1>30, <1>31, <1>32
    DEF Next, LaunchStep, DropStep, UiStep

\* A request is handed from the event to the listener and on to the UI.
LEMMA AskersStep ==
    ASSUME CanProbe = TRUE, TypeOK, OwnerActs, Calm, Next, trouble = "none", trouble' = "none"
    PROVE  AskersAreHeard'
  <1> USE InstanceAssumption
      DEF procVars, objVars, uiVars, ghostVars, Go, Fault, Exit, TypeOK, Places, OwnerActs, Acting,
          Publishing, Dropping, Calm, OnePrimary, RecordIsTrue, AskersAreHeard, Asking
  <1>1. ASSUME NEW p \in Procs, Launch(p) PROVE AskersAreHeard'
    BY <1>1 DEF Launch
  <1>2. ASSUME NEW p \in Procs, OpenMutex(p) PROVE AskersAreHeard'
    BY <1>2 DEF OpenMutex
  <1>3. ASSUME NEW p \in Procs, HandshakeRead(p) PROVE AskersAreHeard'
    <2>1. ~(HasRecord /\ ~Alive(section.pid))
      BY DEF HasRecord, Alive, Gone, OwnerActs, Acting, Publishing, Dropping
    <2> QED BY <1>3, <2>1 DEF HandshakeRead
  <1>4. ASSUME NEW p \in Procs, HandshakeReset(p) PROVE AskersAreHeard'
    BY <1>4 DEF HandshakeReset
  <1>5. ASSUME NEW p \in Procs, HandshakeAsk(p) PROVE AskersAreHeard'
    BY <1>5 DEF HandshakeAsk
  <1>6. ASSUME NEW p \in Procs, WaitAck(p) PROVE AskersAreHeard'
    BY <1>6 DEF WaitAck
  <1>7. ASSUME NEW p \in Procs, Wait1Timeout(p) PROVE AskersAreHeard'
    <2>1. ~NobodyToAnswer
      BY <1>7 DEF Wait1Timeout, NobodyToAnswer
    <2>2. ~show /\ ~uiReq
      BY <1>7, <2>1 DEF Wait1Timeout, RunsOut
    <2>3. ui = "up"
      BY <1>7, <2>2 DEF Wait1Timeout
    <2> QED BY <1>7, <2>3 DEF Wait1Timeout
  <1>8. ASSUME NEW p \in Procs, ReadMap(p) PROVE AskersAreHeard'
    BY <1>8 DEF ReadMap
  <1>9. ASSUME NEW p \in Procs, ReadPid(p) PROVE AskersAreHeard'
    BY <1>9 DEF ReadPid
  <1>10. ASSUME NEW p \in Procs, ReadHwnd(p) PROVE AskersAreHeard'
    <2>1. Alive(seen[p].pid) /\ section.hwnd # None
      BY <1>10 DEF ReadHwnd, Alive, Gone, OwnerActs, Acting, Publishing, Dropping
    <2> QED BY <1>10, <2>1 DEF ReadHwnd
  <1>11. ASSUME NEW p \in Procs, Probe(p) PROVE AskersAreHeard'
    BY <1>11 DEF Probe, Activated, CloseHandles, CloseEvents
  <1>12. ASSUME NEW p \in Procs, Wait2Timeout(p) PROVE AskersAreHeard'
    BY <1>12 DEF Wait2Timeout
  <1>13. ASSUME NEW p \in Procs, Create(p) PROVE AskersAreHeard'
    BY <1>13 DEF Create
  <1>14. ASSUME NEW p \in Procs, WaitMutex(p) PROVE AskersAreHeard'
    BY <1>14 DEF WaitMutex
  <1>15. ASSUME NEW p \in Procs, WaitMutexTimeout(p) PROVE AskersAreHeard'
    BY <1>15 DEF WaitMutexTimeout, CloseHandles
  <1>16. ASSUME NEW p \in Procs, PublishPid(p) PROVE AskersAreHeard'
    BY <1>16 DEF PublishPid
  <1>17. ASSUME NEW p \in Procs, PublishHwnd(p) PROVE AskersAreHeard'
    BY <1>17 DEF PublishHwnd
  <1>18. ASSUME NEW p \in Procs, PublishMagic(p) PROVE AskersAreHeard'
    BY <1>18 DEF PublishMagic
  <1>19. ASSUME NEW p \in Procs, StartListener(p) PROVE AskersAreHeard'
    BY <1>19 DEF StartListener
  <1>20. ASSUME NEW p \in Procs, DropListener(p) PROVE AskersAreHeard'
    BY <1>20 DEF DropListener
  <1>21. ASSUME NEW p \in Procs, DropSignal(p) PROVE AskersAreHeard'
    BY <1>21 DEF DropSignal
  <1>22. ASSUME NEW p \in Procs, DropJoin(p) PROVE AskersAreHeard'
    BY <1>22 DEF DropJoin
  <1>23. ASSUME NEW p \in Procs, DropSection(p) PROVE AskersAreHeard'
    BY <1>23 DEF DropSection
  <1>24. ASSUME NEW p \in Procs, DropMutex(p) PROVE AskersAreHeard'
    BY <1>24 DEF DropMutex, CloseHandles
  <1>25. ASSUME NEW p \in Procs, Crash(p) PROVE AskersAreHeard'
    BY <1>25 DEF Crash, CloseHandles
  <1>26. ASSUME NEW p \in Procs, Close(p) PROVE AskersAreHeard'
    BY <1>26 DEF Close, Shut
  <1>27. ASSUME NEW p \in Procs, RelaunchElevated(p) PROVE AskersAreHeard'
    BY <1>27 DEF RelaunchElevated, Shut
  <1>28. CASE PublishWindow
    BY <1>28 DEF PublishWindow, Primary
  <1>29. CASE RestoreWindow
    BY <1>29 DEF RestoreWindow, Primary
  <1>30. CASE ListenerWakes
    BY <1>30 DEF ListenerWakes, Primary
  <1>31. CASE HotkeyPress
    BY <1>31 DEF HotkeyPress, Primary
  <1>32. CASE Wedge
    BY <1>32 DEF Wedge, Primary
  <1> QED
    BY <1>1, <1>2, <1>3, <1>4, <1>5, <1>6, <1>7, <1>8, <1>9, <1>10, <1>11, <1>12, <1>13, <1>14,
       <1>15, <1>16, <1>17, <1>18, <1>19, <1>20, <1>21, <1>22, <1>23, <1>24, <1>25, <1>26,
       <1>27, <1>28, <1>29, <1>30, <1>31, <1>32
    DEF Next, LaunchStep, DropStep, UiStep

\* Once something went wrong, it stays so.
LEMMA TroubleStays ==
    ASSUME TypeOK, Next, trouble' = "none"
    PROVE  trouble = "none"
  <1> USE DEF procVars, objVars, uiVars, ghostVars, Fault, Exit
  <1>1. ASSUME NEW p \in Procs, Launch(p) PROVE trouble = "none"
    BY <1>1 DEF Launch
  <1>2. ASSUME NEW p \in Procs, OpenMutex(p) PROVE trouble = "none"
    BY <1>2 DEF OpenMutex
  <1>3. ASSUME NEW p \in Procs, HandshakeRead(p) PROVE trouble = "none"
    BY <1>3 DEF HandshakeRead
  <1>4. ASSUME NEW p \in Procs, HandshakeReset(p) PROVE trouble = "none"
    BY <1>4 DEF HandshakeReset
  <1>5. ASSUME NEW p \in Procs, HandshakeAsk(p) PROVE trouble = "none"
    BY <1>5 DEF HandshakeAsk
  <1>6. ASSUME NEW p \in Procs, WaitAck(p) PROVE trouble = "none"
    BY <1>6 DEF WaitAck
  <1>7. ASSUME NEW p \in Procs, Wait1Timeout(p) PROVE trouble = "none"
    BY <1>7 DEF Wait1Timeout, RunsOut
  <1>8. ASSUME NEW p \in Procs, ReadMap(p) PROVE trouble = "none"
    BY <1>8 DEF ReadMap
  <1>9. ASSUME NEW p \in Procs, ReadPid(p) PROVE trouble = "none"
    BY <1>9 DEF ReadPid
  <1>10. ASSUME NEW p \in Procs, ReadHwnd(p) PROVE trouble = "none"
    BY <1>10 DEF ReadHwnd
  <1>11. ASSUME NEW p \in Procs, Probe(p) PROVE trouble = "none"
    BY <1>11 DEF Probe
  <1>12. ASSUME NEW p \in Procs, Wait2Timeout(p) PROVE trouble = "none"
    BY <1>12 DEF Wait2Timeout, RunsOut
  <1>13. ASSUME NEW p \in Procs, Create(p) PROVE trouble = "none"
    BY <1>13 DEF Create
  <1>14. ASSUME NEW p \in Procs, WaitMutex(p) PROVE trouble = "none"
    BY <1>14 DEF WaitMutex
  <1>15. ASSUME NEW p \in Procs, WaitMutexTimeout(p) PROVE trouble = "none"
    BY <1>15 DEF WaitMutexTimeout, CloseHandles
  <1>16. ASSUME NEW p \in Procs, PublishPid(p) PROVE trouble = "none"
    BY <1>16 DEF PublishPid
  <1>17. ASSUME NEW p \in Procs, PublishHwnd(p) PROVE trouble = "none"
    BY <1>17 DEF PublishHwnd
  <1>18. ASSUME NEW p \in Procs, PublishMagic(p) PROVE trouble = "none"
    BY <1>18 DEF PublishMagic
  <1>19. ASSUME NEW p \in Procs, StartListener(p) PROVE trouble = "none"
    BY <1>19 DEF StartListener
  <1>20. ASSUME NEW p \in Procs, DropListener(p) PROVE trouble = "none"
    BY <1>20 DEF DropListener
  <1>21. ASSUME NEW p \in Procs, DropSignal(p) PROVE trouble = "none"
    BY <1>21 DEF DropSignal
  <1>22. ASSUME NEW p \in Procs, DropJoin(p) PROVE trouble = "none"
    BY <1>22 DEF DropJoin
  <1>23. ASSUME NEW p \in Procs, DropSection(p) PROVE trouble = "none"
    BY <1>23 DEF DropSection
  <1>24. ASSUME NEW p \in Procs, DropMutex(p) PROVE trouble = "none"
    BY <1>24 DEF DropMutex, CloseHandles
  <1>25. ASSUME NEW p \in Procs, Crash(p) PROVE trouble = "none"
    BY <1>25 DEF Crash, CloseHandles
  <1>26. ASSUME NEW p \in Procs, Close(p) PROVE trouble = "none"
    BY <1>26 DEF Close, Shut
  <1>27. ASSUME NEW p \in Procs, RelaunchElevated(p) PROVE trouble = "none"
    BY <1>27 DEF RelaunchElevated, Shut
  <1>28. CASE PublishWindow
    BY <1>28 DEF PublishWindow, Primary
  <1>29. CASE RestoreWindow
    BY <1>29 DEF RestoreWindow, Primary
  <1>30. CASE ListenerWakes
    BY <1>30 DEF ListenerWakes, Primary
  <1>31. CASE HotkeyPress
    BY <1>31 DEF HotkeyPress, Primary
  <1>32. CASE Wedge
    BY <1>32 DEF Wedge, Primary
  <1> QED
    BY <1>1, <1>2, <1>3, <1>4, <1>5, <1>6, <1>7, <1>8, <1>9, <1>10, <1>11, <1>12, <1>13, <1>14,
       <1>15, <1>16, <1>17, <1>18, <1>19, <1>20, <1>21, <1>22, <1>23, <1>24, <1>25, <1>26,
       <1>27, <1>28, <1>29, <1>30, <1>31, <1>32
    DEF Next, LaunchStep, DropStep, UiStep

\* As long as nothing goes wrong every reachable state is calm.
LEMMA CalmInvariant ==
    ASSUME CanProbe = TRUE
    PROVE  Spec => []CalmInv
  <1>1. Init => CalmInv
    BY InstanceAssumption DEF Init, CalmInv, Calm, OnePrimary, RecordIsTrue, AskersAreHeard, Asking, Dropping
  <1>2. ASSUME InstanceInv, CalmInv, [Next]_vars PROVE CalmInv'
    <2>1. CASE Next
      <3> SUFFICES ASSUME trouble' = "none" PROVE Calm'
        BY DEF CalmInv
      <3>1. trouble = "none"
        BY <1>2, <2>1, TroubleStays DEF InstanceInv
      <3> QED BY <1>2, <2>1, <3>1, OnePrimaryStep, RecordStep, AskersStep DEF InstanceInv, CalmInv, Calm
    <2>2. CASE UNCHANGED vars
      BY <1>2, <2>2 DEF CalmInv, Calm, OnePrimary, RecordIsTrue, AskersAreHeard, vars, procVars, objVars, uiVars, ghostVars
    <2> QED BY <1>2, <2>1, <2>2
  <1> QED BY InstanceInvariant, <1>1, <1>2, PTL DEF Spec

\* However many launches race, as long as no process exits, dies or hangs, no kernel
\* object fails and no answer is late, one task manager runs, when a launch may send
\* messages to the primary's window. (acquire and the comment of handshake)
THEOREM OneTaskManagerRuns ==
    ASSUME CanProbe = TRUE
    PROVE  Spec => []OneTaskManager
  <1>1. CalmInv => OneTaskManager
    <2> SUFFICES ASSUME CalmInv, trouble = "none" PROVE AtMostOneRuns
      BY DEF OneTaskManager
    <2> DEFINE R == {p \in Procs : pc[p] = "running"}
    <2>1. R \subseteq {owner}
      BY DEF CalmInv, Calm, OnePrimary
    <2>2. IsFiniteSet({owner}) /\ Cardinality({owner}) = 1
      BY FS_Singleton
    <2>3. Cardinality(R) <= Cardinality({owner})
      BY <2>1, <2>2, FS_Subset
    <2> QED BY <2>2, <2>3 DEF AtMostOneRuns
  <1> QED BY <1>1, CalmInvariant, PTL

\* All of that together. (instance.rs)
THEOREM LaunchesAreSafe ==
    ASSUME CanProbe = TRUE
    PROVE  Spec => LaunchesSafe
  <1>1. InstanceInv => TypeOK
    BY DEF InstanceInv
  <1> QED
    BY <1>1, InstanceInvariant, OneTaskManagerRuns, OnlyRequestsShow, AnsweredLaunchesDefer, PTL DEF LaunchesSafe

-----------------------------------------------------------------------------
(* The settings dialog: the inductive invariant.                            *)

Prefs == {s \in [Fields -> 0 .. 2] : s["auto"] \in 0 .. 1 /\ s["start"] \in 0 .. 1}
Cores == {"absent", "stopped", "running", "foreign"}
Answers == [core : Cores, tm : Registrations]
AdvStates == [shown : Cores \cup {NoEntry}, tm : Registrations \cup {NoEntry}, box : Answers \cup {NoEntry},
              polls : Nat, flag : BOOLEAN, change : {"none", "install", "remove", "switch", "repair"}]

ChoiceType ==
    /\ up \in BOOLEAN /\ gap \in BOOLEAN
    /\ set \in Prefs /\ handed \in Prefs /\ disk \in Prefs
    /\ live \in [Looks -> 0 .. 2] /\ engine \in [paused : BOOLEAN, interval : 0 .. 2]
    /\ exe \in {"portable", "installed"} /\ runKey \in RunEntries \cup {NoEntry}

AdvType == ifeo \in Registrations /\ core \in Cores /\ adv \in AdvStates

\* Nothing is chosen, or waits to be written, while the program does not run.
DownIsDisk == ~up => set = disk /\ handed = disk

EntryThere == runKey # NoEntry /\ (runKey # NoEntry => runKey.hidden)

\* Unless the Run value was changed behind the file's back, the switch, as the dialog
\* shows it and as the writer has it, tells whether the value exists.
StartIsEntry == ~gap => (set["start"] = 1 <=> EntryThere) /\ handed["start"] = set["start"]

\* The flag that a read is under way is taken down only with its answer.
PollIsFlagged ==
    /\ adv.polls <= 1
    /\ adv.polls = 1 => adv.flag /\ adv.box = NoEntry

ChoiceInv == ChoiceType /\ DownIsDisk /\ InForceAsShown /\ ChoicesKept /\ StartIsEntry
AdvInv == AdvType /\ PollIsFlagged

-----------------------------------------------------------------------------
(* The fields of the settings.                                              *)

LEMMA FieldNames ==
    /\ Looks \subseteq Fields
    /\ {"speed", "auto", "start"} \subseteq Fields
    /\ Looks \cap {"speed", "auto", "start"} = {}
  BY DEF Looks, KeptOn, Fields

LEMMA DefaultsOk == Defaults \in Prefs /\ Defaults["start"] = 0 /\ \A f \in Looks \cup {"speed"} : Defaults[f] = 0
  BY FieldNames DEF Defaults, Prefs

LEMMA PrefValues ==
    ASSUME NEW s \in Prefs
    PROVE  /\ s \in [Fields -> 0 .. 2] /\ s["auto"] \in 0 .. 1 /\ s["start"] \in 0 .. 1 /\ s["speed"] \in 0 .. 2
           /\ \A f \in Looks : s[f] \in 0 .. 2
  BY FieldNames DEF Prefs

LEMMA EngineValues ==
    ASSUME NEW v \in 0 .. 2
    PROVE  /\ EngineAt(v) \in [paused : BOOLEAN, interval : 0 .. 2]
           /\ EngineAt(v).paused <=> (v = Paused)
           /\ EngineAt(v).interval = v
  BY DEF EngineAt

LEMMA NoneInForce ==
    /\ [f \in Looks |-> 0] \in [Looks -> 0 .. 2]
    /\ EngineAt(0) \in [paused : BOOLEAN, interval : 0 .. 2]
    /\ ~EngineAt(0).paused /\ EngineAt(0).interval = 0
  <1>1. [f \in Looks |-> 0] \in [Looks -> 0 .. 2]
    OBVIOUS
  <1>2. 0 \in 0 .. 2 /\ 0 # Paused
    BY DEF Paused
  <1> QED BY <1>1, <1>2, EngineValues

-----------------------------------------------------------------------------
(* The choices: start, end and writer.                                      *)

LEMMA ChoiceInit == SettingsPageInit => ChoiceInv
  <1> SUFFICES ASSUME SettingsPageInit PROVE ChoiceInv
    OBVIOUS
  <1>1. ChoiceType
    BY DefaultsOk, NoneInForce DEF SettingsPageInit, ChoiceType
  <1> QED BY <1>1, DefaultsOk, NoneInForce, FieldNames
          DEF SettingsPageInit, ChoiceInv, DownIsDisk, InForceAsShown, ChoicesKept, StartIsEntry, EntryThere, Paused

\* A start puts in force what the file holds. (TaskManApp::new)
LEMMA StartChoice == ASSUME ChoiceInv, ProgramStarts PROVE ChoiceInv'
  <1>1. /\ ~up /\ up' = TRUE /\ set' = disk /\ handed' = disk /\ disk' = disk
        /\ runKey' = runKey /\ gap' = gap /\ exe' \in {"portable", "installed"}
        /\ live' = [f \in Looks |-> disk[f]] /\ engine' = EngineAt(disk["speed"])
    BY DEF ProgramStarts, Started, runKeyVars
  <1>2. disk \in Prefs /\ set = disk /\ handed = disk /\ ChoiceType /\ StartIsEntry
    BY <1>1 DEF ChoiceInv, ChoiceType, DownIsDisk
  <1>3. /\ disk["speed"] \in 0 .. 2 /\ \A f \in Looks : disk[f] \in 0 .. 2
    BY <1>2, PrefValues
  <1>4. ChoiceType'
    BY <1>1, <1>2, <1>3, EngineValues DEF ChoiceType
  <1>5. InForceAsShown'
    BY <1>1, <1>3, EngineValues DEF InForceAsShown
  <1> QED BY <1>1, <1>2, <1>4, <1>5 DEF ChoiceInv, DownIsDisk, ChoicesKept, StartIsEntry, EntryThere

\* The end leaves the file, and the file alone.
LEMMA EndChoice ==
    ASSUME ChoiceInv, NEW file, file = disk', file \in Prefs, Ended(file), handed' = file, exe' = exe,
           gap' \in BOOLEAN, runKey' \in RunEntries \cup {NoEntry},
           ~gap' => (file["start"] = 1 <=> EntryThere')
    PROVE  ChoiceInv'
  <1>1. /\ up' = FALSE /\ set' = file /\ disk' = file
        /\ live' = [f \in Looks |-> 0] /\ engine' = EngineAt(0)
    BY DEF Ended
  <1>2. ChoiceType'
    BY <1>1, NoneInForce DEF ChoiceType, ChoiceInv
  <1> QED BY <1>1, <1>2 DEF ChoiceInv, DownIsDisk, InForceAsShown, ChoicesKept, StartIsEntry

\* What the writer has after one more autosave tells of the Run value, too.
LEMMA LastAutosave ==
    ASSUME ChoiceInv
    PROVE  /\ Autosaved(set) \in Prefs
           /\ ~gap => (Autosaved(set)["start"] = 1 <=> EntryThere)
  BY DEF Autosaved, ChoiceInv, ChoiceType, StartIsEntry

LEMMA ExitChoice == ASSUME ChoiceInv, ProgramExits PROVE ChoiceInv'
  <1>1. /\ disk' = Autosaved(set) /\ handed' = disk' /\ Ended(disk')
        /\ exe' = exe /\ runKey' = runKey /\ gap' = gap
    BY DEF ProgramExits, runKeyVars
  <1>2. EntryThere' <=> EntryThere
    BY <1>1 DEF EntryThere
  <1>3. gap' \in BOOLEAN /\ runKey' \in RunEntries \cup {NoEntry}
    BY <1>1 DEF ChoiceInv, ChoiceType
  <1>4. disk' \in Prefs /\ (~gap' => (disk'["start"] = 1 <=> EntryThere'))
    BY <1>1, <1>2, LastAutosave
  <1> QED BY <1>1, <1>3, <1>4, EndChoice

LEMMA KillChoice == ASSUME ChoiceInv, ProgramKilled PROVE ChoiceInv'
  <1>1. /\ disk' = disk /\ handed' = disk /\ Ended(disk) /\ exe' = exe /\ runKey' = runKey
        /\ gap' = (gap \/ disk["start"] # set["start"])
    BY DEF ProgramKilled
  <1>2. EntryThere' <=> EntryThere
    BY <1>1 DEF EntryThere
  <1>3. gap' \in BOOLEAN /\ runKey' \in RunEntries \cup {NoEntry} /\ disk \in Prefs
    BY <1>1 DEF ChoiceInv, ChoiceType
  <1>4. ~gap' => (disk["start"] = 1 <=> EntryThere')
    BY <1>1, <1>2 DEF ChoiceInv, StartIsEntry
  <1> QED BY <1>1, <1>3, <1>4, EndChoice

LEMMA WriteChoice == ASSUME ChoiceInv, WriterWrites PROVE ChoiceInv'
  BY DEF WriterWrites, prefVars, runKeyVars, ChoiceInv, ChoiceType, DownIsDisk, InForceAsShown, ChoicesKept,
         StartIsEntry, EntryThere

\* An edit behind the file's back may undo what the switch says; nothing else.
LEMMA OthersChoice == ASSUME ChoiceInv, OthersEdit PROVE ChoiceInv'
  <1>1. /\ up' = up /\ set' = set /\ live' = live /\ engine' = engine /\ handed' = handed
        /\ disk' = disk /\ exe' = exe
    BY DEF OthersEdit, prefVars
  <1>2. \/ gap' = TRUE /\ runKey' \in RunEntries \cup {NoEntry}
        \/ gap' = gap /\ runKey' = runKey
    <2>1. [exe |-> "other", hidden |-> FALSE] \in RunEntries
      BY DEF RunEntries
    <2>2. CASE (\E r \in {NoEntry, [exe |-> "other", hidden |-> FALSE]} : runKey' = r) /\ gap' = TRUE
      BY <2>1, <2>2
    <2>3. CASE UNCHANGED runKeyVars
      BY <2>3 DEF runKeyVars
    <2> QED BY <2>2, <2>3 DEF OthersEdit
  <1> QED BY <1>1, <1>2 DEF ChoiceInv, ChoiceType, DownIsDisk, InForceAsShown, ChoicesKept, StartIsEntry, EntryThere

-----------------------------------------------------------------------------
(* The choices: the controls.                                               *)

\* A click on a control that owns one field of the file.
LEMMA SetsChoice ==
    ASSUME ChoiceInv, Click, NEW f \in Fields \ {"auto", "start"}, NEW v \in 0 .. 2, Sets(f, v),
           live' \in [Looks -> 0 .. 2], engine' \in [paused : BOOLEAN, interval : 0 .. 2],
           \A g \in Looks : live'[g] = IF g = f THEN v ELSE live[g],
           f = "speed" => engine'.paused = (v = Paused) /\ (v # Paused => engine'.interval = v),
           f # "speed" => engine' = engine
    PROVE  ChoiceInv'
  <1>1. /\ up /\ up' = up /\ disk' = disk /\ exe' = exe /\ runKey' = runKey /\ gap' = gap
        /\ set' = [set EXCEPT ![f] = v] /\ handed' = Autosaved(set')
    BY DEF Click, Sets, runKeyVars
  <1>2. /\ ChoiceType /\ InForceAsShown /\ ChoicesKept /\ StartIsEntry /\ set \in Prefs
    BY DEF ChoiceInv, ChoiceType
  <1>3. set' \in Prefs /\ set'[f] = v /\ \A g \in Fields \ {f} : set'[g] = set[g]
    <2> DEFINE new == [set EXCEPT ![f] = v]
    <2>1. set \in [Fields -> 0 .. 2] /\ set["auto"] \in 0 .. 1 /\ set["start"] \in 0 .. 1
      BY <1>2, PrefValues
    <2>2. new \in [Fields -> 0 .. 2] /\ new[f] = v /\ \A g \in Fields \ {f} : new[g] = set[g]
      BY <2>1
    <2>3. new \in Prefs
      BY <2>1, <2>2, FieldNames DEF Prefs
    <2> QED BY <1>1, <2>2, <2>3
  <1>4. set'["auto"] = set["auto"] /\ set'["start"] = set["start"]
    BY <1>3, FieldNames
  <1>5. handed' \in Prefs /\ handed' = IF set["auto"] = 1 THEN set' ELSE handed
    BY <1>1, <1>2, <1>3, <1>4 DEF Autosaved, ChoiceType
  <1>6. ChoiceType'
    BY <1>1, <1>2, <1>3, <1>5 DEF ChoiceType
  <1>7. InForceAsShown'
    <2>1. \A g \in Looks : live'[g] = set'[g]
      BY <1>1, <1>2, <1>3, FieldNames DEF InForceAsShown
    <2>2. (engine'.paused <=> (set'["speed"] = Paused)) /\ (~engine'.paused => engine'.interval = set'["speed"])
      <3>1. CASE f = "speed"
        BY <3>1, <1>3
      <3>2. CASE f # "speed"
        BY <3>2, <1>1, <1>2, <1>3, FieldNames DEF InForceAsShown
      <3> QED BY <3>1, <3>2
    <2> QED BY <2>1, <2>2 DEF InForceAsShown
  <1>8. ChoicesKept'
    BY <1>1, <1>2, <1>4, <1>5 DEF ChoicesKept
  <1>9. StartIsEntry'
    BY <1>1, <1>2, <1>4, <1>5 DEF StartIsEntry, EntryThere
  <1> QED BY <1>1, <1>6, <1>7, <1>8, <1>9 DEF ChoiceInv, DownIsDisk

LEMMA LooksChoice ==
    ASSUME ChoiceInv, Click, NEW f \in Looks, Applies(f)
    PROVE  ChoiceInv'
  <1>1. PICK v \in 0 .. 1 : Sets(f, v) /\ live' = [live EXCEPT ![f] = v] /\ engine' = engine
    BY DEF Applies
  <1>2. live \in [Looks -> 0 .. 2] /\ engine' \in [paused : BOOLEAN, interval : 0 .. 2]
    BY <1>1 DEF ChoiceInv, ChoiceType
  <1>3. live' \in [Looks -> 0 .. 2] /\ \A g \in Looks : live'[g] = IF g = f THEN v ELSE live[g]
    BY <1>1, <1>2
  <1>4. f \in Fields \ {"auto", "start"} /\ f # "speed" /\ v \in 0 .. 2
    BY FieldNames
  <1> QED BY <1>1, <1>2, <1>3, <1>4, SetsChoice

LEMMA KeepsChoice ==
    ASSUME ChoiceInv, Click, NEW f \in KeptOn \cup {"ontop"}, NEW v \in 0 .. 1, Sets(f, v), UNCHANGED <<live, engine>>
    PROVE  ChoiceInv'
  <1>1. /\ live' = live /\ engine' = engine /\ live \in [Looks -> 0 .. 2]
        /\ engine \in [paused : BOOLEAN, interval : 0 .. 2]
    BY DEF ChoiceInv, ChoiceType
  <1>2. f \in Fields \ {"auto", "start"} /\ f # "speed" /\ f \notin Looks /\ v \in 0 .. 2
    BY DEF Fields, KeptOn, Looks
  <1>3. \A g \in Looks : live'[g] = IF g = f THEN v ELSE live[g]
    BY <1>1, <1>2
  <1> QED BY <1>1, <1>2, <1>3, SetsChoice

LEMMA SpeedChoice == ASSUME ChoiceInv, ChooseSpeed PROVE ChoiceInv'
  <1>1. PICK v \in 0 .. 2 :
           /\ Sets("speed", v)
           /\ engine' = IF v = Paused THEN [engine EXCEPT !.paused = TRUE] ELSE [paused |-> FALSE, interval |-> v]
    BY DEF ChooseSpeed
  <1>2. Click /\ live' = live /\ live \in [Looks -> 0 .. 2] /\ engine \in [paused : BOOLEAN, interval : 0 .. 2]
    BY DEF ChooseSpeed, ChoiceInv, ChoiceType
  <1>3. /\ engine' \in [paused : BOOLEAN, interval : 0 .. 2]
        /\ engine'.paused = (v = Paused) /\ (v # Paused => engine'.interval = v)
    <2>1. CASE v = Paused
      BY <1>1, <1>2, <2>1
    <2>2. CASE v # Paused
      BY <1>1, <1>2, <2>2
    <2> QED BY <2>1, <2>2
  <1>4. "speed" \in Fields \ {"auto", "start"} /\ "speed" \notin Looks
    BY FieldNames
  <1>5. \A g \in Looks : live'[g] = IF g = "speed" THEN v ELSE live[g]
    BY <1>2, <1>4
  <1> QED BY <1>1, <1>2, <1>3, <1>4, <1>5, SetsChoice

\* A click that forces the save: the writer has all of it.
LEMMA ForcedChoice ==
    ASSUME ChoiceInv, up', set' \in Prefs, handed' = set', disk' = disk, exe' = exe, gap' = gap,
           runKey' \in RunEntries \cup {NoEntry}, ~gap => (set'["start"] = 1 <=> EntryThere'),
           live' \in [Looks -> 0 .. 2], engine' \in [paused : BOOLEAN, interval : 0 .. 2],
           \A g \in Looks : live'[g] = set'[g],
           engine'.paused <=> (set'["speed"] = Paused),
           ~engine'.paused => engine'.interval = set'["speed"]
    PROVE  ChoiceInv'
  <1>1. ChoiceType'
    BY DEF ChoiceInv, ChoiceType
  <1> QED BY <1>1 DEF ChoiceInv, DownIsDisk, InForceAsShown, ChoicesKept, StartIsEntry

LEMMA AutosaveChoice == ASSUME ChoiceInv, ToggleAutosave PROVE ChoiceInv'
  <1>1. /\ up /\ up' = up /\ disk' = disk /\ exe' = exe /\ runKey' = runKey /\ gap' = gap
        /\ live' = live /\ engine' = engine /\ handed' = set'
        /\ set' = [set EXCEPT !["auto"] = 1 - set["auto"]]
    BY DEF ToggleAutosave, Click, runKeyVars, Forced
  <1>2. /\ ChoiceType /\ InForceAsShown /\ StartIsEntry /\ set \in Prefs
    BY DEF ChoiceInv, ChoiceType
  <1>3. 1 - set["auto"] \in 0 .. 1
    BY <1>2, PrefValues
  <1>4. set' \in Prefs /\ \A g \in Fields \ {"auto"} : set'[g] = set[g]
    <2> DEFINE new == [set EXCEPT !["auto"] = 1 - set["auto"]]
    <2>1. set \in [Fields -> 0 .. 2] /\ set["start"] \in 0 .. 1
      BY <1>2, PrefValues
    <2>2. /\ new \in [Fields -> 0 .. 2] /\ new["auto"] \in 0 .. 1
          /\ \A g \in Fields \ {"auto"} : new[g] = set[g]
      BY <2>1, <1>3, FieldNames
    <2>3. new \in Prefs
      BY <2>1, <2>2, FieldNames DEF Prefs
    <2> QED BY <1>1, <2>2, <2>3
  <1>5. set'["start"] = set["start"] /\ set'["speed"] = set["speed"] /\ \A g \in Looks : set'[g] = set[g]
    BY <1>4, FieldNames
  <1>6. ~gap => (set'["start"] = 1 <=> EntryThere')
    BY <1>1, <1>2, <1>5 DEF StartIsEntry, EntryThere
  <1>7. /\ \A g \in Looks : live'[g] = set'[g]
        /\ engine'.paused <=> (set'["speed"] = Paused)
        /\ ~engine'.paused => engine'.interval = set'["speed"]
    BY <1>1, <1>2, <1>5 DEF InForceAsShown
  <1>8. /\ up' /\ runKey' \in RunEntries \cup {NoEntry} /\ live' \in [Looks -> 0 .. 2]
        /\ engine' \in [paused : BOOLEAN, interval : 0 .. 2]
    BY <1>1, <1>2 DEF ChoiceType
  <1> QED BY <1>1, <1>4, <1>6, <1>7, <1>8, ForcedChoice

\* The Run value is written or removed, or nothing is chosen. (set_enabled_for_exe)
LEMMA EnabledEntry ==
    ASSUME ChoiceInv, NEW on \in 0 .. 1, NEW ok \in BOOLEAN, SetEnabled(on, ok)
    PROVE  /\ runKey' \in RunEntries \cup {NoEntry}
           /\ ok => (on = 1 <=> EntryThere')
           /\ ~ok => (EntryThere' <=> EntryThere)
  <1>1. CASE ~ok
    BY <1>1 DEF SetEnabled, EntryThere, ChoiceInv, ChoiceType
  <1>2. CASE ok /\ on = 1
    <2>1. runKey' = [exe |-> exe, hidden |-> TRUE]
      BY <1>2 DEF SetEnabled
    <2>2. exe \in {"portable", "installed", "other"}
      BY DEF ChoiceInv, ChoiceType
    <2>3. runKey' \in RunEntries /\ runKey'.hidden
      BY <2>1, <2>2 DEF RunEntries
    <2>4. runKey' # NoEntry
      BY <2>3, SettingsAssumption
    <2> QED BY <1>2, <2>3, <2>4 DEF EntryThere
  <1>3. CASE ok /\ on # 1
    BY <1>3 DEF SetEnabled, EntryThere
  <1> QED BY <1>1, <1>2, <1>3

LEMMA StartSwitchChoice == ASSUME ChoiceInv, ToggleStart PROVE ChoiceInv'
  <1>1. PICK ok \in BOOLEAN :
          /\ SetEnabled(1 - set["start"], ok)
          /\ IF ok THEN /\ set' = [set EXCEPT !["start"] = 1 - set["start"]]
                        /\ handed' = Autosaved(set')
                        /\ gap' = (gap \/ set["auto"] = 0)
                   ELSE set' = set /\ handed' = handed /\ gap' = gap
    BY DEF ToggleStart
  <1>2. /\ up /\ up' = up /\ disk' = disk /\ exe' = exe /\ live' = live /\ engine' = engine
    BY DEF ToggleStart, Click
  <1>3. /\ ChoiceType /\ InForceAsShown /\ ChoicesKept /\ StartIsEntry /\ set \in Prefs
    BY DEF ChoiceInv, ChoiceType
  <1>4. 1 - set["start"] \in 0 .. 1 /\ set["auto"] \in 0 .. 1 /\ set["start"] \in 0 .. 1
    BY <1>3, PrefValues
  <1>5. /\ runKey' \in RunEntries \cup {NoEntry}
        /\ ok => (1 - set["start"] = 1 <=> EntryThere')
        /\ ~ok => (EntryThere' <=> EntryThere)
    BY <1>1, <1>4, EnabledEntry
  <1>6. CASE ~ok
    <2>1. set' = set /\ handed' = handed /\ gap' = gap
      BY <1>1, <1>6
    <2> QED BY <2>1, <1>2, <1>3, <1>5, <1>6
            DEF ChoiceInv, ChoiceType, DownIsDisk, InForceAsShown, ChoicesKept, StartIsEntry
  <1>7. CASE ok
    <2> DEFINE new == [set EXCEPT !["start"] = 1 - set["start"]]
    <2>1. set' = new /\ handed' = Autosaved(set') /\ gap' = (gap \/ set["auto"] = 0)
      BY <1>1, <1>7
    <2>2. set \in [Fields -> 0 .. 2] /\ set["auto"] \in 0 .. 1
      BY <1>3, PrefValues
    <2>3. /\ new \in [Fields -> 0 .. 2] /\ new["start"] = 1 - set["start"]
          /\ \A g \in Fields \ {"start"} : new[g] = set[g]
      BY <2>2, <1>4, FieldNames
    <2>4. new \in Prefs
      BY <2>2, <2>3, <1>4, FieldNames DEF Prefs
    <2>5. /\ set' \in Prefs /\ set'["start"] = 1 - set["start"] /\ set'["auto"] = set["auto"]
          /\ set'["speed"] = set["speed"] /\ \A g \in Looks : set'[g] = set[g]
      BY <2>1, <2>3, <2>4, FieldNames
    <2> HIDE DEF new
    <2>6. handed' = IF set["auto"] = 1 THEN set' ELSE handed
      BY <2>1, <2>5 DEF Autosaved
    <2>7. ChoiceType'
      BY <2>1, <2>5, <2>6, <1>2, <1>3, <1>5 DEF ChoiceType
    <2>8. InForceAsShown'
      BY <2>5, <1>2, <1>3 DEF InForceAsShown
    <2>9. ChoicesKept'
      BY <2>5, <2>6, <1>2, <1>3 DEF ChoicesKept
    <2>10. StartIsEntry'
      <3> SUFFICES ASSUME ~gap' PROVE (set'["start"] = 1 <=> EntryThere') /\ handed'["start"] = set'["start"]
        BY DEF StartIsEntry
      <3>1. set["auto"] # 0
        BY <2>1, Zenon
      <3>2. set["auto"] = 1
        BY <3>1, <1>4
      <3> QED BY <3>2, <2>5, <2>6, <1>5, <1>7
    <2> QED BY <2>7, <2>8, <2>9, <2>10, <1>2 DEF ChoiceInv, DownIsDisk
  <1> QED BY <1>6, <1>7

\* The reset keeps the autosave switch, and the logon switch if its value stays.
LEMMA ResetChoice == ASSUME ChoiceInv, ResetAll PROVE ChoiceInv'
  <1>1. PICK ok \in BOOLEAN : SetEnabled(0, ok) /\ set' = ResetTo(ok) /\ handed' = set'
    BY DEF ResetAll, Forced
  <1>2. /\ up /\ up' = up /\ disk' = disk /\ exe' = exe /\ gap' = gap
        /\ live' = [f \in Looks |-> Defaults[f]] /\ engine' = EngineAt(Defaults["speed"])
    BY DEF ResetAll, ResetEngine, Click
  <1>3. set \in Prefs /\ StartIsEntry /\ up'
    BY <1>2 DEF ChoiceInv, ChoiceType
  <1>4. set["auto"] \in 0 .. 1 /\ set["start"] \in 0 .. 1
    BY <1>3, PrefValues
  <1> DEFINE start == IF ok THEN 0 ELSE set["start"]
             new == [Defaults EXCEPT !["auto"] = set["auto"], !["start"] = start]
  <1>5. Defaults \in [Fields -> 0 .. 2] /\ \A f \in Looks \cup {"speed"} : Defaults[f] = 0
    BY DefaultsOk, PrefValues
  <1>6. start \in 0 .. 1
    BY <1>4
  <1> HIDE DEF start
  <1>7. /\ new \in [Fields -> 0 .. 2] /\ new["auto"] = set["auto"] /\ new["start"] = start
        /\ \A g \in Fields \ {"auto", "start"} : new[g] = Defaults[g]
    BY <1>4, <1>5, <1>6, FieldNames
  <1>8. new \in Prefs
    BY <1>4, <1>6, <1>7 DEF Prefs
  <1>9. set' = new
    BY <1>1 DEF ResetTo, start
  <1>10. set' \in Prefs /\ set'["start"] = start /\ \A g \in Looks \cup {"speed"} : set'[g] = 0
    BY <1>5, <1>7, <1>8, <1>9, FieldNames
  <1> HIDE DEF new
  <1>11. runKey' \in RunEntries \cup {NoEntry} /\ (~gap => (set'["start"] = 1 <=> EntryThere'))
    <2>1. /\ runKey' \in RunEntries \cup {NoEntry}
          /\ ok => ~EntryThere'
          /\ ~ok => (EntryThere' <=> EntryThere)
      BY <1>1, EnabledEntry
    <2> QED BY <2>1, <1>3, <1>10 DEF StartIsEntry, start
  <1>12. live' = [f \in Looks |-> 0] /\ engine' = EngineAt(0)
    BY <1>2, <1>5
  <1>13. /\ live' \in [Looks -> 0 .. 2] /\ engine' \in [paused : BOOLEAN, interval : 0 .. 2]
         /\ \A g \in Looks : live'[g] = set'[g]
         /\ engine'.paused <=> (set'["speed"] = Paused)
         /\ ~engine'.paused => engine'.interval = set'["speed"]
    BY <1>10, <1>12, NoneInForce DEF Paused
  <1> QED BY <1>1, <1>2, <1>3, <1>10, <1>11, <1>13, ForcedChoice

LEMMA CloseChoice == ASSUME ChoiceInv, CloseSettings PROVE ChoiceInv'
  <1>1. /\ up /\ up' = up /\ set' = set /\ live' = live /\ engine' = engine /\ disk' = disk
        /\ exe' = exe /\ runKey' = runKey /\ gap' = gap
        /\ handed' = handed \/ handed' = set
    BY DEF CloseSettings, runKeyVars, Forced
  <1> QED BY <1>1 DEF ChoiceInv, ChoiceType, DownIsDisk, InForceAsShown, ChoicesKept, StartIsEntry, EntryThere

\* A moved Run value is still there, and still starts hidden. (retarget_if_registered)
LEMMA RetargetKeeps ==
    ASSUME ChoiceInv, runKey' = Retargeted \/ runKey' = runKey
    PROVE  runKey' \in RunEntries \cup {NoEntry} /\ (EntryThere' <=> EntryThere)
  <1>1. runKey \in RunEntries \cup {NoEntry}
    BY DEF ChoiceInv, ChoiceType
  <1>2. CASE runKey' = runKey
    BY <1>1, <1>2 DEF EntryThere
  <1>3. CASE runKey # NoEntry /\ runKey' = [runKey EXCEPT !.exe = "installed"]
    <2>1. runKey' \in RunEntries /\ runKey'.hidden = runKey.hidden
      BY <1>1, <1>3 DEF RunEntries
    <2>2. runKey' # NoEntry
      BY <2>1, SettingsAssumption
    <2> QED BY <1>3, <2>1, <2>2 DEF EntryThere
  <1> QED BY <1>2, <1>3 DEF Retargeted

LEMMA CoreChoice == ASSUME ChoiceInv, CoreChanged PROVE ChoiceInv'
  <1>1. exe' = exe /\ gap' = gap /\ (runKey' = Retargeted \/ runKey' = runKey)
    BY DEF CoreChanged
  <1>2. runKey' \in RunEntries \cup {NoEntry} /\ (EntryThere' <=> EntryThere) /\ gap' \in BOOLEAN
    BY <1>1, RetargetKeeps DEF ChoiceInv, ChoiceType
  <1>3. CASE UNCHANGED <<up, pageOpen, prefVars, disk, check>>
    BY <1>1, <1>2, <1>3 DEF prefVars, ChoiceInv, ChoiceType, DownIsDisk, InForceAsShown, ChoicesKept, StartIsEntry
  <1>4. CASE handed' = Autosaved(set) /\ disk' = handed' /\ Ended(disk')
    <2>1. disk' \in Prefs /\ (~gap' => (disk'["start"] = 1 <=> EntryThere'))
      BY <1>1, <1>2, <1>4, LastAutosave
    <2> QED BY <1>1, <1>2, <1>4, <2>1, EndChoice
  <1> QED BY <1>3, <1>4 DEF CoreChanged

\* The steps that choose nothing.
LEMMA OtherChoice ==
    ASSUME ChoiceInv, UNCHANGED <<up, prefVars, disk, exe, runKeyVars>>
    PROVE  ChoiceInv'
  BY DEF prefVars, runKeyVars, ChoiceInv, ChoiceType, DownIsDisk, InForceAsShown, ChoicesKept, StartIsEntry, EntryThere

LEMMA ControlsChoice == ASSUME ChoiceInv, Controls PROVE ChoiceInv'
  <1>1. CASE ChooseTheme \/ ChooseLanguage \/ ChooseSmoothing \/ ChooseZoom
    BY <1>1, LooksChoice DEF ChooseTheme, ChooseLanguage, ChooseSmoothing, ChooseZoom, Looks
  <1>2. ASSUME NEW f \in KeptOn \cup {"ontop"}, Click, Keeps(f) PROVE ChoiceInv'
    BY <1>2, KeepsChoice DEF Keeps
  <1>3. CASE \/ ChooseStartPage \/ ChooseRenderMode \/ ChooseGraphWindow \/ ToggleRemember \/ ToggleTray
             \/ ToggleWifi \/ ToggleElevated \/ ToggleOnTop
    <2>1. \E f \in KeptOn \cup {"ontop"} : Click /\ Keeps(f)
      BY <1>3 DEF ChooseStartPage, ChooseRenderMode, ChooseGraphWindow, ToggleRemember, ToggleTray,
                  ToggleWifi, ToggleElevated, ToggleOnTop, KeptOn
    <2> QED BY <1>2, <2>1
  <1>4. CASE ResetWidths
    <2>1. "widths" \in KeptOn \cup {"ontop"} /\ 0 \in 0 .. 1
      BY DEF KeptOn
    <2> QED BY <1>4, <2>1, KeepsChoice DEF ResetWidths
  <1>5. CASE CoreButton \/ ToggleReplacement \/ RepairReplacement
    BY <1>5, OtherChoice DEF CoreButton, ToggleReplacement, RepairReplacement, Click, prefVars, runKeyVars
  <1> QED BY <1>1, <1>3, <1>4, <1>5, SpeedChoice, AutosaveChoice, StartSwitchChoice, ResetChoice DEF Controls

LEMMA ChoiceStep == ChoiceInv /\ [SettingsPageNext]_settingsPageVars => ChoiceInv'
  <1> SUFFICES ASSUME ChoiceInv, [SettingsPageNext]_settingsPageVars PROVE ChoiceInv'
    OBVIOUS
  <1>1. CASE OpenSettings \/ PollAdvanced \/ PollAnswers \/ CheckReads \/ CheckRepairs \/ UNCHANGED settingsPageVars
    BY <1>1, OtherChoice DEF OpenSettings, PollAdvanced, PollAnswers, CheckReads, CheckRepairs, settingsPageVars
  <1> QED BY <1>1, StartChoice, ExitChoice, KillChoice, WriteChoice, OthersChoice, ControlsChoice, CloseChoice,
             CoreChoice DEF SettingsPageNext

-----------------------------------------------------------------------------
(* The advanced section.                                                    *)

\* A state that has been asked for nothing, or has.
LEMMA NothingAskedOk == NothingAsked \in AdvStates /\ NothingAsked.polls = 0
  BY DEF NothingAsked, AdvStates

LEMMA AdvInit == SettingsPageInit => AdvInv
  <1> SUFFICES ASSUME SettingsPageInit PROVE AdvInv
    OBVIOUS
  <1>1. AdvType
    BY NothingAskedOk DEF SettingsPageInit, AdvType, Registrations, Cores
  <1>2. adv.polls = 0
    BY NothingAskedOk DEF SettingsPageInit
  <1> QED BY <1>1, <1>2 DEF AdvInv, PollIsFlagged

LEMMA AdvKept ==
    ASSUME AdvInv, adv' = adv \/ adv' = NothingAsked, ifeo' \in Registrations, core' \in Cores
    PROVE  AdvInv'
  BY NothingAskedOk DEF AdvInv, AdvType, PollIsFlagged

\* One read at a time: the flag is up until its answer is taken.
LEMMA PollInv == ASSUME AdvInv, PollAdvanced PROVE AdvInv'
  <1>1. ifeo' = ifeo /\ core' = core /\ adv \in AdvStates
    BY DEF PollAdvanced, AdvInv, AdvType
  <1>2. CASE /\ adv.box # NoEntry
             /\ adv' = [adv EXCEPT !.shown = adv.box.core, !.tm = adv.box.tm, !.box = NoEntry, !.flag = FALSE]
    <2>1. adv.box \in Answers /\ adv.polls = 0
      BY <1>1, <1>2 DEF AdvInv, PollIsFlagged, AdvStates
    <2>2. adv.box.core \in Cores /\ adv.box.tm \in Registrations
      BY <2>1 DEF Answers
    <2>3. adv' \in AdvStates /\ adv'.polls = adv.polls
      BY <1>1, <1>2, <2>2 DEF AdvStates
    <2> QED BY <1>1, <2>1, <2>3 DEF AdvInv, AdvType, PollIsFlagged
  <1>3. CASE /\ ~adv.flag /\ adv.box = NoEntry
             /\ adv' = [adv EXCEPT !.polls = @ + 1, !.flag = TRUE]
    <2>1. adv.polls = 0
      BY <1>1, <1>3 DEF AdvInv, PollIsFlagged, AdvStates
    <2>2. adv' = [adv EXCEPT !.polls = 1, !.flag = TRUE]
      BY <1>1, <1>3, <2>1 DEF AdvStates
    <2>3. adv' \in AdvStates
      BY <1>1, <2>2 DEF AdvStates
    <2>4. adv'.polls = 1 /\ adv'.flag /\ adv'.box = NoEntry
      BY <1>1, <1>3, <2>2 DEF AdvStates
    <2> QED BY <1>1, <2>3, <2>4 DEF AdvInv, AdvType, PollIsFlagged
  <1> QED BY <1>2, <1>3 DEF PollAdvanced, PollDue

LEMMA AnswerInv == ASSUME AdvInv, PollAnswers PROVE AdvInv'
  <1> DEFINE answer == [core |-> core, tm |-> ifeo]
  <1>1. /\ ifeo' = ifeo /\ core' = core /\ adv \in AdvStates /\ adv.polls > 0
        /\ adv' = [adv EXCEPT !.polls = @ - 1, !.box = answer]
    BY DEF PollAnswers, AdvInv, AdvType
  <1>2. answer \in Answers
    BY DEF AdvInv, AdvType, Answers
  <1>3. adv.polls = 1
    BY <1>1 DEF AdvInv, PollIsFlagged, AdvStates
  <1>4. adv' = [adv EXCEPT !.polls = 0, !.box = answer]
    BY <1>1, <1>3 DEF AdvStates
  <1> HIDE DEF answer
  <1>5. adv' \in AdvStates
    <2>1. PICK b \in Answers \cup {NoEntry} : b = answer
      BY <1>2
    <2>2. PICK polled \in AdvStates : polled = [adv EXCEPT !.polls = 0]
      BY <1>1 DEF AdvStates
    <2>3. adv' = [polled EXCEPT !.box = b]
      BY <1>1, <1>4, <2>1, <2>2 DEF AdvStates
    <2>4. [polled EXCEPT !.box = b] \in AdvStates
      BY <2>1, <2>2 DEF AdvStates
    <2> QED BY <2>3, <2>4
  <1>6. adv'.polls = 0
    BY <1>1, <1>4 DEF AdvStates
  <1> QED BY <1>1, <1>5, <1>6 DEF AdvInv, AdvType, PollIsFlagged

LEMMA ChangeInv ==
    ASSUME AdvInv, NEW c \in {"none", "install", "remove", "switch", "repair"}, adv' = [adv EXCEPT !.change = c],
           ifeo' \in Registrations, core' \in Cores
    PROVE  AdvInv'
  <1>1. adv \in AdvStates
    BY DEF AdvInv, AdvType
  <1>2. adv' \in AdvStates /\ adv'.polls = adv.polls /\ adv'.flag = adv.flag /\ adv'.box = adv.box
    BY <1>1 DEF AdvStates
  <1> QED BY <1>2 DEF AdvInv, AdvType, PollIsFlagged

LEMMA CoreInv == ASSUME AdvInv, CoreChanged PROVE AdvInv'
  <1>1. ifeo' \in Registrations /\ core' \in Cores
    BY DEF CoreChanged, AdvInv, AdvType, Cores
  <1>2. CASE adv' = [adv EXCEPT !.change = "none"]
    BY <1>1, <1>2, ChangeInv
  <1>3. CASE adv' = NothingAsked
    BY <1>1, <1>3, AdvKept
  <1> QED BY <1>2, <1>3 DEF CoreChanged, Ended

LEMMA ButtonInv == ASSUME AdvInv, CoreButton PROVE AdvInv'
  <1>1. ifeo' \in Registrations /\ core' \in Cores
    BY DEF CoreButton, Click, AdvInv, AdvType
  <1>2. \E c \in {"none", "install", "remove", "switch", "repair"} : adv' = [adv EXCEPT !.change = c]
    BY DEF CoreButton
  <1> QED BY <1>1, <1>2, ChangeInv

LEMMA AdvStep == AdvInv /\ [SettingsPageNext]_settingsPageVars => AdvInv'
  <1> SUFFICES ASSUME AdvInv, [SettingsPageNext]_settingsPageVars PROVE AdvInv'
    OBVIOUS
  <1>1. ifeo \in Registrations /\ core \in Cores
    BY DEF AdvInv, AdvType
  <1>2. CASE ProgramStarts \/ ProgramExits \/ ProgramKilled
    BY <1>1, <1>2, AdvKept DEF ProgramStarts, ProgramExits, ProgramKilled, Ended
  <1>3. CASE OthersEdit
    BY <1>1, <1>3, AdvKept DEF OthersEdit
  <1>4. CASE WriterWrites \/ OpenSettings \/ CloseSettings \/ CheckReads \/ UNCHANGED settingsPageVars
    BY <1>1, <1>4, AdvKept DEF WriterWrites, OpenSettings, CloseSettings, CheckReads, advVars, settingsPageVars
  <1>5. CASE ToggleReplacement \/ RepairReplacement \/ CheckRepairs
    BY <1>1, <1>5, AdvKept DEF ToggleReplacement, RepairReplacement, CheckRepairs, Registrations
  <1>6. ASSUME NEW f, NEW v, Click, Sets(f, v) PROVE AdvInv'
    BY <1>1, <1>6, AdvKept DEF Click, Sets
  <1>7. CASE \/ ChooseTheme \/ ChooseLanguage \/ ChooseSmoothing \/ ChooseZoom \/ ChooseStartPage
             \/ ChooseRenderMode \/ ChooseGraphWindow \/ ToggleRemember \/ ToggleTray \/ ToggleWifi
             \/ ToggleElevated \/ ToggleOnTop \/ ResetWidths \/ ChooseSpeed
    BY <1>6, <1>7 DEF ChooseTheme, ChooseLanguage, ChooseSmoothing, ChooseZoom, ChooseStartPage, ChooseRenderMode,
                      ChooseGraphWindow, ToggleRemember, ToggleTray, ToggleWifi, ToggleElevated, ToggleOnTop,
                      ResetWidths, ChooseSpeed, Applies, Keeps
  <1>8. CASE ToggleAutosave \/ ToggleStart \/ ResetAll
    BY <1>1, <1>8, AdvKept DEF ToggleAutosave, ToggleStart, ResetAll, Click
  <1>9. CASE Controls
    BY <1>5, <1>7, <1>8, <1>9, ButtonInv DEF Controls
  <1> QED BY <1>2, <1>3, <1>4, <1>5, <1>9, PollInv, AnswerInv, CoreInv DEF SettingsPageNext

-----------------------------------------------------------------------------
(* The theorem.                                                             *)

\* What the settings dialog shows is in force and, if saved, survives the restart; the
\* logon switch follows the Run value; one worker at a time reads the advanced state:
\* for any number of clicks and starts.
THEOREM SettingsAreHonest == SettingsPageSpec => []SettingsHonest
  <1>1. SettingsPageInit => ChoiceInv /\ AdvInv
    BY ChoiceInit, AdvInit
  <1>2. ChoiceInv /\ AdvInv /\ [SettingsPageNext]_settingsPageVars => ChoiceInv' /\ AdvInv'
    BY ChoiceStep, AdvStep
  <1>3. ChoiceInv /\ AdvInv => SettingsHonest
    BY DEF ChoiceInv, AdvInv, StartIsEntry, EntryThere, PollIsFlagged, SettingsHonest, AutostartShown, OnePoll
  <1> QED BY <1>1, <1>2, <1>3, PTL DEF SettingsPageSpec

-----------------------------------------------------------------------------
(* The Threads page: the inductive invariant.                               *)

Ages == 0 .. Cap
ThreadStates == [fresh : BOOLEAN, on : BOOLEAN, ran : Ages, moved : {"no", "cpu", "switch"}]
TrackStates == [since : Ages, active : BOOLEAN, watch : Ages \cup {NoThread}]
Verdicts == {"running", "recent", "idle", "observing"}

TrackerType ==
    /\ threads \in [Tids -> ThreadStates \cup {NoThread}]
    /\ query \in (0 .. MaxDelay) \cup {NoThread}
    /\ sampled \in Ages \cup {NoThread}
    /\ tracks \in [Tids -> TrackStates \cup {NoThread}]
    /\ shown \in [Tids -> [activity : Verdicts, ran : Int] \cup {NoThread}]

\* The thread is the one the track is about.
Followed(t) == threads[t] # NoThread /\ Continues(t)

\* What the counters of the last listing prove of a thread's last run: if they
\* advanced, it is younger than the sample; if not, it is no younger than the track's
\* last activity, up to the time a query takes. (Tracker::apply)
CountersTell(t) ==
    Followed(t) =>
        /\ sampled # NoThread
        /\ threads[t].moved # "no" => threads[t].ran <= sampled
        /\ threads[t].moved = "no" => /\ threads[t].ran >= tracks[t].since - MaxDelay
                                      /\ threads[t].on => tracks[t].since <= MaxDelay

OnIsNow(t) == threads[t] # NoThread => (threads[t].on => threads[t].ran = 0)

\* A thread is observed from its first sight or from its gap on, never from elsewhere.
WatchIsSince(t) ==
    tracks[t] # NoThread => (tracks[t].watch # NoThread => tracks[t].watch = tracks[t].since)

\* The track is old enough for the next listing to call the thread idle.
Ripe(t) == /\ tracks[t].since >= Dormant
           /\ query # NoThread => tracks[t].since - query >= Dormant

\* A last activity that is not observed any more is that of a run within Dormant before
\* it, unless it is too old to be called recent.
RunNearSince(t) ==
    Followed(t) => (tracks[t].active /\ tracks[t].watch = NoThread =>
                     threads[t].ran <= tracks[t].since + Dormant \/ Ripe(t))

RowIsTrue(t) ==
    shown[t] # NoThread => /\ shown[t].activity = "idle" => shown[t].ran >= Dormant - MaxDelay
                           /\ shown[t].activity = "recent" => shown[t].ran < 2 * Dormant

TrackIsTrue(t) == CountersTell(t) /\ OnIsNow(t) /\ WatchIsSince(t) /\ RunNearSince(t) /\ RowIsTrue(t)

TrackerInv == TrackerType /\ \A t \in Tids : TrackIsTrue(t)

-----------------------------------------------------------------------------
(* Ages.                                                                    *)

LEMMA OlderAge ==
    ASSUME NEW age \in Ages
    PROVE  Older(age) \in Ages /\ Older(age) # NoThread /\ (Older(age) = age + 1 \/ (age = Cap /\ Older(age) = Cap))
  BY TrackerAssumption DEF Older, Ages, Cap

LEMMA OlderNone == Older(NoThread) = NoThread
  BY DEF Older

LEMMA OlderQuery ==
    ASSUME TrackerAssumption, query \in 0 .. MaxDelay, query < MaxDelay
    PROVE  Older(query) = query + 1 /\ query + 1 \in 0 .. MaxDelay /\ query + 1 # NoThread
  BY DEF Older, Cap, TrackerAssumption

-----------------------------------------------------------------------------
(* The steps.                                                               *)

LEMMA TrackerInitInv == TrackerInit => TrackerInv
  <1> SUFFICES ASSUME TrackerInit PROVE TrackerInv
    OBVIOUS
  <1>1. TrackerType
    BY DEF TrackerInit, TrackerType
  <1>2. ASSUME NEW t \in Tids PROVE TrackIsTrue(t)
    BY DEF TrackerInit, TrackIsTrue, CountersTell, OnIsNow, WatchIsSince, RunNearSince, RowIsTrue, Followed
  <1> QED BY <1>1, <1>2 DEF TrackerInv

\* What a step of time does to one thread and to its track.
LEMMA TickThread ==
    ASSUME TrackerType, TrackerTick, NEW t \in Tids, threads[t] # NoThread
    PROVE  /\ threads[t] \in ThreadStates /\ threads'[t] \in ThreadStates
           /\ threads'[t].fresh = threads[t].fresh /\ threads'[t].on = threads[t].on
           /\ threads[t].on => threads'[t].ran = 0 /\ threads'[t].moved # "no"
           /\ ~threads[t].on => threads'[t].ran = Older(threads[t].ran) /\ threads'[t].moved = threads[t].moved
  <1> DEFINE th == threads[t]
  <1>1. th \in ThreadStates
    BY DEF TrackerType
  <1>2. CASE th.on
    <2>1. threads'[t] = [th EXCEPT !.ran = 0, !.moved = IF @ = "no" THEN "cpu" ELSE @]
      BY <1>2 DEF TrackerTick
    <2>2. 0 \in Ages
      BY TrackerAssumption DEF Ages, Cap
    <2> QED BY <1>1, <1>2, <2>1, <2>2 DEF ThreadStates
  <1>3. CASE ~th.on
    <2>1. threads'[t] = [th EXCEPT !.ran = Older(@)]
      BY <1>3 DEF TrackerTick
    <2>2. th.ran \in Ages
      BY <1>1 DEF ThreadStates
    <2>3. Older(th.ran) \in Ages
      BY <2>2, OlderAge
    <2> QED BY <1>1, <1>3, <2>1, <2>3 DEF ThreadStates
  <1> QED BY <1>2, <1>3

LEMMA TickTrack ==
    ASSUME TrackerType, TrackerTick, NEW t \in Tids, tracks[t] # NoThread
    PROVE  /\ tracks[t] \in TrackStates /\ tracks'[t] \in TrackStates
           /\ tracks'[t].active = tracks[t].active
           /\ tracks'[t].since = Older(tracks[t].since)
           /\ tracks'[t].watch = Older(tracks[t].watch)
  <1> DEFINE tr == tracks[t]
  <1>1. tr \in TrackStates
    BY DEF TrackerType
  <1>2. tracks'[t] = [tr EXCEPT !.since = Older(@), !.watch = Older(@)]
    BY DEF TrackerTick
  <1>3. Older(tr.since) \in Ages /\ Older(tr.watch) \in Ages \cup {NoThread}
    BY <1>1, OlderAge, OlderNone DEF TrackStates
  <1> QED BY <1>1, <1>2, <1>3 DEF TrackStates

LEMMA TickType == TrackerType /\ TrackerTick => TrackerType'
  <1> SUFFICES ASSUME TrackerType, TrackerTick PROVE TrackerType'
    OBVIOUS
  <1>1. threads' \in [Tids -> ThreadStates \cup {NoThread}]
    <2>1. \A t \in Tids : threads'[t] \in ThreadStates \cup {NoThread}
      BY TickThread DEF TrackerTick
    <2>2. threads' = [t \in Tids |-> threads'[t]]
      BY DEF TrackerTick
    <2> QED BY <2>1, <2>2
  <1>2. query' \in (0 .. MaxDelay) \cup {NoThread}
    <2>1. CASE query = NoThread
      BY <2>1, OlderNone DEF TrackerTick
    <2>2. CASE query # NoThread
      BY <2>2, OlderQuery, TrackerAssumption DEF TrackerTick, TrackerType
    <2> QED BY <2>1, <2>2
  <1>3. sampled' \in Ages \cup {NoThread}
    BY OlderAge, OlderNone DEF TrackerTick, TrackerType
  <1>4. tracks' \in [Tids -> TrackStates \cup {NoThread}]
    <2>1. \A t \in Tids : tracks'[t] \in TrackStates \cup {NoThread}
      BY TickTrack DEF TrackerTick
    <2>2. tracks' = [t \in Tids |-> tracks'[t]]
      BY DEF TrackerTick
    <2> QED BY <2>1, <2>2
  <1>5. shown' \in [Tids -> [activity : Verdicts, ran : Int] \cup {NoThread}]
    BY DEF TrackerTick, TrackerType
  <1> QED BY <1>1, <1>2, <1>3, <1>4, <1>5 DEF TrackerType

\* Time keeps what the tracks prove: every age advances alike, up to its cap.
LEMMA TickTrue ==
    ASSUME TrackerInv, TrackerTick, NEW t \in Tids
    PROVE  TrackIsTrue(t)'
  <1> DEFINE th == threads[t]
             tr == tracks[t]
  <1>0. /\ TrackerType
        /\ CountersTell(t) /\ OnIsNow(t) /\ WatchIsSince(t) /\ RunNearSince(t) /\ RowIsTrue(t)
        /\ Dormant \in Nat /\ Dormant >= 1 /\ MaxDelay \in Nat /\ Cap = 2 * Dormant + MaxDelay + 1
    BY TrackerAssumption DEF TrackerInv, TrackIsTrue, Cap
  <1>1. /\ threads[t] = NoThread => threads'[t] = NoThread
        /\ tracks[t] = NoThread => tracks'[t] = NoThread
        /\ shown'[t] = shown[t]
    BY DEF TrackerTick
  <1>2. ASSUME Followed(t)'
        PROVE  Followed(t) /\ threads[t] # NoThread /\ tracks[t] # NoThread
    BY <1>1, <1>2, TickThread, <1>0 DEF Followed, Continues
  <1>3. CountersTell(t)'
    <2> SUFFICES ASSUME Followed(t)'
                 PROVE  (/\ sampled # NoThread
                         /\ threads[t].moved # "no" => threads[t].ran <= sampled
                         /\ threads[t].moved = "no" => /\ threads[t].ran >= tracks[t].since - MaxDelay
                                                       /\ threads[t].on => tracks[t].since <= MaxDelay)'
      BY DEF CountersTell
    <2>1. /\ th \in ThreadStates /\ threads'[t] \in ThreadStates
          /\ threads'[t].on = th.on
          /\ th.on => threads'[t].ran = 0 /\ threads'[t].moved # "no"
          /\ ~th.on => threads'[t].ran = Older(th.ran) /\ threads'[t].moved = th.moved
      BY <1>0, <1>2, TickThread
    <2>2. /\ tr \in TrackStates /\ tracks'[t].since = Older(tr.since)
      BY <1>0, <1>2, TickTrack
    <2>3. /\ sampled # NoThread
          /\ th.moved # "no" => th.ran <= sampled
          /\ th.moved = "no" => /\ th.ran >= tr.since - MaxDelay
                                /\ th.on => tr.since <= MaxDelay
      BY <1>0, <1>2 DEF CountersTell
    <2>4. sampled' = Older(sampled) /\ sampled \in Ages \cup {NoThread}
      BY <1>0 DEF TrackerTick, TrackerType
    <2>5. th.ran \in Ages /\ tr.since \in Ages /\ th.on \in BOOLEAN
      BY <2>1, <2>2 DEF ThreadStates, TrackStates
    <2>6. PICK r \in Ages : r = th.ran
      BY <2>5
    <2>7. PICK s \in Ages : s = tr.since
      BY <2>5
    <2>8. Older(r) \in Ages /\ (Older(r) = r + 1 \/ (r = Cap /\ Older(r) = Cap))
      BY <2>6, OlderAge
    <2>9. Older(s) \in Ages /\ (Older(s) = s + 1 \/ (s = Cap /\ Older(s) = Cap))
      BY <2>7, OlderAge
    <2>10. CASE th.on
      <3>1. threads'[t].ran = 0 /\ threads'[t].moved # "no"
        BY <2>10, <2>1
      <3>2. sampled' \in Ages /\ sampled' # NoThread
        BY <2>3, <2>4, OlderAge
      <3> QED BY <3>1, <3>2, <1>0 DEF Ages
    <2>11. CASE ~th.on /\ th.moved # "no"
      <3>1. sampled \in Ages /\ r <= sampled
        BY <2>11, <2>3, <2>4, <2>6
      <3>2. Older(sampled) \in Ages /\ Older(sampled) # NoThread /\ (Older(sampled) = sampled + 1 \/ (sampled = Cap /\ Older(sampled) = Cap))
        BY <3>1, OlderAge
      <3>3. Older(r) <= Older(sampled)
        BY <3>1, <3>2, <2>8, <1>0 DEF Ages
      <3> QED BY <3>2, <3>3, <2>11, <2>1, <2>4, <2>6
    <2>12. CASE ~th.on /\ th.moved = "no"
      <3>1. Older(r) >= Older(s) - MaxDelay
        BY <2>3, <2>6, <2>7, <2>8, <2>9, <2>12, <1>0 DEF Ages
      <3>2. sampled' # NoThread
        BY <2>3, <2>4, OlderAge
      <3> QED BY <3>1, <3>2, <2>1, <2>2, <2>12, <2>6, <2>7
    <2> QED BY <2>10, <2>11, <2>12
  <1>4. OnIsNow(t)'
    <2> SUFFICES ASSUME threads'[t] # NoThread, threads'[t].on PROVE threads'[t].ran = 0
      BY DEF OnIsNow
    <2> QED BY TickThread, <1>0, <1>1
  <1>5. WatchIsSince(t)'
    <2> SUFFICES ASSUME tracks'[t] # NoThread, tracks'[t].watch # NoThread
                 PROVE  tracks'[t].watch = tracks'[t].since
      BY DEF WatchIsSince
    <2>1. tracks'[t].since = Older(tr.since) /\ tracks'[t].watch = Older(tr.watch)
      BY <1>0, <1>1, TickTrack
    <2> QED BY <2>1, <1>0, <1>1, OlderNone DEF WatchIsSince
  <1>6. RunNearSince(t)'
    <2> SUFFICES ASSUME Followed(t)', tracks'[t].active, tracks'[t].watch = NoThread
                 PROVE  threads'[t].ran <= tracks'[t].since + Dormant \/ Ripe(t)'
      BY DEF RunNearSince
    <2>1. /\ th \in ThreadStates
          /\ th.on => threads'[t].ran = 0
          /\ ~th.on => threads'[t].ran = Older(th.ran)
      BY <1>0, <1>2, TickThread
    <2>2. /\ tr \in TrackStates /\ tracks'[t].since = Older(tr.since)
          /\ tracks'[t].active = tr.active /\ tracks'[t].watch = Older(tr.watch)
      BY <1>0, <1>2, TickTrack
    <2>3. tr.watch = NoThread
      BY <2>2, OlderAge DEF TrackStates
    <2>4. th.ran <= tr.since + Dormant \/ Ripe(t)
      BY <2>2, <2>3, <1>0, <1>2 DEF RunNearSince
    <2>5. th.ran \in Ages /\ tr.since \in Ages /\ th.on \in BOOLEAN
      BY <2>1, <2>2 DEF ThreadStates, TrackStates
    <2>6. PICK r \in Ages : r = th.ran
      BY <2>5
    <2>7. PICK s \in Ages : s = tr.since
      BY <2>5
    <2>8. Older(r) \in Ages /\ (Older(r) = r + 1 \/ (r = Cap /\ Older(r) = Cap))
      BY <2>6, OlderAge
    <2>9. Older(s) \in Ages /\ (Older(s) = s + 1 \/ (s = Cap /\ Older(s) = Cap))
      BY <2>7, OlderAge
    <2>10. CASE th.on
      BY <2>10, <2>1, <2>2, <2>7, <2>9, <1>0 DEF Ages
    <2>11. CASE ~th.on /\ th.ran <= tr.since + Dormant
      BY <2>11, <2>1, <2>2, <2>6, <2>7, <2>8, <2>9, <1>0 DEF Ages
    <2>12. CASE Ripe(t)
      <3>1. s >= Dormant /\ Older(s) >= Dormant
        BY <2>7, <2>9, <2>12, <1>0 DEF Ripe, Ages
      <3>2. ASSUME query' # NoThread PROVE Older(s) - query' >= Dormant
        <4>1. query # NoThread /\ query' = Older(query)
          BY <3>2, OlderNone DEF TrackerTick
        <4>2. query \in 0 .. MaxDelay /\ query < MaxDelay
          BY <4>1, <1>0 DEF TrackerTick, TrackerType
        <4>3. query' = query + 1
          BY <4>1, <4>2, OlderQuery, TrackerAssumption
        <4>4. s - query >= Dormant
          BY <4>1, <2>7, <2>12 DEF Ripe
        <4> QED BY <4>2, <4>3, <4>4, <2>9, <1>0 DEF Ages
      <3>3. Older(s) = tracks'[t].since
        BY <2>2, <2>7
      <3> QED BY <3>1, <3>2, <3>3 DEF Ripe
    <2> QED BY <2>10, <2>11, <2>12, <2>4, <2>5
  <1>7. RowIsTrue(t)'
    BY <1>0, <1>1 DEF RowIsTrue
  <1> QED BY <1>3, <1>4, <1>5, <1>6, <1>7 DEF TrackIsTrue

\* A thread that starts is nobody the last listing knew; what was known of its TID stays.
LEMMA StartTrue ==
    ASSUME TrackerInv, NEW s \in Tids, ThreadStarts(s)
    PROVE  TrackerInv'
  <1>1. TrackerType'
    <2>1. [fresh |-> TRUE, on |-> FALSE, ran |-> 0, moved |-> "switch"] \in ThreadStates
      BY TrackerAssumption DEF ThreadStates, Ages, Cap
    <2> QED BY <2>1 DEF TrackerInv, TrackerType, ThreadStarts
  <1>2. ASSUME NEW t \in Tids PROVE TrackIsTrue(t)'
    <2>1. TrackIsTrue(t) /\ threads \in [Tids -> ThreadStates \cup {NoThread}]
      BY DEF TrackerInv, TrackerType
    <2>2. CASE t = s
      <3>1. threads'[t] = [fresh |-> TRUE, on |-> FALSE, ran |-> 0, moved |-> "switch"]
        BY <2>1, <2>2 DEF ThreadStarts
      <3> QED BY <2>1, <3>1 DEF ThreadStarts, TrackIsTrue, CountersTell, OnIsNow, WatchIsSince,
                                RunNearSince, RowIsTrue, Followed, Continues
    <2>3. CASE t # s
      BY <2>1, <2>3 DEF ThreadStarts, TrackIsTrue, CountersTell, OnIsNow, WatchIsSince,
                        RunNearSince, RowIsTrue, Followed, Continues, Ripe
    <2> QED BY <2>2, <2>3
  <1> QED BY <1>1, <1>2 DEF TrackerInv

LEMMA ExitTrue ==
    ASSUME TrackerInv, NEW s \in Tids, ThreadExits(s)
    PROVE  TrackerInv'
  <1>1. TrackerType'
    BY DEF TrackerInv, TrackerType, ThreadExits
  <1>2. ASSUME NEW t \in Tids PROVE TrackIsTrue(t)'
    <2>1. TrackIsTrue(t) /\ threads \in [Tids -> ThreadStates \cup {NoThread}]
      BY DEF TrackerInv, TrackerType
    <2>2. threads'[t] = IF t = s THEN NoThread ELSE threads[t]
      BY <2>1 DEF ThreadExits
    <2> QED BY <2>1, <2>2 DEF ThreadExits, TrackIsTrue, CountersTell, OnIsNow, WatchIsSince,
                              RunNearSince, RowIsTrue, Followed, Continues, Ripe
  <1> QED BY <1>1, <1>2 DEF TrackerInv

\* A run shows in the counters from its start on; one that goes on since the last listing
\* began before it.
LEMMA RunTrue ==
    ASSUME TrackerInv, NEW s \in Tids, ThreadRuns(s)
    PROVE  TrackerInv'
  <1>1. PICK on \in BOOLEAN :
           threads' = [threads EXCEPT ![s].on = on, ![s].ran = 0,
                                      ![s].moved = IF threads[s].on THEN @ ELSE "switch"]
    BY DEF ThreadRuns
  <1>2. threads \in [Tids -> ThreadStates \cup {NoThread}] /\ threads[s] \in ThreadStates
    BY DEF TrackerInv, TrackerType, ThreadRuns
  <1>3. threads'[s] = [threads[s] EXCEPT !.on = on, !.ran = 0,
                                         !.moved = IF threads[s].on THEN @ ELSE "switch"]
    BY <1>1, <1>2
  <1>4. /\ threads'[s].fresh = threads[s].fresh /\ threads'[s].on = on /\ threads'[s].ran = 0
        /\ threads[s].on => threads'[s].moved = threads[s].moved
        /\ ~threads[s].on => threads'[s].moved = "switch"
    BY <1>2, <1>3 DEF ThreadStates
  <1>5. threads'[s] \in ThreadStates
    <2>1. 0 \in Ages
      BY TrackerAssumption DEF Ages, Cap
    <2> QED BY <1>2, <1>3, <2>1 DEF ThreadStates
  <1>6. TrackerType'
    BY <1>1, <1>2, <1>3, <1>5 DEF TrackerInv, TrackerType, ThreadRuns
  <1>7. ASSUME NEW t \in Tids PROVE TrackIsTrue(t)'
    <2>1. TrackIsTrue(t) /\ TrackerType
      BY DEF TrackerInv
    <2>2. CASE t # s
      <3>1. threads'[t] = threads[t]
        BY <1>1, <1>2, <2>2
      <3> QED BY <2>1, <3>1 DEF ThreadRuns, TrackIsTrue, CountersTell, OnIsNow, WatchIsSince,
                                RunNearSince, RowIsTrue, Followed, Continues, Ripe
    <2>3. CASE t = s
      <3>1. /\ threads[t] # NoThread /\ tracks' = tracks /\ shown' = shown /\ sampled' = sampled /\ query' = query
        BY <2>3 DEF ThreadRuns
      <3>2. CountersTell(t)'
        <4> SUFFICES ASSUME Followed(t)'
                     PROVE  (/\ sampled # NoThread
                             /\ threads[t].moved # "no" => threads[t].ran <= sampled
                             /\ threads[t].moved = "no" => /\ threads[t].ran >= tracks[t].since - MaxDelay
                                                           /\ threads[t].on => tracks[t].since <= MaxDelay)'
          BY DEF CountersTell
        <4>1. Followed(t)
          BY <1>4, <2>3, <3>1 DEF Followed, Continues
        <4>2. /\ sampled # NoThread
              /\ threads[t].moved = "no" => (threads[t].on => tracks[t].since <= MaxDelay)
          BY <4>1, <2>1 DEF TrackIsTrue, CountersTell
        <4>3. /\ tracks[t].since \in Ages /\ sampled \in Ages /\ 0 \in Ages
              /\ threads[t].on \in BOOLEAN /\ MaxDelay \in Nat
          BY <4>1, <4>2, <2>1, <1>2, <2>3, TrackerAssumption
             DEF TrackerType, TrackStates, ThreadStates, Followed, Continues, Ages, Cap
        <4>4. CASE threads[t].on
          BY <4>2, <4>3, <4>4, <1>4, <2>3, <3>1 DEF Ages
        <4>5. CASE ~threads[t].on
          BY <4>2, <4>3, <4>5, <1>4, <2>3, <3>1 DEF Ages
        <4> QED BY <4>4, <4>5, <4>3
      <3>3. OnIsNow(t)' /\ WatchIsSince(t)' /\ RowIsTrue(t)'
        BY <1>4, <2>1, <2>3, <3>1 DEF TrackIsTrue, OnIsNow, WatchIsSince, RowIsTrue
      <3>4. RunNearSince(t)'
        <4> SUFFICES ASSUME Followed(t)' PROVE threads'[t].ran <= tracks'[t].since + Dormant
          BY DEF RunNearSince
        <4>1. tracks[t].since \in Ages
          BY <2>1, <3>1 DEF TrackerType, TrackStates, Followed, Continues
        <4> QED BY <4>1, <1>4, <2>3, <3>1, TrackerAssumption DEF Ages
      <3> QED BY <3>2, <3>3, <3>4 DEF TrackIsTrue
    <2> QED BY <2>2, <2>3
  <1> QED BY <1>6, <1>7 DEF TrackerInv

LEMMA QueryTrue ==
    ASSUME TrackerInv, QueryStarts \/ QueryFails
    PROVE  TrackerInv'
  <1>1. /\ threads' = threads /\ sampled' = sampled /\ tracks' = tracks /\ shown' = shown
        /\ query' = 0 \/ query' = NoThread
    BY DEF QueryStarts, QueryFails
  <1>2. TrackerType'
    BY <1>1, TrackerAssumption DEF TrackerInv, TrackerType
  <1>3. ASSUME NEW t \in Tids PROVE TrackIsTrue(t)'
    <2>1. TrackIsTrue(t) /\ TrackerType
      BY DEF TrackerInv
    <2>2. CountersTell(t)' /\ OnIsNow(t)' /\ WatchIsSince(t)' /\ RowIsTrue(t)'
      BY <1>1, <2>1 DEF TrackIsTrue, CountersTell, OnIsNow, WatchIsSince, RowIsTrue, Followed, Continues
    <2>3. RunNearSince(t)'
      <3> SUFFICES ASSUME Followed(t), tracks[t].active, tracks[t].watch = NoThread, Ripe(t)
                   PROVE  Ripe(t)'
        BY <1>1, <2>1 DEF TrackIsTrue, RunNearSince, Followed, Continues
      <3>1. tracks[t].since \in Ages
        BY <2>1 DEF TrackerType, TrackStates, Followed, Continues
      <3> QED BY <1>1, <3>1, TrackerAssumption DEF Ripe, Ages, Cap
    <2> QED BY <2>2, <2>3 DEF TrackIsTrue
  <1> QED BY <1>2, <1>3 DEF TrackerInv

-----------------------------------------------------------------------------
(* The listing.                                                             *)

\* What the listing replaces: the thread's mark, its track and its row.
LEMMA ListedThread ==
    ASSUME QueryLists, NEW t \in Tids, threads[t] # NoThread
    PROVE  /\ threads'[t] = [threads[t] EXCEPT !.moved = "no", !.fresh = FALSE]
           /\ tracks'[t] = IF Activity(t, Applied(t)) = "observing" THEN Applied(t)
                                                                    ELSE [Applied(t) EXCEPT !.watch = NoThread]
           /\ shown'[t] = [activity |-> Activity(t, Applied(t)), ran |-> threads[t].ran - query]
  BY DEF QueryLists

LEMMA UnlistedThread ==
    ASSUME QueryLists, NEW t \in Tids, threads[t] = NoThread
    PROVE  threads'[t] = NoThread /\ tracks'[t] = NoThread /\ shown'[t] = NoThread
  BY DEF QueryLists

\* A track as the listing leaves it, with the claim made from it: the thread's last run
\* bears out the claim now, and will bear out the ones a later listing makes.
Sound(t, new, claim) ==
    /\ new \in TrackStates /\ claim \in Verdicts
    /\ new.watch # NoThread => new.watch = new.since
    /\ threads[t].ran >= new.since - MaxDelay
    /\ threads[t].on => new.since <= MaxDelay
    /\ new.active /\ new.watch = NoThread => threads[t].ran <= new.since + Dormant \/ new.since >= Dormant
    /\ claim = "idle" => threads[t].ran - query >= Dormant - MaxDelay
    /\ claim = "recent" => threads[t].ran - query < 2 * Dormant

LEMMA TrackRecord ==
    ASSUME NEW s \in Ages, NEW a \in BOOLEAN, NEW wa \in Ages \cup {NoThread}, NEW tr,
           tr = [since |-> s, active |-> a, watch |-> wa]
    PROVE  /\ tr \in TrackStates /\ tr.since = s /\ tr.active = a /\ tr.watch = wa
           /\ [tr EXCEPT !.watch = NoThread] = [since |-> s, active |-> a, watch |-> NoThread]
  BY DEF TrackStates

\* A thread on a processor, or whose counters advanced, or that the last listing did not
\* know: its track starts anew at this query.
LEMMA NewTrackSound ==
    ASSUME TrackerInv, query # NoThread, NEW t \in Tids, threads[t] # NoThread,
           threads[t].on \/ ~Continues(t) \/ threads[t].moved # "no"
    PROVE  LET claim == Activity(t, Applied(t))
           IN  Sound(t, IF claim = "observing" THEN Applied(t) ELSE [Applied(t) EXCEPT !.watch = NoThread], claim)
  <1>0. /\ Dormant \in Nat /\ Dormant >= 1 /\ MaxDelay \in Nat /\ Cap = 2 * Dormant + MaxDelay + 1
        /\ query \in 0 .. MaxDelay /\ query \in Ages /\ threads[t] \in ThreadStates
        /\ threads[t].on \in BOOLEAN /\ threads[t].ran \in Ages
        /\ CountersTell(t) /\ OnIsNow(t) /\ WatchIsSince(t) /\ RunNearSince(t)
    BY TrackerAssumption DEF TrackerInv, TrackerType, TrackIsTrue, Cap, Ages, ThreadStates
  <1>1. PICK q \in 0 .. MaxDelay : q = query
    BY <1>0
  <1>2. PICK r \in Ages : r = threads[t].ran
    BY <1>0
  <1> DEFINE new == Applied(t)
             claim == Activity(t, new)
             end == IF claim = "observing" THEN new ELSE [new EXCEPT !.watch = NoThread]
  <1>3. CASE threads[t].on
    <2>1. new = [since |-> query, active |-> TRUE, watch |-> NoThread]
      BY <1>3 DEF Applied
    <2>2. claim = "running"
      BY <1>3 DEF Activity
    <2>3. end = [since |-> query, active |-> TRUE, watch |-> NoThread]
      <3> HIDE DEF new, claim
      <3> QED BY <2>1, <2>2, <1>0, TrackRecord
    <2>4. threads[t].ran = 0
      BY <1>3, <1>0 DEF OnIsNow
    <2> HIDE DEF new, claim, end
    <2>5. end \in TrackStates /\ end.watch = NoThread /\ end.since = query
      BY <2>3, <1>0 DEF TrackStates
    <2>6. Sound(t, end, claim)
      BY <2>2, <2>4, <2>5, <1>0, <1>1 DEF Sound, Verdicts
    <2> QED BY <2>6 DEF new, claim, end
  <1>4. CASE ~threads[t].on /\ Continues(t)
    <2>1. threads[t].moved # "no" /\ Followed(t)
      BY <1>4 DEF Followed
    <2>2. sampled # NoThread /\ r <= sampled
      BY <2>1, <1>0, <1>2 DEF CountersTell
    <2>3. sampled \in Ages
      BY <2>2 DEF TrackerInv, TrackerType
    <2>4. CASE sampled - query > Dormant
      <3>1. new = [since |-> query, active |-> TRUE, watch |-> query]
        BY <1>4, <2>1, <2>4 DEF Applied
      <3>2. claim = "observing"
        BY <3>1, <1>4, <1>0, <1>1 DEF Activity
      <3>3. end = [since |-> query, active |-> TRUE, watch |-> query]
        BY <3>1, <3>2
      <3>4. end \in TrackStates /\ end.watch = query /\ end.since = query
        <4> HIDE DEF end
        <4> QED BY <3>3, <1>0 DEF TrackStates
      <3> HIDE DEF new, claim, end
      <3>5. Sound(t, end, claim)
        BY <3>2, <3>4, <1>0, <1>1, <1>2, <1>4 DEF Sound, Verdicts, Ages
      <3> QED BY <3>5 DEF new, claim, end
    <2>5. CASE ~(sampled - query > Dormant)
      <3>1. new = [since |-> query, active |-> TRUE, watch |-> NoThread]
        BY <1>4, <2>1, <2>5 DEF Applied
      <3>2. claim = "recent"
        BY <3>1, <1>4, <1>0, <1>1 DEF Activity
      <3>3. end = [since |-> query, active |-> TRUE, watch |-> NoThread]
        <4> HIDE DEF new, claim
        <4> QED BY <3>1, <3>2, <1>0, TrackRecord
      <3>4. end \in TrackStates /\ end.watch = NoThread /\ end.since = query
        <4> HIDE DEF end
        <4> QED BY <3>3, <1>0 DEF TrackStates
      <3>5. r <= q + Dormant
        BY <2>2, <2>3, <2>5, <1>0, <1>1 DEF Ages
      <3> HIDE DEF new, claim, end
      <3>6. Sound(t, end, claim)
        BY <3>2, <3>4, <3>5, <1>0, <1>1, <1>2, <1>4 DEF Sound, Verdicts, Ages
      <3> QED BY <3>6 DEF new, claim, end
    <2> QED BY <2>4, <2>5
  <1>5. CASE ~threads[t].on /\ ~Continues(t)
    <2>1. new = [since |-> query, active |-> FALSE, watch |-> query]
      BY <1>5 DEF Applied
    <2>2. claim = "observing"
      BY <2>1, <1>5, <1>0, <1>1 DEF Activity
    <2>3. end = [since |-> query, active |-> FALSE, watch |-> query]
      BY <2>1, <2>2
    <2> HIDE DEF new, claim, end
    <2>4. end \in TrackStates /\ end.watch = query /\ end.since = query
      BY <2>3, <1>0 DEF TrackStates
    <2>5. Sound(t, end, claim)
      BY <2>2, <2>4, <1>0, <1>1, <1>2, <1>5 DEF Sound, Verdicts, Ages
    <2> QED BY <2>5 DEF new, claim, end
  <1> QED BY <1>3, <1>4, <1>5

\* A known thread whose counters stand still keeps its track; only the claim is new.
LEMMA KeptTrackSound ==
    ASSUME TrackerInv, query # NoThread, NEW t \in Tids, threads[t] # NoThread,
           ~threads[t].on, Continues(t), threads[t].moved = "no"
    PROVE  LET claim == Activity(t, Applied(t))
           IN  Sound(t, IF claim = "observing" THEN Applied(t) ELSE [Applied(t) EXCEPT !.watch = NoThread], claim)
  <1> DEFINE tr == tracks[t]
             claim == Activity(t, Applied(t))
             end == IF claim = "observing" THEN Applied(t) ELSE [Applied(t) EXCEPT !.watch = NoThread]
  <1>0. /\ Dormant \in Nat /\ Dormant >= 1 /\ MaxDelay \in Nat /\ Cap = 2 * Dormant + MaxDelay + 1
        /\ query \in 0 .. MaxDelay /\ query \in Ages /\ threads[t] \in ThreadStates
        /\ threads[t].ran \in Ages
        /\ CountersTell(t) /\ OnIsNow(t) /\ WatchIsSince(t) /\ RunNearSince(t)
    BY TrackerAssumption DEF TrackerInv, TrackerType, TrackIsTrue, Cap, Ages, ThreadStates
  <1>1. tr \in TrackStates /\ Followed(t)
    BY DEF TrackerInv, TrackerType, Continues, Followed
  <1>2. tr.since \in Ages /\ tr.active \in BOOLEAN /\ (tr.watch # NoThread => tr.watch = tr.since)
    BY <1>0, <1>1 DEF WatchIsSince, Followed, Continues, TrackStates
  <1>3. PICK q \in 0 .. MaxDelay : q = query
    BY <1>0
  <1>4. PICK r \in Ages : r = threads[t].ran
    BY <1>0
  <1>5. PICK s \in Ages : s = tr.since
    BY <1>2
  <1>6. r >= s - MaxDelay
    BY <1>0, <1>1, <1>4, <1>5 DEF CountersTell
  <1>7. tr.active /\ tr.watch = NoThread => r <= s + Dormant \/ s - q >= Dormant
    BY <1>0, <1>1, <1>3, <1>4, <1>5 DEF RunNearSince, Ripe
  <1>8. Applied(t) = tr
    BY DEF Applied
  <1>9. /\ end \in TrackStates /\ end.since = tr.since /\ end.active = tr.active
        /\ end.watch # NoThread => end.watch = tr.watch /\ claim = "observing"
        /\ claim = "observing" => end.watch = tr.watch
    BY <1>1, <1>8 DEF TrackStates
  <1>10. /\ claim \in {"recent", "idle", "observing"}
         /\ claim = "idle" => s - q >= Dormant
         /\ claim = "recent" => tr.watch = NoThread /\ tr.active /\ s - q < Dormant
         /\ tr.watch # NoThread /\ claim # "observing" => s - q >= Dormant
    <2>1. CASE tr.watch = NoThread
      BY <1>3, <1>5, <1>8, <2>1, <1>0 DEF Activity, Ages
    <2>2. CASE tr.watch # NoThread
      BY <1>2, <1>3, <1>5, <1>8, <2>2, <1>0 DEF Activity, Ages
    <2> QED BY <2>1, <2>2
  <1> HIDE DEF tr, claim, end
  <1>11. end.active /\ end.watch = NoThread => r <= s + Dormant \/ s >= Dormant
    <2>1. CASE tr.watch = NoThread
      BY <1>7, <1>9, <2>1, <1>0 DEF Ages
    <2>2. CASE tr.watch # NoThread
      BY <1>9, <1>10, <2>2, <1>0 DEF Ages
    <2> QED BY <2>1, <2>2
  <1>12. claim = "idle" => r - q >= Dormant - MaxDelay
    BY <1>6, <1>10, <1>0 DEF Ages
  <1>13. claim = "recent" => r - q < 2 * Dormant
    BY <1>7, <1>10, <1>0 DEF Ages
  <1>14. Sound(t, end, claim)
    BY <1>2, <1>3, <1>4, <1>5, <1>6, <1>9, <1>10, <1>11, <1>12, <1>13 DEF Sound, Verdicts
  <1> QED BY <1>14 DEF claim, end

LEMMA ListTrue ==
    ASSUME TrackerInv, QueryLists
    PROVE  TrackerInv'
  <1>0. /\ TrackerType /\ query # NoThread /\ query \in 0 .. MaxDelay
        /\ sampled' = query /\ query' = NoThread
        /\ Dormant \in Nat /\ MaxDelay \in Nat /\ NoThread \notin Int
    BY TrackerAssumption DEF TrackerInv, TrackerType, QueryLists
  <1>1. ASSUME NEW t \in Tids, threads[t] # NoThread
        PROVE  /\ threads[t] \in ThreadStates /\ OnIsNow(t)
               /\ threads'[t] = [threads[t] EXCEPT !.moved = "no", !.fresh = FALSE]
               /\ Sound(t, tracks'[t], shown'[t].activity)
               /\ shown'[t] = [activity |-> shown'[t].activity, ran |-> threads[t].ran - query]
    <2>1. threads[t] \in ThreadStates /\ OnIsNow(t)
      BY <1>1, <1>0 DEF TrackerType, TrackerInv, TrackIsTrue
    <2>2. /\ shown'[t].activity = Activity(t, Applied(t))
          /\ shown'[t] = [activity |-> shown'[t].activity, ran |-> threads[t].ran - query]
      <3> DEFINE claim == Activity(t, Applied(t))
                 ran == threads[t].ran - query
      <3>1. shown'[t] = [activity |-> claim, ran |-> ran]
        BY <1>1, ListedThread
      <3> HIDE DEF claim, ran
      <3>2. shown'[t].activity = claim
        BY <3>1
      <3>3. shown'[t] = [activity |-> shown'[t].activity, ran |-> ran]
        BY <3>1, <3>2
      <3> QED BY <3>2, <3>3 DEF claim, ran
    <2>3. CASE threads[t].on \/ ~Continues(t) \/ threads[t].moved # "no"
      BY <1>0, <1>1, <2>1, <2>2, <2>3, ListedThread, NewTrackSound
    <2>4. CASE ~threads[t].on /\ Continues(t) /\ threads[t].moved = "no"
      BY <1>0, <1>1, <2>1, <2>2, <2>4, ListedThread, KeptTrackSound
    <2> QED BY <2>3, <2>4
  <1>2. TrackerType'
    <2>1. threads' \in [Tids -> ThreadStates \cup {NoThread}]
      <3>1. \A t \in Tids : threads'[t] \in ThreadStates \cup {NoThread}
        BY <1>1, UnlistedThread DEF ThreadStates
      <3>2. threads' = [t \in Tids |-> threads'[t]]
        BY DEF QueryLists
      <3> QED BY <3>1, <3>2
    <2>2. tracks' \in [Tids -> TrackStates \cup {NoThread}]
      <3>1. \A t \in Tids : tracks'[t] \in TrackStates \cup {NoThread}
        BY <1>1, UnlistedThread DEF Sound
      <3>2. tracks' = [t \in Tids |-> tracks'[t]]
        BY DEF QueryLists
      <3> QED BY <3>1, <3>2
    <2>3. shown' \in [Tids -> [activity : Verdicts, ran : Int] \cup {NoThread}]
      <3>1. ASSUME NEW t \in Tids, threads[t] # NoThread
            PROVE  shown'[t] \in [activity : Verdicts, ran : Int]
        <4>1. shown'[t].activity \in Verdicts
          BY <1>1, <3>1 DEF Sound
        <4>2. threads[t].ran \in Ages
          BY <1>1, <3>1 DEF ThreadStates
        <4>3. threads[t].ran - query \in Int
          BY <4>2, <1>0 DEF Ages
        <4>4. shown'[t] = [activity |-> shown'[t].activity, ran |-> threads[t].ran - query]
          BY <1>1, <3>1
        <4> QED BY <4>1, <4>3, <4>4
      <3>2. shown' = [t \in Tids |-> shown'[t]]
        BY DEF QueryLists
      <3> QED BY <3>1, <3>2, UnlistedThread
    <2>4. sampled' \in Ages \cup {NoThread} /\ query' \in (0 .. MaxDelay) \cup {NoThread}
      BY <1>0 DEF Ages, Cap
    <2> QED BY <2>1, <2>2, <2>3, <2>4 DEF TrackerType
  <1>3. ASSUME NEW t \in Tids PROVE TrackIsTrue(t)'
    <2>1. CASE threads[t] = NoThread
      BY <2>1, UnlistedThread DEF TrackIsTrue, CountersTell, OnIsNow, WatchIsSince,
                                  RunNearSince, RowIsTrue, Followed
    <2>2. CASE threads[t] # NoThread
      <3>1. /\ threads[t] \in ThreadStates /\ OnIsNow(t)
            /\ threads'[t] = [threads[t] EXCEPT !.moved = "no", !.fresh = FALSE]
            /\ Sound(t, tracks'[t], shown'[t].activity)
            /\ shown'[t] = [activity |-> shown'[t].activity, ran |-> threads[t].ran - query]
        BY <1>1, <2>2
      <3>2. /\ threads'[t].moved = "no" /\ threads'[t].on = threads[t].on
            /\ threads'[t].ran = threads[t].ran /\ shown'[t].ran = threads[t].ran - query
        BY <3>1 DEF ThreadStates
      <3>3. /\ tracks'[t].watch # NoThread => tracks'[t].watch = tracks'[t].since
            /\ threads[t].ran >= tracks'[t].since - MaxDelay
            /\ threads[t].on => tracks'[t].since <= MaxDelay
            /\ tracks'[t].active /\ tracks'[t].watch = NoThread =>
                  threads[t].ran <= tracks'[t].since + Dormant \/ tracks'[t].since >= Dormant
            /\ shown'[t].activity = "idle" => threads[t].ran - query >= Dormant - MaxDelay
            /\ shown'[t].activity = "recent" => threads[t].ran - query < 2 * Dormant
        BY <3>1 DEF Sound
      <3>4. CountersTell(t)'
        BY <3>2, <3>3, <1>0 DEF CountersTell
      <3>5. OnIsNow(t)'
        BY <2>2, <3>1, <3>2 DEF OnIsNow
      <3>6. WatchIsSince(t)' /\ RowIsTrue(t)'
        BY <3>2, <3>3 DEF WatchIsSince, RowIsTrue
      <3>7. RunNearSince(t)'
        BY <3>2, <3>3, <1>0 DEF RunNearSince, Ripe
      <3> QED BY <3>4, <3>5, <3>6, <3>7 DEF TrackIsTrue
    <2> QED BY <2>1, <2>2
  <1> QED BY <1>2, <1>3 DEF TrackerInv

-----------------------------------------------------------------------------
(* The theorem.                                                             *)

LEMMA TrackerStep == TrackerInv /\ [TrackerNext]_trackerVars => TrackerInv'
  <1> SUFFICES ASSUME TrackerInv, [TrackerNext]_trackerVars PROVE TrackerInv'
    OBVIOUS
  <1>1. CASE TrackerTick
    <2>1. TrackerType'
      BY <1>1, TickType DEF TrackerInv
    <2>2. \A t \in Tids : TrackIsTrue(t)'
      BY <1>1, TickTrue
    <2> QED BY <2>1, <2>2 DEF TrackerInv
  <1>2. CASE QueryStarts \/ QueryFails
    BY <1>2, QueryTrue
  <1>3. CASE QueryLists
    BY <1>3, ListTrue
  <1>4. CASE \E t \in Tids : ThreadStarts(t) \/ ThreadExits(t) \/ ThreadRuns(t)
    BY <1>4, StartTrue, ExitTrue, RunTrue
  <1>5. CASE UNCHANGED trackerVars
    BY <1>5 DEF trackerVars, TrackerInv, TrackerType, TrackIsTrue, CountersTell, OnIsNow, WatchIsSince,
                RunNearSince, RowIsTrue, Followed, Continues, Ripe
  <1> QED BY <1>1, <1>2, <1>3, <1>4, <1>5 DEF TrackerNext

\* A module called idle or empty hides no thread that is not, a thread of unknown start
\* included. (module_activity)
LEMMA ModuleFollows == TrackerInv => VerdictsTrue
  <1> SUFFICES ASSUME TrackerInv PROVE VerdictsTrue
    OBVIOUS
  <1>1. IdleIsTrue /\ RecentIsTrue
    BY DEF TrackerInv, TrackIsTrue, RowIsTrue, IdleIsTrue, RecentIsTrue, Listed
  <1>2. \A t \in Listed : shown[t].activity \in Verdicts
    BY DEF TrackerInv, TrackerType, Listed
  <1> DEFINE mine == Listed \cap InModule
             own == (Listed \ Unreadable) \cap InModule
  <1>3. ASSUME Listed \cap Unreadable = {} PROVE mine = own
    BY <1>3
  <1>4. ASSUME ModuleActivity = "none" PROVE mine = {}
    <2>1. own = {} /\ Listed \cap Unreadable = {}
      BY <1>4 DEF ModuleActivity
    <2> QED BY <1>3, <2>1
  <1>5. ASSUME ModuleActivity = "idle" PROVE \A t \in mine : shown[t].ran >= Dormant - MaxDelay
    <2>1. /\ Listed \cap Unreadable = {}
          /\ "running" \notin Claims(own) /\ "recent" \notin Claims(own) /\ "observing" \notin Claims(own)
      BY <1>5 DEF ModuleActivity
    <2>2. \A t \in own : shown[t].activity = "idle"
      BY <1>2, <2>1 DEF Claims, Verdicts
    <2> QED BY <1>1, <1>3, <2>1, <2>2 DEF IdleIsTrue
  <1> QED BY <1>1, <1>4, <1>5 DEF VerdictsTrue, ModuleClaimTrue

\* What the Threads and Modules pages say of a thread or a module is true of its last run,
\* for any number of threads, any length of the idle time and of a query, whatever
\* TIDs are reused and however long the sampling pauses.
THEOREM VerdictsAreTrue == TrackerSpec => []VerdictsTrue
  <1>1. TrackerInit => TrackerInv
    BY TrackerInitInv
  <1>2. TrackerInv /\ [TrackerNext]_trackerVars => TrackerInv'
    BY TrackerStep
  <1>3. TrackerInv => VerdictsTrue
    BY ModuleFollows
  <1> QED BY <1>1, <1>2, <1>3, PTL DEF TrackerSpec

-----------------------------------------------------------------------------
(* The table: the offset of a table and what it shows.                      *)

LEMMA MaxOfTwo == ASSUME NEW a \in Int, NEW b \in Int PROVE Max({a, b}) = IF a >= b THEN a ELSE b
  <1>1. \A x \in {a, b} : (\A y \in {a, b} : x >= y) <=> x = (IF a >= b THEN a ELSE b)
    OBVIOUS
  <1> QED BY <1>1 DEF Max

LEMMA MinOfTwo == ASSUME NEW a \in Int, NEW b \in Int PROVE Min({a, b}) = IF a <= b THEN a ELSE b
  <1>1. \A x \in {a, b} : (\A y \in {a, b} : x =< y) <=> x = (IF a <= b THEN a ELSE b)
    OBVIOUS
  <1> QED BY <1>1 DEF Min

\* The largest offset of a table of n rows.
Top(n) == IF n * RowH > ViewH THEN n * RowH - ViewH ELSE 0

LEMMA ClampedIs ==
    ASSUME NEW o \in Int, NEW n \in Nat
    PROVE  /\ Clamped(o, n) = IF o < 0 THEN 0 ELSE IF o <= Top(n) THEN o ELSE Top(n)
           /\ Top(n) \in Nat /\ Clamped(o, n) \in Nat /\ Clamped(o, n) <= Top(n)
           /\ Max({0, n * RowH - ViewH}) = Top(n)
  <1>1. n * RowH - ViewH \in Int /\ ViewH \in Nat
    BY TableAssumption DEF RowH
  <1>2. Max({0, n * RowH - ViewH}) = Top(n) /\ Top(n) \in Nat
    BY <1>1, MaxOfTwo DEF Top, RowH
  <1>3. Min({o, Top(n)}) = IF o <= Top(n) THEN o ELSE Top(n)
    BY <1>2, MinOfTwo
  <1>4. Clamped(o, n) = Max({0, Min({o, Top(n)})})
    BY <1>2 DEF Clamped
  <1>5. Min({o, Top(n)}) \in Int
    BY <1>2, <1>3
  <1>6. Clamped(o, n) = IF 0 >= Min({o, Top(n)}) THEN 0 ELSE Min({o, Top(n)})
    BY <1>4, <1>5, MaxOfTwo
  <1> QED BY <1>2, <1>3, <1>6

\* What is in view stays in view when the offset is clamped to the content.
LEMMA ClampedShows ==
    ASSUME NEW o \in Int, NEW n \in Nat, NEW i \in 0..(n - 1), InView(i, o)
    PROVE  InView(i, Clamped(o, n))
  <1>1. ViewH \in Nat /\ ViewH >= 2
    BY TableAssumption DEF RowH
  <1>2. /\ Clamped(o, n) = IF o < 0 THEN 0 ELSE IF o <= Top(n) THEN o ELSE Top(n)
        /\ Top(n) \in Nat
    BY ClampedIs
  <1>3. Top(n) = IF n * 2 > ViewH THEN n * 2 - ViewH ELSE 0
    BY DEF Top, RowH
  <1>4. i * 2 >= o /\ i * 2 + 2 <= o + ViewH /\ i * 2 + 2 <= n * 2 /\ i * 2 >= 0
    BY <1>1 DEF InView, RowH
  <1> DEFINE c == Clamped(o, n)
  <1>5. i * 2 >= c /\ i * 2 + 2 <= c + ViewH
    <2> HIDE DEF c
    <2>1. c = (IF o < 0 THEN 0 ELSE IF o <= Top(n) THEN o ELSE Top(n))
      BY <1>2 DEF c
    <2>2. CASE o < 0
      BY <1>1, <1>4, <2>1, <2>2
    <2>3. CASE o >= 0 /\ o <= Top(n)
      BY <1>1, <1>4, <2>1, <2>3
    <2>4. CASE o >= 0 /\ o > Top(n)
      BY <1>1, <1>2, <1>3, <1>4, <2>1, <2>4
    <2> QED BY <1>2, <2>2, <2>3, <2>4
  <1> QED BY <1>5 DEF InView, RowH

LEMMA FocusShows ==
    ASSUME NEW o \in Int, NEW n \in Nat, NEW i \in 0..(n - 1)
    PROVE  InView(i, FocusOffset(i, n, o)) /\ FocusOffset(i, n, o) \in Int
           /\ Clamped(FocusOffset(i, n, o), n) = FocusOffset(i, n, o)
  <1> DEFINE q == IF i * RowH < o THEN i * RowH
                  ELSE IF i * RowH + RowH > o + ViewH THEN i * RowH + RowH - ViewH
                  ELSE o
  <1>1. ViewH \in Nat /\ ViewH >= 2
    BY TableAssumption DEF RowH
  <1>2. q \in Int /\ InView(i, q)
    BY <1>1 DEF InView, RowH
  <1>3. FocusOffset(i, n, o) = Clamped(q, n)
    BY DEF FocusOffset
  <1> HIDE DEF q
  <1>4. Clamped(q, n) \in Nat /\ Clamped(q, n) <= Top(n) /\ Top(n) \in Nat
    BY <1>2, ClampedIs
  <1>5. Clamped(Clamped(q, n), n) = Clamped(q, n)
    <2>1. ASSUME NEW c \in Nat, c <= Top(n) PROVE Clamped(c, n) = c
      <3>1. c \in Int
        OBVIOUS
      <3>2. Clamped(c, n) = IF c < 0 THEN 0 ELSE IF c <= Top(n) THEN c ELSE Top(n)
        BY <3>1, ClampedIs
      <3> QED BY <2>1, <3>2
    <2> QED BY <1>4, <2>1
  <1> QED BY <1>2, <1>3, <1>4, <1>5, ClampedShows

-----------------------------------------------------------------------------
(* Where a row is.                                                          *)

LEMMA PartIn ==
    ASSUME NEW p, NEW a \in 0..Len(p), NEW b \in 0..Len(p)
    PROVE  SubSeq(p, a + 1, b) \in SubSeqs(p)
  BY SMT DEF SubSeqs

LEMMA PartIs ==
    ASSUME NEW p, NEW u \in SubSeqs(p)
    PROVE  \E a \in 0..Len(p), b \in 0..Len(p) : u = SubSeq(p, a + 1, b)
  <1> DEFINE F(x, y) == SubSeq(p, x + 1, y)
             D == 0..Len(p)
  <1>1. SubSeqs(p) = {F(x, y) : x, y \in D}
    BY DEF SubSeqs
  <1> HIDE DEF F, D
  <1>2. \A v \in {F(x, y) : x, y \in D} : \E x, y \in D : v = F(x, y)
    OBVIOUS
  <1> QED BY <1>1, <1>2 DEF F, D

LEMMA InSubSeqs ==
    ASSUME NEW K, NEW t \in Seq(K), NEW i \in 0..Len(t), NEW k
    PROVE  <<k>> \in SubSeqs(SubSeq(t, 1, i)) <=> \E m \in 1..i : t[m] = k
  <1> DEFINE p == SubSeq(t, 1, i)
  <1>1. p \in Seq(K) /\ Len(p) = i /\ i \in Nat /\ \A m \in 1..i : p[m] \in K /\ p[m] = t[m]
    OBVIOUS
  <1> HIDE DEF p
  <1>0. ASSUME NEW a \in 0..i, NEW b \in 0..i
        PROVE  /\ Len(SubSeq(p, a + 1, b)) = IF a + 1 <= b THEN b - a ELSE 0
               /\ SubSeq(p, a + 1, b) \in Seq(K)
               /\ \A m \in 1..(b - a) : SubSeq(p, a + 1, b)[m] = p[a + m]
    <2>1. a + 1 \in Int /\ b \in Int /\ \A m \in (a + 1)..b : p[m] \in K
      BY <1>1
    <2>2. /\ SubSeq(p, a + 1, b) \in Seq(K)
          /\ Len(SubSeq(p, a + 1, b)) = IF a + 1 <= b THEN b - (a + 1) + 1 ELSE 0
          /\ \A m \in 1..(b - (a + 1) + 1) : SubSeq(p, a + 1, b)[m] = p[(a + 1) + m - 1]
      BY <2>1, SubSeqProperties
    <2>3. b - (a + 1) + 1 = b - a /\ \A m \in 1..(b - a) : (a + 1) + m - 1 = a + m
      BY <1>1
    <2> QED BY <2>2, <2>3
  <1>2. ASSUME NEW m \in 1..i, t[m] = k PROVE <<k>> \in SubSeqs(p)
    <2>1. PICK a \in 0..i : a + 1 = m /\ a = m - 1
      BY <1>1
    <2>2. m \in 0..i /\ m - a = 1 /\ a + 1 <= m
      BY <1>1, <2>1
    <2>3. /\ Len(SubSeq(p, a + 1, m)) = 1 /\ SubSeq(p, a + 1, m) \in Seq(K)
          /\ SubSeq(p, a + 1, m)[1] = p[a + 1]
      <3>1. a \in 0..i /\ 1 \in 1..(m - a)
        BY <2>2
      <3>2. Len(SubSeq(p, a + 1, m)) = m - a /\ SubSeq(p, a + 1, m) \in Seq(K)
        BY <1>0, <2>2, <3>1
      <3>3. SubSeq(p, a + 1, m)[1] = p[a + 1]
        BY <1>0, <2>2, <3>1
      <3> QED BY <2>2, <3>2, <3>3
    <2>4. p[a + 1] = k
      BY <1>1, <1>2, <2>1
    <2>5. SubSeq(p, a + 1, m) = <<k>>
      <3> DEFINE u == SubSeq(p, a + 1, m)
      <3>1. u \in Seq(K) /\ Len(u) = 1 /\ u[1] = k
        BY <2>3, <2>4
      <3> HIDE DEF u
      <3>2. u = <<k>>
        BY <3>1
      <3> QED BY <3>2 DEF u
    <2>6. a \in 0..Len(p) /\ m \in 0..Len(p)
      BY <1>1, <2>2
    <2>7. SubSeq(p, a + 1, m) \in SubSeqs(p)
      BY <2>6, PartIn
    <2> QED BY <2>5, <2>7
  <1>3. ASSUME <<k>> \in SubSeqs(p) PROVE \E m \in 1..i : t[m] = k
    <2>1. PICK a \in 0..Len(p), b \in 0..Len(p) : <<k>> = SubSeq(p, a + 1, b)
      BY <1>3, PartIs
    <2>2. a \in 0..i /\ b \in 0..i
      BY <1>1, <2>1
    <2> DEFINE u == SubSeq(p, a + 1, b)
    <2>3. /\ Len(u) = IF a + 1 <= b THEN b - a ELSE 0
          /\ \A m \in 1..(b - a) : u[m] = p[a + m]
      BY <1>0, <2>2
    <2>4. Len(u) = 1 /\ u[1] = k
      <3>1. u = <<k>>
        BY <2>1
      <3> HIDE DEF u
      <3> QED BY <3>1
    <2> HIDE DEF u
    <2>5. b - a = 1 /\ a + 1 \in 1..i
      <3>1. i \in Nat /\ a \in Nat /\ b \in Nat /\ a <= i /\ b <= i
        BY <1>1, <2>2
      <3>2. 1 = IF a + 1 <= b THEN b - a ELSE 0
        BY <2>3, <2>4
      <3> QED BY <3>1, <3>2
    <2>6. u[1] = p[a + 1]
      BY <2>3, <2>5
    <2> QED BY <1>1, <2>4, <2>5, <2>6
  <1> QED BY <1>2, <1>3 DEF p

LEMMA FirstAt ==
    ASSUME NEW K, NEW t \in Seq(K), NEW k \in Range(t)
    PROVE  IndexFirstSubSeq(<<k>>, t) \in 1..Len(t) /\ t[IndexFirstSubSeq(<<k>>, t)] = k
  <1> DEFINE last == CHOOSE i \in 0..Len(t) :
                        /\ <<k>> \in SubSeqs(SubSeq(t, 1, i))
                        /\ \A j \in 0..i-1 : <<k>> \notin SubSeqs(SubSeq(t, 1, j))
             S == {i \in 0..Len(t) : \E m \in 1..i : t[m] = k}
  <1>1. Len(t) \in Nat /\ \E m \in 1..Len(t) : t[m] = k
    BY DEF Range
  <1>2. Len(t) \in S /\ S \subseteq Nat
    BY <1>1
  <1>3. PICK i \in S : \A j \in S : ~(j < i)
    <2>1. PICK i \in S : \A j \in S : <<j, i>> \notin OpToRel(<, Nat)
      BY <1>2, NatLessThanWellFounded, WFMin
    <2> QED BY <1>2, <2>1 DEF OpToRel
  <1>4. /\ i \in 0..Len(t) /\ <<k>> \in SubSeqs(SubSeq(t, 1, i))
        /\ \A j \in 0..i-1 : <<k>> \notin SubSeqs(SubSeq(t, 1, j))
    <2>1. i \in 0..Len(t) /\ \E m \in 1..i : t[m] = k
      OBVIOUS
    <2>2. \A j \in 0..i-1 : j \in 0..Len(t) /\ ~\E m \in 1..j : t[m] = k
      BY <1>1, <1>3, <2>1
    <2> QED BY <2>1, <2>2, InSubSeqs
  <1>5. /\ last \in 0..Len(t) /\ <<k>> \in SubSeqs(SubSeq(t, 1, last))
        /\ \A j \in 0..last-1 : <<k>> \notin SubSeqs(SubSeq(t, 1, j))
    BY <1>4
  <1>6. IndexFirstSubSeq(<<k>>, t) = last - (Len(<<k>>) - 1)
    BY DEF IndexFirstSubSeq
  <1> HIDE DEF last
  <1>7. IndexFirstSubSeq(<<k>>, t) = last
    BY <1>5, <1>6
  <1>8. PICK m \in 1..last : t[m] = k
    BY <1>5, InSubSeqs
  <1>9. m = last
    <2>1. ASSUME m # last PROVE FALSE
      <3>1. last - 1 \in 0..Len(t) /\ last - 1 \in 0..last-1 /\ m \in 1..(last - 1)
        BY <1>1, <1>5, <1>8, <2>1
      <3>2. <<k>> \in SubSeqs(SubSeq(t, 1, last - 1))
        BY <1>8, <3>1, InSubSeqs
      <3> QED BY <1>5, <3>1, <3>2
    <2> QED BY <2>1
  <1> QED BY <1>1, <1>5, <1>7, <1>8, <1>9

LEMMA PosOf ==
    ASSUME NEW K, NEW t \in Seq(K), NEW k \in Range(t)
    PROVE  PosIn(t, k) \in 0..(Len(t) - 1) /\ PosIn(t, k) + 1 = IndexFirstSubSeq(<<k>>, t) /\ t[PosIn(t, k) + 1] = k
  <1>1. PosIn(t, k) = IndexFirstSubSeq(<<k>>, t) - 1
    BY DEF PosIn
  <1> QED BY <1>1, FirstAt

-----------------------------------------------------------------------------
(* Edits of the list.                                                       *)

\* d is a, of length x, followed by b, of length y.
Joined(d, a, b, x, y, K) ==
    /\ d \in Seq(K) /\ Len(d) = x + y
    /\ \A m \in 1..x : d[m] = a[m]
    /\ \A m \in 1..y : d[x + m] = b[m]

LEMMA JoinedIs ==
    ASSUME NEW K, NEW a \in Seq(K), NEW b \in Seq(K), NEW x \in Nat, NEW y \in Nat, Len(a) = x, Len(b) = y
    PROVE  Joined(a \o b, a, b, x, y, K)
  BY DEF Joined

\* u is t with k put in at i.
Inserted(u, t, i, k, K) ==
    /\ u \in Seq(K) /\ Len(u) = Len(t) + 1
    /\ \A m \in 1..(Len(t) + 1) : u[m] = IF m < i THEN t[m] ELSE IF m = i THEN k ELSE t[m - 1]

LEMMA InsertedIs ==
    ASSUME NEW K, NEW t \in Seq(K), NEW i \in 1..(Len(t) + 1), NEW k \in K
    PROVE  Inserted(InsertAt(t, i, k), t, i, k, K)
  <1> DEFINE a == SubSeq(t, 1, i - 1)
             b == SubSeq(t, i, Len(t))
             e == <<k>>
  <1>1. Len(t) \in Nat /\ i \in Nat /\ i >= 1 /\ i <= Len(t) + 1
    OBVIOUS
  <1>2. a \in Seq(K) /\ Len(a) = i - 1 /\ \A m \in 1..(i - 1) : a[m] = t[m]
    BY <1>1
  <1>3. b \in Seq(K) /\ Len(b) = Len(t) - i + 1 /\ \A m \in 1..(Len(t) - i + 1) : b[m] = t[i + m - 1]
    <2>1. i \in Int /\ Len(t) \in Int /\ \A m \in i..Len(t) : t[m] \in K
      BY <1>1
    <2>2. /\ b \in Seq(K) /\ Len(b) = IF i <= Len(t) THEN Len(t) - i + 1 ELSE 0
          /\ \A m \in 1..(Len(t) - i + 1) : b[m] = t[i + m - 1]
      BY <2>1, SubSeqProperties
    <2> QED BY <1>1, <2>2
  <1>4. e \in Seq(K) /\ Len(e) = 1 /\ e[1] = k
    OBVIOUS
  <1>5. InsertAt(t, i, k) = a \o e \o b
    BY DEF InsertAt
  <1> HIDE DEF a, b, e
  <1> DEFINE c == a \o e
             d == c \o b
  <1>6. /\ c \in Seq(K) /\ Len(c) = i
        /\ \A m \in 1..(i - 1) : c[m] = t[m]
        /\ c[i] = k
    <2>1. i - 1 \in Nat /\ 1 \in Nat /\ (i - 1) + 1 = i /\ 1 \in 1..1
      BY <1>1
    <2>2. Joined(c, a, e, i - 1, 1, K)
      BY <1>2, <1>4, <2>1, JoinedIs, Zenon
    <2> HIDE DEF c
    <2>3. /\ c \in Seq(K) /\ Len(c) = (i - 1) + 1
          /\ \A m \in 1..(i - 1) : c[m] = a[m]
          /\ c[(i - 1) + 1] = e[1]
      BY <2>1, <2>2, Zenon DEF Joined
    <2> QED BY <1>2, <1>4, <2>1, <2>3
  <1>60. InsertAt(t, i, k) = d
    BY <1>5
  <1> HIDE DEF c
  <1>7. /\ d \in Seq(K) /\ Len(d) = Len(t) + 1
        /\ \A m \in 1..i : d[m] = c[m]
        /\ \A m \in 1..(Len(t) - i + 1) : d[i + m] = b[m]
    <2> DEFINE y == Len(t) - i + 1
    <2>1. i \in Nat /\ y \in Nat /\ i + y = Len(t) + 1
      BY <1>1
    <2> HIDE DEF y
    <2>2. Len(b) = y
      BY <1>3 DEF y
    <2>3. Joined(d, c, b, i, y, K)
      BY <1>3, <1>6, <2>1, <2>2, JoinedIs, Zenon
    <2> HIDE DEF d
    <2>4. /\ d \in Seq(K) /\ Len(d) = i + y
          /\ \A m \in 1..i : d[m] = c[m]
          /\ \A m \in 1..y : d[i + m] = b[m]
      BY <2>3, Zenon DEF Joined
    <2> QED BY <2>1, <2>4 DEF y
  <1> HIDE DEF d
  <1>8. ASSUME NEW m \in 1..(Len(t) + 1)
        PROVE  d[m] = IF m < i THEN t[m] ELSE IF m = i THEN k ELSE t[m - 1]
    <2>0. m \in Nat /\ m >= 1
      BY <1>1
    <2>1. CASE m < i
      <3>1. m \in 1..i /\ m \in 1..(i - 1)
        BY <1>1, <2>0, <2>1
      <3> QED BY <1>6, <1>7, <2>1, <3>1
    <2>2. CASE m = i
      <3>1. m \in 1..i /\ ~(m < i)
        BY <1>1, <2>0, <2>2
      <3> QED BY <1>6, <1>7, <2>2, <3>1
    <2>3. CASE m > i
      <3>1. m - i \in 1..(Len(t) - i + 1) /\ i + (m - i) - 1 = m - 1 /\ i + (m - i) = m
        BY <1>1, <2>0, <2>3
      <3>2. b[m - i] = t[m - 1]
        BY <1>3, <3>1
      <3>3. d[m] = b[m - i]
        BY <1>7, <3>1
      <3>4. ~(m < i) /\ m # i
        BY <1>1, <2>0, <2>3
      <3> QED BY <3>2, <3>3, <3>4
    <2> QED BY <1>1, <2>0, <2>1, <2>2, <2>3
  <1>9. Inserted(d, t, i, k, K)
    BY <1>7, <1>8 DEF Inserted
  <1> QED BY <1>60, <1>9, Zenon

\* u is t without its element i.
Removed(u, t, i, K) ==
    /\ u \in Seq(K) /\ Len(u) = Len(t) - 1
    /\ \A m \in 1..(Len(t) - 1) : u[m] = IF m < i THEN t[m] ELSE t[m + 1]

LEMMA RemovedIs ==
    ASSUME NEW K, NEW t \in Seq(K), NEW i \in 1..Len(t)
    PROVE  Removed(RemoveAt(t, i), t, i, K)
  <1> DEFINE a == SubSeq(t, 1, i - 1)
             b == SubSeq(t, i + 1, Len(t))
  <1>1. Len(t) \in Nat /\ i \in Nat /\ i >= 1 /\ i <= Len(t)
    OBVIOUS
  <1>2. a \in Seq(K) /\ Len(a) = i - 1 /\ \A m \in 1..(i - 1) : a[m] = t[m]
    BY <1>1
  <1>3. b \in Seq(K) /\ Len(b) = Len(t) - i /\ \A m \in 1..(Len(t) - i) : b[m] = t[i + m]
    <2>1. i + 1 \in Int /\ Len(t) \in Int /\ \A m \in (i + 1)..Len(t) : t[m] \in K
      BY <1>1
    <2>2. /\ b \in Seq(K) /\ Len(b) = IF i + 1 <= Len(t) THEN Len(t) - (i + 1) + 1 ELSE 0
          /\ \A m \in 1..(Len(t) - (i + 1) + 1) : b[m] = t[(i + 1) + m - 1]
      BY <2>1, SubSeqProperties
    <2>3. Len(t) - (i + 1) + 1 = Len(t) - i /\ \A m \in 1..(Len(t) - i) : (i + 1) + m - 1 = i + m
      BY <1>1
    <2>4. Len(b) = Len(t) - i
      <3> DEFINE l == Len(b)
                 n == Len(t)
      <3>1. l = (IF i + 1 <= n THEN n - (i + 1) + 1 ELSE 0) /\ n \in Nat /\ i \in Nat /\ i <= n
        BY <1>1, <2>2
      <3> HIDE DEF l, n
      <3>2. l = n - i
        BY <3>1
      <3> QED BY <3>2 DEF l, n
    <2>5. \A m \in 1..(Len(t) - i) : b[m] = t[i + m]
      BY <2>2, <2>3
    <2> QED BY <2>2, <2>4, <2>5
  <1>4. RemoveAt(t, i) = a \o b
    BY DEF RemoveAt
  <1> HIDE DEF a, b
  <1> DEFINE d == a \o b
  <1>40. RemoveAt(t, i) = d
    BY <1>4
  <1>5. /\ d \in Seq(K) /\ Len(d) = Len(t) - 1
        /\ \A m \in 1..(i - 1) : d[m] = a[m]
        /\ \A m \in 1..(Len(t) - i) : d[(i - 1) + m] = b[m]
    <2> DEFINE x == i - 1
               y == Len(t) - i
    <2>1. x \in Nat /\ y \in Nat /\ x + y = Len(t) - 1
      BY <1>1
    <2>2. Len(a) = x /\ Len(b) = y
      BY <1>2, <1>3
    <2> HIDE DEF x, y
    <2>3. Joined(d, a, b, x, y, K)
      BY <1>2, <1>3, <2>1, <2>2, JoinedIs, Zenon
    <2> HIDE DEF d
    <2>4. /\ d \in Seq(K) /\ Len(d) = x + y
          /\ \A m \in 1..x : d[m] = a[m]
          /\ \A m \in 1..y : d[x + m] = b[m]
      BY <2>3, Zenon DEF Joined
    <2> QED BY <2>1, <2>4 DEF x, y
  <1> HIDE DEF d
  <1>6. ASSUME NEW m \in 1..(Len(t) - 1)
        PROVE  d[m] = IF m < i THEN t[m] ELSE t[m + 1]
    <2>0. m \in Nat /\ m >= 1 /\ m <= Len(t) - 1
      BY <1>1
    <2>1. CASE m < i
      <3>1. m \in 1..(i - 1)
        BY <1>1, <2>0, <2>1
      <3> QED BY <1>2, <1>5, <2>1, <3>1
    <2>2. CASE m >= i
      <3>1. m - (i - 1) \in 1..(Len(t) - i) /\ i + (m - (i - 1)) = m + 1 /\ (i - 1) + (m - (i - 1)) = m
        BY <1>1, <2>0, <2>2
      <3>2. b[m - (i - 1)] = t[m + 1]
        BY <1>3, <3>1
      <3>3. d[m] = b[m - (i - 1)]
        BY <1>5, <3>1
      <3>4. ~(m < i)
        BY <1>1, <2>0, <2>2
      <3> QED BY <3>2, <3>3, <3>4
    <2> QED BY <1>1, <2>0, <2>1, <2>2
  <1>9. Removed(d, t, i, K)
    BY <1>5, <1>6 DEF Removed
  <1> QED BY <1>40, <1>9, Zenon

\* A list without repetitions of the identities of K.
Listing(t, K) == t \in Seq(K) /\ IsInjective(t)

LEMMA InsertedLists ==
    ASSUME NEW K, NEW t, Listing(t, K), NEW i \in 1..(Len(t) + 1), NEW k \in K, k \notin Range(t)
    PROVE  Listing(InsertAt(t, i, k), K)
  <1>0. t \in Seq(K)
    BY DEF Listing
  <1>10. Inserted(InsertAt(t, i, k), t, i, k, K)
    BY <1>0, InsertedIs, Zenon
  <1> DEFINE u == InsertAt(t, i, k)
  <1>1. t \in Seq(K) /\ Len(t) \in Nat /\ i \in Nat /\ i >= 1 /\ i <= Len(t) + 1
    BY DEF Listing
  <1>2. /\ u \in Seq(K) /\ Len(u) = Len(t) + 1
        /\ \A m \in 1..(Len(t) + 1) : u[m] = IF m < i THEN t[m] ELSE IF m = i THEN k ELSE t[m - 1]
    BY <1>10, Zenon DEF Inserted
  <1>3. /\ \A m, n \in 1..Len(t) : t[m] = t[n] => m = n
        /\ \A m \in 1..Len(t) : t[m] # k
    BY <1>1 DEF Listing, IsInjective, Range
  <1> HIDE DEF u
  <1>4. \A m \in 1..(Len(t) + 1) : u[m] = k <=> m = i
    <2> SUFFICES ASSUME NEW m \in 1..(Len(t) + 1) PROVE u[m] = k <=> m = i
      OBVIOUS
    <2>1. m \in Nat /\ m >= 1 /\ m <= Len(t) + 1
      BY <1>1
    <2>2. u[m] = IF m < i THEN t[m] ELSE IF m = i THEN k ELSE t[m - 1]
      BY <1>2
    <2>3. CASE m < i
      <3>1. m \in 1..Len(t) /\ m # i
        BY <1>1, <2>1, <2>3
      <3> QED BY <1>3, <2>2, <2>3, <3>1
    <2>4. CASE m = i
      BY <1>1, <2>2, <2>4
    <2>5. CASE m > i
      <3>1. m - 1 \in 1..Len(t) /\ m # i /\ ~(m < i)
        BY <1>1, <2>1, <2>5
      <3> QED BY <1>3, <2>2, <3>1
    <2> QED BY <1>1, <2>1, <2>3, <2>4, <2>5
  <1>5. ASSUME NEW m \in 1..(Len(t) + 1), NEW n \in 1..(Len(t) + 1), u[m] = u[n]
        PROVE  m = n
    <2>1. CASE m = i \/ n = i
      BY <1>4, <1>5, <2>1
    <2>2. CASE m # i /\ n # i
      <3> DEFINE p == IF m < i THEN m ELSE m - 1
                 q == IF n < i THEN n ELSE n - 1
      <3>1. p \in 1..Len(t) /\ q \in 1..Len(t)
        BY <1>1, <2>2
      <3>2. u[m] = t[p] /\ u[n] = t[q]
        BY <1>2, <2>2
      <3>3. p = q
        BY <1>3, <1>5, <3>1, <3>2
      <3> QED BY <1>1, <2>2, <3>3
    <2> QED BY <2>1, <2>2
  <1>6. DOMAIN u = 1..(Len(t) + 1)
    BY <1>2
  <1>7. IsInjective(u)
    BY <1>5, <1>6 DEF IsInjective
  <1> QED BY <1>2, <1>7 DEF Listing, u

LEMMA RemovedLists ==
    ASSUME NEW K, NEW t, Listing(t, K), NEW i \in 1..Len(t)
    PROVE  /\ Listing(RemoveAt(t, i), K) /\ Len(RemoveAt(t, i)) = Len(t) - 1
           /\ t[i] \in K /\ t[i] \notin Range(RemoveAt(t, i))
  <1> DEFINE u == RemoveAt(t, i)
  <1>1. t \in Seq(K) /\ Len(t) \in Nat /\ i \in Nat /\ i >= 1 /\ i <= Len(t)
    BY DEF Listing
  <1>20. Removed(u, t, i, K)
    BY <1>1, RemovedIs, Zenon
  <1>2. /\ u \in Seq(K) /\ Len(u) = Len(t) - 1
        /\ \A m \in 1..(Len(t) - 1) : u[m] = IF m < i THEN t[m] ELSE t[m + 1]
    BY <1>20, Zenon DEF Removed
  <1>3. \A m, n \in 1..Len(t) : t[m] = t[n] => m = n
    BY <1>1 DEF Listing, IsInjective
  <1> HIDE DEF u
  <1>4. ASSUME NEW m \in 1..(Len(t) - 1)
        PROVE  /\ (IF m < i THEN m ELSE m + 1) \in 1..Len(t) \ {i}
               /\ u[m] = t[IF m < i THEN m ELSE m + 1]
    BY <1>1, <1>2
  <1>5. ASSUME NEW m \in 1..(Len(t) - 1), NEW n \in 1..(Len(t) - 1), u[m] = u[n]
        PROVE  m = n
    <2>1. (IF m < i THEN m ELSE m + 1) = (IF n < i THEN n ELSE n + 1)
      BY <1>3, <1>4, <1>5
    <2> QED BY <1>1, <2>1
  <1>6. DOMAIN u = 1..(Len(t) - 1)
    BY <1>2
  <1>7. IsInjective(u)
    BY <1>5, <1>6 DEF IsInjective
  <1>8. \A m \in DOMAIN u : u[m] # t[i]
    BY <1>3, <1>4, <1>6
  <1>9. t[i] \notin Range(u)
    BY <1>8 DEF Range
  <1> QED BY <1>1, <1>2, <1>7, <1>9 DEF Listing, u

LEMMA SetListed == ASSUME NEW K, IsFiniteSet(K) PROVE Listing(SetToSeq(K), K)
  <1>1. Cardinality(K) \in Nat /\ ExistsBijection(1..Cardinality(K), K)
    BY FS_CardinalityType
  <1> DEFINE n == Cardinality(K)
  <1>20. PICK f : f \in Bijection(1..n, K)
    BY <1>1, Zenon DEF ExistsBijection
  <1>2. f \in [1..n -> K] /\ IsInjective(f)
    BY <1>20, Zenon DEF Bijection, Injection
  <1>4. SetToSeq(K) \in [1..n -> K] /\ IsInjective(SetToSeq(K))
    BY <1>2, Zenon DEF SetToSeq
  <1>5. SetToSeq(K) \in Seq(K)
    BY <1>1, <1>4
  <1> QED BY <1>4, <1>5 DEF Listing

-----------------------------------------------------------------------------
(* What a frame remembers, and what the next one makes of it.               *)

Memories == [base : Nat, at : Nat, keys : Seq(RowKeys)]

LEMMA Screen == ViewH \in Nat /\ CeilRows \in Nat /\ CeilRows >= 1 /\ MaxRowEdits \in Nat
  BY TableAssumption DEF CeilRows, RowH

LEMMA RememberTyped ==
    ASSUME NEW rs \in Seq(RowKeys), NEW o \in Nat
    PROVE  Remember(rs, o) \in Memories /\ Remember(rs, o).at = o
  <1> DEFINE l == Len(rs)
             h == o \div RowH
             m == Max({0, l - 1})
             base == Min({h, m})
             n == Min({CeilRows + 1, l - base})
             keys == SubSeq(rs, base + 1, base + n)
  <1>1. l \in Nat /\ h \in Nat
    BY DEF RowH
  <1>2. Remember(rs, o) = [base |-> base, at |-> o, keys |-> keys]
    BY DEF Remember
  <1>3. m = IF 0 >= l - 1 THEN 0 ELSE l - 1
    <2> HIDE DEF l
    <2>1. 0 \in Int /\ l - 1 \in Int
      BY <1>1
    <2> QED BY <2>1, MaxOfTwo
  <1> HIDE DEF h, m
  <1>4. m \in Nat /\ m <= l
    BY <1>1, <1>3
  <1>5. base = IF h <= m THEN h ELSE m
    <2>1. h \in Int /\ m \in Int
      BY <1>1, <1>4
    <2> QED BY <2>1, MinOfTwo
  <1> HIDE DEF base
  <1>6. base \in Nat /\ base <= l
    BY <1>1, <1>4, <1>5
  <1>7. n = IF CeilRows + 1 <= l - base THEN CeilRows + 1 ELSE l - base
    <2>1. CeilRows + 1 \in Int /\ l - base \in Int
      BY <1>1, <1>6, Screen
    <2> HIDE DEF l
    <2> QED BY <2>1, MinOfTwo
  <1> HIDE DEF n
  <1>8. n \in Nat /\ base + n <= l
    BY <1>1, <1>6, <1>7, Screen
  <1>9. keys \in Seq(RowKeys)
    <2>1. base + 1 \in Int /\ base + n \in Int /\ \A i \in (base + 1)..(base + n) : rs[i] \in RowKeys
      BY <1>1, <1>6, <1>8
    <2> QED BY <2>1, SubSeqProperties
  <1> HIDE DEF keys
  <1> QED BY <1>2, <1>6, <1>9 DEF Memories

LEMMA ShiftIs ==
    ASSUME NEW mem \in Memories, NEW rs \in Seq(RowKeys), NEW j \in Surviving(mem, rs)
    PROVE  /\ j \in 1..Len(mem.keys) /\ mem.keys[j] \in Range(rs)
           /\ PosIn(rs, mem.keys[j]) \in 0..(Len(rs) - 1)
           /\ ShiftOf(mem, rs, j) \in Int
           /\ ShiftOf(mem, rs, j) = PosIn(rs, mem.keys[j]) - (mem.base + j - 1)
  <1>1. j \in 1..Len(mem.keys) /\ mem.keys[j] \in Range(rs)
    BY DEF Surviving
  <1>2. PosIn(rs, mem.keys[j]) \in 0..(Len(rs) - 1)
    BY <1>1, PosOf
  <1>3. mem.base \in Nat /\ j \in Nat
    BY <1>1 DEF Memories
  <1> QED BY <1>1, <1>2, <1>3 DEF ShiftOf

\* The selected row among what is remembered.
LEMMA TrackedAt ==
    ASSUME NEW mem \in Memories, NEW rs \in Seq(RowKeys), NEW k, Tracked(mem, rs, k)
    PROVE  /\ IndexFirstSubSeq(<<k>>, mem.keys) \in Surviving(mem, rs)
           /\ mem.keys[IndexFirstSubSeq(<<k>>, mem.keys)] = k
           /\ PosIn(mem.keys, k) = IndexFirstSubSeq(<<k>>, mem.keys) - 1
  <1>1. k \in Range(mem.keys) /\ k \in Range(rs) /\ mem.keys \in Seq(RowKeys)
    BY DEF Tracked, Memories
  <1>2. IndexFirstSubSeq(<<k>>, mem.keys) \in 1..Len(mem.keys) /\ mem.keys[IndexFirstSubSeq(<<k>>, mem.keys)] = k
    BY <1>1, FirstAt
  <1>3. PosIn(mem.keys, k) = IndexFirstSubSeq(<<k>>, mem.keys) - 1
    BY <1>1 DEF PosIn
  <1> QED BY <1>1, <1>2, <1>3 DEF Surviving

\* The common shift is that of some row, or none at all.
LEMMA CommonIn ==
    ASSUME NEW mem, NEW rs
    PROVE  CommonShift(mem, rs) \in Shifts(mem, rs) \cup {0}
  <1> DEFINE S == {ShiftOf(mem, rs, j) : j \in Surviving(mem, rs)}
             W == {s \in S : Votes(mem, rs, s) * 2 > Cardinality(Surviving(mem, rs))}
  <1>1. CommonShift(mem, rs) = IF W = {} THEN 0 ELSE CHOOSE s \in W : TRUE
    BY DEF CommonShift
  <1>2. W \subseteq Shifts(mem, rs)
    BY DEF Shifts
  <1> HIDE DEF S, W
  <1>3. CASE W = {}
    BY <1>1, <1>3
  <1>4. CASE W # {}
    <2>1. \E s \in W : TRUE
      BY <1>4
    <2>2. (CHOOSE s \in W : TRUE) \in W
      BY <2>1
    <2> QED BY <1>1, <1>2, <1>4, <2>2
  <1> QED BY <1>3, <1>4

\* When every row that is left moved alike, that is the common shift.
LEMMA CommonSole ==
    ASSUME NEW mem \in Memories, NEW rs, NEW s, Shifts(mem, rs) = {s}
    PROVE  CommonShift(mem, rs) = s /\ Surviving(mem, rs) # {}
  <1> DEFINE S == {ShiftOf(mem, rs, j) : j \in Surviving(mem, rs)}
             W == {x \in S : Votes(mem, rs, x) * 2 > Cardinality(Surviving(mem, rs))}
  <1>1. S = {s} /\ Surviving(mem, rs) # {}
    BY DEF Shifts
  <1>2. \A j \in Surviving(mem, rs) : ShiftOf(mem, rs, j) = s
    BY <1>1
  <1>3. Votes(mem, rs, s) = Cardinality(Surviving(mem, rs))
    <2>1. {j \in Surviving(mem, rs) : ShiftOf(mem, rs, j) = s} = Surviving(mem, rs)
      BY <1>2
    <2> QED BY <2>1 DEF Votes
  <1>4. Len(mem.keys) \in Nat
    BY DEF Memories
  <1>5. IsFiniteSet(Surviving(mem, rs))
    <2>1. IsFiniteSet(1..Len(mem.keys))
      BY <1>4, FS_Interval
    <2>2. Surviving(mem, rs) \subseteq 1..Len(mem.keys)
      BY DEF Surviving
    <2> QED BY <2>1, <2>2, FS_Subset
  <1>6. Cardinality(Surviving(mem, rs)) \in Nat /\ Cardinality(Surviving(mem, rs)) # 0
    BY <1>1, <1>5, FS_CardinalityType, FS_EmptySet
  <1>7. W = {s}
    <2>1. Votes(mem, rs, s) * 2 > Cardinality(Surviving(mem, rs))
      BY <1>3, <1>6
    <2> HIDE DEF S
    <2> QED BY <1>1, <2>1
  <1>8. CommonShift(mem, rs) = IF W = {} THEN 0 ELSE CHOOSE x \in W : TRUE
    BY DEF CommonShift
  <1> HIDE DEF W
  <1>9. CommonShift(mem, rs) = CHOOSE x \in {s} : TRUE
    BY <1>7, <1>8
  <1> QED BY <1>1, <1>9

\* The shift a frame decides for is that of some row, or none at all.
LEMMA FinalIn ==
    ASSUME NEW mem \in Memories, NEW rs \in Seq(RowKeys), NEW k
    PROVE  FinalShift(mem, rs, k) \in Shifts(mem, rs) \cup {0} /\ FinalShift(mem, rs, k) \in Int
  <1>1. Shifts(mem, rs) \subseteq Int
    BY ShiftIs DEF Shifts
  <1>2. CommonShift(mem, rs) \in Shifts(mem, rs) \cup {0}
    BY CommonIn
  <1>3. ASSUME Tracked(mem, rs, k)
        PROVE  ShiftOf(mem, rs, IndexFirstSubSeq(<<k>>, mem.keys)) \in Shifts(mem, rs)
    <2>1. IndexFirstSubSeq(<<k>>, mem.keys) \in Surviving(mem, rs)
      BY <1>3, TrackedAt
    <2> QED BY <2>1 DEF Shifts
  <1>4. FinalShift(mem, rs, k) \in Shifts(mem, rs) \cup {0}
    <2> DEFINE c == CommonShift(mem, rs)
               d == ShiftOf(mem, rs, IndexFirstSubSeq(<<k>>, mem.keys))
    <2>1. FinalShift(mem, rs, k) = IF Tracked(mem, rs, k) /\ ~InView(PosIn(rs, k), mem.at + c * RowH) THEN d ELSE c
      BY DEF FinalShift
    <2> HIDE DEF c, d
    <2>2. c \in Shifts(mem, rs) \cup {0} /\ (Tracked(mem, rs, k) => d \in Shifts(mem, rs))
      BY <1>2, <1>3 DEF c, d
    <2> QED BY <2>1, <2>2
  <1> QED BY <1>1, <1>4

LEMMA RestoredTyped ==
    ASSUME NEW mem \in Memories, NEW rs \in Seq(RowKeys), NEW k, NEW o \in Nat
    PROVE  RestoredOffset(mem, rs, k, o) \in Int
  <1> DEFINE s == FinalShift(mem, rs, k)
  <1>1. s \in Int
    BY FinalIn
  <1>2. mem.at \in Nat
    BY DEF Memories
  <1>3. RestoredOffset(mem, rs, k, o) \in {o, 0, mem.at + s * RowH}
    BY DEF RestoredOffset
  <1> HIDE DEF s
  <1>4. mem.at + s * RowH \in Int
    BY <1>1, <1>2 DEF RowH
  <1> QED BY <1>3, <1>4

\* Rows that all moved alike take the view along.
LEMMA RestoredAlike ==
    ASSUME NEW mem \in Memories, NEW rs \in Seq(RowKeys), NEW k, NEW s,
           Shifts(mem, rs) = {s}, s \in -CeilRows..CeilRows, mem.at > 0
    PROVE  RestoredOffset(mem, rs, k, mem.at) = mem.at + s * RowH
  <1>1. CommonShift(mem, rs) = s /\ Surviving(mem, rs) # {}
    BY CommonSole
  <1>2. FinalShift(mem, rs, k) = s
    <2> DEFINE d == ShiftOf(mem, rs, IndexFirstSubSeq(<<k>>, mem.keys))
    <2>1. Tracked(mem, rs, k) => d = s
      <3>1. ASSUME Tracked(mem, rs, k) PROVE d \in Shifts(mem, rs)
        <4>1. IndexFirstSubSeq(<<k>>, mem.keys) \in Surviving(mem, rs)
          BY <3>1, TrackedAt
        <4> QED BY <4>1 DEF Shifts
      <3> HIDE DEF d
      <3> QED BY <3>1
    <2>2. FinalShift(mem, rs, k) = IF Tracked(mem, rs, k) /\ ~InView(PosIn(rs, k), mem.at + s * RowH) THEN d ELSE s
      BY <1>1 DEF FinalShift
    <2> HIDE DEF d
    <2> QED BY <2>1, <2>2
  <1>3. mem.keys # <<>>
    <2>1. PICK j \in Surviving(mem, rs) : TRUE
      BY <1>1
    <2>2. j \in 1..Len(mem.keys)
      BY <2>1 DEF Surviving
    <2> QED BY <2>2
  <1>4. s \in Int /\ ~(s > CeilRows) /\ ~(-s > CeilRows) /\ mem.at \in Nat /\ mem.at # 0
    BY Screen DEF Memories
  <1>5. RestoredOffset(mem, rs, k, mem.at) = IF s = 0 THEN mem.at ELSE mem.at + s * RowH
    BY <1>1, <1>2, <1>3, <1>4 DEF RestoredOffset
  <1> QED BY <1>4, <1>5 DEF RowH

\* A selected row that was in view is in view of what is restored.
LEMMA RestoredKeepsSelection ==
    ASSUME NEW mem \in Memories, NEW rs \in Seq(RowKeys), NEW k, mem.at > 0,
           Tracked(mem, rs, k), InView(mem.base + PosIn(mem.keys, k), mem.at),
           Shifts(mem, rs) \subseteq -CeilRows..CeilRows
    PROVE  InView(PosIn(rs, k), RestoredOffset(mem, rs, k, mem.at)) /\ PosIn(rs, k) \in 0..(Len(rs) - 1)
  <1> DEFINE j == IndexFirstSubSeq(<<k>>, mem.keys)
             c == CommonShift(mem, rs)
             d == ShiftOf(mem, rs, j)
             p == PosIn(rs, k)
             s == FinalShift(mem, rs, k)
             r == RestoredOffset(mem, rs, k, mem.at)
  <1>1. j \in Surviving(mem, rs) /\ mem.keys[j] = k /\ PosIn(mem.keys, k) = j - 1
    BY TrackedAt
  <1>2. /\ j \in 1..Len(mem.keys) /\ p \in 0..(Len(rs) - 1)
        /\ d \in Int /\ d = p - (mem.base + j - 1)
    <2> HIDE DEF j
    <2> QED BY <1>1, ShiftIs
  <1>3. mem.base \in Nat /\ mem.at \in Nat /\ j \in Nat /\ p \in Nat
    <2> HIDE DEF j, p
    <2> QED BY <1>2 DEF Memories
  <1>4. s = IF ~InView(p, mem.at + c * RowH) THEN d ELSE c
    BY DEF FinalShift
  <1>5. mem.keys # <<>> /\ Surviving(mem, rs) # {}
    <2> HIDE DEF j
    <2> QED BY <1>1, <1>2
  <1>6. s \in Int /\ -CeilRows <= s /\ s <= CeilRows
    <2>1. s \in Shifts(mem, rs) \cup {0} /\ s \in Int
      BY FinalIn
    <2> HIDE DEF s
    <2> QED BY <2>1, Screen
  <1>7. r = IF s = 0 THEN mem.at ELSE mem.at + s * RowH
    <2>1. r = IF s = 0 \/ s > CeilRows \/ -s > CeilRows THEN mem.at ELSE mem.at + s * RowH
      BY <1>5 DEF RestoredOffset
    <2> HIDE DEF s, r
    <2> QED BY <1>6, <2>1, Screen
  <1> HIDE DEF s, r
  <1>8. r = mem.at + s * RowH
    BY <1>3, <1>6, <1>7 DEF RowH
  <1>9. InView(mem.base + (j - 1), mem.at)
    BY <1>1
  <1> HIDE DEF j, c, d, p
  <1>10. InView(p, mem.at + d * RowH)
    <2> DEFINE a == mem.at
               q == mem.base + (j - 1)
    <2>1. a \in Int /\ q \in Int /\ p \in Int /\ d \in Int /\ p = q + d /\ ViewH \in Int
      BY <1>2, <1>3, Screen
    <2>2. q * 2 >= a /\ q * 2 + 2 <= a + ViewH
      BY <1>9 DEF InView, RowH
    <2> HIDE DEF a, q
    <2>3. p * 2 >= a + d * 2 /\ p * 2 + 2 <= (a + d * 2) + ViewH
      BY <2>1, <2>2
    <2> QED BY <2>3 DEF InView, RowH, a
  <1>11. InView(p, r)
    BY <1>4, <1>8, <1>10
  <1> QED BY <1>2, <1>11 DEF p, r

-----------------------------------------------------------------------------
(* The table: the inductive invariant.                                      *)

\* What is remembered is what was on screen at the offset of the last frame.
TableInv ==
    /\ TableTypeOK
    /\ remembered \in Memories /\ remembered.at = offset

LEMMA TableInitInv == ASSUME TableInit PROVE TableInv
  <1>1. tableRows \in Seq(RowKeys) /\ IsInjective(tableRows)
    <2>1. CASE tableRows = <<>>
      BY <2>1 DEF IsInjective
    <2>2. CASE tableRows = SetToSeq(RowKeys)
      BY <2>2, TableAssumption, SetListed DEF Listing
    <2> QED BY <2>1, <2>2 DEF TableInit
  <1>2. offset \in Nat /\ offset <= Max({0, Len(tableRows) * RowH - ViewH})
    <2>1. Max({0, Len(tableRows) * RowH - ViewH}) = Top(Len(tableRows)) /\ Top(Len(tableRows)) \in Nat
      <3>1. Len(tableRows) \in Nat /\ 0 \in Int
        BY <1>1
      <3> QED BY <3>1, ClampedIs
    <2> HIDE DEF Max
    <2> QED BY <2>1 DEF TableInit
  <1>3. /\ prefer \in RowKeys \cup {NoRowKey} /\ wanted \in RowKeys \cup {NoRowKey}
        /\ edits \in 0..MaxRowEdits
    BY Screen DEF TableInit
  <1>4. remembered \in Memories /\ remembered.at = offset
    BY DEF TableInit, Memories
  <1> QED BY <1>1, <1>2, <1>3, <1>4 DEF TableInv, TableTypeOK

\* The length of the list, and how far it scrolls.
LEMMA TableSize ==
    ASSUME TableInv
    PROVE  /\ tableRows \in Seq(RowKeys) /\ Listing(tableRows, RowKeys) /\ Len(tableRows) \in Nat
           /\ offset \in Nat /\ remembered \in Memories /\ remembered.at = offset
           /\ Max({0, Len(tableRows) * RowH - ViewH}) = Top(Len(tableRows)) /\ Top(Len(tableRows)) \in Nat
           /\ Range(tableRows) \subseteq RowKeys
  <1>1. tableRows \in Seq(RowKeys) /\ IsInjective(tableRows) /\ Len(tableRows) \in Nat /\ 0 \in Int
    BY DEF TableInv, TableTypeOK
  <1>2. Max({0, Len(tableRows) * RowH - ViewH}) = Top(Len(tableRows)) /\ Top(Len(tableRows)) \in Nat
    BY <1>1, ClampedIs
  <1>3. Range(tableRows) \subseteq RowKeys
    BY <1>1 DEF Range
  <1> QED BY <1>1, <1>2, <1>3 DEF TableInv, TableTypeOK, Listing

LEMMA EditedKeeps ==
    ASSUME TableInv, NEW rs, Listing(rs, RowKeys), Edited(rs)
    PROVE  TableInv' /\ edits' # 0 /\ wanted' = wanted
  <1>1. /\ edits < MaxRowEdits /\ edits' = edits + 1 /\ tableRows' = rs
        /\ prefer' = (IF prefer \in Range(rs) THEN prefer ELSE NoRowKey)
        /\ UNCHANGED <<offset, remembered, wanted>>
    BY DEF Edited
  <1>2. edits' \in 0..MaxRowEdits /\ edits' # 0
    BY <1>1, Screen DEF TableInv, TableTypeOK
  <1>3. tableRows' \in Seq(RowKeys) /\ IsInjective(tableRows)'
    BY <1>1 DEF Listing, IsInjective
  <1>4. prefer' \in RowKeys \cup {NoRowKey} /\ wanted' \in RowKeys \cup {NoRowKey}
    BY <1>1 DEF TableInv, TableTypeOK
  <1>5. offset' \in Nat /\ remembered' \in Memories /\ remembered'.at = offset'
    BY <1>1 DEF TableInv, TableTypeOK
  <1>6. TableTypeOK'
    BY <1>2, <1>3, <1>4, <1>5 DEF TableTypeOK
  <1> QED BY <1>1, <1>2, <1>5, <1>6 DEF TableInv

LEMMA EditsKeep ==
    ASSUME TableInv, RowComes \/ RowGoes \/ RowMoves
    PROVE  TableInv' /\ edits' # 0 /\ wanted' = wanted
  <1>1. Listing(tableRows, RowKeys) /\ Len(tableRows) \in Nat
    BY TableSize
  <1>2. CASE RowComes
    <2>1. PICK k \in RowKeys \ Range(tableRows), i \in 1..Len(tableRows) + 1 : Edited(InsertAt(tableRows, i, k))
      BY <1>2 DEF RowComes
    <2>2. Listing(InsertAt(tableRows, i, k), RowKeys)
      BY <1>1, <2>1, InsertedLists
    <2> QED BY <2>1, <2>2, EditedKeeps, Zenon
  <1>3. CASE RowGoes
    <2>1. PICK i \in 1..Len(tableRows) : Edited(RemoveAt(tableRows, i))
      BY <1>3 DEF RowGoes
    <2>2. Listing(RemoveAt(tableRows, i), RowKeys)
      BY <1>1, <2>1, RemovedLists
    <2> QED BY <2>1, <2>2, EditedKeeps, Zenon
  <1>4. CASE RowMoves
    <2>1. PICK i \in 1..Len(tableRows), j \in 1..Len(tableRows) : Edited(InsertAt(RemoveAt(tableRows, i), j, tableRows[i]))
      BY <1>4 DEF RowMoves
    <2> DEFINE u == RemoveAt(tableRows, i)
    <2>2. Listing(u, RowKeys) /\ Len(u) = Len(tableRows) - 1 /\ tableRows[i] \in RowKeys /\ tableRows[i] \notin Range(u)
      BY <1>1, <2>1, RemovedLists
    <2> HIDE DEF u
    <2>3. j \in 1..(Len(u) + 1)
      BY <1>1, <2>1, <2>2
    <2>4. Listing(InsertAt(u, j, tableRows[i]), RowKeys)
      BY <2>2, <2>3, InsertedLists
    <2> QED BY <2>1, <2>4, EditedKeeps, Zenon DEF u
  <1> QED BY <1>2, <1>3, <1>4

\* The offset a frame asks for, before it is clamped to the content.
AskedOffset ==
    IF wanted \in Range(tableRows) THEN FocusOffset(PosIn(tableRows, wanted), Len(tableRows), offset)
    ELSE IF edits > 0 THEN RestoredOffset(remembered, tableRows, prefer, offset)
    ELSE offset

LEMMA AskedTyped ==
    ASSUME TableInv
    PROVE  /\ AskedOffset \in Int
           /\ Clamped(AskedOffset, Len(tableRows)) \in Nat
           /\ Clamped(AskedOffset, Len(tableRows)) <= Top(Len(tableRows))
  <1>1. /\ tableRows \in Seq(RowKeys) /\ Len(tableRows) \in Nat
        /\ offset \in Nat /\ offset \in Int /\ remembered \in Memories
    BY TableSize
  <1>2. CASE wanted \in Range(tableRows)
    <2>1. PosIn(tableRows, wanted) \in 0..(Len(tableRows) - 1)
      BY <1>1, <1>2, PosOf
    <2>2. FocusOffset(PosIn(tableRows, wanted), Len(tableRows), offset) \in Int
      BY <1>1, <2>1, FocusShows
    <2> QED BY <1>1, <1>2, <2>2, ClampedIs DEF AskedOffset
  <1>3. CASE wanted \notin Range(tableRows)
    <2>1. RestoredOffset(remembered, tableRows, prefer, offset) \in Int
      BY <1>1, RestoredTyped
    <2>2. AskedOffset \in Int
      BY <1>1, <1>3, <2>1 DEF AskedOffset
    <2> QED BY <1>1, <2>2, ClampedIs
  <1> QED BY <1>2, <1>3

\* What a frame does.
LEMMA FrameIs ==
    ASSUME TableFrame
    PROVE  /\ offset' = Clamped(AskedOffset, Len(tableRows))
           /\ remembered' = Remember(tableRows, Clamped(AskedOffset, Len(tableRows)))
           /\ edits' = 0 /\ wanted' = NoRowKey
           /\ tableRows' = tableRows /\ prefer' = prefer
  BY Zenon DEF TableFrame, AskedOffset

LEMMA FrameKeeps == ASSUME TableInv, TableFrame PROVE TableInv'
  <1> DEFINE o == Clamped(AskedOffset, Len(tableRows))
  <1>1. /\ tableRows \in Seq(RowKeys) /\ Max({0, Len(tableRows) * RowH - ViewH}) = Top(Len(tableRows))
    BY TableSize
  <1>2. o \in Nat /\ o <= Top(Len(tableRows))
    BY AskedTyped
  <1>3. /\ offset' = o /\ remembered' = Remember(tableRows, o) /\ edits' = 0 /\ wanted' = NoRowKey
        /\ tableRows' = tableRows /\ prefer' = prefer
    BY FrameIs
  <1> HIDE DEF o
  <1>4. Remember(tableRows, o) \in Memories /\ Remember(tableRows, o).at = o
    BY <1>1, <1>2, RememberTyped
  <1>5. edits' \in 0..MaxRowEdits
    BY <1>3, Screen
  <1>6. (Max({0, Len(tableRows) * RowH - ViewH}))' = Top(Len(tableRows))
    BY <1>1, <1>3
  <1>7. (offset \in Nat /\ (edits = 0 => offset <= Max({0, Len(tableRows) * RowH - ViewH})))'
    BY <1>2, <1>3, <1>6
  <1>8. TableTypeOK'
    BY <1>3, <1>5, <1>7 DEF TableTypeOK, TableInv, IsInjective
  <1> QED BY <1>3, <1>4, <1>8 DEF TableInv

LEMMA ScrollKeeps == ASSUME TableInv, UserScrolls PROVE TableInv' /\ edits' = edits /\ wanted' = wanted
  <1>1. /\ tableRows \in Seq(RowKeys) /\ Len(tableRows) \in Nat
        /\ Max({0, Len(tableRows) * RowH - ViewH}) = Top(Len(tableRows)) /\ Top(Len(tableRows)) \in Nat
    BY TableSize
  <1>2. PICK o \in 0..Clamped(Len(tableRows) * RowH, Len(tableRows)) : offset' = o /\ remembered' = Remember(tableRows, o)
    BY DEF UserScrolls
  <1>3. tableRows' = tableRows /\ prefer' = prefer /\ wanted' = wanted /\ edits' = edits
    BY DEF UserScrolls
  <1>4. o \in Nat /\ o <= Top(Len(tableRows))
    <2>1. Len(tableRows) * RowH \in Int
      BY <1>1 DEF RowH
    <2>2. Clamped(Len(tableRows) * RowH, Len(tableRows)) \in Nat /\ Clamped(Len(tableRows) * RowH, Len(tableRows)) <= Top(Len(tableRows))
      BY <1>1, <2>1, ClampedIs
    <2> QED BY <1>1, <1>2, <2>2
  <1>5. Remember(tableRows, o) \in Memories /\ Remember(tableRows, o).at = o
    BY <1>1, <1>4, RememberTyped
  <1>6. (Max({0, Len(tableRows) * RowH - ViewH}))' = Top(Len(tableRows))
    BY <1>1, <1>3
  <1>7. (offset \in Nat /\ (edits = 0 => offset <= Max({0, Len(tableRows) * RowH - ViewH})))'
    BY <1>2, <1>4, <1>6
  <1>8. TableTypeOK'
    BY <1>3, <1>7 DEF TableTypeOK, TableInv, IsInjective
  <1> QED BY <1>2, <1>3, <1>5, <1>8 DEF TableInv

LEMMA PicksKeep ==
    ASSUME TableInv, PickRow \/ RequestRowScroll
    PROVE  TableInv' /\ edits' = edits /\ (wanted' = wanted \/ (wanted = NoRowKey /\ wanted' # NoRowKey))
  <1>1. tableRows' = tableRows /\ offset' = offset /\ remembered' = remembered /\ edits' = edits
    BY DEF PickRow, RequestRowScroll
  <1>2. Range(tableRows) \subseteq RowKeys
    BY TableSize
  <1>3. prefer' \in RowKeys \cup {NoRowKey} /\ wanted' \in RowKeys \cup {NoRowKey}
    <2>1. CASE PickRow
      BY <1>2, <2>1 DEF PickRow, TableInv, TableTypeOK
    <2>2. CASE RequestRowScroll
      BY <1>2, <2>2 DEF RequestRowScroll, TableInv, TableTypeOK
    <2> QED BY <2>1, <2>2
  <1>4. wanted' = wanted \/ (wanted = NoRowKey /\ wanted' # NoRowKey)
    BY TableAssumption DEF PickRow, RequestRowScroll
  <1>5. (Max({0, Len(tableRows) * RowH - ViewH}))' = Max({0, Len(tableRows) * RowH - ViewH})
    BY <1>1
  <1>6. TableTypeOK'
    BY <1>1, <1>3, <1>5 DEF TableTypeOK, TableInv, IsInjective
  <1> QED BY <1>1, <1>4, <1>6 DEF TableInv

LEMMA TableStep == ASSUME TableInv, [TableNext]_tableVars PROVE TableInv'
  <1>1. CASE RowComes \/ RowGoes \/ RowMoves
    BY <1>1, EditsKeep
  <1>2. CASE TableFrame
    BY <1>2, FrameKeeps
  <1>3. CASE UserScrolls
    BY <1>3, ScrollKeeps
  <1>4. CASE PickRow \/ RequestRowScroll
    BY <1>4, PicksKeep
  <1>5. CASE UNCHANGED tableVars
    BY <1>5 DEF tableVars, TableInv, TableTypeOK, IsInjective
  <1> QED BY <1>1, <1>2, <1>3, <1>4, <1>5 DEF TableNext

-----------------------------------------------------------------------------
(* What a step of the table may not do.                                     *)

\* Only a frame settles what was edited, and only a frame serves a request.
LEMMA SettledByFrame ==
    ASSUME TableInv, [TableNext]_tableVars, edits > 0, edits' = 0
    PROVE  TableFrame
  <1>1. edits' # edits
    BY DEF TableInv, TableTypeOK
  <1> QED BY <1>1, EditsKeep, ScrollKeeps, PicksKeep DEF TableNext, tableVars

LEMMA ServedByFrame ==
    ASSUME TableInv, [TableNext]_tableVars, wanted # NoRowKey, wanted' = NoRowKey
    PROVE  TableFrame
  BY EditsKeep, ScrollKeeps, PicksKeep DEF TableNext, tableVars

\* The frame after a rebuild that nobody interferes with.
LEMMA RebuiltFrame ==
    ASSUME TableInv, [TableNext]_tableVars, edits > 0, edits' = 0, wanted \notin Range(tableRows)
    PROVE  offset' = Clamped(RestoredOffset(remembered, tableRows, prefer, remembered.at), Len(tableRows))
  <1>1. TableFrame
    BY SettledByFrame
  <1>2. offset' = Clamped(AskedOffset, Len(tableRows))
    BY <1>1, FrameIs
  <1>3. AskedOffset = RestoredOffset(remembered, tableRows, prefer, offset) /\ remembered.at = offset
    BY DEF AskedOffset, TableInv
  <1> QED BY <1>2, <1>3

LEMMA EditsAboveStep ==
    ASSUME TableInv, [TableNext]_tableVars,
           edits > 0, edits' = 0, wanted \notin Range(tableRows), remembered.at > 0,
           NEW s \in Shifts(remembered, tableRows), Shifts(remembered, tableRows) = {s}, s \in -CeilRows..CeilRows
    PROVE  offset' = Clamped(remembered.at + s * RowH, Len(tableRows))
  <1>1. tableRows \in Seq(RowKeys) /\ remembered \in Memories
    BY TableSize
  <1>2. RestoredOffset(remembered, tableRows, prefer, remembered.at) = remembered.at + s * RowH
    BY <1>1, RestoredAlike
  <1> QED BY <1>2, RebuiltFrame

LEMMA SelectionStep ==
    ASSUME TableInv, [TableNext]_tableVars,
           edits > 0, edits' = 0, wanted \notin Range(tableRows), remembered.at > 0,
           Tracked(remembered, tableRows, prefer),
           InView(remembered.base + PosIn(remembered.keys, prefer), remembered.at),
           Shifts(remembered, tableRows) \subseteq -CeilRows..CeilRows
    PROVE  InView(PosIn(tableRows, prefer), offset')
  <1> DEFINE r == RestoredOffset(remembered, tableRows, prefer, remembered.at)
  <1>1. tableRows \in Seq(RowKeys) /\ Len(tableRows) \in Nat /\ remembered \in Memories /\ remembered.at \in Nat
    BY TableSize
  <1>2. InView(PosIn(tableRows, prefer), r) /\ PosIn(tableRows, prefer) \in 0..(Len(tableRows) - 1)
    BY <1>1, RestoredKeepsSelection
  <1>3. r \in Int
    BY <1>1, RestoredTyped
  <1>4. offset' = Clamped(r, Len(tableRows))
    BY RebuiltFrame
  <1> HIDE DEF r
  <1> QED BY <1>1, <1>2, <1>3, <1>4, ClampedShows

LEMMA TopStep ==
    ASSUME TableInv, [TableNext]_tableVars,
           edits > 0, edits' = 0, wanted \notin Range(tableRows), remembered.keys # <<>>, remembered.at = 0
    PROVE  offset' = 0
  <1>1. Len(tableRows) \in Nat
    BY TableSize
  <1>2. RestoredOffset(remembered, tableRows, prefer, remembered.at) = 0
    BY DEF RestoredOffset
  <1>3. offset' = Clamped(0, Len(tableRows))
    BY <1>2, RebuiltFrame
  <1>4. 0 \in Int
    OBVIOUS
  <1>5. /\ Clamped(0, Len(tableRows)) = IF 0 < 0 THEN 0 ELSE IF 0 <= Top(Len(tableRows)) THEN 0 ELSE Top(Len(tableRows))
        /\ Top(Len(tableRows)) \in Nat
    BY <1>1, <1>4, ClampedIs
  <1> QED BY <1>3, <1>5

LEMMA RequestStep ==
    ASSUME TableInv, [TableNext]_tableVars, wanted \in Range(tableRows), wanted' = NoRowKey
    PROVE  InView(PosIn(tableRows, wanted), offset')
  <1>1. tableRows \in Seq(RowKeys) /\ Len(tableRows) \in Nat /\ Range(tableRows) \subseteq RowKeys /\ offset \in Int
    BY TableSize
  <1>2. TableFrame
    BY <1>1, TableAssumption, ServedByFrame
  <1> DEFINE f == FocusOffset(PosIn(tableRows, wanted), Len(tableRows), offset)
  <1>3. AskedOffset = f
    BY DEF AskedOffset
  <1>4. offset' = Clamped(f, Len(tableRows))
    BY <1>2, <1>3, FrameIs
  <1>5. PosIn(tableRows, wanted) \in 0..(Len(tableRows) - 1)
    BY <1>1, PosOf
  <1>6. InView(PosIn(tableRows, wanted), f) /\ Clamped(f, Len(tableRows)) = f
    BY <1>1, <1>5, FocusShows
  <1> QED BY <1>4, <1>6

\* The list under a table may change in any way between two frames, and the view is
\* steady: rows that all moved alike take it along, a selected row that was in view
\* stays in view, the top stays the top, and a row that was asked for is shown.
\* (AnchorState::restored_offset, focus_offset, scrolled_rows)
THEOREM ViewIsSteady == TableSpec => ViewSteady
  <1>1. TableInit => TableInv
    BY TableInitInv
  <1>2. TableInv /\ [TableNext]_tableVars => TableInv'
    BY TableStep
  <1>3. TableInv => TableTypeOK
    BY DEF TableInv
  <1>4. TableInv /\ [TableNext]_tableVars =>
          [(edits > 0 /\ edits' = 0 /\ wanted \notin Range(tableRows) /\ remembered.at > 0) =>
             \A s \in Shifts(remembered, tableRows) :
               (Shifts(remembered, tableRows) = {s} /\ s \in -CeilRows..CeilRows) =>
                  offset' = Clamped(remembered.at + s * RowH, Len(tableRows))]_tableVars
    BY EditsAboveStep
  <1>5. TableInv /\ [TableNext]_tableVars =>
          [(/\ edits > 0 /\ edits' = 0 /\ wanted \notin Range(tableRows) /\ remembered.at > 0
            /\ Tracked(remembered, tableRows, prefer)
            /\ InView(remembered.base + PosIn(remembered.keys, prefer), remembered.at)
            /\ Shifts(remembered, tableRows) \subseteq -CeilRows..CeilRows) =>
              InView(PosIn(tableRows, prefer), offset')]_tableVars
    BY SelectionStep
  <1>6. TableInv /\ [TableNext]_tableVars =>
          [(edits > 0 /\ edits' = 0 /\ wanted \notin Range(tableRows) /\ remembered.keys # <<>> /\ remembered.at = 0)
             => offset' = 0]_tableVars
    BY TopStep
  <1>7. TableInv /\ [TableNext]_tableVars =>
          [(wanted \in Range(tableRows) /\ wanted' = NoRowKey) => InView(PosIn(tableRows, wanted), offset')]_tableVars
    BY RequestStep
  <1> QED BY <1>1, <1>2, <1>3, <1>4, <1>5, <1>6, <1>7, PTL
       DEF TableSpec, ViewSteady, EditsAboveDoNotMove, SelectionStaysInView, TopStaysTop, RequestShown

-----------------------------------------------------------------------------
(* The shell: the icon in the notification area and the cloaked restore.    *)

ShellSpec == ShellInit /\ [][ShellNext]_shellVars

Natives ==
    [hidden : BOOLEAN, pending : BOOLEAN, cloak : BOOLEAN, owed : 0..2, exit : BOOLEAN,
     want : {"none", "show", "hide"}, close : BOOLEAN, repaint : BOOLEAN, asked : BOOLEAN, tell : BOOLEAN]

\* The window is cloaked exactly as long as frames are owed.
Revealed(s) == s \in Natives /\ s.cloak = (s.owed > 0)

\* Up to the exit, the tray thread can be told to apply once it has published
\* itself, and there is a thread only with a tray.
ThreadTold ==
    frame # "exited" =>
      /\ mail # "quit" /\ thread # "ended"
      /\ tid <=> thread \in {"published", "running"}
      /\ tray = "untried" => thread = "none"

\* What the thread shows is what is wanted, unless it is about to be told or has
\* a message to read.
IconTold ==
    (/\ thread = "running" /\ mail = "none" /\ frame # "exited"
     /\ ~(frame \in {"post", "kept"} /\ w.tell)) => icon = desired

ShellTyped ==
    /\ closeReq \in BOOLEAN /\ closeToTray \in BOOLEAN /\ visible \in BOOLEAN
    /\ lastVisible \in BOOLEAN /\ desired \in BOOLEAN /\ tid \in BOOLEAN

ShellInv == ShellTypeOK /\ ShellTyped /\ Revealed(w) /\ ThreadTold /\ IconTold

\* The safety part of ShellHonest.
ShellSafe == []ShellTypeOK /\ []IconFollows

LEMMA ShellInitInv == ASSUME ShellInit PROVE ShellInv
  <1>1. MaxEvents \in Nat
    BY ShellAssumption
  <1>2. PICK hide \in BOOLEAN :
          /\ visible = ~hide
          /\ w = [hidden |-> hide, pending |-> hide, cloak |-> FALSE, owed |-> 0, exit |-> FALSE,
                  want |-> "none", close |-> FALSE, repaint |-> TRUE, asked |-> FALSE, tell |-> FALSE]
          /\ tray \in IF hide \/ closeToTray THEN {"some", "none"} ELSE {"untried"}
    BY DEF ShellInit
  <1>3. w \in Natives /\ w.cloak = (w.owed > 0) /\ w.want = "none" /\ w.owed = 0
    <2>1. w \in Natives
      BY <1>2 DEF Natives
    <2>2. w.want = "none" /\ w.owed = 0 /\ w.cloak = FALSE
      BY <1>2
    <2>3. (0 > 0) = FALSE
      OBVIOUS
    <2> QED BY <2>1, <2>2, <2>3
  <1>4. tray \in {"some", "none", "untried"}
    BY <1>2
  <1>5. ShellTypeOK
    <2>1. w.owed \in 0..2 /\ w.want \in {"none", "show", "hide"}
      BY <1>3
    <2>2. stimuli \in 0..MaxEvents
      BY <1>1 DEF ShellInit
    <2>3. thread \in {"none", "starting"}
      BY DEF ShellInit
    <2> QED BY <1>3, <1>4, <2>1, <2>2, <2>3 DEF ShellInit, ShellTypeOK
  <1>6. ShellTyped
    BY <1>2 DEF ShellInit, ShellTyped
  <1>7. ThreadTold
    BY <1>4 DEF ShellInit, ThreadTold
  <1>8. IconTold
    BY DEF ShellInit, IconTold
  <1> QED BY <1>3, <1>5, <1>6, <1>7, <1>8 DEF ShellInv, Revealed

\* What a frame does to the window leaves it cloaked as long as frames are owed.
LEMMA FinishReveals == ASSUME NEW s, Revealed(s) PROVE Revealed(FinishRestore(s))
  <1>1. s \in Natives /\ s.cloak = (s.owed > 0) /\ s.owed \in 0..2
    BY DEF Revealed, Natives
  <1>2. CASE s.owed = 0
    BY <1>2 DEF FinishRestore
  <1>3. CASE s.owed # 0
    <2> DEFINE t == [s EXCEPT !.owed = @ - 1, !.cloak = s.owed > 1, !.repaint = s.owed > 1]
    <2>1. FinishRestore(s) = t
      BY <1>3 DEF FinishRestore
    <2>2. t.owed = s.owed - 1 /\ t.cloak = (s.owed > 1) /\ s.owed - 1 \in 0..2 /\ (s.owed > 1) \in BOOLEAN
      BY <1>1, <1>3 DEF Natives
    <2>3. t \in Natives
      BY <1>1, <2>2 DEF Natives
    <2>4. (s.owed > 1) = (s.owed - 1 > 0)
      BY <1>1
    <2> QED BY <2>1, <2>2, <2>3, <2>4 DEF Revealed
  <1> QED BY <1>2, <1>3

LEMMA RestoreReveals == ASSUME NEW s, Revealed(s) PROVE Revealed(Restore(s))
  <1>1. s \in Natives /\ s.cloak = (s.owed > 0) /\ s.owed \in 0..2 /\ s.hidden \in BOOLEAN /\ s.cloak \in BOOLEAN
    BY DEF Revealed, Natives
  <1> DEFINE t == [s EXCEPT !.hidden = FALSE, !.pending = FALSE, !.want = "show", !.repaint = TRUE,
                            !.asked = FALSE, !.cloak = @ \/ s.hidden, !.owed = IF s.hidden THEN 2 ELSE @]
  <1>2. Restore(s) = t
    BY DEF Restore
  <1>3. t.cloak = (s.cloak \/ s.hidden) /\ t.owed = IF s.hidden THEN 2 ELSE s.owed
    BY <1>1 DEF Natives
  <1>4. t \in Natives
    <2>1. (s.cloak \/ s.hidden) \in BOOLEAN /\ (IF s.hidden THEN 2 ELSE s.owed) \in 0..2
      BY <1>1
    <2> QED BY <1>1, <2>1 DEF Natives
  <1>5. (s.cloak \/ s.hidden) = ((IF s.hidden THEN 2 ELSE s.owed) > 0)
    <2>1. CASE s.hidden
      <3>1. (2 > 0) = TRUE
        OBVIOUS
      <3> QED BY <1>1, <2>1, <3>1
    <2>2. CASE ~s.hidden
      BY <1>1, <2>2
    <2> QED BY <2>1, <2>2
  <1> HIDE DEF t
  <1> QED BY <1>2, <1>3, <1>4, <1>5 DEF Revealed

LEMMA HandleReveals == ASSUME NEW s, Revealed(s) PROVE Revealed(Handle(s))
  <1>1. CASE action = OPEN
    BY <1>1, RestoreReveals DEF Handle
  <1>2. CASE action # OPEN /\ action = EXIT
    <2> DEFINE t == [s EXCEPT !.exit = TRUE, !.hidden = FALSE, !.close = TRUE]
    <2>1. t \in Natives /\ t.cloak = s.cloak /\ t.owed = s.owed
      BY DEF Revealed, Natives
    <2>2. Handle(s) = t
      BY <1>2 DEF Handle
    <2> HIDE DEF t
    <2> QED BY <2>1, <2>2 DEF Revealed
  <1>3. CASE action # OPEN /\ action # EXIT
    BY <1>3 DEF Handle
  <1> QED BY <1>1, <1>2, <1>3

LEMMA HideReveals == ASSUME NEW s, Revealed(s) PROVE Revealed(InitialHide(s))
  <1> DEFINE t == [s EXCEPT !.pending = FALSE, !.want = "hide"]
             u == [s EXCEPT !.pending = FALSE, !.hidden = FALSE, !.want = "show"]
  <1>1. t \in Natives /\ t.cloak = s.cloak /\ t.owed = s.owed
    BY DEF Revealed, Natives
  <1>2. u \in Natives /\ u.cloak = s.cloak /\ u.owed = s.owed
    BY DEF Revealed, Natives
  <1>3. InitialHide(s) = s \/ InitialHide(s) = t \/ InitialHide(s) = u
    BY DEF InitialHide
  <1> HIDE DEF t, u
  <1> QED BY <1>1, <1>2, <1>3 DEF Revealed

\* What the end of a frame, or any step that only changes flags, does to the window.
LEMMA EndReveals ==
    ASSUME NEW s, Revealed(s)
    PROVE  /\ Revealed([s EXCEPT !.want = "none", !.close = FALSE, !.repaint = @ \/ s.close])
           /\ [s EXCEPT !.want = "none", !.close = FALSE, !.repaint = @ \/ s.close].tell = s.tell
  <1> DEFINE t == [s EXCEPT !.want = "none", !.close = FALSE, !.repaint = @ \/ s.close]
  <1>1. t \in Natives /\ t.cloak = s.cloak /\ t.owed = s.owed /\ t.tell = s.tell
    BY DEF Revealed, Natives
  <1> HIDE DEF t
  <1>2. Revealed(t)
    BY <1>1 DEF Revealed
  <1> QED BY <1>1, <1>2 DEF t

\* The window's part of the type invariant follows from its record.
LEMMA RevealedTyped == ASSUME NEW s, Revealed(s)
    PROVE s.owed \in 0..2 /\ s.want \in {"none", "show", "hide"} /\ s.cloak = (s.owed > 0) /\ s.cloak \in BOOLEAN
          /\ s.close \in BOOLEAN
  BY DEF Revealed, Natives

\* A step of the UI thread that leaves the tray alone.
LEMMA LogicKeeps == ASSUME ShellInv, Logic PROVE ShellInv'
  <1> DEFINE s == InitialHide(Handle(FinishRestore([w EXCEPT !.repaint = FALSE])))
             e == [s EXCEPT !.want = "none", !.close = FALSE, !.repaint = @ \/ s.close]
  <1>1. Revealed([w EXCEPT !.repaint = FALSE])
    <2> DEFINE t == [w EXCEPT !.repaint = FALSE]
    <2>1. t \in Natives /\ t.cloak = w.cloak /\ t.owed = w.owed
      BY DEF ShellInv, Revealed, Natives
    <2> HIDE DEF t
    <2>2. Revealed(t)
      BY <2>1 DEF ShellInv, Revealed
    <2> QED BY <2>2 DEF t
  <1>2. Revealed(s)
    BY <1>1, FinishReveals, HandleReveals, HideReveals
  <1>3. Revealed(e)
    BY <1>2, EndReveals, Zenon
  <1>4. /\ frame = "idle" /\ action' = 0
        /\ UNCHANGED <<closeToTray, stimuli, exitAsked, trayVars>>
        /\ IF visible THEN w' = s /\ frame' = "ui" /\ cloaked' = s.cloak /\ UNCHANGED <<visible, closeReq, over>>
           ELSE FrameEnds(s, FALSE)
    BY Zenon DEF Logic
  <1> HIDE DEF s
  <1>5. CASE visible
    <2>1. w' = s /\ frame' = "ui" /\ visible' = visible /\ closeReq' = closeReq
      BY <1>4, <1>5
    <2> QED BY <1>2, <1>4, <2>1, RevealedTyped
            DEF ShellInv, ShellTypeOK, ShellTyped, ThreadTold, IconTold, trayVars
  <1>6. CASE ~visible
    <2>1. /\ frame' = "idle" /\ w' = e /\ closeReq' = s.close
          /\ visible' = IF s.want = "none" THEN visible ELSE s.want = "show"
      BY <1>4, <1>6 DEF FrameEnds
    <2> HIDE DEF e
    <2>2. visible' \in BOOLEAN /\ closeReq' \in BOOLEAN
      BY <1>2, <2>1, RevealedTyped DEF ShellInv, ShellTyped
    <2> QED BY <1>3, <1>4, <2>1, <2>2, RevealedTyped
            DEF ShellInv, ShellTypeOK, ShellTyped, ThreadTold, IconTold, trayVars
  <1> QED BY <1>5, <1>6 DEF ShellInv, ShellTyped

\* The frame that draws decides what the icon should be, and will tell the thread
\* when it changed its mind.
LEMMA WindowKeeps == ASSUME ShellInv, WindowThread PROVE ShellInv'
  <1> DEFINE s == Handle(w)
             wish == closeToTray \/ s.hidden
             kept == KeepInTray(s)
             b == tray = "some" /\ lastVisible # wish
             t == [s EXCEPT !.hidden = @ \/ kept, !.want = IF kept THEN "hide" ELSE @, !.tell = b]
  <1>1. Revealed(s) /\ s.hidden \in BOOLEAN
    BY HandleReveals DEF ShellInv, Revealed, Natives
  <1>2. /\ frame = "ui" /\ action' = 0
        /\ UNCHANGED <<visible, cloaked, closeReq, over, closeToTray, stimuli, exitAsked>>
        /\ IF wish /\ tray = "untried" THEN NewTray(TRUE)
           ELSE IF tray = "some" /\ lastVisible # wish
           THEN lastVisible' = wish /\ desired' = wish /\ UNCHANGED <<tray, thread, tid, mail, icon>>
           ELSE UNCHANGED trayVars
        /\ w' = t
        /\ frame' = IF kept THEN "kept" ELSE "post"
    BY Zenon DEF WindowThread
  <1>3. wish \in BOOLEAN /\ kept \in BOOLEAN /\ b \in BOOLEAN
    BY <1>1 DEF ShellInv, ShellTyped, KeepInTray
  <1> HIDE DEF s, wish, kept, b
  <1>4. t \in Natives /\ t.cloak = s.cloak /\ t.owed = s.owed /\ t.tell = b
    BY <1>1, <1>3 DEF Revealed, Natives
  <1> HIDE DEF t
  <1>5. Revealed(t)
    BY <1>1, <1>4 DEF Revealed
  <1>6. frame' \in {"post", "kept"} /\ w'.tell = b /\ Revealed(w')
    BY <1>2, <1>4, <1>5
  <1>7. CASE wish /\ tray = "untried"
    <2>1. /\ desired' = TRUE /\ UNCHANGED <<tid, mail, icon>>
          /\ (tray' = "some" /\ lastVisible' = TRUE /\ thread' = "starting")
             \/ (tray' = "none" /\ UNCHANGED <<lastVisible, thread>>)
      BY <1>2, <1>7 DEF NewTray
    <2>2. thread = "none" /\ ~tid /\ mail # "quit"
      BY <1>2, <1>7 DEF ShellInv, ThreadTold
    <2>3. /\ thread' \in {"none", "starting"} /\ tray' \in {"some", "none"}
          /\ lastVisible' \in BOOLEAN /\ desired' \in BOOLEAN /\ tid' = FALSE /\ mail' = mail
      BY <2>1, <2>2 DEF ShellInv, ShellTyped
    <2>4. ThreadTold' /\ IconTold'
      BY <1>6, <2>2, <2>3 DEF ThreadTold, IconTold
    <2>5. ShellTyped'
      BY <1>2, <2>3 DEF ShellInv, ShellTyped
    <2>6. ShellTypeOK'
      BY <1>2, <1>6, <2>3, RevealedTyped DEF ShellInv, ShellTypeOK
    <2> QED BY <1>6, <2>4, <2>5, <2>6 DEF ShellInv
  <1>8. CASE ~(wish /\ tray = "untried")
    <2>1. UNCHANGED <<tray, thread, tid, mail, icon>> /\ (desired' = desired \/ b)
          /\ desired' \in BOOLEAN /\ lastVisible' \in BOOLEAN
      BY <1>2, <1>3, <1>8 DEF ShellInv, ShellTyped, trayVars, b
    <2>2. ThreadTold'
      BY <1>2, <1>6, <2>1 DEF ShellInv, ThreadTold
    <2>3. IconTold'
      BY <1>2, <1>6, <2>1 DEF ShellInv, IconTold
    <2>4. ShellTyped'
      BY <1>2, <2>1 DEF ShellInv, ShellTyped
    <2>5. ShellTypeOK'
      BY <1>2, <1>6, <2>1, RevealedTyped DEF ShellInv, ShellTypeOK
    <2> QED BY <1>6, <2>2, <2>3, <2>4, <2>5 DEF ShellInv
  <1> QED BY <1>7, <1>8

LEMMA PostsKeep == ASSUME ShellInv, UiPosts PROVE ShellInv'
  <1> DEFINE e == [w EXCEPT !.want = "none", !.close = FALSE, !.repaint = @ \/ w.close]
  <1>1. Revealed(w) /\ Revealed(e)
    BY EndReveals, Zenon DEF ShellInv
  <1>2. /\ frame \in {"post", "kept"} /\ frame' = "idle"
        /\ mail' = IF w.tell /\ tid THEN "apply" ELSE mail
        /\ w' = e /\ closeReq' = w.close
        /\ visible' = IF w.want = "none" THEN visible ELSE w.want = "show"
        /\ UNCHANGED <<action, closeToTray, stimuli, exitAsked, tray, lastVisible, thread, desired, tid, icon>>
    BY Zenon DEF UiPosts, FrameEnds
  <1> HIDE DEF e
  <1>3. visible' \in BOOLEAN /\ closeReq' \in BOOLEAN
    BY <1>1, <1>2, RevealedTyped DEF ShellInv, ShellTyped
  <1>4. mail' \in {"apply", mail} /\ mail' \in {"none", "apply", "quit"}
    BY <1>2 DEF ShellInv, ShellTypeOK
  <1>5. ThreadTold'
    BY <1>2, <1>4 DEF ShellInv, ThreadTold
  <1>6. IconTold'
    <2>1. ASSUME thread = "running", mail' = "none" PROVE icon = desired
      <3>1. tid /\ mail = "none" /\ ~w.tell
        BY <1>2, <2>1 DEF ShellInv, ThreadTold
      <3> QED BY <1>2, <2>1, <3>1 DEF ShellInv, IconTold
    <2> QED BY <1>2, <2>1 DEF IconTold
  <1>7. ShellTypeOK' /\ ShellTyped'
    BY <1>1, <1>2, <1>3, <1>4, RevealedTyped DEF ShellInv, ShellTypeOK, ShellTyped
  <1> QED BY <1>1, <1>2, <1>5, <1>6, <1>7 DEF ShellInv

LEMMA ExitsKeep == ASSUME ShellInv, Exits PROVE ShellInv'
  <1>1. /\ frame' = "exited" /\ desired' = FALSE /\ lastVisible' = FALSE /\ tid' = FALSE /\ visible' = FALSE
        /\ mail' \in {"quit", mail}
        /\ UNCHANGED <<action, w, closeReq, closeToTray, stimuli, tray, thread, icon>>
    BY DEF Exits
  <1> QED BY <1>1 DEF ShellInv, ShellTypeOK, ShellTyped, ThreadTold, IconTold, Revealed

LEMMA TrayKeeps == ASSUME ShellInv, TrayThread PROVE ShellInv'
  <1>1. UNCHANGED <<tray, lastVisible, desired, winVars>>
    BY DEF TrayThread, TrayBuilds, TrayMessage
  <1>2. UNCHANGED <<action, w, frame, visible, closeReq, closeToTray, stimuli>>
    BY <1>1 DEF winVars
  <1>3. CASE TrayBuilds
    <2>1. mail' = mail /\ TrayStarts
      BY <1>3 DEF TrayBuilds
    <2>0. thread \in {"starting", "published"} /\ tid \in BOOLEAN
      BY <2>1 DEF TrayStarts, ShellInv, ShellTyped
    <2>2. ThreadTold' /\ thread' \in {"published", "failed", "running"} /\ tid' \in BOOLEAN
      <3>1. CASE thread = "starting" /\ thread' = "published" /\ tid' = TRUE
        BY <1>1, <1>2, <2>1, <3>1 DEF ShellInv, ThreadTold
      <3>2. CASE thread = "starting" /\ thread' = "failed" /\ tid' = tid
        BY <1>1, <1>2, <2>0, <2>1, <3>2 DEF ShellInv, ThreadTold
      <3>3. CASE thread = "published" /\ thread' = "running" /\ tid' = tid
        BY <1>1, <1>2, <2>0, <2>1, <3>3 DEF ShellInv, ThreadTold
      <3> QED BY <2>1, <3>1, <3>2, <3>3 DEF TrayStarts
    <2>3. IconTold'
      BY <1>1, <1>2, <2>1 DEF TrayStarts, ShellInv, IconTold
    <2>4. ShellTypeOK' /\ ShellTyped' /\ Revealed(w')
      <3>1. thread' \in {"none", "starting", "published", "running", "failed", "ended"}
        BY <2>2
      <3>2. Revealed(w)'
        BY <1>2 DEF ShellInv, Revealed
      <3>3. ShellTyped'
        BY <1>1, <1>2, <2>2 DEF ShellInv, ShellTyped
      <3>4. ShellTypeOK'
        BY <1>1, <1>2, <2>1, <3>1 DEF ShellInv, ShellTypeOK
      <3> QED BY <1>2, <3>2, <3>3, <3>4
    <2> QED BY <2>2, <2>3, <2>4 DEF ShellInv
  <1>4. CASE TrayMessage
    BY <1>1, <1>2, <1>4 DEF TrayMessage, ShellInv, ShellTypeOK, ShellTyped, ThreadTold, IconTold, Revealed
  <1> QED BY <1>3, <1>4 DEF TrayThread

LEMMA UsersKeep ==
    ASSUME ShellInv, (\E a \in {OPEN, EXIT} : Signal(a)) \/ UserCloses \/ UserTogglesTray
    PROVE  ShellInv'
  <1>1. /\ stimuli' = stimuli + 1 /\ stimuli < MaxEvents /\ frame' = frame /\ visible' = visible
        /\ UNCHANGED trayVars
    BY DEF Signal, UserCloses, UserTogglesTray, Event
  <1>2. stimuli' \in 0..MaxEvents
    BY <1>1, ShellAssumption DEF ShellInv, ShellTypeOK
  <1>3. UNCHANGED <<tray, lastVisible, thread, desired, tid, mail, icon>>
    BY <1>1 DEF trayVars
  <1>4. Revealed(w') /\ w'.tell = w.tell
    <2> DEFINE u(a) == [w EXCEPT !.repaint = TRUE, !.asked = @ \/ a = OPEN]
               v == [w EXCEPT !.repaint = TRUE]
    <2>1. ASSUME NEW a PROVE u(a) \in Natives /\ u(a).cloak = w.cloak /\ u(a).owed = w.owed /\ u(a).tell = w.tell
      BY DEF ShellInv, Revealed, Natives
    <2>2. v \in Natives /\ v.cloak = w.cloak /\ v.owed = w.owed /\ v.tell = w.tell
      BY DEF ShellInv, Revealed, Natives
    <2>3. w' = w \/ w' = v \/ \E a \in {OPEN, EXIT} : w' = u(a)
      BY DEF Signal, UserCloses, UserTogglesTray
    <2> HIDE DEF u, v
    <2> QED BY <2>1, <2>2, <2>3 DEF ShellInv, Revealed
  <1>5. action' \in 0..2 /\ closeReq' \in BOOLEAN /\ closeToTray' \in BOOLEAN
    <2>1. action \in 0..2 /\ closeReq \in BOOLEAN /\ closeToTray \in BOOLEAN
      BY DEF ShellInv, ShellTypeOK, ShellTyped
    <2>2. CASE \E a \in {OPEN, EXIT} : Signal(a)
      <3>1. PICK a \in {OPEN, EXIT} : Signal(a)
        BY <2>2
      <3>2. action' = (IF action > a THEN action ELSE a) /\ closeReq' = closeReq /\ closeToTray' = closeToTray
        BY <3>1 DEF Signal, Raised, Larger
      <3>3. a \in 0..2
        BY DEF OPEN, EXIT
      <3> QED BY <2>1, <3>2, <3>3
    <2>3. CASE UserCloses
      BY <2>1, <2>3 DEF UserCloses
    <2>4. CASE UserTogglesTray
      BY <2>1, <2>4 DEF UserTogglesTray
    <2> QED BY <2>2, <2>3, <2>4
  <1>6. ShellTypeOK' /\ ShellTyped'
    BY <1>1, <1>2, <1>3, <1>4, <1>5, RevealedTyped DEF ShellInv, ShellTypeOK, ShellTyped
  <1>7. ThreadTold' /\ IconTold'
    BY <1>1, <1>3, <1>4 DEF ShellInv, ThreadTold, IconTold
  <1> QED BY <1>4, <1>6, <1>7 DEF ShellInv

LEMMA ShellStep == ASSUME ShellInv, [ShellNext]_shellVars PROVE ShellInv'
  <1>1. CASE UNCHANGED shellVars
    BY <1>1 DEF shellVars, winVars, trayVars, ShellInv, ShellTypeOK, ShellTyped, ThreadTold, IconTold, Revealed
  <1> QED BY <1>1, LogicKeeps, WindowKeeps, PostsKeep, ExitsKeep, TrayKeeps, UsersKeep, Zenon DEF ShellNext, UiThread

\* Up to the exit, however the start of the tray thread, frames, requests and changes
\* of the setting interleave: once no message is under way the icon is what the UI
\* thread last wanted, and the window is cloaked exactly as long as frames are owed.
\* (tray_thread_main, TrayShell::set_visible, finish_restore)
THEOREM ShellIsSafe == ShellSpec => ShellSafe
  <1>1. ShellInit => ShellInv
    BY ShellInitInv
  <1>2. ShellInv /\ [ShellNext]_shellVars => ShellInv'
    BY ShellStep
  <1>3. ShellInv => ShellTypeOK /\ IconFollows
    BY DEF ShellInv, IconTold, IconFollows
  <1> QED BY <1>1, <1>2, <1>3, PTL DEF ShellSpec, ShellSafe

-----------------------------------------------------------------------------
(* The Services, Startup and Users pages.                                   *)

Lists == [on : BOOLEAN, has : BOOLEAN, fresh : BOOLEAN]
FetchJobs == [at : {"idle", "queued", "listed", "derived", "published", "lost"}, on : BOOLEAN, has : BOOLEAN]
WriteJobs == [at : {"none", "asked", "queued", "done", "failed", "ending"}, want : BOOLEAN]

\* A confirmation is about the control that was asked for last.
PagesTyped ==
    /\ page \in {"services", "startup", "users"}
    /\ cache \in Lists \cup {NoList} /\ fetch \in FetchJobs /\ writes \in [Jobs -> WriteJobs]
    /\ item \in BOOLEAN /\ sys \in BOOLEAN /\ busy \in BOOLEAN
    /\ controls \in 0..MaxControls /\ (parked # NoList => controls \in Jobs)
    /\ draw \in {"out", "targets", "rows", "clearing"} /\ older \in {"no", "targets", "list"}

\* The rows of the Startup page are those of the list, which the frame holds.
RowsAreList == (page = "startup" /\ draw = "rows") => (cache # NoList /\ cache.on = item)

\* The one control of a service: it waits exactly as long as the list is to be
\* cleared before its thread starts. (dispatch_control)
TheControl(j) ==
    /\ writes[j].at # "none" /\ \A i \in Jobs : i # j => writes[i].at = "none"
    /\ draw = "clearing" <=> writes[j].at = "asked"
ServiceControlled ==
    page = "services" =>
      /\ busy => \E j \in Jobs : TheControl(j)
      /\ ~busy => draw # "clearing" /\ \A j \in Jobs : writes[j].at = "none"

PagesInv == PagesTyped /\ RowsAreList /\ ServiceControlled

\* The safety part of PagesHonest.
PagesSafe == []PagesTypeOK /\ []OneControl /\ FailureTakenBack

LEMMA PagesInitInv == ASSUME PagesInit PROVE PagesInv
  <1>1. MaxControls \in Nat
    BY PagesAssumption
  <1>2. fetch \in FetchJobs
    BY DEF PagesInit, Idle, FetchJobs
  <1>3. writes \in [Jobs -> WriteJobs] /\ \A j \in Jobs : writes[j].at = "none"
    BY DEF PagesInit, WriteJobs
  <1>4. cache = NoList /\ parked = NoList /\ draw = "out" /\ ~busy
    BY DEF PagesInit
  <1>5. PagesTyped
    <2>1. page \in {"services", "startup", "users"} /\ sys \in BOOLEAN /\ item = FALSE /\ older = "no"
          /\ controls = 0 /\ busy = FALSE
      BY DEF PagesInit
    <2>2. controls \in 0..MaxControls
      BY <1>1, <2>1
    <2>3. cache \in Lists \cup {NoList} /\ (parked # NoList => controls \in Jobs)
      BY <1>4
    <2>4. draw \in {"out", "targets", "rows", "clearing"} /\ older \in {"no", "targets", "list"}
      BY <1>4, <2>1
    <2>5. item \in BOOLEAN /\ busy \in BOOLEAN
      BY <2>1
    <2> QED BY <1>2, <1>3, <2>1, <2>2, <2>3, <2>4, <2>5, Zenon DEF PagesTyped
  <1>6. RowsAreList /\ ServiceControlled
    BY <1>3, <1>4 DEF RowsAreList, ServiceControlled
  <1> QED BY <1>5, <1>6 DEF PagesInv

\* What the invariant says of the type and of the controls.
LEMMA PagesInvTells == ASSUME PagesInv PROVE PagesTypeOK /\ OneControl
  <1>1. PagesTypeOK
    BY DEF PagesInv, PagesTyped, RowsAreList, PagesTypeOK, Lists, FetchJobs
  <1>2. OneControl
    <2> DEFINE running == {j \in Jobs : writes[j].at # "none"}
    <2>1. ASSUME page = "services" PROVE (busy = (running # {})) /\ \A i, j \in running : i = j
      <3>1. CASE busy
        <4>1. PICK j \in Jobs : TheControl(j)
          BY <2>1, <3>1 DEF PagesInv, ServiceControlled
        <4>2. running = {j}
          BY <4>1 DEF TheControl
        <4> HIDE DEF running
        <4>3. (running # {}) = TRUE /\ busy = TRUE
          BY <3>1, <4>2 DEF PagesInv, PagesTyped
        <4> QED BY <4>2, <4>3
      <3>2. CASE ~busy
        <4>1. running = {}
          BY <2>1, <3>2 DEF PagesInv, ServiceControlled
        <4> HIDE DEF running
        <4>2. (running # {}) = FALSE /\ busy = FALSE
          BY <3>2, <4>1 DEF PagesInv, PagesTyped
        <4> QED BY <4>1, <4>2
      <3> QED BY <3>1, <3>2
    <2> QED BY <2>1, Zenon DEF OneControl
  <1> QED BY <1>1, <1>2

\* A step of the fetch, of the frame or of time touches no control.
LEMMA FetchesKeep ==
    ASSUME PagesInv, Fetches \/ Expire \/ (\E accepted \in BOOLEAN : FrameBegins(accepted)) \/ RowsBegin \/ RowsEnd \/ RefreshNow
    PROVE  PagesInv' /\ writes' = writes
  <1>1. UNCHANGED <<page, sys, parked, busy, writes, controls>>
    BY DEF Fetches, FetchLists, FetchTargets, FetchPublishes, FetchEnds, Expire, FrameBegins, RowsBegin, RowsEnd, RefreshNow
  <1>2. fetch' \in FetchJobs
    <2>1. fetch \in FetchJobs /\ sys \in BOOLEAN
      BY DEF PagesInv, PagesTyped
    <2>2. Idle \in FetchJobs /\ [Idle EXCEPT !.at = "queued"] \in FetchJobs
      BY DEF Idle, FetchJobs
    <2>3. CASE FetchLists
      BY <2>1, <2>3 DEF FetchLists, FetchJobs
    <2>4. CASE FetchTargets \/ FetchPublishes \/ FetchEnds
      BY <2>1, <2>2, <2>4 DEF FetchTargets, FetchPublishes, FetchEnds, FetchJobs
    <2>5. CASE \E accepted \in BOOLEAN : FrameBegins(accepted)
      BY <2>1, <2>2, <2>5 DEF FrameBegins, EnsureFresh, FetchRefused
    <2>6. CASE Expire \/ RowsBegin \/ RowsEnd \/ RefreshNow
      BY <2>1, <2>2, <2>6 DEF Expire, RowsBegin, RowsEnd, RefreshNow
    <2> QED BY <2>3, <2>4, <2>5, <2>6 DEF Fetches
  <1>3. cache' \in Lists \cup {NoList}
    <2>1. cache \in Lists \cup {NoList} /\ fetch.on \in BOOLEAN /\ fetch.has \in BOOLEAN
      BY DEF PagesInv, PagesTyped, FetchJobs
    <2>2. CASE FetchPublishes
      BY <2>1, <2>2 DEF FetchPublishes, Lists
    <2>3. CASE Expire
      BY <2>1, <2>3 DEF Expire, Lists
    <2>4. CASE RefreshNow
      BY <2>4 DEF RefreshNow
    <2>5. CASE cache' = cache
      BY <2>1, <2>5
    <2> QED BY <2>2, <2>3, <2>4, <2>5 DEF Fetches, FetchLists, FetchTargets, FetchEnds, FrameBegins, RowsBegin, RowsEnd
  <1>4. draw' \in {"out", "targets", "rows", "clearing"} /\ older' \in {"no", "targets", "list"}
    BY DEF PagesInv, PagesTyped, Fetches, FetchLists, FetchTargets, FetchPublishes, FetchEnds, Expire, FrameBegins, RowsBegin, RowsEnd, RefreshNow
  <1>5. draw' = "clearing" <=> draw = "clearing"
    BY DEF Fetches, FetchLists, FetchTargets, FetchPublishes, FetchEnds, Expire, FrameBegins, RowsBegin, RowsEnd, RefreshNow
  <1>6. item' \in BOOLEAN
    <2>1. CASE item' = item
      BY <2>1 DEF PagesInv, PagesTyped
    <2>2. CASE RowsBegin /\ item' # item
      BY <2>2 DEF RowsBegin, Has, PagesInv, PagesTyped, Lists
    <2> QED BY <2>1, <2>2 DEF Fetches, FetchLists, FetchTargets, FetchPublishes, FetchEnds, Expire, FrameBegins, RowsEnd, RefreshNow
  <1>7. RowsAreList'
    <2>1. SUFFICES ASSUME page' = "startup", draw' = "rows" PROVE cache' # NoList /\ cache'.on = item'
      BY DEF RowsAreList
    <2>2. CASE RowsBegin
      BY <2>1, <2>2 DEF RowsBegin, Has
    <2>3. CASE Fetches \/ Expire
      <3>1. draw = "rows" /\ page = "startup" /\ item' = item
        BY <1>1, <2>1, <2>3 DEF Fetches, FetchLists, FetchTargets, FetchPublishes, FetchEnds, Expire
      <3>2. Locked
        BY <3>1 DEF Locked
      <3>3. cache' = cache
        BY <2>3, <3>2 DEF Fetches, FetchLists, FetchTargets, FetchPublishes, FetchEnds, Expire
      <3> QED BY <3>1, <3>3 DEF PagesInv, RowsAreList
    <2> QED BY <2>1, <2>2, <2>3 DEF FrameBegins, RowsEnd, RefreshNow
  <1>8. PagesTyped'
    BY <1>1, <1>2, <1>3, <1>4, <1>6 DEF PagesInv, PagesTyped
  <1>9. ServiceControlled'
    BY <1>1, <1>5 DEF PagesInv, ServiceControlled, TheControl
  <1> QED BY <1>1, <1>7, <1>8, <1>9 DEF PagesInv

\* Setting one job.
LEMMA JobSet ==
    ASSUME writes \in [Jobs -> WriteJobs], NEW n \in Jobs, NEW r \in WriteJobs
    PROVE  /\ [writes EXCEPT ![n] = r] \in [Jobs -> WriteJobs]
           /\ [writes EXCEPT ![n] = r][n] = r
           /\ \A i \in Jobs : i # n => [writes EXCEPT ![n] = r][i] = writes[i]
  OBVIOUS

\* u is writes with job n moved on.
JobMoved(u, n, at) ==
    /\ u \in [Jobs -> WriteJobs] /\ u[n].at = at
    /\ \A i \in Jobs : i # n => u[i] = writes[i]

LEMMA JobMoves ==
    ASSUME writes \in [Jobs -> WriteJobs], NEW n \in Jobs, NEW at \in {"none", "done", "failed", "ending"}
    PROVE  JobMoved([writes EXCEPT ![n].at = at], n, at)
  <1>1. [writes[n] EXCEPT !.at = at] \in WriteJobs /\ [writes[n] EXCEPT !.at = at].at = at
    BY DEF WriteJobs
  <1>2. [writes EXCEPT ![n].at = at] = [writes EXCEPT ![n] = [writes[n] EXCEPT !.at = at]]
    OBVIOUS
  <1> QED BY <1>1, <1>2, JobSet DEF JobMoved

\* What the user asks for.
LEMMA ToggleKeeps == ASSUME PagesInv, ToggleStartup PROVE PagesInv' /\ \A j \in Jobs : writes[j].at = "failed" => writes'[j].at # "ending"
  <1>1. /\ page = "startup" /\ draw = "rows" /\ controls < MaxControls /\ controls' = controls + 1
        /\ UNCHANGED <<page, sys, fetch, draw, older, parked, busy>>
        /\ \/ Starts(~item) /\ cache' = [cache EXCEPT !.on = ~item] /\ item' = ~item
           \/ UNCHANGED <<writes, cache, item>>
    BY DEF ToggleStartup, Asks
  <1>2. controls + 1 \in Jobs /\ controls' \in 0..MaxControls /\ controls' \in Jobs
    BY <1>1, PagesAssumption DEF PagesInv, PagesTyped, Jobs
  <1>3. cache \in Lists /\ cache.on = item /\ item \in BOOLEAN /\ writes \in [Jobs -> WriteJobs]
    BY <1>1 DEF PagesInv, PagesTyped, RowsAreList
  <1>4. CASE Starts(~item) /\ cache' = [cache EXCEPT !.on = ~item] /\ item' = ~item
    <2>1. cache' \in Lists /\ cache'.on = item' /\ item' \in BOOLEAN
      BY <1>3, <1>4 DEF Lists
    <2>2. cache' # NoList
      BY <2>1, PagesAssumption DEF Lists
    <2>3. [at |-> "queued", want |-> ~item] \in WriteJobs
      BY <1>3 DEF WriteJobs
    <2>4. writes' = [writes EXCEPT ![controls + 1] = [at |-> "queued", want |-> ~item]]
      BY <1>4 DEF Starts
    <2>5. /\ writes' \in [Jobs -> WriteJobs] /\ writes'[controls + 1] = [at |-> "queued", want |-> ~item]
          /\ \A i \in Jobs : i # controls + 1 => writes'[i] = writes[i]
      BY <1>2, <1>3, <2>3, <2>4, JobSet
    <2>6. \A j \in Jobs : writes[j].at = "failed" => writes'[j].at # "ending"
      BY <2>5
    <2> QED BY <1>1, <1>2, <2>1, <2>2, <2>5, <2>6 DEF PagesInv, PagesTyped, RowsAreList, ServiceControlled
  <1>5. CASE UNCHANGED <<writes, cache, item>>
    BY <1>1, <1>2, <1>5 DEF PagesInv, PagesTyped, RowsAreList, ServiceControlled
  <1> QED BY <1>1, <1>4, <1>5

LEMMA ParkKeeps == ASSUME PagesInv, Park \/ Cancel PROVE PagesInv' /\ writes' = writes
  <1>1. UNCHANGED <<page, sys, cache, fetch, older, item, busy, writes>> /\ draw' = "out" /\ draw # "clearing"
    BY DEF Park, Cancel
  <1>2. controls' \in 0..MaxControls /\ (parked' # NoList => controls' \in Jobs)
    BY PagesAssumption DEF Park, Cancel, Asks, PagesInv, PagesTyped, Jobs
  <1> QED BY <1>1, <1>2 DEF PagesInv, PagesTyped, RowsAreList, ServiceControlled, TheControl

\* A control of a service that begins is the only one, and waits for the list.
LEMMA DispatchKeeps ==
    ASSUME PagesInv, page = "services", draw # "clearing", NEW want \in BOOLEAN, NEW n \in Jobs,
           DispatchService(want, n), page' = page, parked' \in {parked, NoList}, controls' \in Jobs,
           UNCHANGED <<sys, cache, fetch, older, item>>
    PROVE  PagesInv' /\ \A j \in Jobs : writes[j].at = "failed" => writes'[j].at # "ending"
  <1>1. writes \in [Jobs -> WriteJobs] /\ controls' \in 0..MaxControls
    BY PagesAssumption DEF PagesInv, PagesTyped, Jobs
  <1>2. CASE ~busy /\ busy' = TRUE /\ writes' = [writes EXCEPT ![n] = [at |-> "asked", want |-> want]] /\ draw' = "clearing"
    <2>1. [at |-> "asked", want |-> want] \in WriteJobs
      BY DEF WriteJobs
    <2>2. /\ writes' \in [Jobs -> WriteJobs] /\ writes'[n] = [at |-> "asked", want |-> want]
          /\ \A i \in Jobs : i # n => writes'[i] = writes[i]
      BY <1>1, <1>2, <2>1, JobSet
    <2>3. \A i \in Jobs : writes[i].at = "none"
      BY <1>2 DEF PagesInv, ServiceControlled
    <2>4. TheControl(n)'
      BY <1>2, <2>2, <2>3 DEF TheControl
    <2> QED BY <1>1, <1>2, <2>2, <2>3, <2>4 DEF PagesInv, PagesTyped, RowsAreList, ServiceControlled
  <1>3. CASE UNCHANGED <<busy, writes, draw>>
    BY <1>1, <1>3 DEF PagesInv, PagesTyped, RowsAreList, ServiceControlled, TheControl
  <1> QED BY <1>2, <1>3 DEF DispatchService, Begin

LEMMA StartKeeps == ASSUME PagesInv, StartService PROVE PagesInv' /\ \A j \in Jobs : writes[j].at = "failed" => writes'[j].at # "ending"
  <1>1. /\ page = "services" /\ draw = "rows" /\ controls < MaxControls /\ controls' = controls + 1
        /\ DispatchService(TRUE, controls + 1) /\ UNCHANGED <<page, sys, cache, fetch, older, item, parked>>
    BY DEF StartService, Asks
  <1>2. controls + 1 \in Jobs /\ TRUE \in BOOLEAN
    BY <1>1, PagesAssumption DEF PagesInv, PagesTyped, Jobs
  <1> QED BY <1>1, <1>2, DispatchKeeps

LEMMA ConfirmKeeps == ASSUME PagesInv, Confirm PROVE PagesInv' /\ \A j \in Jobs : writes[j].at = "failed" => writes'[j].at # "ending"
  <1>1. /\ parked # NoList /\ draw = "out" /\ parked' = NoList
        /\ UNCHANGED <<page, sys, cache, fetch, older, item, controls>>
    BY DEF Confirm
  <1>2. controls \in Jobs /\ FALSE \in BOOLEAN /\ writes \in [Jobs -> WriteJobs]
    BY <1>1 DEF PagesInv, PagesTyped
  <1>3. CASE page = "services" /\ DispatchService(FALSE, controls)
    BY <1>1, <1>2, <1>3, DispatchKeeps
  <1>4. CASE page = "users" /\ writes' = [writes EXCEPT ![controls] = [at |-> "queued", want |-> FALSE]] /\ UNCHANGED <<busy, draw>>
    <2>1. [at |-> "queued", want |-> FALSE] \in WriteJobs
      BY DEF WriteJobs
    <2>2. /\ writes' \in [Jobs -> WriteJobs] /\ writes'[controls] = [at |-> "queued", want |-> FALSE]
          /\ \A i \in Jobs : i # controls => writes'[i] = writes[i]
      BY <1>2, <1>4, <2>1, JobSet
    <2>3. \A j \in Jobs : writes[j].at = "failed" => writes'[j].at # "ending"
      BY <2>2
    <2> QED BY <1>1, <1>4, <2>2, <2>3 DEF PagesInv, PagesTyped, RowsAreList, ServiceControlled
  <1> QED BY <1>3, <1>4 DEF Confirm

LEMMA ClearKeeps == ASSUME PagesInv, ClearList PROVE PagesInv' /\ \A j \in Jobs : writes[j].at = "failed" => writes'[j].at # "ending"
  <1>1. PICK started \in BOOLEAN :
          /\ draw = "clearing" /\ cache' = NoList /\ draw' = "out" /\ busy' = started
          /\ writes' = [j \in Jobs |-> IF writes[j].at # "asked" THEN writes[j]
                                       ELSE [writes[j] EXCEPT !.at = IF started THEN "queued" ELSE "none"]]
          /\ UNCHANGED <<page, sys, fetch, older, item, parked, controls>>
    BY DEF ClearList
  <1>2. writes \in [Jobs -> WriteJobs]
    BY DEF PagesInv, PagesTyped
  <1>3. ASSUME NEW j \in Jobs
        PROVE  /\ writes'[j] \in WriteJobs
               /\ writes[j].at # "asked" => writes'[j] = writes[j]
               /\ writes[j].at = "asked" => writes'[j].at = IF started THEN "queued" ELSE "none"
    BY <1>1, <1>2 DEF WriteJobs
  <1>4. writes' \in [Jobs -> WriteJobs]
    BY <1>1, <1>3
  <1>5. \A j \in Jobs : writes[j].at = "failed" => writes'[j].at # "ending"
    BY <1>3
  <1>6. ServiceControlled'
    <2>1. SUFFICES ASSUME page = "services"
                   PROVE  /\ started => \E j \in Jobs : TheControl(j)'
                          /\ ~started => \A j \in Jobs : writes'[j].at = "none"
      BY <1>1 DEF ServiceControlled
    <2>2. PICK j \in Jobs : TheControl(j)
      BY <1>1, <2>1 DEF PagesInv, ServiceControlled, PagesTyped
    <2>3. writes[j].at = "asked" /\ \A i \in Jobs : i # j => writes[i].at = "none"
      BY <1>1, <2>2 DEF TheControl
    <2>4. \A i \in Jobs : i # j => writes'[i].at = "none"
      BY <1>3, <2>3
    <2>5. CASE started
      <3>1. writes'[j].at = "queued"
        BY <1>3, <2>3, <2>5
      <3>2. TheControl(j)'
        BY <1>1, <2>4, <3>1 DEF TheControl
      <3> QED BY <2>5, <3>2
    <2>6. CASE ~started
      <3>1. writes'[j].at = "none"
        BY <1>3, <2>3, <2>6
      <3> QED BY <2>4, <2>6, <3>1
    <2> QED BY <2>5, <2>6
  <1>7. PagesTyped' /\ RowsAreList'
    BY <1>1, <1>4 DEF PagesInv, PagesTyped, RowsAreList
  <1> QED BY <1>5, <1>6, <1>7 DEF PagesInv

\* A job moves on; the write of a switch that failed takes the row back.
LEMMA WritesKeep ==
    ASSUME PagesInv, NEW j \in Jobs, WriteRuns(j) \/ WriteLists(j) \/ WriteEnds(j)
    PROVE  /\ PagesInv'
           /\ \A i \in Jobs : (page = "startup" /\ writes[i].at = "failed" /\ writes'[i].at = "ending" /\ Has)
                => cache'.on = ~writes[i].want
  <1>1. PICK at \in {"none", "done", "failed", "ending"} : writes' = [writes EXCEPT ![j].at = at]
    BY DEF WriteRuns, WriteLists, WriteEnds
  <1>2. writes \in [Jobs -> WriteJobs] /\ writes[j].want \in BOOLEAN /\ cache \in Lists \cup {NoList}
    BY DEF PagesInv, PagesTyped, WriteJobs
  <1>3. /\ writes' \in [Jobs -> WriteJobs] /\ writes'[j].at = at
        /\ \A i \in Jobs : i # j => writes'[i] = writes[i]
    <2>1. JobMoved(writes', j, at)
      BY <1>1, <1>2, JobMoves, Zenon
    <2> QED BY <2>1 DEF JobMoved
  <1>4. UNCHANGED <<page, fetch, draw, older, item, parked, controls>> /\ writes[j].at \notin {"none", "asked"}
    BY DEF WriteRuns, WriteLists, WriteEnds
  <1>5. sys' \in BOOLEAN
    BY <1>2 DEF WriteRuns, WriteLists, WriteEnds, PagesInv, PagesTyped
  <1>6. busy' \in BOOLEAN
    BY DEF WriteRuns, WriteLists, WriteEnds, PagesInv, PagesTyped
  <1>7. cache' \in Lists \cup {NoList} /\ (Locked => cache' = cache)
    <2>1. CASE cache' = cache
      BY <1>2, <2>1
    <2>2. CASE cache' # cache
      <3>1. WriteLists(j)
        BY <2>2 DEF WriteRuns, WriteEnds
      <3>2. ~Locked
        BY <3>1 DEF WriteLists
      <3>3. page \in {"services", "startup", "users"}
        BY DEF PagesInv, PagesTyped
      <3>4. CASE page = "services"
        BY <3>1, <3>2, <3>4 DEF WriteLists
      <3>5. CASE page = "startup"
        <4>1. cache' = [cache EXCEPT !.on = ~writes[j].want] /\ Has
          BY <2>2, <3>1, <3>5 DEF WriteLists, RollBack
        <4>2. cache \in Lists
          BY <1>2, <4>1 DEF Has
        <4> QED BY <1>2, <3>2, <4>1, <4>2 DEF Lists
      <3>6. CASE page = "users"
        BY <2>2, <3>1, <3>6 DEF WriteLists
      <3> QED BY <3>3, <3>4, <3>5, <3>6
    <2> QED BY <2>1, <2>2
  <1>8. RowsAreList'
    <2>1. SUFFICES ASSUME page = "startup", draw = "rows" PROVE cache' # NoList /\ cache'.on = item
      BY <1>4 DEF RowsAreList
    <2>2. cache' = cache
      BY <1>7, <2>1 DEF Locked
    <2> QED BY <2>1, <2>2 DEF PagesInv, RowsAreList
  <1>9. ServiceControlled'
    <2>1. SUFFICES ASSUME page = "services"
                   PROVE  /\ busy' => \E i \in Jobs : TheControl(i)'
                          /\ ~busy' => draw # "clearing" /\ \A i \in Jobs : writes'[i].at = "none"
      BY <1>4 DEF ServiceControlled
    <2>2. busy /\ \E i \in Jobs : TheControl(i)
      BY <1>4, <2>1 DEF PagesInv, ServiceControlled
    <2>3. TheControl(j)
      BY <1>4, <2>2 DEF TheControl
    <2>4. draw # "clearing" /\ \A i \in Jobs : i # j => writes'[i].at = "none"
      BY <1>3, <1>4, <2>3 DEF TheControl
    <2>5. CASE WriteEnds(j)
      <3>1. busy' = FALSE /\ writes'[j].at = "none"
        <4>1. busy' = FALSE /\ writes' = [writes EXCEPT ![j].at = "none"] /\ "none" \in {"none", "done", "failed", "ending"}
          BY <2>5 DEF WriteEnds
        <4>2. JobMoved(writes', j, "none")
          BY <1>2, <4>1, JobMoves, Zenon
        <4> QED BY <4>1, <4>2 DEF JobMoved
      <3> QED BY <2>4, <3>1
    <2>6. CASE WriteRuns(j) \/ WriteLists(j)
      <3>1. busy' = busy
        BY <2>6 DEF WriteRuns, WriteLists
      <3>2. writes'[j].at \in {"done", "failed", "ending"}
        <4>1. PICK now \in {"done", "failed", "ending"} : writes' = [writes EXCEPT ![j].at = now]
          BY <2>6 DEF WriteRuns, WriteLists
        <4>2. JobMoved(writes', j, now)
          <5>1. now \in {"none", "done", "failed", "ending"}
            BY <4>1
          <5> QED BY <1>2, <4>1, <5>1, JobMoves, Zenon
        <4> QED BY <4>1, <4>2 DEF JobMoved
      <3>3. TheControl(j)'
        BY <1>4, <2>4, <3>2 DEF TheControl
      <3> QED BY <2>2, <3>1, <3>3
    <2> QED BY <2>5, <2>6
  <1>10. ASSUME NEW i \in Jobs, page = "startup", writes[i].at = "failed", writes'[i].at = "ending", Has
         PROVE  cache'.on = ~writes[i].want
    <2>1. i = j
      BY <1>3, <1>10
    <2>2. WriteLists(j)
      BY <1>10, <2>1 DEF WriteRuns, WriteEnds
    <2>3. cache' = [cache EXCEPT !.on = ~writes[j].want]
      BY <1>10, <2>1, <2>2 DEF WriteLists, RollBack
    <2>4. cache \in Lists
      BY <1>2, <1>10 DEF Has
    <2> QED BY <2>1, <2>3, <2>4 DEF Lists
  <1>11. PagesTyped'
    BY <1>3, <1>4, <1>5, <1>6, <1>7 DEF PagesInv, PagesTyped
  <1> QED BY <1>8, <1>9, <1>10, <1>11 DEF PagesInv

\* A step keeps the invariant and takes a failed switch back.
LEMMA PagesStep ==
    ASSUME PagesInv, PagesNext
    PROVE  /\ PagesInv'
           /\ \A i \in Jobs : (page = "startup" /\ writes[i].at = "failed" /\ writes'[i].at = "ending" /\ Has)
                => cache'.on = ~writes[i].want
  <1>1. CASE Fetches \/ Expire \/ FrameBegins(TRUE) \/ FrameBegins(FALSE) \/ RowsBegin \/ RowsEnd \/ RefreshNow
    <2>1. PagesInv' /\ writes' = writes
      BY <1>1, FetchesKeep
    <2> QED BY <2>1
  <1>2. CASE Writes
    BY <1>2, WritesKeep DEF Writes
  <1>3. CASE Park \/ Cancel
    <2>1. PagesInv' /\ writes' = writes
      BY <1>3, ParkKeeps
    <2> QED BY <2>1
  <1>4. CASE ToggleStartup
    BY <1>4, ToggleKeeps
  <1>5. CASE StartService
    BY <1>5, StartKeeps
  <1>6. CASE Confirm
    BY <1>6, ConfirmKeeps
  <1>7. CASE ClearList
    BY <1>7, ClearKeeps
  <1> QED BY <1>1, <1>2, <1>3, <1>4, <1>5, <1>6, <1>7 DEF PagesNext, Draws, UserActs

\* Whatever fetches, frames, clears, failing calls and threads that do not start
\* cross, for any number of controls: one service is controlled at a time and the
\* buttons are disabled exactly as long, and a switch that failed is taken back.
\* (dispatch_control, toggle_item)
THEOREM PagesAreSafe == PagesSpec => PagesSafe
  <1>1. PagesInit => PagesInv
    BY PagesInitInv
  <1>2. PagesInv /\ [PagesNext]_pageVars => PagesInv'
    <2>1. ASSUME PagesInv, UNCHANGED pageVars PROVE PagesInv'
      BY <2>1 DEF pageVars, PagesInv, PagesTyped, RowsAreList, ServiceControlled, TheControl
    <2> QED BY <2>1, PagesStep
  <1>3. PagesInv => PagesTypeOK /\ OneControl
    BY PagesInvTells
  <1>4. PagesInv /\ [PagesNext]_pageVars =>
          [\A j \in Jobs : page = "startup" /\ writes[j].at = "failed" /\ writes'[j].at = "ending" /\ Has
             => cache'.on = ~writes[j].want]_pageVars
    BY PagesStep
  <1> QED BY <1>1, <1>2, <1>3, <1>4, PTL DEF PagesSpec, PagesSafe, FailureTakenBack
=============================================================================
