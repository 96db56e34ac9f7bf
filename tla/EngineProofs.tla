---------------------------- MODULE EngineProofs ----------------------------
(***************************************************************************)
(* Machine-checked proofs about the sampling engine of Engine.tla and the  *)
(* UI thread of EngineUi.tla that drives it, for every set of demands,     *)
(* intervals and speeds and every bound on the channel; and about the      *)
(* history that is kept of what was sampled (HistoryStore.tla).            *)
(*                                                                         *)
(* The app history.  Every part of HistoryKept is an invariant of its own, *)
(* or follows from one: the totals follow from what poll_load, observe and *)
(* clear do to them; the whole file from what a temporary file holds       *)
(* between its creation and its renaming; the clean exit from the one save *)
(* that the exit queues, which is followed from the channel through the    *)
(* coalescing writer to the file; the unread history from what the loader  *)
(* has found when the load ends.                                           *)
(***************************************************************************)
EXTENDS EngineUi, HistoryStore, SequenceTheorems, FiniteSetTheorems, TLAPS

-----------------------------------------------------------------------------
(* Type correctness.                                                        *)

\* A queued command that carries an argument carries one of its kind. (EngineCmd)
LEMMA CmdArgs ==
    ASSUME NEW c \in EngineCmd
    PROVE  /\ c.op = "SetDemand" => c.arg \in Demands
           /\ c.op = "SetBackground" => c.arg \in BOOLEAN
           /\ c.op = "SetInterval" => c.arg \in Intervals
  BY DEF EngineCmd

\* The head and the tail of the channel are a command and a channel. (cmd_rx)
LEMMA HeadTail ==
    ASSUME NEW q \in Seq(EngineCmd), q # <<>>
    PROVE  Head(q) \in EngineCmd /\ Tail(q) \in Seq(EngineCmd)
  OBVIOUS

\* Posting a command keeps the channel a sequence of commands. (cmd_tx.send)
LEMMA PostTyped ==
    ASSUME queue \in Seq(EngineCmd), NEW c \in EngineCmd, Post(c)
    PROVE  queue' \in Seq(EngineCmd)
  BY DEF Post

\* The initial states are well typed. (spawn_inner)
LEMMA TypeInit == Init => TypeOK
<1>1. Init => FlagsTyped
      BY DEF Init, FlagsTyped
<1>2. Init => DataTyped
      BY EngineAssumption DEF Init, DataTyped, EngineState, Config
<1> QED BY <1>1, <1>2 DEF TypeOK

\* Every step of the engine thread keeps the flags Boolean. (run_loop)
LEMMA FlagsEngineStep == FlagsTyped /\ EngineStep => FlagsTyped'
<1> SUFFICES ASSUME FlagsTyped, EngineStep PROVE FlagsTyped'
    OBVIOUS
<1> USE DEF FlagsTyped, sharedVars, clientVars
<1>1. CASE ParkedCmd \/ Boot \/ Publish
      BY <1>1 DEF ParkedCmd, Boot, Publish
<1>2. CASE ParkedStop \/ LoopExit
      BY <1>2 DEF ParkedStop, LoopExit, Stop
<1>3. CASE NotifyPublished
      BY <1>3 DEF NotifyPublished, AfterSample
<1>4. CASE SampleUnsupported
      BY <1>4 DEF SampleUnsupported, AfterSample
<1>5. CASE SampleFailed
      BY <1>5 DEF SampleFailed, AfterSample
<1>6. CASE LoopTop \/ WaitTimeout
      BY <1>6 DEF LoopTop, WaitTimeout
<1>7. CASE LoopCmd
      BY <1>7 DEF LoopCmd, OnSetInterval, OnConfig, OnPause, OnResume, OnRequest, Recv
<1> QED BY <1>1, <1>2, <1>3, <1>4, <1>5, <1>6, <1>7 DEF EngineStep

\* Whatever a sample came to, its caller goes on with typed data.
\* (TickHealth::sample and its callers)
LEMMA AfterSampleTyped ==
    ASSUME DataTyped, NEW published, NEW s \in EngineState, NEW w, AfterSample(published, s, w)
    PROVE  DataTyped'
<1>1. pending' \in [demand : Demands \cup {None}, background : BOOLEAN \cup {None}, paused : BOOLEAN]
      BY DEF DataTyped, AfterSample
<1>2. /\ state' \in {"Paused", s} /\ dueAfter' \in {0, interval} /\ elapsed' \in {0, elapsed}
      /\ pc' \in {"wait", "top"} /\ reason' = None /\ call' \in {"answered", "none", call}
      BY DEF AfterSample
<1>3. UNCHANGED <<queue, latest, interval, collector, want>>
      BY DEF AfterSample
<1>4. dueAfter' \in Nat /\ elapsed' \in Nat
      BY <1>2, EngineAssumption DEF DataTyped
<1>5. state' \in EngineState
      BY <1>2 DEF EngineState
<1>6. /\ pc' \in {"parked", "boot", "sampling", "published", "top", "wait", "stopped"}
      /\ reason' \in {"startPaused", "cadence", "refresh", "sampleNow", None}
      /\ call' \in {"idle", "waiting", "answered", "none", "timedOut"}
      BY <1>2 DEF DataTyped
<1> QED BY <1>1, <1>3, <1>4, <1>5, <1>6 DEF DataTyped

\* Every step of the engine thread keeps the data typed. (run_loop)
LEMMA DataEngineStep == DataTyped /\ EngineStep => DataTyped'
<1> SUFFICES ASSUME DataTyped, EngineStep PROVE DataTyped'
    OBVIOUS
<1> USE EngineAssumption DEF DataTyped, EngineState, Config, sharedVars, clientVars
<1>1. CASE ParkedCmd
  <2>1. queue' \in Seq(EngineCmd) /\ Head(queue) \in EngineCmd
        BY <1>1, HeadTail DEF ParkedCmd
  <2>2. pending' \in [demand : Demands \cup {None}, background : BOOLEAN \cup {None}, paused : BOOLEAN]
    <3>1. /\ Head(queue).op = "SetDemand" => Head(queue).arg \in Demands
          /\ Head(queue).op = "SetBackground" => Head(queue).arg \in BOOLEAN
          BY <2>1, CmdArgs
    <3>2. \/ pending' = [pending EXCEPT !.demand = Head(queue).arg] /\ Head(queue).op = "SetDemand"
          \/ pending' = [pending EXCEPT !.background = Head(queue).arg] /\ Head(queue).op = "SetBackground"
          \/ pending' = [pending EXCEPT !.paused = TRUE]
          \/ pending' = [pending EXCEPT !.paused = FALSE]
          \/ pending' = pending
          BY <1>1 DEF ParkedCmd
    <3>0. pending \in [demand : Demands \cup {None}, background : BOOLEAN \cup {None}, paused : BOOLEAN]
          OBVIOUS
    <3> HIDE EngineAssumption DEF DataTyped, EngineState, Config
    <3>3. CASE pending' = [pending EXCEPT !.demand = Head(queue).arg] /\ Head(queue).op = "SetDemand"
          BY <3>0, <3>1, <3>3
    <3>4. CASE pending' = [pending EXCEPT !.background = Head(queue).arg] /\ Head(queue).op = "SetBackground"
          BY <3>0, <3>1, <3>4
    <3>5. CASE pending' = [pending EXCEPT !.paused = TRUE] \/ pending' = [pending EXCEPT !.paused = FALSE]
          BY <3>0, <3>5
    <3> QED BY <3>0, <3>2, <3>3, <3>4, <3>5
  <2>3. interval' \in Intervals
        BY <1>1, <2>1, CmdArgs DEF ParkedCmd
  <2> QED BY <1>1, <2>1, <2>2, <2>3 DEF ParkedCmd
<1>2. CASE ParkedStop
      BY <1>2 DEF ParkedStop, Stop
<1>3. CASE Boot
  <2>1. pending' \in [demand : Demands \cup {None}, background : BOOLEAN \cup {None}, paused : BOOLEAN]
        BY <1>3 DEF Boot
  <2>2. collector' \in Config
        BY <1>3 DEF Boot
  <2>3. /\ pc' \in {"sampling", "top"} /\ elapsed' = 0 /\ dueAfter' = 0 /\ state' = "Running"
        /\ reason' \in {"startPaused", reason}
        BY <1>3 DEF Boot, BeginSample
  <2>4. UNCHANGED <<queue, latest, interval, call, want>>
        BY <1>3 DEF Boot
  <2> QED BY <2>1, <2>2, <2>3, <2>4
<1>4. CASE Publish
      BY <1>4 DEF Publish
<1>5. CASE NotifyPublished
  <2>1. state \in EngineState
        OBVIOUS
  <2> HIDE DEF DataTyped, EngineState
  <2> QED BY <1>5, <2>1, AfterSampleTyped DEF NotifyPublished
<1>6. CASE SampleUnsupported
  <2>1. "Paused" \in EngineState
        OBVIOUS
  <2> HIDE DEF DataTyped, EngineState
  <2> QED BY <1>6, <2>1, AfterSampleTyped DEF SampleUnsupported
<1>7. CASE SampleFailed
  <2>1. state \in EngineState
        OBVIOUS
  <2> HIDE DEF DataTyped, EngineState
  <2> QED BY <1>7, <2>1, AfterSampleTyped DEF SampleFailed
<1>8. CASE LoopTop
      BY <1>8 DEF LoopTop, BeginSample
<1>9. CASE WaitTimeout
      BY <1>9 DEF WaitTimeout
<1>10. CASE LoopCmd
  <2>1. queue' \in Seq(EngineCmd) /\ Head(queue) \in EngineCmd
        BY <1>10, HeadTail DEF LoopCmd, Recv, OnSetInterval, OnConfig, OnPause, OnResume, OnRequest
  <2>2. CASE OnSetInterval
    <3>1. interval' \in Intervals /\ dueAfter' = interval'
          BY <2>1, <2>2, CmdArgs DEF OnSetInterval, Recv
    <3>2. /\ pc' = "top"
          /\ UNCHANGED <<state, latest, reason, pending, collector, elapsed, call, want>>
          BY <2>2 DEF OnSetInterval, Recv
    <3> QED BY <2>1, <3>1, <3>2
  <2>3. CASE OnConfig
    <3>1. collector' \in Config
          BY <2>1, <2>3, CmdArgs DEF OnConfig, Recv
    <3>2. /\ pc' = "top"
          /\ UNCHANGED <<state, latest, interval, reason, pending, elapsed, dueAfter, call, want>>
          BY <2>3 DEF OnConfig, Recv
    <3> QED BY <2>1, <3>1, <3>2
  <2>4. CASE OnPause
        BY <2>1, <2>4 DEF OnPause, Recv
  <2>5. CASE OnResume
        BY <2>1, <2>5 DEF OnResume, Recv
  <2>6. CASE OnRequest
        BY <2>1, <2>6 DEF OnRequest, Recv, BeginSample
  <2> QED BY <1>10, <2>2, <2>3, <2>4, <2>5, <2>6 DEF LoopCmd
<1>11. CASE LoopExit
      BY <1>11 DEF LoopExit, Stop
<1> QED BY <1>1, <1>2, <1>3, <1>4, <1>5, <1>6, <1>7, <1>8, <1>9, <1>10, <1>11 DEF EngineStep

\* What a handle can do, with the arguments of its calls in their types.
LEMMA HandleCases ==
    HandleStep =>
        \/ SendStart \/ SendShutdown \/ RequestRefresh \/ SendInterval \/ SampleNow
        \/ SampleNowTimeout \/ DropHandle
        \/ \E d \in Demands : SetDemand(d)
        \/ \E b \in BOOLEAN : SetBackground(b) \/ SetSpeedPaused(b)
        \/ \E i \in Intervals : WriteInterval(i)
<1>1. Backgrounds \subseteq BOOLEAN
      BY EngineAssumption
<1> QED BY <1>1 DEF HandleStep

\* Every step of a handle keeps the types. (EngineHandle)
LEMMA TypeHandleStep == TypeOK /\ HandleStep => TypeOK'
<1> SUFFICES ASSUME TypeOK, HandleStep PROVE TypeOK'
    OBVIOUS
<1> USE EngineAssumption DEF sharedVars, threadVars
<1>1. FlagsTyped'
      BY DEF TypeOK, FlagsTyped, HandleStep, SendStart, SendShutdown, RequestRefresh, SetDemand,
             SetBackground, SetSpeedPaused, WriteInterval, SendInterval, SampleNow,
             SampleNowTimeout, DropHandle, Send
<1>2. DataTyped
      BY DEF TypeOK
<1>3. CASE SendStart \/ SendShutdown \/ RequestRefresh
  <2>1. queue' \in Seq(EngineCmd)
        BY <1>2, <1>3, PostTyped DEF DataTyped, SendStart, SendShutdown, RequestRefresh, Send, EngineCmd
  <2>2. DataTyped'
        BY <1>2, <1>3, <2>1 DEF DataTyped, SendStart, SendShutdown, RequestRefresh, Send
  <2> QED BY <1>1, <2>2 DEF TypeOK
<1>4. ASSUME NEW d \in Demands, SetDemand(d) PROVE TypeOK'
  <2>1. queue' \in Seq(EngineCmd)
        BY <1>2, <1>4, PostTyped DEF DataTyped, SetDemand, Send, EngineCmd
  <2>2. DataTyped'
    <3>1. want' \in [demand : Demands \cup {None}, background : BOOLEAN \cup {None},
                  paused : BOOLEAN, interval : Intervals, sending : Intervals \cup {None}]
          BY <1>2, <1>4 DEF DataTyped, SetDemand
    <3>2. UNCHANGED <<state, latest, interval, pc, reason, pending, collector, elapsed, dueAfter, call>>
          BY <1>4 DEF SetDemand, Send
    <3> QED BY <1>2, <2>1, <3>1, <3>2 DEF DataTyped
  <2> QED BY <1>1, <2>2 DEF TypeOK
<1>5. ASSUME NEW b \in BOOLEAN, SetBackground(b) \/ SetSpeedPaused(b) PROVE TypeOK'
  <2>1. queue' \in Seq(EngineCmd)
        BY <1>2, <1>5, PostTyped DEF DataTyped, SetBackground, SetSpeedPaused, Send, EngineCmd
  <2>2. DataTyped'
    <3>1. want' \in [demand : Demands \cup {None}, background : BOOLEAN \cup {None},
                  paused : BOOLEAN, interval : Intervals, sending : Intervals \cup {None}]
          BY <1>2, <1>5 DEF DataTyped, SetBackground, SetSpeedPaused
    <3>2. UNCHANGED <<state, latest, interval, pc, reason, pending, collector, elapsed, dueAfter, call>>
          BY <1>5 DEF SetBackground, SetSpeedPaused, Send
    <3> QED BY <1>2, <2>1, <3>1, <3>2 DEF DataTyped
  <2> QED BY <1>1, <2>2 DEF TypeOK
<1>6. ASSUME NEW i \in Intervals, WriteInterval(i) PROVE TypeOK'
  <2>1. DataTyped'
    <3>1. want' \in [demand : Demands \cup {None}, background : BOOLEAN \cup {None},
                  paused : BOOLEAN, interval : Intervals, sending : Intervals \cup {None}]
          BY <1>2, <1>6 DEF DataTyped, WriteInterval
    <3>2. /\ interval' = i
          /\ UNCHANGED <<queue, state, latest, pc, reason, pending, collector, elapsed, dueAfter, call>>
          BY <1>6 DEF WriteInterval
    <3> QED BY <1>2, <1>6, <3>1, <3>2 DEF DataTyped
  <2> QED BY <1>1, <2>1 DEF TypeOK
<1>7. CASE SendInterval
  <2>1. queue' \in Seq(EngineCmd)
        BY <1>2, <1>7, PostTyped DEF DataTyped, SendInterval, EngineCmd
  <2>2. DataTyped'
    <3>1. want' \in [demand : Demands \cup {None}, background : BOOLEAN \cup {None},
                  paused : BOOLEAN, interval : Intervals, sending : Intervals \cup {None}]
          BY <1>2, <1>7 DEF DataTyped, SendInterval
    <3>2. UNCHANGED <<state, latest, interval, pc, reason, pending, collector, elapsed, dueAfter, call>>
          BY <1>7 DEF SendInterval
    <3> QED BY <1>2, <2>1, <3>1, <3>2 DEF DataTyped
  <2> QED BY <1>1, <2>2 DEF TypeOK
<1>8. CASE SampleNow
  <2>1. queue' \in Seq(EngineCmd)
        BY <1>2, <1>8, PostTyped DEF DataTyped, SampleNow, Send, EngineCmd
  <2>2. DataTyped'
        BY <1>2, <1>8, <2>1 DEF DataTyped, SampleNow, Send
  <2> QED BY <1>1, <2>2 DEF TypeOK
<1>9. CASE SampleNowTimeout \/ DropHandle
  <2>1. DataTyped'
        BY <1>2, <1>9 DEF DataTyped, SampleNowTimeout, DropHandle
  <2> QED BY <1>1, <2>1 DEF TypeOK
<1> QED BY <1>3, <1>4, <1>5, <1>6, <1>7, <1>8, <1>9, HandleCases

\* Every step keeps the types. (engine.rs)
LEMMA TypeStep == TypeOK /\ [Next]_vars => TypeOK'
<1> SUFFICES ASSUME TypeOK, [Next]_vars PROVE TypeOK'
    OBVIOUS
<1>1. CASE TimePasses
      BY <1>1 DEF TimePasses, TypeOK, FlagsTyped, DataTyped, sharedVars, clientVars
<1>2. CASE ServeWake
  <2>1. FlagsTyped'
        BY <1>2 DEF ServeWake, TypeOK, FlagsTyped, clientVars
  <2>2. DataTyped'
        BY <1>2 DEF ServeWake, TypeOK, DataTyped, threadVars, clientVars
  <2> QED BY <2>1, <2>2 DEF TypeOK
<1>3. CASE UNCHANGED vars
      BY <1>3 DEF TypeOK, FlagsTyped, DataTyped, vars, sharedVars, threadVars, clientVars
<1> QED BY <1>1, <1>2, <1>3, FlagsEngineStep, DataEngineStep, TypeHandleStep DEF Next, TypeOK

\* The engine, its channel and its handles stay well typed. (engine.rs)
THEOREM TypeCorrect == Spec => []TypeOK
  BY TypeInit, TypeStep, PTL DEF Spec

-----------------------------------------------------------------------------
(* The commands of one kind in a channel, and how they change when one is   *)
(* appended or taken.                                                       *)

Of(ops) == {c \in EngineCmd : c.op \in ops}
Carrying(op, v) == {c \in EngineCmd : c.op = op /\ c.arg = v}
NoneIn(q, K) == \A i \in 1..Len(q) : q[i] \notin K
NewestIn(q, K, G) ==
    \A i \in 1..Len(q) :
        (q[i] \in K /\ \A j \in 1..Len(q) : q[j] \in K => j <= i) => q[i] \in G

\* Appending a command of another kind changes neither the newest command of
\* this kind nor whether there is one. (EngineHandle's sends)
LEMMA AppendOther ==
    ASSUME NEW q \in Seq(EngineCmd), NEW c \in EngineCmd, NEW K, NEW G, c \notin K
    PROVE  /\ NewestIn(q, K, G) => NewestIn(Append(q, c), K, G)
           /\ NoneIn(Append(q, c), K) <=> NoneIn(q, K)
  BY DEF NewestIn, NoneIn

\* An appended command of this kind is the newest. (EngineHandle's sends)
LEMMA AppendSame ==
    ASSUME NEW q \in Seq(EngineCmd), NEW c \in EngineCmd, NEW K, NEW G, c \in K, c \in G
    PROVE  NewestIn(Append(q, c), K, G) /\ ~NoneIn(Append(q, c), K)
  BY DEF NewestIn, NoneIn

\* Element i of the tail is element i + 1 of the channel. (cmd_rx)
LEMMA TailAt ==
    ASSUME NEW q \in Seq(EngineCmd), q # <<>>
    PROVE  /\ Len(Tail(q)) = Len(q) - 1 /\ Len(q) \in Nat \ {0}
           /\ \A i \in 1..Len(Tail(q)) : Tail(q)[i] = q[i + 1]
           /\ Head(q) = q[1]
  OBVIOUS

\* Taking the head keeps the newest command of a kind unless it was the head.
\* (run_loop's recv)
LEMMA TailNewest ==
    ASSUME NEW q \in Seq(EngineCmd), q # <<>>, NEW K, NEW G, NewestIn(q, K, G)
    PROVE  NewestIn(Tail(q), K, G)
<1> SUFFICES ASSUME NEW i \in 1..Len(Tail(q)), Tail(q)[i] \in K,
                    \A j \in 1..Len(Tail(q)) : Tail(q)[j] \in K => j <= i
             PROVE  Tail(q)[i] \in G
    BY DEF NewestIn
<1>1. i + 1 \in 1..Len(q) /\ q[i + 1] \in K
      BY TailAt
<1>2. ASSUME NEW j \in 1..Len(q), q[j] \in K PROVE j <= i + 1
  <2>1. CASE j = 1
        BY <2>1, TailAt
  <2>2. CASE j # 1
    <3>1. j - 1 \in 1..Len(Tail(q))
          BY <2>2, TailAt
    <3>2. Tail(q)[j - 1] = q[j]
          BY <3>1, TailAt
    <3>3. j - 1 <= i
          BY <1>2, <3>1, <3>2
    <3> QED BY <3>3
  <2> QED BY <2>1, <2>2, TailAt
<1> QED BY <1>1, <1>2, TailAt DEF NewestIn

\* Taking a head of another kind leaves the commands of this kind. (recv)
LEMMA TailOther ==
    ASSUME NEW q \in Seq(EngineCmd), q # <<>>, NEW K, Head(q) \notin K
    PROVE  NoneIn(Tail(q), K) <=> NoneIn(q, K)
<1>1. ASSUME NoneIn(Tail(q), K), NEW i \in 1..Len(q) PROVE q[i] \notin K
  <2>1. CASE i = 1
        BY <2>1, TailAt
  <2>2. CASE i # 1
    <3>1. i - 1 \in 1..Len(Tail(q)) /\ Tail(q)[i - 1] = q[i]
          BY <2>2, TailAt
    <3> QED BY <1>1, <3>1 DEF NoneIn
  <2> QED BY <2>1, <2>2
<1>2. ASSUME NoneIn(q, K), NEW i \in 1..Len(Tail(q)) PROVE Tail(q)[i] \notin K
  <2>1. i + 1 \in 1..Len(q)
        BY TailAt
  <2> QED BY <1>2, <2>1, TailAt DEF NoneIn
<1> QED BY <1>1, <1>2 DEF NoneIn

\* A head that was the only command of its kind was the newest. (recv)
LEMMA HeadNewest ==
    ASSUME NEW q \in Seq(EngineCmd), q # <<>>, NEW K, NEW G, NewestIn(q, K, G),
           Head(q) \in K, NoneIn(Tail(q), K)
    PROVE  Head(q) \in G
<1>1. ASSUME NEW j \in 1..Len(q), q[j] \in K PROVE j <= 1
  <2>1. CASE j # 1
    <3>1. j - 1 \in 1..Len(Tail(q)) /\ Tail(q)[j - 1] = q[j]
          BY <2>1, TailAt
    <3> QED BY <1>1, <3>1 DEF NoneIn
  <2> QED BY <2>1
<1>2. 1 \in 1..Len(q) /\ q[1] = Head(q)
      BY TailAt
<1> QED BY <1>1, <1>2 DEF NewestIn

-----------------------------------------------------------------------------
(* The newest configuration wins.                                           *)

SettledOn(q, op, held, wanted) ==
    /\ NewestIn(q, Of({op}), Carrying(op, wanted))
    /\ NoneIn(q, Of({op})) => held = wanted

\* The inductive invariant: what NewestConfigWins says, and that an interval
\* written but not yet sent is the one asked for last.
ConfigInv ==
    /\ want.sending \in {None, want.interval}
    /\ Live => /\ SettledOn(queue, "SetDemand", HeldDemand, want.demand)
               /\ SettledOn(queue, "SetBackground", HeldBackground, want.background)
               /\ want.sending = None => SettledOn(queue, "SetInterval", interval, want.interval)

\* A command of another kind leaves a setting settled. (EngineHandle's sends)
LEMMA SettledAppendOther ==
    ASSUME NEW q \in Seq(EngineCmd), NEW c \in EngineCmd, NEW op, NEW held, NEW wanted,
           c.op # op, SettledOn(q, op, held, wanted)
    PROVE  SettledOn(Append(q, c), op, held, wanted)
  BY AppendOther DEF SettledOn, Of

\* A command sent with the value just asked for settles it. (EngineHandle's sends)
LEMMA SettledAppendSame ==
    ASSUME NEW q \in Seq(EngineCmd), NEW c \in EngineCmd, NEW op, NEW held, NEW wanted,
           c.op = op, c.arg = wanted
    PROVE  SettledOn(Append(q, c), op, held, wanted)
<1>1. c \in Of({op}) /\ c \in Carrying(op, wanted)
      BY DEF Of, Carrying
<1> QED BY <1>1, AppendSame DEF SettledOn

\* Taking a command of another kind leaves a setting settled. (run_loop's recv)
LEMMA SettledTailOther ==
    ASSUME NEW q \in Seq(EngineCmd), q # <<>>, NEW op, NEW held, NEW wanted,
           Head(q).op # op, SettledOn(q, op, held, wanted)
    PROVE  SettledOn(Tail(q), op, held, wanted)
<1>1. Head(q) \notin Of({op})
      BY DEF Of
<1> QED BY <1>1, TailNewest, TailOther DEF SettledOn

\* Taking a command and holding its value leaves a setting settled. (recv)
LEMMA SettledTailSame ==
    ASSUME NEW q \in Seq(EngineCmd), q # <<>>, NEW op, NEW held, NEW wanted,
           Head(q).op = op, SettledOn(q, op, held, wanted)
    PROVE  SettledOn(Tail(q), op, Head(q).arg, wanted)
<1>1. Head(q) \in Of({op})
      BY HeadTail DEF Of
<1>2. NewestIn(Tail(q), Of({op}), Carrying(op, wanted))
      BY TailNewest DEF SettledOn
<1>3. NoneIn(Tail(q), Of({op})) => Head(q) \in Carrying(op, wanted)
      BY <1>1, HeadNewest DEF SettledOn
<1> QED BY <1>2, <1>3 DEF SettledOn, Carrying

\* The invariant holds before anything is sent. (spawn_inner)
LEMMA ConfigInit == Init => ConfigInv
  BY DEF Init, ConfigInv, Live, HeldDemand, HeldBackground, SettledOn, NewestIn, NoneIn

\* A send keeps the invariant: it is either of another kind, or carries what
\* is asked for from now on. (EngineHandle)
LEMMA ConfigHandleStep == TypeOK /\ ConfigInv /\ HandleStep => ConfigInv'
<1> SUFFICES ASSUME TypeOK, ConfigInv, HandleStep PROVE ConfigInv'
    OBVIOUS
<1>0. /\ queue \in Seq(EngineCmd)
      /\ want \in [demand : Demands \cup {None}, background : BOOLEAN \cup {None},
                   paused : BOOLEAN, interval : Intervals, sending : Intervals \cup {None}]
      /\ want.sending \in {None, want.interval}
      BY DEF TypeOK, DataTyped, ConfigInv
<1>1. UNCHANGED <<pc, pending, collector>>
      BY DEF HandleStep, SendStart, SendShutdown, RequestRefresh, SetDemand, SetBackground,
             SetSpeedPaused, WriteInterval, SendInterval, SampleNow, SampleNowTimeout,
             DropHandle, Send, threadVars
<1>2. HeldDemand' = HeldDemand /\ HeldBackground' = HeldBackground /\ Live' = Live
      BY <1>1 DEF HeldDemand, HeldBackground, Live
<1>3. ASSUME NEW c \in EngineCmd, Post(c), Live PROVE queue' = Append(queue, c)
      BY <1>3 DEF Post, Live
<1> USE DEF ConfigInv
<1>4. CASE SendStart \/ SendShutdown \/ RequestRefresh \/ SampleNow
  <2>1. PICK op \in {"Start", "Shutdown", "Refresh", "SampleNow"} : Post([op |-> op])
        BY <1>4 DEF SendStart, SendShutdown, RequestRefresh, SampleNow, Send
  <2>2. UNCHANGED <<want, interval>>
        BY <1>4 DEF SendStart, SendShutdown, RequestRefresh, SampleNow, Send, sharedVars
  <2>3. [op |-> op] \in EngineCmd
        BY DEF EngineCmd
  <2>4. CASE Live
    <3>1. queue' = Append(queue, [op |-> op])
          BY <1>3, <2>1, <2>3, <2>4
    <3>2. SettledOn(queue', "SetDemand", HeldDemand', want'.demand)
          BY <1>0, <1>2, <2>1, <2>3, <2>2, <2>4, <3>1, SettledAppendOther
    <3>3. SettledOn(queue', "SetBackground", HeldBackground', want'.background)
          BY <1>0, <1>2, <2>1, <2>3, <2>2, <2>4, <3>1, SettledAppendOther
    <3>4. (want'.sending = None => SettledOn(queue', "SetInterval", interval', want'.interval))
          BY <1>0, <1>2, <2>1, <2>3, <2>2, <2>4, <3>1, SettledAppendOther
    <3> QED BY <1>0, <2>2, <3>2, <3>3, <3>4
  <2> QED BY <1>0, <1>2, <2>2, <2>4
<1>5. ASSUME NEW b \in BOOLEAN, SetSpeedPaused(b) PROVE ConfigInv'
  <2>1. PICK op \in {"Pause", "Resume"} : Post([op |-> op])
        BY <1>5 DEF SetSpeedPaused, Send
  <2>2. /\ want'.demand = want.demand /\ want'.background = want.background
        /\ want'.interval = want.interval /\ want'.sending = want.sending /\ interval' = interval
        BY <1>0, <1>5 DEF SetSpeedPaused, Send, sharedVars
  <2>3. [op |-> op] \in EngineCmd
        BY DEF EngineCmd
  <2>4. CASE Live
    <3>1. queue' = Append(queue, [op |-> op])
          BY <1>3, <2>1, <2>3, <2>4
    <3>2. SettledOn(queue', "SetDemand", HeldDemand', want'.demand)
          BY <1>0, <1>2, <2>1, <2>3, <2>2, <2>4, <3>1, SettledAppendOther
    <3>3. SettledOn(queue', "SetBackground", HeldBackground', want'.background)
          BY <1>0, <1>2, <2>1, <2>3, <2>2, <2>4, <3>1, SettledAppendOther
    <3>4. (want'.sending = None => SettledOn(queue', "SetInterval", interval', want'.interval))
          BY <1>0, <1>2, <2>1, <2>3, <2>2, <2>4, <3>1, SettledAppendOther
    <3> QED BY <1>0, <2>2, <3>2, <3>3, <3>4
  <2> QED BY <1>0, <1>2, <2>2, <2>4
<1>6. ASSUME NEW d \in Demands, SetDemand(d) PROVE ConfigInv'
  <2> DEFINE c == [op |-> "SetDemand", arg |-> d]
  <2>1. Post(c) /\ c \in EngineCmd /\ c.op = "SetDemand" /\ c.arg = d
        BY <1>6 DEF SetDemand, Send, EngineCmd
  <2>2. /\ want'.demand = d /\ want'.background = want.background
        /\ want'.interval = want.interval /\ want'.sending = want.sending /\ interval' = interval
        BY <1>0, <1>6 DEF SetDemand, Send, sharedVars
  <2> HIDE DEF c
  <2>3. CASE Live
    <3>1. queue' = Append(queue, c)
          BY <1>3, <2>1, <2>3
    <3>2. SettledOn(queue', "SetDemand", HeldDemand', want'.demand)
          BY <1>0, <1>2, <2>1, <2>2, <2>3, <3>1, SettledAppendSame
    <3>3. SettledOn(queue', "SetBackground", HeldBackground', want'.background)
          BY <1>0, <1>2, <2>1, <2>2, <2>3, <3>1, SettledAppendOther
    <3>4. (want'.sending = None => SettledOn(queue', "SetInterval", interval', want'.interval))
          BY <1>0, <1>2, <2>1, <2>2, <2>3, <3>1, SettledAppendOther
    <3> QED BY <1>0, <2>2, <3>2, <3>3, <3>4
  <2> QED BY <1>0, <1>2, <2>2, <2>3
<1>7. ASSUME NEW b \in BOOLEAN, SetBackground(b) PROVE ConfigInv'
  <2> DEFINE c == [op |-> "SetBackground", arg |-> b]
  <2>1. Post(c) /\ c \in EngineCmd /\ c.op = "SetBackground" /\ c.arg = b
        BY <1>7 DEF SetBackground, Send, EngineCmd
  <2>2. /\ want'.demand = want.demand /\ want'.background = b
        /\ want'.interval = want.interval /\ want'.sending = want.sending /\ interval' = interval
        BY <1>0, <1>7 DEF SetBackground, Send, sharedVars
  <2> HIDE DEF c
  <2>3. CASE Live
    <3>1. queue' = Append(queue, c)
          BY <1>3, <2>1, <2>3
    <3>2. SettledOn(queue', "SetDemand", HeldDemand', want'.demand)
          BY <1>0, <1>2, <2>1, <2>2, <2>3, <3>1, SettledAppendOther
    <3>3. SettledOn(queue', "SetBackground", HeldBackground', want'.background)
          BY <1>0, <1>2, <2>1, <2>2, <2>3, <3>1, SettledAppendSame
    <3>4. (want'.sending = None => SettledOn(queue', "SetInterval", interval', want'.interval))
          BY <1>0, <1>2, <2>1, <2>2, <2>3, <3>1, SettledAppendOther
    <3> QED BY <1>0, <2>2, <3>2, <3>3, <3>4
  <2> QED BY <1>0, <1>2, <2>2, <2>3
<1>8. ASSUME NEW i \in Intervals, WriteInterval(i) PROVE ConfigInv'
  <2>1. /\ want'.demand = want.demand /\ want'.background = want.background
        /\ want'.interval = i /\ want'.sending = i /\ UNCHANGED queue
        BY <1>0, <1>8 DEF WriteInterval
  <2> QED BY <1>2, <1>8, <2>1, EngineAssumption
<1>9. CASE SendInterval
  <2> DEFINE c == [op |-> "SetInterval", arg |-> want.sending]
  <2>1. /\ Post(c) /\ c \in EngineCmd /\ c.op = "SetInterval"
        /\ c.arg = want.sending /\ want.sending = want.interval
        BY <1>0, <1>9 DEF SendInterval, EngineCmd
  <2>2. /\ want'.demand = want.demand /\ want'.background = want.background
        /\ want'.interval = want.interval /\ want'.sending = None
        BY <1>0, <1>9 DEF SendInterval
  <2> HIDE DEF c
  <2>3. CASE Live
    <3>1. queue' = Append(queue, c)
          BY <1>3, <2>1, <2>3
    <3>2. SettledOn(queue', "SetDemand", HeldDemand', want'.demand)
          BY <1>0, <1>2, <2>1, <2>2, <2>3, <3>1, SettledAppendOther
    <3>3. SettledOn(queue', "SetBackground", HeldBackground', want'.background)
          BY <1>0, <1>2, <2>1, <2>2, <2>3, <3>1, SettledAppendOther
    <3>4. (want'.sending = None => SettledOn(queue', "SetInterval", interval', want'.interval))
          BY <1>0, <1>2, <2>1, <2>2, <2>3, <3>1, SettledAppendSame
    <3> QED BY <1>0, <2>2, <3>2, <3>3, <3>4
  <2> QED BY <1>0, <1>2, <2>2, <2>3
<1>10. CASE SampleNowTimeout \/ DropHandle
      BY <1>2, <1>10 DEF SampleNowTimeout, DropHandle, sharedVars
<1> QED BY <1>4, <1>5, <1>6, <1>7, <1>8, <1>9, <1>10, HandleCases

\* A step of the engine thread keeps the invariant: a taken setting is held,
\* and Boot hands what was remembered to the collector. (run_loop)
LEMMA ConfigEngineStep == TypeOK /\ ConfigInv /\ EngineStep => ConfigInv'
<1> SUFFICES ASSUME TypeOK, ConfigInv, EngineStep PROVE ConfigInv'
    OBVIOUS
<1>0. /\ queue \in Seq(EngineCmd)
        /\ pending \in [demand : Demands \cup {None}, background : BOOLEAN \cup {None}, paused : BOOLEAN]
      /\ collector \in Config
      BY DEF TypeOK, DataTyped
<1>1. UNCHANGED want
      BY DEF EngineStep, ParkedCmd, ParkedStop, Boot, Publish, NotifyPublished, SampleUnsupported,
             SampleFailed, AfterSample, LoopTop, WaitTimeout, LoopCmd, OnSetInterval, OnConfig,
             OnPause, OnResume, OnRequest, Recv, LoopExit, Stop, clientVars
<1> USE DEF ConfigInv
<1>2. CASE ParkedStop \/ LoopExit
      BY <1>1, <1>2 DEF ParkedStop, LoopExit, Stop, Live
<1>3. CASE Boot
  <2>1. Live /\ Live' /\ HeldDemand' = HeldDemand /\ HeldBackground' = HeldBackground
        BY <1>0, <1>3 DEF Boot, BeginSample, HeldDemand, HeldBackground, Live
  <2>2. UNCHANGED <<queue, interval>>
        BY <1>3 DEF Boot
  <2> QED BY <1>1, <2>1, <2>2
<1>4. CASE Publish \/ NotifyPublished \/ SampleUnsupported \/ SampleFailed \/ LoopTop \/ WaitTimeout
  <2>1. /\ pc \in {"sampling", "published", "top", "wait"}
        /\ pc' \in {"sampling", "published", "top", "wait"}
        BY <1>4 DEF Publish, NotifyPublished, SampleUnsupported, SampleFailed, AfterSample,
                    LoopTop, BeginSample, WaitTimeout
  <2>2. UNCHANGED <<queue, interval, collector>>
        BY <1>4 DEF Publish, NotifyPublished, SampleUnsupported, SampleFailed, AfterSample,
                    LoopTop, WaitTimeout, sharedVars
  <2>3. Live /\ Live' /\ HeldDemand' = HeldDemand /\ HeldBackground' = HeldBackground
        BY <2>1, <2>2 DEF HeldDemand, HeldBackground, Live
  <2> QED BY <1>1, <2>2, <2>3
<1>5. CASE ParkedCmd
  <2>1. Live /\ Live' /\ queue # <<>> /\ queue' = Tail(queue)
        BY <1>5 DEF ParkedCmd, Live
  <2>2. /\ HeldDemand' = IF Head(queue).op = "SetDemand" THEN Head(queue).arg ELSE HeldDemand
        /\ HeldBackground' = IF Head(queue).op = "SetBackground" THEN Head(queue).arg ELSE HeldBackground
        /\ interval' = IF Head(queue).op = "SetInterval" THEN Head(queue).arg ELSE interval
        BY <1>0, <1>5 DEF ParkedCmd, HeldDemand, HeldBackground
  <2> QED BY <1>0, <1>1, <2>1, <2>2, SettledTailSame, SettledTailOther
<1>6. CASE LoopCmd
  <2>1. Live /\ Live' /\ queue # <<>> /\ queue' = Tail(queue)
        BY <1>6 DEF LoopCmd, OnSetInterval, OnConfig, OnPause, OnResume, OnRequest, BeginSample, Recv, Live
  <2>2. /\ HeldDemand' = IF Head(queue).op = "SetDemand" THEN Head(queue).arg ELSE HeldDemand
        /\ HeldBackground' = IF Head(queue).op = "SetBackground" THEN Head(queue).arg ELSE HeldBackground
        /\ interval' = IF Head(queue).op = "SetInterval" THEN Head(queue).arg ELSE interval
        BY <1>0, <1>6 DEF LoopCmd, OnSetInterval, OnConfig, OnPause, OnResume, OnRequest, BeginSample,
                          Recv, HeldDemand, HeldBackground, Config
  <2> QED BY <1>0, <1>1, <2>1, <2>2, SettledTailSame, SettledTailOther
<1> QED BY <1>2, <1>3, <1>4, <1>5, <1>6 DEF EngineStep

\* The invariant is inductive. (engine.rs)
LEMMA ConfigStep == TypeOK /\ ConfigInv /\ [Next]_vars => ConfigInv'
<1> SUFFICES ASSUME TypeOK, ConfigInv, [Next]_vars PROVE ConfigInv'
    OBVIOUS
<1>1. CASE TimePasses \/ ServeWake \/ UNCHANGED vars
  <2>1. UNCHANGED <<queue, pc, pending, collector, want, interval>>
        BY <1>1 DEF TimePasses, ServeWake, vars, sharedVars, threadVars, clientVars
  <2> QED BY <2>1 DEF ConfigInv, Live, HeldDemand, HeldBackground
<1> QED BY <1>1, ConfigHandleStep, ConfigEngineStep DEF Next

\* The inductive invariant says what NewestConfigWins says. (engine.rs)
LEMMA ConfigImplies == TypeOK /\ ConfigInv => NewestConfigWins
<1> SUFFICES ASSUME TypeOK, ConfigInv PROVE NewestConfigWins
    OBVIOUS
<1>1. ASSUME NEW op, NEW held, NEW wanted, SettledOn(queue, op, held, wanted)
      PROVE  Agrees(op, held, wanted)
  <2>1. \A i \in 1..Len(queue) : queue[i] \in EngineCmd
        BY DEF TypeOK, DataTyped
  <2>2. \A i \in 1..Len(queue) : i \in Queued({op}) <=> queue[i] \in Of({op})
        BY <2>1 DEF Queued, Of
  <2>3. ASSUME NEW i \in 1..Len(queue), Newest(i, {op}) PROVE queue[i].arg = wanted
        BY <1>1, <2>2, <2>3 DEF SettledOn, NewestIn, Newest, Carrying
  <2>4. Queued({op}) = {} => held = wanted
        BY <1>1, <2>2 DEF SettledOn, NoneIn
  <2> QED BY <2>3, <2>4 DEF Agrees
<1> QED BY <1>1 DEF ConfigInv, NewestConfigWins

\* Configuration is never lost or undone, for any number of queued commands,
\* demands and intervals. (EngineHandle's sends, run_loop)
THEOREM NewestConfigAlwaysWins == Spec => []NewestConfigWins
<1>1. Spec => [](TypeOK /\ ConfigInv)
      BY TypeInit, TypeStep, ConfigInit, ConfigStep, PTL DEF Spec
<1> QED BY <1>1, ConfigImplies, PTL
-----------------------------------------------------------------------------
(* A pause is never broken by the cadence.                                  *)

\* A pause remembered from before the start is honoured by the first sample, so
\* it is over once the loop is entered; a sample of the cadence is only begun,
\* and only runs, outside a pause.
CadenceInv ==
    /\ pc \in {"top", "wait"} => ~pending.paused
    /\ pc = "sampling" => reason \in {"startPaused", "cadence", "refresh", "sampleNow"}
    /\ pc = "sampling" /\ reason = "cadence" => state = "Running" /\ ~pending.paused

\* The invariant holds before the start. (spawn_inner)
LEMMA CadenceInit == Init => CadenceInv
  BY DEF Init, CadenceInv

\* Every step keeps it. (run_loop)
LEMMA CadenceStep == TypeOK /\ CadenceInv /\ [Next]_vars => CadenceInv'
<1> SUFFICES ASSUME TypeOK, CadenceInv, [Next]_vars PROVE CadenceInv'
    OBVIOUS
<1>0. pending \in [demand : Demands \cup {None}, background : BOOLEAN \cup {None}, paused : BOOLEAN]
      BY DEF TypeOK, DataTyped
<1> USE DEF CadenceInv
<1>1. CASE HandleStep \/ TimePasses \/ ServeWake \/ UNCHANGED vars
  <2>1. UNCHANGED <<pc, reason, state, pending>>
        BY <1>1 DEF HandleStep, SendStart, SendShutdown, RequestRefresh, SetDemand, SetBackground,
             SetSpeedPaused, WriteInterval, SendInterval, SampleNow, SampleNowTimeout, DropHandle,
             Send, TimePasses, ServeWake, vars, sharedVars, threadVars, clientVars
  <2> QED BY <2>1
<1>2. CASE ParkedCmd \/ ParkedStop \/ LoopExit \/ Publish
      BY <1>2 DEF ParkedCmd, ParkedStop, LoopExit, Stop, Publish
<1>3. CASE Boot
      BY <1>0, <1>3 DEF Boot, BeginSample
<1>4. CASE NotifyPublished \/ SampleUnsupported \/ SampleFailed
      BY <1>0, <1>4 DEF NotifyPublished, SampleUnsupported, SampleFailed, AfterSample
<1>5. CASE LoopTop
      BY <1>5 DEF LoopTop, BeginSample, sharedVars
<1>6. CASE WaitTimeout
      BY <1>6 DEF WaitTimeout, sharedVars
<1>7. CASE LoopCmd
      BY <1>7 DEF LoopCmd, OnSetInterval, OnConfig, OnPause, OnResume, OnRequest, BeginSample, Recv
<1> QED BY <1>1, <1>2, <1>3, <1>4, <1>5, <1>6, <1>7 DEF Next, EngineStep

\* While paused, or asked to start paused, the engine publishes only what was
\* asked for. (run_loop)
THEOREM PauseNeverBroken == Spec => PausedPublishesOnRequest
<1>1. CadenceInv /\ [Next]_vars =>
        [(pc = "sampling" /\ pc' = "published" /\ (state = "Paused" \/ pending.paused))
            => reason \in {"refresh", "sampleNow", "startPaused"}]_vars
      BY DEF CadenceInv
<1> QED BY <1>1, TypeCorrect, CadenceInit, CadenceStep, PTL DEF Spec, PausedPublishesOnRequest

-----------------------------------------------------------------------------
(* A running engine never oversleeps.                                       *)

IntervalCmds == Of({"SetInterval"})

\* What NoOversleep says, at the top of the loop too: a deadline carried there
\* is the one waited for next.
DueInv ==
    (pc \in {"top", "wait"} /\ state = "Running" /\ want.sending = None /\ NoneIn(queue, IntervalCmds))
        => dueAfter <= interval \/ dueAfter <= elapsed

\* Nothing is due before the start. (spawn_inner)
LEMMA DueInit == Init => DueInv
  BY DEF Init, DueInv

\* A handle changes the interval only with a command on its way. (set_interval)
LEMMA DueHandleStep == TypeOK /\ DueInv /\ HandleStep => DueInv'
<1> SUFFICES ASSUME TypeOK, DueInv, HandleStep PROVE DueInv'
    OBVIOUS
<1>0. /\ queue \in Seq(EngineCmd)
      /\ want \in [demand : Demands \cup {None}, background : BOOLEAN \cup {None},
                   paused : BOOLEAN, interval : Intervals, sending : Intervals \cup {None}]
      BY DEF TypeOK, DataTyped
<1>1. UNCHANGED <<pc, state, dueAfter, elapsed>>
      BY DEF HandleStep, SendStart, SendShutdown, RequestRefresh, SetDemand, SetBackground,
             SetSpeedPaused, WriteInterval, SendInterval, SampleNow, SampleNowTimeout,
             DropHandle, Send, threadVars, sharedVars
<1>2. ASSUME NEW c \in EngineCmd, c.op # "SetInterval", Post(c), UNCHANGED interval,
             want'.sending = want.sending
      PROVE  DueInv'
  <2>1. NoneIn(queue', IntervalCmds) => NoneIn(queue, IntervalCmds)
        BY <1>0, <1>2, AppendOther DEF Post, IntervalCmds, Of
  <2> QED BY <1>1, <1>2, <2>1 DEF DueInv
<1>3. CASE SendStart \/ SendShutdown \/ RequestRefresh \/ SampleNow
  <2>1. PICK op \in {"Start", "Shutdown", "Refresh", "SampleNow"} : Post([op |-> op])
        BY <1>3 DEF SendStart, SendShutdown, RequestRefresh, SampleNow, Send
  <2>2. UNCHANGED <<want, interval>>
        BY <1>3 DEF SendStart, SendShutdown, RequestRefresh, SampleNow, Send, sharedVars
  <2>3. [op |-> op] \in EngineCmd
        BY DEF EngineCmd
  <2> QED BY <1>2, <2>1, <2>2, <2>3
<1>4. ASSUME NEW b \in BOOLEAN, SetSpeedPaused(b) PROVE DueInv'
  <2>1. PICK op \in {"Pause", "Resume"} : Post([op |-> op])
        BY <1>4 DEF SetSpeedPaused, Send
  <2>2. want'.sending = want.sending /\ interval' = interval
        BY <1>0, <1>4 DEF SetSpeedPaused, Send, sharedVars
  <2>3. [op |-> op] \in EngineCmd
        BY DEF EngineCmd
  <2> QED BY <1>2, <2>1, <2>2, <2>3
<1>5. ASSUME NEW d \in Demands, SetDemand(d) PROVE DueInv'
  <2>1. Post([op |-> "SetDemand", arg |-> d]) /\ [op |-> "SetDemand", arg |-> d] \in EngineCmd
        BY <1>5 DEF SetDemand, Send, EngineCmd
  <2>2. want'.sending = want.sending /\ interval' = interval
        BY <1>0, <1>5 DEF SetDemand, Send, sharedVars
  <2> QED BY <1>2, <2>1, <2>2
<1>6. ASSUME NEW b \in BOOLEAN, SetBackground(b) PROVE DueInv'
  <2>1. Post([op |-> "SetBackground", arg |-> b]) /\ [op |-> "SetBackground", arg |-> b] \in EngineCmd
        BY <1>6 DEF SetBackground, Send, EngineCmd
  <2>2. want'.sending = want.sending /\ interval' = interval
        BY <1>0, <1>6 DEF SetBackground, Send, sharedVars
  <2> QED BY <1>2, <2>1, <2>2
<1>7. ASSUME NEW i \in Intervals, WriteInterval(i) PROVE DueInv'
  <2>1. want'.sending = i
        BY <1>0, <1>7 DEF WriteInterval
  <2> QED BY <1>7, <2>1, EngineAssumption DEF DueInv
<1>8. CASE SendInterval
  <2> DEFINE c == [op |-> "SetInterval", arg |-> want.sending]
  <2>1. Post(c) /\ c \in EngineCmd /\ c \in IntervalCmds
        BY <1>0, <1>8 DEF SendInterval, EngineCmd, IntervalCmds, Of
  <2> HIDE DEF c
  <2>2. CASE pc \in {"top", "wait"}
    <3>1. queue' = Append(queue, c)
          BY <2>1, <2>2 DEF Post
    <3>2. ~NoneIn(queue', IntervalCmds)
          BY <1>0, <2>1, <3>1, AppendSame
    <3> QED BY <3>2 DEF DueInv
  <2> QED BY <1>1, <2>2 DEF DueInv
<1>9. CASE SampleNowTimeout \/ DropHandle
      BY <1>1, <1>9 DEF SampleNowTimeout, DropHandle, sharedVars, DueInv
<1> QED BY <1>3, <1>4, <1>5, <1>6, <1>7, <1>8, <1>9, HandleCases

\* The engine sets its deadline from the interval of the moment, and a new
\* interval resets it. (run_loop)
LEMMA DueEngineStep == TypeOK /\ DueInv /\ EngineStep => DueInv'
<1> SUFFICES ASSUME TypeOK, DueInv, EngineStep PROVE DueInv'
    OBVIOUS
<1>0. queue \in Seq(EngineCmd) /\ elapsed \in Nat /\ dueAfter \in Nat /\ interval \in Nat
      BY EngineAssumption DEF TypeOK, DataTyped
<1> USE DEF DueInv
<1>1. CASE ParkedCmd \/ ParkedStop \/ LoopExit \/ Publish
      BY <1>1 DEF ParkedCmd, ParkedStop, LoopExit, Stop, Publish
<1>2. CASE Boot
  <2>1. dueAfter' = 0 /\ interval' = interval
        BY <1>2 DEF Boot
  <2> QED BY <1>0, <2>1
<1>3. CASE NotifyPublished \/ SampleUnsupported \/ SampleFailed
  <2>1. dueAfter' \in {0, interval} /\ interval' = interval
        BY <1>3 DEF NotifyPublished, SampleUnsupported, SampleFailed, AfterSample
  <2> QED BY <1>0, <2>1
<1>4. CASE LoopTop \/ WaitTimeout
  <2>1. /\ pc \in {"top", "wait"}
        /\ UNCHANGED <<queue, state, interval, dueAfter, want>>
        /\ pc' = "sampling" \/ UNCHANGED elapsed
        BY <1>4 DEF LoopTop, WaitTimeout, BeginSample, sharedVars, clientVars
  <2> QED BY <2>1
<1>5. CASE OnSetInterval
  <2>1. dueAfter' = interval'
        BY <1>5 DEF OnSetInterval
  <2>2. interval' \in Nat
        BY <1>5, HeadTail, CmdArgs, EngineAssumption DEF OnSetInterval, Recv, TypeOK, DataTyped
  <2> QED BY <2>1, <2>2
<1>6. CASE OnPause
      BY <1>6 DEF OnPause
<1>7. CASE OnConfig \/ OnResume \/ OnRequest
  <2>1. /\ pc = "wait" /\ queue # <<>> /\ queue' = Tail(queue) /\ Head(queue).op # "SetInterval"
        /\ UNCHANGED <<interval, want>>
        BY <1>7 DEF OnConfig, OnResume, OnRequest, Recv, clientVars
  <2>2. NoneIn(queue', IntervalCmds) => NoneIn(queue, IntervalCmds)
        BY <1>0, <2>1, TailOther DEF IntervalCmds, Of
  <2>3. CASE OnConfig \/ OnRequest
    <3>1. UNCHANGED <<state, dueAfter>> /\ (pc' = "sampling" \/ UNCHANGED elapsed)
          BY <2>3 DEF OnConfig, OnRequest, BeginSample
    <3> QED BY <2>1, <2>2, <3>1
  <2>4. CASE OnResume
    <3>1. UNCHANGED elapsed /\ (dueAfter' = elapsed \/ UNCHANGED <<state, dueAfter>>)
          BY <2>4 DEF OnResume
    <3> QED BY <1>0, <2>1, <2>2, <3>1
  <2> QED BY <1>7, <2>3, <2>4
<1> QED BY <1>1, <1>2, <1>3, <1>4, <1>5, <1>6, <1>7 DEF EngineStep, LoopCmd

\* The invariant is inductive. (engine.rs)
LEMMA DueStep == TypeOK /\ DueInv /\ [Next]_vars => DueInv'
<1> SUFFICES ASSUME TypeOK, DueInv, [Next]_vars PROVE DueInv'
    OBVIOUS
<1>1. CASE TimePasses
  <2>1. /\ elapsed' = elapsed + 1 /\ elapsed \in Nat /\ dueAfter \in Nat
        /\ UNCHANGED <<pc, state, want, queue, dueAfter, interval>>
        BY <1>1 DEF TimePasses, sharedVars, clientVars, TypeOK, DataTyped
  <2> QED BY <2>1 DEF DueInv
<1>2. CASE ServeWake \/ UNCHANGED vars
      BY <1>2 DEF ServeWake, vars, sharedVars, threadVars, clientVars, DueInv
<1> QED BY <1>1, <1>2, DueHandleStep, DueEngineStep DEF Next

\* A running engine never sleeps past the interval asked for. (next_due)
THEOREM NeverOversleeps == Spec => []NoOversleep
<1>1. TypeOK /\ DueInv => NoOversleep
  <2> SUFFICES ASSUME TypeOK, DueInv, Queued({"SetInterval"}) = {} PROVE NoneIn(queue, IntervalCmds)
      BY DEF DueInv, NoOversleep
  <2> QED BY DEF Queued, NoneIn, IntervalCmds, Of
<1> QED BY <1>1, TypeCorrect, DueInit, DueStep, PTL DEF Spec

-----------------------------------------------------------------------------
(* The pause settles on the last request.                                   *)

PauseCmds == Of({"Pause", "Resume"})
PauseCmd(b) == Of({IF b THEN "Pause" ELSE "Resume"})
HeldPause == pending.paused \/ state = "Paused"

\* What PauseHonoured says, the newest request also while the engine paused
\* itself, and what it needs: before the loop is entered the engine has not
\* paused yet, and once it is, no pause is left to honour.
PauseInv ==
    /\ pc \in {"parked", "boot"} => state # "Paused" /\ ~selfPaused
    /\ Live => NewestIn(queue, PauseCmds, PauseCmd(want.paused))
    /\ (Live /\ ~selfPaused /\ NoneIn(queue, PauseCmds)) => (want.paused <=> HeldPause)

\* Nothing is asked for and nothing paused at first. (spawn_inner)
LEMMA PauseInit == Init => PauseInv
  BY DEF Init, PauseInv, HeldPause, NewestIn

\* A Pause or Resume sent is the newest from then on. (set_speed_paused)
LEMMA PauseHandleStep == TypeOK /\ PauseInv /\ HandleStep => PauseInv'
<1> SUFFICES ASSUME TypeOK, PauseInv, HandleStep PROVE PauseInv'
    OBVIOUS
<1>0. /\ queue \in Seq(EngineCmd)
      /\ want \in [demand : Demands \cup {None}, background : BOOLEAN \cup {None},
                   paused : BOOLEAN, interval : Intervals, sending : Intervals \cup {None}]
      BY DEF TypeOK, DataTyped
<1>1. UNCHANGED <<pc, state, pending, selfPaused>>
      BY DEF HandleStep, SendStart, SendShutdown, RequestRefresh, SetDemand, SetBackground,
             SetSpeedPaused, WriteInterval, SendInterval, SampleNow, SampleNowTimeout,
             DropHandle, Send, threadVars, sharedVars
<1>a. Live' = Live /\ HeldPause' = HeldPause
      BY <1>1 DEF Live, HeldPause
<1>2. ASSUME NEW c \in EngineCmd, c.op \notin {"Pause", "Resume"}, Post(c), want'.paused = want.paused
      PROVE  PauseInv'
  <2>1. CASE Live
    <3>1. queue' = Append(queue, c) /\ c \notin PauseCmds
          BY <1>2, <2>1 DEF Post, Live, PauseCmds, Of
    <3>2. /\ NewestIn(queue', PauseCmds, PauseCmd(want'.paused))
          /\ NoneIn(queue', PauseCmds) <=> NoneIn(queue, PauseCmds)
          BY <1>0, <1>2, <2>1, <3>1, AppendOther DEF PauseInv
    <3> QED BY <1>1, <1>a, <1>2, <2>1, <3>2 DEF PauseInv
  <2> QED BY <1>1, <1>a, <2>1 DEF PauseInv
<1>3. ASSUME UNCHANGED queue, want'.paused = want.paused PROVE PauseInv'
      BY <1>1, <1>a, <1>3 DEF PauseInv
<1>4. CASE SendStart \/ SendShutdown \/ RequestRefresh \/ SampleNow
  <2>1. PICK op \in {"Start", "Shutdown", "Refresh", "SampleNow"} : Post([op |-> op])
        BY <1>4 DEF SendStart, SendShutdown, RequestRefresh, SampleNow, Send
  <2>2. UNCHANGED want
        BY <1>4 DEF SendStart, SendShutdown, RequestRefresh, SampleNow
  <2>3. [op |-> op] \in EngineCmd
        BY DEF EngineCmd
  <2> QED BY <1>2, <2>1, <2>2, <2>3
<1>5. ASSUME NEW d \in Demands, SetDemand(d) PROVE PauseInv'
  <2>1. Post([op |-> "SetDemand", arg |-> d]) /\ [op |-> "SetDemand", arg |-> d] \in EngineCmd
        BY <1>5 DEF SetDemand, Send, EngineCmd
  <2>2. want'.paused = want.paused
        BY <1>0, <1>5 DEF SetDemand
  <2> QED BY <1>2, <2>1, <2>2
<1>6. ASSUME NEW b \in BOOLEAN, SetBackground(b) PROVE PauseInv'
  <2>1. Post([op |-> "SetBackground", arg |-> b]) /\ [op |-> "SetBackground", arg |-> b] \in EngineCmd
        BY <1>6 DEF SetBackground, Send, EngineCmd
  <2>2. want'.paused = want.paused
        BY <1>0, <1>6 DEF SetBackground
  <2> QED BY <1>2, <2>1, <2>2
<1>7. CASE SendInterval
  <2>1. /\ Post([op |-> "SetInterval", arg |-> want.sending])
        /\ [op |-> "SetInterval", arg |-> want.sending] \in EngineCmd
        BY <1>0, <1>7 DEF SendInterval, EngineCmd
  <2>2. want'.paused = want.paused
        BY <1>0, <1>7 DEF SendInterval
  <2> QED BY <1>2, <2>1, <2>2
<1>8. ASSUME NEW b \in BOOLEAN, SetSpeedPaused(b) PROVE PauseInv'
  <2> DEFINE c == [op |-> IF b THEN "Pause" ELSE "Resume"]
  <2>1. Post(c) /\ c \in EngineCmd /\ c.op \in {"Pause", "Resume"}
        BY <1>8 DEF SetSpeedPaused, Send, EngineCmd
  <2>2. want'.paused = b
        BY <1>0, <1>8 DEF SetSpeedPaused
  <2>3. c \in PauseCmds /\ c \in PauseCmd(want'.paused)
        BY <2>1, <2>2 DEF PauseCmds, PauseCmd, Of
  <2> HIDE DEF c
  <2>4. CASE Live
    <3>1. queue' = Append(queue, c)
          BY <2>1, <2>4 DEF Post, Live
    <3>2. NewestIn(queue', PauseCmds, PauseCmd(want'.paused)) /\ ~NoneIn(queue', PauseCmds)
          BY <1>0, <2>1, <2>3, <3>1, AppendSame
    <3> QED BY <1>1, <1>a, <3>2 DEF PauseInv
  <2> QED BY <1>1, <1>a, <2>4 DEF PauseInv
<1>9. ASSUME NEW i \in Intervals, WriteInterval(i) PROVE PauseInv'
  <2>1. UNCHANGED queue /\ want'.paused = want.paused
        BY <1>0, <1>9 DEF WriteInterval
  <2> QED BY <1>3, <2>1
<1>10. CASE SampleNowTimeout \/ DropHandle
  <2>1. UNCHANGED <<queue, want>>
        BY <1>10 DEF SampleNowTimeout, DropHandle
  <2> QED BY <1>3, <2>1
<1> QED BY <1>4, <1>5, <1>6, <1>7, <1>8, <1>9, <1>10, HandleCases

\* A taken request is held: remembered while parked, honoured by the first
\* sample, obeyed in the loop. (run_loop)
LEMMA PauseEngineStep == TypeOK /\ CadenceInv /\ PauseInv /\ EngineStep => PauseInv'
<1> SUFFICES ASSUME TypeOK, CadenceInv, PauseInv, EngineStep PROVE PauseInv'
    OBVIOUS
<1>0. /\ queue \in Seq(EngineCmd) /\ want.paused \in BOOLEAN
      /\ pending \in [demand : Demands \cup {None}, background : BOOLEAN \cup {None}, paused : BOOLEAN]
      BY DEF TypeOK, DataTyped
<1>1. UNCHANGED want
      BY DEF EngineStep, ParkedCmd, ParkedStop, Boot, Publish, NotifyPublished, SampleUnsupported,
             SampleFailed, AfterSample, LoopTop, WaitTimeout, LoopCmd, OnSetInterval, OnConfig,
             OnPause, OnResume, OnRequest, Recv, LoopExit, Stop, clientVars
<1>2. CASE ParkedStop \/ LoopExit
  <2>1. ~Live' /\ pc' = "stopped"
        BY <1>2 DEF ParkedStop, LoopExit, Stop, Live
  <2> QED BY <2>1 DEF PauseInv
<1>3. ASSUME UNCHANGED queue, Live, pc' \notin {"parked", "boot"}, selfPaused' \/ selfPaused' = selfPaused,
             selfPaused' \/ (HeldPause' <=> HeldPause)
      PROVE  PauseInv'
      BY <1>1, <1>3 DEF PauseInv
<1>4. CASE Boot
  <2>1. /\ UNCHANGED <<queue, selfPaused>> /\ pc = "boot" /\ pc' \in {"sampling", "top"}
        /\ pending'.paused = pending.paused /\ state' = "Running"
        BY <1>0, <1>4 DEF Boot, BeginSample
  <2>2. HeldPause' <=> HeldPause
        BY <2>1 DEF HeldPause, PauseInv
  <2> QED BY <1>3, <2>1, <2>2 DEF Live
<1>5. CASE NotifyPublished \/ SampleUnsupported \/ SampleFailed
  <2>1. /\ UNCHANGED queue /\ pc \in {"sampling", "published"} /\ pc' \in {"wait", "top"}
        /\ ~pending'.paused
        BY <1>0, <1>5 DEF NotifyPublished, SampleUnsupported, SampleFailed, AfterSample
  <2>2. CASE SampleUnsupported
    <3>1. selfPaused'
          BY <2>2 DEF SampleUnsupported
    <3> QED BY <1>3, <2>1, <3>1 DEF Live
  <2>3. CASE NotifyPublished \/ SampleFailed
    <3>1. UNCHANGED selfPaused
          BY <2>3 DEF NotifyPublished, SampleFailed
    <3>2. state' = IF pending.paused THEN "Paused" ELSE state
          BY <2>3 DEF NotifyPublished, SampleFailed, AfterSample
    <3>3. HeldPause' <=> HeldPause
          BY <2>1, <3>2 DEF HeldPause
    <3> QED BY <1>3, <2>1, <3>1, <3>3 DEF Live
  <2> QED BY <1>5, <2>2, <2>3
<1>6. CASE Publish \/ LoopTop \/ WaitTimeout
  <2>1. /\ UNCHANGED <<queue, state, pending, selfPaused>> /\ pc \in {"sampling", "top", "wait"}
        /\ pc' \in {"published", "sampling", "top", "wait"}
        BY <1>6 DEF Publish, LoopTop, WaitTimeout, BeginSample, sharedVars
  <2>2. HeldPause' <=> HeldPause
        BY <2>1 DEF HeldPause
  <2> QED BY <1>3, <2>1, <2>2 DEF Live
<1>7. CASE ParkedCmd \/ LoopCmd
  <2>1. Live /\ Live' /\ queue # <<>> /\ queue' = Tail(queue)
        BY <1>7 DEF ParkedCmd, LoopCmd, OnSetInterval, OnConfig, OnPause, OnResume, OnRequest,
                    BeginSample, Recv, Live
  <2>2. NewestIn(queue', PauseCmds, PauseCmd(want'.paused))
        BY <1>0, <1>1, <2>1, TailNewest DEF PauseInv
  <2>3. ASSUME Head(queue).op \in {"Pause", "Resume"}, NoneIn(queue', PauseCmds)
        PROVE  want.paused <=> Head(queue).op = "Pause"
    <3>1. Head(queue) \in PauseCmds
          BY <1>0, <2>1, <2>3, HeadTail DEF PauseCmds, Of
    <3>2. Head(queue) \in PauseCmd(want.paused)
          BY <1>0, <2>1, <2>3, <3>1, HeadNewest DEF PauseInv
    <3> QED BY <1>0, <3>2 DEF PauseCmd, Of
  <2>4. ASSUME Head(queue).op \notin {"Pause", "Resume"}
        PROVE  NoneIn(queue', PauseCmds) <=> NoneIn(queue, PauseCmds)
        BY <1>0, <2>1, <2>4, TailOther DEF PauseCmds, Of
  <2>5. CASE ParkedCmd
    <3>1. pc = "parked" /\ pc' \in {"parked", "boot"} /\ UNCHANGED <<state, selfPaused>>
          BY <2>5 DEF ParkedCmd
    <3>2. Head(queue).op \in {"Pause", "Resume"} => (pending'.paused <=> Head(queue).op = "Pause")
          BY <1>0, <2>5 DEF ParkedCmd
    <3>3. Head(queue).op \notin {"Pause", "Resume"} => pending'.paused = pending.paused
          BY <1>0, <2>5 DEF ParkedCmd
    <3> QED BY <1>1, <2>1, <2>2, <2>3, <2>4, <3>1, <3>2, <3>3 DEF PauseInv, HeldPause
  <2>6. CASE OnPause \/ OnResume
    <3>1. /\ pc = "wait" /\ pc' = "top" /\ UNCHANGED pending /\ ~selfPaused'
          /\ Head(queue).op \in {"Pause", "Resume"}
          BY <2>6 DEF OnPause, OnResume, Recv
    <3>2. state' = "Paused" <=> Head(queue).op = "Pause"
          BY <2>6 DEF OnPause, OnResume, Recv
    <3>3. ~pending.paused
          BY <3>1 DEF CadenceInv
    <3> QED BY <1>1, <2>2, <2>3, <3>1, <3>2, <3>3 DEF PauseInv, HeldPause
  <2>7. CASE OnSetInterval \/ OnConfig \/ OnRequest
    <3>1. /\ pc' \in {"top", "sampling"} /\ UNCHANGED <<state, pending, selfPaused>>
          /\ Head(queue).op \notin {"Pause", "Resume"}
          BY <2>7 DEF OnSetInterval, OnConfig, OnRequest, BeginSample, Recv
    <3>2. HeldPause' <=> HeldPause
          BY <3>1 DEF HeldPause
    <3> QED BY <1>1, <2>1, <2>2, <2>4, <3>1, <3>2 DEF PauseInv
  <2> QED BY <1>7, <2>5, <2>6, <2>7 DEF LoopCmd
<1> QED BY <1>2, <1>4, <1>5, <1>6, <1>7 DEF EngineStep

\* The invariant is inductive. (engine.rs)
LEMMA PauseStep == TypeOK /\ CadenceInv /\ PauseInv /\ [Next]_vars => PauseInv'
<1> SUFFICES ASSUME TypeOK, CadenceInv, PauseInv, [Next]_vars PROVE PauseInv'
    OBVIOUS
<1>1. CASE TimePasses \/ ServeWake \/ UNCHANGED vars
  <2>1. UNCHANGED <<queue, pc, state, pending, want, selfPaused>>
        BY <1>1 DEF TimePasses, ServeWake, vars, sharedVars, threadVars, clientVars
  <2> QED BY <2>1 DEF PauseInv, Live, HeldPause
<1> QED BY <1>1, PauseHandleStep, PauseEngineStep DEF Next

\* The inductive invariant says what PauseHonoured says. (engine.rs)
LEMMA PauseImplies == TypeOK /\ PauseInv => PauseHonoured
<1> SUFFICES ASSUME TypeOK, PauseInv, Live, ~selfPaused PROVE PauseHonoured
    BY DEF PauseHonoured
<1>0. want.paused \in BOOLEAN /\ pending.paused \in BOOLEAN
      BY DEF TypeOK, DataTyped
<1>1. \A i \in 1..Len(queue) : queue[i] \in EngineCmd
      BY DEF TypeOK, DataTyped
<1>2. \A i \in 1..Len(queue) : i \in Queued({"Pause", "Resume"}) <=> queue[i] \in PauseCmds
      BY <1>1 DEF Queued, PauseCmds, Of
<1>3. ASSUME NEW i \in 1..Len(queue), Newest(i, {"Pause", "Resume"})
      PROVE  (queue[i].op = "Pause") = want.paused
  <2>1. queue[i] \in PauseCmd(want.paused)
        BY <1>2, <1>3 DEF PauseInv, NewestIn, Newest
  <2> QED BY <1>0, <2>1 DEF PauseCmd, Of
<1>4. Queued({"Pause", "Resume"}) = {} => want.paused = (pending.paused \/ state = "Paused")
  <2>1. Queued({"Pause", "Resume"}) = {} => NoneIn(queue, PauseCmds)
        BY <1>2 DEF NoneIn
  <2>2. Queued({"Pause", "Resume"}) = {} => (want.paused <=> HeldPause)
        BY <2>1 DEF PauseInv
  <2> QED BY <1>0, <2>2 DEF HeldPause
<1> QED BY <1>3, <1>4 DEF PauseHonoured

\* The pause mode settles on the last Pause or Resume sent, one sent before the
\* start included. (run_loop)
THEOREM PauseAlwaysHonoured == Spec => []PauseHonoured
  BY TypeCorrect, CadenceInit, CadenceStep, PauseInit, PauseStep, PauseImplies, PTL DEF Spec

\* A pause is kept: the mode follows the newest request and the cadence
\* publishes nothing meanwhile. (run_loop)
THEOREM PauseIsKept == Spec => PauseKept
  BY PauseAlwaysHonoured, PauseNeverBroken, PTL DEF PauseKept

-----------------------------------------------------------------------------
(* The UI thread that drives the engine.                                    *)

\* A frame that asks for another one does not touch the engine. (ui)
WakeOnly ==
    /\ UNCHANGED <<queue, state, latest, interval, threadVars, clientVars, selfPaused>>
    /\ wake' \in BOOLEAN

\* What the calls of the running pass amount to: each kind's last call carries what the
\* window asks for, and when there is none left the handle was told so. A pause takes
\* the place of the interval, and a window about to become visible will send its own.
SendingHead ==
    want.sending # None => todo # <<>> /\ Head(todo).op = "SetInterval" /\ Head(todo).arg = want.sending
ToldDemand == SettledOn(todo, "SetDemand", want.demand, lastDemand)
ToldBackground ==
    \/ visible /\ want.background = None /\ NoneIn(todo, Of({"SetBackground"}))
    \/ SettledOn(todo, "SetBackground", want.background, ~visible)
ToldInterval ==
    speed # Paused /\ (painted => visible) => SettledOn(todo, "SetInterval", want.interval, IntervalFor(visible))
ToldPause ==
    /\ NewestIn(todo, PauseCmds, PauseCmd(speed = Paused))
    /\ NoneIn(todo, PauseCmds) => (want.paused <=> speed = Paused)
Told == SendingHead /\ ToldDemand /\ ToldBackground /\ ToldInterval /\ ToldPause

EngineInv == TypeOK /\ ConfigInv /\ CadenceInv /\ PauseInv
UiInv == EngineInv /\ UiTyped /\ Told /\ NoMissedPublication

-----------------------------------------------------------------------------
\* A step of the UI is a step of the engine's handles, or at most asks for a frame.
LEMMA UiEngineSide ==
    ASSUME UiTyped, TypeOK, UiNext
    PROVE  Next \/ WakeOnly
<1> USE UiAssumption, EngineAssumption
<1>1. CASE Logic
  <2>1. ServeWake
        BY <1>1 DEF Logic, ServeWake
  <2> QED BY <2>1 DEF Next
<1>2. ASSUME NEW calls, NEW clicked \in BOOLEAN, UiPass(calls, clicked) PROVE WakeOnly
  <2>1. (wake \/ ~visible \/ clicked) \in BOOLEAN
        OBVIOUS
  <2> QED BY <1>2, <2>1 DEF UiPass, WakeOnly
<1>3. CASE UiIdle \/ UiRefresh \/ (\E s \in Speeds : UiSpeed(s)) \/ (\E d \in PageDemands : UiPage(d))
  <2>1. TRUE \in BOOLEAN /\ FALSE \in BOOLEAN
        OBVIOUS
  <2> QED BY <1>2, <1>3, <2>1 DEF UiIdle, UiRefresh, UiSpeed, UiPage
<1>4. CASE UiCall
  <2> DEFINE c == Head(todo)
  <2>1. /\ c \in EngineCmd
        /\ c.op = "SetDemand" => c.arg \in Demands
        /\ c.op = "SetBackground" => c.arg \in BOOLEAN
        /\ c.op = "SetInterval" => c.arg \in Intervals
        BY <1>4, HeadTail, CmdArgs DEF UiCall, UiTyped
  <2>2. (c.op = "Pause") \in BOOLEAN
        OBVIOUS
  <2>3. \/ c.op = "SetDemand" /\ SetDemand(c.arg)
        \/ c.op = "SetBackground" /\ SetBackground(c.arg)
        \/ c.op = "SetInterval" /\ WriteInterval(c.arg)
        \/ SendInterval \/ RequestRefresh \/ SendStart
        \/ SetSpeedPaused(c.op = "Pause")
        BY <1>4 DEF UiCall
  <2> HIDE DEF c
  <2>4. HandleStep
        BY <2>1, <2>2, <2>3 DEF HandleStep
  <2> QED BY <2>4 DEF Next
<1>5. CASE UiEngineStep \/ (TimePasses /\ UNCHANGED uiVars)
      BY <1>5 DEF UiEngineStep, Next
<1>6. CASE ShowWindow \/ HideWindow
      BY <1>6 DEF ShowWindow, HideWindow, WakeOnly, vars, sharedVars, TypeOK, FlagsTyped
<1> QED BY <1>1, <1>3, <1>4, <1>5, <1>6 DEF UiNext, UiThread

\* So what holds of the engine under any use of its handles holds under the UI's.
LEMMA EngineInvStep ==
    ASSUME UiTyped, EngineInv, UiNext
    PROVE  EngineInv'
<1>1. CASE Next
      BY <1>1, TypeStep, ConfigStep, CadenceStep, PauseStep DEF EngineInv
<1>2. CASE WakeOnly
  <2>0. UNCHANGED <<queue, state, latest, interval, threadVars, clientVars, selfPaused>> /\ wake' \in BOOLEAN
        BY <1>2 DEF WakeOnly
  <2>1. TypeOK'
        BY <2>0 DEF EngineInv, TypeOK, FlagsTyped, DataTyped, threadVars, clientVars
  <2>2. ConfigInv'
        BY <2>0 DEF EngineInv, ConfigInv, Live, HeldDemand, HeldBackground, threadVars, clientVars
  <2>3. CadenceInv'
        BY <2>0 DEF EngineInv, CadenceInv, threadVars
  <2>4. PauseInv'
        BY <2>0 DEF EngineInv, PauseInv, Live, HeldPause, threadVars, clientVars
  <2> QED BY <2>1, <2>2, <2>3, <2>4 DEF EngineInv
<1> QED BY <1>1, <1>2, UiEngineSide DEF EngineInv

-----------------------------------------------------------------------------
\* A list of calls, one call longer. (sync_surface_visibility, the settings page)
LEMMA OneMore ==
    ASSUME NEW q \in Seq(EngineCmd), NEW c \in EngineCmd
    PROVE  /\ q \o <<c>> = Append(q, c) /\ q \o <<>> = q /\ Append(q, c) \in Seq(EngineCmd)
           /\ <<c>> = Append(<<>>, c) /\ <<>> \in Seq(EngineCmd)
  OBVIOUS

\* Nothing is settled by a pass that has made all its calls but by the handle. (ui)
LEMMA SettledNil ==
    ASSUME NEW op, NEW held, NEW wanted
    PROVE  SettledOn(<<>>, op, held, wanted) <=> held = wanted
  BY DEF SettledOn, NewestIn, NoneIn

\* A call of another kind, made or not, leaves a setting as it is.
LEMMA MaybeOther ==
    ASSUME NEW q \in Seq(EngineCmd), NEW c \in EngineCmd, NEW r, r = q \/ r = Append(q, c),
           NEW op, NEW held, NEW wanted, c.op # op, SettledOn(q, op, held, wanted)
    PROVE  SettledOn(r, op, held, wanted)
  BY SettledAppendOther

PauseTold(q, held, p) ==
    NewestIn(q, PauseCmds, PauseCmd(p)) /\ (NoneIn(q, PauseCmds) => (held <=> p))

\* A call of another kind, made or not, leaves the pause as it is.
LEMMA MaybeOtherPause ==
    ASSUME NEW q \in Seq(EngineCmd), NEW c \in EngineCmd, NEW r, r = q \/ r = Append(q, c),
           NEW held, NEW p, c.op \notin {"Pause", "Resume"}, PauseTold(q, held, p)
    PROVE  PauseTold(r, held, p)
<1>1. c \notin PauseCmds
      BY DEF PauseCmds, Of
<1>2. CASE r = q
      BY <1>2
<1>3. CASE r = Append(q, c)
  <2>1. NewestIn(r, PauseCmds, PauseCmd(p)) /\ (NoneIn(r, PauseCmds) <=> NoneIn(q, PauseCmds))
        BY <1>1, <1>3, AppendOther DEF PauseTold
  <2> QED BY <2>1 DEF PauseTold
<1> QED BY <1>2, <1>3

BackgroundCall(b) == [op |-> "SetBackground", arg |-> b]
IntervalCall(i) == [op |-> "SetInterval", arg |-> i]
DemandCall(d) == [op |-> "SetDemand", arg |-> d]
RefreshCall == [op |-> "Refresh"]
StartCall == [op |-> "Start"]

\* The logic pass: background, interval, refresh and demand, in this order.
LEMMA LogicCalls ==
    ASSUME UiTyped, Logic
    PROVE  /\ BackgroundCall(~painted) \in EngineCmd /\ IntervalCall(IntervalFor(painted)) \in EngineCmd
           /\ RefreshCall \in EngineCmd /\ DemandCall(DemandFor(painted)) \in EngineCmd
           /\ \E s1, s2, s3 \in Seq(EngineCmd) :
                /\ s1 = IF painted = visible THEN <<>> ELSE Append(<<>>, BackgroundCall(~painted))
                /\ s2 = IF painted = visible \/ speed = Paused THEN s1 ELSE Append(s1, IntervalCall(IntervalFor(painted)))
                /\ s3 = IF painted = visible \/ ~painted THEN s2 ELSE Append(s2, RefreshCall)
                /\ todo' = IF DemandFor(painted) = lastDemand THEN s3 ELSE Append(s3, DemandCall(DemandFor(painted)))
<1>1. /\ IntervalFor(painted) \in Intervals /\ DemandFor(painted) \in Demands
      /\ (~painted) \in BOOLEAN
  <2>1. speed \in Intervals /\ shown \in Demands
        BY UiAssumption DEF UiTyped, PageDemands
  <2> QED BY <2>1, UiAssumption DEF IntervalFor, DemandFor
<1>2. /\ BackgroundCall(~painted) \in EngineCmd /\ IntervalCall(IntervalFor(painted)) \in EngineCmd
      /\ RefreshCall \in EngineCmd /\ DemandCall(DemandFor(painted)) \in EngineCmd
      BY <1>1 DEF BackgroundCall, IntervalCall, RefreshCall, DemandCall, EngineCmd
<1> DEFINE s1 == IF painted = visible THEN <<>> ELSE Append(<<>>, BackgroundCall(~painted))
           s2 == IF painted = visible \/ speed = Paused THEN s1 ELSE Append(s1, IntervalCall(IntervalFor(painted)))
           s3 == IF painted = visible \/ ~painted THEN s2 ELSE Append(s2, RefreshCall)
<1>3. s1 \in Seq(EngineCmd)
      BY <1>2, OneMore
<1>4. s2 \in Seq(EngineCmd)
  <2> HIDE DEF s1
  <2> QED BY <1>2, <1>3, OneMore
<1>5. s3 \in Seq(EngineCmd)
  <2> HIDE DEF s2
  <2> QED BY <1>2, <1>4, OneMore
<1>6. VisibilityCalls = s3
  <2>1. CASE painted = visible
        BY <2>1 DEF VisibilityCalls
  <2>2. CASE painted # visible
    <3> DEFINE X == IF speed # Paused THEN <<IntervalCall(IntervalFor(painted))>> ELSE <<>>
               Y == IF painted THEN <<RefreshCall>> ELSE <<>>
    <3>1. VisibilityCalls = <<BackgroundCall(~painted)>> \o X \o Y
          BY <2>2 DEF VisibilityCalls, BackgroundCall, IntervalCall, RefreshCall
    <3>2. <<BackgroundCall(~painted)>> = s1
          BY <1>2, <2>2, OneMore
    <3> HIDE DEF s1
    <3>3. s1 \o X = s2
          BY <1>2, <1>3, <2>2, OneMore
    <3> HIDE DEF s2
    <3>4. s2 \o Y = s3
          BY <1>2, <1>4, <2>2, OneMore
    <3> HIDE DEF X, Y, s3
    <3> QED BY <3>1, <3>2, <3>3, <3>4
  <2> QED BY <2>1, <2>2
<1>7. todo' = IF DemandFor(painted) = lastDemand THEN s3 ELSE Append(s3, DemandCall(DemandFor(painted)))
  <2>1. todo' = VisibilityCalls \o DemandCalls
        BY DEF Logic
  <2>2. DemandCalls = IF DemandFor(painted) = lastDemand THEN <<>> ELSE <<DemandCall(DemandFor(painted))>>
        BY DEF DemandCalls, DemandCall
  <2> HIDE DEF s3
  <2> QED BY <1>2, <1>5, <1>6, <2>1, <2>2, OneMore
<1> QED BY <1>2, <1>3, <1>4, <1>5, <1>7

\* A call of another kind leaves a kind out of the list as before.
LEMMA AppendNone ==
    ASSUME NEW q \in Seq(EngineCmd), NEW c \in EngineCmd, NEW K, c \notin K
    PROVE  NoneIn(Append(q, c), K) <=> NoneIn(q, K)
  BY AppendOther DEF NoneIn

\* Without calls left, the handle was told everything. (ui)
LEMMA ToldNil ==
    ASSUME todo = <<>>, Told
    PROVE  /\ want.sending = None
           /\ want.demand = lastDemand
           /\ want.background = ~visible \/ (visible /\ want.background = None)
           /\ speed # Paused /\ (painted => visible) => want.interval = IntervalFor(visible)
           /\ want.paused <=> speed = Paused
<1>1. \A K : NoneIn(todo, K)
      BY DEF NoneIn
<1> QED BY <1>1, SettledNil DEF Told, SendingHead, ToldDemand, ToldBackground, ToldInterval, ToldPause

\* The logic pass makes the calls for what it learnt of the surface.
\* (sync_surface_visibility, update_demand)
LEMMA LogicTold ==
    ASSUME UiTyped, Told, Logic
    PROVE  Told'
<1> DEFINE b == BackgroundCall(~painted)
           i == IntervalCall(IntervalFor(painted))
           d == DemandCall(DemandFor(painted))
<1>1. PICK s1, s2, s3 \in Seq(EngineCmd) :
         /\ s1 = IF painted = visible THEN <<>> ELSE Append(<<>>, b)
         /\ s2 = IF painted = visible \/ speed = Paused THEN s1 ELSE Append(s1, i)
         /\ s3 = IF painted = visible \/ ~painted THEN s2 ELSE Append(s2, RefreshCall)
         /\ todo' = IF DemandFor(painted) = lastDemand THEN s3 ELSE Append(s3, d)
      BY LogicCalls
<1>2. /\ b \in EngineCmd /\ b.op = "SetBackground" /\ b.arg = ~painted
      /\ i \in EngineCmd /\ i.op = "SetInterval" /\ i.arg = IntervalFor(painted)
      /\ RefreshCall \in EngineCmd /\ RefreshCall.op = "Refresh"
      /\ d \in EngineCmd /\ d.op = "SetDemand" /\ d.arg = DemandFor(painted)
      BY LogicCalls DEF BackgroundCall, IntervalCall, RefreshCall, DemandCall
<1>3. /\ todo = <<>> /\ UNCHANGED <<want, speed>> /\ visible' = painted /\ painted' = FALSE
      /\ lastDemand' = DemandFor(painted)
      BY DEF Logic, clientVars
<1>4. /\ s1 = <<>> \/ s1 = Append(<<>>, b)
      /\ s2 = s1 \/ s2 = Append(s1, i)
      /\ s3 = s2 \/ s3 = Append(s2, RefreshCall)
      /\ todo' = s3 \/ todo' = Append(s3, d)
      BY <1>1
<1>5. <<>> \in Seq(EngineCmd)
      OBVIOUS
<1>6. painted \in BOOLEAN /\ visible \in BOOLEAN
      BY DEF UiTyped
<1> HIDE DEF b, i, d
<1>7. SendingHead'
      BY <1>3, ToldNil DEF SendingHead
<1>8. ToldDemand'
  <2>1. SettledOn(<<>>, "SetDemand", want.demand, lastDemand)
        BY <1>3, ToldNil, SettledNil
  <2>2. SettledOn(s1, "SetDemand", want.demand, lastDemand)
        BY <1>2, <1>4, <1>5, <2>1, MaybeOther
  <2>3. SettledOn(s2, "SetDemand", want.demand, lastDemand)
        BY <1>2, <1>4, <2>2, MaybeOther
  <2>4. SettledOn(s3, "SetDemand", want.demand, lastDemand)
        BY <1>2, <1>4, <2>3, MaybeOther
  <2>5. CASE DemandFor(painted) = lastDemand
        BY <1>1, <1>3, <2>4, <2>5 DEF ToldDemand
  <2>6. CASE DemandFor(painted) # lastDemand
    <3>1. SettledOn(Append(s3, d), "SetDemand", want.demand, DemandFor(painted))
          BY <1>2, SettledAppendSame
    <3> QED BY <1>1, <1>3, <2>6, <3>1 DEF ToldDemand
  <2> QED BY <2>5, <2>6
<1>9. ToldBackground'
  <2>1. CASE painted = visible
    <3>1. s3 = <<>>
          BY <1>1, <2>1
    <3>2. CASE want.background = ~visible
      <4>1. SettledOn(<<>>, "SetBackground", want.background, ~visible)
            BY <3>2, SettledNil
      <4>2. SettledOn(todo', "SetBackground", want.background, ~visible)
            BY <1>2, <1>4, <3>1, <4>1, MaybeOther
      <4> QED BY <1>3, <2>1, <4>2 DEF ToldBackground
    <3>3. CASE visible /\ want.background = None
      <4>1. NoneIn(<<>>, Of({"SetBackground"}))
            BY DEF NoneIn
      <4>2. d \notin Of({"SetBackground"})
            BY <1>2 DEF Of
      <4>3. NoneIn(Append(<<>>, d), Of({"SetBackground"}))
            BY <1>2, <1>5, <4>1, <4>2, AppendNone
      <4>4. NoneIn(todo', Of({"SetBackground"}))
            BY <1>4, <3>1, <4>1, <4>3
      <4> QED BY <1>3, <2>1, <3>3, <4>4 DEF ToldBackground
    <3> QED BY <1>3, <3>2, <3>3, ToldNil
  <2>2. CASE painted # visible
    <3>1. SettledOn(s1, "SetBackground", want.background, ~painted)
          BY <1>1, <1>2, <1>5, <2>2, SettledAppendSame
    <3>2. SettledOn(s2, "SetBackground", want.background, ~painted)
          BY <1>2, <1>4, <3>1, MaybeOther
    <3>3. SettledOn(s3, "SetBackground", want.background, ~painted)
          BY <1>2, <1>4, <3>2, MaybeOther
    <3>4. SettledOn(todo', "SetBackground", want.background, ~painted)
          BY <1>2, <1>4, <3>3, MaybeOther
    <3> QED BY <1>3, <3>4 DEF ToldBackground
  <2> QED BY <2>1, <2>2
<1>10. ToldInterval'
  <2> SUFFICES ASSUME speed # Paused PROVE ToldInterval'
      BY <1>3 DEF ToldInterval
  <2>1. IntervalFor(visible)' = IntervalFor(painted)
        BY <1>3 DEF IntervalFor
  <2>2. SettledOn(s2, "SetInterval", want.interval, IntervalFor(painted))
    <3>1. CASE painted = visible
      <4>1. SettledOn(<<>>, "SetInterval", want.interval, IntervalFor(painted))
            BY <1>3, <1>6, <3>1, ToldNil, SettledNil
      <4> QED BY <1>1, <3>1, <4>1
    <3>2. CASE painted # visible
      <4>1. SettledOn(Append(s1, i), "SetInterval", want.interval, IntervalFor(painted))
            BY <1>2, SettledAppendSame
      <4> QED BY <1>1, <3>2, <4>1
    <3> QED BY <3>1, <3>2
  <2>3. SettledOn(s3, "SetInterval", want.interval, IntervalFor(painted))
        BY <1>2, <1>4, <2>2, MaybeOther
  <2>4. SettledOn(todo', "SetInterval", want.interval, IntervalFor(painted))
        BY <1>2, <1>4, <2>3, MaybeOther
  <2> QED BY <1>3, <2>1, <2>4 DEF ToldInterval
<1>11. ToldPause'
  <2> DEFINE p == speed = Paused
             w == want.paused
  <2>0. w <=> p
        BY <1>3, ToldNil
  <2>a. ToldPause' <=> PauseTold(todo', w, p)
        BY <1>3 DEF ToldPause, PauseTold
  <2> HIDE DEF p, w
  <2>1. PauseTold(<<>>, w, p)
        BY <2>0 DEF PauseTold, NewestIn
  <2>2. PauseTold(s1, w, p)
        BY <1>2, <1>4, <1>5, <2>1, MaybeOtherPause
  <2>3. PauseTold(s2, w, p)
        BY <1>2, <1>4, <2>2, MaybeOtherPause
  <2>4. PauseTold(s3, w, p)
        BY <1>2, <1>4, <2>3, MaybeOtherPause
  <2>5. PauseTold(todo', w, p)
        BY <1>2, <1>4, <2>4, MaybeOtherPause
  <2> QED BY <2>a, <2>5
<1> QED BY <1>7, <1>8, <1>9, <1>10, <1>11 DEF Told

\* A pass that adds only the start call, or a refresh before it, leaves what was told.
\* (ui, refresh_all)
LEMMA PassTold ==
    ASSUME UiTyped, Told, NEW calls, NEW clicked, UiPass(calls, clicked), UNCHANGED speed,
           calls = <<>> \/ calls = Append(<<>>, RefreshCall)
    PROVE  Told'
<1>1. /\ todo = <<>> /\ UNCHANGED <<want, speed, visible, lastDemand>> /\ painted' = TRUE
      /\ todo' = calls \o (IF started THEN <<>> ELSE <<StartCall>>)
      BY DEF UiPass, StartCalls, clientVars, StartCall
<1>2. RefreshCall \in EngineCmd /\ RefreshCall.op = "Refresh" /\ StartCall \in EngineCmd /\ StartCall.op = "Start"
      BY DEF RefreshCall, StartCall, EngineCmd
<1>3. <<>> \in Seq(EngineCmd) /\ calls \in Seq(EngineCmd)
  <2>1. <<>> \in Seq(EngineCmd)
        OBVIOUS
  <2>2. Append(<<>>, RefreshCall) \in Seq(EngineCmd)
        BY <1>2, <2>1, OneMore
  <2> QED BY <2>1, <2>2
<1>4. todo' = calls \/ todo' = Append(calls, StartCall)
      BY <1>1, <1>2, <1>3, OneMore
<1>5. ASSUME NEW op \in {"SetDemand", "SetBackground", "SetInterval"}, NEW held
      PROVE  SettledOn(todo', op, held, held)
  <2>1. SettledOn(<<>>, op, held, held)
        BY SettledNil
  <2>2. SettledOn(calls, op, held, held)
        BY <1>2, <1>3, <2>1, MaybeOther
  <2> QED BY <1>2, <1>3, <1>4, <2>2, MaybeOther
<1>6. SendingHead'
      BY <1>1, ToldNil DEF SendingHead
<1>7. ToldDemand'
      BY <1>1, <1>5, ToldNil DEF ToldDemand
<1>8. ToldBackground'
  <2>1. CASE want.background = ~visible
        BY <1>1, <1>5, <2>1 DEF ToldBackground
  <2>2. CASE visible /\ want.background = None
    <3> DEFINE K == Of({"SetBackground"})
    <3>1. NoneIn(<<>>, K) /\ RefreshCall \notin K /\ StartCall \notin K
          BY <1>2 DEF NoneIn, Of
    <3> HIDE DEF K
    <3>2. NoneIn(calls, K)
          BY <1>2, <1>3, <3>1, AppendNone
    <3>3. NoneIn(todo', K)
          BY <1>2, <1>3, <1>4, <3>1, <3>2, AppendNone
    <3> QED BY <1>1, <2>2, <3>3 DEF ToldBackground, K
  <2> QED BY <1>1, <2>1, <2>2, ToldNil
<1>9. ToldInterval'
  <2> SUFFICES ASSUME speed # Paused, visible
               PROVE  SettledOn(todo', "SetInterval", want.interval, IntervalFor(visible))
      BY <1>1 DEF ToldInterval, IntervalFor
  <2>1. want.interval = IntervalFor(visible)
        BY <1>1, ToldNil
  <2> QED BY <1>5, <2>1
<1>10. ToldPause'
  <2> DEFINE p == speed = Paused
             w == want.paused
  <2>0. w <=> p
        BY <1>1, ToldNil
  <2>a. ToldPause' <=> PauseTold(todo', w, p)
        BY <1>1 DEF ToldPause, PauseTold
  <2> HIDE DEF p, w
  <2>1. PauseTold(<<>>, w, p)
        BY <2>0 DEF PauseTold, NewestIn
  <2>2. PauseTold(calls, w, p)
        BY <1>2, <1>3, <2>1, MaybeOtherPause
  <2>3. PauseTold(todo', w, p)
        BY <1>2, <1>3, <1>4, <2>2, MaybeOtherPause
  <2> QED BY <2>a, <2>3
<1> QED BY <1>6, <1>7, <1>8, <1>9, <1>10 DEF Told

\* A click on a speed pauses the engine, or resumes it and sends the interval.
\* (the settings page)
LEMMA SpeedTold ==
    ASSUME UiTyped, Told, NEW s \in Speeds, UiSpeed(s)
    PROVE  Told'
<1> DEFINE P == [op |-> "Pause"]
           Q == [op |-> "Resume"]
           i == IntervalCall(s)
           calls == IF s = Paused THEN Append(<<>>, P) ELSE Append(Append(<<>>, Q), i)
<1>0. s \in Intervals
      BY UiAssumption
<1>1. /\ todo = <<>> /\ UNCHANGED <<want, visible, lastDemand>> /\ painted' = TRUE /\ speed' = s
      /\ todo' = SpeedCalls(s) \o (IF started THEN <<>> ELSE <<StartCall>>)
      BY DEF UiSpeed, UiPass, StartCalls, clientVars, StartCall
<1>2. /\ P \in EngineCmd /\ P.op = "Pause" /\ Q \in EngineCmd /\ Q.op = "Resume"
      /\ i \in EngineCmd /\ i.op = "SetInterval" /\ i.arg = s
      /\ StartCall \in EngineCmd /\ StartCall.op = "Start"
      BY <1>0 DEF IntervalCall, StartCall, EngineCmd
<1>3. SpeedCalls(s) = IF s = Paused THEN <<P>> ELSE <<Q, i>>
      BY DEF SpeedCalls, IntervalCall
<1> HIDE DEF P, Q, i
<1>4. <<>> \in Seq(EngineCmd) /\ Append(<<>>, P) \in Seq(EngineCmd) /\ Append(<<>>, Q) \in Seq(EngineCmd)
      BY <1>2, OneMore
<1>5. SpeedCalls(s) = calls
  <2>1. <<P>> = Append(<<>>, P) /\ <<Q>> = Append(<<>>, Q)
        BY <1>2, <1>4, OneMore
  <2>2. <<Q, i>> = Append(<<Q>>, i)
        OBVIOUS
  <2> QED BY <1>3, <2>1, <2>2
<1>6. calls \in Seq(EngineCmd)
      BY <1>2, <1>4, OneMore
<1>7. todo' = calls \/ todo' = Append(calls, StartCall)
  <2> HIDE DEF calls
  <2> QED BY <1>1, <1>2, <1>5, <1>6, OneMore
<1>8. ASSUME NEW op \in {"SetDemand", "SetBackground"}, NEW held
      PROVE  SettledOn(todo', op, held, held)
  <2>1. SettledOn(<<>>, op, held, held)
        BY SettledNil
  <2>2. SettledOn(Append(<<>>, P), op, held, held) /\ SettledOn(Append(<<>>, Q), op, held, held)
        BY <1>2, <1>4, <2>1, SettledAppendOther
  <2>3. SettledOn(Append(Append(<<>>, Q), i), op, held, held)
        BY <1>2, <1>4, <2>2, SettledAppendOther
  <2>4. SettledOn(calls, op, held, held)
        BY <2>2, <2>3
  <2> HIDE DEF calls
  <2> QED BY <1>2, <1>6, <1>7, <2>4, MaybeOther
<1>9. SendingHead'
      BY <1>1, ToldNil DEF SendingHead
<1>10. ToldDemand'
      BY <1>1, <1>8, ToldNil DEF ToldDemand
<1>11. ToldBackground'
  <2>1. CASE want.background = ~visible
        BY <1>1, <1>8, <2>1 DEF ToldBackground
  <2>2. CASE visible /\ want.background = None
    <3> DEFINE K == Of({"SetBackground"})
    <3>1. NoneIn(<<>>, K) /\ P \notin K /\ Q \notin K /\ i \notin K /\ StartCall \notin K
          BY <1>2 DEF NoneIn, Of
    <3> HIDE DEF K
    <3>2. NoneIn(Append(<<>>, P), K) /\ NoneIn(Append(<<>>, Q), K)
          BY <1>2, <1>4, <3>1, AppendNone
    <3>3. NoneIn(Append(Append(<<>>, Q), i), K)
          BY <1>2, <1>4, <3>1, <3>2, AppendNone
    <3>4. NoneIn(calls, K)
          BY <3>2, <3>3
    <3> HIDE DEF calls
    <3>5. NoneIn(todo', K)
          BY <1>2, <1>6, <1>7, <3>1, <3>4, AppendNone
    <3> QED BY <1>1, <2>2, <3>5 DEF ToldBackground, K
  <2> QED BY <1>1, <2>1, <2>2, ToldNil
<1>12. ToldInterval'
  <2> SUFFICES ASSUME s # Paused, visible PROVE SettledOn(todo', "SetInterval", want.interval, s)
      BY <1>1 DEF ToldInterval, IntervalFor
  <2>1. SettledOn(Append(Append(<<>>, Q), i), "SetInterval", want.interval, s)
        BY <1>2, <1>4, SettledAppendSame
  <2>2. SettledOn(calls, "SetInterval", want.interval, s)
        BY <2>1
  <2> HIDE DEF calls
  <2> QED BY <1>2, <1>6, <1>7, <2>2, MaybeOther
<1>13. ToldPause'
  <2> DEFINE p == s = Paused
             w == want.paused
  <2>a. ToldPause' <=> PauseTold(todo', w, p)
        BY <1>1 DEF ToldPause, PauseTold
  <2>1. CASE s = Paused
    <3>1. P \in PauseCmds /\ P \in PauseCmd(p)
          BY <1>2, <2>1 DEF PauseCmds, PauseCmd, Of
    <3> HIDE DEF p, w
    <3>2. PauseTold(Append(<<>>, P), w, p)
          BY <1>2, <1>4, <3>1, AppendSame DEF PauseTold
    <3>3. PauseTold(calls, w, p)
          BY <2>1, <3>2
    <3> HIDE DEF calls
    <3> QED BY <1>2, <1>6, <1>7, <2>a, <3>3, MaybeOtherPause
  <2>2. CASE s # Paused
    <3>1. Q \in PauseCmds /\ Q \in PauseCmd(p)
          BY <1>2, <2>2 DEF PauseCmds, PauseCmd, Of
    <3> HIDE DEF p, w
    <3>2. PauseTold(Append(<<>>, Q), w, p)
          BY <1>2, <1>4, <3>1, AppendSame DEF PauseTold
    <3>3. PauseTold(Append(Append(<<>>, Q), i), w, p)
          BY <1>2, <1>4, <3>2, MaybeOtherPause
    <3>4. PauseTold(calls, w, p)
          BY <2>2, <3>3
    <3> HIDE DEF calls
    <3> QED BY <1>2, <1>6, <1>7, <2>a, <3>4, MaybeOtherPause
  <2> QED BY <2>1, <2>2
<1> QED BY <1>9, <1>10, <1>11, <1>12, <1>13 DEF Told

\* A call that is made moves what was asked for from the list to the handle. (ui)
LEMMA CallTold ==
    ASSUME UiTyped, TypeOK, ConfigInv, Told, UiCall
    PROVE  Told'
<1> DEFINE c == Head(todo)
<1>0. /\ todo \in Seq(EngineCmd) /\ todo # <<>> /\ c \in EngineCmd
      /\ UNCHANGED <<speed, visible, painted, lastDemand>>
      BY HeadTail DEF UiCall, UiTyped
<1>a. /\ want \in [demand : Demands \cup {None}, background : BOOLEAN \cup {None},
                   paused : BOOLEAN, interval : Intervals, sending : Intervals \cup {None}]
      /\ want.sending \in {None, want.interval}
      BY DEF TypeOK, DataTyped, ConfigInv
<1>b. IntervalFor(visible)' = IntervalFor(visible)
      BY <1>0 DEF IntervalFor
<1>c. \/ c.op = "SetDemand" /\ SetDemand(c.arg) /\ todo' = Tail(todo)
      \/ c.op = "SetBackground" /\ SetBackground(c.arg) /\ todo' = Tail(todo)
      \/ c.op = "SetInterval" /\ WriteInterval(c.arg) /\ UNCHANGED todo
      \/ c.op = "SetInterval" /\ SendInterval /\ todo' = Tail(todo)
      \/ c.op \in {"Pause", "Resume"} /\ SetSpeedPaused(c.op = "Pause") /\ todo' = Tail(todo)
      \/ c.op = "Refresh" /\ RequestRefresh /\ todo' = Tail(todo)
      \/ c.op = "Start" /\ SendStart /\ todo' = Tail(todo)
      BY DEF UiCall
<1>d. c.op # "SetInterval" => want.sending = None
      BY DEF Told, SendingHead
<1> HIDE DEF c
<1>1. ASSUME NEW op, NEW held, NEW wanted, SettledOn(todo, op, held, wanted), todo' = Tail(todo), c.op # op
      PROVE  SettledOn(todo', op, held, wanted)
      BY <1>0, <1>1, SettledTailOther DEF c
<1>2. ASSUME todo' = Tail(todo), c.op # "SetBackground", want'.background = want.background
      PROVE  ToldBackground'
  <2>1. CASE SettledOn(todo, "SetBackground", want.background, ~visible)
        BY <1>0, <1>1, <1>2, <2>1 DEF ToldBackground
  <2>2. CASE visible /\ want.background = None /\ NoneIn(todo, Of({"SetBackground"}))
    <3>1. NoneIn(todo', Of({"SetBackground"}))
      <4>1. c \notin Of({"SetBackground"})
            BY <1>2 DEF Of
      <4> QED BY <1>0, <1>2, <2>2, <4>1, TailOther DEF c
    <3> QED BY <1>0, <1>2, <2>2, <3>1 DEF ToldBackground
  <2> QED BY <2>1, <2>2 DEF Told, ToldBackground
<1>3. ASSUME todo' = Tail(todo), c.op # "SetDemand", want'.demand = want.demand
      PROVE  ToldDemand'
      BY <1>0, <1>1, <1>3 DEF Told, ToldDemand
<1>4. ASSUME todo' = Tail(todo), c.op # "SetInterval", want'.interval = want.interval
      PROVE  ToldInterval'
      BY <1>0, <1>b, <1>1, <1>4 DEF Told, ToldInterval
<1>5. ASSUME todo' = Tail(todo), c.op \notin {"Pause", "Resume"}, want'.paused = want.paused
      PROVE  ToldPause'
  <2> DEFINE p == speed = Paused
  <2>1. c \notin PauseCmds
        BY <1>5 DEF PauseCmds, Of
  <2>2. NewestIn(todo, PauseCmds, PauseCmd(p)) /\ (NoneIn(todo, PauseCmds) => (want.paused <=> p))
        BY DEF Told, ToldPause
  <2>a. ToldPause' <=> NewestIn(todo', PauseCmds, PauseCmd(p)) /\ (NoneIn(todo', PauseCmds) => (want'.paused <=> p))
        BY <1>0 DEF ToldPause
  <2> HIDE DEF p
  <2>3. NewestIn(Tail(todo), PauseCmds, PauseCmd(p)) /\ (NoneIn(Tail(todo), PauseCmds) <=> NoneIn(todo, PauseCmds))
        BY <1>0, <2>1, <2>2, TailNewest, TailOther DEF c
  <2> QED BY <1>5, <2>2, <2>a, <2>3
<1>6. ASSUME want'.sending = None
      PROVE  SendingHead'
      BY <1>6 DEF SendingHead
<1>7. CASE c.op = "SetDemand" /\ SetDemand(c.arg) /\ todo' = Tail(todo)
  <2>1. /\ want'.demand = c.arg /\ want'.background = want.background /\ want'.paused = want.paused
        /\ want'.interval = want.interval /\ want'.sending = want.sending
        BY <1>a, <1>7 DEF SetDemand
  <2>2. ToldDemand'
        BY <1>0, <1>7, <2>1, SettledTailSame DEF Told, ToldDemand, c
  <2> QED BY <1>2, <1>4, <1>5, <1>6, <1>7, <1>d, <2>1, <2>2 DEF Told
<1>8. CASE c.op = "SetBackground" /\ SetBackground(c.arg) /\ todo' = Tail(todo)
  <2>1. /\ want'.demand = want.demand /\ want'.background = c.arg /\ want'.paused = want.paused
        /\ want'.interval = want.interval /\ want'.sending = want.sending
        BY <1>a, <1>8 DEF SetBackground
  <2>2. ToldBackground'
    <3>1. c \in Of({"SetBackground"})
          BY <1>0, <1>8 DEF Of
    <3>2. ~NoneIn(todo, Of({"SetBackground"}))
          BY <1>0, <3>1, TailAt DEF NoneIn, c
    <3>3. SettledOn(todo, "SetBackground", want.background, ~visible)
          BY <3>2 DEF Told, ToldBackground
    <3> QED BY <1>0, <1>8, <2>1, <3>3, SettledTailSame DEF ToldBackground, c
  <2> QED BY <1>3, <1>4, <1>5, <1>6, <1>8, <1>d, <2>1, <2>2 DEF Told
<1>9. CASE c.op = "SetInterval" /\ WriteInterval(c.arg) /\ UNCHANGED todo
  <2>1. /\ want'.demand = want.demand /\ want'.background = want.background /\ want'.paused = want.paused
        /\ want'.sending = c.arg
        BY <1>a, <1>9 DEF WriteInterval
  <2>2. SendingHead'
        BY <1>0, <1>9, <2>1 DEF SendingHead, c
  <2>3. ToldInterval'
    <3>1. c \in Of({"SetInterval"})
          BY <1>0, <1>9 DEF Of
    <3>2. ~NoneIn(todo, Of({"SetInterval"}))
          BY <1>0, <3>1, TailAt DEF NoneIn, c
    <3> QED BY <1>0, <1>9, <1>b, <3>2 DEF Told, ToldInterval, SettledOn
  <2>4. ToldDemand' /\ ToldBackground'
        BY <1>0, <1>9, <2>1 DEF Told, ToldDemand, ToldBackground
  <2>5. ToldPause'
        BY <1>0, <1>9, <2>1 DEF Told, ToldPause
  <2> QED BY <2>2, <2>3, <2>4, <2>5 DEF Told
<1>10. CASE c.op = "SetInterval" /\ SendInterval /\ todo' = Tail(todo)
  <2>1. /\ want'.demand = want.demand /\ want'.background = want.background /\ want'.paused = want.paused
        /\ want'.interval = want.interval /\ want'.sending = None /\ want.sending # None
        BY <1>a, <1>10 DEF SendInterval
  <2>2. want.interval = c.arg
        BY <1>a, <2>1 DEF Told, SendingHead, c
  <2>3. ToldInterval'
        BY <1>0, <1>10, <1>b, <2>1, <2>2, SettledTailSame DEF Told, ToldInterval, c
  <2> QED BY <1>2, <1>3, <1>5, <1>6, <1>10, <2>1, <2>3 DEF Told
<1>11. CASE c.op \in {"Pause", "Resume"} /\ SetSpeedPaused(c.op = "Pause") /\ todo' = Tail(todo)
  <2>1. /\ want'.demand = want.demand /\ want'.background = want.background
        /\ want'.interval = want.interval /\ want'.sending = want.sending
        BY <1>a, <1>11 DEF SetSpeedPaused
  <2>2. want'.paused <=> c.op = "Pause"
        BY <1>a, <1>11 DEF SetSpeedPaused
  <2>3. ToldPause'
    <3> DEFINE p == speed = Paused
    <3>1. c \in PauseCmds
          BY <1>0, <1>11 DEF PauseCmds, Of
    <3>2. NewestIn(todo, PauseCmds, PauseCmd(p))
          BY DEF Told, ToldPause
    <3>3. NoneIn(Tail(todo), PauseCmds) => c \in PauseCmd(p)
          BY <1>0, <3>1, <3>2, HeadNewest DEF c
    <3>4. c \in PauseCmd(p) => (c.op = "Pause" <=> p)
          BY <1>11 DEF PauseCmd, Of
    <3>5. NewestIn(Tail(todo), PauseCmds, PauseCmd(p))
          BY <1>0, <3>2, TailNewest
    <3> QED BY <1>0, <1>11, <2>2, <3>3, <3>4, <3>5 DEF ToldPause
  <2> QED BY <1>2, <1>3, <1>4, <1>6, <1>11, <1>d, <2>1, <2>3 DEF Told
<1>12. CASE c.op \in {"Refresh", "Start"} /\ UNCHANGED want /\ todo' = Tail(todo)
      BY <1>2, <1>3, <1>4, <1>5, <1>6, <1>12, <1>d DEF Told
<1> QED BY <1>c, <1>7, <1>8, <1>9, <1>10, <1>11, <1>12 DEF RequestRefresh, SendStart

\* The engine's own steps change nothing the handles asked for. (run_loop)
LEMMA EngineKeepsWant == EngineStep => UNCHANGED want
  BY DEF EngineStep, ParkedCmd, ParkedStop, Boot, Publish, NotifyPublished, SampleUnsupported,
         SampleFailed, AfterSample, LoopTop, WaitTimeout, LoopCmd, OnSetInterval, OnConfig,
         OnPause, OnResume, OnRequest, Recv, LoopExit, Stop, clientVars

\* Every step keeps what was told. (ui, logic)
LEMMA ToldStep ==
    ASSUME UiTyped, TypeOK, ConfigInv, Told, [UiNext]_allVars
    PROVE  Told'
<1>1. CASE UiEngineStep \/ (TimePasses /\ UNCHANGED uiVars) \/ ShowWindow \/ HideWindow \/ UNCHANGED allVars
  <2>1. UNCHANGED <<todo, want, speed, visible, painted, lastDemand>>
        BY <1>1, EngineKeepsWant
         DEF UiEngineStep, TimePasses, ShowWindow, HideWindow, allVars, vars, uiVars, clientVars
  <2>2. SendingHead' /\ ToldDemand' /\ ToldBackground'
        BY <2>1 DEF Told, SendingHead, ToldDemand, ToldBackground
  <2>3. ToldInterval'
        BY <2>1 DEF Told, ToldInterval, IntervalFor
  <2>4. ToldPause'
        BY <2>1 DEF Told, ToldPause
  <2> QED BY <2>2, <2>3, <2>4 DEF Told
<1>2. CASE UiIdle \/ \E d \in PageDemands : UiPage(d)
  <2>1. PICK clicked : UiPass(<<>>, clicked) /\ UNCHANGED speed
        BY <1>2 DEF UiIdle, UiPage
  <2> QED BY <2>1, PassTold
<1>3. CASE UiRefresh
  <2>1. UiPass(<<RefreshCall>>, TRUE) /\ UNCHANGED speed
        BY <1>3 DEF UiRefresh, RefreshCall
  <2>2. <<RefreshCall>> = Append(<<>>, RefreshCall)
        OBVIOUS
  <2> QED BY <2>1, <2>2, PassTold
<1> QED BY <1>1, <1>2, <1>3, LogicTold, SpeedTold, CallTold DEF UiNext, UiThread

\* The list of a pass is a list of commands. (ui)
LEMMA PassTyped ==
    ASSUME UiTyped, NEW calls \in Seq(EngineCmd), NEW clicked, UiPass(calls, clicked),
           speed' \in Speeds, shown' \in PageDemands
    PROVE  UiTyped'
<1>1. todo' = calls \o (IF started THEN <<>> ELSE <<StartCall>>)
      BY DEF UiPass, StartCalls, StartCall
<1>2. StartCall \in EngineCmd
      BY DEF StartCall, EngineCmd
<1>3. todo' \in Seq(EngineCmd)
      BY <1>1, <1>2, OneMore
<1> QED BY <1>3 DEF UiPass, UiTyped

\* The UI thread's state stays well typed. (app.rs)
LEMMA UiTypedStep ==
    ASSUME UiTyped, [UiNext]_allVars
    PROVE  UiTyped'
<1>0. <<>> \in Seq(EngineCmd)
      OBVIOUS
<1>1. CASE Logic
  <2>1. todo' \in Seq(EngineCmd)
        BY <1>1, LogicCalls, OneMore
  <2>2. lastDemand' \in Demands
        BY <1>1, UiAssumption DEF Logic, DemandFor, UiTyped, PageDemands
  <2>3. pass' \in {"logic", "ui"}
        BY <1>1 DEF Logic
  <2> QED BY <1>1, <2>1, <2>2, <2>3 DEF Logic, UiTyped
<1>2. CASE UiIdle \/ \E d \in PageDemands : UiPage(d)
      BY <1>0, <1>2, PassTyped DEF UiIdle, UiPage, UiTyped
<1>3. CASE UiRefresh
  <2>1. RefreshCall \in EngineCmd /\ UiPass(<<RefreshCall>>, TRUE) /\ UNCHANGED <<speed, shown>>
        BY <1>3 DEF UiRefresh, RefreshCall, EngineCmd
  <2>2. <<RefreshCall>> \in Seq(EngineCmd)
        BY <2>1
  <2> QED BY <2>1, <2>2, PassTyped DEF UiTyped
<1>4. ASSUME NEW s \in Speeds, UiSpeed(s) PROVE UiTyped'
  <2>1. SpeedCalls(s) \in Seq(EngineCmd)
    <3>1. s \in Intervals
          BY UiAssumption
    <3>2. /\ [op |-> "Pause"] \in EngineCmd /\ [op |-> "Resume"] \in EngineCmd
          /\ [op |-> "SetInterval", arg |-> s] \in EngineCmd
          BY <3>1 DEF EngineCmd
    <3> QED BY <3>2 DEF SpeedCalls
  <2> QED BY <1>4, <2>1, PassTyped DEF UiSpeed, UiTyped
<1>5. CASE UiCall
  <2>1. todo' = todo \/ (todo # <<>> /\ todo' = Tail(todo))
        BY <1>5 DEF UiCall
  <2>2. todo' \in Seq(EngineCmd)
        BY <2>1, HeadTail DEF UiTyped
  <2> QED BY <1>5, <2>2 DEF UiCall, UiTyped
<1>6. CASE UiEngineStep
  <2>1. (seen /\ pc' # "published") \in BOOLEAN
        BY DEF UiTyped
  <2> QED BY <1>6, <2>1 DEF UiEngineStep, UiTyped
<1>7. CASE (TimePasses /\ UNCHANGED uiVars) \/ ShowWindow \/ HideWindow \/ UNCHANGED allVars
      BY <1>7 DEF ShowWindow, HideWindow, allVars, uiVars, UiTyped
<1> QED BY <1>1, <1>2, <1>3, <1>4, <1>5, <1>6, <1>7 DEF UiNext, UiThread

\* A snapshot is stored before the notification, and every frame pulls. (sample_and_publish,
\* poll_engine)
LEMMA NoMissedStep ==
    ASSUME UiTyped, TypeOK, NoMissedPublication, [UiNext]_allVars
    PROVE  NoMissedPublication'
<1> USE DEF NoMissedPublication
<1>1. CASE UiEngineStep
  <2>1. pc = "published" => wake'
        BY <1>1 DEF UiEngineStep, EngineStep, ParkedCmd, ParkedStop, Boot, Publish, NotifyPublished,
           SampleUnsupported, SampleFailed, AfterSample, LoopTop, WaitTimeout, LoopCmd, OnSetInterval,
           OnConfig, OnPause, OnResume, OnRequest, Recv, LoopExit
  <2>2. wake => wake'
    <3>1. CASE ParkedCmd \/ ParkedStop \/ Boot \/ Publish \/ LoopTop \/ WaitTimeout \/ LoopExit
          BY <3>1 DEF ParkedCmd, ParkedStop, Boot, Publish, LoopTop, WaitTimeout, LoopExit, sharedVars
    <3>2. CASE NotifyPublished \/ SampleUnsupported \/ SampleFailed
          BY <3>2 DEF NotifyPublished, SampleUnsupported, SampleFailed, AfterSample
    <3>3. CASE LoopCmd
          BY <3>3 DEF LoopCmd, OnSetInterval, OnConfig, OnPause, OnResume, OnRequest
    <3> QED BY <1>1, <3>1, <3>2, <3>3 DEF UiEngineStep, EngineStep
  <2>3. ~seen' => ~seen \/ pc' = "published"
        BY <1>1 DEF UiEngineStep
  <2> QED BY <2>1, <2>2, <2>3
<1>2. CASE Logic
      BY <1>2 DEF Logic
<1>3. ASSUME NEW calls, NEW clicked, UiPass(calls, clicked) PROVE NoMissedPublication'
      BY <1>3 DEF UiPass, threadVars
<1>4. CASE UiIdle \/ UiRefresh \/ (\E s \in Speeds : UiSpeed(s)) \/ (\E d \in PageDemands : UiPage(d))
      BY <1>3, <1>4 DEF UiIdle, UiRefresh, UiSpeed, UiPage
<1>5. CASE UiCall
  <2>1. UNCHANGED <<wake, pc, seen>>
        BY <1>5 DEF UiCall, SetDemand, SetBackground, WriteInterval, SendInterval, SetSpeedPaused,
           RequestRefresh, SendStart, Send, sharedVars, threadVars
  <2> QED BY <2>1
<1>6. CASE (TimePasses /\ UNCHANGED uiVars) \/ ShowWindow \/ HideWindow \/ UNCHANGED allVars
      BY <1>6 DEF TimePasses, ShowWindow, HideWindow, allVars, vars, uiVars, sharedVars, threadVars
<1> QED BY <1>1, <1>2, <1>4, <1>5, <1>6 DEF UiNext, UiThread

\* The window is shown and nothing was asked for at first. (TaskManApp::new)
LEMMA UiInvInit == UiInit => UiInv
<1> SUFFICES ASSUME UiInit PROVE UiInv
    OBVIOUS
<1> USE DEF UiInit
<1>1. EngineInv
      BY TypeInit, ConfigInit, CadenceInit, PauseInit DEF EngineInv
<1>2. UiTyped
  <2>1. [op |-> "Pause"] \in EngineCmd
        BY DEF EngineCmd
  <2>2. todo \in Seq(EngineCmd)
        BY <2>1
  <2> QED BY <2>2 DEF UiTyped
<1>3. want = [demand |-> None, background |-> None, paused |-> FALSE, interval |-> interval, sending |-> None]
      BY DEF Init
<1>4. SendingHead
      BY <1>3 DEF SendingHead
<1> DEFINE P == [op |-> "Pause"]
<1>5. P \in EngineCmd /\ P.op = "Pause" /\ <<>> \in Seq(EngineCmd)
      BY DEF EngineCmd
<1>6. todo = <<>> \/ todo = Append(<<>>, P)
      BY <1>5, OneMore
<1> HIDE DEF P
<1>7. ToldDemand
  <2>1. want.demand = lastDemand
        BY <1>3
  <2>2. SettledOn(<<>>, "SetDemand", want.demand, lastDemand)
        BY <2>1, SettledNil
  <2> QED BY <1>5, <1>6, <2>2, MaybeOther DEF ToldDemand
<1>8. ToldBackground
  <2>1. NoneIn(<<>>, Of({"SetBackground"})) /\ P \notin Of({"SetBackground"})
        BY <1>5 DEF NoneIn, Of
  <2>2. NoneIn(todo, Of({"SetBackground"}))
        BY <1>5, <1>6, <2>1, AppendNone
  <2> QED BY <1>3, <2>2 DEF ToldBackground
<1>9. ToldInterval
  <2> SUFFICES ASSUME speed # Paused PROVE SettledOn(<<>>, "SetInterval", want.interval, IntervalFor(visible))
      BY DEF ToldInterval
  <2>1. want.interval = IntervalFor(visible)
        BY <1>3 DEF IntervalFor
  <2> QED BY <2>1, SettledNil
<1>10. ToldPause
  <2>1. CASE speed = Paused
    <3>1. todo = Append(<<>>, P)
          BY <1>5, <2>1, OneMore DEF P
    <3>2. P \in PauseCmds /\ P \in PauseCmd(speed = Paused)
          BY <1>5, <2>1 DEF PauseCmds, PauseCmd, Of
    <3> DEFINE p == speed = Paused
    <3>3. P \in PauseCmd(p)
          BY <3>2
    <3> HIDE DEF p
    <3>4. NewestIn(todo, PauseCmds, PauseCmd(p)) /\ ~NoneIn(todo, PauseCmds)
          BY <1>5, <3>1, <3>2, <3>3, AppendSame
    <3> QED BY <3>4 DEF ToldPause, p
  <2>2. CASE speed # Paused
    <3>1. todo = <<>> /\ want.paused = FALSE
          BY <1>3, <2>2
    <3> QED BY <2>2, <3>1 DEF ToldPause, NewestIn
  <2> QED BY <2>1, <2>2
<1>11. NoMissedPublication
      BY DEF NoMissedPublication
<1> QED BY <1>1, <1>2, <1>4, <1>7, <1>8, <1>9, <1>10, <1>11 DEF UiInv, Told

\* The invariant is inductive. (app.rs, engine.rs)
LEMMA UiInvStep == UiInv /\ [UiNext]_allVars => UiInv'
<1> SUFFICES ASSUME UiInv, [UiNext]_allVars PROVE UiInv'
    OBVIOUS
<1>1. EngineInv'
  <2>1. CASE UiNext
        BY <2>1, EngineInvStep DEF UiInv
  <2>2. CASE UNCHANGED allVars
    <3>1. UNCHANGED vars
          BY <2>2 DEF allVars
    <3> QED BY <3>1, TypeStep, ConfigStep, CadenceStep, PauseStep DEF UiInv, EngineInv
  <2> QED BY <2>1, <2>2
<1> QED BY <1>1, UiTypedStep, ToldStep, NoMissedStep DEF UiInv, EngineInv

\* Once every call is made and handled the engine does what the window asks for.
\* (sync_surface_visibility, update_demand, run_loop)
LEMMA UiInvMatches == UiInv => EngineMatchesWindow
<1> SUFFICES ASSUME UiInv, Settled PROVE EngineMatchesWindow
    BY DEF EngineMatchesWindow
<1>1. todo = <<>> /\ queue = <<>> /\ pc \in {"top", "wait"} /\ ~selfPaused /\ (painted => visible)
      BY DEF Settled
<1>2. /\ want.sending = None /\ want.demand = lastDemand
      /\ want.background = ~visible \/ (visible /\ want.background = None)
      /\ speed # Paused => want.interval = IntervalFor(visible)
      /\ want.paused <=> speed = Paused
      BY <1>1, ToldNil DEF UiInv
<1>3. Live /\ HeldDemand = collector.demand /\ HeldBackground = collector.background
      BY <1>1 DEF Live, HeldDemand, HeldBackground
<1>4. collector.demand = want.demand /\ collector.background = want.background /\ interval = want.interval
      BY <1>1, <1>2, <1>3, SettledNil DEF UiInv, EngineInv, ConfigInv
<1>5. state = "Paused" <=> speed = Paused
  <2>1. NoneIn(queue, PauseCmds)
        BY <1>1 DEF NoneIn
  <2>2. want.paused <=> HeldPause
        BY <1>1, <1>3, <2>1 DEF UiInv, EngineInv, PauseInv
  <2>3. ~pending.paused
        BY <1>1 DEF UiInv, EngineInv, CadenceInv
  <2> QED BY <1>2, <2>2, <2>3 DEF HeldPause
<1>6. visible \in BOOLEAN
      BY DEF UiInv, UiTyped
<1>7. collector.background \in {~visible} \cup (IF visible THEN {None} ELSE {})
      BY <1>2, <1>4, <1>6
<1>8. (state = "Paused") = (speed = Paused)
      BY <1>5
<1> QED BY <1>2, <1>4, <1>7, <1>8 DEF EngineMatchesWindow

\* However showing, hiding, page and speed changes interleave with the engine thread,
\* once both are settled the engine samples as the window asks, no publication is
\* missed, and the newest configuration wins. (app.rs, engine.rs)
THEOREM EngineFollowsWindow == UiSpec => WindowFollowed
<1>1. UiSpec => []UiInv
      BY UiInvInit, UiInvStep, PTL DEF UiSpec
<1>2. UiInv => UiTypeOK /\ NoMissedPublication
      BY DEF UiInv, EngineInv, UiTypeOK
<1> QED BY <1>1, <1>2, UiInvMatches, PTL DEF WindowFollowed

\* The window's calls are among those for which configuration is never lost.
THEOREM WindowConfigWins == UiSpec => []NewestConfigWins
<1>1. UiSpec => []UiInv
      BY UiInvInit, UiInvStep, PTL DEF UiSpec
<1>2. UiInv => NewestConfigWins
      BY ConfigImplies DEF UiInv, EngineInv
<1> QED BY <1>1, <1>2, PTL

-----------------------------------------------------------------------------
(* App history: the inductive invariant, in parts.                          *)

\* What replace_file has made of the temporary file. (persist.rs replace_file)
TempWritten ==
    /\ wpc # "recv" => wcur \in SaveCmd
    /\ WriterAlive /\ wpc \in {"sync", "rename"} =>
           tempFile.kind = "good" /\ tempFile.fresh /\ tempFile.total = wcur.total
    /\ WriterAlive /\ wpc = "rename" => tempFile.synced

FileWhole == file.kind # "torn" /\ file.synced

\* Nothing is counted before the load is over or known to be slow. (observe)
TotalsHeld == entries = truth /\ (loading /\ ~observing => entries = 0)

\* Nothing is written while the load is outstanding. (enqueue_save)
LoadQuiet ==
    WriterAlive /\ loading =>
        wq = <<>> /\ pendingAdd = NoValue /\ wpc = "recv" /\ lifeOf # "flushing"

\* Saves are queued in the order of their generations. (save_async, WriterMsg)
Saves == {i \in 1..Len(wq) : wq[i].op = "Save"}
Ascending ==
    lifeOf \in {"running", "flushing"} =>
        /\ \A i, j \in Saves : i < j => wq[i].gen < wq[j].gen
        /\ \A i \in Saves : wq[i].gen <= generation
        /\ pendingAdd # NoValue =>
               pendingAdd.gen <= generation /\ \A i \in Saves : pendingAdd.gen < wq[i].gen

\* Only the exit flushes, and nothing is queued behind its flush. (save)
FlushLast ==
    /\ lifeOf = "running" => Saves = 1..Len(wq)
    /\ lifeOf = "flushing" => Len(wq) > 0 /\ Saves = 1..(Len(wq) - 1)

NoMishap == mishaps \cap {"writeFailed", "flushTimeout", "movedFresh"} = {}
Saved == file.kind = "good" /\ file.total = entries /\ file.fresh

\* The exit's save is in the channel, or pending, or being written, or on the
\* disk. (save, history_writer_loop)
ExitSaveHeld ==
    lifeOf = "flushing" /\ NoMishap =>
        \/ Len(wq) > 1 /\ wq[Len(wq) - 1].total = entries
        \/ Len(wq) = 1 /\ pendingAdd # NoValue /\ pendingAdd.total = entries
        \/ Len(wq) = 1 /\ pendingAdd = NoValue /\ wpc # "recv" /\ wcur.total = entries
        \/ Len(wq) = 1 /\ pendingAdd = NoValue /\ wpc = "recv" /\ Saved

\* Once the flush is answered the writer has nothing left that could replace it.
ExitSaveDone ==
    lifeOf = "flushed" /\ ~loading /\ NoMishap =>
        wq = <<>> /\ pendingAdd = NoValue /\ wpc = "recv" /\ Saved

HistoryInv ==
    /\ HistoryTypeOK
    /\ TempWritten /\ FileWhole
    /\ TotalsHeld /\ LoadQuiet
    /\ Ascending /\ FlushLast /\ ExitSaveHeld /\ ExitSaveDone

\* While the load is outstanding, an answer without totals means that the file
\* is gone or could not be moved; once it is over, the file was adopted, wiped,
\* moved aside or written by this session. It needs the loader thread to have
\* started. (read_db_text, poll_load)
Kept == settled \/ file.fresh
Aside == file.kind = "absent" \/ "asideFailed" \in mishaps
UnreadHeld ==
    WriterAlive =>
        /\ loading /\ loader \in {"send", "done"} /\ text.kind = "absent" => Aside
        /\ ~loading => Kept \/ Aside

-----------------------------------------------------------------------------
(* The first state, and the types.                                          *)

\* The invariant holds before the first session. (open_deferred)
LEMMA InitHistory == HistoryInit => HistoryInv /\ UnreadHeld
  <1> SUFFICES ASSUME HistoryInit PROVE HistoryInv /\ UnreadHeld
    OBVIOUS
  <1>1. NoFile \in File /\ NoFile.kind # "torn" /\ NoFile.synced
    BY DEF NoFile, File
  <1>2. file \in File /\ file.kind # "torn" /\ file.synced
    <2>1. CASE file = NoFile
      BY <1>1, <2>1
    <2>2. CASE file \in [kind : {"good", "corrupt", "unreadable"}, total : {1}, fresh : {FALSE}, synced : {TRUE}]
      <3>1. file = [kind |-> file.kind, total |-> file.total, fresh |-> file.fresh, synced |-> file.synced]
        BY <2>2
      <3>2. file.kind \in {"good", "corrupt", "unreadable"}
        BY <2>2
      <3>3. file.total = 1
        BY <2>2
      <3>4. file.fresh = FALSE /\ file.synced = TRUE
        BY <2>2, Zenon
      <3>5. file.total \in Nat
        BY ONLY <3>3
      <3>6. file.fresh \in BOOLEAN /\ file.synced \in BOOLEAN
        BY <3>4, Zenon
      <3>7. file.kind \in {"absent", "good", "corrupt", "unreadable", "torn"} /\ file.kind # "torn"
        BY <3>2
      <3>8. file \in File
        BY ONLY <3>1, <3>5, <3>6, <3>7, Zenon DEF File
      <3> QED BY <3>4, <3>7, <3>8, Zenon
    <2> QED BY <2>1, <2>2 DEF HistoryInit, OldFiles
  <1>3. wq \in Seq(SaveCmd \cup [op : {"Flush"}]) /\ mishaps \subseteq {"movedFresh", "asideFailed", "writeFailed", "flushTimeout"}
    BY DEF HistoryInit
  <1>a. {file, tempFile, asideFile, text} \subseteq File
    BY <1>1, <1>2 DEF HistoryInit
  <1>b. {entries, generation, sessions, observed, truth} \subseteq Nat
    BY DEF HistoryInit
  <1>c. {loading, observing, saveAfterLoad, rxOpen, settled} \subseteq BOOLEAN
    BY DEF HistoryInit
  <1>d. /\ loader = "none" /\ wpc = "recv" /\ lifeOf = "ended"
        /\ pendingAdd \in SaveCmd \cup {NoValue} /\ wcur \in SaveCmd \cup {NoValue}
    BY DEF HistoryInit
  <1>4. HistoryTypeOK
    BY <1>3, <1>a, <1>b, <1>c, <1>d DEF HistoryTypeOK
  <1>5. Ascending /\ FlushLast /\ ExitSaveHeld /\ ExitSaveDone
    BY DEF HistoryInit, Ascending, FlushLast, ExitSaveHeld, ExitSaveDone
  <1> QED BY <1>2, <1>4, <1>5 DEF HistoryInit, HistoryInv, UnreadHeld, TempWritten, FileWhole, TotalsHeld, LoadQuiet, WriterAlive

\* A save is queued with a generation of its own, or deferred. (enqueue_save)
LEMMA EnqueueTyped ==
    ASSUME HistoryTypeOK, NEW l \in BOOLEAN, NEW t \in Nat, EnqueueSave(l, t)
    PROVE  /\ saveAfterLoad' \in BOOLEAN /\ generation' \in Nat
           /\ wq' \in Seq(SaveCmd \cup [op : {"Flush"}])
  <1>1. [op |-> "Save", gen |-> generation + 1, total |-> t] \in SaveCmd
    BY DEF HistoryTypeOK, SaveCmd
  <1>2. generation \in Nat /\ saveAfterLoad \in BOOLEAN /\ wq \in Seq(SaveCmd \cup [op : {"Flush"}])
    BY DEF HistoryTypeOK
  <1>3. Append(wq, [op |-> "Save", gen |-> generation + 1, total |-> t]) \in Seq(SaveCmd \cup [op : {"Flush"}])
    BY <1>1, <1>2
  <1>4. CASE l
    <2>1. saveAfterLoad' = TRUE /\ generation' = generation /\ wq' = wq
      BY <1>4 DEF EnqueueSave
    <2> QED BY <1>2, <2>1
  <1>5. CASE ~l
    <2>1. /\ saveAfterLoad' = FALSE /\ generation' = generation + 1
          /\ wq' = Append(wq, [op |-> "Save", gen |-> generation + 1, total |-> t])
      BY <1>5, Zenon DEF EnqueueSave
    <2>2. wq' \in Seq(SaveCmd \cup [op : {"Flush"}])
      BY <1>3, <2>1, Zenon
    <2>3. generation' \in Nat
      BY <1>2, <2>1
    <2>4. saveAfterLoad' \in BOOLEAN
      BY <2>1, Zenon
    <2> QED BY <2>2, <2>3, <2>4
  <1> QED BY <1>4, <1>5

\* set_aside keeps the types. (persist.rs set_aside)
LEMMA AsideTyped ==
    ASSUME HistoryTypeOK, HistorySetAside
    PROVE  {file', asideFile'} \subseteq File
           /\ mishaps' \subseteq {"movedFresh", "asideFailed", "writeFailed", "flushTimeout"}
  <1>1. NoFile \in File
    BY DEF NoFile, File
  <1> QED BY <1>1 DEF HistoryTypeOK, HistorySetAside

\* Every step of the UI thread keeps the types. (AppHistoryDb)
LEMMA HistoryUiTyped == ASSUME HistoryTypeOK, UiStep PROVE HistoryTypeOK'
  <1> USE DEF historyDiskVars, dbVars, loaderVars, historyWriterVars, runVars, ghostVars
  <1>0. entries \in Nat /\ truth \in Nat /\ generation \in Nat /\ observed \in Nat /\ loading \in BOOLEAN
    BY DEF HistoryTypeOK
  <1>1. CASE PollLoaded
    <2>1. text.total \in Nat /\ Merged(text.total) \in Nat
      BY <1>0 DEF HistoryTypeOK, File, Merged
    <2>2. \A t \in Nat : FinishLoad(t) =>
              /\ loading' \in BOOLEAN /\ rxOpen' \in BOOLEAN /\ saveAfterLoad' \in BOOLEAN /\ generation' \in Nat
              /\ wq' \in Seq(SaveCmd \cup [op : {"Flush"}])
      BY EnqueueTyped DEF FinishLoad, HistoryTypeOK
    <2>3. CASE /\ text.kind = "good" /\ entries' = Merged(text.total) /\ truth' = truth + text.total
               /\ settled' = TRUE /\ FinishLoad(Merged(text.total)) /\ UNCHANGED <<file, asideFile, mishaps>>
      BY <1>0, <1>1, <2>1, <2>2, <2>3 DEF PollLoaded, HistoryTypeOK
    <2>4. CASE HistorySetAside /\ FinishLoad(entries) /\ UNCHANGED <<entries, truth, settled>>
      BY <1>0, <1>1, <2>2, <2>4, AsideTyped DEF PollLoaded, HistoryTypeOK
    <2>5. CASE FinishLoad(entries) /\ UNCHANGED <<entries, truth, settled, file, asideFile, mishaps>>
      BY <1>0, <1>1, <2>2, <2>5 DEF PollLoaded, HistoryTypeOK
    <2> QED BY <1>1, <2>3, <2>4, <2>5 DEF PollLoaded
  <1>2. CASE PollTimeout
    BY <1>2 DEF PollTimeout, HistoryTypeOK
  <1>3. CASE Observe
    BY <1>0, <1>3 DEF Observe, HistoryTypeOK
  <1>4. CASE Clear
    <2>1. saveAfterLoad' \in BOOLEAN /\ generation' \in Nat /\ wq' \in Seq(SaveCmd \cup [op : {"Flush"}])
      BY <1>4, EnqueueTyped DEF Clear
    <2>2. /\ UNCHANGED <<file, tempFile, asideFile, text, sessions, observed, observing, loader, pendingAdd, wpc, wcur, lifeOf, mishaps>>
          /\ loading' = FALSE /\ rxOpen' = FALSE /\ entries' = 0 /\ truth' = 0 /\ settled' = TRUE
      BY <1>4 DEF Clear
    <2>3. {entries', generation', sessions', observed', truth'} \subseteq Nat
      BY <2>1, <2>2 DEF HistoryTypeOK
    <2>4. {loading', observing', saveAfterLoad', rxOpen', settled'} \subseteq BOOLEAN
      BY <2>1, <2>2 DEF HistoryTypeOK
    <2> QED BY <2>1, <2>2, <2>3, <2>4 DEF HistoryTypeOK
  <1>5. CASE SaveAsync
    BY <1>0, <1>5, EnqueueTyped DEF SaveAsync, HistoryTypeOK
  <1>6. CASE ExitSave
    <2>1. <<[op |-> "Save", gen |-> generation + 1, total |-> entries], [op |-> "Flush"]>>
              \in Seq(SaveCmd \cup [op : {"Flush"}])
      BY <1>0 DEF SaveCmd
    <2>a. wq \in Seq(SaveCmd \cup [op : {"Flush"}])
      BY DEF HistoryTypeOK
    <2>b. wq \o <<[op |-> "Save", gen |-> generation + 1, total |-> entries], [op |-> "Flush"]>>
              \in Seq(SaveCmd \cup [op : {"Flush"}])
      BY <2>1, <2>a, ConcatProperties
    <2>2. wq' \in Seq(SaveCmd \cup [op : {"Flush"}]) /\ generation' \in Nat
      <3>1. CASE loading
        <4>1. wq' = wq /\ generation' = generation
          BY <1>6, <3>1 DEF ExitSave
        <4> QED BY <1>0, <2>a, <4>1
      <3>2. CASE ~loading
        <4>1. /\ wq' = wq \o <<[op |-> "Save", gen |-> generation + 1, total |-> entries], [op |-> "Flush"]>>
              /\ generation' = generation + 1
          BY <1>6, <3>2 DEF ExitSave
        <4>2. wq' \in Seq(SaveCmd \cup [op : {"Flush"}])
          BY ONLY <2>b, <4>1
        <4> QED BY <1>0, <4>1, <4>2
      <3> QED BY <3>1, <3>2
    <2> QED BY <1>6, <2>2 DEF ExitSave, HistoryTypeOK
  <1>7. CASE ExitFlushTimeout
    BY <1>7 DEF ExitFlushTimeout, HistoryTypeOK
  <1> QED BY <1>1, <1>2, <1>3, <1>4, <1>5, <1>6, <1>7 DEF UiStep

\* The loader and the writer keep the types. (read_db_text, history_writer_loop)
LEMMA ThreadTyped == ASSUME HistoryInv, LoaderStep \/ WriterStep \/ WriterFails PROVE HistoryTypeOK'
  <1> USE DEF historyDiskVars, dbVars, loaderVars, historyWriterVars, runVars, ghostVars
  <1>0. NoFile \in File
    BY DEF NoFile, File
  <1>a. HistoryTypeOK
    BY DEF HistoryInv
  <1> USE <1>a
  <1>1. CASE LoaderRead
    BY <1>0, <1>1 DEF LoaderRead, HistoryTypeOK
  <1>2. CASE LoaderSetAside
    BY <1>2, AsideTyped DEF LoaderSetAside, HistoryTypeOK
  <1>3. CASE LoaderSend
    BY <1>3 DEF LoaderSend, HistoryTypeOK
  <1>4. CASE WriterSave
    <2>1. Head(wq) \in SaveCmd /\ Tail(wq) \in Seq(SaveCmd \cup [op : {"Flush"}])
      <3>1. Head(wq) \in SaveCmd \cup [op : {"Flush"}] /\ Tail(wq) \in Seq(SaveCmd \cup [op : {"Flush"}])
        BY <1>4 DEF WriterSave, HistoryTypeOK
      <3> QED BY <1>4, <3>1 DEF WriterSave
    <2> QED BY <1>4, <2>1 DEF WriterSave, HistoryTypeOK
  <1>5. CASE WriterBegin
    BY <1>5 DEF WriterBegin, HistoryTypeOK
  <1>6. CASE WriterFlushed
    <2>1. Tail(wq) \in Seq(SaveCmd \cup [op : {"Flush"}])
      BY <1>6 DEF WriterFlushed, HistoryTypeOK
    <2> QED BY <1>6, <2>1 DEF WriterFlushed, HistoryTypeOK
  <1>7. CASE WriterCreate
    <2>1. wcur \in SaveCmd
      BY <1>7 DEF HistoryInv, TempWritten, WriterCreate
    <2>2. [kind |-> "good", total |-> wcur.total, fresh |-> TRUE, synced |-> FALSE] \in File
      BY <2>1 DEF File, SaveCmd
    <2> QED BY <1>7, <2>2 DEF WriterCreate, HistoryTypeOK
  <1>8. CASE WriterSync
    <2>1. [tempFile EXCEPT !.synced = TRUE] \in File
      BY DEF HistoryTypeOK, File
    <2> QED BY <1>8, <2>1 DEF WriterSync, HistoryTypeOK
  <1>9. CASE WriterRename
    BY <1>0, <1>9 DEF WriterRename, HistoryTypeOK
  <1>10. CASE WriterFails
    BY <1>10 DEF WriterFails, HistoryTypeOK
  <1> QED BY <1>1, <1>2, <1>3, <1>4, <1>5, <1>6, <1>7, <1>8, <1>9, <1>10 DEF LoaderStep, WriterStep

\* Restarts and the ends of a process keep the types. (open_deferred)
LEMMA MachineTyped == ASSUME HistoryTypeOK, ProcessEnds \/ HistoryPowerLoss \/ Restart PROVE HistoryTypeOK'
  <1> USE DEF historyDiskVars, dbVars, loaderVars, historyWriterVars, runVars, ghostVars
  <1>1. CASE ProcessEnds
    BY <1>1 DEF ProcessEnds, HistoryTypeOK
  <1>2. CASE HistoryPowerLoss
    <2>1. \A f \in File : Torn(f) \in File
      BY DEF File, Torn
    <2> QED BY <1>2, <2>1 DEF HistoryPowerLoss, HistoryTypeOK
  <1>3. CASE Restart
    <2>1. NoFile \in File /\ [file EXCEPT !.fresh = FALSE] \in File
      BY DEF HistoryTypeOK, NoFile, File
    <2>2. sessions + 1 \in Nat
      BY DEF HistoryTypeOK
    <2>3. PICK spawned \in BOOLEAN : Opened(spawned)
      BY <1>3 DEF Restart
    <2>4. <<>> \in Seq(SaveCmd \cup [op : {"Flush"}]) /\ {} \subseteq {"movedFresh", "asideFailed", "writeFailed", "flushTimeout"}
      OBVIOUS
    <2>5. {file', tempFile', asideFile', text'} \subseteq File /\ sessions' \in Nat
      BY <1>3, <2>1, <2>2, <2>3 DEF Restart, Opened, HistoryTypeOK
    <2>6. /\ entries' = 0 /\ generation' = 0 /\ observed' = 0 /\ truth' = 0
          /\ loading' \in BOOLEAN /\ observing' = FALSE /\ saveAfterLoad' = FALSE /\ rxOpen' \in BOOLEAN /\ settled' = FALSE
          /\ loader' \in {"start", "none"} /\ wq' = <<>> /\ pendingAdd' = NoValue /\ wcur' = NoValue /\ wpc' = "recv"
          /\ lifeOf' = "running" /\ mishaps' = {}
      BY <2>3 DEF Opened
    <2>7. {entries', generation', sessions', observed', truth'} \subseteq Nat
      BY <2>5, <2>6
    <2>8. {loading', observing', saveAfterLoad', rxOpen', settled'} \subseteq BOOLEAN
      BY <2>6
    <2>9. /\ loader' \in {"none", "start", "setAside", "send", "done"} /\ wq' \in Seq(SaveCmd \cup [op : {"Flush"}])
          /\ pendingAdd' \in SaveCmd \cup {NoValue} /\ wcur' \in SaveCmd \cup {NoValue}
          /\ wpc' \in {"recv", "create", "sync", "rename"} /\ lifeOf' \in {"running", "flushing", "flushed", "ended"}
          /\ mishaps' \subseteq {"movedFresh", "asideFailed", "writeFailed", "flushTimeout"}
      BY <2>4, <2>6
    <2> QED BY <2>5, <2>7, <2>8, <2>9 DEF HistoryTypeOK
  <1> QED BY <1>1, <1>2, <1>3

\* Every step keeps the types.
LEMMA HistoryTyped == HistoryInv /\ [HistoryNext]_historyVars => HistoryTypeOK'
  <1> SUFFICES ASSUME HistoryInv, [HistoryNext]_historyVars PROVE HistoryTypeOK'
    OBVIOUS
  <1>1. HistoryTypeOK
    BY DEF HistoryInv
  <1>2. CASE UNCHANGED historyVars
    BY <1>1, <1>2 DEF historyVars, historyDiskVars, dbVars, loaderVars, historyWriterVars, runVars, ghostVars, HistoryTypeOK
  <1> QED BY <1>1, <1>2, HistoryUiTyped, ThreadTyped, MachineTyped DEF HistoryNext

-----------------------------------------------------------------------------
(* The disk and the totals.                                                 *)

\* What the steps of the UI thread leave alone.
LEMMA UiFrame ==
    ASSUME UiStep
    PROVE  /\ UNCHANGED <<tempFile, pendingAdd, wpc, wcur, loader, text, sessions>> /\ lifeOf # "ended" /\ lifeOf' # "ended"
           /\ (UNCHANGED <<file, mishaps>> \/ HistorySetAside \/ (UNCHANGED file /\ lifeOf' = "flushed"))
  BY DEF UiStep, PollLoaded, PollTimeout, Observe, Clear, SaveAsync, ExitSave, ExitFlushTimeout,
         historyDiskVars, dbVars, loaderVars, historyWriterVars, runVars, ghostVars

\* set_aside leaves a whole file or none.
LEMMA AsideWhole == ASSUME FileWhole, HistorySetAside PROVE FileWhole'
  BY DEF FileWhole, HistorySetAside, NoFile

\* Every step keeps the temporary file what replace_file has made of it, and the
\* file whole: it is renamed over only after it was forced to the disk. (persist.rs)
LEMMA DiskKeeps == HistoryInv /\ [HistoryNext]_historyVars => TempWritten' /\ FileWhole'
  <1> SUFFICES ASSUME HistoryInv, [HistoryNext]_historyVars PROVE TempWritten' /\ FileWhole'
    OBVIOUS
  <1> USE DEF historyDiskVars, dbVars, loaderVars, historyWriterVars, runVars, ghostVars
  <1>0. HistoryTypeOK /\ TempWritten /\ FileWhole
    BY DEF HistoryInv
  <1>1. CASE UiStep
    <2>1. TempWritten'
      BY <1>0, <1>1, UiFrame DEF TempWritten, WriterAlive
    <2>2. FileWhole'
      BY <1>0, <1>1, UiFrame, AsideWhole DEF FileWhole
    <2> QED BY <2>1, <2>2
  <1>2. CASE LoaderStep
    <2>1. UNCHANGED <<tempFile, wpc, wcur, lifeOf>> /\ (UNCHANGED file \/ HistorySetAside)
      BY <1>2 DEF LoaderStep, LoaderRead, LoaderSetAside, LoaderSend
    <2>2. TempWritten'
      BY <1>0, <2>1 DEF TempWritten, WriterAlive
    <2>3. FileWhole'
      BY <1>0, <2>1, AsideWhole DEF FileWhole
    <2> QED BY <2>2, <2>3
  <1>3. CASE WriterSave
    BY <1>0, <1>3 DEF WriterSave, TempWritten, FileWhole, WriterAlive
  <1>4. CASE WriterBegin
    <2>1. pendingAdd \in SaveCmd
      BY <1>0, <1>4 DEF HistoryTypeOK, WriterBegin
    <2> QED BY <1>0, <1>4, <2>1 DEF WriterBegin, TempWritten, FileWhole
  <1>5. CASE WriterFlushed
    BY <1>0, <1>5 DEF WriterFlushed, TempWritten, FileWhole, WriterAlive
  <1>6. CASE WriterCreate
    <2>1. wpc = "create" /\ wpc' = "sync" /\ UNCHANGED <<file, wcur>>
          /\ tempFile'.kind = "good" /\ tempFile'.fresh /\ tempFile'.total = wcur.total
      BY <1>6 DEF WriterCreate
    <2> QED BY <1>0, <2>1 DEF TempWritten, FileWhole
  <1>7. CASE WriterSync
    <2>1. /\ wpc = "sync" /\ wpc' = "rename" /\ UNCHANGED <<file, wcur, lifeOf>>
          /\ tempFile'.kind = tempFile.kind /\ tempFile'.fresh = tempFile.fresh /\ tempFile'.total = tempFile.total
          /\ tempFile'.synced
      BY <1>0, <1>7 DEF WriterSync, HistoryTypeOK, File
    <2> QED BY <1>0, <1>7, <2>1 DEF TempWritten, FileWhole, WriterSync, WriterAlive
  <1>8. CASE WriterRename
    BY <1>0, <1>8 DEF WriterRename, TempWritten, FileWhole
  <1>9. CASE WriterFails
    BY <1>0, <1>9 DEF WriterFails, TempWritten, FileWhole
  <1>10. CASE ProcessEnds
    BY <1>0, <1>10 DEF ProcessEnds, TempWritten, FileWhole, WriterAlive
  <1>11. CASE HistoryPowerLoss
    <2>1. file' = file
      BY <1>0, <1>11 DEF HistoryPowerLoss, FileWhole, Torn
    <2> QED BY <1>0, <1>11, <2>1 DEF HistoryPowerLoss, TempWritten, FileWhole, WriterAlive
  <1>12. CASE Restart
    <2>1. file'.kind = file.kind /\ file'.synced = file.synced
      BY <1>0, <1>12 DEF Restart, HistoryTypeOK, File
    <2>2. wpc' = "recv"
      BY <1>12 DEF Restart, Opened
    <2> QED BY <1>0, <2>1, <2>2 DEF TempWritten, FileWhole
  <1>13. CASE UNCHANGED historyVars
    BY <1>0, <1>13 DEF historyVars, TempWritten, FileWhole, WriterAlive
  <1> QED BY <1>1, <1>2, <1>3, <1>4, <1>5, <1>6, <1>7, <1>8, <1>9, <1>10, <1>11, <1>12, <1>13
          DEF HistoryNext, WriterStep

\* A late answer adds the saved totals to what was observed meanwhile, and nothing
\* was observed before the wait was given up. (apply_loaded_file, observe)
LEMMA TotalsKeep == HistoryInv /\ [HistoryNext]_historyVars => TotalsHeld'
  <1> SUFFICES ASSUME HistoryInv, [HistoryNext]_historyVars PROVE TotalsHeld'
    OBVIOUS
  <1> USE DEF historyDiskVars, dbVars, loaderVars, historyWriterVars, runVars, ghostVars
  <1>0. /\ entries = truth /\ (loading /\ ~observing => entries = 0)
        /\ entries \in Nat /\ truth \in Nat /\ loading \in BOOLEAN /\ observing \in BOOLEAN
    BY DEF HistoryInv, TotalsHeld, HistoryTypeOK
  <1>1. CASE PollLoaded
    <2>1. loading /\ loading' = FALSE /\ text.total \in Nat
      BY <1>1 DEF PollLoaded, FinishLoad, HistoryInv, HistoryTypeOK, File
    <2>2. CASE entries' = Merged(text.total) /\ truth' = truth + text.total
      BY <1>0, <2>1, <2>2 DEF Merged, TotalsHeld
    <2>3. CASE UNCHANGED <<entries, truth>>
      BY <1>0, <2>1, <2>3 DEF TotalsHeld
    <2> QED BY <1>1, <2>2, <2>3 DEF PollLoaded
  <1>2. CASE PollTimeout
    BY <1>0, <1>2 DEF PollTimeout, TotalsHeld
  <1>3. CASE Observe
    BY <1>0, <1>3 DEF Observe, TotalsHeld
  <1>4. CASE Clear
    BY <1>4 DEF Clear, TotalsHeld
  <1>5. CASE UNCHANGED <<entries, truth, loading, observing>>
    BY <1>0, <1>5 DEF TotalsHeld
  <1>6. CASE Restart
    <2>1. entries' = 0 /\ truth' = 0
      BY <1>6 DEF Restart, Opened
    <2> QED BY <2>1 DEF TotalsHeld
  <1>7. SaveAsync \/ ExitSave \/ ExitFlushTimeout \/ LoaderStep \/ WriterStep \/ WriterFails \/ ProcessEnds
            \/ HistoryPowerLoss \/ UNCHANGED historyVars => UNCHANGED <<entries, truth, loading, observing>>
    BY DEF SaveAsync, ExitSave, ExitFlushTimeout, LoaderStep, LoaderRead, LoaderSetAside, LoaderSend,
           WriterStep, WriterSave, WriterBegin, WriterFlushed, WriterCreate, WriterSync, WriterRename,
           WriterFails, ProcessEnds, HistoryPowerLoss, historyVars
  <1> QED BY <1>1, <1>2, <1>3, <1>4, <1>5, <1>6, <1>7 DEF HistoryNext, UiStep

-----------------------------------------------------------------------------
(* The writer's pipeline.                                                   *)

\* While the load is outstanding a save is only noted. (enqueue_save)
LEMMA HistoryQuiet == HistoryInv /\ [HistoryNext]_historyVars => LoadQuiet'
  <1> SUFFICES ASSUME HistoryInv, [HistoryNext]_historyVars PROVE LoadQuiet'
    OBVIOUS
  <1> USE DEF historyDiskVars, dbVars, loaderVars, historyWriterVars, runVars, ghostVars
  <1>0. LoadQuiet
    BY DEF HistoryInv
  <1>1. CASE PollLoaded \/ Clear
    <2>1. loading' = FALSE
      BY <1>1 DEF PollLoaded, Clear, FinishLoad
    <2> QED BY <2>1 DEF LoadQuiet
  <1>2. CASE SaveAsync
    BY <1>0, <1>2 DEF SaveAsync, EnqueueSave, LoadQuiet, WriterAlive
  <1>3. CASE ExitSave
    BY <1>0, <1>3 DEF ExitSave, LoadQuiet, WriterAlive
  <1>4. CASE PollTimeout \/ Observe \/ ExitFlushTimeout \/ LoaderStep \/ UNCHANGED historyVars
    <2>1. UNCHANGED <<loading, wq, pendingAdd, wpc>> /\ (UNCHANGED lifeOf \/ (lifeOf = "flushing" /\ lifeOf' = "flushed"))
      BY <1>4 DEF PollTimeout, Observe, ExitFlushTimeout, LoaderStep, LoaderRead, LoaderSetAside, LoaderSend, historyVars
    <2> QED BY <1>0, <2>1 DEF LoadQuiet, WriterAlive
  <1>5. CASE WriterStep \/ WriterFails
    <2>1. /\ UNCHANGED loading /\ WriterAlive
          /\ wq # <<>> \/ pendingAdd # NoValue \/ wpc # "recv"
      BY <1>5 DEF WriterStep, WriterSave, WriterBegin, WriterFlushed, WriterCreate, WriterSync, WriterRename, WriterFails
    <2> QED BY <1>0, <2>1 DEF LoadQuiet
  <1>6. CASE ProcessEnds \/ HistoryPowerLoss
    BY <1>6 DEF ProcessEnds, HistoryPowerLoss, LoadQuiet, WriterAlive
  <1>7. CASE Restart
    BY <1>7 DEF Restart, Opened, LoadQuiet
  <1> QED BY <1>1, <1>2, <1>3, <1>4, <1>5, <1>6, <1>7 DEF HistoryNext, UiStep

\* A save joins the channel behind the saves that are in it. (enqueue_save)
LEMMA SaveQueued ==
    ASSUME HistoryInv, lifeOf = "running", lifeOf' = "running", UNCHANGED pendingAdd,
           NEW t \in Nat, generation' = generation + 1,
           wq' = Append(wq, [op |-> "Save", gen |-> generation + 1, total |-> t])
    PROVE  Ascending' /\ FlushLast'
  <1> DEFINE s == [op |-> "Save", gen |-> generation + 1, total |-> t]
  <1>1. wq \in Seq(SaveCmd \cup [op : {"Flush"}]) /\ generation \in Nat /\ pendingAdd \in SaveCmd \cup {NoValue}
    BY DEF HistoryInv, HistoryTypeOK
  <1>2. /\ Len(wq) \in Nat /\ Len(wq') = Len(wq) + 1 /\ wq'[Len(wq) + 1] = s
        /\ \A i \in 1..Len(wq) : wq'[i] = wq[i] /\ wq[i] \in SaveCmd \cup [op : {"Flush"}]
    BY <1>1
  <1>3. s.op = "Save" /\ s.gen = generation + 1
    OBVIOUS
  <1> HIDE DEF s
  <1>4. Saves = 1..Len(wq)
    BY DEF HistoryInv, FlushLast
  <1>5. Saves' = 1..Len(wq')
    BY <1>2, <1>3, <1>4 DEF Saves
  <1>6. \A i \in 1..Len(wq) : wq[i].gen \in Nat /\ wq[i].gen <= generation
    BY <1>2, <1>4 DEF HistoryInv, Ascending, SaveCmd, Saves
  <1>7. \A i, j \in Saves' : i < j => wq'[i].gen < wq'[j].gen
    <2> SUFFICES ASSUME NEW i \in Saves', NEW j \in Saves', i < j PROVE wq'[i].gen < wq'[j].gen
      OBVIOUS
    <2>1. i \in 1..Len(wq) /\ (j \in 1..Len(wq) \/ j = Len(wq) + 1)
      BY <1>2, <1>5
    <2>2. CASE j \in 1..Len(wq)
      BY <1>2, <1>4, <2>1, <2>2 DEF HistoryInv, Ascending
    <2>3. CASE j = Len(wq) + 1
      BY <1>1, <1>2, <1>3, <1>6, <2>1, <2>3
    <2> QED BY <2>1, <2>2, <2>3
  <1>8. \A i \in Saves' : wq'[i].gen <= generation'
    BY <1>1, <1>2, <1>3, <1>5, <1>6
  <1>9. ASSUME pendingAdd # NoValue
        PROVE  pendingAdd.gen <= generation' /\ \A i \in Saves' : pendingAdd.gen < wq'[i].gen
    <2>1. pendingAdd.gen \in Nat /\ pendingAdd.gen <= generation /\ \A i \in Saves : pendingAdd.gen < wq[i].gen
      BY <1>1, <1>9 DEF HistoryInv, Ascending, SaveCmd
    <2> QED BY <1>1, <1>2, <1>3, <1>4, <1>5, <2>1
  <1> QED BY <1>5, <1>7, <1>8, <1>9 DEF Ascending, FlushLast

\* The exit queues its save, then its flush. (save)
LEMMA ExitQueued ==
    ASSUME HistoryInv, ExitSave, ~loading
    PROVE  /\ Ascending' /\ FlushLast' /\ lifeOf' = "flushing"
           /\ Len(wq') > 1 /\ wq'[Len(wq') - 1].total = entries /\ UNCHANGED entries
  <1> DEFINE s == [op |-> "Save", gen |-> generation + 1, total |-> entries]
             f == [op |-> "Flush"]
  <1>1. /\ wq \in Seq(SaveCmd \cup [op : {"Flush"}]) /\ generation \in Nat /\ entries \in Nat
        /\ pendingAdd \in SaveCmd \cup {NoValue}
    BY DEF HistoryInv, HistoryTypeOK
  <1>2. /\ wq' = wq \o <<s, f>> /\ generation' = generation + 1 /\ lifeOf = "running" /\ lifeOf' = "flushing"
        /\ UNCHANGED <<pendingAdd, entries>>
    BY DEF ExitSave
  <1>3. s.op = "Save" /\ s.gen = generation + 1 /\ s.total = entries /\ f.op = "Flush" /\ s \in SaveCmd
        /\ f \in [op : {"Flush"}]
    BY <1>1 DEF SaveCmd
  <1> HIDE DEF s, f
  <1>4. /\ Len(wq) \in Nat /\ Len(wq') = Len(wq) + 2 /\ wq'[Len(wq) + 1] = s /\ wq'[Len(wq) + 2] = f
        /\ \A i \in 1..Len(wq) : wq'[i] = wq[i] /\ wq[i] \in SaveCmd \cup [op : {"Flush"}]
    BY <1>1, <1>2, <1>3
  <1>5. Saves = 1..Len(wq)
    BY <1>2 DEF HistoryInv, FlushLast
  <1>6. Saves' = 1..(Len(wq) + 1)
    <2>1. \A i \in 1..Len(wq) : wq'[i].op = "Save"
      BY <1>4, <1>5 DEF Saves
    <2>2. \A i \in 1..Len(wq') : i \in 1..Len(wq) \/ i = Len(wq) + 1 \/ i = Len(wq) + 2
      BY <1>4
    <2> QED BY <1>3, <1>4, <2>1, <2>2 DEF Saves
  <1>7. \A i \in 1..Len(wq) : wq[i].gen \in Nat /\ wq[i].gen <= generation
    BY <1>2, <1>4, <1>5 DEF HistoryInv, Ascending, SaveCmd, Saves
  <1>8. \A i, j \in Saves' : i < j => wq'[i].gen < wq'[j].gen
    <2> SUFFICES ASSUME NEW i \in Saves', NEW j \in Saves', i < j PROVE wq'[i].gen < wq'[j].gen
      OBVIOUS
    <2>1. i \in 1..Len(wq) /\ (j \in 1..Len(wq) \/ j = Len(wq) + 1)
      BY <1>4, <1>6
    <2>2. CASE j \in 1..Len(wq)
      BY <1>2, <1>4, <1>5, <2>1, <2>2 DEF HistoryInv, Ascending
    <2>3. CASE j = Len(wq) + 1
      BY <1>1, <1>3, <1>4, <1>7, <2>1, <2>3
    <2> QED BY <2>1, <2>2, <2>3
  <1>9. \A i \in Saves' : wq'[i].gen <= generation'
    BY <1>1, <1>2, <1>3, <1>4, <1>6, <1>7
  <1>10. ASSUME pendingAdd # NoValue
         PROVE  pendingAdd.gen <= generation' /\ \A i \in Saves' : pendingAdd.gen < wq'[i].gen
    <2>1. pendingAdd.gen \in Nat /\ pendingAdd.gen <= generation /\ \A i \in Saves : pendingAdd.gen < wq[i].gen
      BY <1>1, <1>2, <1>10 DEF HistoryInv, Ascending, SaveCmd
    <2>2. ASSUME NEW i \in Saves' PROVE pendingAdd.gen < wq'[i].gen
      <3>1. i \in 1..Len(wq) \/ i = Len(wq) + 1
        BY <1>4, <1>6, <2>2
      <3>2. CASE i \in 1..Len(wq)
        BY <1>4, <1>5, <2>1, <3>2
      <3>3. CASE i = Len(wq) + 1
        BY <1>1, <1>3, <1>4, <2>1, <3>3
      <3> QED BY <3>1, <3>2, <3>3
    <2>3. pendingAdd.gen <= generation'
      <3>1. generation \in Nat /\ generation' = generation + 1
        BY <1>1, <1>2
      <3> QED BY ONLY <2>1, <3>1
    <2> QED BY <2>2, <2>3
  <1>11. Ascending'
    BY <1>2, <1>8, <1>9, <1>10 DEF Ascending
  <1>12. FlushLast'
    BY <1>2, <1>4, <1>6 DEF FlushLast
  <1> QED BY <1>2, <1>3, <1>4, <1>11, <1>12

\* The writer takes the next save, which is newer than the one it holds.
\* (history_writer_loop)
LEMMA SaveTaken ==
    ASSUME HistoryInv, WriterSave, lifeOf \in {"running", "flushing"}
    PROVE  /\ Ascending' /\ FlushLast' /\ pendingAdd' = wq[1] /\ pendingAdd' # NoValue
           /\ Len(wq) \in Nat /\ Len(wq) > 0 /\ Len(wq') = Len(wq) - 1
           /\ \A i \in 1..Len(wq') : wq'[i] = wq[i + 1]
  <1>1. wq \in Seq(SaveCmd \cup [op : {"Flush"}]) /\ generation \in Nat /\ pendingAdd \in SaveCmd \cup {NoValue}
    BY DEF HistoryInv, HistoryTypeOK
  <1>2. wq # <<>> /\ wq[1].op = "Save" /\ wq' = Tail(wq) /\ Head(wq) = wq[1] /\ UNCHANGED <<lifeOf, generation>>
    BY <1>1 DEF WriterSave, runVars, dbVars
  <1>3. /\ Len(wq) \in Nat /\ Len(wq) > 0 /\ Len(wq') = Len(wq) - 1
        /\ \A i \in 1..Len(wq') : wq'[i] = wq[i + 1]
        /\ \A i \in 1..Len(wq) : wq[i] \in SaveCmd \cup [op : {"Flush"}]
    BY <1>1, <1>2
  <1>4. 1 \in Saves /\ \A i \in Saves : i \in 1..Len(wq) /\ wq[i] \in SaveCmd /\ wq[i].gen \in Nat
    BY <1>2, <1>3 DEF Saves, SaveCmd
  <1>5. \A i \in 1..Len(wq') : i \in Saves' <=> i + 1 \in Saves
    BY <1>3 DEF Saves
  <1>6. Saves' \subseteq 1..Len(wq')
    BY DEF Saves
  <1>7. Ascending
    BY DEF HistoryInv
  <1>8. pendingAdd' = wq[1]
    <2>1. CASE pendingAdd = NoValue
      BY <1>2, <2>1 DEF WriterSave
    <2>2. CASE pendingAdd # NoValue
      <3>1. pendingAdd.gen < wq[1].gen
        BY <1>4, <1>7, <2>2 DEF Ascending
      <3> QED BY <1>2, <2>2, <3>1 DEF WriterSave
    <2> QED BY <2>1, <2>2
  <1>9. wq[1] # NoValue /\ wq[1].gen <= generation
    BY <1>4, <1>7, HistoryAssumption DEF Ascending
  <1>10. \A i \in Saves' : wq[1].gen < wq'[i].gen /\ wq'[i].gen <= generation
    <2> SUFFICES ASSUME NEW i \in Saves' PROVE wq[1].gen < wq'[i].gen /\ wq'[i].gen <= generation
      OBVIOUS
    <2>1. i \in 1..Len(wq') /\ i + 1 \in Saves /\ 1 < i + 1 /\ wq'[i] = wq[i + 1]
      BY <1>3, <1>5, <1>6
    <2> QED BY <1>4, <1>7, <2>1 DEF Ascending
  <1>11. \A i, j \in Saves' : i < j => wq'[i].gen < wq'[j].gen
    <2> SUFFICES ASSUME NEW i \in Saves', NEW j \in Saves', i < j PROVE wq'[i].gen < wq'[j].gen
      OBVIOUS
    <2>1. i \in 1..Len(wq') /\ j \in 1..Len(wq') /\ i + 1 \in Saves /\ j + 1 \in Saves /\ i + 1 < j + 1
      BY <1>3, <1>5, <1>6
    <2> QED BY <1>3, <1>7, <2>1 DEF Ascending
  <1>12. Ascending'
    BY <1>2, <1>8, <1>9, <1>10, <1>11 DEF Ascending
  <1>13. FlushLast'
    <2>1. CASE lifeOf = "running"
      <3>1. Saves = 1..Len(wq)
        BY <2>1 DEF HistoryInv, FlushLast
      <3>2. \A i \in 1..Len(wq') : i + 1 \in 1..Len(wq)
        BY <1>3
      <3>3. Saves' = 1..Len(wq')
        BY <1>5, <1>6, <3>1, <3>2
      <3> QED BY <1>2, <2>1, <3>3 DEF FlushLast
    <2>2. CASE lifeOf = "flushing"
      <3>1. Saves = 1..(Len(wq) - 1)
        BY <2>2 DEF HistoryInv, FlushLast
      <3>2. Len(wq) > 1
        BY <1>3, <1>4, <3>1
      <3>a. \A i \in 1..Len(wq') : i \in 1..(Len(wq') - 1) <=> i + 1 \in 1..(Len(wq) - 1)
        BY <1>3
      <3>b. \A i \in 1..(Len(wq') - 1) : i \in 1..Len(wq')
        BY <1>3
      <3>3. Saves' = 1..(Len(wq') - 1)
        BY <1>5, <1>6, <3>1, <3>a, <3>b
      <3> QED BY <1>2, <1>3, <2>2, <3>2, <3>3 DEF FlushLast
    <2> QED BY <2>1, <2>2
  <1> QED BY <1>3, <1>8, <1>9, <1>12, <1>13

\* The order of the queue survives every step. (history_writer_loop)
LEMMA QueueKeeps == HistoryInv /\ [HistoryNext]_historyVars => Ascending' /\ FlushLast'
  <1> SUFFICES ASSUME HistoryInv, [HistoryNext]_historyVars PROVE Ascending' /\ FlushLast'
    OBVIOUS
  <1> USE DEF historyDiskVars, dbVars, loaderVars, historyWriterVars, runVars, ghostVars
  <1>0. Ascending /\ FlushLast /\ entries \in Nat /\ text.total \in Nat /\ Merged(text.total) \in Nat
    BY DEF HistoryInv, HistoryTypeOK, File, Merged
  <1>a. ASSUME UNCHANGED <<wq, pendingAdd, generation>>, UNCHANGED lifeOf \/ lifeOf' \in {"flushed", "ended"}
        PROVE  Ascending' /\ FlushLast'
    BY <1>0, <1>a DEF Ascending, FlushLast, Saves
  <1>b. ASSUME NEW t \in Nat, EnqueueSave(FALSE, t), lifeOf = "running", UNCHANGED <<lifeOf, pendingAdd>>
        PROVE  Ascending' /\ FlushLast'
    BY <1>b, SaveQueued DEF EnqueueSave
  <1>1. CASE PollLoaded
    <2>1. PICK t \in Nat : FinishLoad(t)
      BY <1>0, <1>1 DEF PollLoaded
    <2>2. lifeOf = "running" /\ UNCHANGED <<lifeOf, pendingAdd>>
      BY <1>1 DEF PollLoaded
    <2> QED BY <1>a, <1>b, <2>1, <2>2 DEF FinishLoad
  <1>2. CASE Clear
    BY <1>2, <1>b DEF Clear
  <1>3. CASE SaveAsync
    <2>1. CASE loading
      BY <1>3, <1>a, <2>1 DEF SaveAsync, EnqueueSave
    <2>2. CASE ~loading
      <3>1. EnqueueSave(FALSE, entries)
        BY <1>3, <2>2 DEF SaveAsync, EnqueueSave
      <3> QED BY <1>0, <1>3, <1>b, <3>1 DEF SaveAsync
    <2> QED BY <2>1, <2>2
  <1>4. CASE ExitSave
    <2>1. CASE loading
      BY <1>4, <1>a, <2>1 DEF ExitSave
    <2> QED BY <1>4, <2>1, ExitQueued
  <1>5. CASE WriterSave
    <2>1. CASE lifeOf \in {"running", "flushing"}
      BY <1>5, <2>1, SaveTaken
    <2>2. CASE lifeOf \notin {"running", "flushing"}
      BY <1>5, <2>2 DEF WriterSave, Ascending, FlushLast
    <2> QED BY <2>1, <2>2
  <1>6. CASE WriterBegin
    <2>1. UNCHANGED <<wq, generation, lifeOf>> /\ pendingAdd' = NoValue
      BY <1>6 DEF WriterBegin
    <2> QED BY <1>0, <2>1 DEF Ascending, FlushLast, Saves
  <1>7. CASE WriterFlushed
    <2>1. lifeOf # "running"
      <3> SUFFICES ASSUME lifeOf = "running" PROVE FALSE
        OBVIOUS
      <3>1. wq \in Seq(SaveCmd \cup [op : {"Flush"}]) /\ wq # <<>> /\ Head(wq).op = "Flush"
        BY <1>7 DEF WriterFlushed, HistoryInv, HistoryTypeOK
      <3>2. 1 \in 1..Len(wq) /\ wq[1].op = "Flush"
        BY <3>1
      <3> QED BY <1>0, <3>2 DEF FlushLast, Saves
    <2>2. lifeOf' \notin {"running", "flushing"}
      BY <1>7, <2>1 DEF WriterFlushed
    <2> QED BY <2>2 DEF Ascending, FlushLast
  <1>8. CASE Restart
    <2>1. wq' = <<>> /\ pendingAdd' = NoValue /\ lifeOf' = "running"
      BY <1>8 DEF Restart, Opened
    <2>2. Saves' = {} /\ Len(wq') = 0 /\ 1..0 = {}
      BY <2>1 DEF Saves
    <2> QED BY <2>1, <2>2 DEF Ascending, FlushLast
  <1>9. CASE PollTimeout \/ Observe \/ ExitFlushTimeout \/ LoaderStep \/ WriterCreate \/ WriterSync \/ WriterRename
             \/ WriterFails \/ ProcessEnds \/ HistoryPowerLoss \/ UNCHANGED historyVars
    <2>1. UNCHANGED <<wq, pendingAdd, generation>> /\ (UNCHANGED lifeOf \/ lifeOf' \in {"flushed", "ended"})
      BY <1>9 DEF PollTimeout, Observe, ExitFlushTimeout, LoaderStep, LoaderRead, LoaderSetAside, LoaderSend,
             WriterCreate, WriterSync, WriterRename, WriterFails, ProcessEnds, HistoryPowerLoss, historyVars
    <2> QED BY <1>a, <2>1
  <1> QED BY <1>1, <1>2, <1>3, <1>4, <1>5, <1>6, <1>7, <1>8, <1>9 DEF HistoryNext, UiStep, WriterStep

\* set_aside moves what this session wrote only with a mishap.
LEMMA AsideSpares ==
    ASSUME Saved, HistorySetAside, NoMishap', UNCHANGED entries
    PROVE  Saved'
  BY DEF Saved, HistorySetAside, NoMishap

\* What the writer's place in the exit's queue can be.
LEMMA Counted == \A n \in Nat : (n > 1 => n = 2 \/ n > 2) /\ (n > 0 /\ 1 \notin 1..(n - 1) => n = 1)
  OBVIOUS

\* The exit's save goes through the pipeline without being overtaken or dropped,
\* and nothing is behind it. (save, history_writer_loop, replace_file)
LEMMA HistoryExitKeeps == HistoryInv /\ [HistoryNext]_historyVars => ExitSaveHeld' /\ ExitSaveDone'
  <1> SUFFICES ASSUME HistoryInv, [HistoryNext]_historyVars PROVE ExitSaveHeld' /\ ExitSaveDone'
    OBVIOUS
  <1> USE DEF historyDiskVars, dbVars, loaderVars, historyWriterVars, runVars, ghostVars
  <1>0. /\ ExitSaveHeld /\ ExitSaveDone /\ FlushLast /\ TempWritten
        /\ wq \in Seq(SaveCmd \cup [op : {"Flush"}]) /\ Len(wq) \in Nat
    BY DEF HistoryInv, HistoryTypeOK
  <1>L. Len(wq) \in Nat
    BY <1>0
  <1>a. ASSUME lifeOf' \notin {"flushing", "flushed"} PROVE ExitSaveHeld' /\ ExitSaveDone'
    BY <1>a DEF ExitSaveHeld, ExitSaveDone
  <1>b. ASSUME ~NoMishap' PROVE ExitSaveHeld' /\ ExitSaveDone'
    BY <1>b DEF ExitSaveHeld, ExitSaveDone
  <1>1. CASE PollLoaded \/ PollTimeout \/ Observe \/ Clear \/ SaveAsync \/ ProcessEnds \/ HistoryPowerLoss \/ Restart
    <2>1. lifeOf' \in {"running", "ended"}
      BY <1>1 DEF PollLoaded, PollTimeout, Observe, Clear, SaveAsync, ProcessEnds, HistoryPowerLoss, Restart, Opened
    <2> QED BY <1>a, <2>1
  <1>2. CASE ExitSave
    <2>1. CASE loading
      BY <1>2, <2>1 DEF ExitSave, ExitSaveHeld, ExitSaveDone
    <2>2. CASE ~loading
      BY <1>2, <2>2, ExitQueued DEF ExitSaveHeld, ExitSaveDone
    <2> QED BY <2>1, <2>2
  <1>3. CASE ExitFlushTimeout
    BY <1>3, <1>b DEF ExitFlushTimeout, NoMishap
  <1>4. CASE LoaderRead \/ LoaderSend \/ UNCHANGED historyVars
    <2>1. UNCHANGED <<wq, pendingAdd, wpc, wcur, file, mishaps, entries, lifeOf, loading>>
      BY <1>4 DEF LoaderRead, LoaderSend, historyVars
    <2> QED BY <1>0, <2>1 DEF ExitSaveHeld, ExitSaveDone, Saved, NoMishap
  <1>5. CASE LoaderSetAside
    <2>1. UNCHANGED <<wq, pendingAdd, wpc, wcur, entries, lifeOf, loading>> /\ HistorySetAside
      BY <1>5 DEF LoaderSetAside
    <2>2. NoMishap' => NoMishap
      BY <2>1 DEF HistorySetAside, NoMishap
    <2>3. NoMishap' /\ Saved => Saved'
      BY <2>1, AsideSpares
    <2> QED BY <1>0, <2>1, <2>2, <2>3 DEF ExitSaveHeld, ExitSaveDone
  <1>6. CASE WriterSave
    <2>1. UNCHANGED <<entries, lifeOf, loading, mishaps, wpc, wcur, file>> /\ wq # <<>> /\ wpc = "recv"
      BY <1>6 DEF WriterSave
    <2>2. ExitSaveDone'
      BY <1>0, <2>1 DEF ExitSaveDone, NoMishap
    <2>3. ASSUME lifeOf = "flushing", NoMishap
          PROVE  \/ Len(wq') > 1 /\ wq'[Len(wq') - 1].total = entries
                 \/ Len(wq') = 1 /\ pendingAdd' # NoValue /\ pendingAdd'.total = entries
      <3>1. /\ pendingAdd' = wq[1] /\ pendingAdd' # NoValue /\ Len(wq) > 0 /\ Len(wq') = Len(wq) - 1
            /\ \A i \in 1..Len(wq') : wq'[i] = wq[i + 1]
            /\ Len(wq') > 0
        BY <1>6, <2>1, <2>3, SaveTaken DEF FlushLast
      <3>2. Len(wq) > 1 /\ wq[Len(wq) - 1].total = entries
        BY <1>0, <2>3, <3>1 DEF ExitSaveHeld
      <3>3. CASE Len(wq) = 2
        BY <3>1, <3>2, <3>3
      <3>4. CASE Len(wq) > 2
        <4>1. Len(wq') - 1 \in 1..Len(wq') /\ (Len(wq') - 1) + 1 = Len(wq) - 1
          BY <1>0, <3>1, <3>4
        <4>2. wq'[Len(wq') - 1] = wq[Len(wq) - 1]
          BY <3>1, <4>1
        <4> QED BY <1>0, <3>1, <3>2, <3>4, <4>2
      <3>5. Len(wq) = 2 \/ Len(wq) > 2
        BY <1>L, <3>2, Counted, Zenon
      <3> QED BY <3>3, <3>4, <3>5
    <2> QED BY <2>1, <2>2, <2>3 DEF ExitSaveHeld, NoMishap
  <1>7. CASE WriterBegin
    <2>1. /\ UNCHANGED <<entries, lifeOf, loading, mishaps, wq, file>> /\ wpc = "recv" /\ wpc' = "create"
          /\ pendingAdd # NoValue /\ wcur' = pendingAdd /\ pendingAdd' = NoValue
          /\ wq # <<>> => Head(wq).op = "Flush"
      BY <1>7 DEF WriterBegin
    <2>2. ExitSaveDone'
      BY <1>0, <2>1 DEF ExitSaveDone, NoMishap
    <2>3. lifeOf = "flushing" => Len(wq) = 1
      <3> SUFFICES ASSUME lifeOf = "flushing" PROVE Len(wq) = 1
        OBVIOUS
      <3>a. Len(wq) > 0 /\ Saves = 1..(Len(wq) - 1)
        BY <1>0 DEF FlushLast
      <3>b. wq # <<>>
        BY <1>0, <3>a
      <3>c. wq[1].op = "Flush"
        BY <1>0, <2>1, <3>b
      <3>d. 1 \notin Saves
        BY <3>c DEF Saves
      <3>e. 1 \notin 1..(Len(wq) - 1)
        BY <3>a, <3>d, Zenon
      <3> QED BY <1>L, <3>a, <3>e, Counted, Zenon
    <2> QED BY <1>0, <2>1, <2>2, <2>3 DEF ExitSaveHeld, NoMishap
  <1>8. CASE WriterFlushed
    <2>1. /\ UNCHANGED <<entries, loading, mishaps, pendingAdd, wpc, wcur, file>> /\ wpc = "recv" /\ pendingAdd = NoValue
          /\ wq # <<>> /\ Head(wq).op = "Flush" /\ wq' = Tail(wq) /\ lifeOf' # "flushing"
          /\ lifeOf' = IF lifeOf = "flushing" THEN "flushed" ELSE lifeOf
      BY <1>8 DEF WriterFlushed
    <2>2. ASSUME lifeOf = "flushing", NoMishap PROVE wq' = <<>> /\ Saved
      <3>1. wq[1].op = "Flush"
        BY <1>0, <2>1
      <3>a. Len(wq) > 0 /\ Saves = 1..(Len(wq) - 1) /\ 1 \notin Saves
        BY <1>0, <2>2, <3>1 DEF FlushLast, Saves
      <3>b. 1 \notin 1..(Len(wq) - 1)
        BY <3>a, Zenon
      <3>2. Len(wq) = 1
        BY <1>L, <3>a, <3>b, Counted, Zenon
      <3> QED BY <1>0, <2>1, <2>2, <3>2 DEF ExitSaveHeld
    <2>3. lifeOf' = "flushed" /\ ~loading /\ NoMishap => lifeOf = "flushing"
      BY <1>0, <2>1 DEF ExitSaveDone
    <2> QED BY <2>1, <2>2, <2>3 DEF ExitSaveHeld, ExitSaveDone, Saved, NoMishap
  <1>9. CASE WriterCreate \/ WriterSync
    <2>1. /\ UNCHANGED <<entries, lifeOf, loading, mishaps, wq, pendingAdd, wcur, file>>
          /\ wpc # "recv" /\ wpc' # "recv"
      BY <1>9 DEF WriterCreate, WriterSync
    <2> QED BY <1>0, <2>1 DEF ExitSaveHeld, ExitSaveDone, NoMishap
  <1>10. CASE WriterRename
    <2>1. /\ UNCHANGED <<entries, lifeOf, loading, mishaps, wq, pendingAdd>> /\ WriterAlive
          /\ wpc = "rename" /\ wpc' = "recv" /\ file' = tempFile
      BY <1>10 DEF WriterRename
    <2>2. tempFile.kind = "good" /\ tempFile.fresh /\ tempFile.total = wcur.total
      BY <1>0, <2>1 DEF TempWritten
    <2> QED BY <1>0, <2>1, <2>2 DEF ExitSaveHeld, ExitSaveDone, Saved, NoMishap
  <1>11. CASE WriterFails
    BY <1>11, <1>b DEF WriterFails, NoMishap
  <1> QED BY <1>1, <1>2, <1>3, <1>4, <1>5, <1>6, <1>7, <1>8, <1>9, <1>10, <1>11
          DEF HistoryNext, UiStep, LoaderStep, WriterStep

-----------------------------------------------------------------------------
(* The theorems.                                                            *)

\* Every step keeps the invariant.
LEMMA HistoryStep == HistoryInv /\ [HistoryNext]_historyVars => HistoryInv'
  BY HistoryTyped, DiskKeeps, TotalsKeep, HistoryQuiet, QueueKeeps, HistoryExitKeeps DEF HistoryInv

\* The invariant holds in every state. (app_history.rs, persist.rs)
THEOREM HistorySound == HistorySpec => []HistoryInv
  BY InitHistory, HistoryStep, PTL DEF HistorySpec

\* However kills, power losses and failing writes fall, the file is never a torn
\* write, the totals are those of the file plus what was observed, and an exit
\* whose flush was answered left them on the disk. (replace_file, poll_load, save)
THEOREM HistoryIsExact == HistorySpec => []HistoryTypeOK /\ []FileNeverTorn /\ []TotalsExact /\ []CleanExitPersists
  <1>1. HistoryInv => HistoryTypeOK /\ FileNeverTorn /\ TotalsExact /\ CleanExitPersists
    BY DEF HistoryInv, FileWhole, FileNeverTorn, TotalsHeld, TotalsExact, ExitSaveDone, CleanExitPersists, NoMishap, Saved
  <1> QED BY <1>1, HistorySound, PTL

\* With a loader thread, a load that is over has adopted the file, has seen it
\* gone or moved, or was cut short by a wipe. (read_db_text, poll_load, clear)
LEMMA UnreadKeeps ==
    ASSUME SpawnMayFail = FALSE, HistoryInv, UnreadHeld, [HistoryNext]_historyVars
    PROVE  UnreadHeld'
  <1> USE DEF historyDiskVars, dbVars, loaderVars, historyWriterVars, runVars, ghostVars
  <1>1. CASE PollLoaded
    <2>1. loading /\ loading' = FALSE /\ loader = "done" /\ WriterAlive /\ UNCHANGED <<loader, text>>
      BY <1>1 DEF PollLoaded, FinishLoad, WriterAlive
    <2>2. CASE settled' = TRUE
      BY <2>1, <2>2 DEF UnreadHeld, Kept
    <2>3. CASE HistorySetAside
      BY <2>1, <2>3 DEF UnreadHeld, Aside, HistorySetAside, NoFile
    <2>4. CASE text.kind = "absent" /\ UNCHANGED <<file, mishaps>>
      BY <2>1, <2>4 DEF UnreadHeld, Aside
    <2> QED BY <1>1, <2>2, <2>3, <2>4 DEF PollLoaded
  <1>2. CASE Clear
    <2>1. loading' = FALSE /\ settled' = TRUE
      BY <1>2 DEF Clear
    <2> QED BY <2>1 DEF UnreadHeld, Kept
  <1>3. CASE LoaderRead
    <2>1. /\ UNCHANGED <<loading, file, mishaps, settled, lifeOf>>
          /\ (loader' = "send" /\ text' = file) \/ loader' = "setAside"
      BY <1>3 DEF LoaderRead
    <2> QED BY <2>1 DEF UnreadHeld, Kept, Aside, WriterAlive
  <1>4. CASE LoaderSetAside
    <2>1. Aside'
      BY <1>4 DEF LoaderSetAside, HistorySetAside, Aside, NoFile
    <2> QED BY <2>1 DEF UnreadHeld
  <1>5. CASE LoaderSend
    <2>1. UNCHANGED <<loading, file, mishaps, settled, lifeOf, text>> /\ loader = "send"
      BY <1>5 DEF LoaderSend
    <2> QED BY <2>1 DEF UnreadHeld, Kept, Aside, WriterAlive
  <1>6. CASE WriterRename
    <2>1. WriterAlive /\ wpc = "rename" /\ file' = tempFile /\ UNCHANGED <<loading, lifeOf>>
      BY <1>6 DEF WriterRename
    <2>2. ~loading /\ tempFile.fresh
      BY <2>1 DEF HistoryInv, LoadQuiet, TempWritten
    <2> QED BY <2>1, <2>2 DEF UnreadHeld, Kept
  <1>7. CASE ProcessEnds \/ HistoryPowerLoss
    BY <1>7 DEF ProcessEnds, HistoryPowerLoss, UnreadHeld, WriterAlive
  <1>8. CASE Restart
    <2>1. loading' = TRUE /\ loader' = "start"
      BY <1>8 DEF Restart, Opened
    <2> QED BY <2>1 DEF UnreadHeld
  <1>9. CASE PollTimeout \/ Observe \/ SaveAsync \/ ExitSave \/ ExitFlushTimeout \/ WriterSave \/ WriterBegin
             \/ WriterFlushed \/ WriterCreate \/ WriterSync \/ WriterFails \/ UNCHANGED historyVars
    <2>1. /\ UNCHANGED <<loading, loader, text, file, settled>> /\ mishaps \subseteq mishaps'
          /\ WriterAlive' => WriterAlive
      BY <1>9 DEF PollTimeout, Observe, SaveAsync, ExitSave, ExitFlushTimeout, WriterSave, WriterBegin, WriterFlushed,
             WriterCreate, WriterSync, WriterFails, WriterAlive, historyVars
    <2> QED BY <2>1 DEF UnreadHeld, Kept, Aside
  <1> QED BY <1>1, <1>2, <1>3, <1>4, <1>5, <1>6, <1>7, <1>8, <1>9 DEF HistoryNext, UiStep, LoaderStep, WriterStep

\* The step that replaces the file replaces one that was adopted, wiped or written
\* by this session, or one that could not be moved aside. (replace_file)
LEMMA ReplacesRead ==
    ASSUME HistoryInv, UnreadHeld, HistoryNext, wpc = "rename", wpc' = "recv", file' # file,
           file.kind # "absent", ~file.fresh
    PROVE  settled \/ "asideFailed" \in mishaps
  <1> USE DEF historyDiskVars, dbVars, loaderVars, historyWriterVars, runVars, ghostVars
  <1>1. CASE WriterRename
    <2>1. ~loading /\ WriterAlive
      BY <1>1 DEF WriterRename, HistoryInv, LoadQuiet
    <2> QED BY <2>1 DEF UnreadHeld, Kept, Aside
  <1>2. ASSUME Restart PROVE FALSE
    <2>1. [file EXCEPT !.fresh = FALSE] = file
      BY DEF HistoryInv, HistoryTypeOK, File
    <2> QED BY <1>2, <2>1 DEF Restart
  <1>3. ASSUME LoaderStep \/ UiStep PROVE FALSE
    BY <1>3, UiFrame DEF LoaderStep, LoaderRead, LoaderSetAside, LoaderSend
  <1>4. ASSUME WriterSave \/ WriterBegin \/ WriterFlushed \/ WriterCreate \/ WriterSync \/ WriterFails \/ ProcessEnds
               \/ HistoryPowerLoss
        PROVE  FALSE
    BY <1>4 DEF WriterSave, WriterBegin, WriterFlushed, WriterCreate, WriterSync, WriterFails, ProcessEnds, HistoryPowerLoss
  <1> QED BY <1>1, <1>2, <1>3, <1>4 DEF HistoryNext, WriterStep

\* While the loader thread can be started, no usage is lost or counted twice on its
\* way to the file, and history that was never read is not overwritten.
\* (open_deferred, poll_load, enqueue_save, replace_file)
THEOREM HistoryIsKept == SpawnMayFail = FALSE /\ HistorySpec => HistoryKept
  <1> SUFFICES ASSUME SpawnMayFail = FALSE PROVE HistorySpec => HistoryKept
    OBVIOUS
  <1>1. HistoryInv /\ UnreadHeld /\ [HistoryNext]_historyVars => UnreadHeld'
    BY UnreadKeeps
  <1>2. HistoryInv /\ UnreadHeld /\ [HistoryNext]_historyVars =>
            [(wpc = "rename" /\ wpc' = "recv" /\ file' # file /\ file.kind # "absent" /\ ~file.fresh)
                => settled \/ "asideFailed" \in mishaps]_historyVars
    BY ReplacesRead
  <1>3. HistorySpec => UnreadHistoryKept
    BY InitHistory, HistoryStep, <1>1, <1>2, PTL DEF HistorySpec, UnreadHistoryKept
  <1> QED BY <1>3, HistoryIsExact DEF HistoryKept
=============================================================================
