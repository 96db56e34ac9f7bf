---------------------------- MODULE ServiceProofs ----------------------------
(***************************************************************************)
(* Machine-checked proofs about the core service and the sampler: the      *)
(* service's pipe (Broker.tla) for any number of clients, workers,         *)
(* instances and faults; the use of network and GPU (UsageSources.tla);    *)
(* and the device counters (DeviceCounters.tla).                           *)
(***************************************************************************)
EXTENDS Broker, UsageSources, DeviceCounters, FiniteSetTheorems, TLAPS

-----------------------------------------------------------------------------
(* The broker of the core service.                                          *)

\* Where a connection, a call and the accept loop can be.
BrokerTyped ==
    /\ call \in [Clients -> {"opening", "open", "sent", "done"}]
    /\ result \in [Clients -> {"none", "ok", "refused", "unknown", "local", "gone", "quit"}]
    /\ conn \in [Ends -> {"none", "waiting", "held", "queued", "working"} \cup ServerDone]
    /\ listener \in {"none", "free", "taken"}
    /\ loop \in {"top", "arming", "accept", "identify", "over", "failed"}
    /\ work \in Seq(Clients) /\ Len(work) <= QueueCap
    /\ serves \in [Workers -> Clients \cup {Nobody}]
    /\ ran \in [Clients -> Nat] /\ ranLocally \in [Clients -> Nat]
    /\ failures \in Nat /\ faults \in Nat

\* Every instance is listening or a connection's, and never more than allowed; an
\* instance that a client took has that client waiting. (arm_listener, connect_pipe)
InstancesHeld ==
    /\ IsFiniteSet(Open) /\ Instances <= Cap
    /\ Up /\ listener = "taken" => \E c \in Ends : conn[c] = "waiting"
    /\ loop = "accept" => listener # "none"

\* Who is in the work queue is there once.
InLine(q) ==
    \A i \in 1..Len(q) : conn[q[i]] = "queued" /\ \A j \in 1..Len(q) : q[j] = q[i] => j = i

\* A connection is with the accept loop, in the queue or with one worker, never with
\* two of them. (try_send, the workers' loop)
OneHolder ==
    /\ held # Nobody <=> loop = "identify"
    /\ held # Nobody => held \in Ends /\ conn[held] = "held"
    /\ InLine(work)
    /\ \A w \in Workers : serves[w] # Nobody =>
          conn[serves[w]] = "working" /\ \A v \in Workers : serves[v] = serves[w] => v = w

\* What was carried out was requested once: it is not before the server is done with the
\* connection, and the fallback runs for a call that sent nothing. (BrokerClient::call)
CallCarried(c) ==
    /\ call[c] = "opening" => conn[c] = "none" /\ ran[c] = 0
    /\ call[c] # "done" => result[c] = "none" /\ ranLocally[c] = 0
    /\ call[c] = "done" => result[c] # "none"
    /\ conn[c] \in {"waiting", "held", "queued", "working", "refused"} => ran[c] = 0
    /\ conn[c] = "answered" => ran[c] = 1
    /\ ran[c] = 0 \/ (ran[c] = 1 /\ (call[c] = "sent" \/ result[c] \in {"ok", "unknown", "gone"}))
    /\ ranLocally[c] = 0 \/ (ranLocally[c] = 1 /\ result[c] = "local")
    /\ result[c] = "ok" => ran[c] = 1 /\ conn[c] = "none"
    /\ result[c] = "refused" => ran[c] = 0
CarriedOnce == \A c \in Clients : CallCarried(c)

\* The loop gives up for its own faults only. (run_broker)
FaultsCount == failures <= faults /\ (loop = "failed" => failures >= MaxFailures)

BrokerInv == BrokerTyped /\ InstancesHeld /\ OneHolder /\ CarriedOnce /\ FaultsCount
-----------------------------------------------------------------------------
(* It is inductive.                                                         *)

LEMMA BrokerBegins == BrokerInit => BrokerInv
<1> SUFFICES ASSUME BrokerInit PROVE BrokerInv
    OBVIOUS
<1> USE BrokerAssumption DEF BrokerInit, Clients, Ends
<1>1. Open = {} /\ Len(work) = 0
      BY DEF Open
<1>2. IsFiniteSet(Open) /\ Cardinality(Open) = 0
      BY <1>1, FS_EmptySet
<1>3. BrokerTyped
      BY <1>1 DEF BrokerTyped, ServerDone
<1>4. InstancesHeld
      BY <1>2 DEF InstancesHeld, Instances, Up
<1>5. OneHolder
      BY <1>1 DEF OneHolder, InLine
<1>6. CarriedOnce /\ FaultsCount
      BY DEF CarriedOnce, CallCarried, FaultsCount
<1> QED BY <1>3, <1>4, <1>5, <1>6 DEF BrokerInv

\* A call ends: its connection goes if the server is done with it. (BrokerClient::call)
CallEnds(c) ==
    \/ OpenFails(c) \/ Unverified(c) \/ SendFails(c) \/ Receives(c) \/ ClientDies(c)

\* What every end of a call has in common.
LEMMA EndOfCall ==
    ASSUME BrokerTyped, NEW c \in Clients, CallEnds(c)
    PROVE  /\ call[c] # "done" /\ call' = [call EXCEPT ![c] = "done"]
           /\ \E r \in {"ok", "refused", "unknown", "local", "gone", "quit"} : result' = [result EXCEPT ![c] = r]
           /\ conn' = Leave(c) /\ UNCHANGED <<ran, loopVars, stopped, stopper, work, serves>>
           /\ UNCHANGED ranLocally \/ ranLocally' = [ranLocally EXCEPT ![c] = @ + 1]
<1> USE DEF Ended, Fallback, Lost
<1>1. CASE OpenFails(c)
      BY <1>1 DEF OpenFails
<1>2. CASE Unverified(c)
      BY <1>2 DEF Unverified
<1>3. CASE SendFails(c)
      BY <1>3 DEF SendFails
<1>4. CASE Receives(c)
      BY <1>4 DEF Receives
<1>5. CASE ClientDies(c)
      BY <1>5 DEF ClientDies
<1> QED BY <1>1, <1>2, <1>3, <1>4, <1>5 DEF CallEnds

\* The steps of the broker and its clients.
LEMMA BrokerCases ==
    ASSUME [BrokerNext]_brokerVars
    PROVE  \/ GoesOn \/ Arm \/ Identify \/ LoopEnds \/ AcceptFails \/ ProcessEnds \/ ScmStops \/ StopperWakes
           \/ \E c \in Ends : Accept(c)
           \/ \E w \in Workers : WorkerTakes(w) \/ WorkerServes(w)
           \/ \E c \in Clients : Opens(c) \/ Sends(c) \/ CallEnds(c)
           \/ UNCHANGED brokerVars
  BY DEF BrokerNext, Accepts, Worker, Client, CallEnds

\* Connections, calls and the loop stay where they can be. (every handler)
LEMMA TypedStep == ASSUME BrokerTyped, OneHolder, [BrokerNext]_brokerVars PROVE BrokerTyped'
<1> USE BrokerAssumption DEF BrokerTyped, ServerDone, clientVars, loopVars
<1>0. Clients \subseteq Ends /\ Gui \subseteq Clients
      BY DEF Clients, Ends
<1>1. CASE GoesOn
      BY <1>0, <1>1 DEF GoesOn
<1>2. CASE Arm
      BY <1>0, <1>2 DEF Arm, Give, Busy
<1>3. CASE LoopEnds
      BY <1>0, <1>3 DEF LoopEnds
<1>4. CASE AcceptFails
      BY <1>0, <1>4 DEF AcceptFails, Give, Rearmed
<1>5. CASE ScmStops
      BY <1>0, <1>5 DEF ScmStops
<1>6. CASE StopperWakes
      BY <1>0, <1>6 DEF StopperWakes, Ends
<1>7. CASE Identify
  <2>1. held \in Ends
        BY <1>7 DEF Identify, OneHolder
  <2>2. \/ held \in Gui /\ Len(work) < QueueCap /\ work' = Append(work, held)
        \/ work' = work
        BY <1>7 DEF Identify
  <2>3. work' \in Seq(Clients) /\ Len(work') <= QueueCap
    <3>1. CASE held \in Gui /\ Len(work) < QueueCap /\ work' = Append(work, held)
      <4>1. held \in Clients
            BY <1>0, <3>1
      <4>2. Len(work') = Len(work) + 1 /\ Len(work) \in Nat
            BY <3>1
      <4> QED BY <3>1, <4>1, <4>2
    <3> QED BY <2>2, <3>1
  <2> QED BY <1>7, <2>1, <2>3 DEF Identify, Drop
<1>8. CASE ProcessEnds
  <2>1. work' = <<>> /\ Len(work') = 0
        BY <1>8 DEF ProcessEnds
  <2> QED BY <1>8, <2>1 DEF ProcessEnds
<1>9. ASSUME NEW c \in Ends, Accept(c) PROVE BrokerTyped'
  <2>1. UNCHANGED <<call, result, ran, ranLocally, faults, work, serves>>
        BY <1>9 DEF Accept
  <2>2. \/ conn' = [conn EXCEPT ![c] = "none"]
        \/ conn' = [conn EXCEPT ![c] = "held"]
        BY <1>9 DEF Accept
  <2>3. listener' \in {"none", "free"}
        BY <1>9 DEF Accept, Rearmed
  <2>4. failures' \in Nat /\ loop' \in {"top", "arming", "accept", "identify", "over", "failed"}
        BY <1>9 DEF Accept, Give, Vanished
  <2> QED BY <2>1, <2>2, <2>3, <2>4
<1>10. ASSUME NEW w \in Workers, WorkerTakes(w) PROVE BrokerTyped'
  <2>1. work # <<>> /\ work' = Tail(work)
        BY <1>10 DEF WorkerTakes
  <2>2. Head(work) \in Clients /\ work' \in Seq(Clients) /\ Len(work') <= QueueCap
        BY <2>1
  <2> QED BY <1>0, <1>10, <2>2 DEF WorkerTakes
<1>11. ASSUME NEW w \in Workers, WorkerServes(w) PROVE BrokerTyped'
  <2>1. serves[w] \in Clients
        BY <1>11 DEF WorkerServes
  <2>2. ran[serves[w]] + 1 \in Nat
        BY <2>1
  <2>3. /\ UNCHANGED <<call, result, ranLocally, loopVars, work>>
        /\ serves' = [serves EXCEPT ![w] = Nobody]
        /\ \/ ran' = [ran EXCEPT ![serves[w]] = @ + 1]
           \/ ran' = ran
        /\ \E how \in {"none", "answered", "refused", "dropped"} : conn' = [conn EXCEPT ![serves[w]] = how]
        BY <1>11 DEF WorkerServes, Drop, Carried
  <2>4. conn' \in [Ends -> {"none", "waiting", "held", "queued", "working"} \cup ServerDone]
        BY <1>0, <2>1, <2>3
  <2>5. ran' \in [Clients -> Nat]
        BY <2>1, <2>2, <2>3
  <2>6. serves' \in [Workers -> Clients \cup {Nobody}]
        BY <2>3
  <2> QED BY <2>3, <2>4, <2>5, <2>6
<1>12. ASSUME NEW c \in Clients, Opens(c) \/ Sends(c) PROVE BrokerTyped'
  <2>1. CASE Opens(c)
        BY <1>0, <2>1 DEF Opens
  <2>2. CASE Sends(c)
        BY <1>0, <2>2 DEF Sends
  <2> QED BY <1>12, <2>1, <2>2
<1>13. ASSUME NEW c \in Clients, CallEnds(c) PROVE BrokerTyped'
  <2>1. ranLocally[c] + 1 \in Nat
        OBVIOUS
  <2>2. /\ call' = [call EXCEPT ![c] = "done"]
        /\ \E r \in {"ok", "refused", "unknown", "local", "gone", "quit"} : result' = [result EXCEPT ![c] = r]
        /\ conn' = Leave(c) /\ UNCHANGED <<ran, loopVars, work, serves>>
        /\ UNCHANGED ranLocally \/ ranLocally' = [ranLocally EXCEPT ![c] = @ + 1]
        BY <1>13, EndOfCall
  <2>3. call' \in [Clients -> {"opening", "open", "sent", "done"}]
        BY <2>2
  <2>4. conn' \in [Ends -> {"none", "waiting", "held", "queued", "working"} \cup ServerDone]
        BY <1>0, <2>2 DEF Leave
  <2>5. ranLocally' \in [Clients -> Nat]
        BY <2>1, <2>2
  <2>6. result' \in [Clients -> {"none", "ok", "refused", "unknown", "local", "gone", "quit"}]
        BY <2>2
  <2> QED BY <2>2, <2>3, <2>4, <2>5, <2>6
<1>14. CASE UNCHANGED brokerVars
      BY <1>14 DEF brokerVars
<1> QED BY <1>1, <1>2, <1>3, <1>4, <1>5, <1>6, <1>7, <1>8, <1>9, <1>10, <1>11, <1>12, <1>13, <1>14, BrokerCases

\* The loop counts its own faults only, and a client that left is none. (run_broker)
LEMMA FaultsStep == ASSUME BrokerTyped, FaultsCount, [BrokerNext]_brokerVars PROVE FaultsCount'
<1> USE BrokerAssumption DEF BrokerTyped, FaultsCount, clientVars, loopVars, Give
<1>1. CASE GoesOn
      BY <1>1 DEF GoesOn
<1>2. CASE Arm
      BY <1>2 DEF Arm, Busy
<1>3. CASE Identify \/ LoopEnds \/ ProcessEnds \/ ScmStops \/ StopperWakes
      BY <1>3 DEF Identify, LoopEnds, ProcessEnds, ScmStops, StopperWakes
<1>4. CASE AcceptFails
      BY <1>4 DEF AcceptFails
<1>5. ASSUME NEW c \in Ends, Accept(c) PROVE FaultsCount'
      BY <1>5 DEF Accept, Vanished
<1>6. ASSUME NEW w \in Workers, WorkerTakes(w) \/ WorkerServes(w) PROVE FaultsCount'
      BY <1>6 DEF WorkerTakes, WorkerServes
<1>7. ASSUME NEW c \in Clients, Opens(c) \/ Sends(c) PROVE FaultsCount'
      BY <1>7 DEF Opens, Sends
<1>8. ASSUME NEW c \in Clients, CallEnds(c) PROVE FaultsCount'
      BY <1>8, EndOfCall
<1>9. CASE UNCHANGED brokerVars
      BY <1>9 DEF brokerVars
<1> QED BY <1>1, <1>2, <1>3, <1>4, <1>5, <1>6, <1>7, <1>8, <1>9, BrokerCases

\* A request is carried out by the worker that holds its connection, and a call that
\* ended before it sent its request leaves none behind. (handle_client, BrokerClient::call)
LEMMA CarriedStep == ASSUME BrokerTyped, OneHolder, CarriedOnce, [BrokerNext]_brokerVars PROVE CarriedOnce'
<1> USE BrokerAssumption DEF BrokerTyped, CarriedOnce, CallCarried, ServerDone, clientVars, loopVars
<1>0. Clients \subseteq Ends /\ Gui \subseteq Clients /\ Stop \notin Clients
      BY DEF Clients, Ends
<1>1. CASE GoesOn \/ Arm \/ ScmStops
      BY <1>1 DEF GoesOn, Arm, ScmStops
<1>2. CASE Identify
  <2>1. held \in Ends /\ conn[held] = "held"
        BY <1>2 DEF Identify, OneHolder
  <2>2. /\ UNCHANGED clientVars
        /\ \E how \in {"none", "queued", "refused"} : conn' = [conn EXCEPT ![held] = how]
        BY <1>2 DEF Identify, Drop
  <2> QED BY <1>0, <2>1, <2>2
<1>3. CASE LoopEnds \/ AcceptFails \/ ProcessEnds
  <2>1. UNCHANGED clientVars
        BY <1>3 DEF LoopEnds, AcceptFails, ProcessEnds
  <2>2. \A c \in Clients : conn'[c] = conn[c] \/ conn'[c] = "none"
        BY <1>0, <1>3 DEF LoopEnds, AcceptFails, ProcessEnds
  <2> QED BY <2>1, <2>2
<1>4. CASE StopperWakes
  <2>1. UNCHANGED clientVars /\ \A c \in Clients : conn'[c] = conn[c]
        BY <1>0, <1>4 DEF StopperWakes
  <2> QED BY <2>1
<1>5. ASSUME NEW c \in Ends, Accept(c) PROVE CarriedOnce'
  <2>1. UNCHANGED clientVars /\ conn[c] = "waiting"
        BY <1>5 DEF Accept
  <2>2. conn' = [conn EXCEPT ![c] = "none"] \/ conn' = [conn EXCEPT ![c] = "held"]
        BY <1>5 DEF Accept
  <2> QED BY <1>0, <2>1, <2>2
<1>6. ASSUME NEW w \in Workers, WorkerTakes(w) PROVE CarriedOnce'
  <2>1. Head(work) \in Clients /\ conn[Head(work)] = "queued"
    <3>1. work # <<>>
          BY <1>6 DEF WorkerTakes
    <3>2. 1 \in 1..Len(work) /\ work[1] = Head(work)
          BY <3>1
    <3> QED BY <3>1, <3>2 DEF OneHolder, InLine
  <2> QED BY <1>0, <1>6, <2>1 DEF WorkerTakes
<1>7. ASSUME NEW w \in Workers, WorkerServes(w) PROVE CarriedOnce'
  <2> DEFINE c == serves[w]
  <2>1. c \in Clients /\ conn[c] = "working" /\ c # Stop
        BY <1>0, <1>7 DEF WorkerServes, OneHolder
  <2> HIDE DEF c
  <2>2. UNCHANGED <<call, result, ranLocally>>
        BY <1>7 DEF WorkerServes
  <2>3. \/ Requested(c) /\ conn' = Drop(c, "answered") /\ Carried(c)
        \/ conn' = Drop(c, "refused") /\ UNCHANGED ran
        \/ conn' = Drop(c, "dropped") /\ UNCHANGED ran
        BY <1>7 DEF WorkerServes, c
  <2>4. ran[c] = 0
        BY <2>1
  <2>5. CASE Requested(c) /\ conn' = Drop(c, "answered") /\ Carried(c)
    <3>1. /\ ran' = [ran EXCEPT ![c] = 1]
          /\ conn' = [conn EXCEPT ![c] = IF call[c] = "done" THEN "none" ELSE "answered"]
          /\ call[c] = "sent" \/ result[c] = "gone"
          BY <2>1, <2>4, <2>5 DEF Requested, Drop, Carried, Gone
    <3>2. \A d \in Clients \ {c} : conn'[d] = conn[d] /\ ran'[d] = ran[d]
          BY <1>0, <3>1
    <3>3. ran'[c] = 1 /\ conn'[c] = (IF call[c] = "done" THEN "none" ELSE "answered")
          BY <1>0, <2>1, <3>1
    <3> QED BY <2>1, <2>2, <2>4, <3>1, <3>2, <3>3
  <2>6. ASSUME NEW how \in {"refused", "dropped"}, conn' = Drop(c, how), UNCHANGED ran PROVE CarriedOnce'
    <3>1. \A d \in Clients \ {c} : conn'[d] = conn[d]
          BY <1>0, <2>6 DEF Drop
    <3>2. conn'[c] \in {"none", "refused", "dropped"}
          BY <1>0, <2>1, <2>6 DEF Drop
    <3>3. ASSUME NEW d \in Clients, d = c PROVE CallCarried(d)'
          BY <2>1, <2>2, <2>4, <2>6, <3>2, <3>3
    <3>4. ASSUME NEW d \in Clients \ {c} PROVE CallCarried(d)'
          BY <2>2, <2>6, <3>1
    <3> QED BY <3>3, <3>4
  <2> QED BY <2>3, <2>5, <2>6
<1>8. ASSUME NEW c \in Clients, Opens(c) \/ Sends(c) PROVE CarriedOnce'
      BY <1>0, <1>8 DEF Opens, Sends
<1>9. ASSUME NEW c \in Clients, CallEnds(c) PROVE CarriedOnce'
  <2>1. call[c] # "done" /\ UNCHANGED ran
        BY <1>9, EndOfCall
  <2>2. \A d \in Clients \ {c} : /\ conn'[d] = conn[d] /\ call'[d] = call[d] /\ result'[d] = result[d]
                                  /\ ranLocally'[d] = ranLocally[d]
    <3>1. PICK r \in {"ok", "refused", "unknown", "local", "gone", "quit"} : result' = [result EXCEPT ![c] = r]
          BY <1>9, EndOfCall
    <3>2. call' = [call EXCEPT ![c] = "done"] /\ conn' = Leave(c)
          BY <1>9, EndOfCall
    <3>3. UNCHANGED ranLocally \/ ranLocally' = [ranLocally EXCEPT ![c] = @ + 1]
          BY <1>9, EndOfCall
    <3> QED BY <1>0, <3>1, <3>2, <3>3 DEF Leave
  <2>3. call'[c] = "done" /\ conn'[c] = (IF conn[c] \in ServerDone THEN "none" ELSE conn[c])
        BY <1>0, <1>9, EndOfCall DEF Leave
  <2>4. result'[c] # "none"
    <3>1. PICK r \in {"ok", "refused", "unknown", "local", "gone", "quit"} : result' = [result EXCEPT ![c] = r]
          BY <1>9, EndOfCall
    <3>2. result'[c] = r
          BY <3>1
    <3> QED BY <3>1, <3>2
  <2>5. \/ result'[c] = "local" /\ ranLocally'[c] = 1 /\ call[c] \in {"opening", "open"}
        \/ ranLocally'[c] = 0 /\ result'[c] \in {"unknown", "gone", "quit"} /\ (call[c] = "sent" => result'[c] # "quit")
        \/ ranLocally'[c] = 0 /\ result'[c] = "refused" /\ (call[c] # "sent" \/ conn[c] = "refused")
        \/ ranLocally'[c] = 0 /\ result'[c] = "ok" /\ conn[c] = "answered"
    <3> USE DEF Ended, Fallback, Lost
    <3>0. ranLocally[c] = 0
          BY <2>1
    <3>1. CASE OpenFails(c)
          BY <3>0, <3>1 DEF OpenFails
    <3>2. CASE Unverified(c)
          BY <3>0, <3>2 DEF Unverified
    <3>3. CASE SendFails(c)
          BY <3>0, <3>3 DEF SendFails
    <3>4. CASE Receives(c)
          BY <3>0, <3>4 DEF Receives
    <3>5. CASE ClientDies(c)
          BY <3>0, <3>5 DEF ClientDies
    <3> QED BY <1>9, <3>1, <3>2, <3>3, <3>4, <3>5 DEF CallEnds
  <2>6. call[c] \in {"opening", "open"} => ran[c] = 0
        BY <2>1
  <2>7. conn'[c] \in {"none", "waiting", "held", "queued", "working"} /\ (conn'[c] # "none" => ran[c] = 0)
        BY <1>0, <2>1, <2>3
  <2>8. /\ ran[c] = 0 \/ (ran[c] = 1 /\ result'[c] \in {"ok", "unknown", "gone"})
        /\ ranLocally'[c] = 0 \/ (ranLocally'[c] = 1 /\ result'[c] = "local")
        /\ result'[c] = "ok" => ran[c] = 1 /\ conn'[c] = "none"
        /\ result'[c] = "refused" => ran[c] = 0
        BY <2>1, <2>3, <2>5, <2>6
  <2>9. ran' = ran
        BY <2>1
  <2>10. ASSUME NEW d \in Clients, d # c PROVE CallCarried(d)'
        BY <2>2, <2>9, <2>10
  <2>11. CallCarried(c)'
    <3>1. ran[c] = 0 \/ ran[c] = 1
          BY <2>1
    <3> QED BY <2>3, <2>4, <2>7, <2>8, <2>9, <3>1
  <2> QED BY <2>10, <2>11
<1>10. CASE UNCHANGED brokerVars
      BY <1>10 DEF brokerVars
<1> QED BY <1>1, <1>2, <1>3, <1>4, <1>5, <1>6, <1>7, <1>8, <1>9, <1>10, BrokerCases

\* Queueing one that is not in the queue, or taking the first, leaves each there once.
LEMMA LineGrows ==
    ASSUME BrokerTyped, InLine(work), NEW c \in Clients, conn[c] = "held",
           conn' = [conn EXCEPT ![c] = "queued"]
    PROVE  \A i \in 1..Len(Append(work, c)) :
              /\ conn'[Append(work, c)[i]] = "queued"
              /\ \A j \in 1..Len(Append(work, c)) : Append(work, c)[j] = Append(work, c)[i] => j = i
<1> DEFINE q == Append(work, c)
<1>1. /\ Len(work) \in Nat /\ Len(q) = Len(work) + 1 /\ q[Len(work) + 1] = c
      /\ \A i \in 1..Len(work) : q[i] = work[i] /\ work[i] \in Clients
      BY DEF BrokerTyped
<1>2. \A i \in 1..Len(work) : work[i] # c /\ conn'[work[i]] = "queued"
      BY <1>1 DEF InLine, BrokerTyped, Ends
<1>3. conn'[c] = "queued"
      BY DEF BrokerTyped, Ends
<1> HIDE DEF q
<1>4. \A i \in 1..Len(q) : conn'[q[i]] = "queued" /\ \A j \in 1..Len(q) : q[j] = q[i] => j = i
      BY <1>1, <1>2, <1>3 DEF InLine
<1> QED BY <1>4 DEF q

LEMMA LineShrinks ==
    ASSUME BrokerTyped, InLine(work), work # <<>>,
           conn' = [conn EXCEPT ![Head(work)] = "working"]
    PROVE  \A i \in 1..Len(Tail(work)) : /\ conn'[Tail(work)[i]] = "queued"
                                          /\ \A j \in 1..Len(Tail(work)) : Tail(work)[j] = Tail(work)[i] => j = i
<1> DEFINE q == Tail(work)
<1>1. /\ Len(work) \in Nat /\ Len(work) # 0 /\ Len(q) = Len(work) - 1 /\ Head(work) = work[1]
      /\ \A i \in 1..Len(q) : q[i] = work[i + 1]
      /\ \A i \in 1..Len(work) : work[i] \in Ends
      BY DEF BrokerTyped, Ends
<1> HIDE DEF q
<1>2. ASSUME NEW i \in 1..Len(q) PROVE q[i] # Head(work) /\ conn'[q[i]] = "queued"
  <2>1. i + 1 \in 1..Len(work) /\ 1 \in 1..Len(work) /\ q[i] = work[i + 1] /\ i + 1 # 1
        BY <1>1
  <2>2. conn[q[i]] = "queued" /\ q[i] # Head(work) /\ q[i] \in Ends
        BY <1>1, <2>1 DEF InLine
  <2> QED BY <2>2 DEF BrokerTyped
<1>3. \A i \in 1..Len(q) : conn'[q[i]] = "queued" /\ \A j \in 1..Len(q) : q[j] = q[i] => j = i
      BY <1>1, <1>2 DEF InLine
<1> QED BY <1>3 DEF q

\* Connections are handed on, never shared. (try_send, the workers' loop)
LEMMA HolderStep == ASSUME BrokerTyped, OneHolder, CarriedOnce, [BrokerNext]_brokerVars PROVE OneHolder'
<1> USE BrokerAssumption DEF clientVars, loopVars
<1>0. /\ Clients \subseteq Ends /\ Gui \subseteq Clients /\ Stop \notin Clients /\ Nobody \notin Ends
      /\ \A i \in 1..Len(work) : work[i] \in Clients
      /\ \A w \in Workers : serves[w] # Nobody => serves[w] \in Clients
      BY DEF Clients, Ends, BrokerTyped
<1>k. ASSUME UNCHANGED <<held, work, serves>>, held' # Nobody <=> loop' = "identify",
             \A e \in Ends : conn[e] \in {"held", "queued", "working"} => conn'[e] = conn[e]
      PROVE  OneHolder'
      BY <1>0, <1>k DEF OneHolder, InLine
<1>1. CASE GoesOn \/ Arm \/ ScmStops
      BY <1>1, <1>k DEF GoesOn, Arm, ScmStops, OneHolder, Give
<1>2. CASE LoopEnds \/ AcceptFails
  <2>1. /\ UNCHANGED <<held, work, serves>> /\ loop # "identify" /\ loop' # "identify"
        /\ conn' = [c \in Ends |-> IF conn[c] = "waiting" THEN "none" ELSE conn[c]]
        BY <1>2 DEF LoopEnds, AcceptFails, Give
  <2> QED BY <1>k, <2>1 DEF OneHolder
<1>3. CASE ProcessEnds
  <2>1. /\ UNCHANGED <<held, loop>> /\ loop # "identify" /\ Len(work') = 0
        /\ serves' = [w \in Workers |-> Nobody]
        BY <1>3 DEF ProcessEnds
  <2> QED BY <2>1 DEF OneHolder, InLine
<1>4. CASE StopperWakes
      BY <1>4, <1>k DEF StopperWakes, OneHolder, BrokerTyped
<1>5. ASSUME NEW c \in Ends, Accept(c) PROVE OneHolder'
  <2>1. conn[c] = "waiting" /\ loop = "accept" /\ UNCHANGED <<work, serves>> /\ held = Nobody
        BY <1>5 DEF Accept, OneHolder
  <2>2. \/ conn' = [conn EXCEPT ![c] = "none"] /\ held' = held /\ loop' # "identify"
        \/ conn' = [conn EXCEPT ![c] = "held"] /\ held' = c /\ loop' = "identify"
        BY <1>5 DEF Accept, Give
  <2>3. \A e \in Ends \ {c} : conn'[e] = conn[e]
        BY <2>2 DEF BrokerTyped
  <2>4. held' = c => conn'[c] = "held"
        BY <1>0, <2>1, <2>2 DEF BrokerTyped
  <2>5. /\ \A i \in 1..Len(work) : conn'[work[i]] = conn[work[i]]
        /\ \A w \in Workers : serves[w] # Nobody => conn'[serves[w]] = conn[serves[w]]
        BY <1>0, <2>1, <2>3 DEF OneHolder, InLine
  <2> QED BY <1>0, <2>1, <2>2, <2>4, <2>5 DEF OneHolder, InLine
<1>6. CASE Identify
  <2>1. held \in Ends /\ conn[held] = "held" /\ loop' # "identify" /\ held' = Nobody /\ UNCHANGED serves
        BY <1>6 DEF Identify, OneHolder
  <2>2. \A w \in Workers : serves[w] # Nobody => serves[w] # held
        BY <2>1 DEF OneHolder
  <2>3. CASE held \in Gui /\ work' = Append(work, held) /\ conn' = [conn EXCEPT ![held] = "queued"]
    <3>1. InLine(work)'
      <4>1. held \in Clients /\ InLine(work)
            BY <1>0, <2>3 DEF OneHolder
      <4>2. \A i \in 1..Len(Append(work, held)) :
              /\ conn'[Append(work, held)[i]] = "queued"
              /\ \A j \in 1..Len(Append(work, held)) : Append(work, held)[j] = Append(work, held)[i] => j = i
            BY <2>1, <2>3, <4>1, LineGrows
      <4>3. work' = Append(work, held)
            BY <2>3
      <4> QED BY <4>2, <4>3 DEF InLine
    <3>2. \A w \in Workers : serves[w] # Nobody => conn'[serves[w]] = conn[serves[w]]
          BY <1>0, <2>2, <2>3 DEF BrokerTyped
    <3> QED BY <2>1, <3>1, <3>2 DEF OneHolder
  <2>4. CASE work' = work /\ conn' = Drop(held, "refused")
    <3>1. \A e \in Ends \ {held} : conn'[e] = conn[e]
          BY <2>4 DEF Drop, BrokerTyped
    <3>2. \A i \in 1..Len(work) : work[i] # held
          BY <2>1 DEF OneHolder, InLine
    <3> QED BY <1>0, <2>1, <2>2, <2>4, <3>1, <3>2 DEF OneHolder, InLine
  <2> QED BY <1>6, <2>3, <2>4 DEF Identify
<1>7. ASSUME NEW w \in Workers, WorkerTakes(w) PROVE OneHolder'
  <2>1. /\ work # <<>> /\ work' = Tail(work) /\ conn' = [conn EXCEPT ![Head(work)] = "working"]
        /\ serves[w] = Nobody /\ serves' = [serves EXCEPT ![w] = Head(work)] /\ UNCHANGED <<held, loop>>
        BY <1>7 DEF WorkerTakes
  <2>2. Head(work) \in Clients /\ conn[Head(work)] = "queued"
    <3>1. 1 \in 1..Len(work) /\ work[1] = Head(work)
          BY <2>1 DEF BrokerTyped
    <3> QED BY <1>0, <3>1 DEF OneHolder, InLine
  <2>3. InLine(work)'
        BY <2>1, LineShrinks DEF OneHolder, InLine
  <2>4. conn'[Head(work)] = "working" /\ \A e \in Ends \ {Head(work)} : conn'[e] = conn[e]
        BY <1>0, <2>1, <2>2 DEF BrokerTyped
  <2>5. held' # Nobody => held' \in Ends /\ conn'[held'] = "held"
        BY <1>0, <2>1, <2>2, <2>4 DEF OneHolder
  <2>6. serves'[w] = Head(work) /\ \A v \in Workers \ {w} : serves'[v] = serves[v]
        BY <2>1 DEF BrokerTyped
  <2>7. \A v \in Workers : serves[v] # Nobody => serves[v] # Head(work)
        BY <2>2 DEF OneHolder
  <2>8. \A v \in Workers : serves'[v] # Nobody =>
           conn'[serves'[v]] = "working" /\ \A u \in Workers : serves'[u] = serves'[v] => u = v
        BY <1>0, <2>2, <2>4, <2>6, <2>7 DEF OneHolder
  <2>9. held' # Nobody <=> loop' = "identify"
        BY <2>1 DEF OneHolder
  <2> QED BY <2>3, <2>5, <2>8, <2>9 DEF OneHolder
<1>8. ASSUME NEW w \in Workers, WorkerServes(w) PROVE OneHolder'
  <2>1. /\ serves[w] \in Clients /\ conn[serves[w]] = "working"
        /\ serves' = [serves EXCEPT ![w] = Nobody] /\ UNCHANGED <<held, loop, work>>
        BY <1>0, <1>8 DEF WorkerServes, OneHolder
  <2>2. \A e \in Ends \ {serves[w]} : conn'[e] = conn[e]
        BY <1>8 DEF WorkerServes, Drop, BrokerTyped
  <2>3. \A v \in Workers \ {w} : serves'[v] = serves[v] /\ (serves[v] # Nobody => serves[v] # serves[w])
        BY <1>0, <2>1 DEF OneHolder, BrokerTyped
  <2>4. serves'[w] = Nobody
        BY <2>1 DEF BrokerTyped
  <2>5. InLine(work)'
        BY <1>0, <2>1, <2>2 DEF OneHolder, InLine
  <2>6. held' # Nobody => held' \in Ends /\ conn'[held'] = "held"
        BY <2>1, <2>2 DEF OneHolder
  <2>7. \A v \in Workers : serves'[v] # Nobody =>
           conn'[serves'[v]] = "working" /\ \A u \in Workers : serves'[u] = serves'[v] => u = v
        BY <1>0, <2>2, <2>3, <2>4 DEF OneHolder
  <2>8. held' # Nobody <=> loop' = "identify"
        BY <2>1 DEF OneHolder
  <2> QED BY <2>5, <2>6, <2>7, <2>8 DEF OneHolder
<1>9. ASSUME NEW c \in Clients, Opens(c) \/ Sends(c) PROVE OneHolder'
  <2>1. UNCHANGED <<held, loop, work, serves>>
        BY <1>9 DEF Opens, Sends
  <2>2. \A e \in Ends : conn[e] # "none" => conn'[e] = conn[e]
        BY <1>0, <1>9 DEF Opens, Sends, CarriedOnce, CallCarried, BrokerTyped
  <2> QED BY <1>k, <2>1, <2>2 DEF OneHolder
<1>10. ASSUME NEW c \in Clients, CallEnds(c) PROVE OneHolder'
  <2>1. UNCHANGED <<held, loop, work, serves>> /\ conn' = Leave(c)
        BY <1>10, EndOfCall
  <2>2. \A e \in Ends : conn[e] \in {"held", "queued", "working"} => conn'[e] = conn[e]
        BY <2>1 DEF Leave, ServerDone, BrokerTyped
  <2> QED BY <1>k, <2>1, <2>2 DEF OneHolder
<1>11. CASE UNCHANGED brokerVars
      BY <1>11 DEF brokerVars, OneHolder, InLine
<1> QED BY <1>1, <1>2, <1>3, <1>4, <1>5, <1>6, <1>7, <1>8, <1>9, <1>10, <1>11, BrokerCases

\* How many instances the connections hold. (arm_listener)
LEMMA OpenShrinks ==
    ASSUME IsFiniteSet(Open), \A e \in Ends : conn'[e] # "none" => conn[e] # "none"
    PROVE  /\ IsFiniteSet(Open') /\ Cardinality(Open') <= Cardinality(Open)
           /\ Cardinality(Open) \in Nat /\ Cardinality(Open') \in Nat
           /\ (\E e \in Ends : conn[e] # "none" /\ conn'[e] = "none") => Cardinality(Open') < Cardinality(Open)
<1>1. Open' \subseteq Open
      BY DEF Open
<1>2. IsFiniteSet(Open') /\ Cardinality(Open') <= Cardinality(Open) /\ Cardinality(Open') \in Nat
      BY <1>1, FS_Subset, FS_CardinalityType
<1>3. Cardinality(Open) \in Nat
      BY FS_CardinalityType
<1>4. ASSUME NEW e \in Ends, conn[e] # "none", conn'[e] = "none" PROVE Cardinality(Open') < Cardinality(Open)
  <2>1. Open' # Open
        BY <1>4 DEF Open
  <2>2. Cardinality(Open') = Cardinality(Open) => Open' = Open
        BY <1>1, FS_Subset
  <2> QED BY <1>2, <1>3, <2>1, <2>2
<1> QED BY <1>2, <1>3, <1>4

LEMMA OpenGrows ==
    ASSUME BrokerTyped, IsFiniteSet(Open), NEW e \in Ends, conn[e] = "none", conn' = [conn EXCEPT ![e] = "waiting"]
    PROVE  IsFiniteSet(Open') /\ Cardinality(Open) \in Nat /\ Cardinality(Open') = Cardinality(Open) + 1
<1>1. Open' = Open \cup {e} /\ e \notin Open
      BY DEF Open, BrokerTyped
<1> QED BY <1>1, FS_AddElement, FS_CardinalityType

\* The pipe has no more instances than allowed, and the one a client took is waited for.
\* (run_broker, arm_listener, connect_pipe)
LEMMA InstancesStep ==
    ASSUME BrokerTyped, InstancesHeld, OneHolder, CarriedOnce, [BrokerNext]_brokerVars
    PROVE  InstancesHeld'
<1> USE BrokerAssumption DEF clientVars, loopVars
<1>0. /\ Clients \subseteq Ends /\ Gui \subseteq Clients /\ Stop \in Ends /\ Stop \notin Clients /\ Nobody \notin Ends
      /\ Cardinality(Open) \in Nat /\ IsFiniteSet(Open) /\ Cap \in Nat
      /\ Instances = Cardinality(Open) + (IF listener = "free" THEN 1 ELSE 0)
      /\ Instances' = Cardinality(Open') + (IF listener' = "free" THEN 1 ELSE 0)
      BY FS_CardinalityType DEF Clients, Ends, InstancesHeld, Instances
<1>k. ASSUME UNCHANGED listener, loop' = loop \/ loop' \notin {"accept", "arming"}, Up' => Up,
             \A e \in Ends : conn'[e] # "none" => conn[e] # "none",
             \A e \in Ends : conn[e] = "waiting" => conn'[e] = "waiting"
      PROVE  InstancesHeld'
  <2>1. IsFiniteSet(Open') /\ Cardinality(Open') <= Cardinality(Open) /\ Cardinality(Open') \in Nat
        BY <1>0, <1>k, OpenShrinks
  <2>2. Instances' <= Cap
        BY <1>0, <1>k, <2>1 DEF InstancesHeld
  <2> QED BY <1>k, <2>1, <2>2 DEF InstancesHeld
<1>1. CASE GoesOn \/ ScmStops
  <2>1. UNCHANGED <<conn, listener>> /\ (loop' = loop \/ (loop = "top" /\ loop' = "arming"))
        BY <1>1 DEF GoesOn, ScmStops
  <2> QED BY <2>1 DEF InstancesHeld, Instances, Open, Up
<1>2. CASE Arm
  <2>1. loop = "arming" /\ UNCHANGED conn /\ Open' = Open
        BY <1>2 DEF Arm, Open
  <2>2. \/ listener # "none" /\ UNCHANGED listener
        \/ listener = "none" /\ Instances < Cap /\ listener' = "free"
        \/ UNCHANGED listener /\ loop' \in {"top", "failed"}
        BY <1>2 DEF Arm, Give
  <2>3. Instances' <= Cap
        BY <1>0, <2>1, <2>2 DEF InstancesHeld
  <2> QED BY <1>0, <2>1, <2>2, <2>3 DEF InstancesHeld, Up
<1>3. CASE LoopEnds
  <2>1. /\ loop' = "over" /\ listener' = "none"
        /\ conn' = [c \in Ends |-> IF conn[c] = "waiting" THEN "none" ELSE conn[c]]
        BY <1>3 DEF LoopEnds
  <2>2. IsFiniteSet(Open') /\ Cardinality(Open') <= Cardinality(Open) /\ Cardinality(Open') \in Nat
        BY <1>0, <2>1, OpenShrinks
  <2>3. Instances' <= Cap
        BY <1>0, <2>1, <2>2 DEF InstancesHeld
  <2> QED BY <2>1, <2>2, <2>3 DEF InstancesHeld, Up
<1>4. CASE AcceptFails
  <2>1. /\ loop = "accept" /\ loop' \in {"top", "failed"}
        /\ conn' = [c \in Ends |-> IF conn[c] = "waiting" THEN "none" ELSE conn[c]]
        /\ listener' = "none" \/ listener' \in Rearmed(Instances - 1)
        BY <1>4 DEF AcceptFails, Give
  <2>2. /\ IsFiniteSet(Open') /\ Cardinality(Open') <= Cardinality(Open) /\ Cardinality(Open') \in Nat
        /\ (\E e \in Ends : conn[e] # "none" /\ conn'[e] = "none") => Cardinality(Open') < Cardinality(Open)
        BY <1>0, <2>1, OpenShrinks
  <2>3. listener = "free" \/ listener = "taken"
        BY <2>1 DEF InstancesHeld, BrokerTyped
  <2>4. listener = "taken" => Cardinality(Open') < Cardinality(Open)
        BY <2>1, <2>2 DEF InstancesHeld, Up
  <2>5. listener' # "taken"
        BY <2>1 DEF Rearmed
  <2>6. Instances' <= Cap
        BY <1>0, <2>2, <2>3, <2>4 DEF InstancesHeld
  <2> QED BY <2>1, <2>2, <2>5, <2>6 DEF InstancesHeld
<1>5. CASE ProcessEnds
  <2>1. /\ UNCHANGED <<loop, listener>> /\ loop \in {"over", "failed"} /\ conn' = [c \in Ends |-> "none"]
        BY <1>5 DEF ProcessEnds
  <2>2. IsFiniteSet(Open') /\ Cardinality(Open') <= Cardinality(Open) /\ Cardinality(Open') \in Nat
        BY <1>0, <2>1, OpenShrinks
  <2>3. Instances' <= Cap
        BY <1>0, <2>1, <2>2 DEF InstancesHeld
  <2> QED BY <2>1, <2>2, <2>3 DEF InstancesHeld, Up
<1>6. CASE StopperWakes
  <2>1. CASE listener = "free" /\ conn[Stop] = "none" /\ conn' = [conn EXCEPT ![Stop] = "waiting"] /\ listener' = "taken"
    <3>1. IsFiniteSet(Open') /\ Cardinality(Open') = Cardinality(Open) + 1
          BY <1>0, <2>1, OpenGrows
    <3>2. conn'[Stop] = "waiting"
          BY <1>0, <2>1 DEF BrokerTyped
    <3>3. Instances' <= Cap
          BY <1>0, <2>1, <3>1 DEF InstancesHeld
    <3> QED BY <1>0, <2>1, <3>1, <3>2, <3>3 DEF InstancesHeld
  <2>2. CASE UNCHANGED <<conn, listener>>
    <3>1. UNCHANGED loop
          BY <1>6 DEF StopperWakes
    <3> QED BY <1>k, <2>2, <3>1 DEF Up
  <2> QED BY <1>6, <2>1, <2>2 DEF StopperWakes
<1>7. ASSUME NEW c \in Ends, Accept(c) PROVE InstancesHeld'
  <2>1. /\ loop = "accept" /\ listener = "taken" /\ conn[c] = "waiting"
        /\ conn' = [conn EXCEPT ![c] = "none"] \/ conn' = [conn EXCEPT ![c] = "held"]
        /\ listener' = "none" \/ listener' \in Rearmed(Cardinality(Open))
        /\ loop' \in {"top", "identify", "failed"}
        BY <1>7 DEF Accept, Give
  <2>2. IsFiniteSet(Open') /\ Cardinality(Open') <= Cardinality(Open) /\ Cardinality(Open') \in Nat
    <3>1. \A e \in Ends : conn'[e] # "none" => conn[e] # "none"
          BY <2>1 DEF BrokerTyped
    <3> QED BY <1>0, <3>1, OpenShrinks
  <2>3. listener' # "taken" /\ (listener' = "free" => Cardinality(Open) < Cap)
        BY <2>1 DEF Rearmed
  <2>4. Instances' <= Cap
        BY <1>0, <2>1, <2>2, <2>3 DEF InstancesHeld
  <2> QED BY <2>1, <2>2, <2>3, <2>4 DEF InstancesHeld
<1>8. CASE Identify
  <2>1. /\ held \in Ends /\ conn[held] = "held" /\ loop = "identify" /\ loop' = "top" /\ UNCHANGED listener
        BY <1>8 DEF Identify, OneHolder
  <2>2. \E how \in {"none", "queued", "refused"} : conn' = [conn EXCEPT ![held] = how]
        BY <1>8 DEF Identify, Drop
  <2>3. \A e \in Ends : (conn'[e] # "none" => conn[e] # "none") /\ (conn[e] = "waiting" => conn'[e] = "waiting")
        BY <2>1, <2>2 DEF BrokerTyped
  <2> QED BY <1>k, <2>1, <2>3 DEF Up
<1>9. ASSUME NEW w \in Workers, WorkerTakes(w) PROVE InstancesHeld'
  <2>1. UNCHANGED <<loop, listener>> /\ work # <<>> /\ conn' = [conn EXCEPT ![Head(work)] = "working"]
        BY <1>9 DEF WorkerTakes
  <2>2. conn[Head(work)] = "queued"
    <3>1. 1 \in 1..Len(work) /\ work[1] = Head(work)
          BY <2>1 DEF BrokerTyped
    <3> QED BY <3>1 DEF OneHolder, InLine
  <2>3. \A e \in Ends : (conn'[e] # "none" => conn[e] # "none") /\ (conn[e] = "waiting" => conn'[e] = "waiting")
        BY <2>1, <2>2 DEF BrokerTyped
  <2> QED BY <1>k, <2>1, <2>3 DEF Up
<1>10. ASSUME NEW w \in Workers, WorkerServes(w) PROVE InstancesHeld'
  <2>1. UNCHANGED <<loop, listener>> /\ conn[serves[w]] = "working"
        BY <1>10 DEF WorkerServes, OneHolder
  <2>2. \E how \in {"none", "answered", "refused", "dropped"} : conn' = [conn EXCEPT ![serves[w]] = how]
        BY <1>10 DEF WorkerServes, Drop
  <2>3. \A e \in Ends : (conn'[e] # "none" => conn[e] # "none") /\ (conn[e] = "waiting" => conn'[e] = "waiting")
        BY <2>1, <2>2 DEF BrokerTyped
  <2> QED BY <1>k, <2>1, <2>3 DEF Up
<1>11. ASSUME NEW c \in Clients, Opens(c) PROVE InstancesHeld'
  <2>1. /\ conn[c] = "none" /\ conn' = [conn EXCEPT ![c] = "waiting"] /\ listener = "free" /\ listener' = "taken"
        /\ UNCHANGED loop
        BY <1>11 DEF Opens, CarriedOnce, CallCarried
  <2>2. c \in Ends /\ conn'[c] = "waiting"
        BY <1>0, <2>1 DEF BrokerTyped
  <2>3. IsFiniteSet(Open') /\ Cardinality(Open') = Cardinality(Open) + 1
        BY <1>0, <2>1, <2>2, OpenGrows
  <2>4. Instances' <= Cap
        BY <1>0, <2>1, <2>3 DEF InstancesHeld
  <2> QED BY <2>1, <2>2, <2>3, <2>4 DEF InstancesHeld
<1>12. ASSUME NEW c \in Clients, Sends(c) PROVE InstancesHeld'
      BY <1>12, <1>k DEF Sends, Up
<1>13. ASSUME NEW c \in Clients, CallEnds(c) PROVE InstancesHeld'
  <2>1. UNCHANGED <<loop, listener>> /\ conn' = Leave(c)
        BY <1>13, EndOfCall
  <2>2. \A e \in Ends : (conn'[e] # "none" => conn[e] # "none") /\ (conn[e] = "waiting" => conn'[e] = "waiting")
        BY <2>1 DEF Leave, ServerDone, BrokerTyped
  <2> QED BY <1>k, <2>1, <2>2 DEF Up
<1>14. CASE UNCHANGED brokerVars
      BY <1>14, <1>k DEF brokerVars, Up
<1> QED BY <1>1, <1>2, <1>3, <1>4, <1>5, <1>6, <1>7, <1>8, <1>9, <1>10, <1>11, <1>12, <1>13, <1>14, BrokerCases

LEMMA BrokerInvStep == BrokerInv /\ [BrokerNext]_brokerVars => BrokerInv'
  BY TypedStep, FaultsStep, CarriedStep, HolderStep, InstancesStep DEF BrokerInv

\* A request is never carried out twice, a call is told what became of it, the pipe keeps
\* within its instances and no client ends the broker. (run_broker, handle_client,
\* BrokerClient::call, unit_or_local)
THEOREM BrokerIsSafe == BrokerSpec => []BrokerSafe
<1>1. BrokerInv => BrokerSafe
  <2> SUFFICES ASSUME BrokerInv PROVE BrokerSafe
      OBVIOUS
  <2>1. BrokerTypeOK
        BY DEF BrokerInv, BrokerTyped, InstancesHeld, BrokerTypeOK
  <2>2. NeverTwice /\ ResultTrue
    <3> SUFFICES ASSUME NEW c \in Clients
                 PROVE  /\ ran[c] + ranLocally[c] <= 1
                        /\ result[c] = "ok" => ran[c] = 1
                        /\ result[c] \in {"refused", "local"} => ran[c] = 0
        BY DEF NeverTwice, ResultTrue
    <3>1. CallCarried(c)
          BY DEF BrokerInv, CarriedOnce
    <3>2. /\ ran[c] = 0 \/ (ran[c] = 1 /\ result[c] \in {"none", "ok", "unknown", "gone"})
          /\ ranLocally[c] = 0 \/ (ranLocally[c] = 1 /\ result[c] = "local")
          /\ result[c] = "ok" => ran[c] = 1
          BY <3>1 DEF CallCarried, BrokerInv, BrokerTyped
    <3> QED BY <3>2
  <2>3. OnlyFaultsEndIt
        BY BrokerAssumption DEF BrokerInv, BrokerTyped, FaultsCount, OnlyFaultsEndIt
  <2> QED BY <2>1, <2>2, <2>3 DEF BrokerSafe
<1> QED BY <1>1, BrokerBegins, BrokerInvStep, PTL DEF BrokerSpec

-----------------------------------------------------------------------------
(* Where per-process usage comes from.                                      *)

\* What was read is of the time the page has been asking since, and there is nothing
\* while the source is not decided. (set_demand, disk_window, net_totals)
UsageInv ==
    /\ UsageTypeOK
    /\ kind \in {"net", "disk"} /\ era \in Nat /\ want \in BOOLEAN
    /\ reading = NoReading \/ reading \in [who : {who, 1}, era : Nat]
    /\ who \in {1, 2}
    /\ src = "undecided" => reading = NoReading
    /\ want /\ reading # NoReading => reading.era = era

\* What a tick can make of the row and the reading.
LEMMA RowOfTick ==
    ASSUME UsageInv, want, Reads \/ Nothing
    PROVE  /\ out'.known \in BOOLEAN
           /\ out'.basis # NoReading => out'.basis = Mine
           /\ reading' = reading \/ reading' = Mine
<1>1. Usable => reading # NoReading /\ reading = Mine
      BY DEF Usable, Mine, UsageInv
<1>2. CASE Nothing
      BY <1>2 DEF Nothing, Unknown
<1>3. CASE Reads
  <2>1. CASE reading' = Mine /\ out' = [known |-> TRUE, basis |-> IF kind = "net" /\ Usable THEN reading ELSE NoReading]
    <3>1. CASE kind = "net" /\ Usable
      <4>1. out' = [known |-> TRUE, basis |-> Mine]
            BY <1>1, <2>1, <3>1
      <4> QED BY <2>1, <4>1
    <3>2. CASE ~(kind = "net" /\ Usable)
      <4>1. out' = [known |-> TRUE, basis |-> NoReading]
            BY <2>1, <3>2
      <4> QED BY <2>1, <4>1
    <3> QED BY <3>1, <3>2
  <2>2. CASE UNCHANGED reading /\ out' = IF Usable THEN [known |-> TRUE, basis |-> reading] ELSE Unknown
    <3>1. CASE Usable
      <4>1. out' = [known |-> TRUE, basis |-> Mine]
            BY <1>1, <2>2, <3>1
      <4>2. UNCHANGED reading
            BY <2>2
      <4> QED BY <4>1, <4>2
    <3>2. CASE ~Usable
      <4>1. out' = Unknown
            BY <2>2, <3>2
      <4> QED BY <2>2, <4>1 DEF Unknown
    <3> QED BY <3>1, <3>2
  <2>3. CASE UNCHANGED reading /\ out' = Unknown
        BY <2>3 DEF Unknown
  <2> QED BY <1>3, <2>1, <2>2, <2>3 DEF Reads
<1> QED BY <1>2, <1>3

\* One tick of the sampler while a page asks. (collect_process_network, collect_process_disk)
LEMMA TickAsked ==
    ASSUME UsageInv, Tick, want
    PROVE  /\ Reads \/ Nothing
           /\ src' \in {"broker", "local", "unavailable"}
           /\ misses' \in 0..(Tolerance - 1) /\ (misses' > 0 => src' = "broker")
           /\ localUp' => src' = "local"
           /\ answer' \in Answers \cup {"unasked"}
           /\ answer' = "rejected" => src' # "local"
           /\ src = "unavailable" /\ answer' = "active" => src' = "broker"
<1> USE UsageAssumption DEF UsageInv, UsageTypeOK, Answers
<1>0. PICK a \in Answers :
        /\ answer' = IF src = "local" THEN "unasked" ELSE a
        /\ CASE src = "unavailable" -> Retry(a)
             [] src = "undecided" -> Probe(a)
             [] src = "broker" -> AskBroker(a)
             [] src = "local" -> ReadLocal
      BY DEF Tick
<1>p. ASSUME NEW b \in Answers, Probe(b), ~localUp
      PROVE  /\ Reads \/ Nothing
             /\ src' \in {"broker", "local", "unavailable"} /\ misses' = 0
             /\ localUp' => src' = "local"
             /\ b = "rejected" => src' # "local"
  <2>1. CASE MayStartLocal(b)
        BY <1>p, <2>1 DEF Probe, MayStartLocal, GiveUp
  <2>2. CASE ~MayStartLocal(b)
        BY <1>p, <2>2 DEF Probe, GiveUp, Settle
  <2> QED BY <2>1, <2>2
<1>1. CASE src = "undecided"
      BY <1>0, <1>1, <1>p
<1>2. CASE src = "broker"
  <2>1. AskBroker(a) /\ ~localUp /\ answer' = a
        BY <1>0, <1>2
  <2>2. CASE a = "unavailable" /\ Nothing
    <3>1. CASE misses + 1 >= Tolerance
          BY <2>1, <2>2, <3>1 DEF AskBroker, GiveUp
    <3>2. CASE ~(misses + 1 >= Tolerance)
          BY <1>2, <2>1, <2>2, <3>2 DEF AskBroker
    <3> QED BY <3>1, <3>2
  <2>3. CASE a # "unavailable"
        BY <2>1, <2>3, <1>2 DEF AskBroker, GiveUp, Settle, Sampled
  <2>4. a = "unavailable" => Nothing
        BY <2>1 DEF AskBroker
  <2> QED BY <2>2, <2>3, <2>4
<1>3. CASE src = "local"
      BY <1>0, <1>3 DEF ReadLocal, GiveUp
<1>4. CASE src = "unavailable"
  <2>1. Retry(a) /\ ~localUp /\ answer' = a /\ misses = 0
        BY <1>0, <1>4
  <2>2. CASE a \in {"active", "inactive"}
        BY <2>1, <2>2 DEF Retry, Asks, Settle, Sampled
  <2>3. CASE a = "rejected"
        BY <1>4, <2>1, <2>3 DEF Retry, Asks
  <2>4. CASE a = "unavailable"
    <3>1. CASE due
      <4>1. PICK b \in Answers : Probe(b)
            BY <2>1, <2>4, <3>1 DEF Retry, Asks
      <4> QED BY <1>p, <2>1, <2>4, <4>1
    <3>2. CASE ~due
          BY <1>4, <2>1, <2>4, <3>2 DEF Retry, Asks
    <3> QED BY <3>1, <3>2
  <2> QED BY <2>2, <2>3, <2>4
<1> QED BY <1>1, <1>2, <1>3, <1>4

LEMMA UsageInvStep == UsageInv /\ [UsageNext]_usageVars => UsageInv'
<1> SUFFICES ASSUME UsageInv, [UsageNext]_usageVars PROVE UsageInv'
    OBVIOUS
<1> USE UsageAssumption DEF UsageInv
<1>1. CASE Tick /\ want
  <2>1. UNCHANGED <<kind, want, era, who>>
        BY <1>1 DEF Tick
  <2>2. /\ out'.known \in BOOLEAN
        /\ reading' = reading \/ reading' = Mine
        BY <1>1, RowOfTick, TickAsked
  <2>3. UsageTypeOK' /\ src' # "undecided"
        BY <1>1, <2>2, TickAsked DEF UsageTypeOK, Answers
  <2> QED BY <1>1, <2>1, <2>2, <2>3 DEF Mine
<1>2. CASE Tick /\ ~want
  <2>1. /\ src' = "undecided" /\ misses' = 0 /\ reading' = NoReading /\ out' = Unknown /\ localUp' = FALSE
        /\ answer' = "unasked" /\ UNCHANGED <<kind, want, era, who>>
        BY <1>2 DEF Tick, Unwanted, Forget
  <2>2. UsageTypeOK'
        BY <2>1 DEF UsageTypeOK, Unknown
  <2> QED BY <2>1, <2>2
<1>3. CASE Demand
  <2>1. /\ want' = ~want /\ (~want => src = "undecided")
        /\ UNCHANGED <<kind, who, src, misses, localUp, answer, reading, out>>
        BY <1>3 DEF Demand
  <2>2. era' \in Nat
    <3>1. CASE want
          BY <1>3, <3>1 DEF Demand
    <3>2. CASE ~want
          BY <1>3, <3>2 DEF Demand
    <3> QED BY <3>1, <3>2
  <2>3. UsageTypeOK'
        BY <2>1 DEF UsageTypeOK
  <2>4. ~(want' /\ reading' # NoReading)
        BY <2>1
  <2> QED BY <2>1, <2>2, <2>3, <2>4
<1>4. CASE PidReused
      BY <1>4 DEF PidReused, UsageTypeOK
<1>5. CASE TraceStopped \/ RetryDue
      BY <1>5 DEF TraceStopped, RetryDue, UsageTypeOK
<1>6. CASE UNCHANGED usageVars
      BY <1>6 DEF usageVars, UsageTypeOK
<1> QED BY <1>1, <1>2, <1>3, <1>4, <1>5, <1>6 DEF UsageNext

\* A tick keeps what BasisHonest, RefusalFinal and ServicePickedUp promise.
LEMMA UsageTicks ==
    ASSUME UsageInv, [UsageNext]_usageVars, ticks' # ticks
    PROVE  /\ out'.basis # NoReading => out'.basis = [who |-> who, era |-> era]
           /\ answer' = "rejected" => src' # "local"
           /\ want /\ src = "unavailable" /\ answer' = "active" => src' = "broker"
<1>0. Tick
      BY DEF UsageNext, Demand, PidReused, TraceStopped, RetryDue, usageVars
<1>1. CASE want
      BY <1>0, <1>1, RowOfTick, TickAsked DEF Mine
<1>2. CASE ~want
      BY <1>0, <1>2 DEF Tick, Unwanted, Unknown
<1> QED BY <1>1, <1>2

-----------------------------------------------------------------------------
(* The lane the samplers ask the service through.                           *)

\* The request that is with the service and those behind it are one at most.
LaneInv ==
    /\ jobs = <<>> \/ \E j \in [caller : Callers, call : Nat] : jobs = <<j>>
    /\ jobs # <<>> => busy /\ (serving = Nobody0 \/ freed)
    /\ ~busy => serving = Nobody0 \/ freed
    /\ serving = Nobody0 \/ serving \in [caller : Callers, call : Nat]
    /\ calls \in Nat
    /\ got \in [Callers -> [asked : Nat, answer : Nat]]
    /\ AnswerIsOwn

LEMMA LaneInvStep == LaneInv /\ [LaneNext]_laneVars => LaneInv'
<1> SUFFICES ASSUME LaneInv, [LaneNext]_laneVars PROVE LaneInv'
    OBVIOUS
<1> USE DEF LaneInv, AnswerIsOwn
<1>1. ASSUME NEW c \in Callers, Ask(c) PROVE LaneInv'
  <2>1. CASE busy \/ jobs # <<>>
        BY <1>1, <2>1 DEF Ask
  <2>2. CASE ~busy /\ jobs = <<>>
    <3>1. [caller |-> c, call |-> calls + 1] \in [caller : Callers, call : Nat] /\ calls' \in Nat
          BY <1>1 DEF Ask
    <3>2. busy' = TRUE /\ jobs' = <<[caller |-> c, call |-> calls + 1]>> /\ UNCHANGED <<serving, freed, got>>
          BY <1>1, <2>2 DEF Ask
    <3> QED BY <2>2, <3>1, <3>2
  <2> QED BY <2>1, <2>2
<1>2. ASSUME NEW c \in Callers, TimesOut(c) PROVE LaneInv'
      BY <1>2 DEF TimesOut, BusyAfterTimeout
<1>3. CASE LaneTakes
  <2>1. PICK j \in [caller : Callers, call : Nat] : jobs = <<j>>
        BY <1>3 DEF LaneTakes
  <2>2. serving' = j /\ jobs' = <<>> /\ freed' = FALSE /\ busy /\ UNCHANGED <<busy, calls, got>>
        BY <1>3, <2>1 DEF LaneTakes
  <2> QED BY <2>2
<1>4. CASE LaneFrees
      BY <1>4 DEF LaneFrees
<1>5. CASE LaneAnswers
  <2>1. serving \in [caller : Callers, call : Nat] /\ freed /\ serving' = Nobody0 /\ UNCHANGED <<busy, jobs, calls>>
        BY <1>5 DEF LaneAnswers
  <2>2. \/ UNCHANGED got
        \/ got' = [got EXCEPT ![serving.caller] = [asked |-> serving.call, answer |-> serving.call]]
        BY <1>5 DEF LaneAnswers, Replies
  <2>3. serving.caller \in Callers /\ serving.call \in Nat
        BY <2>1
  <2>4. got' \in [Callers -> [asked : Nat, answer : Nat]] /\ AnswerIsOwn'
        BY <2>2, <2>3
  <2>5. jobs' = <<>> \/ \E j \in [caller : Callers, call : Nat] : jobs' = <<j>>
        BY <2>1
  <2> QED BY <2>1, <2>4, <2>5
<1>6. CASE UNCHANGED laneVars
      BY <1>6 DEF laneVars
<1> QED BY <1>1, <1>2, <1>3, <1>4, <1>5, <1>6 DEF LaneNext

\* What a thread is told about a process is of that process, since it asked and from the
\* answer to its own call; a refusal stands and a service that is back is used.
\* (apply_process_network, carry_process_disk, probe_net_source, call_with_timeout)
THEOREM UsageIsHonest == UsageSpec /\ LaneSpec => UsageHonest
<1>1. UsageInit => UsageInv
      BY UsageAssumption DEF UsageInit, UsageInv, UsageTypeOK, Unknown
<1>2. LaneInit => LaneInv
      BY DEF LaneInit, LaneInv, AnswerIsOwn
<1>3. UsageInv => UsageTypeOK
      BY DEF UsageInv
<1>4. LaneInv => OneInFlight /\ AnswerIsOwn
  <2> SUFFICES ASSUME LaneInv PROVE OneInFlight
      BY DEF LaneInv
  <2>1. CASE jobs = <<>>
    <3>1. Len(jobs) = 0
          BY <2>1
    <3> QED BY <2>1, <3>1 DEF LaneInv, OneInFlight
  <2>2. CASE jobs # <<>>
    <3>1. PICK j \in [caller : Callers, call : Nat] : jobs = <<j>>
          BY <2>2 DEF LaneInv
    <3>2. Len(jobs) = 1 /\ busy /\ (serving = Nobody0 \/ freed)
          BY <2>2, <3>1 DEF LaneInv
    <3> QED BY <3>2 DEF OneInFlight
  <2> QED BY <2>1, <2>2
<1>5. UsageInv /\ [UsageNext]_usageVars =>
        [(ticks' # ticks /\ out'.basis # NoReading) => out'.basis = [who |-> who, era |-> era]]_usageVars
      BY UsageTicks
<1>6. UsageInv /\ [UsageNext]_usageVars => [answer' = "rejected" /\ ticks' # ticks => src' # "local"]_usageVars
      BY UsageTicks
<1>7. UsageInv /\ [UsageNext]_usageVars =>
        [(ticks' # ticks /\ want /\ src = "unavailable" /\ answer' = "active") => src' = "broker"]_usageVars
      BY UsageTicks
<1> QED BY <1>1, <1>2, <1>3, <1>4, <1>5, <1>6, <1>7, UsageInvStep, LaneInvStep, PTL
        DEF UsageSpec, LaneSpec, UsageHonest, BasisHonest, RefusalFinal, ServicePickedUp

-----------------------------------------------------------------------------
(* The devices: bounds.                                                     *)

LEMMA MaxIs ==
    ASSUME NEW S \in SUBSET Int, NEW m \in S, \A y \in S : y <= m
    PROVE  Max(S) = m
  <1> DEFINE P(x) == x \in S /\ \A y \in S : x >= y
  <1>1. P(m)
    OBVIOUS
  <1>2. \A x \in S : (\A y \in S : x >= y) => x = m
    OBVIOUS
  <1>3. Max(S) \in S /\ \A y \in S : Max(S) >= y
    BY <1>1, Zenon DEF Max
  <1> QED BY <1>2, <1>3

LEMMA MinIs ==
    ASSUME NEW S \in SUBSET Int, NEW m \in S, \A y \in S : m <= y
    PROVE  Min(S) = m
  <1> DEFINE P(x) == x \in S /\ \A y \in S : x <= y
  <1>1. P(m)
    OBVIOUS
  <1>2. \A x \in S : (\A y \in S : x <= y) => x = m
    OBVIOUS
  <1>3. Min(S) \in S /\ \A y \in S : Min(S) <= y
    BY <1>1, Zenon DEF Min
  <1> QED BY <1>2, <1>3

LEMMA MinOfTwo == ASSUME NEW a \in Int, NEW b \in Int PROVE Min({a, b}) = IF a <= b THEN a ELSE b
  <1>1. CASE a <= b
    <2>1. {a, b} \in SUBSET Int /\ a \in {a, b} /\ \A y \in {a, b} : a <= y
      BY <1>1
    <2>2. Min({a, b}) = a
      BY <2>1, MinIs
    <2> QED BY <1>1, <2>2
  <1>2. CASE ~(a <= b)
    <2>1. {a, b} \in SUBSET Int /\ b \in {a, b} /\ \A y \in {a, b} : b <= y
      BY <1>2
    <2>2. Min({a, b}) = b
      BY <2>1, MinIs
    <2> QED BY <1>2, <2>2
  <1> QED BY <1>1, <1>2

LEMMA MaxOfTwo == ASSUME NEW a \in Int, NEW b \in Int PROVE Max({a, b}) = IF a <= b THEN b ELSE a
  <1>1. CASE a <= b
    <2>1. {a, b} \in SUBSET Int /\ b \in {a, b} /\ \A y \in {a, b} : y <= b
      BY <1>1
    <2>2. Max({a, b}) = b
      BY <2>1, MaxIs
    <2> QED BY <1>1, <2>2
  <1>2. CASE ~(a <= b)
    <2>1. {a, b} \in SUBSET Int /\ a \in {a, b} /\ \A y \in {a, b} : y <= a
      BY <1>2
    <2>2. Max({a, b}) = a
      BY <2>1, MaxIs
    <2> QED BY <1>2, <2>2
  <1> QED BY <1>1, <1>2

\* Loads are 0 or 1, so the busiest is 1 exactly if one of them is.
LEMMA MaxOfLoads ==
    ASSUME NEW S \in SUBSET {0, 1}
    PROVE  Max({0} \cup S) = IF 1 \in S THEN 1 ELSE 0
  <1>1. CASE 1 \in S
    <2>1. {0} \cup S \in SUBSET Int /\ 1 \in {0} \cup S /\ \A y \in {0} \cup S : y <= 1
      BY <1>1
    <2>2. Max({0} \cup S) = 1
      BY <2>1, MaxIs
    <2> QED BY <1>1, <2>2
  <1>2. CASE 1 \notin S
    <2>1. {0} \cup S \in SUBSET Int /\ 0 \in {0} \cup S /\ \A y \in {0} \cup S : y <= 0
      BY <1>2
    <2>2. Max({0} \cup S) = 0
      BY <2>1, MaxIs
    <2> QED BY <1>2, <2>2
  <1> QED BY <1>1, <1>2

-----------------------------------------------------------------------------
(* The devices: the inductive invariant.                                    *)

QueryGroups == [open : BOOLEAN, counters : BOOLEAN, done : 0 .. 2, warm : BOOLEAN, age : Nat,
                failed : BOOLEAN, strict : BOOLEAN]

\* The ghost counts the collections of the query as it is open now. (QueryGroup::collect)
GroupInv ==
    /\ pdh \in QueryGroups
    /\ pdh.open => raw.got = pdh.done /\ (pdh.warm => pdh.done >= 2)
    /\ raw.tries \in 0 .. 1 /\ (raw.tries = 1 => pdh.failed)

\* An adapter goes unseen only between two probes. (collect_gpus)
GpuInv ==
    /\ dxgi.present \in SUBSET Luids /\ dxgi.since \in 0 .. Reprobe
    /\ dxgi.known = NotYet \/ dxgi.known \in SUBSET Luids
    /\ missed \in [Luids -> Nat] /\ \A l \in Luids : missed[l] <= dxgi.since

\* What a rate is computed from are the counters of the last tick. (prev_net_totals)
NetInv ==
    /\ nic.totals \in [Nics -> Nat]
    /\ \A n \in DOMAIN nic.prev : n \in Nics /\ nic.prev[n] = nic.totals[n]

DeviceInv ==
    GroupInv /\ GpuInv /\ NetInv /\ ProcessWithinTotal /\ WifiGated /\ NetRateTrue /\ CardsApart

-----------------------------------------------------------------------------
(* The devices: the query group.                                            *)

\* A field of a group is set, and the others stay.
LEMMA SetOpen ==
    ASSUME NEW g \in QueryGroups, NEW b \in BOOLEAN, NEW x, x = [g EXCEPT !.open = b]
    PROVE  /\ x \in QueryGroups /\ x.open = b
           /\ x.counters = g.counters /\ x.done = g.done /\ x.warm = g.warm
           /\ x.age = g.age /\ x.failed = g.failed /\ x.strict = g.strict
  BY DEF QueryGroups

LEMMA SetCounters ==
    ASSUME NEW g \in QueryGroups, NEW b \in BOOLEAN, NEW x, x = [g EXCEPT !.counters = b]
    PROVE  /\ x \in QueryGroups /\ x.counters = b
           /\ x.open = g.open /\ x.done = g.done /\ x.warm = g.warm
           /\ x.age = g.age /\ x.failed = g.failed /\ x.strict = g.strict
  BY DEF QueryGroups

LEMMA SetDone ==
    ASSUME NEW g \in QueryGroups, NEW b \in 0 .. 2, NEW x, x = [g EXCEPT !.done = b]
    PROVE  /\ x \in QueryGroups /\ x.done = b
           /\ x.open = g.open /\ x.counters = g.counters /\ x.warm = g.warm
           /\ x.age = g.age /\ x.failed = g.failed /\ x.strict = g.strict
  BY DEF QueryGroups

LEMMA SetWarm ==
    ASSUME NEW g \in QueryGroups, NEW b \in BOOLEAN, NEW x, x = [g EXCEPT !.warm = b]
    PROVE  /\ x \in QueryGroups /\ x.warm = b
           /\ x.open = g.open /\ x.counters = g.counters /\ x.done = g.done
           /\ x.age = g.age /\ x.failed = g.failed /\ x.strict = g.strict
  BY DEF QueryGroups

LEMMA SetAge ==
    ASSUME NEW g \in QueryGroups, NEW b \in Nat, NEW x, x = [g EXCEPT !.age = b]
    PROVE  /\ x \in QueryGroups /\ x.age = b
           /\ x.open = g.open /\ x.counters = g.counters /\ x.done = g.done
           /\ x.warm = g.warm /\ x.failed = g.failed /\ x.strict = g.strict
  BY DEF QueryGroups

LEMMA SetFailed ==
    ASSUME NEW g \in QueryGroups, NEW b \in BOOLEAN, NEW x, x = [g EXCEPT !.failed = b]
    PROVE  /\ x \in QueryGroups /\ x.failed = b
           /\ x.open = g.open /\ x.counters = g.counters /\ x.done = g.done
           /\ x.warm = g.warm /\ x.age = g.age /\ x.strict = g.strict
  BY DEF QueryGroups

\* A query opened or closed starts without readings. (open_counter_group, close)
Requeried(g, b, some) ==
    [g EXCEPT !.open = b, !.counters = some, !.done = 0, !.warm = FALSE]

LEMMA OpenedGroup ==
    ASSUME NEW g \in QueryGroups, NEW some \in BOOLEAN, NEW b \in BOOLEAN, NEW x,
           x = Requeried(g, b, some)
    PROVE  x \in QueryGroups /\ x.open = b /\ x.done = 0 /\ ~x.warm /\ x.failed = g.failed
  <1>1. PICK x1 : x1 = [g EXCEPT !.open = b]
    OBVIOUS
  <1>2. x1 \in QueryGroups /\ x1.open = b /\ x1.failed = g.failed
    BY <1>1, SetOpen
  <1>3. PICK x2 : x2 = [x1 EXCEPT !.counters = some]
    OBVIOUS
  <1>4. x2 \in QueryGroups /\ x2.open = b /\ x2.failed = g.failed
    BY <1>2, <1>3, SetCounters
  <1>5. PICK x3 : x3 = [x2 EXCEPT !.done = 0]
    OBVIOUS
  <1>6. x3 \in QueryGroups /\ x3.open = b /\ x3.done = 0 /\ x3.failed = g.failed
    BY <1>4, <1>5, SetDone
  <1>7. PICK x4 : x4 = [x3 EXCEPT !.warm = FALSE]
    OBVIOUS
  <1>8. x4 \in QueryGroups /\ x4.open = b /\ x4.done = 0 /\ ~x4.warm /\ x4.failed = g.failed
    <2>1. PICK no \in BOOLEAN : no = FALSE
      OBVIOUS
    <2>2. x4 = [x3 EXCEPT !.warm = no]
      BY <1>7, <2>1, Zenon
    <2>3. /\ x4 \in QueryGroups /\ x4.open = x3.open /\ x4.done = x3.done /\ x4.warm = no
          /\ x4.failed = x3.failed
      BY <1>6, <2>2, SetWarm
    <2> QED BY <1>6, <2>1, <2>3
  <1>9. x = x4
    BY <1>1, <1>3, <1>5, <1>7 DEF QueryGroups, Requeried
  <1> QED BY <1>8, <1>9

\* A wake opens the query afresh or gives the group up. (wake)
LEMMA WakeGroup ==
    ASSUME NEW g \in QueryGroups, NEW opens \in BOOLEAN, NEW some \in BOOLEAN, NEW w,
           w = Wake(g, opens, some)
    PROVE  /\ w \in QueryGroups
           /\ g.open => w = g
           /\ ~g.open => (w.open <=> opens) /\ (w.open => w.done = 0 /\ ~w.warm)
           /\ ~g.open /\ ~opens => w.failed
  <1>1. CASE g.open
    BY <1>1 DEF Wake
  <1>2. CASE ~g.open
    <2>1. PICK o : o = OpenCounterGroup(g, opens, some)
      OBVIOUS
    <2>2. o \in QueryGroups /\ (o.open <=> opens) /\ (o.open => o.done = 0 /\ ~o.warm)
      <3>1. CASE opens
        <4>1. PICK yes \in BOOLEAN : yes = TRUE
          OBVIOUS
        <4>2. o = Requeried(g, yes, some)
          BY <2>1, <3>1, <4>1, Zenon DEF OpenCounterGroup, Requeried
        <4>3. o \in QueryGroups /\ o.open = yes /\ o.done = 0 /\ ~o.warm
          BY <4>2, OpenedGroup
        <4> QED BY <3>1, <4>1, <4>3
      <3>2. CASE ~opens
        BY <1>2, <2>1, <3>2 DEF OpenCounterGroup
      <3> QED BY <3>1, <3>2
    <2>3. PICK f \in BOOLEAN : f = (~o.open \/ (o.strict /\ ~o.counters))
      <3>1. (~o.open \/ (o.strict /\ ~o.counters)) \in BOOLEAN
        OBVIOUS
      <3> QED BY <3>1, Zenon
    <2>4. w = [o EXCEPT !.failed = f]
      BY <1>2, <2>1, <2>3, Zenon DEF Wake
    <2>5. w \in QueryGroups /\ w.failed = f /\ w.open = o.open /\ w.done = o.done /\ w.warm = o.warm
      BY <2>2, <2>4, SetFailed
    <2>6. ~o.open => f
      BY <2>3, Zenon
    <2> QED BY <1>2, <2>2, <2>5, <2>6
  <1> QED BY <1>1, <1>2

\* Only a successful collection of an open query counts. (collect)
Collected(g, ok, c) ==
    /\ c \in QueryGroups /\ c.open = g.open /\ c.failed = g.failed
    /\ g.open /\ ok => c.done = (IF g.done = 2 THEN 2 ELSE g.done + 1)
    /\ g.open /\ ok => (c.warm => g.done >= 1)
    /\ ~(g.open /\ ok) => c.done = g.done /\ c.warm = g.warm

LEMMA CollectGroup ==
    ASSUME NEW g \in QueryGroups, NEW ok \in BOOLEAN, NEW c, c = Collect(g, ok)
    PROVE  Collected(g, ok, c)
  <1> USE DEF Collected
  <1>1. CASE ~g.open
    BY <1>1 DEF Collect
  <1>2. CASE g.open /\ ~ok
    <2>1. c = [g EXCEPT !.age = 0] /\ 0 \in Nat
      BY <1>2 DEF Collect
    <2>2. /\ c \in QueryGroups /\ c.open = g.open /\ c.failed = g.failed
          /\ c.done = g.done /\ c.warm = g.warm
      BY <2>1, SetAge
    <2> QED BY <1>2, <2>2
  <1>3. CASE g.open /\ ok
    <2>1. PICK n \in 0 .. 2 : n = IF g.done = 2 THEN 2 ELSE g.done + 1
      BY DEF QueryGroups
    <2>2. g.done \in 0 .. 2 /\ Min({2, g.done + 1}) = n
      BY <2>1, MinOfTwo DEF QueryGroups
    <2>3. PICK v \in BOOLEAN : v = (g.done >= 1)
      <3>1. (g.done >= 1) \in BOOLEAN
        OBVIOUS
      <3> QED BY <3>1, Zenon
    <2>4. v => g.done >= 1
      BY <2>3, Zenon
    <2>5. PICK x1 : x1 = [g EXCEPT !.age = 0]
      OBVIOUS
    <2>6. x1 \in QueryGroups /\ x1.done = g.done /\ x1.open = g.open /\ x1.failed = g.failed
      BY <2>5, SetAge
    <2>7. PICK x2 : x2 = [x1 EXCEPT !.done = n]
      OBVIOUS
    <2>8. x2 \in QueryGroups /\ x2.done = n /\ x2.open = g.open /\ x2.failed = g.failed
      BY <2>6, <2>7, SetDone
    <2>9. PICK x3 : x3 = [x2 EXCEPT !.warm = v]
      OBVIOUS
    <2>10. /\ x3 \in QueryGroups /\ x3.done = n /\ x3.warm = v /\ x3.open = g.open
           /\ x3.failed = g.failed
      BY <2>8, <2>9, SetWarm
    <2>11. c = x3
      <3>1. c = [g EXCEPT !.age = 0, !.done = Min({2, @ + 1}), !.warm = g.done >= 1]
        BY <1>3 DEF Collect
      <3>2. [g EXCEPT !.age = 0, !.done = Min({2, @ + 1}), !.warm = g.done >= 1]
              = [g EXCEPT !.age = 0, !.done = n, !.warm = g.done >= 1]
        BY <2>2 DEF QueryGroups
      <3>3. [g EXCEPT !.age = 0, !.done = n, !.warm = g.done >= 1]
              = [g EXCEPT !.age = 0, !.done = n, !.warm = v]
        BY <2>3, Zenon
      <3>4. [g EXCEPT !.age = 0, !.done = n, !.warm = v] = x3
        BY <2>5, <2>7, <2>9 DEF QueryGroups
      <3> QED BY <3>1, <3>2, <3>3, <3>4, Zenon
    <2> QED BY <1>3, <2>1, <2>4, <2>10, <2>11
  <1> QED BY <1>1, <1>2, <1>3

\* Sleeping closes a group or leaves its readings alone. (maybe_sleep)
LEMMA SleepGroup ==
    ASSUME NEW g \in QueryGroups, NEW need \in BOOLEAN, NEW s, s = MaybeSleep(g, need)
    PROVE  /\ s \in QueryGroups /\ s.failed = g.failed
           /\ s.open => g.open /\ s.done = g.done /\ s.warm = g.warm
  <1>1. CASE need
    <2>1. s = [g EXCEPT !.age = 0]
      BY <1>1 DEF MaybeSleep
    <2> QED BY <2>1, SetAge
  <1>2. CASE ~need /\ g.open /\ g.age > Keepalive
    <2>1. PICK no \in BOOLEAN : no = FALSE
      OBVIOUS
    <2>2. s = Requeried(g, no, no)
      BY <1>2, <2>1, Zenon DEF MaybeSleep, CloseGroup, Requeried
    <2>3. s \in QueryGroups /\ s.open = no /\ s.failed = g.failed
      BY <2>2, OpenedGroup
    <2> QED BY <2>1, <2>3
  <1>3. CASE ~need /\ ~(g.open /\ g.age > Keepalive)
    BY <1>3 DEF MaybeSleep
  <1> QED BY <1>1, <1>2, <1>3

\* One tick of a group keeps the ghost and the flag true. (PdhCounters::tick)
LEMMA GroupTickInv == ASSUME DeviceInv, GroupTick PROVE GroupInv'
  <1>1. PICK bit, opens, some, ok \in BOOLEAN :
          LET needs  == bit /\ ~pdh.failed
              aged  == [pdh EXCEPT !.age = Min({Keepalive + 1, @ + 1})]
              woken == IF needs THEN Wake(aged, opens, some) ELSE aged
              asked == Collect(woken, ok)
          IN  /\ wants' = bit
              /\ idle' = IF bit THEN 0 ELSE Min({Keepalive + 1, idle + 1})
              /\ pdh' = MaybeSleep(asked, needs)
              /\ raw' = [got   |-> IF ~pdh'.open THEN 0
                                   ELSE Min({2, (IF pdh.open THEN raw.got ELSE 0)
                                                  + (IF ok THEN 1 ELSE 0)}),
                         tries |-> Min({2, raw.tries +
                                       (IF needs /\ ~pdh.open /\ ~opens THEN 1 ELSE 0)})]
    BY Zenon DEF GroupTick
  <1>2. PICK needs \in BOOLEAN : needs = (bit /\ ~pdh.failed)
    <2>1. (bit /\ ~pdh.failed) \in BOOLEAN
      OBVIOUS
    <2> QED BY <2>1, Zenon
  <1>3. PICK a : a = [pdh EXCEPT !.age = Min({Keepalive + 1, @ + 1})]
    OBVIOUS
  <1>4. PICK w : w = IF needs THEN Wake(a, opens, some) ELSE a
    OBVIOUS
  <1>5. PICK c : c = Collect(w, ok)
    OBVIOUS
  <1>6. PICK s : s = MaybeSleep(c, needs)
    OBVIOUS
  <1>7. pdh' = s
    BY <1>1, <1>2, <1>3, <1>4, <1>5, <1>6, Zenon
  <1>8. pdh \in QueryGroups /\ (pdh.open => raw.got = pdh.done /\ (pdh.warm => pdh.done >= 2))
    BY DEF DeviceInv, GroupInv
  <1>9. raw.tries \in 0 .. 1 /\ (raw.tries = 1 => pdh.failed)
    BY DEF DeviceInv, GroupInv
  <1>10. /\ a \in QueryGroups /\ a.open = pdh.open /\ a.done = pdh.done /\ a.warm = pdh.warm
         /\ a.failed = pdh.failed
    <2>1. PICK n \in Nat : n = Min({Keepalive + 1, pdh.age + 1})
      <3>1. pdh.age \in Nat /\ Keepalive \in Nat
        BY <1>8, DeviceAssumption DEF QueryGroups
      <3>2. Min({Keepalive + 1, pdh.age + 1}) \in Nat
        BY <3>1, MinOfTwo
      <3> QED BY <3>2
    <2>2. a = [pdh EXCEPT !.age = n]
      BY <1>3, <1>8, <2>1 DEF QueryGroups
    <2> QED BY <1>8, <2>2, SetAge
  <1>11. /\ w \in QueryGroups
         /\ pdh.open => w = a
         /\ ~pdh.open /\ w.open => w.done = 0 /\ ~w.warm
         /\ needs /\ ~pdh.open /\ ~opens => w.failed
         /\ ~needs => w = a
    <2>1. CASE needs
      <3>1. w = Wake(a, opens, some)
        BY <1>4, <2>1
      <3>2. /\ w \in QueryGroups
            /\ a.open => w = a
            /\ ~a.open => (w.open <=> opens) /\ (w.open => w.done = 0 /\ ~w.warm)
            /\ ~a.open /\ ~opens => w.failed
        BY <1>10, <3>1, WakeGroup
      <3> QED BY <1>10, <2>1, <3>2
    <2>2. CASE ~needs
      BY <1>4, <1>10, <2>2
    <2> QED BY <2>1, <2>2
  <1>12. /\ c \in QueryGroups /\ c.open = w.open /\ c.failed = w.failed
         /\ w.open /\ ok => c.done = (IF w.done = 2 THEN 2 ELSE w.done + 1)
         /\ w.open /\ ok => (c.warm => w.done >= 1)
         /\ ~(w.open /\ ok) => c.done = w.done /\ c.warm = w.warm
    <2>1. Collected(w, ok, c)
      BY <1>5, <1>11, CollectGroup
    <2> QED BY <2>1 DEF Collected
  <1>13. /\ s \in QueryGroups /\ s.failed = c.failed
         /\ s.open => c.open /\ s.done = c.done /\ s.warm = c.warm
    BY <1>6, <1>12, SleepGroup
  <1>14. raw'.tries \in 0 .. 1 /\ (raw'.tries = 1 => s.failed)
    <2>1. PICK t : t = IF needs /\ ~pdh.open /\ ~opens THEN 1 ELSE 0
      OBVIOUS
    <2>2. raw'.tries = Min({2, raw.tries + t})
      BY <1>1, <1>2, <2>1
    <2>3. CASE needs /\ ~pdh.open /\ ~opens
      <3>1. t = 1 /\ raw.tries = 0
        BY <1>2, <1>9, <2>1, <2>3
      <3>2. raw'.tries = 1
        BY <2>2, <3>1, MinOfTwo
      <3> QED BY <1>11, <1>12, <1>13, <2>3, <3>2
    <2>4. CASE ~(needs /\ ~pdh.open /\ ~opens)
      <3>1. raw'.tries = raw.tries
        BY <1>9, <2>1, <2>2, <2>4, MinOfTwo
      <3>2. pdh.failed => ~needs
        BY <1>2
      <3> QED BY <1>9, <1>10, <1>11, <1>12, <1>13, <3>1, <3>2
    <2> QED BY <2>3, <2>4
  <1>15. s.open => raw'.got = s.done /\ (s.warm => s.done >= 2)
    <2> SUFFICES ASSUME s.open PROVE raw'.got = s.done /\ (s.warm => s.done >= 2)
      OBVIOUS
    <2>1. PICK k : k = IF ok THEN 1 ELSE 0
      OBVIOUS
    <2>2. PICK b : b = IF pdh.open THEN raw.got ELSE 0
      OBVIOUS
    <2>3. raw'.got = Min({2, b + k})
      BY <1>1, <1>7, <2>1, <2>2
    <2>4. w.open /\ w.done \in 0 .. 2 /\ w.done = b /\ (w.warm => w.done >= 2)
      BY <1>8, <1>10, <1>11, <1>12, <1>13, <2>2 DEF QueryGroups
    <2>5. Min({2, b + k}) = IF 2 <= b + k THEN 2 ELSE b + k
      BY <2>1, <2>4, MinOfTwo
    <2> QED BY <1>12, <1>13, <2>1, <2>3, <2>4, <2>5
  <1> QED BY <1>7, <1>13, <1>14, <1>15 DEF GroupInv

-----------------------------------------------------------------------------
(* The devices: the GPU cards.                                              *)

LEMMA EngineLoads ==
    ASSUME NEW used \in SUBSET Records, NEW l \in Luids, NEW e
    PROVE  /\ EngineLoad(used, l, e) \in {0, 1}
           /\ \A a \in GpuApps : <<a, l, e>> \in used => EngineLoad(used, l, e) = 1
  <1> DEFINE users == {a \in GpuApps : <<a, l, e>> \in used}
  <1>1. IsFiniteSet(GpuApps)
    <2>1. GpuApps \subseteq Luids \cup GpuApps \cup Nics \cup Mounts
      OBVIOUS
    <2> QED BY <2>1, DeviceAssumption, FS_Subset
  <1>2. IsFiniteSet(users)
    <2>1. users \subseteq GpuApps
      OBVIOUS
    <2> QED BY <1>1, <2>1, FS_Subset
  <1>3. PICK k \in Nat : k = Cardinality(users)
    BY <1>2, FS_CardinalityType
  <1>4. \A a \in GpuApps : <<a, l, e>> \in used => k # 0
    <2>1. \A a \in GpuApps : <<a, l, e>> \in used => users # {}
      OBVIOUS
    <2>2. users # {} => k # 0
      BY <1>2, <1>3, FS_EmptySet
    <2> QED BY <2>1, <2>2
  <1>5. EngineLoad(used, l, e) = Min({1, k})
    BY <1>3 DEF EngineLoad
  <1>6. Min({1, k}) = IF k = 0 THEN 0 ELSE 1
    BY MinOfTwo
  <1> QED BY <1>4, <1>5, <1>6

LEMMA AdapterLoads ==
    ASSUME NEW used \in SUBSET Records, NEW l \in Luids
    PROVE  /\ AdapterLoad(used, l) \in {0, 1}
           /\ \A a \in GpuApps, e \in GpuEngines : <<a, l, e>> \in used => AdapterLoad(used, l) = 1
  <1> DEFINE S == {EngineLoad(used, l, e) : e \in GpuEngines}
  <1>1. S \in SUBSET {0, 1}
    BY EngineLoads
  <1>2. AdapterLoad(used, l) = IF 1 \in S THEN 1 ELSE 0
    BY <1>1, MaxOfLoads DEF AdapterLoad
  <1>3. ASSUME NEW a \in GpuApps, NEW e \in GpuEngines, <<a, l, e>> \in used PROVE 1 \in S
    <2>1. EngineLoad(used, l, e) = 1
      BY <1>3, EngineLoads
    <2> QED BY <2>1
  <1> QED BY <1>2, <1>3

\* A process that uses an adapter on show makes that adapter busy. (process_gpu_view)
LEMMA WithinTotal ==
    ASSUME NEW used \in SUBSET Records, NEW shown \in SUBSET Luids, NEW a \in GpuApps,
           NEW f, f = [l \in shown |-> AdapterLoad(used, l)]
    PROVE  ProcessLoad(shown, used, a) <= Max({0} \cup Range(f))
  <1> DEFINE U == {b \in used : b[1] = a /\ b[2] \in shown}
  <1>1. Range(f) \in SUBSET {0, 1}
    <2>1. \A l \in shown : f[l] \in {0, 1}
      BY AdapterLoads
    <2>2. DOMAIN f = shown
      OBVIOUS
    <2> QED BY <2>1, <2>2 DEF Range
  <1>2. Max({0} \cup Range(f)) = IF 1 \in Range(f) THEN 1 ELSE 0
    BY <1>1, MaxOfLoads
  <1>3. {1 : r \in U} \in SUBSET {0, 1}
    OBVIOUS
  <1>4. ProcessLoad(shown, used, a) = IF 1 \in {1 : r \in U} THEN 1 ELSE 0
    BY <1>3, MaxOfLoads DEF ProcessLoad
  <1>5. 1 \in {1 : r \in U} => 1 \in Range(f)
    <2> SUFFICES ASSUME NEW r \in U PROVE 1 \in Range(f)
      OBVIOUS
    <2>1. PICK x \in GpuApps, l \in Luids, e \in GpuEngines : r = <<x, l, e>>
      BY DEF Records
    <2>2. <<a, l, e>> \in used /\ l \in shown
      BY <2>1
    <2>3. f[l] = 1
      BY <2>2, AdapterLoads
    <2> QED BY <2>2, <2>3 DEF Range
  <1> QED BY <1>2, <1>4, <1>5

LEMMA GpuTickInv == ASSUME DeviceInv, GpuTick PROVE GpuInv' /\ ProcessWithinTotal'
  <1>1. PICK bit \in BOOLEAN, works \in BOOLEAN, present \in Machine :
         \E used \in SUBSET {r \in Records : r[2] \in present} :
          LET named == IF bit THEN present ELSE {}
              load  == IF bit THEN used ELSE {}
              since == Min({Reprobe, dxgi.since + 1})
              probe   == ProbeDue(dxgi.known, since, bit, named)
              known == IF probe THEN Enumerated(present, works) ELSE dxgi.known
              shown == IF known = NotYet THEN {} ELSE FilterAdapters(known)
          IN  /\ wants' = bit
              /\ dxgi' = [present |-> present, known |-> known,
                          since |-> IF probe THEN 0 ELSE since]
              /\ cards' = [adapters |-> [l \in shown |-> AdapterLoad(load, l)],
                           apps |-> [a \in GpuApps |-> ProcessLoad(shown, load, a)]]
              /\ missed' = [l \in Luids |->
                              IF \/ l \notin named \/ (probe /\ ~works)
                                 \/ known # NotYet /\ l \in known
                              THEN 0 ELSE Min({Reprobe + 1, missed[l] + 1})]
    BY Zenon DEF GpuTick
  <1>2. PICK used \in SUBSET {r \in Records : r[2] \in present} :
          LET named == IF bit THEN present ELSE {}
              load  == IF bit THEN used ELSE {}
              since == Min({Reprobe, dxgi.since + 1})
              probe   == ProbeDue(dxgi.known, since, bit, named)
              known == IF probe THEN Enumerated(present, works) ELSE dxgi.known
              shown == IF known = NotYet THEN {} ELSE FilterAdapters(known)
          IN  /\ wants' = bit
              /\ dxgi' = [present |-> present, known |-> known,
                          since |-> IF probe THEN 0 ELSE since]
              /\ cards' = [adapters |-> [l \in shown |-> AdapterLoad(load, l)],
                           apps |-> [a \in GpuApps |-> ProcessLoad(shown, load, a)]]
              /\ missed' = [l \in Luids |->
                              IF \/ l \notin named \/ (probe /\ ~works)
                                 \/ known # NotYet /\ l \in known
                              THEN 0 ELSE Min({Reprobe + 1, missed[l] + 1})]
    BY <1>1, Zenon
  <1> DEFINE named == IF bit THEN present ELSE {}
             load  == IF bit THEN used ELSE {}
             since == Min({Reprobe, dxgi.since + 1})
             probe   == ProbeDue(dxgi.known, since, bit, named)
             known == IF probe THEN Enumerated(present, works) ELSE dxgi.known
             shown == IF known = NotYet THEN {} ELSE FilterAdapters(known)
  <1>3. dxgi' = [present |-> present, known |-> known, since |-> IF probe THEN 0 ELSE since]
    BY <1>2
  <1>4. cards' = [adapters |-> [l \in shown |-> AdapterLoad(load, l)],
                  apps |-> [a \in GpuApps |-> ProcessLoad(shown, load, a)]]
    BY <1>2
  <1>5. missed' = [l \in Luids |->
                     IF \/ l \notin named \/ (probe /\ ~works)
                        \/ known # NotYet /\ l \in known
                     THEN 0 ELSE Min({Reprobe + 1, missed[l] + 1})]
    BY <1>2
  <1>6. /\ present \in SUBSET Luids /\ dxgi.since \in 0 .. Reprobe /\ Reprobe \in Nat
        /\ missed \in [Luids -> Nat] /\ \A l \in Luids : missed[l] <= dxgi.since
    BY DeviceAssumption DEF DeviceInv, GpuInv, Machine
  <1>7. since = IF Reprobe <= dxgi.since + 1 THEN Reprobe ELSE dxgi.since + 1
    BY <1>6, MinOfTwo
  <1> HIDE DEF since
  <1>8. named \in SUBSET Luids /\ load \in SUBSET Records
    BY <1>6
  <1>9. /\ known = NotYet \/ known \in SUBSET Luids
        /\ probe /\ works => known = present
        /\ ~probe => known = dxgi.known
    BY <1>6 DEF Enumerated, DeviceInv, GpuInv
  <1>10. ~probe => ~(dxgi.known = NotYet /\ bit)
    BY DEF ProbeDue
  <1>11. ~probe => ~(dxgi.known # NotYet /\ since >= Reprobe /\ ~(named \subseteq dxgi.known))
    BY DEF ProbeDue
  <1>12. shown \in SUBSET Luids
    BY <1>9 DEF FilterAdapters
  <1>13. \A l \in named : l \in present /\ bit
    OBVIOUS
  <1> HIDE DEF since, probe, known, named, load, shown
  <1>14. ASSUME NEW l \in Luids
         PROVE  missed'[l] \in Nat /\ missed'[l] <= (IF probe THEN 0 ELSE since)
    <2> DEFINE fine == l \notin named \/ (probe /\ ~works) \/ (known # NotYet /\ l \in known)
    <2>1. missed'[l] = IF fine THEN 0 ELSE Min({Reprobe + 1, missed[l] + 1})
      BY <1>5, Zenon
    <2>2. probe => fine
      <3>1. present # NotYet
        BY <1>6, DeviceAssumption
      <3> QED BY <1>9, <1>13, <3>1
    <2>3. ASSUME ~fine PROVE since = dxgi.since + 1
      <3>1. l \in named /\ bit = TRUE /\ ~probe
        BY <1>13, <2>2, <2>3
      <3>2. dxgi.known # NotYet /\ known = dxgi.known /\ l \notin dxgi.known
        BY <1>9, <1>10, <2>3, <3>1
      <3>3. ~(since >= Reprobe)
        BY <1>11, <3>1, <3>2
      <3> QED BY <1>6, <1>7, <3>3
    <2> HIDE DEF fine
    <2>4. missed[l] \in Nat /\ missed[l] <= dxgi.since
      BY <1>6
    <2>5. CASE fine
      <3>1. missed'[l] = 0
        BY <2>1, <2>5
      <3> QED BY <1>6, <1>7, <3>1
    <2>6. CASE ~fine
      <3>1. missed'[l] = missed[l] + 1
        BY <1>6, <2>1, <2>4, <2>6, MinOfTwo
      <3> QED BY <1>6, <2>2, <2>3, <2>4, <2>6, <3>1
    <2> QED BY <2>5, <2>6
  <1>15. GpuInv'
    <2>1. dxgi'.present = present /\ dxgi'.known = known /\ dxgi'.since = IF probe THEN 0 ELSE since
      BY <1>3
    <2>2. dxgi'.since \in 0 .. Reprobe
      BY <1>6, <1>7, <2>1
    <2>3. missed' \in [Luids -> Nat]
      <3> DEFINE count(l) == IF \/ l \notin named \/ (probe /\ ~works)
                                \/ known # NotYet /\ l \in known
                             THEN 0 ELSE Min({Reprobe + 1, missed[l] + 1})
      <3>1. missed' = [l \in Luids |-> count(l)]
        BY <1>5
      <3>2. \A l \in Luids : missed'[l] = count(l)
        BY <3>1, Zenon
      <3> HIDE DEF count
      <3> QED BY <1>14, <3>1, <3>2
    <2> QED BY <1>6, <1>9, <1>14, <2>1, <2>2, <2>3 DEF GpuInv
  <1>16. ProcessWithinTotal'
    <2>1. ASSUME NEW a \in GpuApps
          PROVE  cards'.apps[a] <= Max({0} \cup Range(cards'.adapters))
      <3>1. cards'.apps[a] = ProcessLoad(shown, load, a)
        BY <1>4
      <3>2. cards'.adapters = [l \in shown |-> AdapterLoad(load, l)]
        BY <1>4
      <3> QED BY <1>8, <1>12, <3>1, <3>2, WithinTotal
    <2> QED BY <2>1 DEF ProcessWithinTotal
  <1> QED BY <1>15, <1>16

-----------------------------------------------------------------------------
(* The devices: Wi-Fi, network and disks.                                   *)

LEMMA WifiTickInv == ASSUME WifiTick PROVE WifiGated'
  <1>1. PICK bit, aged :
          /\ wants' = bit
          /\ wifi' = [age |-> WifiCache(bit, aged), shown |-> WifiCache(bit, aged) # NotYet,
                      asked |-> WifiDue(bit, aged)]
    BY Zenon DEF WifiTick
  <1>2. ~bit => ~WifiDue(bit, aged) /\ WifiCache(bit, aged) = NotYet
    BY Zenon DEF WifiDue, WifiCache
  <1>3. wifi'.shown = (WifiCache(bit, aged) # NotYet) /\ wifi'.asked = WifiDue(bit, aged)
    BY <1>1, Zenon
  <1>4. ~bit => ~wifi'.shown /\ ~wifi'.asked
    BY <1>2, <1>3, Zenon
  <1> QED BY <1>1, <1>4, Zenon DEF WifiGated

\* A rate compares the readings of two ticks. (collect_networks)
LEMMA NetTickInv == ASSUME DeviceInv, NetTick PROVE NetInv' /\ NetRateTrue'
  <1>1. PICK listed \in SUBSET Nics, totals \in [Nics -> 0 .. MaxOctets] :
          nic' = [totals |-> totals,
                  moved  |-> [n \in Nics |-> IF totals[n] >= nic.totals[n]
                                             THEN totals[n] - nic.totals[n] ELSE totals[n]],
                  first  |-> FALSE,
                  prev   |-> Remembered(nic.prev, totals, listed),
                  rates  |-> [n \in listed |->
                                IF n \in DOMAIN nic.prev /\ ~nic.first
                                THEN Max({0, totals[n] - nic.prev[n]}) ELSE 0]]
    BY Zenon DEF NetTick
  <1>2. /\ nic.totals \in [Nics -> Nat] /\ totals \in [Nics -> Nat]
        /\ \A n \in DOMAIN nic.prev : n \in Nics /\ nic.prev[n] = nic.totals[n]
    BY DeviceAssumption DEF DeviceInv, NetInv
  <1>3. nic'.totals = totals /\ nic'.prev = [n \in listed |-> totals[n]]
    BY <1>1 DEF Remembered
  <1>4. nic'.moved = [n \in Nics |-> IF totals[n] >= nic.totals[n]
                                     THEN totals[n] - nic.totals[n] ELSE totals[n]]
    BY <1>1
  <1>5. nic'.rates = [n \in listed |-> IF n \in DOMAIN nic.prev /\ ~nic.first
                                       THEN Max({0, totals[n] - nic.prev[n]}) ELSE 0]
    BY <1>1
  <1>6. NetInv'
    BY <1>2, <1>3 DEF NetInv
  <1>7. ASSUME NEW n \in listed PROVE nic'.rates[n] <= nic'.moved[n]
    <2>1. totals[n] \in Nat /\ nic.totals[n] \in Nat /\ n \in Nics
      BY <1>2
    <2>2. nic'.moved[n] = IF totals[n] >= nic.totals[n]
                          THEN totals[n] - nic.totals[n] ELSE totals[n]
      BY <1>4, <2>1
    <2>3. nic'.rates[n] = IF n \in DOMAIN nic.prev /\ ~nic.first
                          THEN Max({0, totals[n] - nic.prev[n]}) ELSE 0
      BY <1>5
    <2>4. n \in DOMAIN nic.prev =>
            Max({0, totals[n] - nic.prev[n]})
              = IF 0 <= totals[n] - nic.totals[n] THEN totals[n] - nic.totals[n] ELSE 0
      BY <1>2, <2>1, MaxOfTwo
    <2> QED BY <2>1, <2>2, <2>3, <2>4
  <1>8. DOMAIN nic'.rates = listed
    BY <1>5
  <1> QED BY <1>6, <1>7, <1>8 DEF NetRateTrue

\* Disks that share no volume have cards that share none and are keyed apart. (collect_disks)
LEMMA CardsOfDisks ==
    ASSUME NEW counted \in SUBSET DiskNos, NEW instances \in [counted -> SUBSET Mounts],
           \A d, e \in counted : d # e => instances[d] \cap instances[e] = {},
           NEW D, D = Cards(instances)
    PROVE  /\ \A v \in Mounts : Cardinality({c \in D : v \in c.on}) = 1
           /\ \A c, e \in D : c.mount = e.mount => c = e
  <1> DEFINE card(d) == [number |-> d, mount |-> MountOf(d, instances[d]),
                         on |-> instances[d], active |-> TRUE]
             bare(v) == [number |-> NotYet, mount |-> v, on |-> {v}, active |-> FALSE]
             claimed == UNION Range(instances)
  <1>1. D = {card(d) : d \in counted} \cup {bare(v) : v \in Mounts \ claimed}
    BY DEF Cards, Unclaimed
  <1>2. \A v : v \in claimed <=> \E d \in counted : v \in instances[d]
    BY DEF Range
  <1>3. \A d \in counted : card(d).on = instances[d] /\ card(d).mount = MountOf(d, instances[d])
    OBVIOUS
  <1>4. \A v \in Mounts : bare(v).on = {v} /\ bare(v).mount = v
    OBVIOUS
  <1>5. \A d \in counted : \/ instances[d] = {} /\ card(d).mount = d
                           \/ instances[d] # {} /\ card(d).mount \in instances[d]
    <2> TAKE d \in counted
    <2>1. CASE instances[d] = {}
      BY <2>1 DEF MountOf
    <2>2. CASE instances[d] # {}
      <3>1. card(d).mount = CHOOSE v \in instances[d] : TRUE
        BY <2>2, <1>3 DEF MountOf
      <3>2. (CHOOSE v \in instances[d] : TRUE) \in instances[d]
        BY <2>2, Zenon
      <3> QED BY <2>2, <3>1, <3>2
    <2> QED BY <2>1, <2>2
  <1>6. \A d \in counted : d \in DiskNos /\ instances[d] \in SUBSET Mounts /\ d \notin Mounts
    BY DeviceAssumption
  <1> HIDE DEF card, bare, claimed
  <1>7. ASSUME NEW v \in Mounts PROVE \E k \in D : {c \in D : v \in c.on} = {k}
    <2>1. CASE v \in claimed
      <3>1. PICK d \in counted : v \in instances[d]
        BY <1>2, <2>1
      <3>2. card(d) \in D /\ v \in card(d).on
        BY <1>1, <1>3, <3>1
      <3>3. ASSUME NEW c \in D, v \in c.on PROVE c = card(d)
        <4>1. CASE \E e \in counted : c = card(e)
          <5>1. PICK e \in counted : c = card(e)
            BY <4>1
          <5>2. v \in instances[e]
            BY <1>3, <3>3, <5>1
          <5> QED BY <3>1, <5>1, <5>2
        <4>2. CASE \E w \in Mounts \ claimed : c = bare(w)
          BY <1>4, <2>1, <3>3, <4>2
        <4> QED BY <1>1, <4>1, <4>2
      <3> QED BY <3>2, <3>3
    <2>2. CASE v \notin claimed
      <3>1. bare(v) \in D /\ v \in bare(v).on
        BY <1>1, <1>4, <2>2
      <3>2. ASSUME NEW c \in D, v \in c.on PROVE c = bare(v)
        <4>1. CASE \E e \in counted : c = card(e)
          BY <1>2, <1>3, <2>2, <3>2, <4>1
        <4>2. CASE \E w \in Mounts \ claimed : c = bare(w)
          BY <1>4, <3>2, <4>2
        <4> QED BY <1>1, <4>1, <4>2
      <3> QED BY <3>1, <3>2
    <2> QED BY <2>1, <2>2
  <1>8. ASSUME NEW v \in Mounts PROVE Cardinality({c \in D : v \in c.on}) = 1
    <2>1. PICK k \in D : {c \in D : v \in c.on} = {k}
      BY <1>7
    <2>2. Cardinality({k}) = 1
      BY FS_Singleton
    <2> QED BY <2>1, <2>2
  <1>9. ASSUME NEW c \in D, NEW e \in D, c.mount = e.mount PROVE c = e
    <2>1. CASE \E d, f \in counted : c = card(d) /\ e = card(f)
      <3>1. PICK d \in counted, f \in counted : c = card(d) /\ e = card(f)
        BY <2>1
      <3>2. card(d).mount = card(f).mount
        BY <1>9, <3>1
      <3>3. d = f
        BY <1>5, <1>6, <3>2
      <3> QED BY <3>1, <3>3
    <2>2. CASE \E d \in counted, w \in Mounts \ claimed :
                 {c, e} = {card(d), bare(w)} /\ card(d).mount = bare(w).mount
      <3>1. PICK d \in counted, w \in Mounts \ claimed : card(d).mount = bare(w).mount
        BY <2>2
      <3>2. w \notin instances[d] /\ card(d).mount = w
        BY <1>2, <1>4, <3>1
      <3> QED BY <1>5, <1>6, <3>2
    <2>3. CASE \E v, w \in Mounts \ claimed : c = bare(v) /\ e = bare(w)
      BY <1>4, <1>9, <2>3
    <2>4. /\ (\E d \in counted : c = card(d)) \/ (\E v \in Mounts \ claimed : c = bare(v))
          /\ (\E d \in counted : e = card(d)) \/ (\E v \in Mounts \ claimed : e = bare(v))
      BY <1>1
    <2>5. ASSUME NEW d \in counted, NEW w \in Mounts \ claimed,
                 \/ c = card(d) /\ e = bare(w)
                 \/ c = bare(w) /\ e = card(d)
          PROVE  {c, e} = {card(d), bare(w)} /\ card(d).mount = bare(w).mount
      BY <1>9, <2>5
    <2> QED BY <2>1, <2>2, <2>3, <2>4, <2>5
  <1> QED BY <1>8, <1>9

LEMMA DiskTickInv == ASSUME DiskTick PROVE CardsApart'
  <1>1. PICK counted \in SUBSET DiskNos :
          \E instances \in [counted -> SUBSET Mounts] :
            /\ \A d, e \in counted : d # e => instances[d] \cap instances[e] = {}
            /\ disks' = Cards(instances)
    BY DEF DiskTick
  <1>2. PICK instances \in [counted -> SUBSET Mounts] :
            /\ \A d, e \in counted : d # e => instances[d] \cap instances[e] = {}
            /\ disks' = Cards(instances)
    BY <1>1
  <1> QED BY <1>2, CardsOfDisks DEF CardsApart

-----------------------------------------------------------------------------
(* The devices: the theorem.                                                *)

LEMMA DeviceStart == ASSUME DeviceInit PROVE DeviceInv
  <1>1. GroupInv
    BY DEF DeviceInit, GroupInv, NewGroup, QueryGroups
  <1>2. GpuInv
    BY DeviceAssumption DEF DeviceInit, GpuInv
  <1>3. NetInv
    BY DEF DeviceInit, NetInv
  <1>4. ProcessWithinTotal
    <2>1. cards = [adapters |-> [l \in {} |-> 0], apps |-> [a \in GpuApps |-> 0]]
      BY DEF DeviceInit
    <2>2. Range(cards.adapters) = {}
      BY <2>1 DEF Range
    <2>3. Max({0} \cup {}) = 0
      BY MaxOfLoads
    <2>4. \A a \in GpuApps : cards.apps[a] = 0
      BY <2>1
    <2> QED BY <2>2, <2>3, <2>4 DEF ProcessWithinTotal
  <1>5. WifiGated
    <2>1. wifi = [age |-> NotYet, shown |-> FALSE, asked |-> FALSE]
      BY DEF DeviceInit
    <2> QED BY <2>1, Zenon DEF WifiGated
  <1>6. NetRateTrue
    BY DEF DeviceInit, NetRateTrue
  <1>7. CardsApart
    <2> DEFINE none == [d \in {} |-> {}]
    <2>1. disks = Cards(none)
      BY DEF DeviceInit, Cards
    <2>2. none \in [{} -> SUBSET Mounts] /\ {} \in SUBSET DiskNos
      OBVIOUS
    <2> HIDE DEF none
    <2> QED BY <2>1, <2>2, CardsOfDisks DEF CardsApart
  <1> QED BY <1>1, <1>2, <1>3, <1>4, <1>5, <1>6, <1>7 DEF DeviceInv

LEMMA DeviceStep == ASSUME DeviceInv, [DeviceNext]_deviceVars PROVE DeviceInv'
  <1>1. CASE GroupTick
    <2>1. GroupInv'
      BY <1>1, GroupTickInv
    <2>2. UNCHANGED <<dxgi, cards, missed, nic, disks, part>> /\ part = "group"
      BY <1>1 DEF GroupTick
    <2> QED BY <2>1, <2>2 DEF DeviceInv, GpuInv, NetInv, ProcessWithinTotal, WifiGated,
                              NetRateTrue, CardsApart
  <1>2. CASE GpuTick
    <2>1. GpuInv' /\ ProcessWithinTotal'
      BY <1>2, GpuTickInv
    <2>2. UNCHANGED <<pdh, raw, nic, disks, part>> /\ part = "gpu"
      BY <1>2 DEF GpuTick
    <2> QED BY <2>1, <2>2 DEF DeviceInv, GroupInv, NetInv, WifiGated, NetRateTrue, CardsApart
  <1>3. CASE WifiTick
    <2>1. WifiGated'
      BY <1>3, WifiTickInv
    <2>2. UNCHANGED <<pdh, raw, dxgi, cards, missed, nic, disks, part>>
      BY <1>3 DEF WifiTick
    <2> QED BY <2>1, <2>2 DEF DeviceInv, GroupInv, GpuInv, NetInv, ProcessWithinTotal,
                              NetRateTrue, CardsApart
  <1>4. CASE NetTick
    <2>1. NetInv' /\ NetRateTrue'
      BY <1>4, NetTickInv
    <2>2. UNCHANGED <<pdh, raw, dxgi, cards, missed, wifi, wants, disks, part>>
      BY <1>4 DEF NetTick
    <2> QED BY <2>1, <2>2 DEF DeviceInv, GroupInv, GpuInv, ProcessWithinTotal, WifiGated,
                              CardsApart
  <1>5. CASE DiskTick
    <2>1. CardsApart'
      BY <1>5, DiskTickInv
    <2>2. UNCHANGED <<pdh, raw, dxgi, cards, missed, wifi, wants, nic, part>>
      BY <1>5 DEF DiskTick
    <2> QED BY <2>1, <2>2 DEF DeviceInv, GroupInv, GpuInv, NetInv, ProcessWithinTotal,
                              WifiGated, NetRateTrue
  <1>6. CASE UNCHANGED deviceVars
    BY <1>6 DEF deviceVars, DeviceInv, GroupInv, GpuInv, NetInv, ProcessWithinTotal, WifiGated,
                NetRateTrue, CardsApart
  <1> QED BY <1>1, <1>2, <1>3, <1>4, <1>5, <1>6 DEF DeviceNext

\* What the sampler says of a device is never more than it read. A counter group answers
\* only after two collections of the query as it is open now, a failed one is not tried
\* again, no process is busier than the busiest card on show, an adapter is found within the
\* re-probe interval, Wi-Fi facts need demand, a network rate is at most what was moved, and
\* the disk cards share no volume. (QueryGroup, collect_gpus, collect_wifi, collect_networks,
\* collect_disks)
THEOREM CountersAreSound == DeviceSpec => []CountersSound
  <1>1. DeviceInv => CountersSound
    <2> SUFFICES ASSUME DeviceInv PROVE CountersSound
      OBVIOUS
    <2>1. WarmBeforeRead
      BY DEF DeviceInv, GroupInv, WarmBeforeRead, Readable, QueryGroups
    <2>2. OpenTriedOnce
      BY DEF DeviceInv, GroupInv, OpenTriedOnce
    <2>3. GpuFound
      BY DeviceAssumption DEF DeviceInv, GpuInv, GpuFound
    <2> QED BY <2>1, <2>2, <2>3 DEF DeviceInv, CountersSound
  <1> QED BY <1>1, DeviceStart, DeviceStep, PTL DEF DeviceSpec
=============================================================================
