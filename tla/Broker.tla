------------------------------- MODULE Broker -------------------------------
(***************************************************************************)
(* The core service's named-pipe broker and its clients                    *)
(* (crates/tm-platform/src/win/core_service.rs).  The accept loop arms a   *)
(* listening instance, accepts a client, arms the next one, identifies the *)
(* client and hands it to a worker; a stop thread wakes the loop with a    *)
(* connection of its own.  A client opens the pipe, verifies the server,   *)
(* sends one request, reads one response, and falls back to its own token  *)
(* only when the service is not available.  What a request does is one     *)
(* unit of work that is carried out, refused, or carried out locally.      *)
(***************************************************************************)
EXTENDS Naturals, Sequences, FiniteSets

CONSTANTS Gui, Others,     \* clients: calls of the installed GUI, other programs
          Stop,            \* the connection of the stop thread
          Cap,             \* PIPE_INSTANCE_CAP
          QueueCap,        \* WORK_QUEUE_CAP
          Workers,         \* WORKER_COUNT worker threads
          MaxFailures,     \* MAX_CONSECUTIVE_ACCEPT_FAILURES
          MaxFaults,       \* bound: faults of the pipe calls of the server
          Nobody           \* no client

Clients == Gui \cup Others
Ends == Clients \cup {Stop}

ASSUME BrokerAssumption ==
    /\ Cap \in Nat \ {0} /\ QueueCap \in Nat \ {0} /\ MaxFailures \in Nat \ {0} /\ MaxFaults \in Nat
    /\ Stop \notin Clients /\ Nobody \notin Ends

VARIABLES
    call, result,      \* client side: where the call is (from the start: about to open), and how it ended
    conn,              \* server side of each connection
    listener,          \* the listening instance: none, free, taken
    loop, held,        \* where run_broker is; the connection it identifies
    failures,          \* consecutive_failures
    faults,            \* bound
    ready, stopped,    \* listener_ready, stopped
    stopper,           \* where the stop thread is
    work, serves,      \* the work queue; the connection each worker serves
    ran, ranLocally    \* observation: how often the work of a call was carried out
clientVars == <<call, result, ran, ranLocally>>
loopVars == <<listener, loop, held, failures, faults, ready>>
brokerVars == <<clientVars, conn, loopVars, stopped, stopper, work, serves>>

\* Connections that hold one of the instances of the pipe.
Open == {c \in Ends : conn[c] # "none"}
Instances == Cardinality(Open) + (IF listener = "free" THEN 1 ELSE 0)
Up == loop \notin {"over", "failed"}

-----------------------------------------------------------------------------
(* The client. *)

\* npfs connects an opener to a listening instance before the server accepts.
Opens(c) ==
    /\ call[c] = "opening" /\ listener = "free" /\ Up
    /\ call' = [call EXCEPT ![c] = "open"]
    /\ conn' = [conn EXCEPT ![c] = "waiting"] /\ listener' = "taken"
    /\ UNCHANGED <<result, ran, ranLocally, loop, held, failures, faults, ready, stopped, stopper, work, serves>>

\* The instance goes when both ends are closed: here the server's end is.
ServerDone == {"answered", "refused", "dropped"}
\* A call that ended closes the client's end; the server's end may live on.
Leave(c) == IF conn[c] \in ServerDone THEN [conn EXCEPT ![c] = "none"] ELSE conn
Ended(c, r) == call' = [call EXCEPT ![c] = "done"] /\ result' = [result EXCEPT ![c] = r] /\ conn' = Leave(c)
\* unit_or_local, value_or_local: the local fallback.
Fallback(c) == Ended(c, "local") /\ ranLocally' = [ranLocally EXCEPT ![c] = @ + 1] /\ UNCHANGED ran

\* open_client_pipe: no pipe, or none free until the deadline.
OpenFails(c) ==
    /\ call[c] = "opening" /\ (~Up \/ listener # "free") /\ Fallback(c)
    /\ UNCHANGED <<loopVars, stopped, stopper, work, serves>>

\* verify_pipe_server: the service manager cannot be asked, or says no.
Unverified(c) ==
    /\ call[c] = "open"
    /\ \/ Fallback(c)
       \/ Ended(c, "refused") /\ UNCHANGED <<ran, ranLocally>>
    /\ UNCHANGED <<loopVars, stopped, stopper, work, serves>>
Sends(c) ==
    /\ call[c] = "open" /\ conn[c] # "none" /\ call' = [call EXCEPT ![c] = "sent"]
    /\ UNCHANGED <<result, ran, ranLocally, conn, loopVars, stopped, stopper, work, serves>>

\* Mutation: a request or a response that was lost counts as no service.
LostLocal(c) == Fallback(c)
\* A request or a response that was lost: the state of the work is unknown, so
\* it is not tried again.
Lost(c) == Ended(c, "unknown") /\ UNCHANGED <<ran, ranLocally>>
SendFails(c) ==
    /\ call[c] = "open" /\ conn[c] = "none" /\ Lost(c)
    /\ UNCHANGED <<loopVars, stopped, stopper, work, serves>>
Receives(c) ==
    /\ call[c] = "sent"
    /\ \/ conn[c] = "answered" /\ Ended(c, "ok") /\ UNCHANGED <<ran, ranLocally>>
       \/ conn[c] = "refused" /\ Ended(c, "refused") /\ UNCHANGED <<ran, ranLocally>>
       \/ conn[c] \in {"none", "dropped"} /\ Lost(c)
    /\ UNCHANGED <<loopVars, stopped, stopper, work, serves>>

\* The GUI is closed or killed in the middle of a call.
ClientDies(c) ==
    /\ call[c] \in {"open", "sent"} /\ Ended(c, IF call[c] = "sent" THEN "gone" ELSE "quit")
    /\ UNCHANGED <<ran, ranLocally, loopVars, stopped, stopper, work, serves>>

-----------------------------------------------------------------------------
(* The accept loop, run_broker. *)

\* The client's end is closed.
Gone(c) == IF c = Stop THEN TRUE ELSE call[c] = "done"
\* The server drops its end, with a response for the client to drain or without.
Drop(c, how) == [conn EXCEPT ![c] = IF Gone(c) THEN "none" ELSE how]

\* All instances in use is back-pressure, not a fault.
Busy == failures
Give(n, next) == failures' = n /\ loop' = IF n >= MaxFailures THEN "failed" ELSE next
\* The loop looks at the flag before it arms an instance.
GoesOn ==
    /\ loop = "top" /\ ~stopped /\ loop' = "arming"
    /\ UNCHANGED <<clientVars, conn, listener, held, failures, faults, ready, stopped, stopper, work, serves>>
Arm ==
    /\ loop = "arming"
    /\ \/ listener # "none" /\ loop' = "accept" /\ ready' = TRUE /\ UNCHANGED <<listener, failures, faults>>
       \/ listener = "none" /\ Instances < Cap /\ listener' = "free" /\ loop' = "accept" /\ ready' = TRUE
          /\ UNCHANGED <<failures, faults>>
       \/ listener = "none" /\ Instances >= Cap /\ Give(Busy, "top") /\ UNCHANGED <<listener, ready, faults>>
       \/ listener = "none" /\ faults < MaxFaults /\ faults' = faults + 1 /\ Give(failures + 1, "top")
          /\ UNCHANGED <<listener, ready>>
    /\ UNCHANGED <<clientVars, conn, held, stopped, stopper, work, serves>>

\* The next instance is armed before the client is identified.
Rearmed(used) == IF used < Cap THEN {"free", "none"} ELSE {"none"}
\* Mutation: a client that left before it was accepted counts as a failure.
VanishedFails == failures + 1
Vanished == 0
\* connect_pipe, on the instance a client took.
Accept(c) ==
    /\ loop = "accept" /\ listener = "taken" /\ conn[c] = "waiting"
    /\ ready' = FALSE
    /\ IF stopped
       THEN loop' = "top" /\ conn' = [conn EXCEPT ![c] = "none"] /\ listener' = "none" /\ UNCHANGED <<failures, held>>
       ELSE \E re \in Rearmed(Cardinality(Open)) :
              /\ listener' = re
              /\ IF Gone(c)
                 THEN conn' = [conn EXCEPT ![c] = "none"] /\ Give(Vanished, "top") /\ UNCHANGED held
                 ELSE conn' = [conn EXCEPT ![c] = "held"] /\ held' = c /\ Give(0, "identify")
    /\ UNCHANGED <<clientVars, faults, stopped, stopper, work, serves>>
AcceptFails ==
    /\ loop = "accept" /\ faults < MaxFaults /\ faults' = faults + 1 /\ ready' = FALSE
    /\ conn' = [c \in Ends |-> IF conn[c] = "waiting" THEN "none" ELSE conn[c]]
    /\ IF stopped THEN loop' = "top" /\ listener' = "none" /\ UNCHANGED failures
       ELSE listener' \in Rearmed(Instances - 1) /\ Give(failures + 1, "top")
    /\ UNCHANGED <<clientVars, held, stopped, stopper, work, serves>>

\* client_pid, process_image_path, paths_match; then try_send or a rejection.
Identify ==
    /\ loop = "identify" /\ loop' = "top" /\ held' = Nobody
    /\ \/ held \in Gui /\ Len(work) < QueueCap
          /\ work' = Append(work, held) /\ conn' = [conn EXCEPT ![held] = "queued"]
       \/ (held \notin Gui \/ Len(work) >= QueueCap)
          /\ conn' = Drop(held, "refused") /\ UNCHANGED work
       \/ Gone(held) /\ conn' = Drop(held, "refused") /\ UNCHANGED work
    /\ UNCHANGED <<clientVars, listener, failures, faults, ready, stopped, stopper, serves>>

\* The loop sees the flag; its end lets the stop thread go as well.
LoopEnds ==
    /\ loop = "top" /\ stopped /\ loop' = "over" /\ ready' = TRUE /\ listener' = "none"
    /\ conn' = [c \in Ends |-> IF conn[c] = "waiting" THEN "none" ELSE conn[c]]
    /\ UNCHANGED <<clientVars, held, failures, faults, stopped, stopper, work, serves>>

\* The process ends, with or without its loop: every connection breaks.
ProcessEnds ==
    /\ loop \in {"over", "failed"} /\ (Open # {} \/ work # <<>>)
    /\ conn' = [c \in Ends |-> "none"] /\ work' = <<>> /\ serves' = [w \in Workers |-> Nobody]
    /\ UNCHANGED <<clientVars, loopVars, stopped, stopper>>

-----------------------------------------------------------------------------
(* The stop thread and the workers. *)

ScmStops ==
    /\ stopper = "waiting" /\ stopper' = "told" /\ stopped' = TRUE
    /\ UNCHANGED <<clientVars, conn, loopVars, work, serves>>
\* Mutation: the pipe is opened without waiting for a listener.
WakeableAtOnce == TRUE
Wakeable == ready
StopperWakes ==
    /\ stopper = "told" /\ Wakeable
    /\ \/ listener = "free" /\ conn[Stop] = "none" /\ conn' = [conn EXCEPT ![Stop] = "waiting"] /\ listener' = "taken"
       \/ listener # "free" /\ UNCHANGED <<conn, listener>>
    /\ stopper' = "done"
    /\ UNCHANGED <<clientVars, loop, held, failures, faults, ready, stopped, work, serves>>

WorkerTakes(w) ==
    /\ serves[w] = Nobody /\ work # <<>>
    /\ serves' = [serves EXCEPT ![w] = Head(work)] /\ work' = Tail(work)
    /\ conn' = [conn EXCEPT ![Head(work)] = "working"]
    /\ UNCHANGED <<clientVars, loopVars, stopped, stopper>>
\* A request that was sent stays in the pipe when its client is gone.
Requested(c) == call[c] = "sent" \/ result[c] = "gone"
Carried(c) == ran' = [ran EXCEPT ![c] = @ + 1]
\* handle_client: the request arrives and is carried out, or refused; or the
\* client is gone, or its frame cannot be used, and there is no response.
WorkerServes(w) ==
    LET c == serves[w] IN
    /\ c # Nobody /\ serves' = [serves EXCEPT ![w] = Nobody]
    /\ \/ Requested(c) /\ conn' = Drop(c, "answered") /\ Carried(c)
       \/ Requested(c) /\ conn' = Drop(c, "refused") /\ UNCHANGED ran
       \/ (Requested(c) \/ Gone(c)) /\ conn' = Drop(c, "dropped") /\ UNCHANGED ran
    /\ UNCHANGED <<call, result, ranLocally, loopVars, stopped, stopper, work>>

-----------------------------------------------------------------------------
\* The first instance exists and SERVICE_RUNNING has been reported.
BrokerInit ==
    /\ call = [c \in Clients |-> "opening"] /\ result = [c \in Clients |-> "none"]
    /\ conn = [c \in Ends |-> "none"] /\ listener = "free" /\ loop = "top" /\ held = Nobody
    /\ failures = 0 /\ faults = 0 /\ ready = FALSE /\ stopped = FALSE /\ stopper = "waiting"
    /\ work = <<>> /\ serves = [w \in Workers |-> Nobody]
    /\ ran = [c \in Clients |-> 0] /\ ranLocally = [c \in Clients |-> 0]

Accepts == GoesOn \/ Arm \/ (\E c \in Ends : Accept(c)) \/ Identify \/ LoopEnds
Worker(w) == WorkerTakes(w) \/ WorkerServes(w)
Client(c) == Opens(c) \/ OpenFails(c) \/ Unverified(c) \/ Sends(c) \/ SendFails(c) \/ Receives(c)
BrokerNext ==
    \/ Accepts \/ AcceptFails \/ ProcessEnds \/ ScmStops \/ StopperWakes
    \/ \E w \in Workers : Worker(w)
    \/ \E c \in Clients : Client(c) \/ ClientDies(c)

\* The loop and the stop thread go on when they can; no fault has to happen.
BrokerFairness == WF_brokerVars(Accepts) /\ WF_brokerVars(StopperWakes)
BrokerSpec == BrokerInit /\ [][BrokerNext]_brokerVars

-----------------------------------------------------------------------------
\* Type invariant; the pipe never has more instances than allowed.
BrokerTypeOK ==
    /\ call \in [Clients -> {"opening", "open", "sent", "done"}]
    /\ result \in [Clients -> {"none", "ok", "refused", "unknown", "local", "gone", "quit"}]
    /\ conn \in [Ends -> {"none", "waiting", "held", "queued", "working"} \cup ServerDone]
    /\ listener \in {"none", "free", "taken"} /\ loop \in {"top", "arming", "accept", "identify", "over", "failed"}
    /\ Instances <= Cap /\ Len(work) <= QueueCap

\* What a call asks for is never carried out twice: not by the service and then
\* again by the fallback, whatever was lost on the way.  (BrokerClient::call,
\* unit_or_local.)
NeverTwice == \A c \in Clients : ran[c] + ranLocally[c] <= 1

\* A call that reports success was carried out, and one that reports a refusal
\* was not; only an unknown outcome may be either.  (BrokerClient::call.)
ResultTrue ==
    \A c \in Clients :
        /\ result[c] = "ok" => ran[c] = 1
        /\ result[c] \in {"refused", "local"} => ran[c] = 0

\* No client can end the broker: it only gives up after consecutive faults of
\* its own calls.  (run_broker, connect_pipe.)
OnlyFaultsEndIt == loop = "failed" => faults >= MaxFailures

\* A stop always ends the loop, however it meets the arming of a listener or a
\* client that takes it.  (run_broker, the stop thread.)
StopEnds == stopper = "told" ~> loop \in {"over", "failed"}

\* The pipe of the core service: a request is never carried out twice, the client is
\* told what happened, instances stay within the limit, and only a fault or a stop ends
\* the accept loop.
BrokerSafe ==
  /\ BrokerTypeOK /\ NeverTwice /\ ResultTrue /\ OnlyFaultsEndIt
=============================================================================
