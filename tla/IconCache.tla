----------------------------- MODULE IconCache -----------------------------
(***************************************************************************)
(* The cache of process icons (icon_cache.rs): the UI thread asks for a    *)
(* path while it draws, a worker thread decodes, and the UI thread uploads *)
(* a few results per call. The two share the request channel, the results  *)
(* under one mutex and the count of requests in flight; between taking the *)
(* results and putting back what it did not upload the UI thread holds no  *)
(* lock, so the worker's steps fall between.                               *)
(***************************************************************************)
EXTENDS Integers, Sequences, SequencesExt, FiniteSetsExt

CONSTANTS
    IconPaths,     \* image paths the rows name
    UploadBudget,  \* UPLOAD_BUDGET
    CacheCap,      \* CACHE_CAP
    MaxFlight,     \* the literal 64 of get
    SpawnFails,    \* whether starting the worker thread may fail
    NoIconPath     \* no path: the worker or the UI thread is idle

ASSUME IconAssumption ==
    /\ {UploadBudget, CacheCap, MaxFlight} \subseteq Nat \ {0}
    /\ SpawnFails \in BOOLEAN /\ NoIconPath \notin IconPaths

VARIABLES
    tex,      \* cached entry of each path: "none", "ready" or "failed"
    queued,   \* paths queued or awaiting upload
    flight,   \* in_flight
    channel,  \* requests on their way to the worker
    decoding, \* the path the worker is extracting
    results,  \* decoded results: [path, ok]
    hasTx,    \* the worker was started and tx is Some
    uiStep,   \* "idle", "upload" or "look": where get stands
    uiPath,   \* the path get was called for
    batch     \* the results the UI thread has taken

iconVars == <<tex, queued, flight, channel, decoding, results, hasTx, uiStep, uiPath, batch>>

Requests == {channel[i] : i \in DOMAIN channel}

PathsOf(list) == {list[i].path : i \in DOMAIN list}

-----------------------------------------------------------------------------
(***************************************************************************)
(* The UI thread: get is ensure_worker and the first half of drain_results,*)
(* then the second half, then the lookup.                                  *)
(***************************************************************************)
Get(p) ==
    /\ uiStep = "idle"
    /\ hasTx' \in IF SpawnFails THEN {TRUE, hasTx} ELSE {TRUE}    \* tried again next time
    /\ batch' = results /\ results' = <<>>
    /\ uiPath' = p
    /\ uiStep' = IF results = <<>> THEN "look" ELSE "upload"
    /\ UNCHANGED <<tex, queued, flight, channel, decoding>>

Uploaded(list) == SubSeq(list, 1, Min({UploadBudget, Len(list)}))

\* Mutant: the results put back leave the count as well.
Leaving(list) == Len(list)

Done(list) == Len(Uploaded(list))

\* The entries after an upload: expired failures are dropped, and whatever is
\* beyond the cap, in the map's order.
Bounded(t) ==
    {u \in [IconPaths -> {"none", "ready", "failed"}] :
        /\ \A p \in IconPaths : u[p] # t[p] => u[p] = "none"
        /\ LET kept == {p \in IconPaths : u[p] # "none"}
               fresh == {p \in IconPaths : t[p] = "ready"}
           IN  /\ Cardinality(kept) <= CacheCap
               /\ Cardinality(fresh) <= CacheCap => fresh \subseteq kept}

Upload ==
    /\ uiStep = "upload"
    /\ LET now  == Uploaded(batch)
           rest == SubSeq(batch, Len(now) + 1, Len(batch))
           put  == [p \in IconPaths |->
                      IF p \in PathsOf(now)
                      THEN IF [path |-> p, ok |-> TRUE] \in ToSet(now) THEN "ready" ELSE "failed"
                      ELSE tex[p]]
       IN  /\ tex' \in Bounded(put)
           /\ queued' = queued \ PathsOf(now)
           /\ flight' = flight - Done(batch)
           \* What was not uploaded is put back in the place of the list.
           /\ results' = IF rest = <<>> THEN results ELSE rest
    /\ batch' = <<>> /\ uiStep' = "look"
    /\ UNCHANGED <<channel, decoding, hasTx, uiPath>>

Wanted(p) == p \notin queued /\ flight < MaxFlight

Look ==
    /\ uiStep = "look"
    /\ \/ /\ tex[uiPath] # "none"    \* a texture, or a failure that is not old enough
          /\ UNCHANGED <<tex, queued, flight, channel>>
       \/ /\ tex[uiPath] # "ready"
          /\ tex' = [tex EXCEPT ![uiPath] = "none"]
          /\ IF Wanted(uiPath)
             THEN /\ queued' = queued \cup {uiPath}
                  /\ flight' = IF hasTx THEN flight + 1 ELSE flight
                  /\ channel' = IF hasTx THEN Append(channel, uiPath) ELSE channel
             ELSE UNCHANGED <<queued, flight, channel>>
    /\ uiStep' = "idle" /\ uiPath' = NoIconPath
    /\ UNCHANGED <<decoding, results, hasTx, batch>>

-----------------------------------------------------------------------------
\* icon_worker: one request at a time.
Receive ==
    /\ decoding = NoIconPath /\ channel # <<>>
    /\ decoding' = Head(channel) /\ channel' = Tail(channel)
    /\ UNCHANGED <<tex, queued, flight, results, hasTx, uiStep, uiPath, batch>>

Decode ==
    /\ decoding # NoIconPath
    /\ \E ok \in BOOLEAN : results' = Append(results, [path |-> decoding, ok |-> ok])
    /\ decoding' = NoIconPath
    /\ UNCHANGED <<tex, queued, flight, channel, hasTx, uiStep, uiPath, batch>>

-----------------------------------------------------------------------------
IconInit ==
    /\ tex = [p \in IconPaths |-> "none"]
    /\ queued = {} /\ flight = 0
    /\ channel = <<>> /\ decoding = NoIconPath /\ results = <<>>
    /\ hasTx = FALSE
    /\ uiStep = "idle" /\ uiPath = NoIconPath /\ batch = <<>>

IconNext == (\E p \in IconPaths : Get(p)) \/ Upload \/ Look \/ Receive \/ Decode

IconSpec == IconInit /\ [][IconNext]_iconVars

-----------------------------------------------------------------------------
\* Requests the pipeline holds, once for every place they are in.
Outstanding ==
    Len(channel) + Len(results) + Len(batch) + (IF decoding = NoIconPath THEN 0 ELSE 1)

\* The count of requests in flight is never less than what is on its way: the
\* subtraction in drain_results, which happens after the lock was given up,
\* cannot wrap below zero and so block every later request.
FlightCovers == flight >= Outstanding

\* A path is on its way at most once, however the worker and the uploads
\* interleave: an icon is not extracted twice (the queued set of get).
NoneTwice(list) == \A i, j \in DOMAIN list : list[i].path = list[j].path => i = j
OnceOnItsWay ==
    LET places == <<Requests, PathsOf(results), PathsOf(batch), {decoding} \ {NoIconPath}>>
    IN  /\ \A i, j \in 1..4 : i # j => places[i] \cap places[j] = {}
        /\ IsInjective(channel) /\ NoneTwice(results) /\ NoneTwice(batch)

\* A path that is waited for is on its way: "if results remain queued it asks
\* for one more repaint so the rest stream in" (the module's documentation).
QueuedArrives ==
    queued \subseteq Requests \cup PathsOf(results) \cup PathsOf(batch) \cup {decoding}

\* The icon loader's budget: the count of results on their way covers them and never
\* wraps, and no path is queued twice.
IconsSafe ==
  /\ FlightCovers /\ OnceOnItsWay
=============================================================================
