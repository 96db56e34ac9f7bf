------------------------------ MODULE GuiProofs ------------------------------
(***************************************************************************)
(* Machine-checked proofs about five components around the window: the    *)
(* icon loader of IconCache.tla, the chain of processes one launch makes,  *)
(* of Launch.tla, the keyboard hook of HotkeyHook.tla, the registered      *)
(* replacement of TaskmgrReplacement.tla, and the dialogs and the focus of *)
(* Dialogs.tla. They share no state; each part proves its component's      *)
(* safety property for every value of its constants.                       *)
(***************************************************************************)
EXTENDS IconCache, Launch, HotkeyHook, TaskmgrReplacement, Dialogs,
        SequenceTheorems, FiniteSetTheorems, TLAPS

-----------------------------------------------------------------------------
(* The inductive invariant.                                                 *)

Results == [path : IconPaths, ok : BOOLEAN]

IconTyped ==
    /\ channel \in Seq(IconPaths) /\ results \in Seq(Results) /\ batch \in Seq(Results)
    /\ decoding \in IconPaths \cup {NoIconPath} /\ flight \in Nat
    /\ uiStep \in {"idle", "upload", "look"}
    /\ uiStep # "upload" => batch = <<>>
    /\ uiStep # "idle" => uiPath \in IconPaths

\* Whatever is on its way is in the set of queued paths, so get does not ask
\* for it again. (the queued set of get)
WayIsQueued ==
    /\ Requests \subseteq queued /\ PathsOf(results) \subseteq queued /\ PathsOf(batch) \subseteq queued
    /\ decoding # NoIconPath => decoding \in queued

\* The places of a path exclude each other.
Apart ==
    /\ \A p \in Requests : p \notin PathsOf(results) /\ p \notin PathsOf(batch) /\ p # decoding
    /\ \A p \in PathsOf(results) : p \notin PathsOf(batch) /\ p # decoding
    /\ decoding \notin PathsOf(batch)
Once == IsInjective(channel) /\ NoneTwice(results) /\ NoneTwice(batch)

IconInv == IconTyped /\ WayIsQueued /\ Apart /\ Once /\ FlightCovers

-----------------------------------------------------------------------------
(* Lemmas about sequences.                                                  *)

\* The smaller of two numbers.
LEMMA MinOfTwo == ASSUME NEW a \in Nat, NEW b \in Nat PROVE Min({a, b}) = IF a <= b THEN a ELSE b
  <1>1. CASE a <= b
    BY <1>1 DEF Min
  <1>2. CASE b < a
    BY <1>2 DEF Min
  <1> QED BY <1>1, <1>2

\* What an upload takes and leaves: the first results and the rest. (drain_results)
Left(list) == SubSeq(list, Len(Uploaded(list)) + 1, Len(list))

\* Two parts of a list that are joined again make the list.
LEMMA Split ==
    ASSUME NEW list \in Seq(Results)
    PROVE  /\ Uploaded(list) \in Seq(Results) /\ Left(list) \in Seq(Results)
           /\ Len(Uploaded(list)) \in 0..Len(list) /\ Len(Left(list)) = Len(list) - Len(Uploaded(list))
           /\ \A i \in 1..Len(Uploaded(list)) : Uploaded(list)[i] = list[i]
           /\ \A i \in 1..Len(Left(list)) : Left(list)[i] = list[i + Len(Uploaded(list))]
  <1> DEFINE k == Min({UploadBudget, Len(list)})
  <1>1. Len(list) \in Nat /\ \A i \in 1..Len(list) : list[i] \in Results
    OBVIOUS
  <1>2. k \in 0..Len(list)
    BY <1>1, IconAssumption, MinOfTwo
  <1> HIDE DEF k
  <1>3. Uploaded(list) = SubSeq(list, 1, k)
    BY DEF Uploaded, k
  <1>4. /\ Uploaded(list) \in Seq(Results) /\ Len(Uploaded(list)) = k
        /\ \A i \in 1..k : Uploaded(list)[i] = list[i]
    BY <1>1, <1>2, <1>3, SubSeqProperties
  <1>5. /\ Left(list) \in Seq(Results) /\ Len(Left(list)) = Len(list) - k
        /\ \A i \in 1..(Len(list) - k) : Left(list)[i] = list[i + k]
    <2>1. Left(list) = SubSeq(list, k + 1, Len(list))
      BY <1>4 DEF Left
    <2>2. \A i \in (k + 1)..Len(list) : list[i] \in Results
      BY <1>1, <1>2
    <2> QED BY <1>1, <1>2, <2>1, <2>2, SubSeqProperties
  <1> QED BY <1>1, <1>2, <1>4, <1>5

\* The paths of the parts are paths of the whole, and of one part only.
LEMMA SplitPaths ==
    ASSUME NEW list \in Seq(Results), NoneTwice(list)
    PROVE  /\ PathsOf(Left(list)) \subseteq PathsOf(list)
           /\ PathsOf(Left(list)) \cap PathsOf(Uploaded(list)) = {}
           /\ PathsOf(Uploaded(list)) \subseteq PathsOf(list)
           /\ NoneTwice(Left(list))
           /\ Left(list) = <<>> => PathsOf(list) = PathsOf(Uploaded(list))
  <1> DEFINE u == Uploaded(list) w == Left(list)
  <1>1. /\ u \in Seq(Results) /\ w \in Seq(Results)
        /\ Len(u) \in 0..Len(list) /\ Len(w) = Len(list) - Len(u)
        /\ \A i \in 1..Len(u) : u[i] = list[i]
        /\ \A i \in 1..Len(w) : w[i] = list[i + Len(u)]
    BY Split
  <1> HIDE DEF u, w
  <1>2. DOMAIN u = 1..Len(u) /\ DOMAIN w = 1..Len(w) /\ DOMAIN list = 1..Len(list) /\ Len(list) \in Nat
    BY <1>1
  <1>3. \A i \in DOMAIN w : i + Len(u) \in DOMAIN list /\ w[i] = list[i + Len(u)] /\ i + Len(u) > Len(u)
    BY <1>1, <1>2
  <1>4. \A i \in DOMAIN u : i \in DOMAIN list /\ u[i] = list[i] /\ i <= Len(u)
    BY <1>1, <1>2
  <1>5. PathsOf(w) \subseteq PathsOf(list) /\ PathsOf(u) \subseteq PathsOf(list)
    BY <1>3, <1>4 DEF PathsOf
  <1>6. PathsOf(w) \cap PathsOf(u) = {}
    <2> SUFFICES ASSUME NEW i \in DOMAIN w, NEW j \in DOMAIN u, w[i].path = u[j].path PROVE FALSE
      BY DEF PathsOf
    <2>1. i + Len(u) = j
      BY <1>3, <1>4 DEF NoneTwice
    <2>2. i + Len(u) > Len(u) /\ j <= Len(u)
      BY <1>3, <1>4
    <2>3. i \in Nat /\ j \in Nat /\ Len(u) \in Nat
      BY <1>1, <1>2
    <2> QED BY <2>1, <2>2, <2>3
  <1>7. NoneTwice(w)
    <2> SUFFICES ASSUME NEW i \in DOMAIN w, NEW j \in DOMAIN w, w[i].path = w[j].path PROVE i = j
      BY DEF NoneTwice
    <2>1. i + Len(u) = j + Len(u)
      BY <1>3 DEF NoneTwice
    <2>2. i \in Nat /\ j \in Nat /\ Len(u) \in Nat
      BY <1>1, <1>2
    <2> QED BY <2>1, <2>2
  <1>8. w = <<>> => PathsOf(list) = PathsOf(u)
    <2>1. w = <<>> => Len(u) = Len(list)
      BY <1>1, <1>2
    <2> QED BY <1>1, <1>2, <1>4, <2>1 DEF PathsOf
  <1> QED BY <1>5, <1>6, <1>7, <1>8 DEF u, w

\* A message leaves a sequence at its head, and joins it at its end.
LEMMA HeadLeaves ==
    ASSUME NEW S, NEW q \in Seq(S), q # <<>>
    PROVE  /\ Head(q) \in S /\ Tail(q) \in Seq(S) /\ Len(Tail(q)) = Len(q) - 1 /\ Len(q) \in Nat /\ Len(q) > 0
           /\ {q[i] : i \in DOMAIN q} = {Head(q)} \cup {Tail(q)[i] : i \in DOMAIN Tail(q)}
           /\ IsInjective(q) => IsInjective(Tail(q)) /\ Head(q) \notin {Tail(q)[i] : i \in DOMAIN Tail(q)}
  <1>1. /\ Head(q) \in S /\ Tail(q) \in Seq(S) /\ Len(Tail(q)) = Len(q) - 1 /\ Len(q) \in Nat /\ Len(q) > 0
        /\ Head(q) = q[1] /\ DOMAIN q = 1..Len(q) /\ DOMAIN Tail(q) = 1..Len(Tail(q))
        /\ \A i \in DOMAIN Tail(q) : Tail(q)[i] = q[i + 1]
    OBVIOUS
  <1>2. \A i \in DOMAIN Tail(q) : i + 1 \in DOMAIN q /\ i + 1 # 1 /\ Tail(q)[i] = q[i + 1]
    BY <1>1
  <1>3. \A i \in DOMAIN q : i = 1 \/ (i - 1 \in DOMAIN Tail(q) /\ q[i] = Tail(q)[i - 1])
    BY <1>1
  <1>4. 1 \in DOMAIN q
    BY <1>1
  <1>5. {q[i] : i \in DOMAIN q} = {Head(q)} \cup {Tail(q)[i] : i \in DOMAIN Tail(q)}
    BY <1>1, <1>2, <1>3, <1>4
  <1>6. IsInjective(q) => IsInjective(Tail(q)) /\ Head(q) \notin {Tail(q)[i] : i \in DOMAIN Tail(q)}
    BY <1>1, <1>2, <1>4 DEF IsInjective
  <1> QED BY <1>1, <1>5, <1>6

\* What is appended to a list is in it afterwards, beside what was there.
LEMMA LastJoins ==
    ASSUME NEW S, NEW q \in Seq(S), NEW e \in S
    PROVE  /\ Append(q, e) \in Seq(S) /\ Len(Append(q, e)) = Len(q) + 1 /\ Len(q) \in Nat
           /\ {Append(q, e)[i] : i \in DOMAIN Append(q, e)} = {q[i] : i \in DOMAIN q} \cup {e}
           /\ IsInjective(q) /\ e \notin {q[i] : i \in DOMAIN q} => IsInjective(Append(q, e))
  <1>1. /\ Append(q, e) \in Seq(S) /\ Len(Append(q, e)) = Len(q) + 1 /\ Len(q) \in Nat
        /\ DOMAIN q = 1..Len(q) /\ DOMAIN Append(q, e) = 1..(Len(q) + 1)
        /\ Append(q, e)[Len(q) + 1] = e /\ \A i \in 1..Len(q) : Append(q, e)[i] = q[i]
    OBVIOUS
  <1>2. \A i \in DOMAIN Append(q, e) : i = Len(q) + 1 \/ i \in DOMAIN q
    BY <1>1
  <1>3. {Append(q, e)[i] : i \in DOMAIN Append(q, e)} = {q[i] : i \in DOMAIN q} \cup {e}
    BY <1>1, <1>2
  <1>4. IsInjective(q) /\ e \notin {q[i] : i \in DOMAIN q} => IsInjective(Append(q, e))
    BY <1>1, <1>2 DEF IsInjective
  <1> QED BY <1>1, <1>3, <1>4

\* A decoded result joins the list.
LEMMA ResultJoins ==
    ASSUME NEW q \in Seq(Results), NEW e \in Results
    PROVE  /\ Append(q, e) \in Seq(Results) /\ Len(Append(q, e)) = Len(q) + 1 /\ Len(q) \in Nat
           /\ PathsOf(Append(q, e)) = PathsOf(q) \cup {e.path}
           /\ NoneTwice(q) /\ e.path \notin PathsOf(q) => NoneTwice(Append(q, e))
  <1>1. /\ Append(q, e) \in Seq(Results) /\ Len(Append(q, e)) = Len(q) + 1 /\ Len(q) \in Nat
        /\ DOMAIN q = 1..Len(q) /\ DOMAIN Append(q, e) = 1..(Len(q) + 1)
        /\ Append(q, e)[Len(q) + 1] = e /\ \A i \in 1..Len(q) : Append(q, e)[i] = q[i]
    OBVIOUS
  <1>2. \A i \in DOMAIN Append(q, e) : i = Len(q) + 1 \/ i \in DOMAIN q
    BY <1>1
  <1>3. PathsOf(Append(q, e)) = PathsOf(q) \cup {e.path}
    BY <1>1, <1>2 DEF PathsOf
  <1>4. NoneTwice(q) /\ e.path \notin PathsOf(q) => NoneTwice(Append(q, e))
    BY <1>1, <1>2 DEF NoneTwice, PathsOf
  <1> QED BY <1>1, <1>3, <1>4

\* The empty list names no path.
LEMMA NoResults == PathsOf(<<>>) = {} /\ NoneTwice(<<>>) /\ Len(<<>>) = 0
  BY DEF PathsOf, NoneTwice

-----------------------------------------------------------------------------
(* The invariant is inductive.                                              *)

\* The invariant holds before the first icon is asked for. (IconCache::new)
LEMMA InitIcon == IconInit => IconInv
  BY IconAssumption, NoResults DEF IconInit, IconInv, IconTyped, WayIsQueued, Apart, Once, FlightCovers, Outstanding, Requests, IsInjective

\* get takes the decoded results under the lock.
LEMMA GetKeeps == ASSUME IconInv, NEW p \in IconPaths, Get(p) PROVE IconInv'
  <1>1. batch = <<>> /\ batch' = results /\ results' = <<>> /\ UNCHANGED <<queued, flight, channel, decoding>>
    BY DEF IconInv, IconTyped, Get
  <1>2. IconTyped'
    BY <1>1 DEF IconInv, IconTyped, Get
  <1>3. WayIsQueued' /\ Apart' /\ Once'
    BY <1>1, NoResults DEF IconInv, WayIsQueued, Apart, Once, Requests, PathsOf
  <1>4. FlightCovers'
    BY <1>1, NoResults DEF IconInv, IconTyped, FlightCovers, Outstanding
  <1> QED BY <1>2, <1>3, <1>4 DEF IconInv

\* The upload gives up as many requests as it took results, whatever the worker
\* added meanwhile. (drain_results)
LEMMA UploadKeeps == ASSUME IconInv, Upload PROVE IconInv'
  <1> DEFINE u == Uploaded(batch) w == Left(batch)
  <1>1. /\ batch' = <<>> /\ uiStep' = "look" /\ UNCHANGED <<channel, decoding, uiPath>> /\ uiStep = "upload"
        /\ queued' = queued \ PathsOf(u) /\ flight' = flight - Len(u)
        /\ results' = IF w = <<>> THEN results ELSE w
    BY DEF Upload, Left, Done
  <1>2. batch \in Seq(Results) /\ NoneTwice(batch) /\ results \in Seq(Results)
    BY DEF IconInv, IconTyped, Once
  <1>3. /\ u \in Seq(Results) /\ w \in Seq(Results) /\ Len(u) \in 0..Len(batch) /\ Len(w) = Len(batch) - Len(u)
        /\ PathsOf(w) \subseteq PathsOf(batch) /\ PathsOf(w) \cap PathsOf(u) = {} /\ PathsOf(u) \subseteq PathsOf(batch)
        /\ NoneTwice(w) /\ (w = <<>> => PathsOf(batch) = PathsOf(u))
    BY <1>2, Split, SplitPaths
  <1> HIDE DEF u, w
  <1>4. FlightCovers' /\ flight' \in Nat
    <2>1. /\ Len(channel) \in Nat /\ Len(results) \in Nat /\ Len(batch) \in Nat /\ Len(batch') = 0 /\ flight \in Nat
          /\ flight >= Len(channel) + Len(results) + Len(batch) + (IF decoding = NoIconPath THEN 0 ELSE 1)
      BY <1>1, <1>2 DEF IconInv, IconTyped, FlightCovers, Outstanding
    <2>2. CASE w = <<>>
      <3>1. Len(w) = 0 /\ results' = results
        BY <1>1, <2>2
      <3> QED BY <1>1, <1>3, <2>1, <3>1 DEF FlightCovers, Outstanding
    <2>3. CASE w # <<>>
      BY <1>1, <1>3, <2>1, <2>3 DEF FlightCovers, Outstanding
    <2> QED BY <2>2, <2>3
  <1>5. IconTyped'
    BY <1>1, <1>2, <1>3, <1>4 DEF IconInv, IconTyped
  <1>6. PathsOf(results') \cap PathsOf(u) = {} /\ NoneTwice(results') /\ PathsOf(results') \subseteq PathsOf(results) \cup PathsOf(batch)
        /\ (PathsOf(results') \subseteq PathsOf(results) \/ PathsOf(results') \subseteq PathsOf(batch))
    BY <1>1, <1>3 DEF IconInv, Apart, Once
  <1>7. WayIsQueued' /\ Apart' /\ Once'
    BY <1>1, <1>3, <1>6, NoResults DEF IconInv, WayIsQueued, Apart, Once, Requests
  <1> QED BY <1>4, <1>5, <1>7 DEF IconInv

\* A path is asked for only while it is not queued, and counted when it is sent. (get)
LEMMA LookKeeps == ASSUME IconInv, Look PROVE IconInv'
  <1>1. UNCHANGED <<decoding, results, batch>> /\ batch = <<>> /\ uiStep' = "idle" /\ uiPath \in IconPaths
    BY DEF Look, IconInv, IconTyped
  <1>2. CASE UNCHANGED <<queued, flight, channel>>
    BY <1>1, <1>2 DEF IconInv, IconTyped, WayIsQueued, Apart, Once, FlightCovers, Outstanding, Requests
  <1>3. CASE Wanted(uiPath) /\ queued' = queued \cup {uiPath} /\ ~hasTx /\ UNCHANGED <<flight, channel>>
    BY <1>1, <1>3 DEF IconInv, IconTyped, WayIsQueued, Apart, Once, FlightCovers, Outstanding, Requests
  <1>4. CASE Wanted(uiPath) /\ queued' = queued \cup {uiPath} /\ flight' = flight + 1 /\ channel' = Append(channel, uiPath)
    <2>1. uiPath \notin queued
      BY <1>4 DEF Wanted
    <2>2. /\ channel' \in Seq(IconPaths) /\ Len(channel') = Len(channel) + 1 /\ Len(channel) \in Nat
          /\ Requests' = Requests \cup {uiPath} /\ (uiPath \notin Requests => IsInjective(channel'))
      <3>1. channel \in Seq(IconPaths) /\ IsInjective(channel)
        BY DEF IconInv, IconTyped, Once
      <3>2. /\ channel' \in Seq(IconPaths) /\ Len(channel') = Len(channel) + 1 /\ Len(channel) \in Nat
            /\ {channel'[i] : i \in DOMAIN channel'} = {channel[i] : i \in DOMAIN channel} \cup {uiPath}
            /\ (uiPath \notin {channel[i] : i \in DOMAIN channel} => IsInjective(channel'))
        BY <1>1, <1>4, <3>1, LastJoins
      <3> QED BY <3>2 DEF Requests
    <2>4. uiPath \notin Requests \cup PathsOf(results) /\ uiPath # decoding /\ batch' = batch /\ PathsOf(batch) = {}
      BY <1>1, <2>1, IconAssumption, NoResults DEF IconInv, WayIsQueued
    <2>5. WayIsQueued'
      BY <1>1, <1>4, <2>2 DEF IconInv, WayIsQueued
    <2>6. Apart'
      BY <1>1, <2>2, <2>4 DEF IconInv, Apart
    <2>7. Once'
      BY <1>1, <2>2, <2>4 DEF IconInv, Once
    <2>3. WayIsQueued' /\ Apart' /\ Once'
      BY <2>5, <2>6, <2>7
    <2> QED BY <1>1, <1>4, <2>2, <2>3 DEF IconInv, IconTyped, FlightCovers, Outstanding
  <1> QED BY <1>2, <1>3, <1>4 DEF Look

\* The worker takes one request at a time. (icon_worker)
LEMMA ReceiveKeeps == ASSUME IconInv, Receive PROVE IconInv'
  <1>1. /\ decoding = NoIconPath /\ channel # <<>> /\ decoding' = Head(channel) /\ channel' = Tail(channel)
        /\ UNCHANGED <<queued, flight, results, uiStep, uiPath, batch>>
    BY DEF Receive
  <1>2. /\ decoding' \in IconPaths /\ channel' \in Seq(IconPaths) /\ Len(channel') = Len(channel) - 1
        /\ Len(channel) \in Nat /\ Len(channel) > 0 /\ Requests = {decoding'} \cup Requests'
        /\ IsInjective(channel') /\ decoding' \notin Requests'
    <2>1. channel \in Seq(IconPaths) /\ IsInjective(channel)
      BY DEF IconInv, IconTyped, Once
    <2>2. /\ decoding' \in IconPaths /\ channel' \in Seq(IconPaths) /\ Len(channel') = Len(channel) - 1
          /\ Len(channel) \in Nat /\ Len(channel) > 0 /\ IsInjective(channel')
          /\ {channel[i] : i \in DOMAIN channel} = {decoding'} \cup {channel'[i] : i \in DOMAIN channel'}
          /\ decoding' \notin {channel'[i] : i \in DOMAIN channel'}
      BY <1>1, <2>1, HeadLeaves
    <2> QED BY <2>2 DEF Requests
  <1>5. WayIsQueued'
    BY <1>1, <1>2 DEF IconInv, WayIsQueued
  <1>6. Apart'
    BY <1>1, <1>2 DEF IconInv, Apart
  <1>7. Once'
    BY <1>1, <1>2 DEF IconInv, Once
  <1>3. WayIsQueued' /\ Apart' /\ Once'
    BY <1>5, <1>6, <1>7
  <1>4. FlightCovers'
    BY <1>1, <1>2, IconAssumption DEF IconInv, IconTyped, FlightCovers, Outstanding
  <1> QED BY <1>1, <1>2, <1>3, <1>4 DEF IconInv, IconTyped

\* The worker decodes what it took and pushes the result. (icon_worker)
LEMMA DecodeKeeps == ASSUME IconInv, Decode PROVE IconInv'
  <1>1. PICK ok \in BOOLEAN : results' = Append(results, [path |-> decoding, ok |-> ok])
    BY DEF Decode
  <1> DEFINE e == [path |-> decoding, ok |-> ok]
  <1>2. /\ decoding \in IconPaths /\ e \in Results /\ e.path = decoding /\ decoding' = NoIconPath /\ decoding # NoIconPath
        /\ UNCHANGED <<queued, flight, channel, uiStep, uiPath, batch>>
    BY DEF Decode, IconInv, IconTyped, Results
  <1> HIDE DEF e
  <1>3. results' = Append(results, e)
    BY <1>1 DEF e
  <1>4. /\ results' \in Seq(Results) /\ Len(results') = Len(results) + 1 /\ Len(results) \in Nat
        /\ PathsOf(results') = PathsOf(results) \cup {decoding}
        /\ (decoding \notin PathsOf(results) => NoneTwice(results'))
    BY <1>2, <1>3, ResultJoins DEF IconInv, IconTyped, Once
  <1>5. NoIconPath \notin PathsOf(batch) /\ NoIconPath \notin PathsOf(results) /\ NoIconPath \notin Requests
    <2>1. ASSUME NEW q \in Seq(Results), NEW i \in DOMAIN q PROVE q[i].path # NoIconPath
      <3>1. q[i] \in Results
        OBVIOUS
      <3> QED BY <3>1, IconAssumption DEF Results
    <2>2. \A i \in DOMAIN channel : channel[i] # NoIconPath
      BY IconAssumption DEF IconInv, IconTyped
    <2> QED BY <2>1, <2>2 DEF IconInv, IconTyped, PathsOf, Requests
  <1>8. Requests' = Requests /\ PathsOf(batch') = PathsOf(batch)
    BY <1>2 DEF Requests
  <1>9. WayIsQueued'
    BY <1>2, <1>4, <1>8 DEF IconInv, WayIsQueued
  <1>10. Apart'
    BY <1>2, <1>4, <1>5, <1>8 DEF IconInv, Apart
  <1>11. Once'
    BY <1>2, <1>4 DEF IconInv, Once, Apart
  <1>6. WayIsQueued' /\ Apart' /\ Once'
    BY <1>9, <1>10, <1>11
  <1>7. FlightCovers'
    BY <1>2, <1>4 DEF IconInv, IconTyped, FlightCovers, Outstanding
  <1> QED BY <1>2, <1>4, <1>6, <1>7 DEF IconInv, IconTyped

\* The invariant holds in every state. (icons.rs)
THEOREM IconSound == IconSpec => []IconInv
  <1>1. IconInv /\ [IconNext]_iconVars => IconInv'
    <2>1. IconInv /\ UNCHANGED iconVars => IconInv'
      BY DEF iconVars, IconInv, IconTyped, WayIsQueued, Apart, Once, FlightCovers, Outstanding, Requests
    <2> QED BY <2>1, GetKeeps, UploadKeeps, LookKeeps, ReceiveKeeps, DecodeKeeps DEF IconNext
  <1> QED BY <1>1, InitIcon, PTL DEF IconSpec

\* The count of requests in flight covers whatever is on its way, so it cannot
\* wrap below zero, and no icon is extracted twice. (get, drain_results)
THEOREM IconsAreSafe == IconSpec => []IconsSafe
  <1>1. IconInv => IconsSafe
    <2> SUFFICES ASSUME IconInv PROVE OnceOnItsWay
      BY DEF IconsSafe, IconInv
    <2> DEFINE places == <<Requests, PathsOf(results), PathsOf(batch), {decoding} \ {NoIconPath}>>
    <2>1. ASSUME NEW i \in 1..4, NEW j \in 1..4, i # j PROVE places[i] \cap places[j] = {}
      <3>1. \A x \in 1..4 : x = 1 \/ x = 2 \/ x = 3 \/ x = 4
        OBVIOUS
      <3>2. places[1] = Requests /\ places[2] = PathsOf(results) /\ places[3] = PathsOf(batch) /\ places[4] = {decoding} \ {NoIconPath}
        OBVIOUS
      <3> HIDE DEF places
      <3> QED BY <2>1, <3>1, <3>2 DEF IconInv, Apart
    <2> QED BY <2>1 DEF OnceOnItsWay, IconInv, Once
  <1> QED BY <1>1, IconSound, PTL
-----------------------------------------------------------------------------
(***************************************************************************)
(* The launch.                                                             *)
(***************************************************************************)

-----------------------------------------------------------------------------
(* The inductive invariant.                                                 *)

Live == task # NoProcess0

\* What a process of the chain may still do: the consent prompt lies before it
\* until it has acquired the role, the redirect while it is the portable copy
\* and has not come to run_gui. (main, run_gui)
MayAsk(t) == ~t.elevated /\ t.at \in {"main", "redirect", "gui", "policy"}
MayRedirect(t) == ~t.elevated /\ t.exe # "installed" /\ t.at \in {"main", "redirect"}
Prompts(t) == IF MayAsk(t) THEN 1 ELSE 0
Spawns(t) == Prompts(t) + IF MayRedirect(t) THEN 1 ELSE 0

LaunchTyped ==
    /\ task \in Process0s \cup {NoProcess0} /\ asked \subseteq Flags
    /\ chain \in [started : Nat, prompts : Nat]
    /\ launched \in {"none", "shown", "hidden", "raised", "verb done", "no renderer"}

\* The spawns and prompts a launch has behind it and before it are bounded.
ChainLeft ==
    /\ ~HandedOver => chain.started <= 3 /\ chain.prompts <= 1
    /\ ~HandedOver /\ Live => chain.started + Spawns(task) <= 3 /\ chain.prompts + Prompts(task) <= 1
    /\ ~Live /\ launched = "none" => chain.started = 0 /\ chain.prompts = 0

\* A process of the chain has the arguments of the launch, and at most adds
\* that an instance hangs. (the arguments of redirect and elevation)
ArgsHanded == Live => launched = "none" /\ asked \subseteq task.args /\ task.args \subseteq asked \cup {"unresponsive"}

LaunchInv == LaunchTyped /\ ChainLeft /\ ArgsHanded /\ HotkeyShows /\ SuccessorOpens

-----------------------------------------------------------------------------
(* The invariant is inductive.                                              *)

\* Before the user starts anything the invariant holds.
LEMMA InitLaunch == LaunchInit => LaunchInv
  BY DEF LaunchInit, LaunchInv, LaunchTyped, ChainLeft, ArgsHanded, Live, HandedOver, HotkeyShows, SuccessorOpens

\* A process goes on to its next stage, with no more before it than it had.
LEMMA GoesKeeps ==
    ASSUME LaunchInv, Live, NEW t \in Process0s, task' = t, t.args = task.args,
           Spawns(t) <= Spawns(task), Prompts(t) <= Prompts(task), UNCHANGED <<asked, chain, launched>>
    PROVE  LaunchInv'
  <1>1. task \in Process0s /\ chain.started \in Nat /\ chain.prompts \in Nat
    BY DEF LaunchInv, LaunchTyped, Live
  <1>2. Spawns(t) \in Nat /\ Spawns(task) \in Nat /\ Prompts(t) \in Nat /\ Prompts(task) \in Nat
    BY DEF Spawns, Prompts
  <1>3. Live'
    BY LaunchAssumption DEF Live
  <1>4. LaunchTyped' /\ ArgsHanded' /\ HotkeyShows' /\ SuccessorOpens'
    BY DEF LaunchInv, LaunchTyped, ArgsHanded, HotkeyShows, SuccessorOpens, HandedOver
  <1>5. ChainLeft'
    BY <1>1, <1>2, <1>3 DEF LaunchInv, ChainLeft, HandedOver
  <1> QED BY <1>4, <1>5 DEF LaunchInv

\* A launch that is over.
LEMMA OverKeeps ==
    ASSUME LaunchInv, Live, NEW r \in {"shown", "hidden", "raised", "verb done", "no renderer"}, Over(r), UNCHANGED <<asked, chain>>,
           r = "hidden" => Hidden(task), r = "raised" => "handoff" \notin task.args
    PROVE  LaunchInv'
  <1>1. ~Live' /\ launched' = r
    BY DEF Live, Over
  <1>2. LaunchTyped' /\ ArgsHanded' /\ ChainLeft'
    BY <1>1 DEF LaunchInv, LaunchTyped, ArgsHanded, ChainLeft, HandedOver, Over
  <1>3. HotkeyShows' /\ SuccessorOpens'
    BY <1>1 DEF LaunchInv, ArgsHanded, HotkeyShows, SuccessorOpens, HandedOver, Hidden
  <1> QED BY <1>2, <1>3 DEF LaunchInv

\* The next process of the chain.
LEMMA SpawnKeeps ==
    ASSUME LaunchInv, Live, NEW t \in Process0s, task' = t, task.args \subseteq t.args, t.args \subseteq task.args \cup {"unresponsive"},
           NEW n \in {0, 1}, chain' = [started |-> chain.started + 1, prompts |-> chain.prompts + n],
           Spawns(t) + 1 <= Spawns(task), Prompts(t) + n <= Prompts(task), UNCHANGED <<asked, launched>>
    PROVE  LaunchInv'
  <1>1. task \in Process0s /\ chain.started \in Nat /\ chain.prompts \in Nat
    BY DEF LaunchInv, LaunchTyped, Live
  <1>2. Spawns(t) \in Nat /\ Spawns(task) \in Nat /\ Prompts(t) \in Nat /\ Prompts(task) \in Nat
    BY DEF Spawns, Prompts
  <1>3. Live' /\ chain'.started = chain.started + 1 /\ chain'.prompts = chain.prompts + n
    BY LaunchAssumption DEF Live
  <1>4. LaunchTyped' /\ ArgsHanded' /\ HotkeyShows' /\ SuccessorOpens'
    BY <1>1 DEF LaunchInv, LaunchTyped, ArgsHanded, HotkeyShows, SuccessorOpens, HandedOver, Live
  <1>5. ChainLeft'
    BY <1>1, <1>2, <1>3 DEF LaunchInv, ChainLeft, HandedOver
  <1> QED BY <1>4, <1>5 DEF LaunchInv

\* The user starts a chain: two processes at most lie before its first. (main)
LEMMA UserKeeps == ASSUME LaunchInv, UserLaunches PROVE LaunchInv'
  <1>1. PICK e \in {"portable", "installed"}, l \in BOOLEAN, f \in LaunchFlags : Spawned(e, l, f) /\ asked' = f
    BY DEF UserLaunches
  <1> DEFINE t == Process0(e, l, f)
  <1>2. t \in Process0s /\ t.args = f /\ f \subseteq Flags /\ Spawns(t) \in 0..2 /\ Prompts(t) \in 0..1
    BY LaunchAssumption DEF Process0, Process0s, Spawns, Prompts
  <1> HIDE DEF t
  <1>3. task' = t /\ launched' = "none" /\ chain'.started = 1 /\ chain'.prompts = 0 /\ chain' \in [started : Nat, prompts : Nat]
    BY <1>1 DEF UserLaunches, Spawned, t, LaunchInv, LaunchTyped, ChainLeft, Live
  <1>4. Live'
    BY <1>2, <1>3, LaunchAssumption DEF Live
  <1>5. LaunchTyped' /\ ArgsHanded' /\ HotkeyShows' /\ SuccessorOpens'
    BY <1>1, <1>2, <1>3 DEF LaunchTyped, ArgsHanded, HotkeyShows, SuccessorOpens
  <1>6. ChainLeft'
    BY <1>2, <1>3, <1>4 DEF ChainLeft
  <1> QED BY <1>5, <1>6 DEF LaunchInv

\* A session that is handed over starts a chain that nothing bounds but the user.
LEMMA HandOverKeeps == ASSUME LaunchInv, HandOver PROVE LaunchInv'
  <1>1. PICK e \in {"portable", "installed"}, l \in BOOLEAN, f \in SUBSET Flags : Spawned(e, l, f) /\ "handoff" \in f
    <2>1. asked \cup {"handoff"} \in SUBSET Flags /\ {"handoff"} \in SUBSET Flags
      BY DEF LaunchInv, LaunchTyped, Flags
    <2>2. CASE Spawned("portable", TRUE, {"handoff"})
      <3>1. TRUE \in BOOLEAN /\ "portable" \in {"portable", "installed"}
        OBVIOUS
      <3> QED BY ONLY <2>1, <2>2, <3>1, Zenon
    <2>3. CASE Spawned("installed", FALSE, asked \cup {"handoff"})
      <3>1. FALSE \in BOOLEAN /\ "installed" \in {"portable", "installed"} /\ "handoff" \in asked \cup {"handoff"}
        OBVIOUS
      <3> QED BY ONLY <2>1, <2>3, <3>1, Zenon
    <2> QED BY <2>2, <2>3 DEF HandOver
  <1> DEFINE t == Process0(e, l, f)
  <1>2. t \in Process0s /\ t.args = f
    BY DEF Process0, Process0s
  <1> HIDE DEF t
  <1>3. task' = t /\ launched' = "none" /\ asked' = f /\ chain' \in [started : Nat, prompts : Nat]
    <2>1. task' = t
      BY <1>1 DEF Spawned, t
    <2>2. chain' \in [started : Nat, prompts : Nat]
      <3>1. chain' = [chain EXCEPT !.started = @ + 1] /\ chain \in [started : Nat, prompts : Nat]
        BY <1>1 DEF Spawned, LaunchInv, LaunchTyped
      <3> QED BY <3>1
    <2> QED BY <1>2, <2>1, <2>2 DEF HandOver
  <1>4. Live'
    BY <1>2, <1>3, LaunchAssumption DEF Live
  <1> QED BY <1>1, <1>2, <1>3, <1>4 DEF LaunchInv, LaunchTyped, ChainLeft, ArgsHanded, HotkeyShows, SuccessorOpens, HandedOver

\* A raised instance ends the launch, unless it is a successor's; one that hangs
\* is noted. (activate_existing)
LEMMA ActivateKeeps == ASSUME LaunchInv, ActivateInMain \/ ActivateInGui PROVE LaunchInv'
  <1>1. Live /\ task \in Process0s
    BY DEF ActivateInMain, ActivateInGui, Activate, Live, LaunchInv, LaunchTyped
  <1>2. CASE ~Skips(task) /\ hold \in {"serving", "leaving"}
    BY <1>1, <1>2, OverKeeps DEF ActivateInMain, ActivateInGui, Activate, Skips
  <1>3. CASE ~(~Skips(task) /\ hold \in {"serving", "leaving"})
    <2>1. PICK to \in {"redirect", "policy"}, m \in BOOLEAN :
             /\ task' = [task EXCEPT !.at = to, !.marked = m] /\ UNCHANGED <<asked, chain, launched>>
             /\ (to = "redirect" => task.at = "main") /\ (to = "policy" => task.at = "gui")
      BY <1>1, <1>3 DEF ActivateInMain, ActivateInGui, Activate, Process0s
    <2> DEFINE t == [task EXCEPT !.at = to, !.marked = m]
    <2>2. /\ t \in Process0s /\ t.args = task.args /\ t.exe = task.exe /\ t.elevated = task.elevated /\ t.at = to
      BY <1>1 DEF Process0s
    <2> HIDE DEF t
    <2>3. Spawns(t) <= Spawns(task) /\ Prompts(t) <= Prompts(task)
      BY <2>1, <2>2 DEF Spawns, Prompts, MayAsk, MayRedirect
    <2>4. task' = t
      BY <2>1 DEF t
    <2> QED BY <1>1, <2>1, <2>2, <2>3, <2>4, GoesKeeps
  <1> QED BY <1>2, <1>3

\* The portable copy hands over to the installed one, or goes on. (redirect)
LEMMA RedirectKeeps == ASSUME LaunchInv, Redirect PROVE LaunchInv'
  <1>1. Live /\ task \in Process0s /\ task.at = "redirect" /\ UNCHANGED <<asked, launched>>
    BY DEF Redirect, AfterRedirect, Live, LaunchInv, LaunchTyped
  <1>2. CASE RedirectTarget(task) /\ Spawned("installed", FALSE, task.args)
    <2> DEFINE t == Process0("installed", FALSE, task.args)
    <2>1. t \in Process0s /\ t.args = task.args /\ t.exe = "installed" /\ ~t.elevated /\ t.at = "main"
      BY <1>1 DEF Process0, Process0s
    <2>2. task' = t /\ chain' = [chain EXCEPT !.started = @ + 1]
      BY <1>2 DEF Spawned
    <2> HIDE DEF t
    <2>3. chain' = [started |-> chain.started + 1, prompts |-> chain.prompts + 0]
      <3>1. chain \in [started : Nat, prompts : Nat]
        BY DEF LaunchInv, LaunchTyped
      <3>2. chain.prompts \in Nat /\ chain.prompts + 0 = chain.prompts
        BY <3>1
      <3> QED BY <2>2, <3>1, <3>2
    <2>4. Spawns(t) + 1 <= Spawns(task) /\ Prompts(t) + 0 <= Prompts(task)
      BY <1>1, <1>2, <2>1 DEF Spawns, Prompts, MayAsk, MayRedirect, RedirectTarget
    <2> QED BY <1>1, <2>1, <2>2, <2>3, <2>4, SpawnKeeps
  <1>3. CASE Goes("gui") /\ UNCHANGED chain
    <2> DEFINE t == [task EXCEPT !.at = "gui"]
    <2>1. /\ t \in Process0s /\ t.args = task.args /\ t.exe = task.exe /\ t.elevated = task.elevated
          /\ t.at = "gui" /\ task' = t
      BY <1>1, <1>3 DEF Process0s, Goes
    <2> HIDE DEF t
    <2>2. Spawns(t) <= Spawns(task) /\ Prompts(t) <= Prompts(task)
      BY <1>1, <2>1 DEF Spawns, Prompts, MayAsk, MayRedirect
    <2> QED BY <1>1, <1>3, <2>1, <2>2, GoesKeeps
  <1> QED BY <1>2, <1>3 DEF Redirect, AfterRedirect

\* A granted prompt starts the elevated child, a declined one goes on as before:
\* either way this chain asks no more. (run_gui's start_elevated policy)
LEMMA ElevateKeeps == ASSUME LaunchInv, Elevate PROVE LaunchInv'
  <1>1. Live /\ task \in Process0s /\ task.at = "policy" /\ UNCHANGED <<asked, launched>>
    BY DEF Elevate, Live, LaunchInv, LaunchTyped
  <1>2. chain \in [started : Nat, prompts : Nat]
    BY DEF LaunchInv, LaunchTyped
  <1>3. CASE ~NeedsElevation(task)
    <2> DEFINE t == [task EXCEPT !.at = "acquire"]
    <2>1. t \in Process0s /\ t.args = task.args /\ t.at = "acquire" /\ task' = t /\ UNCHANGED chain
      BY <1>1, <1>3 DEF Process0s, Elevate, Goes
    <2> HIDE DEF t
    <2>2. Spawns(t) <= Spawns(task) /\ Prompts(t) <= Prompts(task)
      BY <1>1, <2>1 DEF Spawns, Prompts, MayAsk, MayRedirect
    <2> QED BY <1>1, <2>1, <2>2, GoesKeeps
  <1>4. CASE NeedsElevation(task)
    <2>1. Prompts(task) = 1 /\ Spawns(task) = 1
      BY <1>1, <1>4 DEF Prompts, Spawns, MayAsk, MayRedirect, NeedsElevation
    <2>2. CASE chain' = [started |-> chain.started + 1, prompts |-> chain.prompts + 1]
               /\ task' = Process0(task.exe, TRUE, task.args \cup (IF task.marked THEN {"unresponsive"} ELSE {}))
      <3> DEFINE t == Process0(task.exe, TRUE, task.args \cup (IF task.marked THEN {"unresponsive"} ELSE {}))
      <3>1. /\ t \in Process0s /\ task.args \subseteq t.args /\ t.args \subseteq task.args \cup {"unresponsive"}
            /\ t.elevated /\ task' = t
        BY <1>1, <2>2 DEF Process0, Process0s, Flags
      <3> HIDE DEF t
      <3>2. Spawns(t) = 0 /\ Prompts(t) = 0
        BY <3>1 DEF Spawns, Prompts, MayAsk, MayRedirect
      <3>3. Spawns(t) + 1 <= Spawns(task) /\ Prompts(t) + 1 <= Prompts(task) /\ 1 \in {0, 1}
        BY <2>1, <3>2
      <3>4. UNCHANGED <<asked, launched>> /\ chain' = [started |-> chain.started + 1, prompts |-> chain.prompts + 1]
        BY <1>1, <2>2
      <3> QED BY ONLY LaunchInv, <1>1, <3>1, <3>3, <3>4, SpawnKeeps
    <2>3. CASE Goes("acquire") /\ chain' = [chain EXCEPT !.prompts = @ + 1]
      <3> DEFINE t == [task EXCEPT !.at = "acquire"]
      <3>1. t \in Process0s /\ t.args = task.args /\ t.at = "acquire" /\ task' = t
        BY <1>1, <2>3 DEF Process0s, Goes
      <3> HIDE DEF t
      <3>2. Spawns(t) = 0 /\ Prompts(t) = 0
        BY <3>1 DEF Spawns, Prompts, MayAsk, MayRedirect
      <3>3. Live' /\ Live /\ chain'.started = chain.started /\ chain'.prompts = chain.prompts + 1
        BY <1>1, <1>2, <2>3, <3>1, LaunchAssumption DEF Live
      <3>4. LaunchTyped' /\ ArgsHanded' /\ HotkeyShows' /\ SuccessorOpens'
        BY <1>1, <1>2, <2>3, <3>1, <3>3
           DEF LaunchInv, LaunchTyped, ArgsHanded, HotkeyShows, SuccessorOpens, HandedOver
      <3>5. ChainLeft'
        BY <1>1, <1>2, <2>1, <3>1, <3>2, <3>3 DEF LaunchInv, ChainLeft, HandedOver
      <3> QED BY <3>4, <3>5 DEF LaunchInv
    <2> QED BY <1>4, <2>2, <2>3 DEF Elevate
  <1> QED BY <1>3, <1>4

\* The instance is acquired, or the launch is served by another. (acquire)
LEMMA AcquireKeeps == ASSUME LaunchInv, Acquire PROVE LaunchInv'
  <1>1. Live /\ task \in Process0s /\ task.at = "acquire" /\ UNCHANGED <<asked, chain>>
    BY DEF Acquire, Live, LaunchInv, LaunchTyped
  <1>2. CASE Over("raised") /\ "handoff" \notin task.args
    BY <1>1, <1>2, OverKeeps
  <1>3. CASE Goes("window") /\ UNCHANGED launched
    <2> DEFINE t == [task EXCEPT !.at = "window"]
    <2>1. t \in Process0s /\ t.args = task.args /\ t.at = "window" /\ task' = t
      BY <1>1, <1>3 DEF Process0s, Goes
    <2> HIDE DEF t
    <2>2. Spawns(t) <= Spawns(task) /\ Prompts(t) <= Prompts(task)
      BY <1>1, <2>1 DEF Spawns, Prompts, MayAsk, MayRedirect
    <2> QED BY <1>1, <1>3, <2>1, <2>2, GoesKeeps
  <1> QED BY <1>2, <1>3 DEF Acquire

\* The renderers: a window, the next attempt, or none is left.
LEMMA WindowKeeps == ASSUME LaunchInv, TryRenderer \/ NoRenderer PROVE LaunchInv'
  <1>1. Live /\ task \in Process0s /\ task.at = "window" /\ UNCHANGED <<asked, chain>>
    BY DEF TryRenderer, NoRenderer, Live, LaunchInv, LaunchTyped
  <1>2. CASE TryRenderer /\ Over(IF Hidden(task) THEN "hidden" ELSE "shown")
    <2>1. CASE Hidden(task)
      <3>1. Over("hidden")
        BY <1>2, <2>1
      <3> QED BY <1>1, <2>1, <3>1, OverKeeps
    <2>2. CASE ~Hidden(task)
      <3>1. Over("shown")
        BY <1>2, <2>2
      <3> QED BY <1>1, <3>1, OverKeeps
    <2> QED BY <2>1, <2>2
  <1>3. CASE TryRenderer /\ task' = [task EXCEPT !.tried = @ + 1] /\ UNCHANGED launched
    <2> DEFINE t == [task EXCEPT !.tried = @ + 1]
    <2>1. t \in Process0s /\ t.args = task.args /\ t.at = "window" /\ task' = t
      BY <1>1, <1>3 DEF Process0s
    <2> HIDE DEF t
    <2>2. Spawns(t) <= Spawns(task) /\ Prompts(t) <= Prompts(task)
      BY <1>1, <2>1 DEF Spawns, Prompts, MayAsk, MayRedirect
    <2> QED BY <1>1, <1>3, <2>1, <2>2, GoesKeeps
  <1>4. CASE NoRenderer
    BY <1>1, <1>4, OverKeeps DEF NoRenderer
  <1> QED BY <1>2, <1>3, <1>4 DEF TryRenderer

-----------------------------------------------------------------------------
(* The theorem.                                                             *)

\* Every step of the launch keeps the invariant.
LEMMA LaunchStepKeeps == LaunchInv /\ [LaunchNext]_launchVars => LaunchInv'
  <1> SUFFICES ASSUME LaunchInv, [LaunchNext]_launchVars PROVE LaunchInv'
    OBVIOUS
  <1> USE DEF LaunchInv, LaunchTyped, ChainLeft, ArgsHanded, HotkeyShows, SuccessorOpens, HandedOver, Live
  <1>1. CASE UNCHANGED <<task, asked, chain, launched>>
    BY <1>1
  <1>2. CASE RunVerb
    <2>1. Live /\ Over("verb done") /\ UNCHANGED <<asked, chain>>
      BY <1>2 DEF RunVerb
    <2> QED BY <2>1, OverKeeps
  <1>3. CASE MachineChanges \/ HandOverEnds \/ UNCHANGED launchVars
    BY <1>1, <1>3 DEF MachineChanges, HandOverEnds, launchVars
  <1> HIDE DEF LaunchInv
  <1> QED BY <1>2, <1>3, UserKeeps, ActivateKeeps, RedirectKeeps, ElevateKeeps, AcquireKeeps, WindowKeeps,
             HandOverKeeps DEF LaunchNext

\* A launch by the user starts at most the portable copy, the installed one and
\* its elevated child, and asks for consent once, however often the marker, the
\* copies, the service and the running instance change on the way; it is hidden
\* only if it asked for it and not through the hotkey, it ends in something the
\* user sees, and a successor is never put off. (main, run_gui, redirect,
\* start_elevated, --single-instance-handoff)
THEOREM LaunchIsHonest == LaunchSpec => []LaunchHonest
  <1>1. LaunchInv => LaunchHonest
    BY DEF LaunchInv, LaunchTyped, ChainLeft, LaunchHonest, ChainBounded, EndsInSomething
  <1> QED BY <1>1, InitLaunch, LaunchStepKeeps, PTL DEF LaunchSpec

-----------------------------------------------------------------------------
(* The keyboard hook.                                                       *)

\* Every step of a press that is being served, from the claim to the answer.
Waiting == {"await1", "probe", "await2"}

\* What the hook thread can be asked. (WM_APP messages of hook_thread)
Messages == {"on", "off", "retire", "front", "quit"}

\* Flags and counters have their values; what the hook thread is asked is a list.
HookTyped ==
    /\ current \in 0..3 /\ retiring \in 0..3 /\ (current # retiring \/ current = 0)
    /\ HooksAccounted
    /\ posts \in Seq(Messages)
    /\ tick \in {"zero", "fresh", "stale"} /\ press \in {"none", "swallowed", "passed", "mixed"}
    /\ wpc \in Waiting \cup {"sync", "wait", "ended"}
    /\ changes \in 0..MaxChanges /\ ui \in {"live", "hung"}
    /\ life \in {"running", "closing", "joinWorker", "joinHook", "joined", "closed"}

\* The registration and the hook asked for are there or not. (sync_hook_state)
HookFlags == registered \in BOOLEAN /\ installed \in BOOLEAN

\* What the queue of the hook thread can still grow by: a copy that is not retiring may
\* be, the registration may still differ, the end of the worker and of the thread add
\* one message each. (begin_move_to_front, sync_hook_state, HotkeyHook::drop)
Past == {"joinHook", "joined", "closed"}
Fits(n, k, differs) ==
    n + (IF k = 0 THEN 1 ELSE 0) + (IF differs THEN 1 ELSE 0)
        <= MaxPosts + 2 + changes + (IF wpc = "ended" THEN 1 ELSE 0) + (IF life \in Past THEN 1 ELSE 0)
QueueBounded == Fits(Len(posts), retiring, registered # installed)

\* A hook that is not to be installed is not there, or a message that removes it is
\* the last that decides. (request_hook, set_hook)
Removes(q, k) ==
    /\ k # 0 => \E j \in 1..Len(q) : q[j] = "off"
    /\ \A i \in 1..Len(q) : q[i] = "on" => \E j \in 1..Len(q) : i < j /\ q[j] = "off"
HookGoes == wpc # "ended" /\ ~installed => Removes(posts, current)

\* A watch that has not fired stands for a registration the worker has seen.
\* (ReplacementWatch::arm, sync_hook_state)
WatchCurrent ==
    /\ armed => watch \/ regEv
    /\ watch /\ wpc \notin {"sync", "ended"} => enabled = registered /\ installed = registered

\* A press that was swallowed and not answered is the worker's, which is told nothing
\* else meanwhile, or a UI's that will come to it. (claim_worker, serve_press)
PressHeld ==
    life = "running" =>
        /\ trig => busy /\ wpc \notin Waiting
        /\ wpc \in Waiting => busy /\ (owed => req /\ ~shown)
        /\ owed => target /\ ~stalled /\ (trig \/ req)
        /\ busy => target /\ (wpc \in Waiting \/ trig)
        /\ wpc # "ended"

\* The handle is taken apart in order: worker, hook thread, events. (HotkeyHook::drop)
TornDownInOrder ==
    /\ life \in {"joinHook", "joined", "closed"} => wpc = "ended" /\ ~tidPublished
    /\ life \in {"joined", "closed"} => hooks = {} /\ posts = <<>>

\* Only once the worker is joined is the hook thread asked to quit. (HotkeyHook::drop)
NoQuit(q) == \A i \in 1..Len(q) : q[i] # "quit"
QuitAsked == life # "joinHook" => NoQuit(posts)

\* A mark of a swallowed press is never there for a press that passed.
\* (low_level_keyboard_proc, set_hook)
MarkIsOfSwallowed ==
    /\ hooks = {} => ~consumed
    /\ press = "passed" => ~consumed

HookInd ==
    /\ HookTyped /\ HookFlags /\ QueueBounded /\ HookGoes /\ WatchCurrent /\ PressHeld
    /\ TornDownInOrder /\ QuitAsked /\ MarkIsOfSwallowed

-----------------------------------------------------------------------------
(* It is inductive.                                                         *)

\* An installation takes a number no installed copy has. (SetWindowsHookExW)
LEMMA FreshIsNew ==
    ASSUME NEW c \in 0..3
    PROVE  FreshCopy({c} \ {0}) \in (1..3) \ {c}
<1>1. \E d \in 1..3 : d \notin {c} \ {0} /\ d # c
  <2>1. CASE c = 1
        BY <2>1, 2 \in 1..3
  <2>2. CASE c # 1
        BY <2>2, 1 \in 1..3
  <2> QED BY <2>1, <2>2
<1>2. \A d \in 1..3 : d \notin {c} \ {0} => d # c
      BY SMT
<1> QED BY <1>1, <1>2 DEF FreshCopy

\* The queue starts empty and everything is off. (HotkeyHook::install)
LEMMA HookInit == HotkeyInit => HookInd
<1> SUFFICES ASSUME HotkeyInit PROVE HookInd
    OBVIOUS
<1> USE HotkeyAssumption DEF HotkeyInit, StartWith
<1>1. HookTyped
  <2>1. hooks = {current, retiring} \ {0}
        BY Zenon
  <2>2. posts \in Seq(Messages)
        BY DEF Messages
  <2>3. changes \in 0..MaxChanges
        OBVIOUS
  <2> QED BY <2>1, <2>2, <2>3 DEF HookTyped, HooksAccounted, Waiting
<1>f. HookFlags
      BY Zenon DEF HookFlags
<1>2. QueueBounded
  <2>1. Len(posts) = 0
        OBVIOUS
  <2> QED BY <2>1 DEF QueueBounded, Fits, Past
<1>3. HookGoes
      BY DEF HookGoes, Removes
<1>4. WatchCurrent /\ PressHeld /\ TornDownInOrder /\ QuitAsked /\ MarkIsOfSwallowed
      BY DEF WatchCurrent, PressHeld, TornDownInOrder, QuitAsked, NoQuit, MarkIsOfSwallowed, Waiting
<1> QED BY <1>1, <1>f, <1>2, <1>3, <1>4 DEF HookInd

\* The hook moves: the fresh copy is current, the old one is on its way out.
\* (begin_move_to_front)
LEMMA MoveKeeps ==
    ASSUME HookTyped, NEW hs, NEW r, NEW q \in Seq(Messages), BeginMove(hs, r, q),
           \/ hs = hooks /\ r = retiring
           \/ hs = hooks \ {retiring} /\ r = 0
    PROVE  /\ current' \in 0..3 /\ retiring' \in 0..3
           /\ current' # retiring' \/ current' = 0
           /\ HooksAccounted'
           /\ posts' \in Seq(Messages)
           /\ current' # 0 <=> current # 0
           /\ \/ posts' = q /\ retiring' = r
              \/ posts' = Append(q, "retire") /\ retiring' # 0 /\ r = 0
<1>0. /\ current \in 0..3 /\ retiring \in 0..3
      /\ current # retiring \/ current = 0
      /\ hooks = {current, retiring} \ {0} /\ (current = 0 => retiring = 0)
      BY DEF HookTyped, HooksAccounted
<1>r. r \in {0, retiring}
      OBVIOUS
<1>h. hs = {current, r} \ {0}
      BY <1>0
<1>1. CASE hooks' = hs /\ retiring' = r /\ posts' = q /\ UNCHANGED current
      BY <1>0, <1>1, <1>h, <1>r DEF HooksAccounted
<1>2. CASE /\ current # 0 /\ r = 0
           /\ current' = FreshCopy(hs) /\ hooks' = hs \union {FreshCopy(hs)}
           /\ retiring' = current /\ posts' = Append(q, "retire")
  <2>1. hs = {current} \ {0}
        BY <1>2, <1>h
  <2>2. current' \in (1..3) \ {current}
        BY <2>1, <1>0, <1>2, FreshIsNew
  <2>3. hooks' = {current, current'}
        BY <1>2, <2>1
  <2>4. posts' \in Seq(Messages)
        BY <1>2 DEF Messages
  <2>5. HooksAccounted'
        BY <1>2, <2>2, <2>3 DEF HooksAccounted
  <2> QED BY <1>0, <1>2, <2>2, <2>4, <2>5
<1> QED BY <1>1, <1>2 DEF BeginMove

\* Both stay what they are. (sync_hook_state)
LEMMA HookFlagsStep == ASSUME HookFlags, [HotkeyNext]_hkVars PROVE HookFlags'
<1>1. \/ UNCHANGED <<registered, installed>>
      \/ installed' = registered /\ UNCHANGED registered
      \/ registered' = ~registered /\ UNCHANGED installed
      BY DEF HotkeyNext, Keyboard, Worker, Teardowns, HookMessage, ChordDown, ModsUp, RepeatSwallowed,
         PressSwallowed, PressPasses, EscUp, EscUpElsewhere, TickAges, SyncReads, WakeRegistry, WakePoll,
         ServePress, AwaitShown, AwaitTimeout, ProbeBusy, ProbeUnsure, Stalled, WorkerEnds, StopWorker,
         StopHookThread, Teardown, RegistrationChanges, UiWindow, UiShows, UiHangs, UiRecovers,
         LaunchHandsOver, StopBegins, hkVars, hookVars, keyVars, flags, workVars, regs, uiVars, Rest, Kept
<1> QED BY <1>1, Zenon DEF HookFlags

\* What the hook thread does with its next message. (hook_thread)
LEMMA MessageCases ==
    ASSUME HookTyped, HookMessage
    PROVE  /\ posts # <<>> /\ Head(posts) \in Messages /\ Tail(posts) \in Seq(Messages)
           /\ UNCHANGED <<tidPublished, mods, esc, appEsc, press, flags, workVars, regs, uiVars>>
           /\ \/ Head(posts) = "on" /\ SetHookOn /\ posts' = Tail(posts) /\ UNCHANGED life
              \/ Head(posts) = "off" /\ SetHookOff /\ posts' = Tail(posts) /\ UNCHANGED life
              \/ /\ Head(posts) = "retire" /\ hooks' = hooks \ {retiring} /\ retiring' = 0
                 /\ posts' = Tail(posts) /\ UNCHANGED <<current, consumed, tick, life>>
              \/ /\ Head(posts) = "front" /\ BeginMove(hooks \ {retiring}, 0, Tail(posts))
                 /\ UNCHANGED <<consumed, tick, life>>
              \/ Head(posts) = "quit" /\ SetHookOff /\ posts' = <<>> /\ life' = "joined"
<1>1. posts # <<>> /\ posts \in Seq(Messages)
      BY DEF HookMessage, HookTyped
<1>2. Head(posts) \in Messages /\ Tail(posts) \in Seq(Messages)
      BY <1>1
<1>3. Head(posts) \in {"on", "off", "retire", "front", "quit"}
      BY <1>2 DEF Messages
<1>4. UNCHANGED <<tidPublished, mods, esc, appEsc, press, flags, workVars, regs, uiVars>>
      BY DEF HookMessage
<1>5. CASE Head(posts) = "on"
      BY <1>1, <1>2, <1>4, <1>5 DEF HookMessage
<1>6. CASE Head(posts) = "off"
      BY <1>1, <1>2, <1>4, <1>6 DEF HookMessage
<1>7. CASE Head(posts) = "retire"
      BY <1>1, <1>2, <1>4, <1>7 DEF HookMessage
<1>8. CASE Head(posts) = "front"
      BY <1>1, <1>2, <1>4, <1>8 DEF HookMessage
<1>9. CASE Head(posts) = "quit"
      BY <1>1, <1>2, <1>4, <1>9 DEF HookMessage
<1> QED BY <1>3, <1>5, <1>6, <1>7, <1>8, <1>9

\* Flags, queue and copies keep their values. (every handler)
LEMMA HookTypedStep == ASSUME HookTyped, [HotkeyNext]_hkVars PROVE HookTyped'
<1> USE DEF hookVars, keyVars, flags, workVars, regs, uiVars, Rest, Kept, Served, RequestHook
<1>t. /\ current \in 0..3 /\ retiring \in 0..3 /\ (current # retiring \/ current = 0)
      /\ hooks = {current, retiring} \ {0} /\ (current = 0 => retiring = 0)
      /\ posts \in Seq(Messages)
      BY DEF HookTyped, HooksAccounted
<1>a. \A m \in Messages : Append(posts, m) \in Seq(Messages)
      BY <1>t
<1>m. {"on", "off", "retire", "front", "quit"} = Messages
      BY DEF Messages
<1>1. CASE HookMessage
  <2>1. posts # <<>> /\ Head(posts) \in Messages /\ Tail(posts) \in Seq(Messages)
        BY <1>1, MessageCases
  <2>2. UNCHANGED <<tidPublished, mods, esc, appEsc, press, flags, workVars, regs, uiVars>>
        BY <1>1, MessageCases
  <2>3. CASE Head(posts) = "on"
    <3>1. SetHookOn /\ posts' = Tail(posts) /\ UNCHANGED life
          BY <1>1, <2>3, MessageCases
    <3>2. CASE UNCHANGED <<hooks, current>>
          BY <2>1, <2>2, <3>1, <3>2 DEF SetHookOn, HookTyped, HooksAccounted
    <3>3. CASE current = 0 /\ current' = FreshCopy(hooks) /\ hooks' = hooks \union {FreshCopy(hooks)}
      <4>1. hooks = {0} \ {0} /\ retiring = 0
            BY <1>t, <3>3
      <4>2. current' \in 1..3
            BY <3>3, <4>1, FreshIsNew
      <4>3. hooks' = {current', retiring'} \ {0} /\ retiring' = 0
            BY <3>1, <3>3, <4>1, <4>2 DEF SetHookOn
      <4> QED BY <2>1, <2>2, <3>1, <4>2, <4>3 DEF SetHookOn, HookTyped, HooksAccounted
    <3> QED BY <3>1, <3>2, <3>3 DEF SetHookOn
  <2>4. CASE Head(posts) = "off"
    <3>1. SetHookOff /\ posts' = Tail(posts) /\ UNCHANGED life
          BY <1>1, <2>4, MessageCases
    <3> QED BY <2>1, <2>2, <3>1, <1>t DEF SetHookOff, HookTyped, HooksAccounted
  <2>5. CASE Head(posts) = "retire"
    <3>1. hooks' = hooks \ {retiring} /\ retiring' = 0 /\ posts' = Tail(posts)
          /\ UNCHANGED <<current, consumed, tick, life>>
          BY <1>1, <2>5, MessageCases
    <3> QED BY <2>1, <2>2, <3>1, <1>t DEF HookTyped, HooksAccounted
  <2>6. CASE Head(posts) = "front"
    <3>1. BeginMove(hooks \ {retiring}, 0, Tail(posts)) /\ UNCHANGED <<consumed, tick, life>>
          BY <1>1, <2>6, MessageCases
    <3>2. /\ current' \in 0..3 /\ retiring' \in 0..3
          /\ current' # retiring' \/ current' = 0
          /\ HooksAccounted'
          /\ posts' \in Seq(Messages)
          BY <2>1, <3>1, MoveKeeps
    <3> QED BY <2>2, <3>1, <3>2 DEF HookTyped
  <2>7. CASE Head(posts) = "quit"
    <3>1. SetHookOff /\ posts' = <<>> /\ life' = "joined"
          BY <1>1, <2>7, MessageCases
    <3> QED BY <2>2, <3>1, <1>t DEF SetHookOff, HookTyped, HooksAccounted
  <2> QED BY <2>1, <2>3, <2>4, <2>5, <2>6, <2>7, <1>m
<1>2. CASE ChordDown
  <2>1. CASE Hooked /\ enabled /\ target /\ ~stalled
    <3>1. BeginMove(hooks, retiring, posts)
          BY <1>2, <2>1 DEF ChordDown
    <3>2. /\ current' \in 0..3 /\ retiring' \in 0..3
          /\ current' # retiring' \/ current' = 0
          /\ HooksAccounted'
          /\ posts' \in Seq(Messages)
          BY <1>t, <3>1, MoveKeeps
    <3> QED BY <1>2, <3>2 DEF ChordDown, HookTyped
  <2> QED BY <1>2, <2>1 DEF ChordDown, HookTyped, HooksAccounted
<1>3. CASE ModsUp \/ RepeatSwallowed \/ PressSwallowed \/ PressPasses \/ EscUp \/ EscUpElsewhere \/ TickAges
      BY <1>3 DEF ModsUp, RepeatSwallowed, PressSwallowed, PressPasses, EscUp, EscUpElsewhere, TickAges,
         After, HookTyped, HooksAccounted
<1>4. CASE SyncReads
      BY <1>4, <1>a, <1>m DEF SyncReads, HookTyped, HooksAccounted
<1>5. CASE WorkerEnds
      BY <1>5, <1>a, <1>m DEF WorkerEnds, HookTyped, HooksAccounted
<1>6. CASE WakeRegistry \/ WakePoll \/ ServePress
      BY <1>6 DEF WakeRegistry, WakePoll, ServePress, HookTyped, HooksAccounted, Waiting
<1>7. CASE AwaitShown \/ AwaitTimeout \/ ProbeBusy \/ ProbeUnsure \/ Stalled
      BY <1>7 DEF AwaitShown, AwaitTimeout, ProbeBusy, ProbeUnsure, Stalled, HookTyped, HooksAccounted,
         Waiting
<1>8. CASE LaunchHandsOver \/ StopHookThread
      BY <1>8, <1>a, <1>m DEF LaunchHandsOver, StopHookThread, HookTyped, HooksAccounted
<1>9. CASE StopWorker \/ Teardown \/ StopBegins
      BY <1>9 DEF StopWorker, Teardown, StopBegins, HookTyped, HooksAccounted
<1>10. CASE RegistrationChanges \/ UiWindow \/ UiShows \/ UiHangs \/ UiRecovers
      BY <1>10, HotkeyAssumption
      DEF RegistrationChanges, UiWindow, UiShows, UiHangs, UiRecovers, HookTyped, HooksAccounted
<1>11. CASE UNCHANGED hkVars
      BY <1>11 DEF hkVars, HookTyped, HooksAccounted
<1> QED BY <1>1, <1>2, <1>3, <1>4, <1>5, <1>6, <1>7, <1>8, <1>9, <1>10, <1>11
    DEF HotkeyNext, Keyboard, Worker, Teardowns

\* A change fires the watch, and the worker reads after it armed the watch again.
LEMMA WatchStep == ASSUME HookFlags, WatchCurrent, TornDownInOrder, [HotkeyNext]_hkVars PROVE WatchCurrent'
<1>1. CASE SyncReads
      BY <1>1 DEF SyncReads, WatchCurrent, hookVars, keyVars, flags, workVars, regs, uiVars, Rest, Kept
<1>2. CASE WakeRegistry
      BY <1>2 DEF WakeRegistry, WatchCurrent, hookVars, keyVars, flags, workVars, regs, uiVars, Rest,
         Kept, WorkerRunning
<1>3. CASE WakePoll
      BY <1>3 DEF WakePoll, WatchCurrent, hookVars, keyVars, flags, workVars, regs, uiVars, Rest, Kept,
         WorkerRunning
<1>4. CASE ServePress
      BY <1>4 DEF ServePress, WatchCurrent, hookVars, keyVars, flags, workVars, regs, uiVars, Rest, Kept,
         WorkerRunning
<1>5. CASE AwaitShown
      BY <1>5 DEF AwaitShown, WatchCurrent, hookVars, keyVars, flags, workVars, regs, uiVars, Rest, Kept,
         Served
<1>6. CASE AwaitTimeout
      BY <1>6 DEF AwaitTimeout, WatchCurrent, hookVars, keyVars, flags, workVars, regs, uiVars, Rest,
         Kept, Served, WorkerRunning
<1>7. CASE ProbeBusy
      BY <1>7 DEF ProbeBusy, WatchCurrent, hookVars, keyVars, flags, workVars, regs, uiVars, Rest, Kept,
         Served, UiActive
<1>8. CASE ProbeUnsure
      BY <1>8 DEF ProbeUnsure, WatchCurrent, hookVars, keyVars, flags, workVars, regs, uiVars, Rest, Kept
<1>9. CASE Stalled
      BY <1>9 DEF Stalled, WatchCurrent, hookVars, keyVars, flags, workVars, regs, uiVars, Rest, Kept,
         Served, WorkerRunning, UiActive
<1>10. CASE WorkerEnds
      BY <1>10 DEF WorkerEnds, WatchCurrent, hookVars, keyVars, flags, workVars, regs, uiVars, Rest, Kept,
         WorkerRunning
<1>11. CASE Teardown
      BY <1>11 DEF Teardown, WatchCurrent, TornDownInOrder, hookVars, keyVars, flags, workVars, regs,
         uiVars, Rest, Kept
<1>12. CASE RegistrationChanges
      BY <1>12 DEF RegistrationChanges, WatchCurrent, hookVars, keyVars, flags, workVars, regs, uiVars,
         Rest, Kept
<1>13. CASE UNCHANGED <<armed, watch, regEv, wpc, enabled, registered, installed>>
      BY <1>13 DEF WatchCurrent
<1>14. \/ SyncReads \/ WakeRegistry \/ WakePoll \/ ServePress \/ AwaitShown \/ AwaitTimeout
      \/ ProbeBusy \/ ProbeUnsure \/ Stalled \/ WorkerEnds \/ Teardown \/ RegistrationChanges
      \/ UNCHANGED <<armed, watch, regEv, wpc, enabled, registered, installed>>
      BY DEF HotkeyNext, Keyboard, Worker, Teardowns, HookMessage, ChordDown, ModsUp,
         RepeatSwallowed, PressSwallowed, PressPasses, EscUp, EscUpElsewhere, TickAges,
         StopWorker, StopHookThread, UiWindow, UiShows, UiHangs, UiRecovers, LaunchHandsOver,
         StopBegins, hkVars, hookVars, keyVars, flags, workVars, regs, uiVars, Rest, Kept
<1> QED BY <1>1, <1>2, <1>3, <1>4, <1>5, <1>6, <1>7, <1>8, <1>9, <1>10, <1>11, <1>12, <1>13, <1>14

\* A press is claimed once, and given up only when a fresh task manager answers it.
LEMMA PressStep == ASSUME HookTyped, PressHeld, [HotkeyNext]_hkVars PROVE PressHeld'
<1>1. CASE HookMessage
  <2>1. /\ UNCHANGED <<flags, workVars, uiVars>>
        /\ UNCHANGED life \/ life' = "joined"
        BY <1>1, MessageCases
  <2> QED BY <2>1 DEF PressHeld, Waiting, flags, workVars, uiVars
<1>2. CASE PressSwallowed
      BY <1>2 DEF PressSwallowed, PressHeld, Waiting, hookVars, keyVars, flags, workVars, regs, uiVars,
         Rest, Kept, Claimable, WorkerRunning
<1>3. CASE SyncReads
      BY <1>3 DEF SyncReads, PressHeld, Waiting, hookVars, keyVars, flags, workVars, regs, uiVars, Rest,
         Kept
<1>4. CASE WakeRegistry
      BY <1>4 DEF WakeRegistry, PressHeld, Waiting, hookVars, keyVars, flags, workVars, regs, uiVars,
         Rest, Kept, WorkerRunning
<1>5. CASE WakePoll
      BY <1>5 DEF WakePoll, PressHeld, Waiting, hookVars, keyVars, flags, workVars, regs, uiVars, Rest,
         Kept, WorkerRunning
<1>6. CASE ServePress
  <2>1. life = "running" => req'
    <3>1. req' = (req \/ life = "running")
          BY <1>6 DEF ServePress
    <3> SUFFICES ASSUME life = "running" PROVE req'
        OBVIOUS
    <3>2. (req \/ life = "running") = TRUE
          OBVIOUS
    <3> HIDE DEF ServePress
    <3>3. req' = TRUE
          BY <3>1, <3>2, Zenon
    <3> QED BY <3>3
  <2> QED BY <1>6, <2>1 DEF ServePress, PressHeld, Waiting, hookVars, keyVars, regs
<1>7. CASE AwaitShown
      BY <1>7 DEF AwaitShown, PressHeld, Waiting, hookVars, keyVars, flags, workVars, regs, uiVars, Rest,
         Kept, Served
<1>8. CASE AwaitTimeout
      BY <1>8 DEF AwaitTimeout, PressHeld, Waiting, hookVars, keyVars, flags, workVars, regs, uiVars,
         Rest, Kept, Served, WorkerRunning
<1>9. CASE ProbeBusy
      BY <1>9 DEF ProbeBusy, PressHeld, Waiting, hookVars, keyVars, flags, workVars, regs, uiVars, Rest,
         Kept, Served, UiActive
<1>10. CASE ProbeUnsure
      BY <1>10 DEF ProbeUnsure, PressHeld, Waiting, hookVars, keyVars, flags, workVars, regs, uiVars, Rest,
         Kept
<1>11. CASE Stalled
      BY <1>11 DEF Stalled, PressHeld, Waiting, hookVars, keyVars, flags, workVars, regs, uiVars, Rest,
         Kept, Served, WorkerRunning, UiActive
<1>12. CASE WorkerEnds
      BY <1>12 DEF WorkerEnds, PressHeld, Waiting, hookVars, keyVars, flags, workVars, regs, uiVars, Rest,
         Kept, WorkerRunning
<1>13. CASE StopWorker
      BY <1>13 DEF StopWorker, PressHeld, Waiting, hookVars, keyVars, flags, workVars, regs, uiVars, Rest,
         Kept
<1>14. CASE StopHookThread
      BY <1>14 DEF StopHookThread, PressHeld, Waiting, hookVars, keyVars, flags, workVars, regs, uiVars,
         Rest, Kept
<1>15. CASE Teardown
      BY <1>15 DEF Teardown, PressHeld, Waiting, hookVars, keyVars, flags, workVars, regs, uiVars, Rest,
         Kept
<1>16. CASE UiWindow
      BY <1>16 DEF UiWindow, PressHeld, Waiting, hookVars, keyVars, flags, workVars, regs, uiVars, Rest,
         Kept, UiActive
<1>17. CASE UiShows
      BY <1>17 DEF UiShows, PressHeld, Waiting, hookVars, keyVars, flags, workVars, regs, uiVars, Rest,
         Kept, UiActive
<1>18. CASE StopBegins
      BY <1>18 DEF StopBegins, PressHeld, Waiting, hookVars, keyVars, flags, workVars, regs, uiVars, Rest,
         Kept, UiActive
<1>19. CASE UNCHANGED <<life, trig, busy, wpc, target, owed, req, shown, stalled>>
      BY <1>19 DEF PressHeld
<1>20. \/ HookMessage \/ PressSwallowed \/ SyncReads \/ WakeRegistry \/ WakePoll \/ ServePress
      \/ AwaitShown \/ AwaitTimeout \/ ProbeBusy \/ ProbeUnsure \/ Stalled \/ WorkerEnds
      \/ StopWorker \/ StopHookThread \/ Teardown \/ UiWindow \/ UiShows \/ StopBegins
      \/ UNCHANGED <<life, trig, busy, wpc, target, owed, req, shown, stalled>>
      BY DEF HotkeyNext, Keyboard, Worker, Teardowns, ChordDown, ModsUp, RepeatSwallowed,
         PressPasses, EscUp, EscUpElsewhere, TickAges, RegistrationChanges, UiHangs, UiRecovers,
         LaunchHandsOver, hkVars, hookVars, keyVars, flags, workVars, regs, uiVars, Rest, Kept
<1> QED BY <1>1, <1>2, <1>3, <1>4, <1>5, <1>6, <1>7, <1>8, <1>9, <1>10, <1>11, <1>12, <1>13, <1>14, <1>15,
           <1>16, <1>17, <1>18, <1>19, <1>20

\* The steps of the teardown follow one another. (HotkeyHook::drop)
LEMMA TearStep == ASSUME HookTyped, QuitAsked, TornDownInOrder, [HotkeyNext]_hkVars PROVE TornDownInOrder'
<1>c. hooks = {current, retiring} \ {0} /\ (current = 0 => retiring = 0)
      BY DEF HookTyped, HooksAccounted
<1>1. CASE HookMessage
  <2>1. UNCHANGED <<tidPublished, wpc>>
        BY <1>1, MessageCases DEF workVars
  <2>2. posts # <<>>
        BY <1>1, MessageCases
  <2>3. CASE life' = "joined" /\ SetHookOff /\ posts' = <<>> /\ Head(posts) = "quit"
    <3>1. hooks' = {}
      <4>1. CASE current = 0
            BY <1>c, <2>3, <4>1 DEF SetHookOff
      <4>2. CASE current # 0
            BY <1>c, <2>3, <4>2 DEF SetHookOff
      <4> QED BY <4>1, <4>2
    <3>2. life = "joinHook"
      <4>1. 1 \in 1..Len(posts) /\ posts[1] = "quit"
            BY <2>2, <2>3 DEF HookTyped
      <4> QED BY <4>1 DEF QuitAsked, NoQuit
    <3> QED BY <2>1, <2>3, <3>1, <3>2 DEF TornDownInOrder
  <2>4. CASE UNCHANGED life
        BY <2>1, <2>2, <2>4 DEF TornDownInOrder
  <2> QED BY <1>1, <2>3, <2>4, MessageCases
<1>2. CASE ChordDown
  <2>1. CASE hooks = {}
        BY <1>2, <2>1 DEF ChordDown, Hooked, TornDownInOrder, flags, workVars
  <2>2. CASE hooks # {}
        BY <1>2, <2>2 DEF ChordDown, TornDownInOrder, flags, workVars
  <2> QED BY <2>1, <2>2
<1>3. CASE SyncReads
      BY <1>3 DEF SyncReads, TornDownInOrder, hookVars, keyVars, flags, workVars, regs, uiVars, Rest,
         Kept
<1>4. CASE WakeRegistry
      BY <1>4 DEF WakeRegistry, TornDownInOrder, hookVars, keyVars, flags, workVars, regs, uiVars, Rest,
         Kept, WorkerRunning
<1>5. CASE WakePoll
      BY <1>5 DEF WakePoll, TornDownInOrder, hookVars, keyVars, flags, workVars, regs, uiVars, Rest, Kept,
         WorkerRunning
<1>6. CASE ServePress
      BY <1>6 DEF ServePress, TornDownInOrder, hookVars, keyVars, flags, workVars, regs, uiVars, Rest,
         Kept, WorkerRunning
<1>7. CASE AwaitShown
      BY <1>7 DEF AwaitShown, TornDownInOrder, hookVars, keyVars, flags, workVars, regs, uiVars, Rest,
         Kept, Served
<1>8. CASE AwaitTimeout
      BY <1>8 DEF AwaitTimeout, TornDownInOrder, hookVars, keyVars, flags, workVars, regs, uiVars, Rest,
         Kept, Served, WorkerRunning
<1>9. CASE ProbeBusy
      BY <1>9 DEF ProbeBusy, TornDownInOrder, hookVars, keyVars, flags, workVars, regs, uiVars, Rest,
         Kept, Served, UiActive
<1>10. CASE ProbeUnsure
      BY <1>10 DEF ProbeUnsure, TornDownInOrder, hookVars, keyVars, flags, workVars, regs, uiVars, Rest,
         Kept
<1>11. CASE Stalled
      BY <1>11 DEF Stalled, TornDownInOrder, hookVars, keyVars, flags, workVars, regs, uiVars, Rest, Kept,
         Served, WorkerRunning, UiActive
<1>12. CASE WorkerEnds
      BY <1>12 DEF WorkerEnds, TornDownInOrder, hookVars, keyVars, flags, workVars, regs, uiVars, Rest,
         Kept, WorkerRunning
<1>13. CASE LaunchHandsOver
      BY <1>13 DEF LaunchHandsOver, TornDownInOrder, hookVars, keyVars, flags, workVars, regs, uiVars,
         Rest, Kept
<1>14. CASE StopBegins
      BY <1>14 DEF StopBegins, TornDownInOrder, hookVars, keyVars, flags, workVars, regs, uiVars, Rest,
         Kept, UiActive
<1>15. CASE StopWorker
      BY <1>15 DEF StopWorker, TornDownInOrder, hookVars, keyVars, flags, workVars, regs, uiVars, Rest,
         Kept
<1>16. CASE StopHookThread
      BY <1>16 DEF StopHookThread, TornDownInOrder, hookVars, keyVars, flags, workVars, regs, uiVars, Rest,
         Kept
<1>17. CASE Teardown
      BY <1>17 DEF Teardown, TornDownInOrder, hookVars, keyVars, flags, workVars, regs, uiVars, Rest, Kept
<1>18. CASE UNCHANGED <<life, wpc, tidPublished, hooks, posts>>
      BY <1>18 DEF TornDownInOrder
<1>19. \/ HookMessage \/ ChordDown \/ SyncReads \/ WakeRegistry \/ WakePoll \/ ServePress
      \/ AwaitShown \/ AwaitTimeout \/ ProbeBusy \/ ProbeUnsure \/ Stalled \/ WorkerEnds
      \/ LaunchHandsOver \/ StopBegins \/ StopWorker \/ StopHookThread \/ Teardown
      \/ UNCHANGED <<life, wpc, tidPublished, hooks, posts>>
      BY DEF HotkeyNext, Keyboard, Worker, Teardowns, ModsUp, RepeatSwallowed, PressSwallowed,
         PressPasses, EscUp, EscUpElsewhere, TickAges, RegistrationChanges, UiWindow, UiShows,
         UiHangs, UiRecovers, hkVars, hookVars, keyVars, flags, workVars, regs, uiVars, Rest,
         Kept
<1> QED BY <1>1, <1>2, <1>3, <1>4, <1>5, <1>6, <1>7, <1>8, <1>9, <1>10, <1>11, <1>12, <1>13, <1>14, <1>15,
           <1>16, <1>17, <1>18, <1>19

\* A press that passes wipes the mark of an earlier one, and so does the removal of
\* the hook. (low_level_keyboard_proc, set_hook)
LEMMA MarkStep == ASSUME HookTyped, MarkIsOfSwallowed, [HotkeyNext]_hkVars PROVE MarkIsOfSwallowed'
<1>h. /\ hooks = {current, retiring} \ {0} /\ current \in 0..3 /\ retiring \in 0..3
      /\ current # retiring \/ current = 0
      /\ current = 0 => retiring = 0
      BY DEF HookTyped, HooksAccounted
<1>1. CASE HookMessage
  <2>1. UNCHANGED press
        BY <1>1, MessageCases
  <2>2. CASE SetHookOn
        BY <1>h, <2>1, <2>2 DEF SetHookOn, MarkIsOfSwallowed
  <2>3. CASE SetHookOff
        BY <1>h, <2>1, <2>3 DEF SetHookOff, MarkIsOfSwallowed
  <2>4. CASE hooks' = hooks \ {retiring} /\ UNCHANGED consumed
    <3>1. hooks' = {} => hooks = {}
          BY <1>h, <2>4
    <3> QED BY <2>1, <2>4, <3>1 DEF MarkIsOfSwallowed
  <2>5. CASE BeginMove(hooks \ {retiring}, 0, Tail(posts)) /\ UNCHANGED consumed
    <3>1. hooks' = {} => hooks = {}
          BY <1>h, <2>5 DEF BeginMove
    <3> QED BY <2>1, <2>5, <3>1 DEF MarkIsOfSwallowed
  <2> QED BY <1>1, <2>2, <2>3, <2>4, <2>5, MessageCases
<1>2. CASE ChordDown
  <2>1. hooks' = {} => hooks = {}
        BY <1>2 DEF ChordDown, BeginMove
  <2> QED BY <1>2, <2>1 DEF ChordDown, MarkIsOfSwallowed
<1>3. CASE RepeatSwallowed
      BY <1>3 DEF RepeatSwallowed, MarkIsOfSwallowed, Hooked, After, Repeats, hookVars
<1>4. CASE PressSwallowed
      BY <1>4 DEF PressSwallowed, MarkIsOfSwallowed, Hooked, After, Repeats, hookVars
<1>5. CASE PressPasses
      BY <1>5 DEF PressPasses, MarkIsOfSwallowed, Hooked, After, Repeats, hookVars
<1>6. CASE EscUp
      BY <1>6 DEF EscUp, MarkIsOfSwallowed, Hooked, After, Repeats, hookVars
<1>7. CASE EscUpElsewhere
      BY <1>7 DEF EscUpElsewhere, MarkIsOfSwallowed, Hooked, After, Repeats, hookVars
<1>8. CASE Teardown
      BY <1>8 DEF Teardown, MarkIsOfSwallowed, Hooked, After, Repeats, hookVars
<1>9. CASE UNCHANGED <<hooks, consumed, press>>
      BY <1>9 DEF MarkIsOfSwallowed
<1>10. \/ HookMessage \/ ChordDown \/ RepeatSwallowed \/ PressSwallowed \/ PressPasses \/ EscUp
      \/ EscUpElsewhere \/ Teardown
      \/ UNCHANGED <<hooks, consumed, press>>
      BY DEF HotkeyNext, Keyboard, Worker, Teardowns, ModsUp, TickAges, SyncReads, WakeRegistry,
         WakePoll, ServePress, AwaitShown, AwaitTimeout, ProbeBusy, ProbeUnsure, Stalled,
         WorkerEnds, StopWorker, StopHookThread, RegistrationChanges, UiWindow, UiShows, UiHangs,
         UiRecovers, LaunchHandsOver, StopBegins, hkVars, hookVars, keyVars, flags, workVars,
         regs, uiVars, Rest, Kept
<1> QED BY <1>1, <1>2, <1>3, <1>4, <1>5, <1>6, <1>7, <1>8, <1>9, <1>10

\* What a message taken from the queue, or put into it, means for the removal of the
\* hook. (cmd queue of hook_thread)
LEMMA RemovesTail ==
    ASSUME NEW q \in Seq(Messages), q # <<>>, NEW c, NEW d, Removes(q, c),
           d # 0 => c # 0 \/ Head(q) = "on", Head(q) = "off" => d = 0
    PROVE  Removes(Tail(q), d)
<1>1. Len(q) \in Nat /\ Len(q) # 0 /\ Len(Tail(q)) = Len(q) - 1
      BY DEF Messages
<1>2. \A i \in 1..Len(Tail(q)) : Tail(q)[i] = q[i + 1]
      BY DEF Messages
<1>3. Head(q) = q[1]
      OBVIOUS
<1>4. ASSUME d # 0 PROVE \E j \in 1..Len(Tail(q)) : Tail(q)[j] = "off"
  <2>1. q[1] # "off"
        BY <1>3, <1>4
  <2>2. PICK j \in 1..Len(q) : q[j] = "off" /\ j # 1
        BY <1>1, <1>3, <1>4, <2>1 DEF Removes
  <2>3. j - 1 \in 1..Len(Tail(q)) /\ Tail(q)[j - 1] = q[j]
        BY <1>1, <1>2, <2>2
  <2> QED BY <2>2, <2>3
<1>5. ASSUME NEW i \in 1..Len(Tail(q)), Tail(q)[i] = "on"
      PROVE  \E j \in 1..Len(Tail(q)) : i < j /\ Tail(q)[j] = "off"
  <2>1. i + 1 \in 1..Len(q) /\ q[i + 1] = "on"
        BY <1>1, <1>2, <1>5
  <2>2. PICK j \in 1..Len(q) : i + 1 < j /\ q[j] = "off"
        BY <2>1 DEF Removes
  <2>3. j - 1 \in 1..Len(Tail(q)) /\ i < j - 1 /\ Tail(q)[j - 1] = q[j]
        BY <1>1, <1>2, <2>2
  <2> QED BY <2>2, <2>3
<1> QED BY <1>4, <1>5 DEF Removes

LEMMA RemovesAppend ==
    ASSUME NEW q \in Seq(Messages), NEW m \in Messages, NEW c, NEW d,
           \/ m = "off"
           \/ m # "on" /\ Removes(q, c) /\ (d # 0 => c # 0)
    PROVE  Removes(Append(q, m), d)
<1> DEFINE qm == Append(q, m)
<1>1. Len(q) \in Nat /\ Len(qm) = Len(q) + 1
      BY DEF Messages
<1>2. qm[Len(q) + 1] = m /\ \A i \in 1..Len(q) : qm[i] = q[i]
      BY DEF Messages
<1> HIDE DEF qm
<1>3. CASE m = "off"
  <2>1. Len(q) + 1 \in 1..Len(qm)
        BY <1>1
  <2>2. \A i \in 1..Len(qm) : qm[i] = "on" => i < Len(q) + 1
        BY <1>1, <1>2, <1>3
  <2>3. Removes(qm, d)
        BY <1>2, <1>3, <2>1, <2>2 DEF Removes
  <2> QED BY <2>3 DEF qm
<1>4. CASE m # "on" /\ Removes(q, c) /\ (d # 0 => c # 0)
  <2>1. d # 0 => \E j \in 1..Len(qm) : qm[j] = "off"
        BY <1>1, <1>2, <1>4 DEF Removes
  <2>2. ASSUME NEW i \in 1..Len(qm), qm[i] = "on"
        PROVE  \E j \in 1..Len(qm) : i < j /\ qm[j] = "off"
    <3>1. i \in 1..Len(q)
          BY <1>1, <1>2, <1>4, <2>2
    <3>2. PICK j \in 1..Len(q) : i < j /\ q[j] = "off"
          BY <1>2, <1>4, <2>2, <3>1 DEF Removes
    <3> QED BY <1>1, <1>2, <3>2
  <2>3. Removes(qm, d)
        BY <2>1, <2>2 DEF Removes
  <2> QED BY <2>3 DEF qm
<1> QED BY <1>3, <1>4

\* A hook that is not wanted has its removal in the queue until it is gone.
\* (sync_hook_state, set_hook)
LEMMA GoesStep == ASSUME HookTyped, HookGoes, [HotkeyNext]_hkVars PROVE HookGoes'
<1> USE DEF HookGoes
<1>t. /\ posts \in Seq(Messages) /\ {"on", "off", "retire", "front", "quit"} = Messages
      BY DEF HookTyped, Messages
<1>1. CASE HookMessage
  <2>1. UNCHANGED <<wpc, installed>>
        BY <1>1, MessageCases DEF workVars
  <2>2. posts # <<>>
        BY <1>1, MessageCases
  <2>3. CASE Head(posts) = "on" /\ posts' = Tail(posts)
        BY <1>t, <2>1, <2>2, <2>3, RemovesTail
  <2>4. CASE Head(posts) = "off" /\ SetHookOff /\ posts' = Tail(posts)
    <3>1. current' = 0
          BY <2>4 DEF SetHookOff
    <3> QED BY <1>t, <2>1, <2>2, <2>4, <3>1, RemovesTail
  <2>5. CASE Head(posts) = "retire" /\ posts' = Tail(posts) /\ UNCHANGED current
        BY <1>t, <2>1, <2>2, <2>5, RemovesTail
  <2>6. CASE Head(posts) = "front" /\ BeginMove(hooks \ {retiring}, 0, Tail(posts))
    <3>1. Tail(posts) \in Seq(Messages)
          BY <1>1, MessageCases
    <3>2. /\ current' # 0 <=> current # 0
          /\ posts' = Tail(posts) \/ posts' = Append(Tail(posts), "retire")
          BY <2>6, <3>1, MoveKeeps
    <3>3. Removes(posts, current) => Removes(Tail(posts), current)
          BY <1>t, <2>2, <2>6, RemovesTail
    <3>4. Removes(posts, current) => Removes(Tail(posts), current')
          BY <3>2, <3>3 DEF Removes
    <3>5. Removes(Tail(posts), current) => Removes(Append(Tail(posts), "retire"), current')
          BY <1>t, <3>1, <3>2, RemovesAppend
    <3> QED BY <2>1, <3>2, <3>3, <3>4, <3>5
  <2>7. CASE SetHookOff /\ posts' = <<>>
    <3>1. current' = 0 /\ Len(posts') = 0
          BY <2>7 DEF SetHookOff
    <3> QED BY <3>1 DEF Removes
  <2> QED BY <1>1, <2>3, <2>4, <2>5, <2>6, <2>7, MessageCases
<1>2. CASE ChordDown
  <2>1. UNCHANGED <<wpc, installed>>
        BY <1>2 DEF ChordDown, workVars
  <2>2. CASE BeginMove(hooks, retiring, posts)
    <3>1. /\ current' # 0 <=> current # 0
          /\ posts' = posts \/ posts' = Append(posts, "retire")
          BY <1>t, <2>2, MoveKeeps
    <3>2. Removes(posts, current) => Removes(posts, current')
          BY <3>1 DEF Removes
    <3>3. Removes(posts, current) => Removes(Append(posts, "retire"), current')
          BY <1>t, <3>1, RemovesAppend
    <3> QED BY <2>1, <3>1, <3>2, <3>3
  <2>3. CASE UNCHANGED <<current, posts>>
        BY <2>1, <2>3
  <2> QED BY <1>2, <2>2, <2>3 DEF ChordDown
<1>3. CASE SyncReads
  <2>1. UNCHANGED current /\ wpc # "ended"
        BY <1>3 DEF SyncReads, Rest
  <2>2. CASE UNCHANGED <<installed, posts>>
        BY <2>1, <2>2
  <2>3. CASE installed' = registered /\ RequestHook(registered)
    <3>1. ~installed' => posts' = Append(posts, "off")
      <4> SUFFICES ASSUME ~installed' PROVE posts' = Append(posts, "off")
          OBVIOUS
      <4>1. ~registered
            BY <2>3, Zenon
      <4> QED BY <2>3, <4>1 DEF RequestHook
    <3>2. Removes(Append(posts, "off"), current')
      <4>1. "off" \in Messages
            BY <1>t
      <4> QED BY <1>t, <4>1, RemovesAppend
    <3> QED BY <3>1, <3>2
  <2> QED BY <1>3, <2>2, <2>3 DEF SyncReads
<1>4. CASE WorkerEnds
      BY <1>4 DEF WorkerEnds
<1>5. CASE LaunchHandsOver
  <2>1. posts' = Append(posts, "front") /\ UNCHANGED <<current, wpc, installed>>
        BY <1>5 DEF LaunchHandsOver, workVars
  <2> QED BY <1>t, <2>1, RemovesAppend
<1>6. CASE StopHookThread
      BY <1>6 DEF StopHookThread, workVars
<1>7. CASE UNCHANGED <<current, posts, installed>> /\ (wpc = "ended" => wpc' = "ended")
      BY <1>7
<1>8. \/ HookMessage \/ ChordDown \/ SyncReads \/ WorkerEnds \/ LaunchHandsOver
      \/ StopHookThread
      \/ UNCHANGED <<current, posts, installed>> /\ (wpc = "ended" => wpc' = "ended")
      BY DEF HotkeyNext, Keyboard, Worker, Teardowns, ModsUp, RepeatSwallowed, PressSwallowed,
         PressPasses, EscUp, EscUpElsewhere, TickAges, WakeRegistry, WakePoll, ServePress,
         AwaitShown, AwaitTimeout, ProbeBusy, ProbeUnsure, Stalled, StopWorker, Teardown,
         RegistrationChanges, UiWindow, UiShows, UiHangs, UiRecovers, StopBegins, hkVars, Served,
         hookVars, keyVars, flags, workVars, regs, uiVars, Rest, Kept
<1> QED BY <1>1, <1>2, <1>3, <1>4, <1>5, <1>6, <1>7, <1>8

\* Only the end of the handle asks the hook thread to quit. (HotkeyHook::drop)
LEMMA QuitStep == ASSUME HookTyped, QuitAsked, [HotkeyNext]_hkVars PROVE QuitAsked'
<1> USE DEF QuitAsked
<1>t. /\ posts \in Seq(Messages) /\ {"on", "off", "retire", "front", "quit"} = Messages
      BY DEF HookTyped, Messages
<1>a. ASSUME NEW q \in Seq(Messages), NEW m \in Messages \ {"quit"}, NoQuit(q) PROVE NoQuit(Append(q, m))
      BY <1>a DEF NoQuit, Messages
<1>b. ASSUME NEW q \in Seq(Messages), q # <<>>, NoQuit(q) PROVE NoQuit(Tail(q)) /\ Head(q) # "quit"
      BY <1>b DEF NoQuit, Messages
<1>1. CASE HookMessage
  <2>0. posts # <<>> /\ Tail(posts) \in Seq(Messages)
        BY <1>1, MessageCases
  <2>1. CASE posts' = Tail(posts) /\ UNCHANGED life
        BY <1>t, <1>b, <2>0, <2>1
  <2>2. CASE BeginMove(hooks \ {retiring}, 0, Tail(posts)) /\ UNCHANGED life
    <3>1. posts' = Tail(posts) \/ posts' = Append(Tail(posts), "retire")
          BY <2>0, <2>2, MoveKeeps
    <3> QED BY <1>t, <1>a, <1>b, <2>0, <2>2, <3>1
  <2>3. CASE posts' = <<>>
        BY <2>3 DEF NoQuit
  <2> QED BY <1>1, <2>1, <2>2, <2>3, MessageCases
<1>2. CASE ChordDown
  <2>1. UNCHANGED life
        BY <1>2 DEF ChordDown
  <2>2. posts' = posts \/ posts' = Append(posts, "retire")
        BY <1>t, <1>2, MoveKeeps DEF ChordDown
  <2> QED BY <1>t, <1>a, <2>1, <2>2
<1>3. CASE SyncReads \/ WorkerEnds \/ LaunchHandsOver
  <2>1. UNCHANGED life
        BY <1>3 DEF SyncReads, WorkerEnds, LaunchHandsOver, Rest
  <2>2. posts' = posts \/ posts' = Append(posts, "on") \/ posts' = Append(posts, "off")
           \/ posts' = Append(posts, "front")
        BY <1>3 DEF SyncReads, WorkerEnds, LaunchHandsOver, RequestHook
  <2> QED BY <1>t, <1>a, <2>1, <2>2
<1>4. CASE StopHookThread
      BY <1>4 DEF StopHookThread
<1>5. CASE UNCHANGED posts /\ life' \in {life, "closing", "joinWorker", "closed"} /\ life # "joinHook"
      BY <1>5 DEF NoQuit
<1>6. CASE UNCHANGED <<posts, life>>
      BY <1>6
<1>7. \/ HookMessage \/ ChordDown \/ SyncReads \/ WorkerEnds \/ LaunchHandsOver \/ StopHookThread
      \/ UNCHANGED posts /\ life' \in {life, "closing", "joinWorker", "closed"} /\ life # "joinHook"
      \/ UNCHANGED <<posts, life>>
      BY DEF HotkeyNext, Keyboard, Worker, Teardowns, ModsUp, RepeatSwallowed, PressSwallowed,
         PressPasses, EscUp, EscUpElsewhere, TickAges, WakeRegistry, WakePoll, ServePress,
         AwaitShown, AwaitTimeout, ProbeBusy, ProbeUnsure, Stalled, StopWorker, Teardown,
         RegistrationChanges, UiWindow, UiShows, UiHangs, UiRecovers, StopBegins, hkVars,
         UiActive, hookVars, keyVars, flags, workVars, regs, uiVars, Rest, Kept
<1> QED BY <1>1, <1>2, <1>3, <1>4, <1>5, <1>6, <1>7

\* The length of a queue is a number.
LEMMA LenInNat == ASSUME NEW S, NEW q \in Seq(S) PROVE Len(q) \in Nat
  OBVIOUS

\* Two names make at most two copies.
LEMMA PairAtMostTwo == ASSUME NEW S, NEW x, NEW y, S \subseteq {x, y} PROVE Cardinality(S) <= 2
<1>0. {x, y} = {x} \cup {y}
      OBVIOUS
<1>1. IsFiniteSet({x}) /\ Cardinality({x}) = 1
      BY FS_Singleton
<1>a. IsFiniteSet({x, y})
      BY <1>0, <1>1, FS_AddElement
<1>2. Cardinality({x, y}) <= 2
  <2>1. Cardinality({x} \cup {y}) = 1 \/ Cardinality({x} \cup {y}) = 1 + 1
        BY <1>1, FS_AddElement
  <2> QED BY <1>0, <2>1
<1>3. Cardinality(S) <= Cardinality({x, y}) /\ Cardinality(S) \in Nat /\ Cardinality({x, y}) \in Nat
      BY <1>a, FS_Subset, FS_CardinalityType
<1> QED BY <1>2, <1>3

\* The queue of the hook thread grows by what it can still be asked, and no more.
\* (begin_move_to_front, sync_hook_state, HotkeyHook::drop)
LEMMA BoundStep ==
    ASSUME HookTyped, HookFlags, QueueBounded, [HotkeyNext]_hkVars
    PROVE  QueueBounded'
<1> DEFINE differ == registered # installed
           n == Len(posts)
<1> USE HotkeyAssumption DEF Fits, Past
<1>t. /\ posts \in Seq(Messages) /\ {"on", "off", "retire", "front", "quit"} = Messages
      /\ changes \in 0..MaxChanges
      BY DEF HookTyped, Messages
<1>l. n \in Nat
      BY <1>t, Zenon, LenInNat DEF Messages
<1>q. ASSUME NEW q \in Seq(Messages)
      PROVE  /\ Len(q) \in Nat
             /\ q # <<>> => Len(Tail(q)) = Len(q) - 1
             /\ \A m \in Messages : Len(Append(q, m)) = Len(q) + 1
      BY DEF Messages
<1>0. Fits(n, retiring, differ)
      BY DEF QueueBounded
<1>1. CASE HookMessage
  <2>0. posts # <<>> /\ Tail(posts) \in Seq(Messages)
        BY <1>1, MessageCases
  <2>1. UNCHANGED <<wpc, installed, registered, changes>>
        BY <1>1, MessageCases DEF workVars, regs
  <2>2. differ' <=> differ
        BY <2>1
  <2>3. Len(Tail(posts)) = n - 1 /\ n # 0
        BY <1>q, <1>t, <2>0
  <2>4. CASE posts' = Tail(posts) /\ UNCHANGED life
    <3>2. n' = n - 1
          BY <2>3, <2>4
    <3> HIDE DEF differ, n
    <3>1. Fits(n, retiring, differ)'
          BY <1>0, <1>l, <1>t, <2>1, <2>2, <2>4, <3>2
    <3> QED BY <3>1 DEF QueueBounded, differ, n
  <2>5. CASE BeginMove(hooks \ {retiring}, 0, Tail(posts)) /\ UNCHANGED life
    <3>1. \/ posts' = Tail(posts)
          \/ posts' = Append(Tail(posts), "retire") /\ retiring' # 0
          BY <2>0, <2>5, MoveKeeps
    <3>2. Len(Append(Tail(posts), "retire")) = Len(Tail(posts)) + 1
          BY <1>q, <1>t, <2>0
    <3>3. \/ n' = n - 1
          \/ n' = n /\ retiring' # 0
      <4>1. Len(Append(Tail(posts), "retire")) = n
            BY <1>l, <2>3, <3>2
      <4> QED BY <2>3, <3>1, <4>1
    <3> HIDE DEF differ, n
    <3>4. Fits(n, retiring, differ)'
          BY <1>0, <1>l, <1>t, <2>1, <2>2, <2>5, <3>3
    <3> QED BY <3>4 DEF QueueBounded, differ, n
  <2>6. CASE posts' = <<>> /\ life' = "joined"
    <3>1. n' = 0
          BY <2>6
    <3> HIDE DEF differ, n
    <3>2. Fits(n, retiring, differ)'
          BY <1>t, <2>1, <2>6, <3>1
    <3> QED BY <3>2 DEF QueueBounded, differ, n
  <2> QED BY <1>1, <2>4, <2>5, <2>6, MessageCases
<1>2. CASE ChordDown
  <2>1. UNCHANGED <<wpc, installed, registered, changes, life>>
        BY <1>2 DEF ChordDown, workVars, regs
  <2>2. differ' <=> differ
        BY <2>1
  <2>3. \/ posts' = posts /\ retiring' = retiring
        \/ posts' = Append(posts, "retire") /\ retiring' # 0 /\ retiring = 0
        BY <1>2, <1>t, MoveKeeps DEF ChordDown
  <2>4. \/ n' = n /\ retiring' = retiring
        \/ n' = n + 1 /\ retiring' # 0 /\ retiring = 0
    <3>1. Len(Append(posts, "retire")) = n + 1
          BY <1>q, <1>t
    <3> QED BY <2>3, <3>1
  <2> HIDE DEF differ, n
  <2>5. Fits(n, retiring, differ)'
        BY <1>0, <1>l, <1>t, <2>1, <2>2, <2>4
  <2> QED BY <2>5 DEF QueueBounded, differ, n
<1>3. CASE SyncReads
  <2>1. UNCHANGED <<registered, changes, life, retiring>> /\ wpc # "ended" /\ wpc' # "ended"
        BY <1>3 DEF SyncReads, Rest
  <2>2. CASE registered = installed /\ UNCHANGED <<installed, posts>>
    <3>1. (differ' <=> differ) /\ n' = n
          BY <2>1, <2>2
    <3> HIDE DEF differ, n
    <3>2. Fits(n, retiring, differ)'
          BY <1>0, <1>l, <1>t, <2>1, <2>2, <3>1
    <3> QED BY <3>2 DEF QueueBounded, differ, n
  <2>3. CASE registered # installed /\ installed' = registered /\ RequestHook(registered)
    <3>1. differ /\ ~differ'
          BY <2>1, <2>3
    <3>2. posts' = Append(posts, "on") \/ posts' = Append(posts, "off")
          BY <2>3 DEF RequestHook
    <3>3. n' = n + 1
          BY <1>q, <1>t, <3>2
    <3> HIDE DEF differ, n
    <3>4. Fits(n, retiring, differ)'
          BY <1>0, <1>l, <1>t, <2>1, <3>1, <3>3
    <3> QED BY <3>4 DEF QueueBounded, differ, n
  <2> QED BY <1>3, <2>2, <2>3 DEF SyncReads
<1>4. CASE RegistrationChanges
  <2>1. UNCHANGED <<posts, retiring, wpc, life>> /\ changes' = changes + 1
        BY <1>4 DEF RegistrationChanges, hookVars, workVars
  <2>2. n' = n
        BY <2>1
  <2> HIDE DEF differ, n
  <2>3. Fits(n, retiring, differ)'
        BY <1>0, <1>l, <1>t, <2>1, <2>2
  <2> QED BY <2>3 DEF QueueBounded, differ, n
<1>5. CASE LaunchHandsOver
  <2>1. posts' = Append(posts, "front") /\ n < MaxPosts /\ UNCHANGED <<changes, wpc, life>>
        BY <1>5 DEF LaunchHandsOver, CanPost, workVars, regs
  <2>2. n' = n + 1
        BY <1>q, <1>t, <2>1
  <2> HIDE DEF differ, n
  <2>3. Fits(n, retiring, differ)'
        BY <1>l, <1>t, <2>1, <2>2
  <2> QED BY <2>3 DEF QueueBounded, differ, n
<1>6. CASE WorkerEnds
  <2>1. /\ UNCHANGED <<installed, registered, changes, life, retiring>>
        /\ wpc # "ended" /\ wpc' = "ended"
        BY <1>6 DEF WorkerEnds, regs
  <2>2. posts' = posts \/ posts' = Append(posts, "off")
        BY <1>6 DEF WorkerEnds, RequestHook
  <2>3. n' = n \/ n' = n + 1
        BY <1>l, <1>q, <1>t, <2>2
  <2>4. differ' <=> differ
        BY <2>1
  <2> HIDE DEF differ, n
  <2>5. Fits(n, retiring, differ)'
        BY <1>0, <1>l, <1>t, <2>1, <2>3, <2>4
  <2> QED BY <2>5 DEF QueueBounded, differ, n
<1>7. CASE StopHookThread
  <2>1. /\ UNCHANGED <<wpc, installed, registered, changes, retiring>>
        /\ life = "joinWorker" /\ life' = "joinHook" /\ posts' = Append(posts, "quit")
        BY <1>7 DEF StopHookThread, workVars, regs
  <2>2. n' = n + 1
        BY <1>q, <1>t, <2>1
  <2>3. differ' <=> differ
        BY <2>1
  <2> HIDE DEF differ, n
  <2>4. Fits(n, retiring, differ)'
        BY <1>0, <1>l, <1>t, <2>1, <2>2, <2>3
  <2> QED BY <2>4 DEF QueueBounded, differ, n
<1>8. CASE /\ UNCHANGED <<posts, retiring, installed, registered, changes>>
           /\ wpc = "ended" => wpc' = "ended"
           /\ life \in Past => life' \in Past
  <2>1. (differ' <=> differ) /\ n' = n
        BY <1>8
  <2> HIDE DEF differ, n
  <2>2. Fits(n, retiring, differ)'
        BY <1>0, <1>l, <1>t, <1>8, <2>1
  <2> QED BY <2>2 DEF QueueBounded, differ, n
<1>9. \/ HookMessage \/ ChordDown \/ SyncReads \/ RegistrationChanges \/ LaunchHandsOver
      \/ WorkerEnds \/ StopHookThread
      \/ /\ UNCHANGED <<posts, retiring, installed, registered, changes>>
         /\ wpc = "ended" => wpc' = "ended"
         /\ life \in Past => life' \in Past
      BY DEF HotkeyNext, Keyboard, Worker, Teardowns, ModsUp, RepeatSwallowed, PressSwallowed,
         PressPasses, EscUp, EscUpElsewhere, TickAges, WakeRegistry, WakePoll, ServePress,
         AwaitShown, AwaitTimeout, ProbeBusy, ProbeUnsure, Stalled, StopWorker, Teardown,
         UiWindow, UiShows, UiHangs, UiRecovers, StopBegins, hkVars, Served, UiActive, hookVars,
         keyVars, flags, workVars, regs, uiVars, Rest, Kept
<1> QED BY <1>1, <1>2, <1>3, <1>4, <1>5, <1>6, <1>7, <1>8, <1>9

LEMMA HookIndStep == HookInd /\ [HotkeyNext]_hkVars => HookInd'
  BY HookTypedStep, HookFlagsStep, BoundStep, GoesStep, WatchStep, PressStep, TearStep, QuitStep, MarkStep
  DEF HookInd

\* What the parts say of the hook. (hotkey_hook.rs)
LEMMA HookIndSafe == HookInd => HookInv
<1> SUFFICES ASSUME HookInd PROVE HookInv
    OBVIOUS
<1> USE DEF HookInd
<1>1. HotkeyTypeOK
  <2>1. hooks \subseteq {current, retiring} /\ hooks \subseteq 1..3
        BY DEF HookTyped, HooksAccounted
  <2>2. Cardinality(hooks) <= 2
        BY <2>1, PairAtMostTwo
  <2>3. Len(posts) <= MaxPosts + MaxChanges + 4
    <3> DEFINE n == Len(posts)
               differ == registered # installed
    <3>1. n \in Nat
          BY LenInNat, Zenon DEF HookTyped, Messages
    <3>2. Fits(n, retiring, differ) /\ changes \in 0..MaxChanges
          BY DEF QueueBounded, HookTyped
    <3> HIDE DEF n, differ
    <3>3. n <= MaxPosts + MaxChanges + 4
          BY <3>1, <3>2, HotkeyAssumption DEF Fits
    <3> QED BY <3>3 DEF n
  <2> QED BY <2>1, <2>2, <2>3 DEF HookTyped, HotkeyTypeOK, Waiting
<1>2. HooksAccounted
      BY DEF HookTyped
<1>3. NothingAfterTeardown
      BY DEF TornDownInOrder, NothingAfterTeardown
<1>4. PressAnswered
  <2> SUFFICES ASSUME owed, life = "running", ~trig, wpc \notin Waiting
               PROVE  req /\ ~stalled
      BY DEF PressAnswered, Waiting
  <2> QED BY DEF PressHeld
<1>5. HookFollowsRegistration
  <2> SUFFICES ASSUME wpc = "wait", armed, ~regEv
               PROVE  /\ enabled = registered /\ installed = registered
                      /\ posts = <<>> /\ current # 0 => registered
      BY DEF HookFollowsRegistration
  <2>1. enabled = registered /\ installed = registered
        BY DEF WatchCurrent
  <2>2. ASSUME posts = <<>>, current # 0 PROVE installed
    <3>1. Len(posts) = 0
          BY <2>2
    <3> QED BY <2>2, <3>1 DEF HookGoes, Removes
  <2>3. installed => registered
        BY <2>1, Zenon
  <2> QED BY <2>1, <2>2, <2>3
<1> QED BY <1>1, <1>2, <1>3, <1>4, <1>5 DEF HookInv

\* However keys, moves of the hook, registration changes, a hanging window and the
\* teardown interleave: every copy of the hook is known and removed, nothing outlives the
\* handle, a swallowed press is answered, a passed one is released, and the hook follows
\* the registration. (hotkey_hook.rs)
THEOREM HookIsSafe == HotkeySpec => HookSafe
<1>1. HookInd /\ HotkeyNext /\ esc /\ ~esc' /\ press = "passed" => ~appEsc'
  <2> SUFFICES ASSUME HookInd, HotkeyNext, esc, ~esc', press = "passed" PROVE ~appEsc'
      OBVIOUS
  <2>1. EscUp \/ EscUpElsewhere
        BY DEF HotkeyNext, Keyboard, Worker, Teardowns, HookMessage, ChordDown, ModsUp, RepeatSwallowed,
               PressSwallowed, PressPasses, TickAges, SyncReads,
           WakeRegistry, WakePoll, ServePress, AwaitShown, AwaitTimeout, ProbeBusy, ProbeUnsure,
           Stalled, WorkerEnds, StopWorker, StopHookThread, Teardown, RegistrationChanges,
           UiWindow, UiShows, UiHangs, UiRecovers, LaunchHandsOver, StopBegins, hkVars, hookVars,
           keyVars, flags, workVars, regs, uiVars, Rest, Kept
  <2>2. ~consumed
        BY DEF HookInd, MarkIsOfSwallowed
  <2>3. EscUp => appEsc' = FALSE
    <3> SUFFICES ASSUME EscUp PROVE appEsc' = FALSE
        OBVIOUS
    <3>1. appEsc' = (appEsc /\ Hooked /\ Repeats)
          BY DEF EscUp
    <3>2. (appEsc /\ Hooked /\ Repeats) = FALSE
          BY <2>2 DEF Repeats
    <3> QED BY <3>1, <3>2, Zenon
  <2> QED BY <2>1, <2>3 DEF EscUpElsewhere
<1>2. HookInd /\ [HotkeyNext]_hkVars => [esc /\ ~esc' /\ press = "passed" => ~appEsc']_hkVars
      BY <1>1
<1> QED BY <1>2, HookInit, HookIndStep, HookIndSafe, PTL DEF HotkeySpec, HookSafe, PassedPressReleased

-----------------------------------------------------------------------------
(* The Debugger value of taskmgr.exe.                                       *)

\* What a helper that nobody raced knows of the value: it is still what it read, and
\* once suspended it is gone. (launch_native_task_manager_direct)
Calm(h) ==
    ~intruded[h] =>
        /\ hpc[h] = "act" => reg = seen[h]
        /\ hpc[h] \in {"launch", "restore"} => reg = "absent" /\ op[h] = "native"
        /\ hpc[h] = "launch" => seen[h] = "absent" \/ Owned(seen[h])
        /\ hpc[h] = "done" /\ op[h] = "native" => reg = seen[h]
Undisturbed == \A h \in Helpers : Calm(h)

RegInv == RegTypeOK /\ Undisturbed

\* Nobody has started. (taskmgr_replacement.rs)
LEMMA RegInvInit == RegInit => RegInv
  BY ReplacementAssumption DEF RegInit, RegInv, RegTypeOK, Undisturbed, Calm, Values, Owned

\* A write by one helper or by the rival disturbs every other helper.
LEMMA HelperStepInv == ASSUME RegInv, NEW h \in Helpers, HelperStep(h) PROVE RegInv'
<1> USE ReplacementAssumption DEF RegTypeOK, Values, Owned, Conflict, Finish, WritesBy
<1>0. RegTypeOK /\ Calm(h)
      BY DEF RegInv, Undisturbed
\* Nobody else moves, and who is not disturbed finds the value as it was.
<1>k. ASSUME RegTypeOK', Calm(h)',
             \A g \in Helpers \ {h} : /\ hpc'[g] = hpc[g] /\ op'[g] = op[g] /\ seen'[g] = seen[g]
                                      /\ intruded'[g] \/ (intruded'[g] = intruded[g] /\ reg' = reg)
      PROVE  RegInv'
      BY <1>k DEF RegInv, Undisturbed, Calm
<1>1. ASSUME NEW o \in {"enable", "disable", "cleanup", "native"}, Begin(h, o) PROVE RegInv'
  <2>1. RegTypeOK'
        BY <1>0, <1>1 DEF Begin
  <2>2. Calm(h)'
        BY <1>0, <1>1 DEF Begin, Calm
  <2> QED BY <1>0, <1>k, <1>1, <2>1, <2>2 DEF Begin
<1>2. CASE Enable(h)
  <2>1. RegTypeOK'
        BY <1>0, <1>2 DEF Enable
  <2>2. Calm(h)'
        BY <1>0, <1>2 DEF Enable, Calm
  <2>3. /\ \E k \in {"launch", "done", "failed"} : hpc' = [hpc EXCEPT ![h] = k]
        /\ UNCHANGED <<op, seen>>
        BY <1>2 DEF Enable
  <2>4. UNCHANGED <<reg, intruded>> \/ intruded' = [g \in Helpers |-> IF g = h THEN intruded[g] ELSE TRUE]
        BY <1>2 DEF Enable
  <2>5. ASSUME NEW g \in Helpers \ {h}
        PROVE  /\ hpc'[g] = hpc[g] /\ op'[g] = op[g] /\ seen'[g] = seen[g]
               /\ intruded'[g] \/ (intruded'[g] = intruded[g] /\ reg' = reg)
        BY <1>0, <2>3, <2>4
  <2> QED BY <1>k, <2>1, <2>2, <2>5
<1>3. CASE Disable(h)
  <2>1. RegTypeOK'
        BY <1>0, <1>3 DEF Disable
  <2>2. Calm(h)'
        BY <1>0, <1>3 DEF Disable, Calm
  <2>3. /\ \E k \in {"launch", "done", "failed"} : hpc' = [hpc EXCEPT ![h] = k]
        /\ UNCHANGED <<op, seen>>
        BY <1>3 DEF Disable
  <2>4. UNCHANGED <<reg, intruded>> \/ intruded' = [g \in Helpers |-> IF g = h THEN intruded[g] ELSE TRUE]
        BY <1>3 DEF Disable
  <2>5. ASSUME NEW g \in Helpers \ {h}
        PROVE  /\ hpc'[g] = hpc[g] /\ op'[g] = op[g] /\ seen'[g] = seen[g]
               /\ intruded'[g] \/ (intruded'[g] = intruded[g] /\ reg' = reg)
        BY <1>0, <2>3, <2>4
  <2> QED BY <1>k, <2>1, <2>2, <2>5
<1>4. CASE NativeSuspend(h)
  <2>1. RegTypeOK'
        BY <1>0, <1>4 DEF NativeSuspend
  <2>2. Calm(h)'
        BY <1>0, <1>4 DEF NativeSuspend, Calm
  <2>3. /\ \E k \in {"launch", "done", "failed"} : hpc' = [hpc EXCEPT ![h] = k]
        /\ UNCHANGED <<op, seen>>
        BY <1>4 DEF NativeSuspend
  <2>4. UNCHANGED <<reg, intruded>> \/ intruded' = [g \in Helpers |-> IF g = h THEN intruded[g] ELSE TRUE]
        BY <1>4 DEF NativeSuspend
  <2>5. ASSUME NEW g \in Helpers \ {h}
        PROVE  /\ hpc'[g] = hpc[g] /\ op'[g] = op[g] /\ seen'[g] = seen[g]
               /\ intruded'[g] \/ (intruded'[g] = intruded[g] /\ reg' = reg)
        BY <1>0, <2>3, <2>4
  <2> QED BY <1>k, <2>1, <2>2, <2>5
<1>5. CASE NativeLaunch(h)
  <2>1. RegTypeOK'
        BY <1>0, <1>5 DEF NativeLaunch, AfterLaunch
  <2>2. Calm(h)'
        BY <1>0, <1>5 DEF NativeLaunch, AfterLaunch, Calm
  <2> QED BY <1>0, <1>k, <1>5, <2>1, <2>2 DEF NativeLaunch
<1>6. CASE NativeRestore(h)
  <2>1. RegTypeOK'
        BY <1>0, <1>6 DEF NativeRestore
  <2>2. Calm(h)'
        BY <1>0, <1>6 DEF NativeRestore, Calm
  <2>3. /\ \E k \in {"launch", "done", "failed"} : hpc' = [hpc EXCEPT ![h] = k]
        /\ UNCHANGED <<op, seen>>
        BY <1>6 DEF NativeRestore
  <2>4. UNCHANGED <<reg, intruded>> \/ intruded' = [g \in Helpers |-> IF g = h THEN intruded[g] ELSE TRUE]
        BY <1>6 DEF NativeRestore
  <2>5. ASSUME NEW g \in Helpers \ {h}
        PROVE  /\ hpc'[g] = hpc[g] /\ op'[g] = op[g] /\ seen'[g] = seen[g]
               /\ intruded'[g] \/ (intruded'[g] = intruded[g] /\ reg' = reg)
        BY <1>0, <2>3, <2>4
  <2> QED BY <1>k, <2>1, <2>2, <2>5
<1>7. CASE HelperDies(h)
  <2>1. RegTypeOK'
        BY <1>0, <1>7 DEF HelperDies
  <2>2. Calm(h)'
        BY <1>0, <1>7 DEF HelperDies, Calm
  <2> QED BY <1>0, <1>k, <1>7, <2>1, <2>2 DEF HelperDies
<1>8. CASE HelperExits(h)
  <2>1. RegTypeOK'
        BY <1>0, <1>8 DEF HelperExits
  <2>2. Calm(h)'
        BY <1>0, <1>8 DEF HelperExits, Calm
  <2> QED BY <1>0, <1>k, <1>8, <2>1, <2>2 DEF HelperExits
<1> QED BY <1>1, <1>2, <1>3, <1>4, <1>5, <1>6, <1>7, <1>8 DEF HelperStep

LEMMA RegInvStep == RegInv /\ [RegNext]_regVars => RegInv'
<1> SUFFICES ASSUME RegInv, [RegNext]_regVars PROVE RegInv'
    OBVIOUS
<1>1. CASE RivalWrites
      BY <1>1, ReplacementAssumption DEF RivalWrites, RegInv, RegTypeOK, Undisturbed, Calm, Values, Owned
<1>2. CASE UNCHANGED regVars
      BY <1>2 DEF regVars, RegInv, RegTypeOK, Undisturbed, Calm, Owned
<1> QED BY <1>1, <1>2, HelperStepInv DEF RegNext

\* A helper that moves is the only one that moves. (one process, one step)
LEMMA OnlyOneMoves ==
    ASSUME RegInv, [RegNext]_regVars, NEW h \in Helpers, hpc'[h] # hpc[h]
    PROVE  HelperStep(h)
<1>1. ~RivalWrites /\ ~UNCHANGED regVars
      BY DEF RivalWrites, regVars
<1>2. PICK g \in Helpers : HelperStep(g)
      BY <1>1 DEF RegNext
<1>3. \A k \in Helpers : k # g => hpc'[k] = hpc[k]
      BY <1>2 DEF HelperStep, Begin, Enable, Disable, NativeSuspend, NativeLaunch, NativeRestore,
                  HelperDies, HelperExits, Finish, RegInv, RegTypeOK
<1> QED BY <1>2, <1>3

\* However helpers race each other, a rival product and a kill, a helper nobody raced
\* leaves another product's value alone, a native launch puts back what it took, and the
\* built-in Task Manager opens. (taskmgr_replacement.rs)
THEOREM DebuggerIsBorrowed == RegSpec => RegistrationSafe
<1>1. RegInv => RegTypeOK /\ NativeRestores
      BY DEF RegInv, Undisturbed, Calm, NativeRestores
<1>2. ASSUME RegInv, [RegNext]_regVars, NEW h \in Helpers,
             hpc[h] # "idle", hpc'[h] # hpc[h], reg' # reg, ~intruded[h]
      PROVE  ~Conflict(reg)
  <2>1. HelperStep(h)
        BY <1>2, OnlyOneMoves
  <2>2. /\ hpc[h] = "act" => reg = seen[h]
        /\ hpc[h] = "restore" => reg = "absent"
        BY <1>2 DEF RegInv, Undisturbed, Calm
  <2> QED BY <1>2, <2>1, <2>2 DEF HelperStep, Begin, Enable, Disable, NativeSuspend, NativeLaunch,
          NativeRestore, HelperDies, HelperExits, Conflict, Owned
<1>3. ASSUME RegInv, [RegNext]_regVars, NEW h \in Helpers,
             hpc[h] = "launch", hpc'[h] \in {"restore", "done"}, ~intruded[h]
      PROVE  native' # "rerouted"
  <2>1. HelperStep(h)
        BY <1>3, OnlyOneMoves
  <2>2. reg = "absent"
        BY <1>3 DEF RegInv, Undisturbed, Calm
  <2>3. hpc'[h] # "failed"
        BY <1>3
  <2>4. NativeLaunch(h)
        BY <1>3, <2>1, <2>3 DEF HelperStep, Begin, Enable, Disable, NativeSuspend, NativeRestore,
           HelperDies, HelperExits, Finish, RegInv, RegTypeOK
  <2> QED BY <2>2, <2>4 DEF NativeLaunch
<1>4. RegInv /\ [RegNext]_regVars =>
        /\ [\A h \in Helpers : (hpc[h] # "idle" /\ hpc'[h] # hpc[h] /\ reg' # reg /\ ~intruded[h])
               => ~Conflict(reg)]_regVars
        /\ [\A h \in Helpers : (hpc[h] = "launch" /\ hpc'[h] \in {"restore", "done"} /\ ~intruded[h])
               => native' # "rerouted"]_regVars
      BY <1>2, <1>3
<1> QED BY <1>1, <1>4, RegInvInit, RegInvStep, PTL DEF RegSpec, RegistrationSafe, ForeignKept, NativeOpens

------------------------------------------------------------------------------
(***************************************************************************)
(* The dialogs and the focus. DialogInv says, between two frames: which     *)
(* dialogs and temporaries there can be (Shape), that a destructive button  *)
(* is only preselected after the user went to it (Deliberate), and where    *)
(* the place of the focus is remembered: in the focus itself, in the        *)
(* hand-back not yet done, by the menu's owner or by the open dialog        *)
(* (Back). A frame is proved in two halves that meet in Mid and MidBack,    *)
(* what is true once the page has been drawn: FrontReady from the keys to   *)
(* there, Settles from there through the dialog to the end of the frame.    *)
(***************************************************************************)

Widgets == PageWidgets \cup {"entry", "safe", "primary", "body", Nothing}
Places == PageWidgets \cup {Nothing}
Rings == {"command", "cancel", "ok"}
Verdict == (DialogKinds \cup {"none"}) \X {"none", "safe", "primary"}

\* The frame's data; an input of the user.
Guis ==
    [focus : Widgets, parked : Widgets, start : Widgets, dlgs : SUBSET DialogKinds, menu : BOOLEAN,
     owner : Widgets \cup {Unset}, keep : [DialogKinds -> Widgets \cup {Unset}],
     flag : [DialogKinds -> BOOLEAN \cup {Unset} \cup Rings], shade : BOOLEAN,
     text : BOOLEAN, key : DialogKeys, fresh : BOOLEAN, answer : Verdict, touched : BOOLEAN]
Gestures ==
    [key : DialogKeys, at : Spots, to : PageWidgets, in : {"safe", "primary", "body"},
     ring : {"cancel", "ok"}, pick : DialogKinds \ {"help"}]

Quiet(s) == s.dlgs = {} /\ ~s.menu
Shown(s) == s.dlgs = {} \/ s.dlgs = {"props", "unload"} \/ \E d \in DialogKinds \ {"unload"} : s.dlgs = {d}
Flagged(s) ==
    /\ s.flag["run"] \in Rings \cup {Unset}
    /\ \A d \in DialogKinds \ {"run"} : s.flag[d] \in BOOLEAN \cup {Unset}
\* The affinity dialog has a chosen button only while it remembers the focus.
Clean(s) == s.keep["affinity"] = Unset => s.flag["affinity"] = Unset

\* Which dialogs, menus and temporaries there can be between two frames.
Shape(s) ==
    /\ Shown(s) /\ Flagged(s) /\ Clean(s)
    /\ \A d \in s.dlgs : s.keep[d] # Unset
    /\ s.menu => s.dlgs = {} /\ ~s.shade
    /\ s.dlgs # {} => s.shade
    /\ IF s.menu THEN s.owner \in PageWidgets ELSE s.owner = Unset
    /\ Quiet(s) => s.focus \in Places
    /\ "props" \notin s.dlgs => s.parked \in Places
    /\ \A d \in DialogKinds \ {"unload"} : s.keep[d] \in Places \cup {Unset}
    /\ s.keep["help"] # Unset => "help" \in s.dlgs
    /\ IF "props" \in s.dlgs THEN s.keep["props"] \in PageWidgets ELSE s.keep["props"] = Unset
    /\ \A d \in {"end", "run"} : s.flag[d] # Unset <=> d \in s.dlgs

\* The destructive button is chosen, or a key may choose it, only after the user went there.
Deliberate(s) ==
    /\ \A d \in Confirms : s.flag[d] # Unset => d \in s.dlgs
    /\ \A d \in Confirms : s.flag[d] = TRUE => s.touched
    /\ "affinity" \in s.dlgs /\ (s.focus = "primary" \/ s.flag["affinity"] = TRUE) => s.touched

\* Where the place of the focus is remembered.
Back(s, pl) ==
    /\ \A d \in DialogKinds : s.keep[d] # Unset => d \in s.dlgs
    /\ s.menu => s.owner = pl /\ s.parked = Nothing
    /\ Quiet(s) /\ s.parked = Nothing => s.focus = pl /\ (s.shade => pl = Nothing)
    /\ Quiet(s) /\ s.parked # Nothing => s.parked = pl /\ (s.shade => s.focus \in {Nothing, pl})
    /\ \A d \in s.dlgs \ {"unload"} :
          \/ s.keep[d] = pl /\ (pl = Nothing => s.parked = Nothing)
          \/ d = "help" /\ s.keep[d] = Nothing /\ s.parked = pl

DialogInv ==
    /\ gui \in Guis /\ place \in Places /\ lost \in BOOLEAN
    /\ Shape(gui) /\ Deliberate(gui) /\ (~lost => Back(gui, place))

------------------------------------------------------------------------------

Still(s, t) ==
    /\ t.dlgs = s.dlgs /\ t.menu = s.menu /\ t.owner = s.owner /\ t.keep = s.keep /\ t.flag = s.flag
    /\ t.shade = s.shade

LEMMA Began ==
    ASSUME NEW s \in Guis, NEW t, t = BeginFrame(s)
    PROVE  /\ t \in Guis /\ Still(s, t) /\ t.touched = s.touched /\ t.start = t.focus
           /\ t.key = s.key /\ t.answer = s.answer /\ t.fresh = s.fresh
           /\ s.parked # Nothing /\ ~s.shade => t.focus = s.parked /\ t.parked = Nothing
           /\ s.parked = Nothing \/ s.shade => t.focus = s.focus /\ t.parked = s.parked
  BY DEF BeginFrame, Guis, Widgets, Still

IsOpened(s, t, d) ==
    /\ t \in Guis /\ t.dlgs = s.dlgs \cup {d} /\ ~t.touched
    /\ t.menu = s.menu /\ t.owner = s.owner /\ t.keep = s.keep /\ t.flag = s.flag /\ t.shade = s.shade
    /\ t.focus = s.focus /\ t.parked = s.parked /\ t.start = s.start /\ t.key = s.key /\ t.answer = s.answer

LEMMA OpenedNow ==
    ASSUME NEW s \in Guis, NEW d \in DialogKinds
    PROVE  IsOpened(s, OpenDialog(s, d), d)
  <1> DEFINE t == OpenDialog(s, d)
  <1>1. t \in Guis
    BY DEF OpenDialog, Guis
  <1> QED BY <1>1 DEF OpenDialog, Guis, IsOpened

LEMMA KeyTaken ==
    ASSUME NEW s \in Guis, NEW t, t = TakeKey(s)
    PROVE  /\ t \in Guis /\ Still(s, t) /\ t.touched = s.touched /\ t.key = "none" /\ t.answer = s.answer
           /\ t.focus = s.focus /\ t.parked = s.parked /\ t.start = s.start /\ t.text = s.text
  BY DEF TakeKey, Guis, Still, DialogKeys

\* What a dialog keeps of the focus when it opens.
Cap(s) == IF s.owner \notin {Unset, Nothing} THEN s.owner
          ELSE IF s.parked # Nothing THEN s.parked
          ELSE IF s.start # Nothing THEN s.start ELSE s.focus

LEMMA CapTyped == ASSUME NEW s \in Guis PROVE Cap(s) \in Widgets /\ Cap(s) # Unset
  BY DialogsAssumption DEF Cap, Guis, Widgets

LEMMA OpenedKeeps ==
    ASSUME NEW s \in Guis, NEW d \in DialogKinds, NEW t, t = Opened(s, d)
    PROVE  /\ t \in Guis /\ t.keep[d] = Cap(s) /\ t.parked = Nothing
           /\ \A x \in DialogKinds \ {d} : t.keep[x] = s.keep[x]
           /\ t.dlgs = s.dlgs /\ t.menu = s.menu /\ t.owner = s.owner /\ t.flag = s.flag /\ t.shade = s.shade
           /\ t.touched = s.touched /\ t.key = s.key /\ t.answer = s.answer /\ t.focus = s.focus
           /\ t.start = s.start /\ t.text = s.text
  <1> DEFINE c == Capture(s)
  <1>1. c \in Guis /\ c.start = Cap(s) /\ c.parked = Nothing
    <2>1. c = [s EXCEPT !.parked = Nothing, !.start = Cap(s)]
      BY DEF Capture, Cap
    <2>2. Cap(s) \in Widgets /\ Nothing \in Widgets
      BY CapTyped DEF Widgets
    <2> QED BY <2>1, <2>2 DEF Guis
  <1>2. /\ c.dlgs = s.dlgs /\ c.menu = s.menu /\ c.owner = s.owner /\ c.flag = s.flag /\ c.shade = s.shade
        /\ c.touched = s.touched /\ c.key = s.key /\ c.answer = s.answer /\ c.focus = s.focus
        /\ c.keep = s.keep /\ c.text = s.text
    BY DEF Capture, Guis
  <1>3. t = [c EXCEPT !.keep[d] = c.start, !.start = s.start]
    BY DEF Opened
  <1> HIDE DEF c
  <1>4. t \in Guis
    <2>1. c.start \in Widgets /\ s.start \in Widgets
      BY <1>1 DEF Guis
    <2>2. [c.keep EXCEPT ![d] = c.start] \in [DialogKinds -> Widgets \cup {Unset}]
      BY <1>1, <2>1 DEF Guis
    <2> QED BY <1>1, <1>3, <2>1, <2>2 DEF Guis
  <1> QED BY <1>1, <1>2, <1>3, <1>4 DEF Guis

LEMMA HandedBack ==
    ASSUME NEW s \in Guis, NEW d \in DialogKinds, NEW t, t = Restored(s, d)
    PROVE  /\ t \in Guis /\ t.keep[d] = Unset /\ t.flag[d] = Unset /\ t.dlgs = s.dlgs \ {d}
           /\ \A x \in DialogKinds \ {d} : t.keep[x] = s.keep[x] /\ t.flag[x] = s.flag[x]
           /\ t.parked = IF s.keep[d] \in {Unset, Nothing} THEN s.parked ELSE s.keep[d]
           /\ t.menu = s.menu /\ t.owner = s.owner /\ t.shade = s.shade /\ t.start = s.start
           /\ t.touched = s.touched /\ t.key = s.key /\ t.answer = s.answer /\ t.focus = s.focus
  <1>1. t \in Guis
    BY DEF Restored, Guis
  <1> QED BY <1>1 DEF Restored, Guis

------------------------------------------------------------------------------
(* The dialogs.                                                             *)

LEMMA MovedTrue ==
    ASSUME NEW f \in BOOLEAN, NEW key
    PROVE  /\ MovedFlag(f, key) \in BOOLEAN
           /\ MovedFlag(f, key) = TRUE => f = TRUE \/ key \in {"tab", "right"}
  <1>1. CASE key = "tab"
    BY <1>1, Zenon DEF MovedFlag
  <1>2. CASE key = "left"
    BY <1>2, Zenon DEF MovedFlag
  <1>3. CASE key = "right"
    BY <1>3 DEF MovedFlag
  <1>4. CASE key \notin {"tab", "left", "right"}
    BY <1>4 DEF MovedFlag
  <1> QED BY <1>1, <1>2, <1>3, <1>4

None == <<"none", "none">>
Destructive == (Confirms \cup {"affinity"}) \X {"primary"}
Handed(s, d) == IF s.keep[d] \in {Unset, Nothing} THEN s.parked ELSE s.keep[d]
Others(s, t, d) ==
    /\ t.menu = s.menu /\ t.owner = s.owner /\ t.shade = s.shade
    /\ \A x \in DialogKinds \ {d} : t.keep[x] = s.keep[x] /\ t.flag[x] = s.flag[x]

IsAnswered(s, t, d, w) ==
    /\ t \in Guis /\ t.keep[d] = Unset /\ t.flag[d] = Unset /\ t.dlgs = s.dlgs \ {d}
    /\ Others(s, t, d) /\ t.parked = Handed(s, d) /\ t.answer = <<d, w>>
    /\ t.touched = s.touched /\ t.key = s.key /\ t.focus = s.focus

LEMMA AnswersOf ==
    ASSUME NEW s \in Guis, NEW d \in DialogKinds, NEW w \in {"none", "safe", "primary"}
    PROVE  IsAnswered(s, Answered(s, d, w), d, w)
  <1> DEFINE t == Answered(s, d, w)
  <1> DEFINE r == Restored(s, d)
  <1>1. t = [r EXCEPT !.answer = <<d, w>>]
    BY DEF Answered
  <1>2. r \in Guis
    BY HandedBack
  <1>3. /\ r.keep[d] = Unset /\ r.flag[d] = Unset /\ r.dlgs = s.dlgs \ {d}
        /\ Others(s, r, d) /\ r.parked = Handed(s, d) /\ r.touched = s.touched /\ r.key = s.key /\ r.focus = s.focus
    BY HandedBack DEF Others, Handed
  <1>4. <<d, w>> \in Verdict
    BY DEF Verdict
  <1> HIDE DEF r
  <1>5. /\ t \in Guis /\ t.answer = <<d, w>> /\ t.keep = r.keep /\ t.flag = r.flag /\ t.dlgs = r.dlgs
        /\ t.menu = r.menu /\ t.owner = r.owner /\ t.shade = r.shade /\ t.parked = r.parked
        /\ t.touched = r.touched /\ t.key = r.key /\ t.focus = r.focus
    BY <1>1, <1>2, <1>4 DEF Guis
  <1> QED BY <1>3, <1>5 DEF Others, IsAnswered

LEMMA Pinned ==
    ASSUME NEW s \in Guis, NEW d \in DialogKinds, NEW e \in Gestures, NEW t, t = PinnedFrame(s, d, e),
           s.flag[d] \in BOOLEAN \cup {Unset}, s.answer = None
    PROVE  /\ t \in Guis /\ Others(s, t, d) /\ t.key = "none" /\ t.focus \in {"safe", "primary"}
           /\ \/ t.dlgs = s.dlgs /\ t.keep[d] = s.keep[d] /\ t.parked = s.parked
                 /\ t.flag[d] \in BOOLEAN /\ t.answer = None
              \/ t.dlgs = s.dlgs \ {d} /\ t.keep[d] = Unset /\ t.parked = Handed(s, d)
                 /\ t.flag[d] = Unset /\ t.answer \in {d} \X {"safe", "primary"}
           /\ (s.flag[d] = TRUE => s.touched) =>
                 (t.flag[d] = TRUE \/ t.answer[2] = "primary" => t.touched)
  <1> DEFINE f0 == IF s.flag[d] = Unset THEN FALSE ELSE s.flag[d]
             f1 == MovedFlag(f0, s.key)
             f2 == IF e.at = "hold" THEN TRUE ELSE f1
             dec == IF e.at \in {"safe", "x"} THEN "safe" ELSE IF e.at = "primary" THEN "primary" ELSE KeyDecision(s.key, f1)
             u == [s EXCEPT !.flag[d] = f2, !.focus = IF f2 THEN "primary" ELSE "safe",
                            !.touched = @ \/ s.key \in {"tab", "right"} \/ e.at \in {"hold", "primary"}]
             v == TakeKey(u)
  <1>1. t = IF dec = "none" THEN v ELSE Answered(v, d, dec)
    BY Zenon DEF PinnedFrame
  <1>2. f0 \in BOOLEAN /\ (f0 = TRUE => s.flag[d] = TRUE)
    OBVIOUS
  <1>3. f1 \in BOOLEAN /\ (f1 = TRUE => s.flag[d] = TRUE \/ s.key \in {"tab", "right"})
    BY <1>2, MovedTrue
  <1>4. dec \in {"none", "safe", "primary"}
    BY <1>3 DEF KeyDecision
  <1>5. dec = "primary" => f1 = TRUE \/ e.at = "primary"
    BY <1>3 DEF KeyDecision
  <1> HIDE DEF f0, f1, dec
  <1>6. f2 \in BOOLEAN /\ (f2 = TRUE => f1 = TRUE \/ e.at = "hold")
    BY <1>3
  <1> HIDE DEF f2
  <1>7. u \in Guis
    <2>1. [s.flag EXCEPT ![d] = f2] \in [DialogKinds -> BOOLEAN \cup {Unset} \cup Rings]
      BY <1>6 DEF Guis
    <2>2. (IF f2 THEN "primary" ELSE "safe") \in Widgets
      BY DEF Widgets
    <2>3. (s.touched \/ s.key \in {"tab", "right"} \/ e.at \in {"hold", "primary"}) \in BOOLEAN
      OBVIOUS
    <2> QED BY <2>1, <2>2, <2>3 DEF Guis
  <1>8. /\ u.flag[d] = f2 /\ u.focus \in {"safe", "primary"} /\ Others(s, u, d) /\ u.keep = s.keep
        /\ u.parked = s.parked /\ u.dlgs = s.dlgs /\ u.answer = s.answer
    BY DEF Others, Guis
  <1>9. u.touched = (s.touched \/ s.key \in {"tab", "right"} \/ e.at \in {"hold", "primary"})
    BY DEF Guis
  <1> HIDE DEF u
  <1>10. /\ v \in Guis /\ v.flag = u.flag /\ v.focus = u.focus /\ Others(s, v, d) /\ v.keep = s.keep
         /\ v.parked = s.parked /\ v.dlgs = s.dlgs /\ v.answer = s.answer /\ v.key = "none" /\ v.touched = u.touched
    BY <1>7, <1>8, KeyTaken DEF Still, Others
  <1> HIDE DEF v
  <1>11. CASE dec = "none"
    <2>1. t = v
      BY <1>1, <1>11
    <2>2. t.answer[2] # "primary"
      BY <2>1, <1>10 DEF None
    <2> QED BY <2>1, <2>2, <1>3, <1>6, <1>8, <1>9, <1>10
  <1>12. CASE dec # "none"
    <2>1. t = Answered(v, d, dec)
      BY <1>1, <1>12
    <2>2. /\ t \in Guis /\ t.keep[d] = Unset /\ t.flag[d] = Unset /\ t.dlgs = v.dlgs \ {d}
          /\ Others(v, t, d) /\ t.parked = Handed(v, d) /\ t.answer = <<d, dec>>
          /\ t.touched = v.touched /\ t.key = v.key /\ t.focus = v.focus
      <3>1. v \in Guis
        BY <1>10
      <3>2. IsAnswered(v, t, d, dec)
        BY <2>1, <3>1, <1>4, AnswersOf, Zenon
      <3> QED BY <3>2, Zenon DEF IsAnswered
    <2>3. Others(s, t, d) /\ Handed(v, d) = Handed(s, d)
      BY <2>2, <1>10 DEF Others, Handed
    <2>4. t.answer[2] = dec /\ t.answer \in {d} \X {"safe", "primary"}
      BY <2>2, <1>4, <1>12
    <2>5. Unset # TRUE
      BY DialogsAssumption
    <2> QED BY <2>2, <2>3, <2>4, <2>5, <1>3, <1>5, <1>8, <1>9, <1>10
  <1> QED BY <1>11, <1>12

\* Does the dialog take its first frame for one; what it then remembers.
First(s, d) == IF d \in {"end", "run"} THEN s.flag[d] = Unset ELSE d # "help" /\ s.keep[d] = Unset
Saved(s, d) == IF First(s, d) THEN Cap(s) ELSE s.keep[d]
Ahead(s, d) == IF First(s, d) THEN Nothing ELSE s.parked
Start(s, d) == IF First(s, d) THEN Opened(s, d) ELSE s

Stays(s, t, d) ==
    t.dlgs = s.dlgs /\ t.keep[d] = Saved(s, d) /\ t.parked = Ahead(s, d) /\ (d \in {"end", "run"} => t.flag[d] # Unset)
Closes(s, t, d) ==
    /\ t.dlgs = s.dlgs \ {d} /\ t.keep[d] = Unset
    /\ t.parked = IF Saved(s, d) \in {Unset, Nothing} THEN Ahead(s, d) ELSE Saved(s, d)
    /\ d \in Confirms \cup {"run"} => t.flag[d] = Unset
Drops(s, t, d) ==
    d \in {"affinity", "columns", "startup"} /\ t.dlgs = s.dlgs \ {d} /\ t.keep[d] = Saved(s, d) /\ t.parked = Ahead(s, d)

\* One frame of dialog d.
Shows(s, t, d) ==
    /\ t \in Guis /\ Others(s, t, d) /\ t.key = "none"
    /\ t.focus \notin PageWidgets \/ (d = "startup" /\ t.focus = s.focus)
    /\ Stays(s, t, d) \/ Closes(s, t, d) \/ Drops(s, t, d)
    /\ t.answer = None \/ t.answer \in {d} \X {"safe", "primary"}
    /\ d \in Confirms =>
         ((s.flag[d] = TRUE => s.touched) => (t.flag[d] = TRUE \/ t.answer[2] = "primary" => t.touched))
    /\ IF d = "run" THEN t.flag[d] \in Rings \cup {Unset} ELSE t.flag[d] \in BOOLEAN \cup {Unset}

\* What a dialog starts from: nothing but what it remembers is different.
Starts(s, u, d) ==
    /\ u \in Guis /\ Others(s, u, d) /\ u.flag = s.flag /\ u.keep[d] = Saved(s, d) /\ u.parked = Ahead(s, d)
    /\ u.dlgs = s.dlgs /\ u.touched = s.touched /\ u.key = s.key /\ u.answer = s.answer /\ u.focus = s.focus
    /\ u.text = s.text

LEMMA StartOf == ASSUME NEW s \in Guis, NEW d \in DialogKinds PROVE Starts(s, Start(s, d), d)
  <1>1. CASE First(s, d)
    <2> DEFINE u == Opened(s, d)
    <2>1. /\ u \in Guis /\ u.keep[d] = Cap(s) /\ u.parked = Nothing
          /\ \A x \in DialogKinds \ {d} : u.keep[x] = s.keep[x]
          /\ u.dlgs = s.dlgs /\ u.menu = s.menu /\ u.owner = s.owner /\ u.flag = s.flag /\ u.shade = s.shade
          /\ u.touched = s.touched /\ u.key = s.key /\ u.answer = s.answer /\ u.focus = s.focus
          /\ u.start = s.start /\ u.text = s.text
      BY OpenedKeeps
    <2> HIDE DEF u
    <2>2. Start(s, d) = u
      BY <1>1 DEF Start, u
    <2> QED BY <1>1, <2>1, <2>2 DEF Starts, Saved, Ahead, Others
  <1>2. CASE ~First(s, d)
    BY <1>2 DEF Start, Starts, Saved, Ahead, Others
  <1> QED BY <1>1, <1>2

LEMMA ConfirmShows ==
    ASSUME NEW s \in Guis, NEW d \in Confirms \cup {"unload"}, NEW e \in Gestures,
           s.flag[d] \in BOOLEAN \cup {Unset}, s.answer = None
    PROVE  Shows(s, PinnedFrame(Start(s, d), d, e), d)
  <1> DEFINE u == Start(s, d)
             t == PinnedFrame(u, d, e)
  <1>0. d \in DialogKinds /\ d # "run" /\ d # "startup"
    BY DEF DialogKinds, Confirms
  <1>1. Starts(s, u, d)
    BY <1>0, StartOf
  <1> HIDE DEF u
  <1>2. u \in Guis /\ u.flag[d] \in BOOLEAN \cup {Unset} /\ u.answer = None
    BY <1>1 DEF Starts
  <1>3. /\ t \in Guis /\ Others(u, t, d) /\ t.key = "none" /\ t.focus \in {"safe", "primary"}
        /\ \/ t.dlgs = u.dlgs /\ t.keep[d] = u.keep[d] /\ t.parked = u.parked
              /\ t.flag[d] \in BOOLEAN /\ t.answer = None
           \/ t.dlgs = u.dlgs \ {d} /\ t.keep[d] = Unset /\ t.parked = Handed(u, d)
              /\ t.flag[d] = Unset /\ t.answer \in {d} \X {"safe", "primary"}
        /\ (u.flag[d] = TRUE => u.touched) =>
              (t.flag[d] = TRUE \/ t.answer[2] = "primary" => t.touched)
    BY <1>0, <1>2, Pinned
  <1> HIDE DEF t
  <1>4. Others(s, t, d)
    BY <1>1, <1>3 DEF Starts, Others
  <1>5. t.focus \notin PageWidgets
    BY <1>3 DEF PageWidgets
  <1>6. Stays(s, t, d) \/ Closes(s, t, d)
    <2>1. CASE t.dlgs = u.dlgs /\ t.keep[d] = u.keep[d] /\ t.parked = u.parked /\ t.flag[d] \in BOOLEAN
      BY <2>1, <1>1, DialogsAssumption DEF Starts, Stays
    <2>2. CASE t.dlgs = u.dlgs \ {d} /\ t.keep[d] = Unset /\ t.parked = Handed(u, d) /\ t.flag[d] = Unset
      BY <2>2, <1>1 DEF Starts, Closes, Handed
    <2> QED BY <1>3, <2>1, <2>2
  <1>7. t.flag[d] \in BOOLEAN \cup {Unset}
    BY <1>3
  <1>8. u.flag = s.flag /\ u.touched = s.touched
    BY <1>1 DEF Starts
  <1>9. t.answer = None \/ t.answer \in {d} \X {"safe", "primary"}
    BY <1>3
  <1>10. d \in Confirms =>
           ((s.flag[d] = TRUE => s.touched) => (t.flag[d] = TRUE \/ t.answer[2] = "primary" => t.touched))
    BY <1>3, <1>8
  <1>11. Shows(s, t, d)
    BY <1>0, <1>3, <1>4, <1>5, <1>6, <1>7, <1>9, <1>10 DEF Shows
  <1> QED BY <1>11 DEF t, u

LEMMA ConfirmFrames ==
    ASSUME NEW s \in Guis, NEW e \in Gestures, s.answer = None
    PROVE  /\ s.flag["end"] \in BOOLEAN \cup {Unset} => Shows(s, EndTaskFrame(s, e), "end")
           /\ s.flag["signout"] \in BOOLEAN \cup {Unset} => Shows(s, SignOutFrame(s, e), "signout")
           /\ s.flag["service"] \in BOOLEAN \cup {Unset} => Shows(s, ServiceFrame(s, e), "service")
           /\ s.flag["clear"] \in BOOLEAN \cup {Unset} => Shows(s, ClearFrame(s, e), "clear")
           /\ s.flag["uac"] \in BOOLEAN \cup {Unset} => Shows(s, UacFrame(s, e), "uac")
  <1>1. /\ EndTaskFrame(s, e) = PinnedFrame(Start(s, "end"), "end", e)
        /\ SignOutFrame(s, e) = PinnedFrame(Start(s, "signout"), "signout", e)
        /\ ServiceFrame(s, e) = PinnedFrame(Start(s, "service"), "service", e)
        /\ ClearFrame(s, e) = PinnedFrame(Start(s, "clear"), "clear", e)
        /\ UacFrame(s, e) = PinnedFrame(Start(s, "uac"), "uac", e)
    BY DEF EndTaskFrame, SignOutFrame, ServiceFrame, ClearFrame, UacFrame, FirstOpened, Start, First
  <1> QED BY <1>1, ConfirmShows DEF Confirms

LEMMA UnloadShows ==
    ASSUME NEW s \in Guis, NEW e \in Gestures, s.answer = None, s.flag["unload"] \in BOOLEAN \cup {Unset}
    PROVE  Shows(s, UnloadFrame(s, e), "unload")
  <1> DEFINE t == PinnedFrame(FirstOpened(s, "unload"), "unload", e)
             f0 == IF s.flag["unload"] = Unset THEN FALSE ELSE s.flag["unload"]
             f == MovedFlag(f0, s.key)
             b == (e.at = "hold") \/ f
             w == UnloadFrame(s, e)
  <1>1. FirstOpened(s, "unload") = Start(s, "unload")
    BY DEF FirstOpened, Start, First
  <1>2. Shows(s, t, "unload")
    BY <1>1, ConfirmShows
  <1>3. f \in BOOLEAN
    BY MovedTrue
  <1> HIDE DEF f
  <1>4. b \in BOOLEAN
    BY <1>3
  <1>5. w = IF "unload" \in t.dlgs THEN t ELSE [t EXCEPT !.flag["unload"] = b]
    BY DEF UnloadFrame, f
  <1> HIDE DEF t, b, w
  <1>6. CASE "unload" \in t.dlgs
    BY <1>2, <1>5, <1>6 DEF w
  <1>7. CASE "unload" \notin t.dlgs
    <2>1. t \in Guis /\ "unload" \in DialogKinds
      BY <1>2 DEF Shows, DialogKinds
    <2>2. w = [t EXCEPT !.flag["unload"] = b]
      BY <1>5, <1>7
    <2>3. [t.flag EXCEPT !["unload"] = b] \in [DialogKinds -> BOOLEAN \cup {Unset} \cup Rings]
      BY <2>1, <1>4 DEF Guis
    <2>4. /\ w \in Guis /\ w.flag["unload"] = b /\ \A x \in DialogKinds \ {"unload"} : w.flag[x] = t.flag[x]
          /\ w.keep = t.keep /\ w.dlgs = t.dlgs /\ w.parked = t.parked /\ w.focus = t.focus /\ w.key = t.key
          /\ w.menu = t.menu /\ w.owner = t.owner /\ w.shade = t.shade /\ w.answer = t.answer
      BY <2>1, <2>2, <2>3, <1>4 DEF Guis
    <2>5. "unload" \notin Confirms \cup {"end", "run", "startup", "affinity", "columns"}
      BY DEF Confirms
    <2> QED BY <1>2, <1>4, <2>4, <2>5 DEF Shows, Others, Stays, Closes, Drops, w
  <1> QED BY <1>6, <1>7

\* A dialog other than a confirmation before it decides whether to close.
Held(s, t, d) ==
    /\ t \in Guis /\ Others(s, t, d) /\ t.key = "none" /\ t.dlgs = s.dlgs
    /\ t.keep[d] = Saved(s, d) /\ t.parked = Ahead(s, d) /\ t.answer = None
    /\ t.focus \notin PageWidgets \/ (d = "startup" /\ t.focus = s.focus)
    /\ IF d = "run" THEN t.flag[d] \in Rings ELSE t.flag[d] \in BOOLEAN \cup {Unset}

NoConfirm == DialogKinds \ (Confirms \cup {"unload"})

LEMMA HeldStays ==
    ASSUME NEW s \in Guis, NEW d \in NoConfirm, NEW t, Held(s, t, d)
    PROVE  Shows(s, t, d) /\ Stays(s, t, d)
  BY DialogsAssumption DEF Held, Shows, Stays, NoConfirm, Confirms, DialogKinds, Rings

LEMMA HeldCloses ==
    ASSUME NEW s \in Guis, NEW d \in NoConfirm, NEW t, Held(s, t, d), NEW w \in {"safe", "primary"}
    PROVE  Shows(s, Answered(t, d, w), d) /\ Closes(s, Answered(t, d, w), d)
  <1> DEFINE v == Answered(t, d, w)
  <1>1. d \in DialogKinds /\ d \notin Confirms
    BY DEF NoConfirm
  <1>2. t \in Guis
    BY DEF Held
  <1>3. IsAnswered(t, v, d, w)
    BY <1>1, <1>2, AnswersOf
  <1> HIDE DEF v
  <1>4. Others(s, v, d)
    BY <1>3 DEF Held, IsAnswered, Others
  <1>5. Closes(s, v, d)
    BY <1>1, <1>3 DEF Held, IsAnswered, Closes, Handed
  <1>6. v.answer \in {d} \X {"safe", "primary"}
    BY <1>3 DEF IsAnswered
  <1>7. v.flag[d] \in BOOLEAN \cup {Unset}
    BY <1>3 DEF IsAnswered
  <1>8. Shows(s, v, d)
    BY <1>1, <1>3, <1>4, <1>5, <1>6, <1>7 DEF Held, IsAnswered, Shows
  <1> QED BY <1>5, <1>8 DEF v

LEMMA HeldDrops ==
    ASSUME NEW s \in Guis, NEW d \in {"columns", "startup", "affinity"}, NEW t, Held(s, t, d),
           NEW w \in {"safe", "primary"}, NEW f \in BOOLEAN \cup {Unset}, NEW v,
           v = [t EXCEPT !.dlgs = @ \ {d}, !.flag[d] = f, !.answer = <<d, w>>]
    PROVE  Shows(s, v, d) /\ Drops(s, v, d)
  <1>1. d \in DialogKinds /\ d \notin Confirms
    BY DEF DialogKinds, Confirms
  <1>2. t \in Guis /\ <<d, w>> \in Verdict
    BY <1>1 DEF Held, Verdict
  <1>3. [t.flag EXCEPT ![d] = f] \in [DialogKinds -> BOOLEAN \cup {Unset} \cup Rings]
    BY <1>2 DEF Guis
  <1>4. /\ v \in Guis /\ v.dlgs = t.dlgs \ {d} /\ v.flag[d] = f /\ v.answer = <<d, w>>
        /\ \A x \in DialogKinds \ {d} : v.flag[x] = t.flag[x]
        /\ v.keep = t.keep /\ v.parked = t.parked /\ v.menu = t.menu /\ v.owner = t.owner /\ v.shade = t.shade
        /\ v.focus = t.focus /\ v.key = t.key
    BY <1>1, <1>2, <1>3 DEF Guis
  <1>5. Others(s, v, d)
    BY <1>4 DEF Held, Others
  <1>6. Drops(s, v, d)
    BY <1>4 DEF Held, Drops
  <1>7. v.answer \in {d} \X {"safe", "primary"}
    BY <1>4
  <1> QED BY <1>1, <1>4, <1>5, <1>6, <1>7 DEF Held, Shows

\* A dialog moves the focus, and takes the key.
LEMMA HeldMoves ==
    ASSUME NEW s \in Guis, NEW d \in NoConfirm, d # "run", s.answer = None,
           s.flag[d] \in BOOLEAN \cup {Unset}, NEW u, Starts(s, u, d),
           NEW v \in Guis, Others(u, v, d), v.dlgs = u.dlgs, v.keep = u.keep, v.parked = u.parked,
           v.answer = u.answer, v.flag[d] \in BOOLEAN \cup {Unset},
           v.focus \notin PageWidgets \/ (d = "startup" /\ v.focus = s.focus)
    PROVE  Held(s, TakeKey(v), d)
  <1> DEFINE t == TakeKey(v)
  <1>1. /\ t \in Guis /\ Still(v, t) /\ t.key = "none" /\ t.answer = v.answer
        /\ t.focus = v.focus /\ t.parked = v.parked
    BY KeyTaken
  <1> HIDE DEF t
  <1>2. Others(s, t, d)
    BY <1>1 DEF Starts, Still, Others
  <1>3. Held(s, t, d)
    BY <1>1, <1>2 DEF Held, Starts, Still
  <1> QED BY <1>3 DEF t

LEMMA StartupShows ==
    ASSUME NEW s \in Guis, NEW e \in Gestures, s.answer = None, s.flag["startup"] \in BOOLEAN \cup {Unset}
    PROVE  Shows(s, StartupFrame(s, e), "startup")
  <1> DEFINE u == Start(s, "startup")
             t == TakeKey(u)
  <1>1. "startup" \in NoConfirm /\ "startup" \in DialogKinds
    BY DEF NoConfirm, DialogKinds, Confirms
  <1>2. FirstOpened(s, "startup") = u
    BY DEF FirstOpened, Start, First
  <1>3. Starts(s, u, "startup")
    BY <1>1, StartOf
  <1> HIDE DEF u
  <1>4. Held(s, t, "startup")
    <2>1. u \in Guis /\ u.flag["startup"] \in BOOLEAN \cup {Unset} /\ u.focus = s.focus /\ Others(u, u, "startup")
      BY <1>3 DEF Starts, Others
    <2> QED BY <1>1, <1>3, <2>1, HeldMoves
  <1> HIDE DEF t
  <1>5. \/ StartupFrame(s, e) = Answered(t, "startup", "safe")
        \/ StartupFrame(s, e) = [t EXCEPT !.dlgs = @ \ {"startup"}, !.answer = <<"startup", "safe">>]
        \/ StartupFrame(s, e) = t
    BY <1>2 DEF StartupFrame, t
  <1>6. CASE StartupFrame(s, e) = Answered(t, "startup", "safe")
    BY <1>1, <1>4, <1>6, HeldCloses
  <1>7. CASE StartupFrame(s, e) = [t EXCEPT !.dlgs = @ \ {"startup"}, !.answer = <<"startup", "safe">>]
    <2>1. t \in Guis /\ t.flag["startup"] \in BOOLEAN \cup {Unset}
      BY <1>4 DEF Held
    <2>2. [t EXCEPT !.dlgs = @ \ {"startup"}, !.flag["startup"] = t.flag["startup"], !.answer = <<"startup", "safe">>]
            = [t EXCEPT !.dlgs = @ \ {"startup"}, !.answer = <<"startup", "safe">>]
      BY <1>1, <2>1 DEF Guis
    <2> QED BY <1>4, <1>7, <2>1, <2>2, HeldDrops
  <1>8. CASE StartupFrame(s, e) = t
    BY <1>1, <1>4, <1>8, HeldStays
  <1> QED BY <1>5, <1>6, <1>7, <1>8

Alike(s, t) ==
    /\ t.dlgs = s.dlgs /\ t.keep = s.keep /\ t.flag = s.flag /\ t.parked = s.parked /\ t.answer = s.answer
    /\ t.menu = s.menu /\ t.owner = s.owner /\ t.shade = s.shade /\ t.key = s.key /\ t.text = s.text

LEMMA FocusSet ==
    ASSUME NEW s \in Guis, NEW f \in Widgets, NEW t, t = [s EXCEPT !.focus = f]
    PROVE  t \in Guis /\ t.focus = f /\ t.touched = s.touched /\ Alike(s, t)
  BY DEF Guis, Alike

LEMMA Tabbed ==
    ASSUME NEW s \in Guis, NEW e \in Gestures, NEW t, t = TabTo(s, e)
    PROVE  /\ t \in Guis /\ Alike(s, t)
           /\ \/ t.focus = s.focus /\ t.touched = s.touched
              \/ s.key = "tab" /\ t.focus \in {"safe", "primary", "body"}
                    /\ (t.focus = "primary" \/ s.touched => t.touched)
  <1>1. CASE s.key = "tab"
    <2> DEFINE b == s.touched \/ e.in = "primary"
    <2>1. e.in \in Widgets /\ e.in \in {"safe", "primary", "body"} /\ b \in BOOLEAN
      BY DEF Gestures, Widgets
    <2>2. t = [s EXCEPT !.focus = e.in, !.touched = b]
      BY <1>1 DEF TabTo
    <2>3. b = TRUE <=> s.touched \/ e.in = "primary"
      BY DEF Guis
    <2> HIDE DEF b
    <2>4. t \in Guis /\ t.focus = e.in /\ t.touched = b /\ Alike(s, t)
      BY <2>1, <2>2 DEF Guis, Alike
    <2> QED BY <1>1, <2>1, <2>3, <2>4
  <1>2. CASE s.key # "tab"
    <2>1. t = s
      BY <1>2 DEF TabTo
    <2> QED BY <2>1, Zenon DEF Alike
  <1> QED BY <1>1, <1>2

\* The properties ask before an unload: the key is still there for the question.
AsksFirst(s, t) ==
    \E v : /\ Held(s, v, "props")
           /\ t \in Guis /\ Others(s, t, "props") /\ t.dlgs = s.dlgs \cup {"unload"} /\ t.keep = v.keep
           /\ t.parked = v.parked /\ t.answer = None /\ t.focus = v.focus /\ t.flag = v.flag

LEMMA ControlsShow ==
    ASSUME NEW s \in Guis, NEW d \in {"columns", "props", "settings"}, NEW e \in Gestures, s.answer = None,
           s.flag[d] \in BOOLEAN \cup {Unset}
    PROVE  Shows(s, ControlsFrame(s, d, e), d) \/ (d = "props" /\ AsksFirst(s, ControlsFrame(s, d, e)))
  <1> DEFINE u == Start(s, d)
             s1 == IF s.keep[d] = Unset THEN [Opened(s, d) EXCEPT !.focus = "body"] ELSE s
             s2 == TabTo(s1, e)
             v == [s2 EXCEPT !.focus = IF @ \in {"safe", "body"} THEN @ ELSE "body"]
             t == TakeKey(v)
             close == ThroughKey(s1) \in {"esc", "enter"} \/ e.at = "x"
             button == Clicks(s2, e.at, "safe")
             asks == d = "props" /\ Clicks(s2, e.at, "body") /\ e.pick = "unload"
             shut == [t EXCEPT !.dlgs = @ \ {d}, !.answer = <<d, "safe">>]
             ask == OpenDialog([t EXCEPT !.key = s.key], "unload")
             x == ControlsFrame(s, d, e)
  <1>1. d \in NoConfirm /\ d \in DialogKinds /\ d # "run" /\ d # "startup"
    BY DEF NoConfirm, DialogKinds, Confirms
  <1>2. Starts(s, u, d)
    BY <1>1, StartOf
  <1>3. s1 = [u EXCEPT !.focus = "body"] \/ s1 = u
    BY <1>1 DEF Start, First
  <1> HIDE DEF u
  <1>4. s1 \in Guis /\ Alike(u, s1)
    <2>1. "body" \in Widgets /\ u \in Guis
      BY <1>2 DEF Widgets, Starts
    <2>2. CASE s1 = [u EXCEPT !.focus = "body"]
      BY <2>1, <2>2, FocusSet
    <2>3. CASE s1 = u
      BY <2>1, <2>3 DEF Alike
    <2> QED BY <1>3, <2>2, <2>3
  <1>5. \/ x = Answered(t, d, "safe")
        \/ d = "columns" /\ x = shut
        \/ d = "props" /\ x = ask
        \/ x = t
    <2>1. x = IF close THEN Answered(t, d, "safe")
              ELSE IF button THEN IF d = "columns" THEN shut ELSE Answered(t, d, "safe")
              ELSE IF asks THEN ask ELSE t
      BY Zenon DEF ControlsFrame
    <2>2. asks => d = "props"
      OBVIOUS
    <2> HIDE DEF t, close, button, asks, shut, ask, x
    <2> QED BY <2>1, <2>2
  <1> HIDE DEF s1, x
  <1>6. s2 \in Guis /\ Alike(s1, s2)
    BY <1>4, Tabbed
  <1> HIDE DEF s2
  <1>7. v \in Guis /\ Alike(s2, v) /\ v.focus \in {"safe", "body"}
    <2> DEFINE f == IF s2.focus \in {"safe", "body"} THEN s2.focus ELSE "body"
    <2>1. f \in Widgets /\ f \in {"safe", "body"}
      BY DEF Widgets
    <2>2. v = [s2 EXCEPT !.focus = f]
      OBVIOUS
    <2> HIDE DEF f
    <2> QED BY <1>6, <2>1, <2>2, FocusSet
  <1> HIDE DEF v
  <1>8. Held(s, t, d)
    <2>1. Others(u, v, d) /\ v.dlgs = u.dlgs /\ v.keep = u.keep /\ v.parked = u.parked /\ v.answer = u.answer
          /\ v.flag = u.flag
      BY <1>4, <1>6, <1>7 DEF Alike, Others
    <2>2. v.focus \notin PageWidgets
      BY <1>7 DEF PageWidgets
    <2>3. v.flag[d] \in BOOLEAN \cup {Unset}
      BY <2>1, <1>2 DEF Starts
    <2> QED BY <1>1, <1>2, <1>7, <2>1, <2>2, <2>3, HeldMoves
  <1> HIDE DEF t
  <1>9. CASE x = Answered(t, d, "safe")
    BY <1>1, <1>8, <1>9, HeldCloses DEF x
  <1>10. CASE d = "columns" /\ x = [t EXCEPT !.dlgs = @ \ {d}, !.answer = <<d, "safe">>]
    <2>1. t \in Guis /\ t.flag[d] \in BOOLEAN \cup {Unset}
      BY <1>1, <1>8 DEF Held
    <2>2. x = [t EXCEPT !.dlgs = @ \ {d}, !.flag[d] = t.flag[d], !.answer = <<d, "safe">>]
      BY <1>1, <1>10, <2>1 DEF Guis
    <2>3. Shows(s, x, d)
      BY <1>8, <1>10, <2>1, <2>2, HeldDrops
    <2> QED BY <2>3 DEF x
  <1>11. CASE d = "props" /\ x = OpenDialog([t EXCEPT !.key = s.key], "unload")
    <2> DEFINE y == [t EXCEPT !.key = s.key]
    <2>1. t \in Guis /\ s.key \in DialogKeys /\ "unload" \in DialogKinds
      BY <1>8 DEF Held, Guis, DialogKinds
    <2>2. /\ y \in Guis /\ y.dlgs = t.dlgs /\ y.keep = t.keep /\ y.parked = t.parked /\ y.answer = t.answer
          /\ y.focus = t.focus /\ y.flag = t.flag /\ y.menu = t.menu /\ y.owner = t.owner /\ y.shade = t.shade
      BY <2>1 DEF Guis
    <2> HIDE DEF y
    <2>3. /\ x \in Guis /\ x.dlgs = y.dlgs \cup {"unload"} /\ x.keep = y.keep /\ x.parked = y.parked
          /\ x.answer = y.answer /\ x.focus = y.focus /\ x.flag = y.flag /\ x.menu = y.menu
          /\ x.owner = y.owner /\ x.shade = y.shade
      <3>1. x = OpenDialog(y, "unload")
        BY <1>11 DEF y
      <3>2. IsOpened(y, x, "unload")
        BY <2>1, <2>2, <3>1, OpenedNow, Zenon
      <3> QED BY <3>2, Zenon DEF IsOpened
    <2>4. AsksFirst(s, x)
      BY <1>8, <1>11, <2>2, <2>3 DEF AsksFirst, Held, Others
    <2> QED BY <1>11, <2>4 DEF x
  <1>12. CASE x = t
    BY <1>1, <1>8, <1>12, HeldStays DEF x
  <1> QED BY <1>5, <1>9, <1>10, <1>11, <1>12

LEMMA HelpShows ==
    ASSUME NEW s \in Guis, NEW e \in Gestures, s.answer = None, s.flag["help"] \in BOOLEAN \cup {Unset}
    PROVE  Shows(s, HelpFrame(s, e), "help")
  <1> DEFINE t == [s EXCEPT !.focus = "safe"]
             v == TakeKey(t)
             a == Answered(t, "help", "safe")
             x == HelpFrame(s, e)
  <1>1. /\ "help" \in NoConfirm /\ "help" \in DialogKinds /\ "help" \notin Confirms /\ "help" # "run" /\ "safe" \in Widgets
        /\ "safe" \notin PageWidgets
    BY DEF NoConfirm, DialogKinds, Confirms, Widgets, PageWidgets
  <1>2. t \in Guis /\ t.focus = "safe" /\ Alike(s, t)
    BY <1>1, FocusSet
  <1>3. x = TakeKey(a) \/ x = v
    BY DEF HelpFrame
  <1> HIDE DEF t, x
  <1>4. ~First(s, "help") /\ Saved(s, "help") = s.keep["help"] /\ Ahead(s, "help") = s.parked
    BY DEF First, Saved, Ahead
  <1>5. CASE x = TakeKey(a)
    <2>1. IsAnswered(t, a, "help", "safe")
      BY <1>1, <1>2, AnswersOf
    <2> HIDE DEF a
    <2>2. a \in Guis
      BY <2>1 DEF IsAnswered
    <2>3. /\ x \in Guis /\ Still(a, x) /\ x.key = "none" /\ x.answer = a.answer
          /\ x.focus = a.focus /\ x.parked = a.parked
      BY <1>5, <2>2, KeyTaken
    <2>4. Others(s, x, "help")
      BY <1>2, <2>1, <2>3 DEF Others, Still, IsAnswered, Alike
    <2>5. Closes(s, x, "help")
      BY <1>1, <1>2, <1>4, <2>1, <2>3 DEF Closes, Still, IsAnswered, Alike, Handed
    <2>6. x.answer \in {"help"} \X {"safe", "primary"}
      BY <2>1, <2>3 DEF IsAnswered
    <2>7. x.focus \notin PageWidgets
      BY <1>1, <1>2, <2>1, <2>3 DEF IsAnswered
    <2>8. x.flag["help"] \in BOOLEAN \cup {Unset}
      BY <2>1, <2>3 DEF IsAnswered, Still
    <2>9. Shows(s, x, "help")
      BY <1>1, <2>3, <2>4, <2>5, <2>6, <2>7, <2>8 DEF Shows
    <2> QED BY <2>9 DEF x
  <1>6. CASE x = v
    <2>1. /\ v \in Guis /\ Still(t, v) /\ v.key = "none" /\ v.answer = t.answer
          /\ v.focus = t.focus /\ v.parked = t.parked
      BY <1>2, KeyTaken
    <2> HIDE DEF v
    <2>2. Held(s, v, "help")
      BY <1>1, <1>2, <1>4, <2>1 DEF Held, Still, Alike, Others
    <2>3. Shows(s, v, "help")
      BY <1>1, <2>2, HeldStays
    <2> QED BY <1>6, <2>3 DEF x
  <1> QED BY <1>3, <1>5, <1>6

LEMMA RunShows ==
    ASSUME NEW s \in Guis, NEW e \in Gestures, s.answer = None, s.flag["run"] \in Rings \cup {Unset}
    PROVE  Shows(s, RunFrame(s, e), "run")
  <1> DEFINE u == Start(s, "run")
             s1 == IF s.flag["run"] = Unset THEN [Opened(s, "run") EXCEPT !.flag["run"] = "command"] ELSE s
             ring == IF s1.key = "tab" THEN e.ring ELSE s1.flag["run"]
             act == IF e.at \in {"safe", "x"} THEN "cancel"
                    ELSE IF e.at = "primary" /\ s1.text THEN "submit" ELSE RunKey(s1.key, ring)
             typed == s1.text \/ s1.key = "type"
             v == [s1 EXCEPT !.flag["run"] = ring, !.focus = "body", !.text = typed]
             t == TakeKey(v)
             empty == [t EXCEPT !.flag["run"] = "command"]
             x == RunFrame(s, e)
  <1>1. /\ "run" \in NoConfirm /\ "run" \in DialogKinds /\ "run" \notin Confirms /\ "body" \in Widgets
        /\ "body" \notin PageWidgets
    BY DEF NoConfirm, DialogKinds, Confirms, Widgets, PageWidgets
  <1>2. Starts(s, u, "run")
    BY <1>1, StartOf
  <1>3. s1 = [u EXCEPT !.flag["run"] = "command"] \/ (s1 = u /\ s.flag["run"] # Unset)
    BY DEF Start, First
  <1>4. x = IF act = "cancel" THEN Answered(t, "run", "safe")
            ELSE IF act = "submit" THEN IF s1.text THEN Answered(t, "run", "primary") ELSE empty
            ELSE t
    BY Zenon DEF RunFrame
  <1> HIDE DEF u, s1, x, act
  <1>5. /\ s1 \in Guis /\ s1.flag["run"] \in Rings /\ Others(u, s1, "run") /\ s1.dlgs = u.dlgs /\ s1.keep = u.keep
        /\ s1.parked = u.parked /\ s1.answer = u.answer
    <2>1. u \in Guis /\ u.flag = s.flag
      BY <1>2 DEF Starts
    <2>2. [u.flag EXCEPT !["run"] = "command"] \in [DialogKinds -> BOOLEAN \cup {Unset} \cup Rings]
      BY <2>1 DEF Guis, Rings
    <2>3. CASE s1 = [u EXCEPT !.flag["run"] = "command"]
      BY <1>1, <2>1, <2>2, <2>3 DEF Guis, Others, Rings
    <2>4. CASE s1 = u /\ s.flag["run"] # Unset
      BY <1>1, <2>1, <2>4 DEF Others
    <2> QED BY <1>3, <2>3, <2>4
  <1>6. ring \in Rings
    BY <1>5 DEF Gestures, Rings
  <1>7. typed \in BOOLEAN
    OBVIOUS
  <1> HIDE DEF ring, typed
  <1>8. /\ v \in Guis /\ v.flag["run"] = ring /\ v.focus = "body" /\ Others(s1, v, "run") /\ v.dlgs = s1.dlgs
        /\ v.keep = s1.keep /\ v.parked = s1.parked /\ v.answer = s1.answer
    <2>1. [s1.flag EXCEPT !["run"] = ring] \in [DialogKinds -> BOOLEAN \cup {Unset} \cup Rings]
      BY <1>5, <1>6 DEF Guis
    <2> QED BY <1>1, <1>5, <1>7, <2>1 DEF Guis, Others
  <1> HIDE DEF v
  <1>9. /\ t \in Guis /\ Still(v, t) /\ t.key = "none" /\ t.answer = v.answer
        /\ t.focus = v.focus /\ t.parked = v.parked
    BY <1>8, KeyTaken
  <1> HIDE DEF t
  <1>10. Held(s, t, "run")
    <2>1. Others(s, t, "run")
      BY <1>2, <1>5, <1>8, <1>9 DEF Starts, Others, Still
    <2>2. t.dlgs = s.dlgs /\ t.keep["run"] = Saved(s, "run") /\ t.parked = Ahead(s, "run") /\ t.answer = None
      BY <1>2, <1>5, <1>8, <1>9 DEF Starts, Still
    <2>3. t.flag["run"] \in Rings /\ t.focus \notin PageWidgets
      BY <1>1, <1>6, <1>8, <1>9 DEF Still
    <2> QED BY <1>9, <2>1, <2>2, <2>3 DEF Held
  <1>11. Held(s, empty, "run")
    <2>1. [t.flag EXCEPT !["run"] = "command"] \in [DialogKinds -> BOOLEAN \cup {Unset} \cup Rings]
      BY <1>9 DEF Guis, Rings
    <2>2. /\ empty \in Guis /\ empty.flag["run"] = "command" /\ empty.keep = t.keep /\ empty.dlgs = t.dlgs
          /\ empty.parked = t.parked /\ empty.answer = t.answer /\ empty.focus = t.focus /\ empty.key = t.key
          /\ Others(t, empty, "run")
      BY <1>1, <1>9, <2>1 DEF Guis, Others
    <2> HIDE DEF empty
    <2>3. Others(s, empty, "run")
      BY <1>10, <2>2 DEF Held, Others
    <2> QED BY <1>10, <2>2, <2>3 DEF Held, Rings
  <1> HIDE DEF empty
  <1>12. CASE x = Answered(t, "run", "safe")
    BY <1>1, <1>10, <1>12, HeldCloses DEF x
  <1>13. CASE x = Answered(t, "run", "primary")
    BY <1>1, <1>10, <1>13, HeldCloses DEF x
  <1>14. CASE x = empty
    BY <1>1, <1>11, <1>14, HeldStays DEF x
  <1>15. CASE x = t
    BY <1>1, <1>10, <1>15, HeldStays DEF x
  <1> QED BY <1>4, <1>12, <1>13, <1>14, <1>15

\* The affinity dialog had been shown, or opens in this frame with no key for it.
Fair(s, e) ==
    \/ s.focus = "primary" \/ s.flag["affinity"] = TRUE => s.touched
    \/ /\ s.focus # "primary" /\ e.at # "primary" /\ s.key # "tab"
       /\ s.key = "none" \/ s.focus # Nothing

LEMMA AffinityShows ==
    ASSUME NEW s \in Guis, NEW e \in Gestures, s.answer = None, s.flag["affinity"] \in BOOLEAN \cup {Unset},
           s.keep["affinity"] = Unset => s.flag["affinity"] = Unset, Fair(s, e), NEW x, x = AffinityFrame(s, e)
    PROVE  /\ Shows(s, x, "affinity")
           /\ x.keep["affinity"] = Unset => x.flag["affinity"] = Unset
           /\ x.answer[2] = "primary" => x.touched
           /\ "affinity" \in x.dlgs /\ (x.focus = "primary" \/ x.flag["affinity"] = TRUE) => x.touched
  <1> DEFINE d == "affinity"
             u == Start(s, d)
             s1 == IF s.keep["affinity"] = Unset THEN [Opened(s, "affinity") EXCEPT !.focus = Nothing] ELSE s
             f == IF s1.flag["affinity"] = Unset THEN FALSE ELSE s1.flag["affinity"]
             dec == KeyDecision(ThroughKey(s1), f)
             s2 == TabTo(s1, e)
             s3 == IF s2.focus \notin {"safe", "primary", "body"} THEN [s2 EXCEPT !.focus = "safe"] ELSE s2
             apply == dec = "primary" \/ Clicks(s2, e.at, "primary")
             cancel == dec = "safe" \/ e.at = "x" \/ Clicks(s2, e.at, "safe")
             on == s3.focus = "primary"
             been == s3.touched \/ e.at = "primary"
             v == [s3 EXCEPT !.flag["affinity"] = on, !.touched = been]
             t == TakeKey(v)
             left == IF s1.flag["affinity"] = Unset THEN Unset ELSE f
             gone == [t EXCEPT !.dlgs = @ \ {"affinity"}, !.flag["affinity"] = left, !.answer = <<"affinity", "primary">>]
  <1>1. d \in NoConfirm /\ d \in DialogKinds /\ d \notin Confirms /\ d # "run"
    BY DEF NoConfirm, DialogKinds, Confirms
  <1>2. x = IF apply THEN gone ELSE IF cancel THEN Answered(t, "affinity", "safe") ELSE t
    BY Zenon DEF AffinityFrame
  <1>3. Starts(s, u, d)
    BY <1>1, StartOf
  <1>4. (s1 = [u EXCEPT !.focus = Nothing] /\ s.keep[d] = Unset) \/ (s1 = u /\ u = s)
    BY DEF Start, First
  <1> HIDE DEF u, s1
  <1>5. /\ s1 \in Guis /\ Alike(u, s1) /\ s1.touched = s.touched
        /\ (s1.focus = Nothing /\ s.keep[d] = Unset) \/ s1.focus = s.focus
    <2>1. Nothing \in Widgets /\ u \in Guis /\ u.touched = s.touched /\ u.focus = s.focus
      BY <1>3 DEF Widgets, Starts
    <2>2. CASE s1 = [u EXCEPT !.focus = Nothing] /\ s.keep[d] = Unset
      BY <2>1, <2>2, FocusSet
    <2>3. CASE s1 = u
      BY <2>1, <2>3 DEF Alike
    <2> QED BY <1>4, <2>2, <2>3
  <1>6. s1.flag[d] = s.flag[d] /\ s1.key = s.key
    BY <1>3, <1>5 DEF Starts, Alike
  <1>7. f \in BOOLEAN /\ (f = TRUE => s.flag[d] = TRUE) /\ left \in BOOLEAN \cup {Unset}
    BY <1>6
  <1> HIDE DEF f, left
  <1>8. /\ s2 \in Guis /\ Alike(s1, s2)
        /\ \/ s2.focus = s1.focus /\ s2.touched = s1.touched
           \/ s1.key = "tab" /\ s2.focus \in {"safe", "primary", "body"}
                 /\ (s2.focus = "primary" \/ s1.touched => s2.touched)
    BY <1>5, Tabbed
  <1> HIDE DEF s2
  <1>9. /\ s3 \in Guis /\ Alike(s2, s3) /\ s3.touched = s2.touched /\ s3.focus \in {"safe", "primary", "body"}
        /\ s3.focus = "primary" => s2.focus = "primary"
    <2>1. "safe" \in Widgets
      BY DEF Widgets
    <2>2. CASE s2.focus \notin {"safe", "primary", "body"}
      BY <1>8, <2>1, <2>2, FocusSet
    <2>3. CASE s2.focus \in {"safe", "primary", "body"}
      BY <1>8, <2>3 DEF Alike
    <2> QED BY <2>2, <2>3
  <1>10. on \in BOOLEAN /\ been \in BOOLEAN /\ (on = TRUE <=> s3.focus = "primary")
         /\ (been = TRUE <=> s3.touched \/ e.at = "primary")
    OBVIOUS
  <1> HIDE DEF s3, on, been
  <1>11. /\ v \in Guis /\ v.flag[d] = on /\ v.touched = been /\ Others(s3, v, d) /\ v.dlgs = s3.dlgs
         /\ v.keep = s3.keep /\ v.parked = s3.parked /\ v.answer = s3.answer /\ v.focus = s3.focus
    <2>1. [s3.flag EXCEPT ![d] = on] \in [DialogKinds -> BOOLEAN \cup {Unset} \cup Rings]
      BY <1>9, <1>10 DEF Guis
    <2> QED BY <1>1, <1>9, <1>10, <2>1 DEF Guis, Others
  <1> HIDE DEF v
  <1>12. Others(u, v, d) /\ v.dlgs = u.dlgs /\ v.keep = u.keep /\ v.parked = u.parked /\ v.answer = u.answer
    BY <1>5, <1>8, <1>9, <1>11 DEF Alike, Others
  <1>13. Held(s, t, d)
    <2>1. v.focus \notin PageWidgets /\ v.flag[d] \in BOOLEAN \cup {Unset}
      BY <1>9, <1>10, <1>11 DEF PageWidgets
    <2> QED BY <1>1, <1>3, <1>11, <1>12, <2>1, HeldMoves
  <1>14. t.touched = v.touched /\ t.focus = v.focus /\ t.flag = v.flag
    BY <1>11, KeyTaken DEF Still
  <1> HIDE DEF t
  <1>15. apply => been = TRUE
    <2>1. dec = "primary" => f = TRUE /\ ThroughKey(s1) \in {"enter", "space"}
      BY <1>7 DEF KeyDecision
    <2>2. s2.key = s.key
      BY <1>6, <1>8 DEF Alike
    <2>3. CASE s.focus = "primary" \/ s.flag[d] = TRUE => s.touched
      <3>1. f = TRUE => been = TRUE
        BY <1>5, <1>7, <1>8, <1>9, <1>10, <2>3
      <3>2. s2.focus = "primary" => been = TRUE
        BY <1>5, <1>8, <1>9, <1>10, <2>3, DialogsAssumption
      <3> QED BY <2>1, <3>1, <3>2, <1>10 DEF Clicks
    <2>4. CASE /\ s.focus # "primary" /\ e.at # "primary" /\ s.key # "tab"
               /\ s.key = "none" \/ s.focus # Nothing
      <3>1. s2.focus # "primary"
        BY <1>5, <1>6, <1>8, <2>4, DialogsAssumption
      <3>2. f # TRUE \/ ThroughKey(s1) \notin {"enter", "space"}
        <4>1. CASE s.keep[d] = Unset
          BY <1>7, <4>1, DialogsAssumption
        <4>2. CASE s.keep[d] # Unset
          BY <1>5, <1>6, <2>4, <4>2 DEF ThroughKey
        <4> QED BY <4>1, <4>2
      <3> QED BY <2>1, <2>4, <3>1, <3>2 DEF Clicks
    <2> QED BY <2>3, <2>4 DEF Fair
  <1>16. s3.focus = "primary" => been = TRUE
    <2>1. CASE s.focus = "primary" \/ s.flag[d] = TRUE => s.touched
      BY <1>5, <1>8, <1>9, <1>10, <2>1, DialogsAssumption
    <2>2. CASE s.focus # "primary" /\ s.key # "tab"
      BY <1>5, <1>6, <1>8, <1>9, <2>2, DialogsAssumption
    <2> QED BY <2>1, <2>2 DEF Fair
  <1> HIDE DEF apply, cancel
  <1>17. t.keep[d] # Unset
    <2>1. Saved(s, d) # Unset
      BY <1>1, CapTyped DEF Saved, First
    <2> QED BY <1>13, <2>1 DEF Held
  <1>18. CASE apply
    <2>1. x = gone
      BY <1>2, <1>18
    <2>2. Shows(s, x, d) /\ Drops(s, x, d)
      BY <2>1, <1>7, <1>13, HeldDrops
    <2>3. t \in Guis
      BY <1>13 DEF Held
    <2>4. x.touched = t.touched /\ x.keep = t.keep
      BY <2>1, <2>3 DEF Guis
    <2>5. d \notin x.dlgs
      BY <2>2 DEF Drops
    <2> QED BY <2>2, <2>4, <2>5, <1>11, <1>14, <1>15, <1>17, <1>18
  <1>19. CASE ~apply /\ cancel
    <2>1. x = Answered(t, d, "safe")
      BY <1>2, <1>19
    <2>2. Shows(s, x, d) /\ Closes(s, x, d)
      BY <2>1, <1>1, <1>13, HeldCloses
    <2>3. IsAnswered(t, x, d, "safe")
      BY <2>1, <1>1, <1>13, AnswersOf, Zenon DEF Held
    <2>4. x.answer[2] = "safe" /\ d \notin x.dlgs /\ x.flag[d] = Unset
      BY <2>3 DEF IsAnswered
    <2> QED BY <2>2, <2>4
  <1>20. CASE ~apply /\ ~cancel
    <2>1. x = t
      BY <1>2, <1>20
    <2>2. Shows(s, x, d)
      BY <2>1, <1>1, <1>13, HeldStays
    <2>3. x.answer[2] = "none"
      BY <2>1, <1>13 DEF Held, None
    <2>4. x.focus = "primary" \/ x.flag[d] = TRUE => x.touched
      BY <2>1, <1>10, <1>11, <1>14, <1>16
    <2> QED BY <2>1, <2>2, <2>3, <2>4, <1>17
  <1> QED BY <1>18, <1>19, <1>20

\* The frame of the one dialog d.
ShowsOne(s, x, d) ==
    \/ /\ Shows(s, x, d)
       /\ d = "affinity" =>
            /\ x.keep["affinity"] = Unset => x.flag["affinity"] = Unset
            /\ x.answer[2] = "primary" => x.touched
            /\ "affinity" \in x.dlgs /\ (x.focus = "primary" \/ x.flag["affinity"] = TRUE) => x.touched
    \/ d = "props" /\ \E y : AsksFirst(s, y) /\ Shows(y, x, "unload")

LEMMA OneShows ==
    ASSUME NEW s \in Guis, NEW e \in Gestures, s.answer = None, Flagged(s), Clean(s),
           NEW d \in DialogKinds \ {"unload"}, s.dlgs = {d}, d = "affinity" => Fair(s, e)
    PROVE  ShowsOne(s, DialogFrame(s, e), d)
  <1> DEFINE x == DialogFrame(s, e)
             sheet == ControlsFrame(s, "props", e)
             still == [e EXCEPT !.at = "none"]
  <1>1. x = IF d = "end" THEN EndTaskFrame(s, e)
            ELSE IF d = "signout" THEN SignOutFrame(s, e)
            ELSE IF d = "service" THEN ServiceFrame(s, e)
            ELSE IF d = "clear" THEN ClearFrame(s, e)
            ELSE IF d = "uac" THEN UacFrame(s, e)
            ELSE IF d = "startup" THEN StartupFrame(s, e)
            ELSE IF d = "affinity" THEN AffinityFrame(s, e)
            ELSE IF d = "run" THEN RunFrame(s, e)
            ELSE IF d = "help" THEN HelpFrame(s, e)
            ELSE IF d = "props" THEN IF "unload" \in sheet.dlgs THEN UnloadFrame(sheet, still) ELSE sheet
            ELSE ControlsFrame(s, d, e)
    <2> HIDE DEF sheet, still
    <2>1. (IF "unload" \in s.dlgs THEN "unload" ELSE CHOOSE y \in s.dlgs : TRUE) = d
      OBVIOUS
    <2>2. s.dlgs # {} /\ d # "unload"
      OBVIOUS
    <2> QED BY <2>1, <2>2 DEF DialogFrame, sheet, still
  <1> HIDE DEF x, sheet, still
  <1>2. CASE d \in Confirms
    <2>1. d \notin {"startup", "affinity", "run", "help", "props", "columns", "settings"} /\ s.flag[d] \in BOOLEAN \cup {Unset}
      BY <1>2 DEF Confirms, Flagged
    <2>2. Shows(s, x, d)
      BY <1>1, <1>2, <2>1, ConfirmFrames DEF Confirms
    <2> QED BY <2>1, <2>2 DEF ShowsOne, x
  <1>3. CASE d = "startup"
    <2>1. Shows(s, x, d)
      BY <1>1, <1>3, StartupShows DEF Flagged
    <2> QED BY <1>3, <2>1 DEF ShowsOne, x
  <1>4. CASE d = "affinity"
    <2>1. x = AffinityFrame(s, e) /\ s.flag["affinity"] \in BOOLEAN \cup {Unset}
      BY <1>1, <1>4 DEF Flagged
    <2>2. /\ Shows(s, x, "affinity")
          /\ x.keep["affinity"] = Unset => x.flag["affinity"] = Unset
          /\ x.answer[2] = "primary" => x.touched
          /\ "affinity" \in x.dlgs /\ (x.focus = "primary" \/ x.flag["affinity"] = TRUE) => x.touched
      BY <1>4, <2>1, AffinityShows DEF Clean
    <2> QED BY <1>4, <2>2 DEF ShowsOne, x
  <1>5. CASE d = "run"
    <2>1. Shows(s, x, d)
      BY <1>1, <1>5, RunShows DEF Flagged
    <2> QED BY <1>5, <2>1 DEF ShowsOne, x
  <1>6. CASE d = "help"
    <2>1. Shows(s, x, d)
      BY <1>1, <1>6, HelpShows DEF Flagged
    <2> QED BY <1>6, <2>1 DEF ShowsOne, x
  <1>7. CASE d = "props"
    <2>1. s.flag["props"] \in BOOLEAN \cup {Unset}
      BY <1>7 DEF Flagged
    <2>2. Shows(s, sheet, "props") \/ AsksFirst(s, sheet)
      BY <2>1, ControlsShow DEF sheet
    <2>3. CASE Shows(s, sheet, "props")
      <3>1. "unload" \notin sheet.dlgs
        BY <1>7, <2>3 DEF Shows, Stays, Closes, Drops
      <3>2. Shows(s, x, d)
        BY <1>1, <1>7, <2>3, <3>1
      <3> QED BY <1>7, <3>2 DEF ShowsOne, x
    <2>4. CASE AsksFirst(s, sheet)
      <3>1. "unload" \in sheet.dlgs /\ sheet \in Guis /\ sheet.answer = None
        BY <2>4 DEF AsksFirst
      <3>2. sheet.flag["unload"] = s.flag["unload"] /\ "unload" \in DialogKinds
        BY <2>4 DEF AsksFirst, Others, DialogKinds
      <3>3. still \in Gestures
        BY DEF Gestures, Spots, still
      <3>4. Shows(sheet, UnloadFrame(sheet, still), "unload")
        BY <3>1, <3>2, <3>3, UnloadShows DEF Flagged
      <3>5. x = UnloadFrame(sheet, still)
        BY <1>1, <1>7, <3>1
      <3> QED BY <1>7, <2>4, <3>4, <3>5 DEF ShowsOne, x
    <2> QED BY <2>2, <2>3, <2>4
  <1>8. CASE d \in {"columns", "settings"}
    <2>1. x = ControlsFrame(s, d, e) /\ s.flag[d] \in BOOLEAN \cup {Unset} /\ d # "props" /\ d # "affinity"
      BY <1>1, <1>8 DEF Flagged
    <2>2. Shows(s, x, d)
      BY <1>8, <2>1, ControlsShow
    <2> QED BY <2>1, <2>2 DEF ShowsOne, x
  <1> QED BY <1>2, <1>3, <1>4, <1>5, <1>6, <1>7, <1>8 DEF DialogKinds

LEMMA PairShows ==
    ASSUME NEW s \in Guis, NEW e \in Gestures, s.answer = None, Flagged(s), s.dlgs = {"props", "unload"}
    PROVE  Shows(s, DialogFrame(s, e), "unload")
  <1>1. DialogFrame(s, e) = UnloadFrame(s, e)
    <2>1. "unload" \in s.dlgs /\ s.dlgs # {}
      OBVIOUS
    <2> QED BY <2>1 DEF DialogFrame
  <1>2. s.flag["unload"] \in BOOLEAN \cup {Unset}
    BY DEF Flagged, DialogKinds
  <1> QED BY <1>1, <1>2, UnloadShows

------------------------------------------------------------------------------
(* The end of the frame.                                                    *)

EndFocus(s) == IF s.key = "esc" /\ s.focus = Nothing THEN "list" ELSE IF s.focus \in PageWidgets THEN s.focus ELSE Nothing

IsEnded(s, r, over) ==
    /\ r \in Guis /\ r.dlgs = s.dlgs /\ r.menu = s.menu /\ r.keep = s.keep /\ r.flag = s.flag /\ r.parked = s.parked
    /\ r.answer = s.answer /\ r.shade = over
    /\ r.owner = IF s.menu THEN s.owner ELSE Unset
    /\ r.touched <=> s.touched /\ (s.dlgs # {} \/ s.answer # None)
    /\ s.menu \/ s.dlgs # {} => r.focus = s.focus
    /\ Quiet(s) /\ s.owner \in PageWidgets => r.focus = s.owner
    /\ Quiet(s) /\ s.owner = Unset => r.focus = EndFocus(s)

LEMMA Ended ==
    ASSUME NEW s \in Guis, NEW over \in BOOLEAN, s.owner \in PageWidgets \cup {Unset}, s.menu => s.dlgs = {}
    PROVE  IsEnded(s, EndFrame(s, over), over)
  <1> DEFINE tf == IF s.owner \in {Unset, Nothing} \/ Modal(s) THEN s.focus ELSE s.owner
             t == IF s.menu THEN s ELSE [s EXCEPT !.owner = Unset, !.focus = IF s.owner \in {Unset, Nothing} \/ Modal(s) THEN @ ELSE s.owner]
             u == IF ~Modal(t) /\ ~t.menu /\ t.key = "esc" /\ t.focus = Nothing THEN [t EXCEPT !.focus = "list"] ELSE t
             been == u.touched /\ (Modal(u) \/ u.answer # <<"none", "none">>)
             rf == IF Modal(u) \/ u.menu \/ u.focus \in PageWidgets THEN u.focus ELSE Nothing
             r == EndFrame(s, over)
  <1>1. r = [u EXCEPT !.shade = over, !.key = "none", !.start = Nothing, !.touched = @ /\ (Modal(u) \/ u.answer # <<"none", "none">>),
                      !.focus = IF Modal(u) \/ u.menu \/ @ \in PageWidgets THEN @ ELSE Nothing]
    BY Zenon DEF EndFrame
  <1> HIDE DEF r
  <1>2. /\ t \in Guis /\ t.dlgs = s.dlgs /\ t.menu = s.menu /\ t.keep = s.keep /\ t.flag = s.flag
        /\ t.parked = s.parked /\ t.answer = s.answer /\ t.touched = s.touched /\ t.key = s.key
        /\ t.owner = IF s.menu THEN s.owner ELSE Unset
        /\ t.focus = IF s.menu THEN s.focus ELSE tf
    <2>1. tf \in Widgets
      BY DEF Guis, Widgets
    <2> HIDE DEF tf
    <2>2. CASE s.menu
      BY <2>2
    <2>3. CASE ~s.menu
      <3>1. t = [s EXCEPT !.owner = Unset, !.focus = tf]
        BY <2>3 DEF tf
      <3> HIDE DEF t
      <3> QED BY <2>1, <2>3, <3>1 DEF Guis
    <2> QED BY <2>2, <2>3
  <1> HIDE DEF t
  <1>3. /\ u \in Guis /\ u.dlgs = s.dlgs /\ u.menu = s.menu /\ u.keep = s.keep /\ u.flag = s.flag
        /\ u.parked = s.parked /\ u.answer = s.answer /\ u.touched = s.touched /\ u.owner = t.owner
        /\ u.focus = IF ~Modal(t) /\ ~t.menu /\ t.key = "esc" /\ t.focus = Nothing THEN "list" ELSE t.focus
    <2>1. "list" \in Widgets
      BY DEF Widgets, PageWidgets
    <2> QED BY <1>2, <2>1 DEF Guis
  <1> HIDE DEF u
  <1>4. rf \in Widgets /\ been \in BOOLEAN
    BY <1>3 DEF Guis, Widgets
  <1>5. r = [u EXCEPT !.shade = over, !.key = "none", !.start = Nothing, !.touched = been, !.focus = rf]
    BY <1>1
  <1>6. been <=> s.touched /\ (s.dlgs # {} \/ s.answer # None)
    BY <1>3 DEF Modal, None
  <1>7. rf = IF s.dlgs # {} \/ s.menu \/ u.focus \in PageWidgets THEN u.focus ELSE Nothing
    BY <1>3 DEF Modal
  <1> HIDE DEF been, rf
  <1>8. /\ r \in Guis /\ r.dlgs = u.dlgs /\ r.menu = u.menu /\ r.keep = u.keep /\ r.flag = u.flag /\ r.parked = u.parked
        /\ r.answer = u.answer /\ r.shade = over /\ r.owner = u.owner /\ r.touched = been /\ r.focus = rf
    <2> DEFINE r1 == [u EXCEPT !.shade = over, !.key = "none", !.start = Nothing]
    <2>1. "none" \in DialogKeys /\ Nothing \in Widgets
      BY DEF DialogKeys, Widgets
    <2>2. /\ r1 \in Guis /\ r1.dlgs = u.dlgs /\ r1.menu = u.menu /\ r1.keep = u.keep /\ r1.flag = u.flag /\ r1.parked = u.parked
          /\ r1.answer = u.answer /\ r1.shade = over /\ r1.owner = u.owner
      BY <1>3, <2>1 DEF Guis
    <2>3. r = [r1 EXCEPT !.touched = been, !.focus = rf]
      BY <1>3, <1>5 DEF Guis
    <2> HIDE DEF r1
    <2> QED BY <1>4, <2>2, <2>3 DEF Guis
  <1>9. s.menu \/ s.dlgs # {} => rf = s.focus
    BY <1>2, <1>3, <1>7 DEF Modal, tf
  <1>10. CASE Quiet(s) /\ s.owner \in PageWidgets
    <2>1. t.focus = s.owner /\ s.owner # Nothing
      BY <1>2, <1>10, DialogsAssumption DEF Quiet, Modal, tf
    <2>2. u.focus = s.owner
      BY <1>3, <2>1
    <2> QED BY <1>2, <1>3, <1>6, <1>7, <1>8, <1>9, <1>10, <2>2, DialogsAssumption DEF IsEnded, r
  <1>11. CASE ~(Quiet(s) /\ s.owner \in PageWidgets)
    <2>1. Quiet(s) /\ s.owner = Unset => rf = EndFocus(s)
      <3> SUFFICES ASSUME Quiet(s), s.owner = Unset PROVE rf = EndFocus(s)
        OBVIOUS
      <3>1. t.focus = s.focus /\ t.key = s.key
        BY <1>2 DEF Quiet, tf
      <3>2. u.focus = IF s.key = "esc" /\ s.focus = Nothing THEN "list" ELSE s.focus
        BY <1>2, <1>3, <3>1 DEF Quiet, Modal
      <3> QED BY <1>7, <3>2 DEF Quiet, EndFocus, PageWidgets
    <2> QED BY <1>2, <1>3, <1>6, <1>8, <1>9, <1>11, <2>1 DEF IsEnded, r
  <1> QED BY <1>10, <1>11

------------------------------------------------------------------------------
(* What the rest of the frame starts from when the page has been drawn.     *)

\* The temporaries that a frame leaves alone while nothing is open.
Typed(s) == \A d \in DialogKinds \ {"unload"} : s.keep[d] \in Places \cup {Unset}

Mid(s, e) ==
    /\ s \in Guis /\ s.answer = None /\ Shown(s) /\ Flagged(s) /\ Clean(s) /\ Typed(s)
    /\ s.menu => s.dlgs = {} /\ s.owner \in PageWidgets
    /\ s.owner \in PageWidgets \cup {Unset}
    /\ s.keep["help"] # Unset => "help" \in s.dlgs
    /\ "props" \notin s.dlgs => s.keep["props"] = Unset /\ s.parked \in Places
    /\ \A d \in {"end", "run"} : s.flag[d] # Unset => d \in s.dlgs
    /\ \A d \in s.dlgs \ {"unload"} : Saved(s, d) \in IF d = "props" THEN PageWidgets ELSE Places
    /\ "unload" \in s.dlgs => s.keep["props"] \in PageWidgets
    /\ \A d \in Confirms : s.flag[d] # Unset => d \in s.dlgs
    /\ \A d \in Confirms : s.flag[d] = TRUE => s.touched
    /\ "affinity" \in s.dlgs => Fair(s, e)

MidBack(s, pl) ==
    /\ s.menu => s.owner = pl /\ s.parked = Nothing
    /\ Quiet(s) => \/ s.owner = pl /\ pl \in PageWidgets /\ s.parked = Nothing
                   \/ s.owner = Unset /\ (s.parked # Nothing => s.parked = pl) /\ (s.parked = Nothing => EndFocus(s) = pl)
    /\ \A d \in s.dlgs \ {"unload"} :
          /\ s.owner \in {Unset, pl} /\ (s.owner = pl => pl # Unset /\ pl # Nothing)
          /\ First(s, d) => Cap(s) = pl
          /\ ~First(s, d) => \/ s.keep[d] = pl /\ (pl = Nothing => s.parked = Nothing)
                             \/ d = "help" /\ s.keep[d] = Nothing /\ s.parked = pl
          /\ d = "startup" /\ s.owner = Unset => s.focus \notin PageWidgets

\* What the frame ends with.
Settled(s, r, pl) ==
    /\ r \in Guis /\ Shape(r) /\ Deliberate(r)
    /\ r.answer \in Destructive => r.touched
    /\ MidBack(s, pl) /\ (\A d \in DialogKinds \ {"help"} : r.keep[d] # Unset => d \in r.dlgs) => Back(r, pl)

LEMMA QuietSettles ==
    ASSUME NEW s, NEW e, NEW r, NEW pl \in Places, Mid(s, e), s.dlgs = {}, IsEnded(s, r, FALSE)
    PROVE  Settled(s, r, pl)
  <1>1. /\ r \in Guis /\ r.dlgs = {} /\ r.menu = s.menu /\ r.keep = s.keep /\ r.flag = s.flag /\ r.parked = s.parked
        /\ r.answer = None /\ ~r.shade /\ r.owner = IF s.menu THEN s.owner ELSE Unset
    BY DEF Mid, IsEnded
  <1>2. Quiet(s) => r.focus \in PageWidgets \/ r.focus = EndFocus(s)
    BY DEF Mid, IsEnded
  <1>3. EndFocus(s) \in Places
    BY DEF EndFocus, Places, PageWidgets
  <1>4. Shape(r)
    <2>1. Quiet(r) => r.focus \in Places
      BY <1>1, <1>2, <1>3 DEF Quiet, Places
    <2>2. Shown(r) /\ Flagged(r) /\ Clean(r)
      BY <1>1 DEF Mid, Shown, Flagged, Clean
    <2>3. "props" \notin r.dlgs /\ r.keep["props"] = Unset /\ r.parked \in Places
      BY <1>1 DEF Mid
    <2>4. \A d \in {"end", "run"} : r.flag[d] # Unset <=> d \in r.dlgs
      BY <1>1 DEF Mid
    <2>5. \A d \in DialogKinds \ {"unload"} : r.keep[d] \in Places \cup {Unset}
      BY <1>1 DEF Mid, Typed
    <2>6. IF r.menu THEN r.owner \in PageWidgets ELSE r.owner = Unset
      BY <1>1 DEF Mid
    <2>7. r.keep["help"] # Unset => "help" \in r.dlgs
      BY <1>1 DEF Mid
    <2> QED BY <1>1, <2>1, <2>2, <2>3, <2>4, <2>5, <2>6, <2>7, Zenon DEF Shape
  <1>5. Deliberate(r)
    BY <1>1, DialogsAssumption DEF Mid, Deliberate
  <1>6. r.answer \notin Destructive
    BY <1>1 DEF None, Destructive, Confirms
  <1>7. ASSUME MidBack(s, pl), \A d \in DialogKinds \ {"help"} : r.keep[d] # Unset => d \in r.dlgs
        PROVE  Back(r, pl)
    <2>1. \A d \in DialogKinds : r.keep[d] # Unset => d \in r.dlgs
      BY <1>1, <1>7 DEF Mid
    <2>2. r.menu => r.owner = pl /\ r.parked = Nothing
      BY <1>1, <1>7 DEF MidBack
    <2>3. Quiet(r) /\ r.parked = Nothing => r.focus = pl
      BY <1>1, <1>7, DialogsAssumption DEF MidBack, Quiet, IsEnded
    <2>4. Quiet(r) /\ r.parked # Nothing => r.parked = pl
      BY <1>1, <1>7 DEF MidBack, Quiet
    <2> QED BY <1>1, <2>1, <2>2, <2>3, <2>4 DEF Back
  <1> QED BY <1>1, <1>4, <1>5, <1>6, <1>7 DEF Settled

LEMMA OneSettles ==
    ASSUME NEW s, NEW e, NEW d \in DialogKinds \ {"unload"}, NEW x, NEW r, NEW pl \in Places,
           Mid(s, e), s.dlgs = {d}, Shows(s, x, d), IsEnded(x, r, TRUE),
           d = "affinity" =>
             /\ x.keep["affinity"] = Unset => x.flag["affinity"] = Unset
             /\ x.answer[2] = "primary" => x.touched
             /\ "affinity" \in x.dlgs /\ (x.focus = "primary" \/ x.flag["affinity"] = TRUE) => x.touched
    PROVE  Settled(s, r, pl)
  <1>1. /\ x \in Guis /\ ~x.menu /\ x.owner = s.owner /\ x.key = "none"
        /\ \A y \in DialogKinds \ {d} : x.keep[y] = s.keep[y] /\ x.flag[y] = s.flag[y]
        /\ Stays(s, x, d) \/ Closes(s, x, d) \/ Drops(s, x, d)
        /\ x.answer = None \/ x.answer \in {d} \X {"safe", "primary"}
    <2>1. ~s.menu
      BY DEF Mid
    <2> QED BY <2>1 DEF Shows, Others
  <1>2. /\ r \in Guis /\ r.dlgs = x.dlgs /\ ~r.menu /\ r.keep = x.keep /\ r.flag = x.flag /\ r.parked = x.parked
        /\ r.answer = x.answer /\ r.shade /\ r.owner = Unset
        /\ r.touched <=> x.touched /\ (x.dlgs # {} \/ x.answer # None)
        /\ x.dlgs # {} => r.focus = x.focus
    BY <1>1 DEF IsEnded
  <1>3. x.dlgs = {d} \/ x.dlgs = {}
    BY <1>1 DEF Stays, Closes, Drops
  <1>4. Saved(s, d) \in Places /\ (d = "props" => Saved(s, d) \in PageWidgets) /\ Unset \notin Places
    BY DialogsAssumption DEF Mid, Places
  <1>5. x.dlgs = {d} => Stays(s, x, d)
    BY <1>1 DEF Closes, Drops
  <1>6. x.keep[d] \in {Unset, Saved(s, d)} /\ (x.dlgs = {d} => x.keep[d] = Saved(s, d))
    BY <1>1, <1>5 DEF Stays, Closes, Drops
  <1>7. Shape(r)
    <2>1. Shown(r)
      BY <1>2, <1>3 DEF Shown
    <2>2. Flagged(r)
      <3>1. IF d = "run" THEN x.flag[d] \in Rings \cup {Unset} ELSE x.flag[d] \in BOOLEAN \cup {Unset}
        BY DEF Shows
      <3>2. Flagged(s) /\ "run" \in DialogKinds
        BY DEF Mid, DialogKinds
      <3> QED BY <1>1, <1>2, <3>1, <3>2 DEF Flagged
    <2>3. Clean(r)
      BY <1>1, <1>2 DEF Mid, Clean, DialogKinds
    <2>4. \A y \in r.dlgs : r.keep[y] # Unset
      BY <1>2, <1>3, <1>4, <1>6
    <2>5. Quiet(r) => r.focus \in Places
      <3>1. Quiet(r) => Quiet(x) /\ x.owner \in PageWidgets \cup {Unset}
        BY <1>1, <1>2 DEF Quiet, Mid
      <3>2. EndFocus(x) \in Places
        BY DEF EndFocus, Places, PageWidgets
      <3> QED BY <3>1, <3>2 DEF IsEnded, Places
    <2>6. "props" \notin r.dlgs => r.parked \in Places
      <3>1. CASE x.dlgs = {d}
        BY <1>2, <1>5, <3>1 DEF Mid, Stays, Ahead, Places
      <3>2. CASE x.dlgs = {} /\ d # "props"
        <4>1. Ahead(s, d) \in Places
          BY <3>2 DEF Mid, Ahead, Places
        <4> QED BY <1>1, <1>2, <1>4, <3>2, <4>1 DEF Stays, Closes, Drops
      <3>3. CASE x.dlgs = {} /\ d = "props"
        <4>1. Closes(s, x, d)
          BY <1>1, <3>3 DEF Stays, Drops
        <4> QED BY <1>2, <1>4, <3>3, <4>1, DialogsAssumption DEF Closes, Places
      <3> QED BY <1>3, <3>1, <3>2, <3>3
    <2>7. \A y \in DialogKinds \ {"unload"} : r.keep[y] \in Places \cup {Unset}
      BY <1>1, <1>2, <1>4, <1>6 DEF Mid, Typed
    <2>8. r.keep["help"] # Unset => "help" \in r.dlgs
      <3>1. d # "help" => s.keep["help"] = Unset
        BY DEF Mid
      <3>2. d = "help" /\ x.dlgs = {} => x.keep["help"] = Unset
        BY <1>1 DEF Stays, Closes, Drops
      <3> QED BY <1>1, <1>2, <1>3, <3>1, <3>2 DEF DialogKinds
    <2>9. IF "props" \in r.dlgs THEN r.keep["props"] \in PageWidgets ELSE r.keep["props"] = Unset
      <3>1. CASE d = "props"
        BY <1>1, <1>2, <1>3, <1>4, <1>6, <3>1 DEF Stays, Closes, Drops
      <3>2. CASE d # "props"
        BY <1>1, <1>2, <1>3, <3>2 DEF Mid, DialogKinds
      <3> QED BY <3>1, <3>2
    <2>10. \A y \in {"end", "run"} : r.flag[y] # Unset <=> y \in r.dlgs
      <3> SUFFICES ASSUME NEW y \in {"end", "run"} PROVE r.flag[y] # Unset <=> y \in r.dlgs
        OBVIOUS
      <3>1. y \in DialogKinds /\ y \in Confirms \cup {"run"}
        BY DEF DialogKinds, Confirms
      <3>2. CASE d = y
        BY <1>1, <1>2, <1>3, <1>5, <3>1, <3>2 DEF Stays, Closes, Drops
      <3>3. CASE d # y
        BY <1>1, <1>2, <1>3, <3>1, <3>3 DEF Mid
      <3> QED BY <3>2, <3>3
    <2> QED BY <1>2, <2>1, <2>2, <2>3, <2>4, <2>5, <2>6, <2>7, <2>8, <2>9, <2>10, Zenon DEF Shape, Quiet
  <1>8. d \in Confirms => (x.flag[d] = TRUE \/ x.answer[2] = "primary" => x.touched)
    BY DEF Mid, Shows
  <1>9. Deliberate(r)
    <2>1. ASSUME NEW y \in Confirms
          PROVE  (r.flag[y] # Unset => y \in r.dlgs) /\ (r.flag[y] = TRUE => r.touched)
      <3>1. y \in DialogKinds
        BY DEF DialogKinds
      <3>2. CASE d = y
        <4>1. x.dlgs # {d} => x.flag[d] = Unset
          <5>1. d \notin {"affinity", "columns", "startup"}
            BY <2>1, <3>2 DEF Confirms
          <5> QED BY <1>1, <2>1, <3>2, <5>1 DEF Stays, Closes, Drops
        <4> QED BY <1>2, <1>8, <3>2, <4>1, <2>1, DialogsAssumption
      <3>3. CASE d # y
        <4>1. r.flag[y] = Unset
          BY <1>1, <1>2, <2>1, <3>1, <3>3 DEF Mid
        <4> QED BY <4>1, DialogsAssumption
      <3> QED BY <3>2, <3>3
    <2>2. "affinity" \in r.dlgs /\ (r.focus = "primary" \/ r.flag["affinity"] = TRUE) => r.touched
      BY <1>2, <1>3
    <2> QED BY <2>1, <2>2 DEF Deliberate
  <1>10. r.answer \in Destructive => r.touched
    <2> SUFFICES ASSUME r.answer \in Destructive PROVE r.touched
      OBVIOUS
    <2>1. x.answer # None /\ x.answer \in {d} \X {"safe", "primary"}
      BY <1>1, <1>2 DEF None, Destructive
    <2>2. d \in Confirms \cup {"affinity"} /\ x.answer[2] = "primary"
      BY <1>2, <2>1 DEF Destructive
    <2> QED BY <1>2, <1>8, <2>1, <2>2
  <1>11. ASSUME MidBack(s, pl), \A y \in DialogKinds \ {"help"} : r.keep[y] # Unset => y \in r.dlgs
         PROVE  Back(r, pl)
    <2>1. \A y \in DialogKinds : r.keep[y] # Unset => y \in r.dlgs
      BY <1>7, <1>11 DEF Shape
    <2>2. /\ s.owner \in {Unset, pl} /\ (s.owner = pl => pl # Unset /\ pl # Nothing)
          /\ First(s, d) => Cap(s) = pl
          /\ ~First(s, d) => \/ s.keep[d] = pl /\ (pl = Nothing => s.parked = Nothing)
                             \/ d = "help" /\ s.keep[d] = Nothing /\ s.parked = pl
          /\ d = "startup" /\ s.owner = Unset => s.focus \notin PageWidgets
      BY <1>11 DEF MidBack
    <2>3. \/ Saved(s, d) = pl /\ (pl = Nothing => Ahead(s, d) = Nothing)
          \/ d = "help" /\ Saved(s, d) = Nothing /\ Ahead(s, d) = pl
      BY <2>2 DEF Saved, Ahead
    <2>4. CASE x.dlgs = {d}
      <3>1. x.keep[d] = Saved(s, d) /\ x.parked = Ahead(s, d)
        BY <1>5, <2>4 DEF Stays
      <3> QED BY <1>2, <2>1, <2>3, <2>4, <3>1 DEF Back, Quiet
    <2>5. CASE x.dlgs = {}
      <3>1. x.keep[d] = Unset
        <4>1. d # "help" => x.keep[d] = Unset
          BY <1>2, <1>11, <2>5
        <4>2. d = "help" => ~Drops(s, x, d)
          BY DEF Drops
        <4> QED BY <1>1, <2>5, <4>1, <4>2 DEF Stays, Closes
      <3>2. x.parked = IF Saved(s, d) \in {Unset, Nothing} THEN Ahead(s, d) ELSE Saved(s, d)
        BY <1>1, <1>4, <2>5, <3>1 DEF Stays, Closes, Drops
      <3>3. x.parked = pl
        BY <1>4, <2>3, <3>2
      <3>4. r.focus \in {Nothing, pl}
        <4>1. CASE s.owner = Unset
          <5>1. x.focus \notin PageWidgets
            BY <2>2, <4>1 DEF Shows
          <5>2. EndFocus(x) = Nothing
            BY <1>1, <5>1 DEF EndFocus
          <5>3. r.focus = EndFocus(x)
            BY <1>1, <2>5, <4>1 DEF IsEnded, Quiet
          <5> QED BY <5>2, <5>3
        <4>2. CASE s.owner # Unset
          <5>1. s.owner \in PageWidgets /\ s.owner = pl
            BY <2>2, <4>2 DEF Mid
          <5> QED BY <1>1, <2>5, <5>1 DEF IsEnded, Quiet
        <4> QED BY <4>1, <4>2
      <3> QED BY <1>2, <2>1, <2>5, <3>3, <3>4 DEF Back
    <2> QED BY <1>3, <2>4, <2>5
  <1> QED BY <1>2, <1>7, <1>9, <1>10, <1>11 DEF Settled

\* The unload confirmation on top of the properties.
Asking(y) ==
    /\ y \in Guis /\ y.dlgs = {"props", "unload"} /\ ~y.menu /\ y.owner \in PageWidgets \cup {Unset}
    /\ Flagged(y) /\ Clean(y) /\ Typed(y)
    /\ y.keep["props"] \in PageWidgets /\ y.keep["help"] = Unset
    /\ \A d \in Confirms \cup {"run"} : y.flag[d] = Unset

LEMMA AskingSettles ==
    ASSUME NEW s, NEW y, NEW x, NEW r, NEW pl \in Places,
           Asking(y), Shows(y, x, "unload"), IsEnded(x, r, TRUE),
           MidBack(s, pl) => y.keep["props"] = pl
    PROVE  Settled(s, r, pl)
  <1>1. /\ x \in Guis /\ ~x.menu /\ x.owner = y.owner
        /\ \A d \in DialogKinds \ {"unload"} : x.keep[d] = y.keep[d] /\ x.flag[d] = y.flag[d]
        /\ Stays(y, x, "unload") \/ Closes(y, x, "unload")
        /\ x.answer = None \/ x.answer \in {"unload"} \X {"safe", "primary"}
        /\ x.flag["unload"] \in BOOLEAN \cup {Unset}
    BY DEF Asking, Shows, Others, Drops
  <1>2. /\ x.dlgs = {"props"} \/ (x.dlgs = {"props", "unload"} /\ x.keep["unload"] # Unset)
    <2>1. "unload" \in DialogKinds /\ "unload" \notin {"end", "run", "help"}
      BY DEF DialogKinds
    <2>2. Saved(y, "unload") # Unset
      BY <2>1, CapTyped DEF Saved, First, Asking
    <2> QED BY <1>1, <2>2 DEF Stays, Closes, Asking
  <1>3. /\ r \in Guis /\ r.dlgs = x.dlgs /\ ~r.menu /\ r.keep = x.keep /\ r.flag = x.flag
        /\ r.answer = x.answer /\ r.shade /\ r.owner = Unset
    BY <1>1 DEF IsEnded
  <1>4. r.keep["props"] \in PageWidgets /\ r.keep["props"] = y.keep["props"] /\ Unset \notin PageWidgets
    BY <1>1, <1>3, DialogsAssumption DEF Asking, DialogKinds
  <1>5. \A d \in Confirms \cup {"run"} : r.flag[d] = Unset /\ d \notin r.dlgs
    <2>1. Confirms \cup {"run"} \subseteq DialogKinds \ {"unload", "props"}
      BY DEF Confirms, DialogKinds
    <2> QED BY <1>1, <1>2, <1>3, <2>1 DEF Asking
  <1>6. Shape(r)
    <2>1. Shown(r)
      BY <1>2, <1>3 DEF Shown, DialogKinds
    <2>2. Flagged(r) /\ Clean(r)
      BY <1>1, <1>3 DEF Asking, Flagged, Clean, DialogKinds
    <2>3. \A d \in r.dlgs : r.keep[d] # Unset
      BY <1>2, <1>3, <1>4
    <2>4. \A d \in DialogKinds \ {"unload"} : r.keep[d] \in Places \cup {Unset}
      BY <1>1, <1>3 DEF Asking, Typed
    <2>5. r.keep["help"] = Unset
      BY <1>1, <1>3 DEF Asking, DialogKinds
    <2>6. \A d \in {"end", "run"} : r.flag[d] # Unset <=> d \in r.dlgs
      BY <1>5 DEF Confirms
    <2>7. r.dlgs # {} /\ "props" \in r.dlgs
      BY <1>2, <1>3
    <2> QED BY <1>3, <1>4, <2>1, <2>2, <2>3, <2>4, <2>5, <2>6, <2>7, Zenon DEF Shape, Quiet
  <1>7. Deliberate(r)
    <2>1. "affinity" \notin r.dlgs
      BY <1>2, <1>3
    <2> QED BY <1>5, <2>1, DialogsAssumption DEF Deliberate
  <1>8. r.answer \notin Destructive
    BY <1>1, <1>3 DEF None, Destructive, Confirms
  <1>9. ASSUME MidBack(s, pl), \A d \in DialogKinds \ {"help"} : r.keep[d] # Unset => d \in r.dlgs
        PROVE  Back(r, pl)
    <2>1. \A d \in DialogKinds : r.keep[d] # Unset => d \in r.dlgs
      BY <1>6, <1>9 DEF Shape
    <2>2. r.keep["props"] = pl /\ pl # Nothing
      BY <1>4, <1>9, DialogsAssumption
    <2>3. r.dlgs \ {"unload"} = {"props"} /\ r.dlgs # {}
      BY <1>2, <1>3
    <2> QED BY <1>3, <2>1, <2>2, <2>3 DEF Back, Quiet
  <1> QED BY <1>3, <1>6, <1>7, <1>8, <1>9 DEF Settled

LEMMA PairSettles ==
    ASSUME NEW s, NEW e, NEW x, NEW r, NEW pl \in Places,
           Mid(s, e), s.dlgs = {"props", "unload"}, Shows(s, x, "unload"), IsEnded(x, r, TRUE)
    PROVE  Settled(s, r, pl)
  <1>1. s.keep["props"] \in PageWidgets /\ Unset \notin PageWidgets
    BY DialogsAssumption DEF Mid
  <1>2. Asking(s)
    <2>1. \A d \in Confirms \cup {"run"} : s.flag[d] = Unset
      BY DEF Mid, Confirms
    <2>2. s.keep["help"] = Unset /\ ~s.menu
      BY DEF Mid
    <2> QED BY <1>1, <2>1, <2>2 DEF Mid, Asking
  <1>3. MidBack(s, pl) => s.keep["props"] = pl
    <2>1. ~First(s, "props") /\ "props" \in s.dlgs \ {"unload"}
      BY <1>1 DEF First
    <2> QED BY <2>1 DEF MidBack
  <1> QED BY <1>2, <1>3, AskingSettles

LEMMA AskedSettles ==
    ASSUME NEW s, NEW e, NEW y, NEW x, NEW r, NEW pl \in Places,
           Mid(s, e), s.dlgs = {"props"}, AsksFirst(s, y), Shows(y, x, "unload"), IsEnded(x, r, TRUE)
    PROVE  Settled(s, r, pl)
  <1>1. PICK v : /\ Held(s, v, "props")
                 /\ y \in Guis /\ Others(s, y, "props") /\ y.dlgs = s.dlgs \cup {"unload"} /\ y.keep = v.keep
                 /\ y.parked = v.parked /\ y.answer = None /\ y.focus = v.focus /\ y.flag = v.flag
    BY DEF AsksFirst
  <1>2. y.keep["props"] = Saved(s, "props") /\ Saved(s, "props") \in PageWidgets
    BY <1>1 DEF Held, Mid
  <1>3. /\ ~y.menu /\ y.owner = s.owner /\ y.dlgs = {"props", "unload"} /\ y.flag["props"] \in BOOLEAN \cup {Unset}
        /\ \A d \in DialogKinds \ {"props"} : y.keep[d] = s.keep[d] /\ y.flag[d] = s.flag[d]
    BY <1>1 DEF Mid, Others, Held
  <1>4. Asking(y)
    <2>1. \A d \in Confirms \cup {"run"} : y.flag[d] = Unset
      <3>1. Confirms \cup {"run"} \subseteq DialogKinds \ {"props"}
        BY DEF Confirms, DialogKinds
      <3>2. \A d \in Confirms \cup {"run"} : s.flag[d] = Unset
        BY <3>1 DEF Mid
      <3> QED BY <1>3, <3>1, <3>2
    <2>2. y.keep["help"] = Unset
      BY <1>3 DEF Mid, DialogKinds
    <2>3. Flagged(y)
      BY <1>3 DEF Mid, Flagged, DialogKinds
    <2>4. Clean(y)
      BY <1>3 DEF Mid, Clean, DialogKinds
    <2>5. Typed(y)
      BY <1>2, <1>3 DEF Mid, Typed, Places
    <2>6. y.owner \in PageWidgets \cup {Unset}
      BY <1>3 DEF Mid
    <2> QED BY <1>1, <1>2, <1>3, <2>1, <2>2, <2>3, <2>4, <2>5, <2>6 DEF Asking
  <1>5. MidBack(s, pl) => y.keep["props"] = pl
    <2>1. MidBack(s, pl) => Saved(s, "props") = pl
      BY DEF MidBack, Saved
    <2> QED BY <1>2, <2>1
  <1> QED BY <1>1, <1>4, <1>5, AskingSettles

\* The rest of the frame, whatever is open.
LEMMA Settles ==
    ASSUME NEW s, NEW e \in Gestures, NEW pl \in Places, Mid(s, e)
    PROVE  Settled(s, EndFrame(DialogFrame(s, e), Modal(s)), pl)
  <1> DEFINE x == DialogFrame(s, e)
             r == EndFrame(x, Modal(s))
  <1>1. s \in Guis /\ s.answer = None /\ Flagged(s) /\ Clean(s) /\ Shown(s)
    BY DEF Mid
  <1>2. CASE s.dlgs = {}
    <2>1. x = s /\ Modal(s) = FALSE
      BY <1>2 DEF DialogFrame, Modal
    <2>2. s.owner \in PageWidgets \cup {Unset}
      BY DEF Mid
    <2>3. IsEnded(s, EndFrame(s, FALSE), FALSE)
      BY <1>1, <1>2, <2>2, Ended
    <2>4. IsEnded(s, r, FALSE)
      BY <2>1, <2>3
    <2> HIDE DEF r
    <2>5. Settled(s, r, pl)
      BY <1>2, <2>4, QuietSettles
    <2> QED BY <2>5 DEF r
  <1>3. ASSUME s.dlgs # {}, x \in Guis, ~x.menu, x.owner = s.owner
        PROVE  IsEnded(x, r, TRUE)
    <2>1. Modal(s) = TRUE
      BY <1>3 DEF Modal
    <2>2. x.owner \in PageWidgets \cup {Unset}
      BY <1>3 DEF Mid
    <2> HIDE DEF x
    <2>3. IsEnded(x, EndFrame(x, TRUE), TRUE)
      BY <1>3, <2>2, Ended
    <2> QED BY <2>1, <2>3
  <1> HIDE DEF r
  <1>4. s.dlgs # {} => ~s.menu
    BY DEF Mid
  <1>5. CASE s.dlgs = {"props", "unload"}
    <2>1. Shows(s, x, "unload")
      BY <1>1, <1>5, PairShows
    <2> HIDE DEF x
    <2>2. IsEnded(x, r, TRUE)
      BY <1>3, <1>4, <1>5, <2>1 DEF Shows, Others
    <2>3. Settled(s, r, pl)
      BY <1>5, <2>1, <2>2, PairSettles
    <2> QED BY <2>3 DEF r, x
  <1>6. ASSUME NEW d \in DialogKinds \ {"unload"}, s.dlgs = {d}
        PROVE  Settled(s, r, pl)
    <2>1. d = "affinity" => Fair(s, e)
      BY <1>6 DEF Mid
    <2>2. ShowsOne(s, x, d)
      BY <1>1, <1>6, <2>1, OneShows
    <2> HIDE DEF x
    <2>3. CASE /\ Shows(s, x, d)
               /\ d = "affinity" =>
                    /\ x.keep["affinity"] = Unset => x.flag["affinity"] = Unset
                    /\ x.answer[2] = "primary" => x.touched
                    /\ "affinity" \in x.dlgs /\ (x.focus = "primary" \/ x.flag["affinity"] = TRUE) => x.touched
      <3>1. IsEnded(x, r, TRUE)
        BY <1>3, <1>4, <1>6, <2>3 DEF Shows, Others
      <3> QED BY <1>6, <2>3, <3>1, OneSettles
    <2>4. CASE d = "props" /\ \E y : AsksFirst(s, y) /\ Shows(y, x, "unload")
      <3>1. PICK y : AsksFirst(s, y) /\ Shows(y, x, "unload")
        BY <2>4
      <3>2. x \in Guis /\ ~x.menu /\ x.owner = s.owner
        BY <1>4, <1>6, <3>1 DEF AsksFirst, Shows, Others
      <3>3. IsEnded(x, r, TRUE)
        BY <1>3, <1>6, <3>2
      <3> QED BY <1>6, <2>4, <3>1, <3>3, AskedSettles
    <2> QED BY <2>2, <2>3, <2>4 DEF ShowsOne
  <1> QED BY <1>1, <1>2, <1>5, <1>6 DEF Shown, r, x

------------------------------------------------------------------------------
(* The front of the frame: the hand-back, the global keys and the page.     *)

\* What Possible and Inputs say of an input.
Given(g, e) ==
    /\ e \in Gestures
    /\ e.at = "none" \/ e.key = "none" \/ (e.at = "button" /\ e.key \in {"f1", "run", "delete"})
    /\ e.at \in {"list", "search", "button"} => g.dlgs = {}
    /\ e.at = "row" => Quiet(g)
    /\ e.at = "entry" => g.menu
    /\ e.at \in {"safe", "primary", "body", "x", "hold"} => g.dlgs # {}
    /\ "props" \notin g.dlgs => e.pick \in DialogKinds \ {"unload", "help"}

Drop(g, e) ==
    \/ e.key = "esc"
    \/ e.at # "none" /\ e.at # "hold" /\ g.parked = Nothing /\ g.dlgs = {} /\ ~(g.menu /\ e.at # "entry")

Fresh(g, e) == [g EXCEPT !.key = e.key, !.fresh = FALSE, !.answer = <<"none", "none">>]
Opening(g, e) ==
    LET b == BeginFrame(Fresh(g, e)) IN IF Drop(g, e) THEN [b EXCEPT !.focus = Nothing, !.start = Nothing] ELSE b

IsBegun(g, e, t) ==
    /\ t \in Guis /\ Still(g, t) /\ t.touched = g.touched /\ t.key = e.key /\ t.answer = None /\ t.start = t.focus
    /\ t.parked = IF g.parked # Nothing /\ ~g.shade THEN Nothing ELSE g.parked
    /\ t.focus = IF Drop(g, e) THEN Nothing ELSE IF g.parked # Nothing /\ ~g.shade THEN g.parked ELSE g.focus

LEMMA Begins ==
    ASSUME NEW g \in Guis, NEW e \in Gestures
    PROVE  IsBegun(g, e, Opening(g, e))
  <1> DEFINE f == Fresh(g, e)
             b == BeginFrame(f)
             t == Opening(g, e)
  <1>1. /\ f \in Guis /\ Still(g, f) /\ f.touched = g.touched /\ f.key = e.key /\ f.answer = None
        /\ f.focus = g.focus /\ f.parked = g.parked
    <2>1. <<"none", "none">> \in Verdict /\ e.key \in DialogKeys
      BY DEF Verdict, Gestures
    <2> QED BY <2>1 DEF Fresh, Guis, Still, None
  <1> HIDE DEF f
  <1>2. /\ b \in Guis /\ Still(f, b) /\ b.touched = f.touched /\ b.start = b.focus
        /\ b.key = f.key /\ b.answer = f.answer
        /\ f.parked # Nothing /\ ~f.shade => b.focus = f.parked /\ b.parked = Nothing
        /\ f.parked = Nothing \/ f.shade => b.focus = f.focus /\ b.parked = f.parked
    BY <1>1, Began
  <1> HIDE DEF b
  <1>3. t = IF Drop(g, e) THEN [b EXCEPT !.focus = Nothing, !.start = Nothing] ELSE b
    BY DEF Opening, b, f
  <1> HIDE DEF t
  <1>4. /\ t \in Guis /\ Still(b, t) /\ t.touched = b.touched /\ t.key = b.key /\ t.answer = b.answer
        /\ t.start = t.focus /\ t.parked = b.parked
        /\ t.focus = IF Drop(g, e) THEN Nothing ELSE b.focus
    <2>1. CASE Drop(g, e)
      <3>1. t = [b EXCEPT !.focus = Nothing, !.start = Nothing] /\ Nothing \in Widgets
        BY <1>3, <2>1 DEF Widgets
      <3> QED BY <1>2, <2>1, <3>1 DEF Guis, Still
    <2>2. CASE ~Drop(g, e)
      BY <1>2, <1>3, <2>2 DEF Still
    <2> QED BY <2>1, <2>2
  <1>5. g.shade = f.shade
    BY <1>1 DEF Still
  <1>6. Still(g, t)
    BY <1>1, <1>2, <1>4 DEF Still
  <1>7. t.parked = IF g.parked # Nothing /\ ~g.shade THEN Nothing ELSE g.parked
    BY <1>1, <1>2, <1>4, <1>5
  <1>8. t.focus = IF Drop(g, e) THEN Nothing ELSE IF g.parked # Nothing /\ ~g.shade THEN g.parked ELSE g.focus
    BY <1>1, <1>2, <1>4, <1>5
  <1> QED BY <1>1, <1>2, <1>4, <1>6, <1>7, <1>8 DEF IsBegun, t

\* The page behind a dialog, or in the frame after it, loses the focus.
Behind(s, t) ==
    /\ t \in Guis /\ Alike(s, t) /\ t.touched = s.touched /\ t.start = s.start
    /\ t.focus = IF s.focus \in PageWidgets \cup {"entry"} THEN Nothing ELSE s.focus

LEMMA PageBehind ==
    ASSUME NEW s \in Guis, NEW e, s.dlgs # {} \/ s.shade
    PROVE  Behind(s, PageFrame(s, e))
  <1> DEFINE t == PageFrame(s, e)
             f == IF s.focus \in PageWidgets \cup {"entry"} THEN Nothing ELSE s.focus
  <1>1. t = [s EXCEPT !.focus = f]
    <2>1. Modal(s) \/ s.shade
      BY DEF Modal
    <2> QED BY <2>1 DEF PageFrame
  <1>2. f \in Widgets
    BY DEF Guis, Widgets
  <1> HIDE DEF t, f
  <1>3. t \in Guis /\ t.focus = f /\ t.touched = s.touched /\ Alike(s, t)
    BY <1>1, <1>2, FocusSet
  <1>4. t.start = s.start
    BY <1>1 DEF Guis
  <1> QED BY <1>3, <1>4 DEF Behind, t, f

LEMMA ModalFront ==
    ASSUME NEW g \in Guis, Shape(g), Deliberate(g), g.dlgs # {}, NEW e, Given(g, e), NEW t, IsBegun(g, e, t),
           NEW u, u = Route(t), NEW s, s = PageFrame(u, e), NEW pl \in Places
    PROVE  /\ Mid(s, e) /\ (Back(g, pl) => MidBack(s, pl))
           /\ u.shade /\ ~u.menu /\ ~s.menu
  <1>1. /\ t \in Guis /\ t.dlgs = g.dlgs /\ ~t.menu /\ t.owner = Unset /\ t.keep = g.keep /\ t.flag = g.flag /\ t.shade
        /\ t.touched = g.touched /\ t.key = e.key /\ t.answer = None /\ t.parked = g.parked
        /\ t.focus \in {g.focus, Nothing}
    BY DEF IsBegun, Still, Shape
  <1>2. Unset \notin Places /\ Nothing \notin PageWidgets
    BY DialogsAssumption DEF Places
  <1>3. CASE "help" \in t.dlgs /\ t.key = "f1"
    <2> DEFINE h == Restored(t, "help")
    <2>1. u = TakeKey(h)
      BY <1>3 DEF Route
    <2>2. /\ h \in Guis /\ h.keep["help"] = Unset /\ h.flag["help"] = Unset /\ h.dlgs = t.dlgs \ {"help"}
          /\ \A x \in DialogKinds \ {"help"} : h.keep[x] = t.keep[x] /\ h.flag[x] = t.flag[x]
          /\ h.parked = IF t.keep["help"] \in {Unset, Nothing} THEN t.parked ELSE t.keep["help"]
          /\ h.menu = t.menu /\ h.owner = t.owner /\ h.shade = t.shade
          /\ h.touched = t.touched /\ h.answer = t.answer /\ h.focus = t.focus
      <3>1. t \in Guis /\ "help" \in DialogKinds
        BY <1>1 DEF DialogKinds
      <3>2. h = Restored(t, "help")
        OBVIOUS
      <3> HIDE DEF h
      <3> QED BY <3>1, <3>2, HandedBack
    <2> HIDE DEF h
    <2>3. /\ u \in Guis /\ Still(h, u) /\ u.key = "none" /\ u.answer = h.answer /\ u.focus = h.focus /\ u.parked = h.parked
      BY <2>1, <2>2, KeyTaken
    <2>4. Behind(u, s)
      BY <1>1, <2>2, <2>3, PageBehind DEF Still
    <2>5. /\ s \in Guis /\ s.dlgs = t.dlgs \ {"help"} /\ ~s.menu /\ s.owner = Unset /\ s.answer = None /\ s.key = "none"
          /\ s.keep["help"] = Unset /\ s.flag["help"] = Unset /\ s.parked = h.parked
          /\ \A x \in DialogKinds \ {"help"} : s.keep[x] = g.keep[x] /\ s.flag[x] = g.flag[x]
          /\ s.focus \notin PageWidgets
      BY <1>1, <1>2, <2>2, <2>3, <2>4 DEF Behind, Alike, Still
    <2>6. g.dlgs = {"help"} /\ s.dlgs = {}
      BY <1>1, <1>3, <2>5 DEF Shape, Shown
    <2>7. s.parked \in Places
      BY <1>1, <2>2, <2>5, <2>6 DEF Shape, DialogKinds
    <2>8. Mid(s, e)
      <3>1. Shown(s) /\ Flagged(s) /\ Clean(s) /\ Typed(s)
        BY <2>5, <2>6 DEF Shape, Shown, Flagged, Clean, Typed, DialogKinds
      <3>2. s.keep["props"] = Unset
        BY <2>5, <2>6 DEF Shape, DialogKinds
      <3>3. \A d \in Confirms \cup {"end", "run"} : s.flag[d] = Unset
        <4>1. Confirms \cup {"end", "run"} \subseteq DialogKinds \ {"help"}
          BY DEF Confirms, DialogKinds
        <4>2. \A d \in Confirms \cup {"end", "run"} : g.flag[d] = Unset
          BY <2>6, <4>1 DEF Shape, Deliberate
        <4> QED BY <2>5, <4>1, <4>2
      <3> QED BY <2>5, <2>6, <2>7, <3>1, <3>2, <3>3, DialogsAssumption DEF Mid
    <2>9. ASSUME Back(g, pl) PROVE MidBack(s, pl)
      <3>1. \/ g.keep["help"] = pl /\ (pl = Nothing => g.parked = Nothing)
            \/ g.keep["help"] = Nothing /\ g.parked = pl
        BY <2>6, <2>9 DEF Back
      <3>2. s.parked = pl
        BY <1>1, <1>2, <2>2, <2>5, <3>1
      <3>3. EndFocus(s) = Nothing
        BY <2>5 DEF EndFocus
      <3> QED BY <2>5, <2>6, <3>2, <3>3 DEF MidBack, Quiet
    <2> QED BY <1>1, <2>2, <2>3, <2>5, <2>8, <2>9 DEF Still
  <1>4. CASE ~("help" \in t.dlgs /\ t.key = "f1")
    <2>1. u = t
      BY <1>1, <1>4 DEF Route, Modal
    <2>2. Behind(t, s)
      BY <1>1, <2>1, PageBehind
    <2>3. /\ s \in Guis /\ s.dlgs = g.dlgs /\ ~s.menu /\ s.owner = Unset /\ s.answer = None /\ s.key = e.key
          /\ s.keep = g.keep /\ s.flag = g.flag /\ s.touched = g.touched /\ s.parked = g.parked
          /\ s.focus \notin PageWidgets /\ s.focus \in {g.focus, Nothing}
      BY <1>1, <1>2, <2>2 DEF Behind, Alike
    <2>4. \A d \in s.dlgs \ {"unload"} : ~First(s, d)
      BY <2>3 DEF First, Shape
    <2>5. \A d \in s.dlgs \ {"unload"} : Saved(s, d) \in IF d = "props" THEN PageWidgets ELSE Places
      <3> SUFFICES ASSUME NEW d \in s.dlgs \ {"unload"} PROVE Saved(s, d) \in IF d = "props" THEN PageWidgets ELSE Places
        OBVIOUS
      <3>1. Saved(s, d) = g.keep[d] /\ d \in DialogKinds
        BY <2>3, <2>4 DEF Saved, Guis
      <3>2. g.keep[d] # Unset /\ g.keep[d] \in Places \cup {Unset}
        BY <2>3, <3>1 DEF Shape
      <3>3. d = "props" => g.keep[d] \in PageWidgets
        BY <2>3 DEF Shape
      <3> QED BY <3>1, <3>2, <3>3
    <2>6. Mid(s, e)
      <3>1. Shown(s) /\ Flagged(s) /\ Clean(s) /\ Typed(s)
        BY <2>3 DEF Shape, Shown, Flagged, Clean, Typed
      <3>2. "unload" \in s.dlgs => s.keep["props"] \in PageWidgets
        BY <2>3, <3>1 DEF Shape, Shown
      <3>3. "affinity" \in s.dlgs => Fair(s, e)
        BY <2>3, DialogsAssumption DEF Deliberate, Fair
      <3>4. "props" \notin s.dlgs => s.keep["props"] = Unset /\ s.parked \in Places
        BY <2>3 DEF Shape
      <3>5. /\ \A d \in {"end", "run"} : s.flag[d] # Unset => d \in s.dlgs
            /\ \A d \in Confirms : s.flag[d] # Unset => d \in s.dlgs
            /\ \A d \in Confirms : s.flag[d] = TRUE => s.touched
            /\ s.keep["help"] # Unset => "help" \in s.dlgs
        BY <2>3 DEF Shape, Deliberate
      <3> QED BY <2>3, <2>5, <3>1, <3>2, <3>3, <3>4, <3>5 DEF Mid
    <2>7. ASSUME Back(g, pl) PROVE MidBack(s, pl)
      <3>1. \A d \in s.dlgs \ {"unload"} :
               \/ s.keep[d] = pl /\ (pl = Nothing => s.parked = Nothing)
               \/ d = "help" /\ s.keep[d] = Nothing /\ s.parked = pl
        BY <2>3, <2>7 DEF Back
      <3> QED BY <1>2, <2>3, <2>4, <3>1 DEF MidBack, Quiet
    <2> QED BY <1>1, <2>1, <2>3, <2>6, <2>7
  <1> QED BY <1>3, <1>4

\* Nothing is open: what the temporaries then are.
Idle(s) ==
    /\ s \in Guis /\ s.answer = None /\ Flagged(s) /\ Clean(s) /\ Typed(s)
    /\ s.keep["help"] = Unset /\ s.keep["props"] = Unset /\ s.parked \in Places
    /\ \A d \in Confirms \cup {"end", "run"} : s.flag[d] = Unset

LEMMA IdleBegins ==
    ASSUME NEW g \in Guis, Shape(g), Deliberate(g), g.dlgs = {}, NEW e, NEW t, IsBegun(g, e, t)
    PROVE  Idle(t) /\ t.dlgs = {} /\ t.keep = g.keep /\ t.owner = g.owner /\ t.menu = g.menu /\ t.shade = g.shade
  <1>1. t \in Guis /\ Still(g, t) /\ t.answer = None /\ t.parked \in {Nothing, g.parked}
    BY DEF IsBegun
  <1>2. Flagged(t) /\ Clean(t) /\ Typed(t) /\ t.parked \in Places /\ t.keep["help"] = Unset /\ t.keep["props"] = Unset
    BY <1>1 DEF Still, Shape, Flagged, Clean, Typed, Places
  <1>3. \A d \in Confirms \cup {"end", "run"} : t.flag[d] = Unset
    BY <1>1 DEF Still, Shape, Deliberate
  <1> QED BY <1>1, <1>2, <1>3 DEF Still, Idle

LEMMA IdleMid ==
    ASSUME NEW s, NEW e, Idle(s), s.dlgs = {}, s.owner \in PageWidgets \cup {Unset}, s.menu => s.owner \in PageWidgets
    PROVE  Mid(s, e)
  BY DialogsAssumption DEF Idle, Mid, Shown

\* The page, a menu or a key opens d.
LEMMA OpenMid ==
    ASSUME NEW s, NEW e, Idle(s), NEW d \in DialogKinds \ {"unload", "help"}, s.dlgs = {d}, ~s.menu,
           s.owner \in PageWidgets \cup {Unset}, Cap(s) \in Places, d = "props" => Cap(s) \in PageWidgets,
           d = "affinity" => Fair(s, e)
    PROVE  /\ Mid(s, e)
           /\ \A pl \in Places :
                 /\ \A x \in DialogKinds : s.keep[x] = Unset
                 /\ Cap(s) = pl /\ s.owner \in {Unset, pl}
                 /\ s.owner = Unset => s.focus \notin PageWidgets \/ d # "startup"
                 => MidBack(s, pl)
  <1>1. Saved(s, d) \in IF d = "props" THEN PageWidgets ELSE Places
    <2>1. First(s, d) => Saved(s, d) = Cap(s)
      BY DEF Saved
    <2>2. ~First(s, d) => Saved(s, d) = s.keep[d] /\ s.keep[d] # Unset /\ d # "props"
      BY DEF Saved, First, Idle, Confirms
    <2>3. s.keep[d] \in Places \cup {Unset}
      BY DEF Idle, Typed
    <2> QED BY <2>1, <2>2, <2>3
  <1>2. Mid(s, e)
    <2>1. Shown(s)
      BY DEF Shown
    <2>2. \A x \in Confirms : s.flag[x] # TRUE
      BY DialogsAssumption DEF Idle
    <2> QED BY <1>1, <2>1, <2>2 DEF Idle, Mid
  <1>3. ASSUME NEW pl \in Places, \A x \in DialogKinds : s.keep[x] = Unset,
               Cap(s) = pl, s.owner \in {Unset, pl}, s.owner = Unset => s.focus \notin PageWidgets \/ d # "startup"
        PROVE  MidBack(s, pl)
    <2>1. First(s, d)
      BY <1>3 DEF First, Idle, Confirms
    <2>2. s.owner = pl => pl # Unset /\ pl # Nothing
      BY DialogsAssumption DEF Places
    <2> QED BY <1>3, <2>1, <2>2 DEF MidBack, Quiet
  <1> QED BY <1>2, <1>3

LEMMA MenuFront ==
    ASSUME NEW g \in Guis, Shape(g), Deliberate(g), g.menu, NEW e, Given(g, e), NEW t, IsBegun(g, e, t),
           NEW u, u = Route(t), NEW s, s = PageFrame(u, e), NEW pl \in Places
    PROVE  u = t /\ u.menu /\ Mid(s, e) /\ (Back(g, pl) => MidBack(s, pl))
  <1>1. g.dlgs = {} /\ ~g.shade /\ g.owner \in PageWidgets
    BY DEF Shape
  <1>2. /\ Idle(t) /\ t.dlgs = {} /\ t.keep = g.keep /\ t.owner = g.owner /\ t.menu /\ ~t.shade
        /\ t.parked = Nothing /\ t.key = e.key /\ t.start = t.focus
    BY <1>1, IdleBegins DEF IsBegun
  <1>3. u = t
    BY <1>2 DEF Route
  <1>4. s = MenuFrame(t, e)
    BY <1>2, <1>3 DEF PageFrame, Modal
  <1>5. t \in Guis /\ Nothing \notin PageWidgets
    BY <1>2, DialogsAssumption DEF Idle
  <1>6. ASSUME Back(g, pl) PROVE t.owner = pl /\ pl \in PageWidgets /\ \A x \in DialogKinds : t.keep[x] = Unset
    BY <1>1, <1>2, <1>6 DEF Back
  <1>7. CASE Clicks(t, e.at, "entry")
    <2> DEFINE c == [t EXCEPT !.menu = FALSE]
    <2>1. s = OpenDialog(c, e.pick) /\ e.pick \in DialogKinds \ {"unload", "help"}
      BY <1>1, <1>4, <1>7 DEF MenuFrame, Given
    <2>2. c \in Guis /\ ~c.menu /\ c.focus = t.focus /\ c.start = t.start
      BY <1>5 DEF Guis
    <2>3. /\ c.dlgs = t.dlgs /\ c.keep = t.keep /\ c.flag = t.flag /\ c.parked = t.parked /\ c.answer = t.answer
          /\ c.owner = t.owner /\ c.key = t.key
      BY <1>5 DEF Guis
    <2> HIDE DEF c
    <2>4. IsOpened(c, s, e.pick)
      BY <2>1, <2>2, OpenedNow
    <2>5. /\ s \in Guis /\ s.dlgs = {e.pick} /\ ~s.menu /\ s.keep = t.keep /\ s.flag = t.flag /\ s.owner = t.owner
          /\ s.parked = t.parked /\ s.answer = t.answer /\ s.focus = t.focus /\ s.key = t.key
      BY <1>2, <2>2, <2>3, <2>4 DEF IsOpened
    <2>6. Idle(s)
      BY <1>2, <2>5 DEF Idle, Flagged, Clean, Typed
    <2>7. Cap(s) = t.owner /\ Cap(s) \in PageWidgets /\ Cap(s) \in Places
      BY <1>1, <1>2, <2>5, DialogsAssumption DEF Cap, Places
    <2>8. Fair(s, e)
      <3>1. CASE e.at = "entry"
        <4>1. e.key = "none"
          BY <3>1 DEF Given
        <4>2. t.focus \in Places
          BY <1>1, <3>1 DEF IsBegun, Drop, Shape, Places
        <4> QED BY <1>2, <2>5, <3>1, <4>1, <4>2, DialogsAssumption DEF Fair, Places, PageWidgets
      <3>2. CASE t.focus = "entry" /\ t.key \in {"enter", "space"}
        <4>1. e.at = "none"
          BY <1>2, <3>2 DEF Given
        <4> QED BY <1>2, <2>5, <3>2, <4>1, DialogsAssumption DEF Fair
      <3> QED BY <1>7, <3>1, <3>2 DEF Clicks
    <2>9. Mid(s, e)
      BY <1>1, <1>2, <2>1, <2>5, <2>6, <2>7, <2>8, OpenMid
    <2>10. Back(g, pl) => MidBack(s, pl)
      <3> SUFFICES ASSUME Back(g, pl) PROVE MidBack(s, pl)
        OBVIOUS
      <3>1. Cap(s) = pl /\ s.owner = pl /\ (\A x \in DialogKinds : s.keep[x] = Unset) /\ s.owner # Unset
        BY <1>6, <2>5, <2>7, DialogsAssumption
      <3> QED BY <1>1, <1>2, <2>1, <2>5, <2>6, <2>7, <2>8, <3>1, OpenMid
    <2> QED BY <1>2, <1>3, <2>9, <2>10
  <1>8. CASE ~Clicks(t, e.at, "entry")
    <2> DEFINE c == [t EXCEPT !.menu = FALSE]
    <2>1. s \in {c, TakeKey(c), t}
      BY <1>4, <1>8 DEF MenuFrame
    <2>2. /\ c \in Guis /\ ~c.menu /\ c.dlgs = t.dlgs /\ c.keep = t.keep /\ c.flag = t.flag /\ c.parked = t.parked
          /\ c.answer = t.answer /\ c.owner = t.owner
      BY <1>5 DEF Guis
    <2> HIDE DEF c
    <2>3. /\ TakeKey(c) \in Guis /\ Still(c, TakeKey(c)) /\ TakeKey(c).parked = c.parked /\ TakeKey(c).answer = c.answer
      BY <2>2, KeyTaken
    <2>4. /\ s \in Guis /\ s.dlgs = {} /\ s.keep = t.keep /\ s.flag = t.flag /\ s.parked = Nothing
          /\ s.answer = t.answer /\ s.owner = t.owner
      BY <1>2, <1>5, <2>1, <2>2, <2>3 DEF Still
    <2>5. Idle(s)
      BY <1>2, <2>4 DEF Idle, Flagged, Clean, Typed
    <2>6. Mid(s, e)
      BY <1>1, <1>2, <2>4, <2>5, IdleMid
    <2>7. Back(g, pl) => MidBack(s, pl)
      BY <1>6, <2>4 DEF MidBack
    <2> QED BY <1>2, <1>3, <2>6, <2>7
  <1> QED BY <1>7, <1>8

\* Whether the user moves the focus on the page, and the widget then last given it.
Moved(e, u, s) ==
    u.dlgs = {} /\ ~u.shade /\ s.focus \in PageWidgets /\ (e.at \in {"list", "search"} \/ e.key = "tab") /\ ~u.menu
PlaceOf(g, e, u, s, pl) ==
    IF Moved(e, u, s) THEN s.focus
    ELSE IF ~u.menu /\ s.menu THEN s.owner
    ELSE IF Quiet(g) /\ e.key = "esc" /\ EndFocus(s) = "list" /\ s.parked = Nothing THEN "list"
    ELSE IF Drop(g, e) /\ ~g.menu /\ e.at = "button" THEN Nothing
    ELSE pl

\* The front of the frame does its part.
Ready(g, e, u, s, pl) ==
    /\ Mid(s, e) /\ PlaceOf(g, e, u, s, pl) \in Places
    /\ Back(g, pl) \/ Moved(e, u, s) => MidBack(s, PlaceOf(g, e, u, s, pl))
    /\ Quiet(g) /\ e.key = "esc" => s.dlgs = {} /\ ~s.menu /\ s.owner = Unset

\* What a frame begins with when nothing is open.
IsQuiet(g, e, t, pl) ==
    /\ Idle(t) /\ t.dlgs = {} /\ ~t.menu /\ t.owner = Unset /\ t.key = e.key /\ t.start = t.focus
    /\ t.focus \in Places /\ (t.parked # Nothing => t.shade /\ g.parked # Nothing)
    /\ e.key = "esc" => t.focus = Nothing
    /\ Back(g, pl) =>
         /\ \A x \in DialogKinds : t.keep[x] = Unset
         /\ t.parked # Nothing => t.parked = pl /\ t.focus \in {Nothing, pl}
         /\ t.parked = Nothing => t.focus = IF Drop(g, e) THEN Nothing ELSE pl
         /\ t.parked = Nothing /\ t.shade => pl = Nothing

LEMMA QuietBegins ==
    ASSUME NEW g \in Guis, Shape(g), Deliberate(g), Quiet(g), NEW e, NEW t, IsBegun(g, e, t), NEW pl
    PROVE  IsQuiet(g, e, t, pl)
  <1>1. g.dlgs = {} /\ ~g.menu /\ g.owner = Unset /\ g.focus \in Places /\ g.parked \in Places /\ Nothing \in Places
    BY DEF Shape, Quiet, Places
  <1>2. Idle(t) /\ t.dlgs = {} /\ t.keep = g.keep /\ t.owner = Unset /\ ~t.menu /\ t.shade = g.shade
    BY <1>1, IdleBegins
  <1>3. /\ t.key = e.key /\ t.start = t.focus
        /\ t.parked = IF g.parked # Nothing /\ ~g.shade THEN Nothing ELSE g.parked
        /\ t.focus = IF Drop(g, e) THEN Nothing ELSE IF g.parked # Nothing /\ ~g.shade THEN g.parked ELSE g.focus
    BY DEF IsBegun
  <1>4. e.key = "esc" => Drop(g, e)
    BY DEF Drop
  <1>5. ASSUME Back(g, pl)
        PROVE  /\ \A x \in DialogKinds : t.keep[x] = Unset
               /\ t.parked # Nothing => t.parked = pl /\ t.focus \in {Nothing, pl}
               /\ t.parked = Nothing => t.focus = IF Drop(g, e) THEN Nothing ELSE pl
               /\ t.parked = Nothing /\ t.shade => pl = Nothing
    BY <1>1, <1>2, <1>3, <1>5 DEF Back, Quiet
  <1>6. t.focus \in Places /\ (t.parked # Nothing => t.shade /\ g.parked # Nothing)
    BY <1>1, <1>2, <1>3
  <1> QED BY <1>2, <1>3, <1>4, <1>5, <1>6 DEF IsQuiet

\* A global key opens d.
IsRouted(t, u, d) ==
    /\ u \in Guis /\ u.dlgs = {d} /\ ~u.menu /\ u.owner = Unset /\ u.flag = t.flag /\ u.answer = None
    /\ u.parked = t.parked /\ u.focus = t.focus /\ u.start = t.start
    /\ \A x \in DialogKinds \ {"help"} : u.keep[x] = t.keep[x]
    /\ u.keep["help"] = IF d = "help" THEN t.focus ELSE t.keep["help"]

LEMMA QuietRoutes ==
    ASSUME NEW g, NEW e, NEW t, NEW pl, IsQuiet(g, e, t, pl), NEW u, u = Route(t)
    PROVE  \/ u = t
           \/ /\ e.key \in {"run", "settings", "f1", "delete"}
              /\ \E d \in {"run", "settings", "end", "help"} : IsRouted(t, u, d)
  <1> DEFINE k == [t EXCEPT !.keep["help"] = t.focus]
  <1>1. t \in Guis /\ t.dlgs = {} /\ ~t.menu /\ t.owner = Unset /\ t.answer = None /\ t.key = e.key
    BY DEF IsQuiet, Idle
  <1>2. u = Shortcut(t)
    BY <1>1 DEF Route, Modal
  <1>3. /\ k \in Guis /\ k.dlgs = {} /\ ~k.menu /\ k.owner = Unset /\ k.flag = t.flag /\ k.answer = None
        /\ k.parked = t.parked /\ k.focus = t.focus /\ k.start = t.start
        /\ \A x \in DialogKinds \ {"help"} : k.keep[x] = t.keep[x]
        /\ k.keep["help"] = t.focus
    <2>1. "help" \in DialogKinds
      BY DEF DialogKinds
    <2>2. [t.keep EXCEPT !["help"] = t.focus] \in [DialogKinds -> Widgets \cup {Unset}]
      BY <1>1 DEF Guis
    <2> QED BY <1>1, <2>1, <2>2 DEF Guis
  <1> HIDE DEF k
  <1>4. {"run", "settings", "end", "help"} \subseteq DialogKinds
    BY DEF DialogKinds, Confirms
  <1>5. ASSUME NEW v \in {t, k}, NEW d \in {"run", "settings", "end", "help"}, u = TakeKey(OpenDialog(v, d)),
               IF d = "help" THEN v = k ELSE v = t
        PROVE  IsRouted(t, u, d)
    <2> DEFINE o == OpenDialog(v, d)
    <2>1. IsOpened(v, o, d)
      BY <1>1, <1>3, <1>4, OpenedNow
    <2> HIDE DEF o
    <2>2. /\ u \in Guis /\ Still(o, u) /\ u.answer = o.answer /\ u.focus = o.focus /\ u.parked = o.parked /\ u.start = o.start
      BY <1>5, <2>1, KeyTaken DEF IsOpened, o
    <2>3. /\ u \in Guis /\ u.dlgs = {d} /\ ~u.menu /\ u.owner = Unset /\ u.flag = t.flag /\ u.answer = None
          /\ u.parked = t.parked /\ u.focus = t.focus /\ u.start = t.start /\ u.keep = v.keep
      BY <1>1, <1>3, <2>1, <2>2 DEF IsOpened, Still
    <2>4. CASE d = "help"
      BY <1>3, <1>5, <2>3, <2>4 DEF IsRouted
    <2>5. CASE d # "help"
      BY <1>5, <2>3, <2>5 DEF IsRouted
    <2> QED BY <2>4, <2>5
  <1>6. \/ t.key = "run" /\ u = TakeKey(OpenDialog(t, "run"))
        \/ t.key = "settings" /\ u = TakeKey(OpenDialog(t, "settings"))
        \/ t.key = "f1" /\ u = TakeKey(OpenDialog(k, "help"))
        \/ t.key = "delete" /\ u = TakeKey(OpenDialog(t, "end"))
        \/ u = t
    BY <1>2 DEF Shortcut, k
  <1> QED BY <1>1, <1>5, <1>6

LEMMA RoutedReady ==
    ASSUME NEW g, Quiet(g), NEW e, Given(g, e), NEW pl \in Places, NEW t, IsQuiet(g, e, t, pl),
           e.key \in {"run", "settings", "f1", "delete"}, NEW d \in {"run", "settings", "end", "help"},
           NEW u, IsRouted(t, u, d), NEW s, s = PageFrame(u, e)
    PROVE  Ready(g, e, u, s, pl)
  <1> DEFINE q == PlaceOf(g, e, u, s, pl)
  <1>1. Idle(t) /\ t.start = t.focus /\ t.focus \in Places /\ t.parked \in Places
    BY DEF IsQuiet, Idle
  <1>2. Nothing \notin PageWidgets /\ Unset \notin PageWidgets /\ Unset # Nothing
    BY DialogsAssumption
  <1>3. Behind(u, s)
    BY PageBehind DEF IsRouted
  <1>4. /\ s \in Guis /\ s.dlgs = {d} /\ ~s.menu /\ s.owner = Unset /\ s.flag = t.flag /\ s.answer = None
        /\ s.parked = t.parked /\ s.start = t.focus /\ s.focus = Nothing
        /\ \A x \in DialogKinds \ {"help"} : s.keep[x] = t.keep[x]
        /\ s.keep["help"] = IF d = "help" THEN t.focus ELSE Unset
    BY <1>1, <1>2, <1>3 DEF IsRouted, Behind, Alike, Places, Idle
  <1>5. q = IF Drop(g, e) /\ e.at = "button" THEN Nothing ELSE pl
    BY <1>4 DEF PlaceOf, Moved, IsRouted, Quiet
  <1>6. Drop(g, e) => e.at = "button" /\ g.parked = Nothing
    BY DEF Drop, Given
  <1> HIDE DEF q
  <1>7. q \in Places
    BY <1>5 DEF Places
  <1>8. Cap(s) = (IF t.parked # Nothing THEN t.parked ELSE t.focus) /\ Cap(s) \in Places
    BY <1>1, <1>4 DEF Cap
  <1>9. ASSUME Back(g, pl)
        PROVE  /\ Cap(s) = q /\ (\A x \in DialogKinds : t.keep[x] = Unset)
               /\ t.parked # Nothing => t.parked = q /\ t.focus \in {Nothing, q}
               /\ t.parked = Nothing => t.focus = q
    <2>1. /\ \A x \in DialogKinds : t.keep[x] = Unset
          /\ t.parked # Nothing => t.parked = pl /\ t.focus \in {Nothing, pl} /\ g.parked # Nothing
          /\ t.parked = Nothing => t.focus = IF Drop(g, e) THEN Nothing ELSE pl
      BY <1>9 DEF IsQuiet
    <2>2. t.parked # Nothing => q = pl
      BY <2>1, <1>5, <1>6
    <2>3. t.parked = Nothing => t.focus = q
      BY <2>1, <1>5, <1>6
    <2> QED BY <2>1, <2>2, <2>3, <1>8
  <1>10. Mid(s, e) /\ (Back(g, pl) => MidBack(s, q))
    <2>1. Flagged(s)
      BY <1>1, <1>4 DEF Idle, Flagged
    <2>2. Clean(s)
      BY <1>1, <1>4 DEF Idle, Clean, DialogKinds
    <2>3. Typed(s)
      BY <1>1, <1>4 DEF Idle, Typed
    <2>4. s.keep["props"] = Unset /\ \A x \in Confirms \cup {"end", "run"} : s.flag[x] = Unset
      BY <1>1, <1>4 DEF Idle, DialogKinds
    <2>5. CASE d # "help"
      <3>1. Idle(s)
        BY <1>1, <1>4, <2>1, <2>2, <2>3, <2>4, <2>5 DEF Idle
      <3>2. d \in DialogKinds \ {"unload", "help"} /\ d \notin {"props", "affinity", "startup"}
        BY <2>5 DEF DialogKinds, Confirms
      <3>3. Mid(s, e)
        BY <1>4, <1>8, <3>1, <3>2, OpenMid
      <3>4. ASSUME Back(g, pl) PROVE MidBack(s, q)
        <4>1. \A x \in DialogKinds : s.keep[x] = Unset
          BY <1>4, <1>9, <2>5, <3>4
        <4> QED BY <1>4, <1>7, <1>8, <1>9, <3>1, <3>2, <3>4, <4>1, OpenMid
      <3> QED BY <3>3, <3>4
    <2>6. CASE d = "help"
      <3>1. s.keep["help"] = t.focus /\ t.focus # Unset
        BY <1>1, <1>2, <1>4, <2>6 DEF Places
      <3>2. ~First(s, "help") /\ Saved(s, "help") = t.focus
        BY <3>1 DEF First, Saved
      <3>3. Mid(s, e)
        <4>1. Shown(s)
          BY <1>4, <2>6 DEF Shown, DialogKinds
        <4>2. \A x \in Confirms : s.flag[x] # TRUE
          BY <2>4, DialogsAssumption
        <4> QED BY <1>1, <1>4, <2>1, <2>2, <2>3, <2>4, <2>6, <3>2, <4>1, <4>2 DEF Mid
      <3>4. ASSUME Back(g, pl) PROVE MidBack(s, q)
        <4>1. \/ s.keep["help"] = q /\ (q = Nothing => s.parked = Nothing)
              \/ s.keep["help"] = Nothing /\ s.parked = q
          BY <1>4, <1>9, <3>1, <3>4
        <4>2. s.owner # q
          BY <1>2, <1>4, <1>7 DEF Places
        <4> QED BY <1>4, <2>6, <3>2, <4>1, <4>2 DEF MidBack, Quiet
      <3> QED BY <3>3, <3>4
    <2> QED BY <2>5, <2>6
  <1>11. ~Moved(e, u, s) /\ e.key # "esc"
    BY DEF Moved, IsRouted
  <1> QED BY <1>7, <1>10, <1>11 DEF Ready, q

LEMMA ShadedReady ==
    ASSUME NEW g, Quiet(g), NEW e, Given(g, e), NEW pl \in Places, NEW t, IsQuiet(g, e, t, pl), t.shade,
           NEW s, s = PageFrame(t, e)
    PROVE  Ready(g, e, t, s, pl)
  <1> DEFINE q == PlaceOf(g, e, t, s, pl)
  <1>1. Idle(t) /\ t.focus \in Places /\ Nothing \notin PageWidgets /\ "list" \in PageWidgets /\ t.parked \in Places
    BY DialogsAssumption DEF IsQuiet, Idle, PageWidgets
  <1>2. Behind(t, s)
    BY <1>1, PageBehind DEF Idle
  <1>3. /\ s \in Guis /\ s.dlgs = {} /\ ~s.menu /\ s.owner = Unset /\ s.flag = t.flag /\ s.keep = t.keep
        /\ s.answer = None /\ s.parked = t.parked /\ s.focus = Nothing /\ s.key = e.key
    BY <1>1, <1>2 DEF IsQuiet, Behind, Alike, Places, Idle
  <1>4. Idle(s)
    BY <1>1, <1>3 DEF Idle, Flagged, Clean, Typed
  <1>5. Mid(s, e)
    BY <1>3, <1>4, IdleMid
  <1>6. EndFocus(s) = IF e.key = "esc" THEN "list" ELSE Nothing
    BY <1>1, <1>3 DEF EndFocus
  <1>7. q = IF e.key = "esc" /\ s.parked = Nothing THEN "list"
            ELSE IF Drop(g, e) /\ e.at = "button" THEN Nothing ELSE pl
    BY <1>1, <1>3, <1>6 DEF PlaceOf, Moved, Quiet
  <1>8. Drop(g, e) /\ e.at = "button" => g.parked = Nothing
    BY DEF Drop, Given
  <1> HIDE DEF q
  <1>9. q \in Places
    BY <1>1, <1>7 DEF Places
  <1>10. ASSUME Back(g, pl) PROVE MidBack(s, q)
    <2>1. /\ t.parked # Nothing => t.parked = pl /\ g.parked # Nothing
          /\ t.parked = Nothing => pl = Nothing
      BY <1>10 DEF IsQuiet
    <2>2. s.parked # Nothing => s.parked = q
      BY <1>3, <1>7, <1>8, <2>1
    <2>3. s.parked = Nothing => EndFocus(s) = q
      BY <1>3, <1>6, <1>7, <2>1
    <2> QED BY <1>3, <2>2, <2>3 DEF MidBack, Quiet
  <1>11. ~Moved(e, t, s)
    BY DEF Moved
  <1> QED BY <1>3, <1>5, <1>9, <1>10, <1>11 DEF Ready, q

LEMMA PageReady ==
    ASSUME NEW g, Quiet(g), NEW e, Given(g, e), NEW pl \in Places, NEW t, IsQuiet(g, e, t, pl), ~t.shade,
           NEW s, s = PageFrame(t, e)
    PROVE  Ready(g, e, t, s, pl)
  <1> DEFINE q == PlaceOf(g, e, t, s, pl)
  <1>1. /\ t \in Guis /\ Idle(t) /\ t.dlgs = {} /\ ~t.menu /\ t.owner = Unset /\ t.key = e.key /\ t.start = t.focus
        /\ t.focus \in Places /\ t.parked = Nothing /\ t.answer = None
        /\ e.key = "esc" => t.focus = Nothing
        /\ Back(g, pl) => /\ \A x \in DialogKinds : t.keep[x] = Unset
                          /\ t.focus = IF Drop(g, e) THEN Nothing ELSE pl
    BY DEF IsQuiet, Idle
  <1>2. /\ Nothing \notin PageWidgets \cup {"entry", Unset} /\ Unset \notin PageWidgets
        /\ "list" \in PageWidgets /\ "search" \in PageWidgets /\ "entry" \notin PageWidgets
    BY DialogsAssumption DEF PageWidgets
  <1>3. e \in Gestures /\ g.dlgs = {} /\ ~g.menu
        /\ e.at \notin {"entry", "safe", "primary", "body", "x", "hold"}
        /\ e.pick \in DialogKinds \ {"unload", "help"}
    BY DEF Given, Quiet
  <1>4. e.at \in {"none", "list", "search", "button", "row"}
    BY <1>3 DEF Gestures, Spots
  <1>5. CASE e.at = "row" \/ e.key = "menu"
    <2> DEFINE w == IF t.focus = Nothing THEN "list" ELSE t.focus
               f == IF t.key = "menu" THEN "entry" ELSE t.focus
    <2>1. s = [t EXCEPT !.menu = TRUE, !.owner = w, !.focus = f]
      BY <1>1, <1>5 DEF PageFrame, Modal, OpenMenu
    <2>2. w \in PageWidgets /\ f \in Widgets
      BY <1>1, <1>2 DEF Places, Widgets
    <2> HIDE DEF w, f
    <2>3. /\ s \in Guis /\ s.menu /\ s.owner = w /\ s.dlgs = {} /\ s.keep = t.keep /\ s.flag = t.flag
          /\ s.parked = Nothing /\ s.answer = None
      <3>1. w \in Widgets
        BY <2>2 DEF Widgets
      <3> QED BY <1>1, <2>1, <2>2, <3>1 DEF Guis
    <2>4. Idle(s)
      BY <1>1, <2>3 DEF Idle, Flagged, Clean, Typed, Places
    <2>5. Mid(s, e)
      BY <2>2, <2>3, <2>4, IdleMid
    <2>6. ~Moved(e, t, s)
      BY <1>5 DEF Moved, Given
    <2>7. q = w
      BY <1>1, <2>3, <2>6 DEF PlaceOf
    <2>8. MidBack(s, q)
      BY <2>3, <2>7 DEF MidBack, Quiet
    <2>9. e.key # "esc"
      BY <1>5 DEF Given
    <2> QED BY <2>2, <2>5, <2>6, <2>7, <2>8, <2>9 DEF Ready, Places
  <1>6. CASE ~(e.at = "row" \/ e.key = "menu") /\ Clicks(t, e.at, "button")
    <2> DEFINE d == IF e.pick \in {"affinity", "columns", "props", "startup"} THEN "run" ELSE e.pick
    <2>1. s = OpenDialog(t, d)
      BY <1>1, <1>6 DEF PageFrame, Modal
    <2>2. d \in DialogKinds \ {"unload", "help"} /\ d \notin {"props", "affinity", "startup"}
      BY <1>3 DEF DialogKinds
    <2> HIDE DEF d
    <2>3. IsOpened(t, s, d)
      BY <1>1, <2>1, <2>2, OpenedNow
    <2>4. /\ s \in Guis /\ s.dlgs = {d} /\ ~s.menu /\ s.owner = Unset /\ s.keep = t.keep /\ s.flag = t.flag
          /\ s.parked = Nothing /\ s.answer = None /\ s.focus = t.focus /\ s.start = t.focus
      BY <1>1, <2>3 DEF IsOpened
    <2>5. Idle(s)
      BY <1>1, <2>4 DEF Idle, Flagged, Clean, Typed, Places
    <2>6. Cap(s) = t.focus
      BY <2>4 DEF Cap
    <2>7. Mid(s, e)
      BY <1>1, <2>2, <2>4, <2>5, <2>6, OpenMid
    <2>8. e.key # "esc" /\ ~Moved(e, t, s)
      <3>1. CASE e.at = "button"
        BY <3>1 DEF Given, Moved
      <3>2. CASE e.key \in {"enter", "space"} /\ e.at # "button"
        BY <3>2 DEF Given, Moved
      <3> QED BY <1>1, <1>6, <3>1, <3>2 DEF Clicks
    <2>9. q = IF Drop(g, e) /\ e.at = "button" THEN Nothing ELSE pl
      BY <1>3, <2>4, <2>8 DEF PlaceOf
    <2>10. Drop(g, e) => e.at = "button"
      <3>1. Drop(g, e) => e.at # "none"
        BY <2>8 DEF Drop
      <3>2. e.at # "none" /\ e.at # "button" => e.key = "none"
        BY DEF Given
      <3> QED BY <1>1, <1>6, <3>1, <3>2 DEF Clicks
    <2> HIDE DEF q
    <2>11. q \in Places
      BY <2>9 DEF Places
    <2>12. ASSUME Back(g, pl) PROVE MidBack(s, q)
      <3>1. Cap(s) = q /\ (\A x \in DialogKinds : s.keep[x] = Unset)
        BY <1>1, <2>4, <2>6, <2>9, <2>10, <2>12
      <3> QED BY <1>1, <2>2, <2>4, <2>5, <2>6, <2>11, <3>1, OpenMid
    <2> QED BY <2>7, <2>8, <2>11, <2>12 DEF Ready, q
  <1>7. ASSUME s \in Guis, NEW f \in PageWidgets, s.focus = f, s.dlgs = {}, ~s.menu, s.owner = Unset,
               s.keep = t.keep, s.flag = t.flag, s.parked = Nothing, s.answer = None,
               e.at \in {"list", "search"} \/ e.key = "tab"
        PROVE  Ready(g, e, t, s, pl)
    <2>1. Idle(s)
      BY <1>1, <1>7 DEF Idle, Flagged, Clean, Typed, Places
    <2>2. Mid(s, e)
      BY <1>7, <2>1, IdleMid
    <2>3. Moved(e, t, s)
      BY <1>1, <1>7 DEF Moved
    <2>4. q = f
      BY <1>7, <2>3 DEF PlaceOf
    <2>5. EndFocus(s) = f
      BY <1>2, <1>7 DEF EndFocus
    <2>6. MidBack(s, q)
      BY <1>7, <2>4, <2>5 DEF MidBack, Quiet
    <2> QED BY <1>7, <2>2, <2>4, <2>6 DEF Ready, Places
  <1>8. CASE ~(e.at = "row" \/ e.key = "menu") /\ ~Clicks(t, e.at, "button") /\ e.at \in {"list", "search"}
    <2>1. s = [t EXCEPT !.focus = e.at]
      BY <1>1, <1>8 DEF PageFrame, Modal
    <2>2. e.at \in PageWidgets /\ e.at \in Widgets
      BY <1>8, <1>2 DEF Widgets
    <2>3. s \in Guis /\ s.focus = e.at /\ Alike(t, s)
      BY <1>1, <2>1, <2>2, FocusSet
    <2> QED BY <1>1, <1>7, <1>8, <2>2, <2>3 DEF Alike
  <1>9. CASE /\ ~(e.at = "row" \/ e.key = "menu") /\ ~Clicks(t, e.at, "button") /\ e.at \notin {"list", "search"}
             /\ e.key = "tab"
    <2> DEFINE v == [t EXCEPT !.focus = e.to]
    <2>1. t.focus # "entry"
      BY <1>1, <1>2 DEF Places
    <2>2. s = TakeKey(v)
      BY <1>1, <1>9, <2>1 DEF PageFrame, Modal
    <2>3. e.to \in PageWidgets /\ e.to \in Widgets
      BY <1>3 DEF Gestures, Widgets
    <2>4. v \in Guis /\ v.focus = e.to /\ Alike(t, v)
      BY <1>1, <2>3, FocusSet
    <2> HIDE DEF v
    <2>5. s \in Guis /\ Still(v, s) /\ s.answer = v.answer /\ s.focus = v.focus /\ s.parked = v.parked
      BY <2>2, <2>4, KeyTaken
    <2> QED BY <1>1, <1>7, <1>9, <2>3, <2>4, <2>5 DEF Alike, Still
  <1>10. CASE /\ ~(e.at = "row" \/ e.key = "menu") /\ ~Clicks(t, e.at, "button") /\ e.at \notin {"list", "search"}
              /\ e.key # "tab"
    <2>1. s = t
      BY <1>1, <1>10 DEF PageFrame, Modal
    <2>2. Mid(s, e)
      BY <1>1, <2>1, IdleMid
    <2>3. e.at = "none" /\ (Drop(g, e) => e.key = "esc") /\ ~Moved(e, t, s)
      BY <1>4, <1>10 DEF Clicks, Drop, Moved
    <2>4. EndFocus(s) = IF e.key = "esc" THEN "list" ELSE t.focus
      BY <1>1, <1>2, <2>1 DEF EndFocus, Places
    <2>5. q = IF e.key = "esc" THEN "list" ELSE pl
      BY <1>1, <2>1, <2>3, <2>4 DEF PlaceOf
    <2> HIDE DEF q
    <2>6. q \in Places
      BY <1>2, <2>5 DEF Places
    <2>7. ASSUME Back(g, pl) PROVE MidBack(s, q)
      <3>1. EndFocus(s) = q
        BY <1>1, <2>3, <2>4, <2>5, <2>7
      <3> QED BY <1>1, <2>1, <3>1 DEF MidBack, Quiet
    <2> QED BY <1>1, <2>1, <2>2, <2>3, <2>6, <2>7 DEF Ready, q
  <1> QED BY <1>5, <1>6, <1>8, <1>9, <1>10

LEMMA FrontReady ==
    ASSUME NEW g \in Guis, Shape(g), Deliberate(g), NEW e, Given(g, e), NEW pl \in Places,
           NEW u, u = Route(Opening(g, e)), NEW s, s = PageFrame(u, e)
    PROVE  Ready(g, e, u, s, pl)
  <1> DEFINE t == Opening(g, e)
  <1>1. IsBegun(g, e, t)
    BY Begins DEF Given
  <1>2. u = Route(t)
    OBVIOUS
  <1> HIDE DEF t
  <1>3. CASE g.dlgs # {}
    <2>1. /\ Mid(s, e) /\ (Back(g, pl) => MidBack(s, pl))
          /\ u.shade /\ ~u.menu /\ ~s.menu
      BY <1>1, <1>2, <1>3, ModalFront
    <2>2. ~Moved(e, u, s) /\ ~Quiet(g) /\ e.at # "button"
      BY <1>3, <2>1 DEF Moved, Quiet, Given
    <2>3. PlaceOf(g, e, u, s, pl) = pl
      BY <2>1, <2>2 DEF PlaceOf
    <2> QED BY <2>1, <2>2, <2>3 DEF Ready
  <1>4. CASE g.menu
    <2>1. u = t /\ u.menu /\ Mid(s, e) /\ (Back(g, pl) => MidBack(s, pl))
      BY <1>1, <1>2, <1>4, MenuFront
    <2>2. ~Moved(e, u, s) /\ ~Quiet(g)
      BY <1>4, <2>1 DEF Moved, Quiet
    <2>3. PlaceOf(g, e, u, s, pl) = pl
      BY <1>4, <2>1, <2>2 DEF PlaceOf
    <2> QED BY <2>1, <2>2, <2>3 DEF Ready
  <1>5. CASE Quiet(g)
    <2>1. IsQuiet(g, e, t, pl)
      BY <1>1, <1>5, QuietBegins
    <2>2. \/ u = t
          \/ /\ e.key \in {"run", "settings", "f1", "delete"}
             /\ \E d \in {"run", "settings", "end", "help"} : IsRouted(t, u, d)
      BY <1>2, <2>1, QuietRoutes
    <2>3. CASE u = t /\ t.shade
      BY <1>5, <2>1, <2>3, ShadedReady
    <2>4. CASE u = t /\ ~t.shade
      BY <1>5, <2>1, <2>4, PageReady
    <2>5. ASSUME e.key \in {"run", "settings", "f1", "delete"}, NEW d \in {"run", "settings", "end", "help"}, IsRouted(t, u, d)
          PROVE  Ready(g, e, u, s, pl)
      BY <1>5, <2>1, <2>5, RoutedReady
    <2> QED BY <2>2, <2>3, <2>4, <2>5
  <1> QED BY <1>3, <1>4, <1>5 DEF Quiet

\* Escape with nothing open: what the frame then leaves focused.
LEMMA EscapeEnds ==
    ASSUME NEW s, NEW e, Mid(s, e), s.dlgs = {}, ~s.menu, s.owner = Unset, NEW r, r = EndFrame(DialogFrame(s, e), Modal(s))
    PROVE  r.focus = EndFocus(s) /\ r.parked = s.parked
  <1>1. DialogFrame(s, e) = s /\ Modal(s) = FALSE
    BY DEF DialogFrame, Modal
  <1>2. IsEnded(s, EndFrame(s, FALSE), FALSE)
    BY Ended DEF Mid
  <1>3. IsEnded(s, r, FALSE)
    BY <1>1, <1>2
  <1> QED BY <1>3 DEF IsEnded, Quiet

------------------------------------------------------------------------------

\* What a frame does to the variables: u before the page, s after it, r at the end.
Does(e, u, s, r, drop) ==
    LET moved == ~Modal(u) /\ ~u.shade /\ (s.focus \in PageWidgets /\ (e.at \in {"list", "search"} \/ e.key = "tab") /\ ~u.menu)
    IN  /\ gui' = r
        /\ place' = IF moved THEN s.focus
                    ELSE IF u.menu = FALSE /\ s.menu THEN s.owner
                    ELSE IF ~Modal(gui) /\ ~gui.menu /\ e.key = "esc" /\ r.focus = "list" /\ r.parked = Nothing THEN "list"
                    ELSE IF drop /\ ~gui.menu /\ e.at = "button" THEN Nothing
                    ELSE place
        /\ lost' = ((lost /\ ~moved) \/ \E d \in DialogKinds \ {"help"} : r.keep[d] # Unset /\ d \notin r.dlgs)

LEMMA OneFrame ==
    ASSUME DialogPass
    PROVE  \E e : LET u == Route(Opening(gui, e))
                      s == PageFrame(u, e)
                  IN  Given(gui, e) /\ Does(e, u, s, EndFrame(DialogFrame(s, e), Modal(s)), Drop(gui, e))
  <1> DEFINE drops(e) == e.key = "esc" \/ ((e.at # "none" /\ e.at # "hold") /\ gui.parked = Nothing /\ ~Modal(gui) /\ ~(gui.menu /\ e.at # "entry"))
             starts(e, b) == IF drops(e) THEN [b EXCEPT !.focus = Nothing, !.start = Nothing] ELSE b
  <1>1. PICK key \in DialogKeys, at \in Spots : Possible(key, at) /\ \E e \in Inputs(key, at) :
           \E s1 \in {BeginFrame(Fresh(gui, e))} : \E s2 \in {Route(starts(e, s1))} :
           \E s3 \in {PageFrame(s2, e)} : \E s4 \in {DialogFrame(s3, e)} : \E s5 \in {EndFrame(s4, Modal(s3))} :
             Does(e, s2, s3, s5, drops(e))
    BY Zenon DEF DialogPass, Does, Fresh
  <1>2. PICK e \in Inputs(key, at) :
           \E s1 \in {BeginFrame(Fresh(gui, e))} : \E s2 \in {Route(starts(e, s1))} :
           \E s3 \in {PageFrame(s2, e)} : \E s4 \in {DialogFrame(s3, e)} : \E s5 \in {EndFrame(s4, Modal(s3))} :
             Does(e, s2, s3, s5, drops(e))
    BY <1>1, Zenon
  <1> DEFINE b == BeginFrame(Fresh(gui, e))
             u == Route(starts(e, b))
             s == PageFrame(u, e)
  <1>3. Does(e, u, s, EndFrame(DialogFrame(s, e), Modal(s)), drops(e))
    BY <1>2, Zenon
  <1>4. drops(e) = Drop(gui, e)
    BY DEF Drop, Modal
  <1>5. starts(e, b) = Opening(gui, e)
    BY <1>4, Zenon DEF Opening
  <1>6. Given(gui, e)
    <2>1. /\ e.key = key /\ e.at = at /\ e.to \in PageWidgets /\ e.in \in {"safe", "primary", "body"} /\ e.ring \in {"cancel", "ok"}
          /\ e.pick \in IF "props" \in gui.dlgs THEN {"end", "unload"} ELSE Entries \cup {"end"}
          /\ e = [key |-> e.key, at |-> e.at, to |-> e.to, in |-> e.in, ring |-> e.ring, pick |-> e.pick]
      BY DEF Inputs, PageWidgets
    <2>2. e.pick \in DialogKinds \ {"help"} /\ ("props" \notin gui.dlgs => e.pick \in DialogKinds \ {"unload", "help"})
      BY <2>1, DialogsAssumption DEF DialogKinds, Confirms
    <2>3. e \in Gestures
      BY <2>1, <2>2 DEF Gestures
    <2> QED BY <1>1, <2>1, <2>2, <2>3 DEF Possible, Given, Modal, Quiet
  <1> HIDE DEF drops, starts, b
  <1>7. Does(e, Route(Opening(gui, e)), PageFrame(Route(Opening(gui, e)), e),
             EndFrame(DialogFrame(PageFrame(Route(Opening(gui, e)), e), e), Modal(PageFrame(Route(Opening(gui, e)), e))), Drop(gui, e))
    BY <1>3, <1>4, <1>5, Zenon
  <1> QED BY <1>6, <1>7, Zenon

LEMMA FrameKeeps ==
    ASSUME DialogInv, DialogPass
    PROVE  DialogInv' /\ NoBlindConfirm'
  <1>1. PICK e : LET u == Route(Opening(gui, e))
                     s == PageFrame(u, e)
                 IN  Given(gui, e) /\ Does(e, u, s, EndFrame(DialogFrame(s, e), Modal(s)), Drop(gui, e))
    BY OneFrame
  <1> DEFINE u == Route(Opening(gui, e))
             s == PageFrame(u, e)
             r == EndFrame(DialogFrame(s, e), Modal(s))
             q == PlaceOf(gui, e, u, s, place)
  <1>2. Given(gui, e) /\ Does(e, u, s, r, Drop(gui, e))
    BY <1>1
  <1>3. Ready(gui, e, u, s, place)
    BY <1>2, FrontReady DEF DialogInv
  <1>4. q \in Places /\ Mid(s, e)
    BY <1>3 DEF Ready
  <1>5. Settled(s, r, q)
    <2> HIDE DEF s, q
    <2> QED BY <1>2, <1>4, Settles DEF Given
  <1>6. Quiet(gui) /\ e.key = "esc" => r.focus = EndFocus(s) /\ r.parked = s.parked
    <2>1. Quiet(gui) /\ e.key = "esc" => s.dlgs = {} /\ ~s.menu /\ s.owner = Unset
      BY <1>3 DEF Ready
    <2> HIDE DEF s
    <2> QED BY <1>4, <2>1, EscapeEnds
  <1> HIDE DEF u, s, r
  <1>7. gui' = r /\ place' = q
    BY <1>2, <1>6 DEF Does, PlaceOf, Moved, Modal, Quiet
  <1>8. /\ lost' \in BOOLEAN
        /\ ~lost' => (~lost \/ Moved(e, u, s)) /\ \A d \in DialogKinds \ {"help"} : r.keep[d] # Unset => d \in r.dlgs
    BY <1>2 DEF Does, Moved, Modal, DialogInv
  <1>9. ~lost' => Back(r, q)
    BY <1>3, <1>5, <1>8 DEF Ready, Settled, DialogInv
  <1> HIDE DEF q
  <1>10. DialogInv'
    <2>1. gui' \in Guis /\ Shape(gui') /\ Deliberate(gui')
      BY <1>5, <1>7 DEF Settled
    <2>2. ~lost' => Back(gui', place')
      BY <1>7, <1>9
    <2> QED BY <1>4, <1>7, <1>8, <2>1, <2>2 DEF DialogInv
  <1>11. NoBlindConfirm'
    BY <1>5, <1>7 DEF Settled, NoBlindConfirm, Destructive
  <1> QED BY <1>10, <1>11

LEMMA BeginsWell == DialogsInit => DialogInv /\ NoBlindConfirm
  <1> SUFFICES ASSUME DialogsInit PROVE DialogInv /\ NoBlindConfirm
    OBVIOUS
  <1>1. gui = GuiInit /\ place = "list" /\ lost = FALSE
    BY DEF DialogsInit
  <1>2. /\ "list" \in Places /\ "list" \in Widgets /\ Nothing \in Widgets /\ Nothing \in Places /\ "none" \in DialogKeys
        /\ <<"none", "none">> \in Verdict
    BY DEF Places, Widgets, PageWidgets, DialogKeys, Verdict
  <1>3. GuiInit \in Guis
    BY <1>2 DEF GuiInit, Guis
  <1>4. /\ GuiInit.dlgs = {} /\ ~GuiInit.menu /\ ~GuiInit.shade /\ GuiInit.owner = Unset /\ GuiInit.focus = "list"
        /\ GuiInit.parked = Nothing /\ GuiInit.answer = <<"none", "none">>
        /\ \A d \in DialogKinds : GuiInit.keep[d] = Unset /\ GuiInit.flag[d] = Unset
    BY DEF GuiInit
  <1> HIDE DEF GuiInit
  <1>5. {"run", "affinity", "props", "help", "end"} \cup Confirms \subseteq DialogKinds
    BY DEF DialogKinds, Confirms
  <1>6. Shape(GuiInit)
    <2>1. Shown(GuiInit) /\ Flagged(GuiInit) /\ Clean(GuiInit)
      BY <1>4, <1>5 DEF Shown, Flagged, Clean
    <2> QED BY <1>2, <1>4, <1>5, <2>1 DEF Shape
  <1>7. Deliberate(GuiInit)
    BY <1>4, <1>5, DialogsAssumption DEF Deliberate
  <1>8. Back(GuiInit, "list")
    BY <1>4 DEF Back, Quiet
  <1>9. GuiInit.answer \notin (Confirms \cup {"affinity"}) \X {"primary"}
    BY <1>4
  <1> QED BY <1>1, <1>2, <1>3, <1>6, <1>7, <1>8, <1>9 DEF DialogInv, NoBlindConfirm

LEMMA DialogSafe == DialogInv /\ NoBlindConfirm => ModalSafe
  <1> SUFFICES ASSUME DialogInv, NoBlindConfirm PROVE ModalSafe
    OBVIOUS
  <1>1. OneModal
    <2>1. Shown(gui)
      BY DEF DialogInv, Shape
    <2>2. CASE gui.dlgs = {}
      <3>1. Cardinality(gui.dlgs) = 0
        BY <2>2, FS_EmptySet
      <3> QED BY <3>1 DEF OneModal
    <2>3. ASSUME NEW d, gui.dlgs = {d} PROVE OneModal
      <3>1. Cardinality(gui.dlgs) = 1
        BY <2>3, FS_Singleton
      <3> QED BY <3>1 DEF OneModal
    <2>4. CASE gui.dlgs = {"props", "unload"}
      BY <2>4 DEF OneModal
    <2> QED BY <2>1, <2>2, <2>3, <2>4 DEF Shown
  <1>2. FocusBack
    BY DEF DialogInv, Back, Quiet, FocusBack
  <1> QED BY <1>1, <1>2 DEF ModalSafe

\* ModalSafe: in any number of frames, whatever keys and clicks they are given,
\* one modal is open at a time, no destructive button is pressed by a key from
\* before the user went to it, and the focus a dialog or a menu took goes back
\* to the widget it was taken from (route_global_keyboard, capture_focus,
\* restore_focus, begin_frame_focus and the dialogs of the pages).
THEOREM ModalIsSafe == DialogsSpec => []ModalSafe
  <1>1. DialogInv /\ NoBlindConfirm /\ [DialogsNext]_dialogVars => (DialogInv /\ NoBlindConfirm)'
    <2>1. DialogInv /\ DialogsNext => (DialogInv /\ NoBlindConfirm)'
      BY FrameKeeps DEF DialogsNext
    <2>2. DialogInv /\ NoBlindConfirm /\ UNCHANGED dialogVars => (DialogInv /\ NoBlindConfirm)'
      <3> SUFFICES ASSUME DialogInv, NoBlindConfirm, UNCHANGED dialogVars PROVE (DialogInv /\ NoBlindConfirm)'
        OBVIOUS
      <3>1. gui' = gui /\ place' = place /\ lost' = lost
        BY DEF dialogVars
      <3> QED BY <3>1 DEF DialogInv, NoBlindConfirm
    <2> QED BY <2>1, <2>2
  <1> QED BY <1>1, BeginsWell, DialogSafe, PTL DEF DialogsSpec
=============================================================================
