-------------------------------- MODULE Pages --------------------------------
(***************************************************************************)
(* The Services, Startup and Users pages (crates/tm-app/src/tabs): a list  *)
(* fetched by a job when the cached one is too old, shown frame by frame, *)
(* and the controls that change what it lists: a service started, stopped  *)
(* or restarted on a thread of its own behind a confirmation, a startup    *)
(* entry switched with the row flipped ahead of the result, a session      *)
(* disconnected or signed out.  One entry stands for the list; a run shows *)
(* one page.                                                               *)
(***************************************************************************)
EXTENDS Naturals

CONSTANTS MaxControls,   \* bound: controls the user asks for
          NoList         \* no list, nothing parked

ASSUME PagesAssumption ==
    /\ MaxControls \in Nat
    /\ NoList \notin [on : BOOLEAN, has : BOOLEAN, fresh : BOOLEAN]

VARIABLES
    page,             \* the page on screen
    sys,              \* the entry as the system has it: running, enabled, connected
    cache,            \* the cached list: [on, has, fresh], or NoList
    fetch,            \* the fetch job: [at, on, has]
    draw, older,      \* where the frame is; what was published since it read the targets
    item,             \* the row as the frame shows it
    parked,           \* pending_service_control, pending_session_logoff
    busy, writes,     \* service_control; the control jobs: number -> [at, want]
    controls          \* bound
pageVars == <<page, sys, cache, fetch, draw, older, item, parked, busy, writes, controls>>

Idle == [at |-> "idle", on |-> FALSE, has |-> FALSE]
Jobs == 1..MaxControls
\* The Startup page flips rows in place and holds the lock; the others work on
\* a copy of the list.
Locked == page = "startup" /\ draw \in {"rows", "clearing"}

-----------------------------------------------------------------------------
(* The fetch. *)

\* No room on the executor: the marker is taken back and a toast shown.
FetchRefused == Idle
\* ensure_fresh: one fetch at a time, when there is no list or it is too old.
Due == (IF cache = NoList THEN TRUE ELSE ~cache.fresh) /\ fetch = Idle
EnsureFresh(accepted) ==
    IF Due THEN fetch' = IF accepted THEN [Idle EXCEPT !.at = "queued"] ELSE FetchRefused
    ELSE UNCHANGED fetch
\* A call that fails leaves an empty list.
FetchLists ==
    /\ fetch.at = "queued" /\ \E ok \in BOOLEAN : fetch' = [at |-> "listed", on |-> ok /\ sys, has |-> ok]
    /\ UNCHANGED <<page, sys, cache, draw, older, item, parked, busy, writes, controls>>
\* The targets of the Startup page go out before the list they belong to.
FetchTargets ==
    /\ fetch.at = "listed" /\ page = "startup" /\ fetch' = [fetch EXCEPT !.at = "derived"]
    /\ older' = IF draw = "targets" THEN "targets" ELSE older
    /\ UNCHANGED <<page, sys, cache, draw, item, parked, busy, writes, controls>>
FetchPublishes ==
    /\ fetch.at = IF page = "startup" THEN "derived" ELSE "listed"
    /\ ~Locked
    /\ cache' = [on |-> fetch.on, has |-> fetch.has, fresh |-> TRUE] /\ fetch' = [fetch EXCEPT !.at = "published"]
    /\ older' = IF older = "targets" THEN "list" ELSE older
    /\ UNCHANGED <<page, sys, draw, item, parked, busy, writes, controls>>
FetchEnds ==
    /\ fetch.at = "published" /\ fetch' = Idle
    /\ UNCHANGED <<page, sys, cache, draw, older, item, parked, busy, writes, controls>>
\* Five or ten seconds pass.
Expire ==
    /\ cache # NoList /\ cache.fresh /\ ~Locked /\ cache' = [cache EXCEPT !.fresh = FALSE]
    /\ UNCHANGED <<page, sys, fetch, draw, older, item, parked, busy, writes, controls>>

-----------------------------------------------------------------------------
(* A frame: the fetch, the targets, then the rows. *)

FrameBegins(accepted) ==
    /\ draw = "out" /\ EnsureFresh(accepted) /\ draw' = "targets" /\ older' = "no"
    /\ UNCHANGED <<page, sys, cache, item, parked, busy, writes, controls>>
Has == IF cache = NoList THEN FALSE ELSE cache.has
RowsBegin ==
    /\ draw = "targets"
    /\ IF ~Has THEN draw' = "out" /\ UNCHANGED item ELSE draw' = "rows" /\ item' = cache.on
    /\ UNCHANGED <<page, sys, cache, fetch, older, parked, busy, writes, controls>>
\* "Refresh now", and a jump to a service from another page.
RefreshNow ==
    /\ draw = "targets" /\ cache # NoList /\ cache' = NoList
    /\ fetch' = IF page = "services" /\ fetch = Idle THEN [Idle EXCEPT !.at = "queued"] ELSE fetch
    /\ UNCHANGED <<page, sys, draw, older, item, parked, busy, writes, controls>>
RowsEnd ==
    /\ draw = "rows" /\ draw' = "out" /\ older' = "no"
    /\ UNCHANGED <<page, sys, cache, fetch, item, parked, busy, writes, controls>>

-----------------------------------------------------------------------------
(* The controls. *)

Asks == controls < MaxControls /\ controls' = controls + 1
Starts(want) == writes' = [writes EXCEPT ![controls + 1] = [at |-> "queued", want |-> want]]

\* toggle_item: the row is flipped when the job was queued.
ToggleStartup ==
    /\ page = "startup" /\ draw = "rows" /\ Asks
    /\ \/ Starts(~item) /\ cache' = [cache EXCEPT !.on = ~item] /\ item' = ~item
       \/ UNCHANGED <<writes, cache, item>>
    /\ UNCHANGED <<page, sys, fetch, draw, older, parked, busy>>

\* control and session_action: what destroys something is parked until it is
\* confirmed, the rest starts at once.
Park ==
    /\ page \in {"services", "users"} /\ draw = "rows" /\ item /\ parked = NoList /\ ~busy /\ Asks
    /\ parked' = "stop" /\ draw' = "out" /\ UNCHANGED <<page, sys, cache, fetch, older, item, busy, writes>>
Cancel ==
    /\ parked # NoList /\ draw = "out" /\ parked' = NoList
    /\ UNCHANGED <<page, sys, cache, fetch, draw, older, item, busy, writes, controls>>
Begin == ~busy
\* dispatch_control: one service control at a time.
DispatchService(want, n) ==
    \/ ~Begin /\ UNCHANGED <<busy, writes, draw>>
    \/ Begin /\ busy' = TRUE /\ writes' = [writes EXCEPT ![n] = [at |-> "asked", want |-> want]] /\ draw' = "clearing"
StartService ==
    /\ page = "services" /\ draw = "rows" /\ ~item /\ parked = NoList /\ Asks
    /\ DispatchService(TRUE, controls + 1)
    /\ UNCHANGED <<page, sys, cache, fetch, older, item, parked>>
Confirm ==
    /\ parked # NoList /\ draw = "out" /\ parked' = NoList
    /\ \/ page = "services" /\ DispatchService(FALSE, controls)
       \/ page = "users" /\ writes' = [writes EXCEPT ![controls] = [at |-> "queued", want |-> FALSE]] /\ UNCHANGED <<busy, draw>>
    /\ UNCHANGED <<page, sys, cache, fetch, older, item, controls>>
\* dispatch_control clears the list, from a frame that must not hold its lock,
\* and starts the thread, which may fail.
ClearList ==
    /\ draw = "clearing" /\ ~Locked /\ cache' = NoList /\ draw' = "out"
    /\ \E started \in BOOLEAN :
         /\ busy' = started
         /\ writes' = [j \in Jobs |-> IF writes[j].at # "asked" THEN writes[j]
                                     ELSE [writes[j] EXCEPT !.at = IF started THEN "queued" ELSE "none"]]
    /\ UNCHANGED <<page, sys, fetch, older, item, parked, controls>>

\* Mutation: the row stays as it was flipped.
RollBackNever(want) == UNCHANGED cache
\* The job takes the flip back when the write failed.
RollBack(want) == IF ~Has THEN UNCHANGED cache ELSE cache' = [cache EXCEPT !.on = ~want]
\* The job of a control: the call, what it does to the list, and the marker.
WriteRuns(j) ==
    /\ writes[j].at = "queued"
    /\ \/ sys' = writes[j].want /\ writes' = [writes EXCEPT ![j].at = "done"]
       \/ UNCHANGED sys /\ writes' = [writes EXCEPT ![j].at = "failed"]
    /\ UNCHANGED <<page, cache, fetch, draw, older, item, parked, busy, controls>>
WriteLists(j) ==
    /\ writes[j].at \in {"done", "failed"} /\ ~Locked
    /\ CASE page = "services" -> cache' = NoList
         [] page = "startup" -> IF writes[j].at = "failed" THEN RollBack(writes[j].want) ELSE UNCHANGED cache
         [] page = "users" -> UNCHANGED cache
    /\ writes' = [writes EXCEPT ![j].at = "ending"]
    /\ UNCHANGED <<page, sys, fetch, draw, older, item, parked, busy, controls>>
WriteEnds(j) ==
    /\ writes[j].at = "ending" /\ writes' = [writes EXCEPT ![j].at = "none"]
    /\ busy' = FALSE
    /\ UNCHANGED <<page, sys, cache, fetch, draw, older, item, parked, controls>>

-----------------------------------------------------------------------------
PagesInit ==
    /\ page \in {"services", "startup", "users"} /\ sys \in BOOLEAN
    /\ cache = NoList /\ fetch = Idle /\ draw = "out" /\ older = "no" /\ item = FALSE
    /\ parked = NoList /\ busy = FALSE /\ controls = 0
    /\ writes = [j \in Jobs |-> [at |-> "none", want |-> FALSE]]

Draws == FrameBegins(TRUE) \/ FrameBegins(FALSE) \/ RowsBegin \/ RowsEnd \/ ClearList
Fetches == FetchLists \/ FetchTargets \/ FetchPublishes \/ FetchEnds
Writes == \E j \in Jobs : WriteRuns(j) \/ WriteLists(j) \/ WriteEnds(j)
UserActs == RefreshNow \/ ToggleStartup \/ Park \/ Cancel \/ StartService \/ Confirm
PagesNext == Draws \/ Fetches \/ Writes \/ Expire \/ UserActs

\* The page stays on screen and frames are drawn; jobs run; time passes.  A job
\* that waits for the lock of the list gets it between two frames; the executor
\* does not stay full for ever.
PagesFairness ==
    WF_pageVars(Draws) /\ SF_pageVars(Due /\ FrameBegins(TRUE)) /\ SF_pageVars(Fetches) /\ SF_pageVars(Writes) /\ SF_pageVars(Expire)
PagesSpec == PagesInit /\ [][PagesNext]_pageVars

-----------------------------------------------------------------------------
\* Type invariant.
PagesTypeOK ==
    /\ cache = NoList \/ (cache.on \in BOOLEAN /\ cache.fresh \in BOOLEAN)
    /\ fetch.at \in {"idle", "queued", "listed", "derived", "published", "lost"}
    /\ draw \in {"out", "targets", "rows", "clearing"} /\ older \in {"no", "targets", "list"}
    /\ (page = "startup" /\ draw = "rows") => (cache # NoList /\ cache.on = item)
    /\ controls \in 0..MaxControls

\* One service is controlled at a time, and the buttons stay disabled exactly
\* as long.  (dispatch_control.)
OneControl ==
    LET running == {j \in Jobs : writes[j].at # "none"} IN
    page = "services" => busy = (running # {}) /\ \A i, j \in running : i = j

\* Whatever fetches, flips, clears and failures cross, the page ends up with
\* the entry as the system has it.  (ensure_fresh, toggle_item, dispatch_control.)
ShowsTruth == <>[](Has => cache.on = sys)

\* A frame ends: no page waits for a lock it holds itself.
\* (services::show, startup::show.)
FramesGoOn == draw # "out" ~> draw = "out"

\* A failed switch is taken back, or the list is fetched anew: what the toast
\* calls a failure is not what the row goes on to show.  (toggle_item.)
FailureTakenBack ==
    [][\A j \in Jobs : page = "startup" /\ writes[j].at = "failed" /\ writes'[j].at = "ending" /\ Has
         => cache'.on = ~writes[j].want]_pageVars

\* A frame that shows a new list shows it with its own targets.
\* (startup::show: "Published before the list so a frame that sees the new
\* list never pairs it with the previous list's targets".)
NeverPairsOldTargets == draw = "rows" => older # "list"

\* The Services, Startup and Users pages: one control of a service at a time, a page
\* ends up showing what Windows says, a failed toggle is taken back, and no frame waits
\* for a lock it holds itself.
PagesHonest ==
  /\ []PagesTypeOK /\ []OneControl /\ ShowsTruth /\ FramesGoOn /\ FailureTakenBack
=============================================================================
