------------------------------ MODULE Inspector ------------------------------
(***************************************************************************)
(* The pages of the Process Properties dialog and their background work     *)
(* (tabs/details.rs process_properties_dialog, tabs/inspector.rs Pace and   *)
(* Poll, tabs/modules.rs, tabs/connections.rs, tabs/hosted_services.rs).    *)
(*                                                                         *)
(* "list" is a page that polls (Threads, Network or Services: each owns one *)
(* Poll); "modules" shares its list between two workers, the refresh and    *)
(* the unload; "security" is read once, by the action executor.  `epoch`    *)
(* counts the changes of the process looked at: a result is the epoch it    *)
(* was read in.  Whether an interval has passed is left open.               *)
(***************************************************************************)
EXTENDS Integers, FiniteSets, Sequences, FiniteSetsExt, SequencesExt

CONSTANTS Offers,        \* the sets of pages a platform may offer
          MaxEpoch,      \* bound on changes of the process
          MaxRefs,       \* references the module may have
          MaxReleases,   \* MAX_FORCE_UNLOAD_RELEASES
          MaxPresses,    \* bound on F5
          Blank,         \* nothing yet
          Failed         \* an error in place of a result

ASSUME InspectorAssumption ==
  /\ Offers \subseteq SUBSET {"general", "list", "modules", "security"}
  /\ MaxEpoch \in Nat /\ MaxRefs \in Nat \ {0} /\ MaxReleases \in Nat \ {0} /\ MaxPresses \in Nat

VARIABLES offered,   \* the pages of the dialog
          ipage,     \* the page on screen
          paused,    \* update speed Paused
          epoch,     \* changes of the process so far
          refs,      \* references that keep the module mapped
          presses,   \* F5 presses
          asked,     \* page -> epoch of its newest F5
          ipoll,     \* the list page's Poll: [started, requested, busy, read, slot]
          irows,     \* its rows: result or Blank, and whether a stale notice is shown
          fetch,     \* the modules page's refresh: [started, requested, busy, read]
          load,      \* its LoadState: Blank, Failed or the epoch listed; and its stale notice
          unload,    \* [pending, queued, busy, at, done, read, seen, error, msg]
          gone,      \* the module has been unmapped since the unload was confirmed
          secPage        \* the security page: [shown, started, slot, jobs]

inspectorVars == <<offered, ipage, paused, epoch, refs, presses, asked, ipoll, irows, fetch, load, unload, gone, secPage>>

-----------------------------------------------------------------------------
InspectorPages == {"general", "list", "modules", "security"}

Unloading == unload.busy \/ unload.queued

InspectorInit ==
  /\ offered \in Offers
  /\ ipage = "general"
  /\ paused \in BOOLEAN
  /\ epoch = 0
  /\ refs = MaxRefs
  /\ presses = 0
  /\ asked = [p \in InspectorPages |-> 0]
  /\ ipoll = [started |-> FALSE, requested |-> FALSE, busy |-> FALSE, read |-> Blank, slot |-> Blank]
  /\ irows = [list |-> Blank, stale |-> FALSE]
  /\ fetch = [started |-> FALSE, requested |-> FALSE, busy |-> FALSE, read |-> Blank]
  /\ load = [list |-> Blank, stale |-> FALSE]
  /\ unload = [pending |-> FALSE, queued |-> FALSE, busy |-> FALSE, at |-> Blank, done |-> 0, read |-> Blank, seen |-> Blank, error |-> FALSE, msg |-> Blank]
  /\ gone = FALSE
  /\ secPage = [shown |-> Blank, started |-> FALSE, slot |-> Blank, jobs |-> {}]

\* The process changes; the module may be released or loaded by the process itself.
ProcessChanges ==
  /\ epoch < MaxEpoch
  /\ epoch' = epoch + 1
  /\ refs' \in {refs} \cup {r \in 0 .. MaxRefs : r = refs - 1 \/ r = refs + 1}
  /\ gone' = (gone \/ refs' = 0)
  /\ UNCHANGED <<offered, ipage, paused, presses, asked, ipoll, irows, fetch, load, unload, secPage>>

\* Only the unload confirmation keeps the tabs from being clicked.
ShowPage ==
  /\ ~unload.pending
  /\ \E p \in offered \ {ipage} : ipage' = p
  /\ UNCHANGED <<offered, paused, epoch, refs, presses, asked, ipoll, irows, fetch, load, unload, gone, secPage>>

\* inspector::merge, merge_fetch: a failure replaces only a list that is not there.
Merged(page, result) ==
  IF result = Failed /\ page.list \notin {Blank, Failed} THEN [page EXCEPT !.stale = TRUE]
  ELSE [list |-> result, stale |-> FALSE]

-----------------------------------------------------------------------------
(* Security: the frame, on whatever page, takes a result and starts the job. *)

SecurityFrame(s) ==
  LET t == IF s.shown = Blank /\ s.slot # Blank THEN [s EXCEPT !.shown = s.slot, !.slot = Blank] ELSE s
  IN  IF ~t.started /\ t.shown = Blank
      THEN {[t EXCEPT !.started = TRUE, !.jobs = @ \cup {[n |-> presses, read |-> Blank]}], [t EXCEPT !.started = TRUE, !.shown = Failed]}
      ELSE {t}

SecurityTick ==
  /\ "security" \in offered /\ secPage.shown = Blank
  /\ secPage' \in SecurityFrame(secPage) /\ secPage' # secPage
  /\ UNCHANGED <<offered, ipage, paused, epoch, refs, presses, asked, ipoll, irows, fetch, load, unload, gone>>

SecurityReads ==
  /\ \E j \in {x \in secPage.jobs : x.read = Blank} : secPage' = [secPage EXCEPT !.jobs = (@ \ {j}) \cup {[j EXCEPT !.read = epoch]}]
  /\ UNCHANGED <<offered, ipage, paused, epoch, refs, presses, asked, ipoll, irows, fetch, load, unload, gone>>

SecurityStores ==
  /\ \E j \in {x \in secPage.jobs : x.read # Blank} : secPage' = [secPage EXCEPT !.jobs = @ \ {j}, !.slot = j.read]
  /\ UNCHANGED <<offered, ipage, paused, epoch, refs, presses, asked, ipoll, irows, fetch, load, unload, gone>>

\* F5 refreshes the page on screen, unless the confirmation owns the keyboard.
PressF5 ==
  /\ presses < MaxPresses /\ ~unload.pending
  /\ presses' = presses + 1
  /\ asked' = [asked EXCEPT ![ipage] = epoch]
  /\ ipoll' = IF ipage = "list" THEN [ipoll EXCEPT !.requested = TRUE] ELSE ipoll
  /\ fetch' = IF ipage = "modules" THEN [fetch EXCEPT !.requested = TRUE] ELSE fetch
  /\ IF ipage = "security" THEN secPage' \in SecurityFrame([secPage EXCEPT !.shown = Blank, !.started = FALSE]) ELSE secPage' = secPage
  /\ UNCHANGED <<offered, ipage, paused, epoch, refs, irows, load, unload, gone>>

-----------------------------------------------------------------------------
(* A page that polls. *)

\* Pace::due
Due(pace) == pace.requested \/ ~pace.started \/ ~paused

\* tick: a result is folded in, then a query starts if one is due and none runs.
ListTick ==
  /\ ipage = "list"
  /\ irows' = IF ipoll.slot = Blank THEN irows ELSE Merged(irows, ipoll.slot)
  /\ LET p == [ipoll EXCEPT !.slot = Blank]
     IN  ipoll' \in IF Due(p) /\ ~p.busy
                    THEN {[p EXCEPT !.busy = TRUE, !.started = TRUE, !.requested = FALSE]}
                           \cup {[p EXCEPT !.started = TRUE, !.requested = FALSE, !.slot = Failed]}
                    ELSE {p}
  /\ ipoll' # ipoll \/ irows' # irows
  /\ UNCHANGED <<offered, ipage, paused, epoch, refs, presses, asked, fetch, load, unload, gone, secPage>>

ListReads ==
  /\ ipoll.busy /\ ipoll.read = Blank
  /\ ipoll' \in {[ipoll EXCEPT !.read = epoch], [ipoll EXCEPT !.read = Failed]}
  /\ UNCHANGED <<offered, ipage, paused, epoch, refs, presses, asked, irows, fetch, load, unload, gone, secPage>>

ListStores ==
  /\ ipoll.busy /\ ipoll.read # Blank
  /\ ipoll' = [ipoll EXCEPT !.slot = ipoll.read, !.read = Blank, !.busy = FALSE]
  /\ UNCHANGED <<offered, ipage, paused, epoch, refs, presses, asked, irows, fetch, load, unload, gone, secPage>>

-----------------------------------------------------------------------------
(* The modules page. *)

\* begin_unload, past its gate
UnloadStarted(u) == [u EXCEPT !.busy = TRUE, !.queued = FALSE, !.at = "release", !.done = 0, !.seen = Blank, !.error = FALSE, !.msg = Blank]

\* begin_fetch: never while an unload runs or waits.
FetchDue == Due(fetch) /\ ~fetch.busy /\ ~Unloading

\* tick: the unload that waited for a refresh, or the next refresh.
ModulesTick ==
  /\ ipage = "modules"
  /\ IF unload.queued /\ ~fetch.busy
     THEN /\ unload' = UnloadStarted(unload)
          /\ UNCHANGED <<fetch, load>>
     ELSE /\ FetchDue
          /\ \/ /\ fetch' = [fetch EXCEPT !.busy = TRUE, !.started = TRUE, !.requested = FALSE]
                /\ UNCHANGED load
             \/ /\ fetch' = [fetch EXCEPT !.started = TRUE, !.requested = FALSE]
                /\ load' = Merged(load, Failed)
          /\ UNCHANGED unload
  /\ UNCHANGED <<offered, ipage, paused, epoch, refs, presses, asked, ipoll, irows, gone, secPage>>

FetchReads ==
  /\ fetch.busy /\ fetch.read = Blank
  /\ fetch' \in {[fetch EXCEPT !.read = epoch], [fetch EXCEPT !.read = Failed]}
  /\ UNCHANGED <<offered, ipage, paused, epoch, refs, presses, asked, ipoll, irows, load, unload, gone, secPage>>

FetchStores ==
  /\ fetch.busy /\ fetch.read # Blank
  /\ load' = Merged(load, fetch.read)
  /\ fetch' = [fetch EXCEPT !.busy = FALSE, !.read = Blank]
  /\ UNCHANGED <<offered, ipage, paused, epoch, refs, presses, asked, ipoll, irows, unload, gone, secPage>>

\* The button or the row's menu asks for the confirmation; it is not greyed out
\* by a refresh.
AskUnload ==
  /\ ipage = "modules" /\ load.list \notin {Blank, Failed}
  /\ ~Unloading /\ ~unload.pending
  /\ unload' = [unload EXCEPT !.pending = TRUE]
  /\ UNCHANGED <<offered, ipage, paused, epoch, refs, presses, asked, ipoll, irows, fetch, load, gone, secPage>>

\* unload_gate: a refresh that runs only delays it.
UnloadGate(u) == IF fetch.busy THEN [u EXCEPT !.queued = TRUE] ELSE UnloadStarted(u)

\* The answer; a process that has exited ends it.
AnswerUnload ==
  /\ unload.pending
  /\ \E u \in {[unload EXCEPT !.pending = FALSE], UnloadGate([unload EXCEPT !.pending = FALSE])} :
       unload' = u /\ gone' = (refs = 0)
  /\ UNCHANGED <<offered, ipage, paused, epoch, refs, presses, asked, ipoll, irows, fetch, load, secPage>>

\* One FreeLibrary in the process. One that reports an error may have worked.
UnloadReleases ==
  /\ unload.busy /\ unload.at = "release"
  /\ \E fails \in BOOLEAN, r \in {refs, IF refs = 0 THEN 0 ELSE refs - 1} :
       /\ ~fails => refs > 0 /\ r = refs - 1
       /\ refs' = r
       /\ epoch' = IF r = refs THEN epoch ELSE epoch + 1
       /\ gone' = (gone \/ r = 0)
       /\ unload' = [unload EXCEPT !.at = "list", !.error = fails, !.done = IF fails THEN @ ELSE @ + 1]
  /\ UNCHANGED <<offered, ipage, paused, presses, asked, ipoll, irows, fetch, load, secPage>>

\* The modules are enumerated before another release, and after a failed one.
UnloadReads ==
  /\ unload.busy /\ unload.at = "list"
  /\ \E r \in {[ver |-> epoch, mapped |-> refs > 0], [ver |-> Failed, mapped |-> refs > 0]} :
       unload' = [unload EXCEPT !.at = "store", !.read = r]
  /\ UNCHANGED <<offered, ipage, paused, epoch, refs, presses, asked, ipoll, irows, fetch, load, gone, secPage>>

\* What the worker knows after an enumeration: its own listing, or for a failed
\* one what the platform said of its last release.
Seen(mapped) == IF unload.read.ver # Failed THEN {mapped} ELSE IF unload.error THEN {unload.seen} ELSE {Blank, mapped}

UnloadStores ==
  /\ unload.busy /\ unload.at = "store"
  /\ load' = [load EXCEPT !.list = unload.read.ver]
  /\ \E seen \in Seen(unload.read.mapped) :
       LET over == unload.error \/ unload.read.ver = Failed \/ seen # TRUE \/ unload.done >= MaxReleases
           u == [unload EXCEPT !.seen = seen, !.read = Blank]
       IN  unload' = IF ~over THEN [u EXCEPT !.at = "release"]
                     ELSE [u EXCEPT !.busy = FALSE, !.at = Blank, !.done = 0, !.seen = Blank, !.error = FALSE,
                                    !.msg = IF seen = FALSE THEN "unloaded" ELSE IF unload.error THEN "failed" ELSE "stopped"]
  /\ UNCHANGED <<offered, ipage, paused, epoch, refs, presses, asked, ipoll, irows, fetch, gone, secPage>>

InspectorNext ==
  \/ ProcessChanges \/ ShowPage \/ PressF5
  \/ SecurityTick \/ SecurityReads \/ SecurityStores
  \/ ListTick \/ ListReads \/ ListStores
  \/ ModulesTick \/ FetchReads \/ FetchStores \/ AskUnload \/ AnswerUnload \/ UnloadReleases \/ UnloadReads \/ UnloadStores

InspectorSpec == InspectorInit /\ [][InspectorNext]_inspectorVars

-----------------------------------------------------------------------------
NewerOrFailed(page, since) == page.list = Failed \/ page.stale \/ (IF page.list \in Nat THEN page.list >= since ELSE FALSE)

\* An F5 pressed at any moment, while a query of before it still runs or an
\* unload holds the list, is answered by a query that began after it: once
\* nothing is pending the page shows what was read since, or says it failed.
RefreshAnswered ==
  /\ (asked["list"] > 0 /\ ~ipoll.requested /\ ~ipoll.busy /\ ipoll.slot = Blank) => NewerOrFailed(irows, asked["list"])
  /\ (asked["modules"] > 0 /\ ~fetch.requested /\ ~fetch.busy /\ ~unload.busy) => NewerOrFailed(load, asked["modules"])

\* The same of the Security page: "F5 refreshes the page on screen"
\* (details.rs:4172).
SecurityRefreshed == (secPage.jobs = {} /\ secPage.slot = Blank /\ secPage.shown \in Nat) => secPage.shown >= asked["security"]

\* The module list on screen never goes back in time, whichever of the two
\* workers that share it stores last.
ListNeverOlder == [][(load.list \in Nat /\ load'.list \in Nat) => load'.list >= load.list]_inspectorVars

\* "Unloaded" is said only of a module that has really left the process since.
UnloadHonest == unload.msg = "unloaded" => gone

-----------------------------------------------------------------------------
(***************************************************************************)
(* The tables of the Process Properties dialog: Modules, Threads, Network   *)
(* and Services (show in tabs/modules.rs, threads.rs, connections.rs and    *)
(* hosted_services.rs).  A list arrives from a background query in whatever *)
(* order the system enumerates it; a frame filters and sorts it, moves the  *)
(* selection and may ask for an unload.  An entry is its key (base address, *)
(* thread id, endpoints, service name) and one value standing for what the  *)
(* columns show; value 2 also stands for an idle thread.                    *)
(***************************************************************************)

CONSTANTS EntryKeys,     \* keys an entry may have
          NoItem         \* no entry, no list yet

VARIABLES
    lpage,        \* the page on screen
    items,        \* its newest list, in the order it was enumerated, or NoItem
    fresh,        \* the list arrived after the last frame
    chosenItem,       \* selected key
    filter,       \* 0, or the value every row must show
    hideIdle,     \* Threads: "Hide idle"
    byValue, up,  \* sort column and direction
    askFor,       \* pending_unload
    shut, target  \* the dialog is closed; the service to show instead

insListVars == <<lpage, items, fresh, chosenItem, filter, hideIdle, byValue, up, askFor, shut, target>>

ListPages == {"modules", "threads", "network", "services"}
ItemKeys == {items[i].key : i \in DOMAIN items}

InsListInit ==
    /\ lpage \in ListPages
    /\ items = NoItem /\ fresh = FALSE /\ chosenItem = 0 /\ filter = 0 /\ hideIdle = FALSE
    /\ byValue = FALSE /\ up = TRUE /\ askFor = NoItem /\ shut = FALSE /\ target = NoItem

\* A query's result: entries come and go, a base address or a thread id is used
\* again by another, in any order.
ListArrives ==
    /\ ~shut
    /\ \E K \in SUBSET EntryKeys : \E order \in SetToSeqs(K) : \E v \in [K -> 1..2] :
         items' = [i \in DOMAIN order |-> [key |-> order[i], val |-> v[order[i]]]]
    /\ fresh' = TRUE
    /\ UNCHANGED <<lpage, chosenItem, filter, hideIdle, byValue, up, askFor, shut, target>>

\* module_matches_filter; and for a thread, every text of its row (view_for).
Match(x) == filter = 0 \/ x.val = filter
ThreadMatch(x) == (~hideIdle \/ x.val # 2) /\ (filter = 0 \/ x.val = filter)

Less(s, i, j) ==
    LET a == s[i]  b == s[j]
        asc == IF byValue THEN a.val < b.val \/ (a.val = b.val /\ a.key < b.key) ELSE a.key < b.key
    IN  IF up THEN asc ELSE i # j /\ ~asc
SortedRows(s) ==
    LET at == SetToSortSeq(DOMAIN s, LAMBDA i, j : Less(s, i, j))
    IN  [n \in DOMAIN at |-> s[at[n]]]

\* Network orders equal endpoints by port only: rows that tie keep the order of
\* the enumeration.
SortedByPort(s) ==
    LET less(a, b) == IF byValue THEN a.val < b.val ELSE a.key < b.key
        at == SetToSortSeq(DOMAIN s, LAMBDA i, j :
                LET lt == IF up THEN less(s[i], s[j]) ELSE less(s[j], s[i])
                    gt == IF up THEN less(s[j], s[i]) ELSE less(s[i], s[j])
                IN  lt \/ (~gt /\ i < j))
    IN  [n \in DOMAIN at |-> s[at[n]]]

ModuleRows(s) == SortedRows(SelectSeq(s, Match))
ThreadRows(s) == SortedRows(SelectSeq(s, ThreadMatch))
ConnectionRows(s) == SortedByPort(s)
ServiceRows(s) ==
    LET at == SetToSortSeq(DOMAIN s, LAMBDA i, j : s[i].key < s[j].key)
    IN  [n \in DOMAIN at |-> s[at[n]]]

PageRows(s) ==
    CASE lpage = "modules"  -> ModuleRows(s)
      [] lpage = "threads"  -> ThreadRows(s)
      [] lpage = "network"  -> ConnectionRows(s)
      [] lpage = "services" -> ServiceRows(s)

Seated ==
    IF lpage = "modules" /\ chosenItem \notin ItemKeys
    THEN (IF items = <<>> THEN 0 ELSE items[1].key) ELSE chosenItem

-----------------------------------------------------------------------------
Drawable == ~shut /\ items # NoItem
Confirming == askFor # NoItem

\* Mutation: over the whole list, whatever the filter hides.
StepToInAll(k, down) ==
    LET at == {i \in DOMAIN items : items[i].key = k}
    IN  IF items = <<>> THEN k
        ELSE items[IF at = {} THEN (IF down THEN 1 ELSE Len(items))
                   ELSE IF down THEN Min({Min(at) + 1, Len(items)}) ELSE Max({Min(at) - 1, 1})].key
StepTo(k, down) ==
    LET rows == PageRows(items)
        at == {i \in DOMAIN rows : rows[i].key = k}
    IN  IF rows = <<>> THEN k
        ELSE rows[IF at = {} THEN (IF down THEN 1 ELSE Len(rows))
                  ELSE IF down THEN Min({Min(at) + 1, Len(rows)}) ELSE Max({Min(at) - 1, 1})].key

Arrow == \E down \in BOOLEAN : chosenItem' = StepTo(Seated, down)
RowClick == \E i \in DOMAIN PageRows(items) : chosenItem' = PageRows(items)[i].key
HeaderSort ==
    /\ \E column \in BOOLEAN :
         IF column = byValue THEN up' = ~up /\ byValue' = byValue
         ELSE byValue' = column /\ up' \in (IF lpage = "network" THEN {TRUE} ELSE BOOLEAN)
    /\ chosenItem' = Seated
FrameOnly == chosenItem' = Seated

ButtonTarget == {x \in ToSet(items) : x.key = Seated /\ Match(x)}

SameView == UNCHANGED <<filter, hideIdle, byValue, up>>
NoRequest == UNCHANGED <<askFor, shut, target>>

\* Modules: type-ahead, arrows and the Menu key stand down for the confirmation.
ModulesShow ==
    /\ lpage = "modules" /\ Drawable
    /\ \/ FrameOnly /\ SameView /\ NoRequest
       \/ ~Confirming /\ (Arrow \/ RowClick) /\ SameView /\ NoRequest
       \/ ~Confirming /\ HeaderSort /\ UNCHANGED <<filter, hideIdle>> /\ NoRequest
       \/ ~Confirming /\ filter' \in 0..2 /\ chosenItem' = Seated /\ UNCHANGED <<hideIdle, byValue, up>> /\ NoRequest
       \/ /\ ~Confirming
          /\ \/ chosenItem' = Seated /\ askFor' \in ButtonTarget
             \/ \E i \in DOMAIN PageRows(items) : chosenItem' = PageRows(items)[i].key /\ askFor' = PageRows(items)[i]
          /\ SameView /\ UNCHANGED <<shut, target>>

ThreadsShow ==
    /\ lpage = "threads" /\ Drawable
    /\ \/ FrameOnly /\ SameView
       \/ (Arrow \/ RowClick) /\ SameView
       \/ HeaderSort /\ UNCHANGED <<filter, hideIdle>>
       \/ filter' \in 0..2 /\ UNCHANGED <<chosenItem, hideIdle, byValue, up>>
       \/ hideIdle' = ~hideIdle /\ UNCHANGED <<chosenItem, filter, byValue, up>>
    /\ NoRequest

NetworkShow ==
    /\ lpage = "network" /\ Drawable
    /\ \/ FrameOnly /\ SameView
       \/ (Arrow \/ RowClick) /\ SameView
       \/ HeaderSort /\ UNCHANGED <<filter, hideIdle>>
    /\ NoRequest

\* Services: a double click or the row's menu leaves for the Services page.
ServicesShow ==
    /\ lpage = "services" /\ Drawable /\ SameView /\ askFor' = askFor
    /\ \/ (FrameOnly \/ Arrow \/ RowClick) /\ UNCHANGED <<shut, target>>
       \/ /\ \E i \in DOMAIN items : target' = items[i].key
          /\ chosenItem' = target' /\ shut' = TRUE

Shows ==
    /\ ModulesShow \/ ThreadsShow \/ NetworkShow \/ ServicesShow
    /\ fresh' = FALSE
    /\ UNCHANGED <<lpage, items>>

\* unload_confirmation is answered either way; Inspector follows the unload.
Answered ==
    /\ Confirming /\ ~shut /\ askFor' = NoItem
    /\ UNCHANGED <<lpage, items, fresh, chosenItem, filter, hideIdle, byValue, up, shut, target>>

\* Escape, Enter or Close, unless the confirmation owns the keyboard.
CloseDialog ==
    /\ ~shut /\ ~Confirming /\ shut' = TRUE
    /\ UNCHANGED <<lpage, items, fresh, chosenItem, filter, hideIdle, byValue, up, askFor, target>>

InsListNext == ListArrives \/ Shows \/ Answered \/ CloseDialog
InsListSpec == InsListInit /\ [][InsListNext]_insListVars

-----------------------------------------------------------------------------
(* Properties.                                                              *)

\* The confirmation only ever asks about a module that the page shows: typing
\* in the filter takes a hidden selection away from the unload button, and the
\* fallback selection after an unload may itself be hidden (modules.rs show).
AskIsShown == Confirming => Match(askFor)

\* After a frame of the Modules page the selection is a module of the list, so
\* the button does not dead-end right after an unload removed the selected one.
SelectionAlive == lpage = "modules" /\ Drawable /\ ~fresh /\ items # <<>> => chosenItem \in ItemKeys

\* Two enumerations of the same threads, or of the same modules, in different
\* order draw the same rows: a refresh does not make rows trade places.
RowsSteady ==
    Drawable /\ lpage \in {"modules", "threads"} =>
        \A p \in SetToSeqs(DOMAIN items) : PageRows([i \in DOMAIN p |-> items[p[i]]]) = PageRows(items)

\* An arrow key selects a row that is on the page, whatever is filtered away.
ArrowsOnRows ==
    [][Drawable /\ Shows /\ chosenItem' # Seated =>
        \E i \in DOMAIN PageRows(items) : PageRows(items)[i].key = chosenItem']_insListVars


-----------------------------------------------------------------------------
(***************************************************************************)
(* Writing crash dumps of one or several processes (tabs/details.rs         *)
(* create_dumps and dump_progress_dialog, app.rs InFlight, win/             *)
(* process_ops.rs create_dump_file_with_progress, model.rs                  *)
(* DumpProgressTracker).                                                    *)
(*                                                                         *)
(* The UI thread asks where to, a worker writes one file after the other,   *)
(* and the progress dialog may ask it to stop at any moment.                *)
(***************************************************************************)

CONSTANTS DPids,      \* PIDs that may be dumped
          Reuses,     \* how often PIDs may be reused
          NoDump      \* nothing

ASSUME DumpAssumption == Reuses \in Nat

VARIABLES dumpBirths,     \* PID -> start of the process that has it
          writing,    \* dump_write: the InFlight guard
          dumpPhase,      \* of create_dumps on the UI thread: "idle", "asking", "active"
          todo,       \* the worker's targets, identities still to dump; NoDump without a worker
          dumpWork,       \* the dump being written: [target, step], or NoDump
          files,      \* PID -> what is at its path: [what, of]
          canceled,   \* the tracker: cancel was requested
          count,      \* targets, successes, failures of this batch
          result,     \* the outcome slot
          said        \* the batch's toast and how many files it names

dumpVars == <<dumpBirths, writing, dumpPhase, todo, dumpWork, files, canceled, count, result, said>>

NoFile == [what |-> "none", of |-> 0]
Zero == [total |-> 0, ok |-> 0, failed |-> 0]

DumpInit ==
  /\ dumpBirths = [p \in DPids |-> 1]
  /\ writing = FALSE
  /\ dumpPhase = "idle"
  /\ todo = NoDump
  /\ dumpWork = NoDump
  /\ files = [p \in DPids |-> NoFile]
  /\ canceled = FALSE
  /\ count = Zero
  /\ result = NoDump
  /\ said = NoDump

\* A process exits and its PID is given to another; an open handle keeps it.
PidReused ==
  /\ \E p \in DPids :
       /\ dumpBirths[p] <= Reuses
       /\ dumpWork # NoDump => (dumpWork.target.pid # p \/ dumpWork.step = "open")
       /\ dumpBirths' = [dumpBirths EXCEPT ![p] = @ + 1]
  /\ UNCHANGED <<writing, dumpPhase, todo, dumpWork, files, canceled, count, result, said>>

\* create_dumps: processes of the newest snapshot; one batch at a time.
AskDump ==
  /\ dumpPhase = "idle"
  /\ ~writing
  /\ \E P \in SUBSET DPids \ {{}} :
       todo' = {[pid |-> p, start |-> dumpBirths[p]] : p \in P}
  /\ writing' = TRUE
  /\ dumpPhase' = "asking"
  /\ UNCHANGED <<dumpBirths, dumpWork, files, canceled, count, result, said>>

\* The file dialog is dismissed, or the worker cannot be started.
Dismiss ==
  /\ dumpPhase = "asking"
  /\ dumpPhase' = "idle" /\ todo' = NoDump
  /\ writing' = FALSE
  /\ UNCHANGED <<dumpBirths, dumpWork, files, canceled, count, result, said>>

\* A path, or a folder, is chosen and the worker started.
Launch ==
  /\ dumpPhase = "asking"
  /\ dumpPhase' = "active"
  /\ canceled' = FALSE /\ result' = NoDump /\ said' = NoDump
  /\ count' = [Zero EXCEPT !.total = Cardinality(todo)]
  /\ files' \in {[p \in DPids |-> IF \E d \in todo : d.pid = p THEN f ELSE NoFile] : f \in {NoFile, [what |-> "old", of |-> 0]}}
  /\ UNCHANGED <<dumpBirths, writing, todo, dumpWork>>

\* Escape, the window's X or Cancel: only a request.
RequestCancel ==
  /\ dumpPhase = "active" /\ result = NoDump /\ ~canceled
  /\ canceled' = TRUE
  /\ UNCHANGED <<dumpBirths, writing, dumpPhase, todo, dumpWork, files, count, result, said>>

\* The dialog closes when the outcome is there, by itself.
DialogCloses ==
  /\ dumpPhase = "active" /\ result # NoDump
  /\ dumpPhase' = "idle"
  /\ UNCHANGED <<dumpBirths, writing, todo, dumpWork, files, canceled, count, result, said>>

-----------------------------------------------------------------------------
Working == todo # NoDump /\ dumpPhase # "asking"

\* The loop looks at the request before each target.
NextDump ==
  /\ Working /\ dumpWork = NoDump /\ result = NoDump /\ ~canceled
  /\ todo # {}
  /\ \E d \in todo : dumpWork' = [target |-> d, step |-> "open"] /\ todo' = todo \ {d}
  /\ UNCHANGED <<dumpBirths, writing, dumpPhase, files, canceled, count, result, said>>

\* open_process_verified: the creation time is compared before any file is made.
Opens(d) == dumpBirths[d.pid] = d.start

\* What a failure ends with: the next target.
DumpFailed == count' = [count EXCEPT !.failed = @ + 1] /\ dumpWork' = NoDump

OpenDump ==
  /\ dumpWork # NoDump /\ dumpWork.step = "open" /\ ~canceled
  /\ \/ /\ Opens(dumpWork.target)
        /\ files' = [files EXCEPT ![dumpWork.target.pid] = [what |-> "empty", of |-> dumpBirths[dumpWork.target.pid]]]
        /\ dumpWork' = [dumpWork EXCEPT !.step = "write"]
        /\ UNCHANGED count
     \/ UNCHANGED files /\ DumpFailed
  /\ UNCHANGED <<dumpBirths, writing, dumpPhase, todo, canceled, result, said>>

\* The failed attempt left a partial file behind.
Rewound(f) == [f EXCEPT !.what = "empty"]

\* MiniDumpWriteDump, once more with less if it fails (but for a minimal dump).
WriteDump ==
  /\ dumpWork # NoDump /\ dumpWork.step \in {"write", "reduced"}
  /\ LET p == dumpWork.target.pid
         put(what) == [files EXCEPT ![p].what = IF files[p].what = "empty" THEN what ELSE "mixed"]
     IN  \/ files' = put("whole") /\ dumpWork' = [dumpWork EXCEPT !.step = "ok"]
         \/ /\ files' = put("partial")
            /\ \/ dumpWork.step = "write" /\ ~canceled /\ dumpWork' = [dumpWork EXCEPT !.step = "retry"]
               \/ dumpWork' = [dumpWork EXCEPT !.step = "bad"]
  /\ UNCHANGED <<dumpBirths, writing, dumpPhase, todo, canceled, count, result, said>>

RetryDump ==
  /\ dumpWork # NoDump /\ dumpWork.step = "retry"
  /\ files' = [files EXCEPT ![dumpWork.target.pid] = Rewound(@)]
  /\ dumpWork' = [dumpWork EXCEPT !.step = "reduced"]
  /\ UNCHANGED <<dumpBirths, writing, dumpPhase, todo, canceled, count, result, said>>

\* The file of a failed dump or of a cancelled one is removed.
Removes == dumpWork.step = "bad" \/ canceled

CloseDump ==
  /\ dumpWork # NoDump /\ dumpWork.step \in {"ok", "bad"}
  /\ files' = IF Removes THEN [files EXCEPT ![dumpWork.target.pid] = NoFile] ELSE files
  /\ dumpWork' = IF canceled THEN [dumpWork EXCEPT !.step = "canceled"] ELSE NoDump
  /\ count' = IF canceled THEN count ELSE IF dumpWork.step = "ok" THEN [count EXCEPT !.ok = @ + 1] ELSE [count EXCEPT !.failed = @ + 1]
  /\ UNCHANGED <<dumpBirths, writing, dumpPhase, todo, canceled, result, said>>

\* The batch is over: cancelled before or during a target, or all were tried.
StoppedAt == dumpWork # NoDump /\ (dumpWork.step = "canceled" \/ (dumpWork.step = "open" /\ canceled))

Outcome ==
  IF StoppedAt \/ todo # {} THEN [out |-> "canceled", n |-> 0]
  ELSE IF count.failed = 0 THEN [out |-> "written", n |-> count.ok]
  ELSE IF count.ok > 0 THEN [out |-> "partly", n |-> count.ok] ELSE [out |-> "failed", n |-> 0]

EndBatch ==
  /\ Working /\ result = NoDump
  /\ StoppedAt \/ (dumpWork = NoDump /\ (todo = {} \/ canceled))
  /\ said' = Outcome
  /\ result' = Outcome.out
  /\ dumpWork' = NoDump
  /\ UNCHANGED <<dumpBirths, writing, dumpPhase, todo, files, canceled, count>>

\* in_flight.end(), after the outcome is there.
Release ==
  /\ Working /\ result # NoDump
  /\ writing' = FALSE
  /\ todo' = NoDump
  /\ UNCHANGED <<dumpBirths, dumpPhase, dumpWork, files, canceled, count, result, said>>

DumpNext ==
  \/ PidReused \/ AskDump \/ Dismiss \/ Launch \/ RequestCancel \/ DialogCloses
  \/ NextDump \/ OpenDump \/ WriteDump \/ RetryDump \/ CloseDump \/ EndBatch \/ Release

DumpSpec == DumpInit /\ [][DumpNext]_dumpVars

-----------------------------------------------------------------------------
\* When the worker is through, no half-written dump is left under any path,
\* whichever target failed, was retried or was stopped.
NoPartialFile == (dumpWork = NoDump) => \A p \in DPids : files[p].what \in {"none", "old", "whole"}

\* A dump is of the process the row showed, never of one that took its PID.
DumpIsOfTarget ==
  dumpWork # NoDump => (files[dumpWork.target.pid].what \notin {"none", "old"} => files[dumpWork.target.pid].of = dumpWork.target.start)

\* The toast names as many files as there are whole dumps of this batch.
ReportTrue ==
  (result # NoDump /\ said.out \in {"written", "partly"}) => said.n = Cardinality({p \in DPids : files[p].what = "whole"})

\* Whatever way a batch ended, the next can be started.
DumpAvailable == (dumpPhase = "idle" /\ todo = NoDump) => ~writing

\* The inspector's background work: F5 is answered by a later query, lists never go back
\* in time, an unload is judged by a listing taken after it, the button acts on the row
\* shown, and a dump is of its target, whole, truthfully reported and possible again.
InspectorHonest ==
  /\ []RefreshAnswered /\ []UnloadHonest /\ []AskIsShown /\ []SelectionAlive
  /\ []RowsSteady /\ []NoPartialFile /\ []DumpIsOfTarget /\ []ReportTrue
  /\ []DumpAvailable /\ ListNeverOlder /\ ArrowsOnRows
=============================================================================
