----------------------------- MODULE Navigation -----------------------------
(***************************************************************************)
(* The keyboard in the main window: which control has the focus, and which  *)
(* handler a key press belongs to. A frame runs the handlers in the order   *)
(* in which ui draws them (global keys, search box, sidebar, command        *)
(* buttons, table header, page body, the Escape rescue); each may move the  *)
(* focus and consume the key, and the ones after it see what it left. The   *)
(* search box commits to the selection of the page. Dialogs are in Dialogs; *)
(* here a key that opens one only counts as taken. A frame without a key    *)
(* follows every frame with one.                                            *)
(***************************************************************************)
EXTENDS Integers, Sequences, FiniteSets

CONSTANTS AllTabs,     \* Tab::ALL, a sequence
          Perf,        \* Tab::Performance: no search, no table header
          Keeping,     \* pages where a committed search keeps a selection that matches
          MaxTools,    \* most command buttons on a page
          Rows,        \* the rows of a page, 1..n in display order
          NoRow

ASSUME NavigationAssumption == Perf \in {AllTabs[i] : i \in 1..Len(AllTabs)} /\ NoRow \notin Rows

VARIABLES nav          \* the window: see NavInit
navVars == nav

TabSet == {AllTabs[i] : i \in 1..Len(AllTabs)}
TabAt(i) == AllTabs[i]
TabPos(t) == CHOOSE i \in 1..Len(AllTabs) : AllTabs[i] = t

-----------------------------------------------------------------------------
(* Controls that can have the focus. *)

Nobody == <<"nobody", "-", 0>>
SearchBox == <<"search", "-", 0>>
Toggle == <<"toggle", "-", 0>>
SettingsItem == <<"settings", "-", 0>>
TabItem(t) == <<"tab", t, 0>>
Tool(t, n) == <<"tool", t, n>>
Header(t) == <<"header", t, 0>>
Body(t) == <<"body", t, 0>>

\* What a frame draws that can keep the focus: the search box not on the
\* Performance page, of the tabs only the selected one, the header once the
\* page has data; the body always ("Keep the content target alive").
Drawn(s) ==
  {Toggle, SettingsItem, TabItem(s.tab), Body(s.tab)}
  \cup (IF s.tab = Perf THEN {} ELSE {SearchBox})
  \cup (IF s.tab # Perf /\ s.loaded THEN {Header(s.tab)} ELSE {})
  \cup {Tool(s.tab, n) : n \in 1..s.tools}

NoKey == "none"
Keys == {"tab", "shift+tab", "up", "down", "left", "right", "enter", "space", "escape", "char",
         "ctrl+tab", "ctrl+shift+tab", "ctrl+digit", "f6", "shift+f6", "ctrl+f", "ctrl+n", "delete"}

NavInit ==
  nav \in [tab : {AllTabs[1]}, focus : {Body(AllTabs[1])}, key : {NoKey}, acts : {0},
           text : {FALSE}, hits : {Rows}, loaded : {FALSE}, tools : 0..MaxTools,
           items : {<<>>}, owner : {"-"}, pending : {"-"}, lastTab : {AllTabs[1]},
           sel : {[t \in TabSet |-> NoRow]}, parked : {[t \in TabSet |-> NoRow]}]

\* The focus is requested elsewhere and the key is consumed.
Goes(s, id) == [s EXCEPT !.focus = id, !.key = NoKey, !.acts = @ + 1]
Takes(s) == [s EXCEPT !.key = NoKey, !.acts = @ + 1]

-----------------------------------------------------------------------------
(* Search commits: commit_search_selection, scroll_to_current_selection. *)

FirstHit(s) == IF s.hits = {} THEN NoRow ELSE CHOOSE r \in s.hits : \A q \in s.hits : r <= q

Committed(s) ==
  LET kept == s.tab \in Keeping /\ s.sel[s.tab] \in s.hits
      row  == IF kept THEN s.sel[s.tab] ELSE FirstHit(s)
  IN  IF s.tab = Perf \/ ~s.loaded \/ row = NoRow THEN s
      ELSE [s EXCEPT !.sel[s.tab] = row, !.parked[s.tab] = row]

ScrolledTo(s) == [s EXCEPT !.parked[s.tab] = IF s.sel[s.tab] # NoRow THEN s.sel[s.tab] ELSE @, !.lastTab = s.tab]

-----------------------------------------------------------------------------
(* route_global_keyboard *)

\* page_switch_target
SwitchTarget(s) ==
  LET n == Len(AllTabs) i == TabPos(s.tab)
  IN  IF s.key = "ctrl+tab" THEN TabAt((i % n) + 1) ELSE IF s.key = "ctrl+shift+tab" THEN TabAt(((i + n - 2) % n) + 1) ELSE TabAt(n)

Regions == <<"search", "sidebar", "commands", "content">>

\* region_target; the command buttons are those the last frame recorded.
RegionTarget(s, t, r) ==
  CASE r = "search"   -> IF t = Perf THEN Nobody ELSE SearchBox
    [] r = "sidebar"  -> TabItem(t)
    [] r = "commands" -> IF s.owner = t /\ s.items # <<>> THEN s.items[1] ELSE Nobody
    [] r = "content"  -> Body(t)

\* current_region
RegionOf(s) ==
  IF \E i \in 1..Len(s.items) : s.items[i] = s.focus THEN "commands"
  ELSE IF s.focus # Nobody /\ \E i \in 1..4 : RegionTarget(s, s.tab, Regions[i]) = s.focus
  THEN Regions[CHOOSE i \in 1..4 : RegionTarget(s, s.tab, Regions[i]) = s.focus] ELSE "none"

\* next_region: the next one that has a target.
NextRegion(s, reverse) ==
  LET region == RegionOf(s)
      cur    == IF region = "none" THEN (IF reverse THEN 0 ELSE 3) ELSE (CHOOSE i \in 1..4 : Regions[i] = region) - 1
      at(o)  == Regions[(IF reverse THEN (cur + 4 - o) % 4 ELSE (cur + o) % 4) + 1]
      o      == CHOOSE x \in 1..4 : /\ RegionTarget(s, s.tab, at(x)) # Nobody
                                    /\ \A y \in 1..(x - 1) : RegionTarget(s, s.tab, at(y)) = Nobody
  IN  RegionTarget(s, s.tab, at(o))

\* The focus goes to the same region of the new page; its command buttons are
\* not known yet, so that wish is left for the end of the toolbar.
PageSwitch(s) ==
  LET old == IF RegionOf(s) = "none" THEN "content" ELSE RegionOf(s)
      t   == SwitchTarget(s)
      id  == RegionTarget(s, t, old)
  IN  [Goes(s, IF old = "commands" \/ id = Nobody THEN Body(t) ELSE id)
         EXCEPT !.tab = t, !.pending = IF old = "commands" THEN t ELSE @]

Routed(s) ==
  CASE s.key \in {"ctrl+tab", "ctrl+shift+tab", "ctrl+digit"} -> PageSwitch(s)
    [] s.key \in {"f6", "shift+f6"} -> Goes(s, NextRegion(s, s.key = "shift+f6"))
    [] s.key = "ctrl+n" -> Takes(s)
    [] s.key = "ctrl+f" /\ s.tab # Perf -> Goes(s, SearchBox)
    [] s.key = "delete" /\ s.focus = Body(s.tab) -> Takes(s)
    [] OTHER -> s

\* The start of ui: a new page brings its selection into view; the record of
\* the command buttons is emptied.
PageEntered(s) == LET t == IF s.lastTab # s.tab THEN ScrolledTo(s) ELSE s IN [t EXCEPT !.items = <<>>]

-----------------------------------------------------------------------------
(* top_search_panel *)

\* commit_search_on_down
SearchDown(s) == Goes(Committed(s), Body(s.tab))

SearchPanel(s) ==
  IF s.tab = Perf THEN s
  ELSE CASE s.focus = SearchBox /\ s.key = "down"      -> SearchDown(s)
         [] s.focus = SearchBox /\ s.key = "char"      -> Takes([s EXCEPT !.text = TRUE])
         [] s.focus = SearchBox /\ s.key = "tab"       -> Goes(s, Toggle)
         [] s.focus = SearchBox /\ s.key = "shift+tab" -> Goes(s, Body(s.tab))
         [] s.focus = SearchBox /\ s.key = "enter"     -> Goes(Committed(s), Body(s.tab))
         [] s.key = "escape" /\ s.text                 -> [s EXCEPT !.text = FALSE, !.hits = Rows]
         [] OTHER -> s

-----------------------------------------------------------------------------
(* sidebar, icon_button, nav_item *)

TabArrows(s) ==
  LET at == TabPos(s.focus[2]) to == IF s.key = "down" THEN at + 1 ELSE at - 1
  IN  IF to = 0 THEN Goes(s, Toggle) ELSE IF to > Len(AllTabs) THEN Goes(s, SettingsItem)
      ELSE [Goes(s, TabItem(TabAt(to))) EXCEPT !.tab = TabAt(to)]

SidebarTabs(s) ==
  IF s.focus[1] # "tab" THEN s
  ELSE CASE s.key \in {"up", "down"} -> TabArrows(s)
         [] s.key = "shift+tab" -> Goes(s, Toggle)
         [] s.key = "tab" -> Goes(s, SettingsItem)
         [] OTHER -> s

SidebarToggle(s) ==
  IF s.focus # Toggle THEN s
  ELSE CASE s.key = "down" -> [Goes(s, TabItem(TabAt(1))) EXCEPT !.tab = TabAt(1)]
         [] s.key = "up" -> Takes(s)
         [] s.key = "shift+tab" -> Goes(s, IF s.tab = Perf THEN Body(Perf) ELSE SearchBox)
         [] s.key = "tab" -> Goes(s, TabItem(s.tab))
         [] s.key \in {"enter", "space"} -> Takes(s)
         [] s.key = "right" -> Goes(s, Body(s.tab))
         [] OTHER -> s

\* Where Tab goes after the sidebar or the command buttons.
Beyond(t) == IF t = Perf THEN Body(t) ELSE Header(t)

SidebarSettings(s) ==
  IF s.focus # SettingsItem THEN s
  ELSE CASE s.key = "up" -> [Goes(s, TabItem(TabAt(Len(AllTabs)))) EXCEPT !.tab = TabAt(Len(AllTabs))]
         [] s.key = "down" -> Takes(s)
         [] s.key = "shift+tab" -> Goes(s, TabItem(s.tab))
         [] s.key = "tab" -> Goes(s, IF s.items # <<>> THEN s.items[1] ELSE Beyond(s.tab))
         [] OTHER -> s

SidebarItems(s) ==
  CASE s.focus[1] = "tab" /\ s.key = "right" -> Goes(s, Body(s.tab))
    [] s.focus[1] = "tab" /\ s.key = "enter" -> Goes(s, Body(s.focus[2]))
    [] s.focus = SettingsItem /\ s.key = "right" -> Goes(s, Body(s.tab))
    [] s.focus = SettingsItem /\ s.key \in {"enter", "space"} -> Takes(s)
    [] OTHER -> s

Sidebar(s) == SidebarItems(SidebarSettings(SidebarToggle(SidebarTabs(s))))

-----------------------------------------------------------------------------
(* The page: cmd_button and finish_toolbar_focus, header, scrolled_rows. *)

ToolDown(s) == IF s.focus[1] = "tool" /\ s.focus \in Drawn(s) /\ s.key = "down" THEN Goes(s, Body(s.tab)) ELSE s

\* The wish of a page switch is granted or dropped.
FinishPending(s) ==
  IF s.pending = "-" THEN s
  ELSE [s EXCEPT !.pending = "-", !.focus = IF s.pending = s.tab /\ s.items # <<>> THEN s.items[1] ELSE @]

\* finish_toolbar_focus
FinishKeys(s, was) ==
  LET n == Len(s.items)
      at == {i \in 1..n : s.items[i] \in {s.focus, was}}
      i == CHOOSE x \in at : \A y \in at : x <= y
      near(id) == id \in {s.focus, was}
      last == IF n = 0 THEN SettingsItem ELSE s.items[n]
  IN  CASE s.key \in {"left", "right"} /\ at # {} ->
             Goes(s, s.items[IF s.key = "right" THEN (IF i < n THEN i + 1 ELSE n) ELSE (IF i > 1 THEN i - 1 ELSE 1)])
        [] s.key = "shift+tab" /\ at # {} -> Goes(s, IF i = 1 THEN SettingsItem ELSE s.items[i - 1])
        [] s.key = "tab" /\ at # {} -> Goes(s, IF i = n THEN Beyond(s.tab) ELSE s.items[i + 1])
        [] s.key = "tab" /\ at = {} /\ near(SettingsItem) -> Goes(s, IF n = 0 THEN Beyond(s.tab) ELSE s.items[1])
        [] s.key = "shift+tab" /\ at = {} /\ near(Beyond(s.tab)) -> Goes(s, last)
        [] OTHER -> s

Toolbar(s, was) ==
  LET t == ToolDown([s EXCEPT !.items = [n \in 1..s.tools |-> Tool(s.tab, n)], !.owner = s.tab])
  IN  FinishKeys(FinishPending(t), was)

TableHeader(s) ==
  IF ~(s.loaded /\ s.tab # Perf /\ s.focus = Header(s.tab)) THEN s
  ELSE CASE s.key \in {"tab", "down"} -> Goes(s, Body(s.tab))
         [] s.key = "shift+tab" -> Goes(s, IF s.items = <<>> THEN SettingsItem ELSE s.items[Len(s.items)])
         [] OTHER -> s

PageBody(s) ==
  IF ~(s.loaded /\ s.focus = Body(s.tab)) THEN s
  ELSE CASE s.key = "tab" -> Goes(s, IF s.tab = Perf THEN Toggle ELSE SearchBox)
         [] s.key = "shift+tab" -> Goes(s, IF s.tab # Perf THEN Header(s.tab) ELSE IF s.items = <<>> THEN SettingsItem ELSE s.items[Len(s.items)])
         [] s.key \in {"up", "down", "enter", "space", "char"} -> Takes(s)
         [] OTHER -> s

RescueNot(s) == s
\* The end of ui: Escape that left nobody with the keyboard gives it to the page.
Rescue(s) == IF s.key = "escape" /\ s.focus = Nobody THEN [s EXCEPT !.focus = Body(s.tab)] ELSE s

-----------------------------------------------------------------------------
\* egui: Escape drops the focus; a Tab that no widget locks goes to the first one.
Began(s, k) ==
  LET t == [s EXCEPT !.key = k, !.acts = 0]
  IN  IF k = "escape" THEN [t EXCEPT !.focus = Nobody]
      ELSE IF k \in {"tab", "shift+tab"} /\ (s.focus = Nobody \/ (s.focus = Body(s.tab) /\ ~s.loaded))
      THEN [t EXCEPT !.focus = IF s.tab = Perf THEN Toggle ELSE SearchBox, !.key = NoKey] ELSE t

\* egui, and the frame without a key that follows: the focus on what is not
\* drawn is dropped, and a page the sidebar changed to is entered.
Settled(s) ==
  LET t == IF s.lastTab # s.tab THEN ScrolledTo(s) ELSE s
      u == FinishPending([t EXCEPT !.items = [n \in 1..s.tools |-> Tool(s.tab, n)], !.owner = s.tab])
  IN  [u EXCEPT !.focus = IF @ \in Drawn(u) THEN @ ELSE Nobody, !.key = NoKey]

\* TaskManApp::ui
Frame(s, k) ==
  LET b == Began(s, k)
  IN  Settled(Rescue(PageBody(TableHeader(Toolbar(Sidebar(SearchPanel(PageEntered(Routed(b)))), s.focus)))))

-----------------------------------------------------------------------------
Press(k) == nav' = Frame(nav, k)

\* Typing chooses what matches.
Type(H) == nav.focus = SearchBox /\ nav' = [Frame(nav, "char") EXCEPT !.hits = H]

ClickTab(t) == nav' = Settled([nav EXCEPT !.tab = t, !.focus = Nobody, !.acts = 1])
ClickRow(r) == nav.loaded /\ nav.tab # Perf /\ nav' = Settled([nav EXCEPT !.sel[nav.tab] = r, !.focus = Body(nav.tab), !.acts = 1])
ClickClear == nav.tab # Perf /\ nav.text /\ nav' = Settled([nav EXCEPT !.text = FALSE, !.hits = Rows, !.focus = SearchBox, !.acts = 1])
\* click_surrenders_search
ClickSpace == nav' = Settled([nav EXCEPT !.focus = IF @ = SearchBox THEN Nobody ELSE @, !.acts = 0])

\* The first sample arrives; a selection changes which buttons are enabled.
Loads == ~nav.loaded /\ nav' = Settled([nav EXCEPT !.loaded = TRUE])
ToolsChange(n) == nav' = Settled([nav EXCEPT !.tools = n])

NavNext ==
  \/ \E k \in Keys \ {"char"} : Press(k)
  \/ \E H \in SUBSET Rows : Type(H)
  \/ \E t \in TabSet : ClickTab(t)
  \/ \E r \in Rows : ClickRow(r)
  \/ ClickClear \/ ClickSpace \/ Loads
  \/ \E n \in 0..MaxTools : ToolsChange(n)

NavSpec == NavInit /\ [][NavNext]_navVars

-----------------------------------------------------------------------------
\* "Exactly one handler may win the frame" (original.rs:1108): a key press that
\* one control took is never acted on by one drawn later in the same frame,
\* although the first has often handed that one the focus.
OneWins == nav.acts <= 1

\* "No focus traps or dead ends" (CHANGELOG.md:677): on a page with data, no key
\* leaves the keyboard with nobody when somebody had it.
NoDeadEnd == (nav.loaded /\ nav.focus # Nobody) => \A k \in Keys : Frame(nav, k).focus # Nobody

\* F6 visits every region of the page that has a control, and comes back: four
\* presses reach the search box, the selected tab, a command button and the
\* page, wherever the focus was.
RegionsVisited ==
  LET here == {"sidebar", "content"} \cup (IF nav.tab = Perf THEN {} ELSE {"search"}) \cup (IF nav.tools > 0 THEN {"commands"} ELSE {})
  IN  nav.owner = nav.tab =>
        \A k \in {"f6", "shift+f6"} : \A a \in {Frame(nav, k)} : \A b \in {Frame(a, k)} : \A c \in {Frame(b, k)} :
          {RegionOf(a), RegionOf(b), RegionOf(c), RegionOf(Frame(c, k))} = here

\* Ctrl+Tab stays in the region: from the command buttons of one page to those
\* of the next, from the search box to the search box.
SwitchKeepsRegion ==
  \A k \in {"ctrl+tab", "ctrl+shift+tab"} :
    LET t == Frame(nav, k)
    IN  (RegionOf(nav) # "none" /\ nav.owner = nav.tab /\ ~(RegionOf(nav) = "search" /\ t.tab = Perf)) => RegionOf(t) = RegionOf(nav)

\* A search committed with Enter or Down shows its result: the selection of the
\* page matches when anything does, and the page is asked to bring it into view.
CommitShown ==
  (nav.focus = SearchBox /\ nav.loaded /\ nav.hits # {}) =>
    \A k \in {"enter", "down"} :
      LET t == Frame(nav, k)
      IN  t.sel[nav.tab] \in nav.hits /\ t.parked[nav.tab] = t.sel[nav.tab] /\ t.focus = Body(nav.tab)

\* "Tab and Shift+Tab form an unbroken cycle across the search bar, sidebar,
\* command toolbar, table headers, and table content" (CHANGELOG.md:675): what
\* Tab reached, Shift+Tab leads back from.
CycleUnbroken ==
  (nav.loaded /\ nav.focus # Nobody) => Frame(Frame(nav, "tab"), "shift+tab").focus = nav.focus

\* The keyboard: one handler acts on a key, focus always has a way on, F6 visits every
\* region that is there, a page switch keeps the region, and a committed search shows
\* its row.
FocusSound ==
  /\ OneWins /\ NoDeadEnd /\ RegionsVisited /\ SwitchKeepsRegion /\ CommitShown
=============================================================================
