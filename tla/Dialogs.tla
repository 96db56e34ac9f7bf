------------------------------- MODULE Dialogs -------------------------------
(***************************************************************************)
(* Who owns the keyboard: the page, a context menu or a modal dialog, and   *)
(* where the focus goes when a dialog closes (app.rs ui,                    *)
(* route_global_keyboard and modal_open; app_ui/original.rs dialogs,        *)
(* capture_focus and restore_focus; widgets/menu.rs; the dialogs of         *)
(* tabs/details.rs, modules.rs, users.rs, services.rs, app_history.rs,      *)
(* startup.rs).                                                             *)
(*                                                                         *)
(* One step is one frame: it runs, in this order, the hand-back of focus,   *)
(* the global keys, the page with its menu, the dialog and the end of the   *)
(* frame, each of which may take the frame's key. The dialogs:              *)
(*   "end", "signout", "service", "clear", "uac"  two pinned buttons;       *)
(*               "unload" is one more, on top of "props"                    *)
(*   "affinity"  two buttons below other controls                           *)
(*   "columns", "props", "settings", "startup"  controls and Close          *)
(*   "run", "help"                                                          *)
(***************************************************************************)
EXTENDS Integers, FiniteSets

CONSTANTS Nothing,     \* no widget
          Unset,       \* no such temporary value
          Entries      \* the dialogs that the pages' buttons and menus open

VARIABLES gui,         \* the frame's data, see GuiInit
          place,       \* the widget of the page the user last gave the focus to
          lost         \* a dialog left its temporary values behind

dialogVars == <<gui, place, lost>>

-----------------------------------------------------------------------------
Confirms == {"end", "signout", "service", "clear", "uac"}
DialogKinds == Confirms \cup {"unload", "affinity", "columns", "props", "settings", "startup", "run", "help"}
PageWidgets == {"list", "search", "button"}

\* help is opened by F1 only, unload from the properties.
ASSUME DialogsAssumption ==
  /\ Entries \subseteq DialogKinds \ {"unload", "help"}
  /\ Nothing # Unset /\ Unset \notin BOOLEAN
  /\ {Nothing, Unset} \cap (PageWidgets \cup {"entry", "safe", "primary", "body", "command", "cancel", "ok"}) = {}

\* keep, flag: the dialogs' restore and focus temporaries; shade: a modal was
\* the top layer of the previous frame; touched: the user went to the primary
\* button since the dialog opened; text: the Run dialog has a command.
GuiInit ==
  [focus |-> "list", parked |-> Nothing, start |-> "list", dlgs |-> {}, menu |-> FALSE, owner |-> Unset,
   keep |-> [d \in DialogKinds |-> Unset], flag |-> [d \in DialogKinds |-> Unset], shade |-> FALSE,
   text |-> FALSE, key |-> "none", fresh |-> FALSE, answer |-> <<"none", "none">>, touched |-> FALSE]

DialogsInit == gui = GuiInit /\ place = "list" /\ lost = FALSE

Modal(s) == s.dlgs # {}

OpenDialog(s, d) == [s EXCEPT !.dlgs = @ \cup {d}, !.fresh = TRUE, !.touched = FALSE]

TakeKey(s) == [s EXCEPT !.key = "none"]

-----------------------------------------------------------------------------
(* Focus. *)

\* capture_focus: the owner of the menu, a hand-back not yet done, or what had
\* the focus when the frame began.
Capture(s) ==
  [s EXCEPT !.parked = Nothing,
            !.start = IF s.owner \notin {Unset, Nothing} THEN s.owner
                      ELSE IF s.parked # Nothing THEN s.parked
                      ELSE IF s.start # Nothing THEN s.start ELSE s.focus]

\* A dialog's first frame keeps what it captured.
Opened(s, d) == LET c == Capture(s) IN [c EXCEPT !.keep[d] = c.start, !.start = s.start]

\* restore_focus, and the dialog is gone with its temporaries.
Restored(s, d) ==
  [s EXCEPT !.parked = IF s.keep[d] \in {Unset, Nothing} THEN @ ELSE s.keep[d],
            !.keep[d] = Unset, !.flag[d] = Unset, !.dlgs = @ \ {d}]

BeginAtOnce(s) ==
  LET t == IF s.parked # Nothing THEN [s EXCEPT !.focus = s.parked, !.parked = Nothing] ELSE s
  IN  [t EXCEPT !.start = t.focus]

\* begin_frame_focus: not while the layer is still blocked by the dialog that
\* closed; egui itself drops the focus on Escape and on a click elsewhere.
BeginFrame(s) ==
  LET t == IF s.parked # Nothing /\ ~s.shade THEN [s EXCEPT !.focus = s.parked, !.parked = Nothing] ELSE s
  IN  [t EXCEPT !.start = t.focus]

-----------------------------------------------------------------------------
(* The global keys, before the page is drawn. *)

Shortcut(s) ==
  IF s.key = "run" THEN TakeKey(OpenDialog(s, "run"))
  ELSE IF s.key = "settings" THEN TakeKey(OpenDialog(s, "settings"))
  ELSE IF s.key = "f1" THEN TakeKey(OpenDialog([s EXCEPT !.keep["help"] = s.focus], "help"))
  ELSE IF s.key = "delete" /\ s.focus = "list" THEN TakeKey(OpenDialog(s, "end"))
  ELSE s

\* route_global_keyboard
Route(s) ==
  IF "help" \in s.dlgs /\ s.key = "f1" THEN TakeKey(Restored(s, "help"))
  ELSE IF Modal(s) \/ s.menu THEN s ELSE Shortcut(s)

-----------------------------------------------------------------------------
(* The page: drawn disabled under a dialog, blocked in the frame after it. *)

\* Enter and Space click what has the focus, and are not consumed by that.
Clicks(s, at, widget) == at = widget \/ (s.focus = widget /\ s.key \in {"enter", "space"})

\* handle_menu_layer_navigation and entry: an entry closes the menu and acts.
MenuFrame(s, e) ==
  IF Clicks(s, e.at, "entry") THEN OpenDialog([s EXCEPT !.menu = FALSE], e.pick)
  ELSE IF e.at # "none" \/ s.key = "esc" THEN [s EXCEPT !.menu = FALSE]
  ELSE IF s.key = "tab" THEN TakeKey([s EXCEPT !.menu = FALSE])
  ELSE s

\* context_menu_kb: the menu remembers its owner; opened by a key it takes the focus.
OpenMenu(s) ==
  [s EXCEPT !.menu = TRUE, !.owner = IF s.focus = Nothing THEN "list" ELSE s.focus,
            !.focus = IF s.key = "menu" THEN "entry" ELSE @]

PageFrame(s, e) ==
  IF Modal(s) \/ s.shade THEN [s EXCEPT !.focus = IF @ \in PageWidgets \cup {"entry"} THEN Nothing ELSE @]
  ELSE IF s.menu THEN MenuFrame(s, e)
  ELSE IF e.at = "row" \/ s.key = "menu" THEN OpenMenu(s)
  ELSE IF Clicks(s, e.at, "button") THEN OpenDialog(s, IF e.pick \in {"affinity", "columns", "props", "startup"} THEN "run" ELSE e.pick)
  ELSE IF e.at \in {"list", "search"} THEN [s EXCEPT !.focus = e.at]
  ELSE IF s.key = "tab" /\ s.focus # "entry" THEN TakeKey([s EXCEPT !.focus = e.to])
  ELSE s

-----------------------------------------------------------------------------
(* The dialogs. *)

Answered(s, d, what) == [Restored(s, d) EXCEPT !.answer = <<d, what>>]

\* update_end_task_dialog_focus
MovedFlag(f, key) == IF key = "tab" THEN ~f ELSE IF key = "left" THEN FALSE ELSE IF key = "right" THEN TRUE ELSE f

KeyDecisionPrimary(key, primary) ==
  IF key = "esc" THEN "safe" ELSE IF key \in {"enter", "space"} THEN "primary" ELSE "none"

\* dialog_key_decision: the safe button is the default.
KeyDecision(key, primary) ==
  IF key = "esc" THEN "safe"
  ELSE IF key \in {"enter", "space"} THEN IF primary THEN "primary" ELSE "safe"
  ELSE "none"

\* A row of two pinned buttons; holding the pointer on one moves the focus.
PinnedFrame(s, d, e) ==
  LET f0 == IF s.flag[d] = Unset THEN FALSE ELSE s.flag[d]
      f1 == MovedFlag(f0, s.key)
      f2 == IF e.at = "hold" THEN TRUE ELSE f1
      dec == IF e.at \in {"safe", "x"} THEN "safe" ELSE IF e.at = "primary" THEN "primary" ELSE KeyDecision(s.key, f1)
      t == TakeKey([s EXCEPT !.flag[d] = f2, !.focus = IF f2 THEN "primary" ELSE "safe",
                             !.touched = @ \/ s.key \in {"tab", "right"} \/ e.at \in {"hold", "primary"}])
  IN  IF dec = "none" THEN t ELSE Answered(t, d, dec)

\* The end-task dialog tells its first frame by the flag, the others by what
\* they kept.
EndTaskFrame(s, e) == PinnedFrame(IF s.flag["end"] = Unset THEN Opened(s, "end") ELSE s, "end", e)

FirstOpened(s, d) == IF s.keep[d] = Unset THEN Opened(s, d) ELSE s
SignOutFrame(s, e) == PinnedFrame(FirstOpened(s, "signout"), "signout", e)
ServiceFrame(s, e) == PinnedFrame(FirstOpened(s, "service"), "service", e)
ClearFrame(s, e) == PinnedFrame(FirstOpened(s, "clear"), "clear", e)
UacFrame(s, e) == PinnedFrame(FirstOpened(s, "uac"), "uac", e)

\* unload_confirmation: keeps its focus flag when it closes.
UnloadFrame(s, e) ==
  LET t == PinnedFrame(FirstOpened(s, "unload"), "unload", e)
      f == MovedFlag(IF s.flag["unload"] = Unset THEN FALSE ELSE s.flag["unload"], s.key)
  IN  IF "unload" \in t.dlgs THEN t ELSE [t EXCEPT !.flag["unload"] = (e.at = "hold") \/ f]

\* consume_dialog_keys_tab_through: Enter is the dialog's only while no control
\* has the focus; Tab moves the focus within the dialog.
ThroughKey(s) == IF s.key \in {"enter", "space"} /\ s.focus # Nothing THEN "none" ELSE s.key
TabTo(s, e) == IF s.key = "tab" THEN [s EXCEPT !.focus = e.in, !.touched = @ \/ e.in = "primary"] ELSE s

\* affinity_dialog: applying it neither hands the focus back nor removes the
\* temporaries.
AffinityFrame(s, e) ==
  LET s1 == IF s.keep["affinity"] = Unset THEN [Opened(s, "affinity") EXCEPT !.focus = Nothing] ELSE s
      f  == IF s1.flag["affinity"] = Unset THEN FALSE ELSE s1.flag["affinity"]
      dec == KeyDecision(ThroughKey(s1), f)
      s2 == TabTo(s1, e)
      s3 == IF s2.focus \notin {"safe", "primary", "body"} THEN [s2 EXCEPT !.focus = "safe"] ELSE s2
      apply == dec = "primary" \/ Clicks(s2, e.at, "primary")
      cancel == dec = "safe" \/ e.at = "x" \/ Clicks(s2, e.at, "safe")
      t == TakeKey([s3 EXCEPT !.flag["affinity"] = s3.focus = "primary", !.touched = @ \/ e.at = "primary"])
  IN  IF apply THEN [t EXCEPT !.dlgs = @ \ {"affinity"}, !.flag["affinity"] = IF s1.flag["affinity"] = Unset THEN Unset ELSE f, !.answer = <<"affinity", "primary">>]
      ELSE IF cancel THEN Answered(t, "affinity", "safe") ELSE t

\* settings_dialog, select_columns_dialog, process_properties_dialog: controls
\* and Close. The Close button of the columns only closes.
ControlsFrame(s, d, e) ==
  LET s1 == IF s.keep[d] = Unset THEN [Opened(s, d) EXCEPT !.focus = "body"] ELSE s
      close == ThroughKey(s1) \in {"esc", "enter"} \/ e.at = "x"
      s2 == TabTo(s1, e)
      button == Clicks(s2, e.at, "safe")
      t == TakeKey([s2 EXCEPT !.focus = IF @ \in {"safe", "body"} THEN @ ELSE "body"])
  IN  IF close THEN Answered(t, d, "safe")
      ELSE IF button THEN IF d = "columns" THEN [t EXCEPT !.dlgs = @ \ {d}, !.answer = <<d, "safe">>] ELSE Answered(t, d, "safe")
      ELSE IF d = "props" /\ Clicks(s2, e.at, "body") /\ e.pick = "unload" THEN OpenDialog([t EXCEPT !.key = s.key], "unload")
      ELSE t

\* startup properties_dialog: Enter always closes; the Close button only closes.
StartupFrame(s, e) ==
  LET t == TakeKey(FirstOpened(s, "startup"))
  IN  IF s.key \in {"esc", "enter"} \/ e.at = "x" THEN Answered(t, "startup", "safe")
      ELSE IF e.at = "safe" THEN [t EXCEPT !.dlgs = @ \ {"startup"}, !.answer = <<"startup", "safe">>]
      ELSE t

\* run_task_dialog_key_action
RunKey(key, ring) ==
  IF key = "esc" THEN "cancel"
  ELSE IF key = "enter" \/ (key = "space" /\ ring # "command") THEN IF ring = "cancel" THEN "cancel" ELSE "submit"
  ELSE "none"

\* run_task_dialog: its own ring of focus; an empty command is not submitted.
RunFrame(s, e) ==
  LET s1 == IF s.flag["run"] = Unset THEN [Opened(s, "run") EXCEPT !.flag["run"] = "command"] ELSE s
      ring == IF s1.key = "tab" THEN e.ring ELSE s1.flag["run"]
      act == IF e.at \in {"safe", "x"} THEN "cancel"
             ELSE IF e.at = "primary" /\ s1.text THEN "submit" ELSE RunKey(s1.key, ring)
      t == TakeKey([s1 EXCEPT !.flag["run"] = ring, !.focus = "body", !.text = @ \/ s1.key = "type"])
  IN  IF act = "cancel" THEN Answered(t, "run", "safe")
      ELSE IF act = "submit" THEN IF s1.text THEN Answered(t, "run", "primary") ELSE [t EXCEPT !.flag["run"] = "command"]
      ELSE t

\* help_overlay
HelpFrame(s, e) ==
  LET t == [s EXCEPT !.focus = "safe"]
  IN  IF s.key = "esc" \/ e.at = "x" \/ Clicks(s, e.at, "safe") THEN TakeKey(Answered(t, "help", "safe")) ELSE TakeKey(t)

\* The dialog of the frame; the unload confirmation after, on top of, the properties.
DialogFrame(s, e) ==
  LET top == IF "unload" \in s.dlgs THEN "unload" ELSE CHOOSE d \in s.dlgs : TRUE
      asked == ControlsFrame(s, "props", e)
  IN  IF s.dlgs = {} THEN s
      ELSE IF top = "unload" THEN UnloadFrame(s, e)
      ELSE IF top = "end" THEN EndTaskFrame(s, e)
      ELSE IF top = "signout" THEN SignOutFrame(s, e)
      ELSE IF top = "service" THEN ServiceFrame(s, e)
      ELSE IF top = "clear" THEN ClearFrame(s, e)
      ELSE IF top = "uac" THEN UacFrame(s, e)
      ELSE IF top = "startup" THEN StartupFrame(s, e)
      ELSE IF top = "affinity" THEN AffinityFrame(s, e)
      ELSE IF top = "run" THEN RunFrame(s, e)
      ELSE IF top = "help" THEN HelpFrame(s, e)
      ELSE IF top = "props" THEN IF "unload" \in asked.dlgs THEN UnloadFrame(asked, [e EXCEPT !.at = "none"]) ELSE asked
      ELSE ControlsFrame(s, top, e)

-----------------------------------------------------------------------------
\* restore_closed_menu_focus, and Escape with nothing focused.
EndFrame(s, shown) ==
  LET t == IF s.menu THEN s
           ELSE [s EXCEPT !.owner = Unset, !.focus = IF s.owner \in {Unset, Nothing} \/ Modal(s) THEN @ ELSE s.owner]
      u == IF ~Modal(t) /\ ~t.menu /\ t.key = "esc" /\ t.focus = Nothing THEN [t EXCEPT !.focus = "list"] ELSE t
  IN  [u EXCEPT !.shade = shown, !.key = "none", !.start = Nothing, !.touched = @ /\ (Modal(u) \/ u.answer # <<"none", "none">>), !.focus = IF Modal(u) \/ u.menu \/ @ \in PageWidgets THEN @ ELSE Nothing]

DialogKeys == {"none", "esc", "enter", "space", "tab", "right", "f1", "run", "settings", "delete", "menu", "type"}
Spots == {"none", "list", "search", "button", "entry", "row", "safe", "primary", "body", "x", "hold"}

\* A key or a click that can be given on this screen, rarely both at once.
Possible(key, at) ==
  /\ at = "none" \/ key = "none" \/ (at = "button" /\ key \in {"f1", "run", "delete"})
  /\ at \in {"list", "search", "button"} => ~Modal(gui)
  /\ at = "row" => ~Modal(gui) /\ ~gui.menu
  /\ at = "entry" => gui.menu
  /\ at \in {"safe", "primary", "body", "x", "hold"} => Modal(gui)
  /\ key = "type" => "run" \in gui.dlgs

\* With it, where Tab goes (to, in, ring) and what an entry opens (pick).
Inputs(key, at) ==
  [key : {key}, at : {at},
   to : IF key = "tab" /\ ~Modal(gui) THEN PageWidgets ELSE {"list"},
   in : IF key = "tab" /\ Modal(gui) THEN {"safe", "primary", "body"} ELSE {"safe"},
   ring : IF key = "tab" THEN {"cancel", "ok"} ELSE {"ok"},
   pick : IF key \in {"enter", "space"} \/ at \in {"entry", "button", "body"}
          THEN IF "props" \in gui.dlgs THEN {"end", "unload"} ELSE Entries
          ELSE {"end"}]

\* One frame. The user's own moves of the focus on the page set place.
DialogPass ==
  \E key \in DialogKeys, at \in Spots : Possible(key, at) /\ \E e \in Inputs(key, at) :
       LET click == e.at # "none" /\ e.at # "hold"
           drop == e.key = "esc" \/ (click /\ gui.parked = Nothing /\ ~Modal(gui) /\ ~(gui.menu /\ e.at # "entry"))
       IN  \E s1 \in {BeginFrame([gui EXCEPT !.key = e.key, !.fresh = FALSE, !.answer = <<"none", "none">>])} :
           \E s2 \in {Route(IF drop THEN [s1 EXCEPT !.focus = Nothing, !.start = Nothing] ELSE s1)} :
           \E s3 \in {PageFrame(s2, e)} : \E s4 \in {DialogFrame(s3, e)} : \E s5 \in {EndFrame(s4, Modal(s3))} :
             LET moved == ~Modal(s2) /\ ~s2.shade /\ (s3.focus \in PageWidgets /\ (e.at \in {"list", "search"} \/ e.key = "tab") /\ ~s2.menu)
             IN  /\ gui' = s5
                 /\ place' = IF moved THEN s3.focus
                             ELSE IF s2.menu = FALSE /\ s3.menu THEN s3.owner
                             ELSE IF ~Modal(gui) /\ ~gui.menu /\ e.key = "esc" /\ s5.focus = "list" /\ s5.parked = Nothing THEN "list"
                             ELSE IF drop /\ ~gui.menu /\ e.at = "button" THEN Nothing
                             ELSE place
                 /\ lost' = ((lost /\ ~moved) \/ \E d \in DialogKinds \ {"help"} : s5.keep[d] # Unset /\ d \notin s5.dlgs)

DialogsNext == DialogPass

DialogsSpec == DialogsInit /\ [][DialogsNext]_dialogVars

-----------------------------------------------------------------------------
\* A key or a click that opens a dialog keeps every other from opening: only
\* the unload confirmation is ever shown on top of another dialog.
OneModal == Cardinality(gui.dlgs) <= 1 \/ gui.dlgs = {"props", "unload"}

\* A destructive answer is given only when the user went to its button since
\* the dialog opened, whatever was left focused by the page or an earlier one.
NoBlindConfirm == gui.answer \in (Confirms \cup {"affinity"}) \X {"primary"} => gui.touched

\* When everything has closed, the focus is where the user had left it on the
\* page: through menus, dialogs opened from them and dialogs opened in the frame
\* after another closed.
FocusBack ==
  (gui.dlgs = {} /\ ~gui.menu /\ ~gui.shade /\ gui.parked = Nothing /\ ~lost) => gui.focus = place

\* The same of the dialogs that close without: "Every close path - applied,
\* canceled, Escape or the window X - hands keyboard focus back to whatever
\* held it before the dialog took it" (details.rs:4704).
FocusAlwaysBack == (gui.dlgs = {} /\ ~gui.menu /\ ~gui.shade /\ gui.parked = Nothing) => gui.focus = place

\* "Unloading can crash the target: the SAFE action owns the default"
\* (modules.rs:1254).
NoBlindUnload == gui.answer = <<"unload", "primary">> => gui.touched

\* "a single keystroke cannot both open a dialog and race past the gate in the
\* same frame" (app.rs:2013)
OpeningKeyDoesNotAnswer == gui.fresh => gui.answer = <<"none", "none">>

\* Dialogs: one is open at a time, no question is answered by a key from before it was
\* seen, and the focus goes back to where it was.
ModalSafe ==
  /\ OneModal /\ NoBlindConfirm /\ FocusBack
=============================================================================
