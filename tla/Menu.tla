-------------------------------- MODULE Menu --------------------------------
(***************************************************************************)
(* Choosing from a menu (ui.c): get_menu_selection() and                   *)
(* get_menu_selection_ext() on the main thread, input_thread() that queues *)
(* keys, handles touches and toggles the display, and the part of          *)
(* ui_thread()'s drawing that the touches depend on.                       *)
(*                                                                         *)
(* gUpdateMutex and key_queue_mutex are held for one step each; what the   *)
(* code reads or writes without them is a step of its own.  A menu has its *)
(* header as element 0 and its items as elements 1 to n.                   *)
(***************************************************************************)
EXTENDS Integers, Sequences, FiniteSets

CONSTANTS
  Sizes,      \* the numbers of items menus may have
  QueueMax,   \* the length of key_queue: 256 in the code
  MaxInputs,  \* bound: what the user does
  MaxMenus,   \* bound: menus opened
  Rows        \* bound: the elements a finger may come down on

ASSUME SizesAssumption == Sizes \subseteq Nat \ {0}
ASSUME MenuBoundsAssumption ==
  /\ QueueMax \in Nat \ {0} /\ MaxInputs \in Nat /\ MaxMenus \in Nat
  /\ Rows \subseteq Nat

NO_ITEM == -1
GO_BACK == -5

Below == -1      \* the finger is under the menu,
NoFinger == -2   \* or nowhere

Keys == {"VOLUP", "VOLDOWN", "HOME", "BACK", "POWER"}
Codes == Keys \cup {"BTN_WHEEL", "BTN_MOUSE", "BTN_GEAR_UP"}

VARIABLES
  pc,                 \* the main thread
  kind, n,            \* its menu: "plain" or "ext", and the number of items
  initial,            \* the item that is selected first
  key, selected, chosen,    \* locals of get_menu_selection()
  ipc, ev, row,       \* the input thread, its event and nsel
  grab,               \* grabPos: where the finger went down
  dangling,           \* ui_get_selected_ext()'s act_menu was freed on the input thread
  queue,              \* key_queue
  show_text, show_menu,
  list,               \* the number of elements in the list menu_first, 0 for NULL
  menu_items, menu_sel,
  mouse_valid,        \* menu_sel_mouse_valid
  at_rest,            \* menu_start_pos == INT_MAX
  toggle,             \* allow_display_toggle
  typed,              \* history: keys queued since the menu began, up to the choice
  disturbed,          \* history: there is no menu, or something else interfered
  inputs, menus       \* bounded counters

main == <<pc, kind, n, initial, key, selected, chosen, menus>>
input == <<ipc, ev, row, grab, inputs>>
screen == <<show_text, show_menu, list, menu_items, menu_sel>>
mouse == <<mouse_valid, at_rest>>
history == <<typed, disturbed>>
vars == <<main, input, screen, mouse, queue, toggle, dangling, history>>

Init ==
  /\ pc = "caller" /\ kind = "plain" /\ n = 0 /\ initial = 1
  /\ key = "BTN_WHEEL" /\ selected = 0 /\ chosen = NO_ITEM /\ menus = 0
  /\ ipc = "ev_get" /\ ev = "BTN_WHEEL" /\ row = Below /\ grab = NoFinger /\ inputs = 0
  /\ show_text = FALSE /\ show_menu = FALSE /\ list = 0 /\ menu_items = 0 /\ menu_sel = 0
  /\ mouse_valid = FALSE /\ at_rest = FALSE
  /\ queue = <<>> /\ toggle = TRUE /\ dangling = FALSE
  /\ typed = <<>> /\ disturbed = TRUE

-----------------------------------------------------------------------------
Goto(p) == pc' = p
Running == pc # "crashed"

\* deleteMenu(): the copy of an element may be about to be taken from the old list.
FreeList == dangling' = (dangling \/ ipc = "copy")

\* The loop of ui_menu_select(): wrap around once, step over the header, wrap again.
\* Mutant: the header can be selected.
Wrap(m) ==
  IF m < 0 THEN m + menu_items ELSE IF m >= menu_items THEN m - menu_items ELSE m
SelectableHeader(sel) == Wrap(sel)
Selectable(sel) ==
  IF Wrap(sel) # 0 THEN Wrap(sel) ELSE Wrap(IF menu_sel <= sel THEN 1 ELSE -1)

\* The walk along the list never ends well: there is no such element, or the header
\* is the only one.
Wild(sel) == Wrap(sel) \notin 0..(list - 1) \/ menu_items = 1

ui_menu_select(sel) ==
  /\ show_text' = TRUE /\ show_menu' = TRUE
  /\ menu_sel' = Selectable(sel)
  /\ UNCHANGED <<list, menu_items>>

(***************************************************************************)
(* The main thread: a caller opens one menu after another.                 *)
(***************************************************************************)
KeepLocals == UNCHANGED <<kind, n, initial, key, selected, chosen, menus>>

Open(k, size, first) ==
  /\ pc = "caller" /\ menus < MaxMenus /\ menus' = menus + 1
  /\ kind' = k /\ n' = size
  /\ initial' = first
  /\ Goto(IF k = "plain" THEN "allow" ELSE "start_ext")
  /\ UNCHANGED <<key, selected, chosen, input, screen, mouse, queue, toggle, dangling, history>>

\* ui_start_menu_ext() and ui_add_menu()
StartExt ==
  /\ pc = "start_ext"
  /\ list' = 0 /\ menu_items' = 0 /\ menu_sel' = 0
  /\ FreeList /\ Goto("add")
  /\ KeepLocals /\ UNCHANGED <<input, show_text, show_menu, mouse, queue, toggle, history>>

AddMenu ==
  /\ pc = "add"
  /\ list' = list + 1 /\ menu_items' = menu_items + 1
  /\ Goto(IF list' = n + 1 THEN "allow" ELSE "add")
  /\ KeepLocals
  /\ UNCHANGED <<input, show_text, show_menu, menu_sel, mouse, queue, toggle, dangling, history>>

\* allow_display_toggle = 1
Allow ==
  /\ pc = "allow"
  /\ toggle' = TRUE /\ Goto("clear")
  /\ KeepLocals /\ UNCHANGED <<input, screen, mouse, queue, dangling, history>>

\* ui_clear_key_queue()
\* Mutant: keys queued before the menu stay.
ClearNot ==
  /\ pc = "clear"
  /\ typed' = <<>> /\ disturbed' = FALSE
  /\ Goto(IF kind = "plain" THEN "start" ELSE "select")
  /\ KeepLocals /\ UNCHANGED <<input, screen, mouse, queue, toggle, dangling>>
Clear ==
  /\ pc = "clear"
  /\ queue' = <<>>
  /\ typed' = <<>> /\ disturbed' = FALSE
  /\ Goto(IF kind = "plain" THEN "start" ELSE "select")
  /\ KeepLocals /\ UNCHANGED <<input, screen, mouse, toggle, dangling>>

\* ui_start_menu()
StartMenu ==
  /\ pc = "start"
  /\ list' = n + 1 /\ menu_items' = n + 1 /\ menu_sel' = 1 /\ show_menu' = TRUE
  /\ FreeList /\ Goto("select")
  /\ KeepLocals /\ UNCHANGED <<input, show_text, mouse, queue, toggle, history>>

SelectInitial ==
  /\ pc = "select"
  /\ ui_menu_select(initial) /\ Goto("wait")
  /\ KeepLocals /\ UNCHANGED <<input, mouse, queue, toggle, dangling, history>>

\* ui_wait_key(): pthread_cond_wait() until somebody signals.
WaitKey ==
  /\ pc = "wait"
  /\ IF queue = <<>>
       THEN Goto("asleep") /\ UNCHANGED <<key, queue>>
       ELSE key' = Head(queue) /\ queue' = Tail(queue) /\ Goto("visible")
  /\ UNCHANGED <<kind, n, initial, selected, chosen, menus,
                 input, screen, mouse, toggle, dangling, history>>

\* device_handle_key() of what is visible now.
HandleKey ==
  /\ pc = "visible"
  /\ Goto(IF show_text /\ key \in {"VOLUP", "VOLDOWN", "HOME", "BACK", "BTN_MOUSE"}
            THEN "selected" ELSE "wait")
  /\ KeepLocals /\ UNCHANGED <<input, screen, mouse, queue, toggle, dangling, history>>

\* ui_get_selected() or ui_get_selected_ext()
GetSelected ==
  /\ pc = "selected"
  /\ selected' = menu_sel
  /\ Goto(IF key \in {"VOLUP", "VOLDOWN"} THEN "highlight" ELSE "choose")
  /\ UNCHANGED <<kind, n, initial, key, chosen, menus,
                 input, screen, mouse, queue, toggle, dangling, history>>

\* HIGHLIGHT_DOWN and HIGHLIGHT_UP
Highlight ==
  /\ pc = "highlight"
  /\ ui_menu_select(IF key = "VOLUP" THEN selected + 1 ELSE selected - 1)
  /\ Goto("wait")
  /\ KeepLocals /\ UNCHANGED <<input, mouse, queue, toggle, dangling, history>>

\* SELECT_ITEM, SELECT_ITEM_MOUSE and GO_BACK; items count from 0 in a plain menu.
Item == IF kind = "plain" THEN selected - 1 ELSE selected
Choose ==
  /\ pc = "choose"
  /\ chosen' = CASE key = "BACK" -> GO_BACK
                 [] key = "BTN_MOUSE" /\ ~(mouse_valid /\ show_text) -> NO_ITEM
                 [] OTHER -> Item
  /\ Goto(IF chosen' = NO_ITEM THEN "wait" ELSE IF kind = "plain" THEN "end" ELSE "clear_again")
  /\ UNCHANGED <<kind, n, initial, key, selected, menus,
                 input, screen, mouse, queue, toggle, dangling, history>>

\* ui_end_menu(): the caller's job in an ext menu, after everything else.
EndMenu ==
  /\ pc = "end"
  /\ show_menu' = FALSE /\ list' = 0
  /\ FreeList /\ Goto(IF kind = "plain" THEN "clear_again" ELSE "caller")
  /\ KeepLocals
  /\ UNCHANGED <<input, show_text, menu_items, menu_sel, mouse, queue, toggle, history>>

\* ui_clear_key_queue() again; the choice is returned and the locals are gone.
ClearAgain ==
  /\ pc = "clear_again"
  /\ queue' = <<>> /\ Goto("disallow")
  /\ typed' = <<>> /\ disturbed' = TRUE
  /\ chosen' = NO_ITEM /\ selected' = 0 /\ key' = "BTN_WHEEL"
  /\ UNCHANGED <<kind, n, initial, menus, input, screen, mouse, toggle, dangling>>

Disallow ==
  /\ pc = "disallow"
  /\ toggle' = FALSE /\ Goto("hide")
  /\ KeepLocals /\ UNCHANGED <<input, screen, mouse, queue, dangling, history>>

\* ui_set_show_text(0)
Hide ==
  /\ pc = "hide"
  /\ show_text' = FALSE /\ Goto(IF kind = "plain" THEN "caller" ELSE "end")
  /\ KeepLocals
  /\ UNCHANGED <<input, show_menu, list, menu_items, menu_sel, mouse, queue, toggle, dangling,
                 history>>

(***************************************************************************)
(* The input thread.                                                       *)
(***************************************************************************)
IGoto(p) == ipc' = p
Event == Running /\ ipc = "ev_get" /\ inputs < MaxInputs /\ inputs' = inputs + 1
KeepMain == UNCHANGED <<kind, n, initial, key, selected, chosen, menus>>

PressKey(k) ==
  /\ Event /\ ev' = k
  /\ IGoto("queue")
  /\ UNCHANGED <<main, row, grab, screen, mouse, queue, toggle, dangling, history>>

\* ui_handle_mouse_input() while the finger is down, at r when it touched.
\* Only the first report after a rest selects; the others scroll.
Touched(r) ==
  /\ ev' = "BTN_WHEEL"
  /\ LET inMenu == show_menu /\ show_text /\ r # Below IN
     /\ at_rest' = (at_rest /\ ~inMenu)
     /\ IF inMenu /\ at_rest /\ r < menu_items
          THEN IGoto("select") /\ row' = r /\ UNCHANGED mouse_valid
          ELSE /\ IGoto("queue") /\ UNCHANGED row
               /\ mouse_valid' = (mouse_valid /\ ~(show_menu /\ show_text /\ (r = Below \/ at_rest)))

FingerDown(r) ==
  /\ Event /\ grab = NoFinger
  /\ grab' = r /\ Touched(r)
  /\ UNCHANGED <<main, screen, queue, toggle, dangling, history>>

FingerMove ==
  /\ Event /\ grab # NoFinger
  /\ Touched(grab)
  /\ UNCHANGED <<main, grab, screen, queue, toggle, dangling, history>>

\* A touch that did not move far is a click; one on a page without the menu is
\* hidden from the main thread; one at the right edge asks for the help text.
FingerUp(far, edge) ==
  /\ Event /\ grab # NoFinger
  /\ grab' = NoFinger
  /\ ev' = IF far \/ ~show_text THEN "BTN_GEAR_UP" ELSE "BTN_MOUSE"
  /\ IGoto(IF ~far /\ edge /\ show_text /\ show_menu THEN "help" ELSE "queue")
  /\ UNCHANGED <<main, row, screen, mouse, queue, toggle, dangling, history>>

Crash == pc' = "crashed"

\* ui_menu_select(nsel), and menu_sel_mouse_valid if that is what got selected.
TouchSelect ==
  /\ Running /\ ipc = "select"
  /\ IF Wild(row)
       THEN Crash /\ UNCHANGED <<ipc, row, screen, disturbed>>
       ELSE /\ ui_menu_select(row) /\ IGoto("valid") /\ disturbed' = TRUE
            /\ row' = IF Selectable(row) = row THEN row ELSE Below
            /\ UNCHANGED pc
  /\ KeepMain /\ UNCHANGED <<ev, grab, inputs, mouse, queue, toggle, dangling, typed>>

TouchValid ==
  /\ Running /\ ipc = "valid"
  /\ mouse_valid' = (mouse_valid \/ row # Below)
  /\ IGoto("queue")
  /\ UNCHANGED <<main, ev, row, grab, inputs, screen, at_rest, queue, toggle, dangling, history>>

\* ui_get_selected_ext() finds the element under the lock ...
HelpFind ==
  /\ Running /\ ipc = "help"
  /\ IF menu_sel < list
       THEN IGoto("copy") /\ dangling' = FALSE /\ UNCHANGED pc
       ELSE Crash /\ UNCHANGED <<ipc, dangling>>
  /\ KeepMain /\ UNCHANGED <<ev, row, grab, inputs, screen, mouse, queue, toggle, history>>

\* ... and copies it without: a freed one may be anything.
HelpCopy(help) ==
  /\ Running /\ ipc = "copy"
  /\ \/ /\ ev' = IF help THEN "BTN_GEAR_UP" ELSE ev
        /\ IGoto("queue") /\ UNCHANGED pc
     \/ dangling /\ Crash /\ UNCHANGED <<ev, ipc>>
  /\ dangling' = FALSE
  /\ KeepMain /\ UNCHANGED <<row, grab, inputs, screen, mouse, queue, toggle, history>>

\* Keys that mean something to get_menu_selection(), as they are queued.
Answers == {"HOME", "BACK"}
Answered == \E i \in DOMAIN typed : typed[i] \in Answers
Type(k) == IF k \in Answers \cup {"VOLUP", "VOLDOWN"} /\ ~Answered /\ ~disturbed
           THEN Append(typed, k) ELSE typed

\* pthread_cond_signal()
Signal == pc' = IF pc = "asleep" THEN "wait" ELSE pc

\* "we don't want to pollute the queue with mouse move events"
\* Mutant: nobody is woken up.
Pollutes == ev = "BTN_WHEEL" /\ queue # <<>> /\ queue[Len(queue)] = "BTN_WHEEL"
QueueKeySilently ==
  /\ Running /\ ipc = "queue"
  /\ queue' = IF Len(queue) < QueueMax /\ ~Pollutes THEN Append(queue, ev) ELSE queue
  /\ typed' = Type(ev)
  /\ disturbed' = (disturbed \/ ev = "BTN_MOUSE" \/ Len(queue) >= QueueMax)
  /\ IGoto("toggle")
  /\ UNCHANGED <<main, ev, row, grab, inputs, screen, mouse, toggle, dangling>>
QueueKey ==
  /\ Running /\ ipc = "queue"
  /\ queue' = IF Len(queue) < QueueMax /\ ~Pollutes THEN Append(queue, ev) ELSE queue
  /\ typed' = Type(ev)
  /\ disturbed' = (disturbed \/ ev = "BTN_MOUSE" \/ Len(queue) >= QueueMax)
  /\ IF Len(queue) < QueueMax THEN Signal ELSE UNCHANGED pc
  /\ IGoto("toggle")
  /\ KeepMain /\ UNCHANGED <<ev, row, grab, inputs, screen, mouse, toggle, dangling>>

\* device_toggle_display(), then the change under the lock.
MayToggle ==
  /\ Running /\ ipc = "toggle"
  /\ IGoto(IF toggle /\ ev = "POWER" THEN "flip" ELSE "ev_get")
  /\ ev' = "BTN_WHEEL" /\ row' = Below
  /\ UNCHANGED <<main, grab, inputs, screen, mouse, queue, toggle, dangling, history>>

Flip ==
  /\ Running /\ ipc = "flip"
  /\ show_text' = ~show_text /\ disturbed' = TRUE
  /\ IGoto("ev_get")
  /\ UNCHANGED <<main, ev, row, grab, inputs, show_menu, list, menu_items, menu_sel, mouse, queue,
                 toggle, dangling, typed>>

\* ui_thread(), draw_menu(): without a finger the menu comes to rest.
Draw ==
  /\ Running /\ show_text /\ show_menu /\ grab = NoFinger /\ ~at_rest
  /\ at_rest' = TRUE
  /\ UNCHANGED <<main, input, screen, mouse_valid, queue, toggle, dangling, history>>

MainStep == StartExt \/ AddMenu \/ Allow \/ Clear \/ StartMenu \/ SelectInitial \/ WaitKey
            \/ HandleKey \/ GetSelected \/ Highlight \/ Choose \/ EndMenu \/ ClearAgain
            \/ Disallow \/ Hide
InputStep == TouchSelect \/ TouchValid \/ HelpFind \/ (\E help \in BOOLEAN : HelpCopy(help))
             \/ QueueKey \/ MayToggle \/ Flip
User == \/ \E k \in Keys : PressKey(k)
        \/ \E r \in Rows \cup {Below} : FingerDown(r)
        \/ FingerMove
        \/ \E far, edge \in BOOLEAN : FingerUp(far, edge)

Next ==
  \/ \E size \in Sizes : \/ Open("plain", size, 1)
                         \/ \E first \in {1, size} : Open("ext", size, first)
  \/ MainStep \/ User \/ InputStep \/ Draw

Spec == Init /\ [][Next]_vars

\* Both threads keep executing; the user and the callers do what they like.
FairSpec == Spec /\ WF_vars(MainStep) /\ WF_vars(InputStep)

-----------------------------------------------------------------------------
\* The steps of get_menu_selection() with a menu on the screen.
Choosing == {"wait", "asleep", "visible", "selected", "highlight", "choose"}
MainPcs == Choosing \cup {"caller", "start_ext", "add", "allow", "clear", "start", "select", "end",
                          "clear_again", "disallow", "hide", "crashed"}

\* Type invariant; the menu never has more or fewer elements than it counts while
\* it exists, and the main thread sleeps only when there is no key.
TypeOK ==
  /\ pc \in MainPcs /\ kind \in {"plain", "ext"} /\ key \in Codes
  /\ ipc \in {"ev_get", "select", "valid", "help", "copy", "queue", "toggle", "flip"}
  /\ ev \in Codes /\ row \in Rows \cup {Below} /\ grab \in Rows \cup {Below, NoFinger}
  /\ queue \in Seq(Codes) /\ Len(queue) <= QueueMax
  /\ list \in {0, menu_items}
  /\ pc = "asleep" => queue = <<>>

\* "do not allow selection of invalid element": whoever calls ui_menu_select(), and
\* whenever, while a menu is on the screen one of its items is selected, never the
\* header and nothing beyond its end, and the choice is one of its items.
SelectionValid ==
  /\ pc \in Choosing => menu_sel \in 1..n /\ list = n + 1
  /\ chosen \in {NO_ITEM, GO_BACK} \cup (IF kind = "plain" THEN 0..(n - 1) ELSE 1..n)

\* What the keys mean: the first HOME chooses the item that the volume keys before it
\* lead to, going round the menu; BACK chooses none.
Answer == CHOOSE i \in DOMAIN typed : typed[i] \in Answers
Count(k) == Cardinality({i \in 1..(Answer - 1) : typed[i] = k})
Meaning ==
  IF typed[Answer] = "BACK" THEN GO_BACK
  ELSE ((initial - 1 + Count("VOLUP") - Count("VOLDOWN")) % n) + (IF kind = "ext" THEN 1 ELSE 0)

\* get_menu_selection() returns what the keys pressed since it threw the earlier
\* ones away mean, however the two threads interleave, unless a touch, the display
\* toggle or a full queue interfered.
AsTyped ==
  chosen # NO_ITEM /\ ~disturbed => Answered /\ chosen = Meaning

\* Once HOME or BACK is queued the menu returns: no wake-up of ui_wait_key() is lost.
MenuReturns ==
  pc \in Choosing /\ Answered /\ ~disturbed ~> pc \in {"caller", "crashed"} \/ disturbed

\* "do not allow selection of invalid element" (ui.c), also when the menu changes
\* while the input thread is between its look at the menu and ui_menu_select() or
\* ui_get_selected_ext(): no walk along the list runs off its end.
NoWildWalk == Running
=============================================================================
