----------------------------- MODULE MenuProofs -----------------------------
(***************************************************************************)
(* Proofs that a menu on the screen always has one of its items selected,  *)
(* that the main thread sleeps only while no key is queued, and that a     *)
(* menu returns what the keys mean, for menus of any size, any number of   *)
(* touches and keys and any queue.                                         *)
(***************************************************************************)
EXTENDS Menu, FiniteSetTheorems, TLAPS

\* The main thread is between the making of its menu and ui_end_menu().
HasMenu ==
  IF kind = "plain" THEN pc \in {"select", "end"} \cup Choosing
  ELSE pc \in {"allow", "clear", "select", "clear_again", "disallow", "hide", "end"} \cup Choosing

Types ==
  /\ pc \in MainPcs /\ kind \in {"plain", "ext"}
  /\ n \in Nat /\ initial \in Nat /\ selected \in Nat
  /\ list \in Nat /\ menu_items \in Nat /\ menu_sel \in Nat
  /\ grab \in Nat \cup {Below, NoFinger}
  /\ ipc = "select" => row \in Nat

Sized == pc \notin {"caller", "crashed"} => n >= 1 /\ initial \in 1..n

\* The list, its count and the selection fit together, also while
\* get_menu_selection_ext()'s caller still adds elements.
Listed ==
  /\ list \in {0, menu_items}
  /\ HasMenu => list = n + 1 /\ menu_items = n + 1 /\ menu_sel \in 0..n
  /\ pc \in {"start_ext", "add"} => kind = "ext"
  /\ pc = "add" => list = menu_items /\ list <= n /\ menu_sel \in 0..n

Selected ==
  /\ pc \in Choosing => menu_sel \in 1..n
  /\ pc \in {"highlight", "choose"} => selected \in 1..n

Chosen ==
  /\ chosen \in {NO_ITEM, GO_BACK} \/ (chosen = Item /\ selected \in 1..n)
  /\ chosen # NO_ITEM => pc \in {"clear_again", "crashed"} \/ (pc = "end" /\ kind = "plain")

\* The inductive invariant.
MenuInv == Types /\ Sized /\ Listed /\ Selected /\ Chosen

-----------------------------------------------------------------------------
\* ui_menu_select() lands on an item of the list whenever its walk ends well.
LEMMA SelectsItem ==
  ASSUME NEW sel \in Int, Types, list \in {0, menu_items}, ~Wild(sel)
  PROVE  Selectable(sel) \in 1..(menu_items - 1)
<1>1. menu_items # 0
  BY DEF Wild, Wrap, Types
<1>2. menu_items >= 2 /\ list = menu_items
  BY <1>1 DEF Wild, Wrap, Types
<1>3. CASE Wrap(sel) # 0
  BY <1>2, <1>3 DEF Wild, Wrap, Selectable, Types
<1>4. CASE Wrap(sel) = 0
  BY <1>2, <1>4 DEF Wrap, Selectable, Types
<1> QED
  BY <1>3, <1>4

\* The main thread's own calls, which go at most one beyond either end, end well.
LEMMA MainSelects ==
  ASSUME NEW sel \in 0..(n + 1), Types, n >= 1, list = n + 1, menu_items = n + 1
  PROVE  Selectable(sel) \in 1..n
<1>1. ~Wild(sel)
  BY DEF Wild, Wrap, Types
<1> QED
  BY <1>1, SelectsItem DEF Types

\* The invariant holds before the first menu.
LEMMA MenuInit == Init => MenuInv
BY DEF Init, MenuInv, Types, Below, NoFinger, Sized, Listed, Selected, Chosen, HasMenu, MainPcs, Choosing,
       NO_ITEM, GO_BACK

\* Steps that leave the menu and the main thread's locals alone keep the invariant.
LEMMA Untouched ==
  ASSUME MenuInv, UNCHANGED <<kind, n, initial, selected, chosen, list, menu_items, menu_sel>>,
         grab' \in Nat \cup {Below, NoFinger}, ipc' = "select" => row' \in Nat,
         \/ pc' = pc
         \/ pc' = "crashed"
         \/ pc = "asleep" /\ pc' = "wait"
         \/ pc = "wait" /\ pc' \in {"asleep", "visible"}
         \/ pc = "visible" /\ pc' \in {"wait", "selected"}
         \/ pc = "allow" /\ pc' = "clear"
         \/ pc = "clear" /\ pc' = IF kind = "plain" THEN "start" ELSE "select"
         \/ pc = "disallow" /\ pc' = "hide"
         \/ pc = "hide" /\ pc' = IF kind = "plain" THEN "caller" ELSE "end"
  PROVE  MenuInv'
<1> USE DEF MenuInv, HasMenu, Choosing
<1>1. Types'
  BY DEF Types, MainPcs
<1>2. Sized'
  BY DEF Sized
<1>3. Listed'
  BY DEF Listed
<1>4. Selected'
  BY DEF Selected
<1>5. Chosen'
  BY DEF Chosen, Item, NO_ITEM, GO_BACK
<1> QED
  BY <1>1, <1>2, <1>3, <1>4, <1>5

\* The main thread's steps.
LEMMA MainKeeps == MenuInv /\ MainStep => MenuInv'
<1> SUFFICES ASSUME MenuInv, MainStep
             PROVE  MenuInv'
  OBVIOUS
<1> USE DEF MenuInv
<1>1. CASE StartExt
  BY <1>1 DEF StartExt, KeepLocals, input, Goto, Types, Sized, Listed, Selected, Chosen, HasMenu,
              MainPcs, Choosing, Item, NO_ITEM, GO_BACK
<1>2. CASE AddMenu
  BY <1>2 DEF AddMenu, KeepLocals, input, Goto, Types, Sized, Listed, Selected, Chosen, HasMenu,
              MainPcs, Choosing, Item, NO_ITEM, GO_BACK
<1>3. CASE Allow \/ Clear \/ WaitKey \/ HandleKey \/ Disallow \/ Hide
  BY <1>3, Untouched
     DEF Allow, Clear, WaitKey, HandleKey, Disallow, Hide, KeepLocals, input, screen, Goto, Types
<1>4. CASE StartMenu
  BY <1>4 DEF StartMenu, KeepLocals, input, Goto, Types, Sized, Listed, Selected, Chosen, HasMenu,
              MainPcs, Choosing, Item, NO_ITEM, GO_BACK
<1>5. CASE SelectInitial
  <2>1. Selectable(initial) \in 1..n
    BY <1>5, MainSelects DEF SelectInitial, Sized, Listed, HasMenu, Types
  <2> QED
    BY <1>5, <2>1 DEF SelectInitial, ui_menu_select, KeepLocals, input, Goto, Types, Sized, Listed,
                      Selected, Chosen, HasMenu, MainPcs, Choosing, Item, NO_ITEM, GO_BACK
<1>6. CASE GetSelected
  BY <1>6 DEF GetSelected, input, screen, Goto, Types, Sized, Listed, Selected, Chosen, HasMenu,
              MainPcs, Choosing, Item, NO_ITEM, GO_BACK
<1>7. CASE Highlight
  <2>1. Selectable(selected + 1) \in 1..n /\ Selectable(selected - 1) \in 1..n
    BY <1>7, MainSelects DEF Highlight, Selected, Sized, Listed, HasMenu, Types, Choosing
  <2> QED
    BY <1>7, <2>1 DEF Highlight, ui_menu_select, KeepLocals, input, Goto, Types, Sized, Listed,
                      Selected, Chosen, HasMenu, MainPcs, Choosing, Item, NO_ITEM, GO_BACK
<1>8. CASE Choose
  BY <1>8 DEF Choose, input, screen, Goto, Types, Sized, Listed, Selected, Chosen, HasMenu,
              MainPcs, Choosing, Item, NO_ITEM, GO_BACK
<1>9. CASE EndMenu
  BY <1>9 DEF EndMenu, KeepLocals, input, Goto, Types, Sized, Listed, Selected, Chosen, HasMenu,
              MainPcs, Choosing, Item, NO_ITEM, GO_BACK
<1>10. CASE ClearAgain
  BY <1>10 DEF ClearAgain, input, screen, Goto, Types, Sized, Listed, Selected, Chosen, HasMenu,
               MainPcs, Choosing, Item, NO_ITEM, GO_BACK
<1> QED
  BY <1>1, <1>2, <1>3, <1>4, <1>5, <1>6, <1>7, <1>8, <1>9, <1>10 DEF MainStep

\* The user, the input thread and the drawing.
LEMMA InputKeeps == MenuInv /\ (User \/ InputStep \/ Draw) => MenuInv'
<1> SUFFICES ASSUME MenuInv, User \/ InputStep \/ Draw
             PROVE  MenuInv'
  OBVIOUS
<1> USE DEF MenuInv, Types
<1>1. CASE User
  <2>1. ASSUME NEW k \in Keys, PressKey(k)
        PROVE  MenuInv'
    BY <2>1, Untouched DEF PressKey, Event, IGoto, main, screen
  <2>2. ASSUME NEW r \in Rows \cup {Below}, FingerDown(r)
        PROVE  MenuInv'
    BY <2>2, Untouched, MenuBoundsAssumption DEF FingerDown, Event, Touched, IGoto, main, screen
  <2>3. CASE FingerMove
    BY <2>3, Untouched DEF FingerMove, Event, Touched, IGoto, main, screen
  <2>4. ASSUME NEW far \in BOOLEAN, NEW edge \in BOOLEAN, FingerUp(far, edge)
        PROVE  MenuInv'
    BY <2>4, Untouched DEF FingerUp, Event, IGoto, main, screen
  <2> QED
    BY <1>1, <2>1, <2>2, <2>3, <2>4 DEF User
<1>2. CASE TouchSelect
  <2>1. CASE Wild(row)
    BY <1>2, <2>1, Untouched DEF TouchSelect, Crash, KeepMain, screen, MenuInv, Types
  <2>2. CASE ~Wild(row)
    <3>1. Selectable(row) \in 1..(menu_items - 1)
      BY <1>2, <2>2, SelectsItem DEF TouchSelect, MenuInv, Types, Listed
    <3> QED
      BY <1>2, <2>2, <3>1
         DEF TouchSelect, ui_menu_select, IGoto, KeepMain, MenuInv, Types, Sized, Listed, Selected,
             Chosen, HasMenu, MainPcs, Choosing, Item, NO_ITEM, GO_BACK
  <2> QED
    BY <2>1, <2>2
<1>3. CASE TouchValid
  BY <1>3, Untouched DEF TouchValid, IGoto, main, screen
<1>4. CASE HelpFind
  BY <1>4, Untouched DEF HelpFind, IGoto, Crash, KeepMain, screen
<1>5. ASSUME NEW help \in BOOLEAN, HelpCopy(help)
      PROVE  MenuInv'
  BY <1>5, Untouched DEF HelpCopy, IGoto, Crash, KeepMain, screen
<1>6. CASE QueueKey
  BY <1>6, Untouched DEF QueueKey, IGoto, Signal, KeepMain, screen
<1>7. CASE MayToggle \/ Flip
  BY <1>7, Untouched DEF MayToggle, Flip, IGoto, main, screen
<1>8. CASE Draw
  BY <1>8, Untouched DEF Draw, main, input, screen, MenuInv, Types
<1> QED
  BY <1>1, <1>2, <1>3, <1>4, <1>5, <1>6, <1>7, <1>8 DEF InputStep

\* A caller opens a menu.
LEMMA OpenKeeps ==
  ASSUME MenuInv, NEW k \in {"plain", "ext"}, NEW size \in Sizes, NEW first \in 1..size,
         Open(k, size, first)
  PROVE  MenuInv'
BY SizesAssumption
   DEF Open, Goto, input, screen, MenuInv, Types, Sized, Listed, Selected, Chosen, HasMenu,
       MainPcs, Choosing, Item, NO_ITEM, GO_BACK

\* Every step keeps the invariant.
LEMMA MenuStep == MenuInv /\ [Next]_vars => MenuInv'
<1> SUFFICES ASSUME MenuInv, [Next]_vars
             PROVE  MenuInv'
  OBVIOUS
<1>1. ASSUME NEW size \in Sizes, Open("plain", size, 1)
      PROVE  MenuInv'
  BY <1>1, OpenKeeps, SizesAssumption
<1>2. ASSUME NEW size \in Sizes, NEW first \in {1, size}, Open("ext", size, first)
      PROVE  MenuInv'
  BY <1>2, OpenKeeps, SizesAssumption
<1>3. CASE MainStep
  BY <1>3, MainKeeps
<1>4. CASE User \/ InputStep \/ Draw
  BY <1>4, InputKeeps
<1>5. CASE UNCHANGED vars
  BY <1>5, Untouched DEF vars, main, input, screen, MenuInv, Types
<1> QED
  BY <1>1, <1>2, <1>3, <1>4, <1>5 DEF Next

\* "do not allow selection of invalid element" (ui.c, ui_menu_select): whatever the
\* input thread and the main thread do, and however large the menus are, a menu on
\* the screen has one of its own items selected and returns one of them.
THEOREM ValidSelection == Spec => []SelectionValid
<1>1. MenuInv => SelectionValid
  BY DEF MenuInv, Types, Listed, Selected, Chosen, SelectionValid, HasMenu, Choosing, Item,
         NO_ITEM, GO_BACK
<1> QED
  BY <1>1, MenuInit, MenuStep, PTL DEF Spec

-----------------------------------------------------------------------------
\* The input thread, the queue and the key that the main thread took from it.
InputInv ==
  /\ key \in Codes /\ ev \in Codes
  /\ ipc \in {"ev_get", "select", "valid", "help", "copy", "queue", "toggle", "flip"}
  /\ row \in Rows \cup {Below} /\ grab \in Rows \cup {Below, NoFinger}
  /\ queue \in Seq(Codes) /\ Len(queue) <= QueueMax
  /\ pc = "asleep" => queue = <<>>

\* Steps that leave the queue and the input thread alone, and put nobody to sleep.
LEMMA Quiet ==
  ASSUME InputInv, UNCHANGED <<ipc, row, grab, queue>>, ev' \in Codes, key' \in Codes,
         pc' # "asleep" \/ pc' = pc
  PROVE  InputInv'
BY DEF InputInv

\* The main thread sleeps only on an empty queue, and whatever is queued wakes it up.
LEMMA InputNext == InputInv /\ [Next]_vars => InputInv'
<1> SUFFICES ASSUME InputInv, [Next]_vars PROVE InputInv'
  OBVIOUS
<1>1. key \in Codes /\ ev \in Codes /\ \A k \in Keys : k \in Codes
  BY DEF InputInv, Codes
<1>2. /\ {"BTN_WHEEL", "BTN_MOUSE", "BTN_GEAR_UP"} \subseteq Codes
      /\ QueueMax \in Nat \ {0}
  BY MenuBoundsAssumption DEF Codes
<1>3. ASSUME NEW k, NEW size, NEW first, Open(k, size, first) PROVE InputInv'
  BY <1>1, <1>3, Quiet DEF Open, Goto, input
<1>4. CASE MainStep
  <2>1. CASE StartExt \/ AddMenu \/ Allow \/ StartMenu \/ SelectInitial \/ HandleKey \/ GetSelected
             \/ Highlight \/ Choose \/ EndMenu \/ Disallow \/ Hide
    <3>1. UNCHANGED <<ipc, row, grab, queue, ev, key>> /\ pc' # "asleep"
      BY <2>1 DEF StartExt, AddMenu, Allow, StartMenu, SelectInitial, HandleKey, GetSelected,
                  Highlight, Choose, EndMenu, Disallow, Hide, Goto, KeepLocals, input
    <3> QED
      BY <1>1, <3>1, Quiet
  <2>2. CASE Clear \/ ClearAgain
    <3>1. UNCHANGED <<ipc, row, grab, ev>> /\ key' \in Codes /\ queue' = <<>>
      BY <1>1, <1>2, <2>2 DEF Clear, ClearAgain, KeepLocals, input
    <3> QED
      BY <1>2, <3>1 DEF InputInv
  <2>3. CASE WaitKey
    <3>1. CASE queue = <<>>
      BY <2>3, <3>1 DEF WaitKey, InputInv, input, Goto
    <3>2. CASE queue # <<>>
      <4>1. Head(queue) \in Codes /\ Tail(queue) \in Seq(Codes) /\ Len(Tail(queue)) <= QueueMax
        BY <1>2, <3>2 DEF InputInv
      <4>2. /\ key' = Head(queue) /\ queue' = Tail(queue) /\ pc' = "visible"
            /\ UNCHANGED <<ipc, row, grab, ev>>
        BY <2>3, <3>2 DEF WaitKey, input, Goto
      <4> QED
        BY <4>1, <4>2 DEF InputInv
    <3> QED
      BY <3>1, <3>2
  <2> QED
    BY <1>4, <2>1, <2>2, <2>3 DEF MainStep
<1>5. CASE User
  <2>1. ASSUME NEW k \in Keys, PressKey(k) PROVE InputInv'
    BY <1>1, <2>1 DEF PressKey, Event, IGoto, main, InputInv
  <2>2. ASSUME NEW r \in Rows \cup {Below}, FingerDown(r) PROVE InputInv'
    <3>1. /\ ipc' \in {"select", "queue"} /\ row' \in {r, row} /\ ev' = "BTN_WHEEL" /\ grab' = r
          /\ UNCHANGED <<pc, key, queue>>
      BY <2>2 DEF FingerDown, Touched, Event, IGoto, main
    <3> QED
      BY <1>2, <3>1 DEF InputInv
  <2>3. CASE FingerMove
    <3>1. /\ ipc' \in {"select", "queue"} /\ row' \in {grab, row} /\ ev' = "BTN_WHEEL"
          /\ grab' = grab /\ grab # NoFinger /\ UNCHANGED <<pc, key, queue>>
      BY <2>3 DEF FingerMove, Touched, Event, IGoto, main
    <3> QED
      BY <1>2, <3>1 DEF InputInv
  <2>4. ASSUME NEW far \in BOOLEAN, NEW edge \in BOOLEAN, FingerUp(far, edge) PROVE InputInv'
    <3>1. /\ ipc' \in {"help", "queue"} /\ ev' \in {"BTN_MOUSE", "BTN_GEAR_UP"} /\ grab' = NoFinger
          /\ UNCHANGED <<pc, key, queue, row>>
      BY <2>4 DEF FingerUp, Event, IGoto, main
    <3> QED
      BY <1>2, <3>1 DEF InputInv
  <2> QED
    BY <1>5, <2>1, <2>2, <2>3, <2>4 DEF User
<1>6. CASE InputStep
  <2>1. CASE TouchSelect
    <3>1. /\ ipc' \in {ipc, "valid"} /\ row' \in {row, Below} /\ pc' \in {pc, "crashed"}
          /\ UNCHANGED <<ev, grab, queue, key>>
      BY <2>1 DEF TouchSelect, Crash, IGoto, KeepMain
    <3> QED
      BY <3>1 DEF InputInv
  <2>2. CASE TouchValid \/ MayToggle \/ Flip
    <3>1. /\ ipc' \in {"queue", "flip", "ev_get"} /\ row' \in {row, Below} /\ ev' \in {ev, "BTN_WHEEL"}
          /\ UNCHANGED <<pc, grab, queue, key>>
      BY <2>2 DEF TouchValid, MayToggle, Flip, IGoto, main
    <3> QED
      BY <1>2, <3>1 DEF InputInv
  <2>3. CASE HelpFind
    <3>1. /\ ipc' \in {ipc, "copy"} /\ pc' \in {pc, "crashed"} /\ UNCHANGED <<ev, row, grab, queue, key>>
      BY <2>3 DEF HelpFind, Crash, IGoto, KeepMain
    <3> QED
      BY <3>1 DEF InputInv
  <2>4. ASSUME NEW help \in BOOLEAN, HelpCopy(help) PROVE InputInv'
    <3>1. /\ ipc' \in {ipc, "queue"} /\ pc' \in {pc, "crashed"} /\ ev' \in {ev, "BTN_GEAR_UP"}
          /\ UNCHANGED <<row, grab, queue, key>>
      BY <2>4 DEF HelpCopy, Crash, IGoto, KeepMain
    <3> QED
      BY <1>2, <3>1 DEF InputInv
  <2>5. CASE QueueKey
    <3>1. ipc' = "toggle" /\ UNCHANGED <<ev, row, grab, key>>
      BY <2>5 DEF QueueKey, IGoto, KeepMain
    <3>2. queue' \in Seq(Codes) /\ Len(queue') <= QueueMax
      <4>1. CASE Len(queue) < QueueMax /\ ~Pollutes
        <5>1. queue' = Append(queue, ev)
          BY <2>5, <4>1 DEF QueueKey
        <5>2. queue \in Seq(Codes) /\ Len(queue) \in Nat
          BY DEF InputInv
        <5> QED
          BY <1>1, <1>2, <4>1, <5>1, <5>2
      <4>2. CASE ~(Len(queue) < QueueMax /\ ~Pollutes)
        BY <2>5, <4>2 DEF QueueKey, InputInv
      <4> QED
        BY <4>1, <4>2
    <3>3. pc' # "asleep"
      <4>1. CASE pc = "asleep"
        <5>1. queue = <<>>
          BY <4>1 DEF InputInv
        <5>2. Len(queue) < QueueMax
          BY <1>2, <5>1
        <5> QED
          BY <2>5, <5>2 DEF QueueKey, Signal
      <4>2. CASE pc # "asleep"
        BY <2>5, <4>2 DEF QueueKey, Signal
      <4> QED
        BY <4>1, <4>2
    <3> QED
      BY <3>1, <3>2, <3>3 DEF InputInv
  <2> QED
    BY <1>6, <2>1, <2>2, <2>3, <2>4, <2>5 DEF InputStep
<1>7. CASE Draw \/ UNCHANGED vars
  <2>1. UNCHANGED <<ipc, row, grab, queue, ev, key, pc>>
    BY <1>7 DEF Draw, vars, main, input
  <2> QED
    BY <1>1, <2>1, Quiet
<1> QED
  BY <1>3, <1>4, <1>5, <1>6, <1>7 DEF Next

\* The key queue never overflows, the list has as many elements as are counted while it
\* exists, and the main thread sleeps in ui_wait_key() only while there is no key.
THEOREM TypeCorrect == Spec => []TypeOK
<1>1. Init => InputInv
  BY MenuBoundsAssumption DEF Init, InputInv, Codes, Keys
<1>2. MenuInv /\ InputInv => TypeOK
  BY DEF MenuInv, Types, Listed, InputInv, TypeOK
<1> QED
  BY <1>1, <1>2, InputNext, MenuInit, MenuStep, PTL DEF Spec

-----------------------------------------------------------------------------
(***************************************************************************)
(* What the menu returns is what the keys mean.  d is the number of typed  *)
(* keys that the main thread has taken from the queue; the others are      *)
(* still in it, between keys that mean nothing.                            *)
(***************************************************************************)
Meant == Answers \cup {"VOLUP", "VOLDOWN"}

\* How many of the first i keys of a queue are among K, and how many mean something.
Hits(s, i, K) == {j \in 1..i : s[j] \in K}
Times(s, i, K) == Cardinality(Hits(s, i, K))
Rank(q, i) == Times(q, i, Meant)

\* Where the first d typed keys lead to.
Position(s, d) ==
  ((initial - 1 + Times(s, d, {"VOLUP"}) - Times(s, d, {"VOLDOWN"})) % n) + 1

NoAnswer(s, d) == \A i \in 1..d : s[i] \notin Answers

TypedTypes ==
  /\ typed \in Seq(Meant)
  /\ \A i \in DOMAIN typed : typed[i] \in Answers => i = Len(typed)

\* What was typed and is not taken yet is in the queue, in this order.
InOrder(d) ==
  /\ \A i \in DOMAIN queue :
       queue[i] \in Meant /\ d + Rank(queue, i) <= Len(typed) => typed[d + Rank(queue, i)] = queue[i]
  /\ d + Rank(queue, Len(queue)) >= Len(typed)
  /\ ~Answered => d + Rank(queue, Len(queue)) = Len(typed)

\* The main thread has the d-th key in its hand and has not followed it yet.
InHand(d) == d >= 1 /\ typed[d] = key /\ NoAnswer(typed, d - 1) /\ menu_sel = Position(typed, d - 1)
Followed(d) == NoAnswer(typed, d) /\ menu_sel = Position(typed, d)

Where(d) ==
  /\ pc \in {"start", "select"} => d = 0
  /\ pc \in {"wait", "asleep"} => Followed(d)
  /\ pc = "visible" => IF key \in Meant THEN InHand(d) ELSE Followed(d)
  /\ pc = "selected" => key \in Meant /\ InHand(d)
  /\ pc = "highlight" => key \in {"VOLUP", "VOLDOWN"} /\ InHand(d) /\ selected = menu_sel
  /\ pc = "choose" => key \in Answers /\ InHand(d) /\ selected = menu_sel
  /\ chosen # NO_ITEM =>
       /\ d >= 1 /\ typed[d] \in Answers /\ n >= 1
       /\ chosen = IF typed[d] = "BACK" THEN GO_BACK
                   ELSE Position(typed, d - 1) - (IF kind = "plain" THEN 1 ELSE 0)

\* Between ui_clear_key_queue() and the next one, undisturbed.
Undisturbed ==
  /\ pc \in {"start", "select", "end", "clear_again", "crashed"} \cup Choosing
  /\ pc \in {"end", "clear_again"} => chosen # NO_ITEM
  /\ pc \in Choosing => show_text /\ chosen = NO_ITEM
  /\ pc \in {"start", "select"} => chosen = NO_ITEM
  /\ \A i \in DOMAIN queue : queue[i] # "BTN_MOUSE"
  /\ pc \in {"visible", "selected", "highlight", "choose"} => key # "BTN_MOUSE"
  /\ \E d \in 0..Len(typed) : InOrder(d) /\ Where(d)

KeysInv == TypedTypes /\ (disturbed \/ Undisturbed)

-----------------------------------------------------------------------------
(***************************************************************************)
(* Counting keys.                                                          *)
(***************************************************************************)

\* There are finitely many hits, and none among no keys.
LEMMA TimesType ==
  ASSUME NEW s, NEW i \in Nat, NEW K
  PROVE  IsFiniteSet(Hits(s, i, K)) /\ Times(s, i, K) \in Nat /\ Times(s, 0, K) = 0
<1>1. IsFiniteSet(1..i) /\ Hits(s, i, K) \in SUBSET (1..i)
  BY FS_Interval DEF Hits
<1>2. IsFiniteSet(Hits(s, i, K))
  BY <1>1, FS_Subset
<1>3. Hits(s, 0, K) = {}
  BY DEF Hits
<1> QED
  BY <1>2, <1>3, FS_CardinalityType, FS_EmptySet DEF Times

\* One key more.
LEMMA TimesNext ==
  ASSUME NEW s, NEW i \in Nat, NEW K
  PROVE  Times(s, i + 1, K) = Times(s, i, K) + (IF s[i + 1] \in K THEN 1 ELSE 0)
<1>1. IsFiniteSet(Hits(s, i, K)) /\ Times(s, i, K) \in Nat
  BY TimesType
<1>2. i + 1 \notin Hits(s, i, K)
  BY DEF Hits
<1>3. CASE s[i + 1] \in K
  <2>1. Hits(s, i + 1, K) = Hits(s, i, K) \cup {i + 1}
    BY <1>3 DEF Hits
  <2> QED
    BY <1>1, <1>2, <1>3, <2>1, FS_AddElement DEF Times
<1>4. CASE s[i + 1] \notin K
  <2>1. Hits(s, i + 1, K) = Hits(s, i, K)
    BY <1>4 DEF Hits
  <2> QED
    BY <1>1, <1>4, <2>1 DEF Times
<1> QED
  BY <1>3, <1>4

\* Only the first i keys count.
LEMMA TimesSame ==
  ASSUME NEW s, NEW t, NEW i \in Nat, NEW K, \A j \in 1..i : s[j] = t[j]
  PROVE  Times(s, i, K) = Times(t, i, K)
<1>1. Hits(s, i, K) = Hits(t, i, K)
  BY DEF Hits
<1> QED
  BY <1>1 DEF Times

\* More keys, no fewer hits.
LEMMA TimesGrows ==
  ASSUME NEW s, NEW i \in Nat, NEW j \in Nat, i <= j, NEW K
  PROVE  Times(s, i, K) <= Times(s, j, K)
<1>1. IsFiniteSet(Hits(s, j, K)) /\ Hits(s, i, K) \in SUBSET Hits(s, j, K)
  BY TimesType DEF Hits
<1> QED
  BY <1>1, FS_Subset DEF Times

\* Taking the first key from a queue moves the others one place.
LEMMA TimesTail ==
  ASSUME NEW S, NEW q \in Seq(S), q # <<>>, NEW i \in 0..(Len(q) - 1), NEW K
  PROVE  Times(q, i + 1, K) = Times(Tail(q), i, K) + (IF Head(q) \in K THEN 1 ELSE 0)
<1> DEFINE T == Hits(Tail(q), i, K)
           U == Hits(q, i + 1, K) \ {1}
           f == [j \in T |-> j + 1]
<1>1. i \in Nat /\ i + 1 \in Nat /\ Len(q) \in Nat
  OBVIOUS
<1>2. \A j \in 1..i : Tail(q)[j] = q[j + 1]
  BY <1>1
<1>3. IsFiniteSet(T) /\ IsFiniteSet(Hits(q, i + 1, K)) /\ Times(q, i + 1, K) \in Nat
  BY <1>1, TimesType
<1>4. f \in Bijection(T, U)
  <2>1. \A j \in T : j \in 1..i /\ j + 1 \in U
    BY <1>1, <1>2 DEF Hits
  <2>2. \A u \in U : u - 1 \in T /\ u \in Int
    BY <1>1, <1>2 DEF Hits
  <2>3. f \in [T -> U]
    BY <2>1
  <2>4. \A a, b \in T : f[a] = f[b] => a = b
    BY <2>1
  <2>5. \A u \in U : f[u - 1] = u
    BY <2>2
  <2> HIDE DEF T, U, f
  <2>6. f \in Surjection(T, U)
    BY <2>2, <2>3, <2>5 DEF Surjection
  <2> QED
    BY <2>3, <2>4, <2>6 DEF Bijection, Injection, IsInjective
<1>5. Cardinality(U) = Times(Tail(q), i, K)
  BY <1>3, <1>4, FS_Bijection DEF ExistsBijection, Times
<1>6. Cardinality(U) = IF 1 \in Hits(q, i + 1, K) THEN Times(q, i + 1, K) - 1 ELSE Times(q, i + 1, K)
  BY <1>3, FS_RemoveElement DEF Times
<1>7. 1 \in Hits(q, i + 1, K) <=> Head(q) \in K
  BY <1>1 DEF Hits
<1> QED
  BY <1>3, <1>5, <1>6, <1>7

-----------------------------------------------------------------------------
(***************************************************************************)
(* Going round the menu.                                                   *)
(***************************************************************************)

\* The remainder of m * q + r is r.
LEMMA Remainder ==
  ASSUME NEW q \in Int, NEW m \in Nat \ {0}, NEW r \in 0..(m - 1)
  PROVE  ((m * q) + r) % m = r
OBVIOUS

\* A number is its quotient times m and its remainder.
LEMMA Division ==
  ASSUME NEW x \in Int, NEW m \in Nat \ {0}
  PROVE  x \div m \in Int /\ x % m \in 0..(m - 1) /\ x = (m * (x \div m)) + (x % m)
OBVIOUS

\* The remainder goes round as the number goes up or down by one.
LEMMA NextRemainder ==
  ASSUME NEW x \in Int, NEW m \in Nat \ {0}
  PROVE  /\ (x + 1) % m = IF x % m = m - 1 THEN 0 ELSE (x % m) + 1
         /\ (x - 1) % m = IF x % m = 0 THEN m - 1 ELSE (x % m) - 1
<1> DEFINE q == x \div m
           r == x % m
<1>1. q \in Int /\ r \in 0..(m - 1) /\ x = (m * q) + r
  BY Division
<1> HIDE DEF q, r
<1>2. r = m - 1 => (x + 1) % m = 0
  <2>1. ASSUME r = m - 1 PROVE x + 1 = (m * (q + 1)) + 0
    BY <1>1, <2>1
  <2> QED
    BY <1>1, <2>1, Remainder
<1>3. r # m - 1 => (x + 1) % m = r + 1
  <2>1. ASSUME r # m - 1 PROVE x + 1 = (m * q) + (r + 1) /\ r + 1 \in 0..(m - 1)
    BY <1>1, <2>1
  <2> QED
    BY <1>1, <2>1, Remainder
<1>4. r = 0 => (x - 1) % m = m - 1
  <2>1. ASSUME r = 0 PROVE x - 1 = (m * (q - 1)) + (m - 1)
    BY <1>1, <2>1
  <2> QED
    BY <1>1, <2>1, Remainder
<1>5. r # 0 => (x - 1) % m = r - 1
  <2>1. ASSUME r # 0 PROVE x - 1 = (m * q) + (r - 1) /\ r - 1 \in 0..(m - 1)
    BY <1>1, <2>1
  <2> QED
    BY <1>1, <2>1, Remainder
<1> QED
  BY <1>2, <1>3, <1>4, <1>5 DEF r

\* A volume key leads to the neighbour of the item that the keys before it lead to.
LEMMA PositionNext ==
  ASSUME NEW s, NEW d \in Nat \ {0}, n \in Nat \ {0}, initial \in Nat
  PROVE  /\ Position(s, d) \in 1..n
         /\ s[d] = "VOLUP" =>
              Position(s, d) = IF Position(s, d - 1) = n THEN 1 ELSE Position(s, d - 1) + 1
         /\ s[d] = "VOLDOWN" =>
              Position(s, d) = IF Position(s, d - 1) = 1 THEN n ELSE Position(s, d - 1) - 1
<1> DEFINE up(i) == Times(s, i, {"VOLUP"})
           down(i) == Times(s, i, {"VOLDOWN"})
           x == initial - 1 + up(d - 1) - down(d - 1)
           y == initial - 1 + up(d) - down(d)
<1>1. d - 1 \in Nat /\ (d - 1) + 1 = d
  OBVIOUS
<1>2. up(d - 1) \in Nat /\ down(d - 1) \in Nat /\ up(d) \in Nat /\ down(d) \in Nat
  BY <1>1, TimesType
<1>3. /\ up(d) = up(d - 1) + (IF s[d] \in {"VOLUP"} THEN 1 ELSE 0)
      /\ down(d) = down(d - 1) + (IF s[d] \in {"VOLDOWN"} THEN 1 ELSE 0)
  BY <1>1, TimesNext
<1>4. Position(s, d) = (y % n) + 1 /\ Position(s, d - 1) = (x % n) + 1
  BY DEF Position
<1> HIDE DEF up, down
<1>5. /\ x \in Int /\ y \in Int
      /\ s[d] = "VOLUP" => y = x + 1
      /\ s[d] = "VOLDOWN" => y = x - 1
  BY <1>2, <1>3
<1> HIDE DEF x, y
<1>6. x % n \in 0..(n - 1) /\ y % n \in 0..(n - 1)
  BY <1>5, Division
<1>7. /\ (x + 1) % n = IF x % n = n - 1 THEN 0 ELSE (x % n) + 1
      /\ (x - 1) % n = IF x % n = 0 THEN n - 1 ELSE (x % n) - 1
  BY <1>5, NextRemainder
<1> QED
  BY <1>4, <1>5, <1>6, <1>7

\* Before the first key the initial item is selected.
LEMMA PositionFirst ==
  ASSUME NEW s, n \in Nat \ {0}, initial \in 1..n
  PROVE  Position(s, 0) = initial
<1>1. Times(s, 0, {"VOLUP"}) = 0 /\ Times(s, 0, {"VOLDOWN"}) = 0
  BY TimesType
<1>2. ((n * 0) + (initial - 1)) % n = initial - 1
  BY Remainder
<1> QED
  BY <1>1, <1>2 DEF Position

\* Position() looks at the first d keys only.
LEMMA PositionSame ==
  ASSUME NEW s, NEW t, NEW d \in Nat, \A j \in 1..d : s[j] = t[j]
  PROVE  Position(s, d) = Position(t, d)
<1>1. \A K : Times(s, d, K) = Times(t, d, K)
  BY TimesSame
<1> QED
  BY <1>1 DEF Position

\* ui_menu_select() of a neighbour goes round the items in the same way.
LEMMA SelectNeighbour ==
  ASSUME n \in Nat \ {0}, menu_items = n + 1, menu_sel \in 1..n
  PROVE  /\ Selectable(menu_sel + 1) = IF menu_sel = n THEN 1 ELSE menu_sel + 1
         /\ Selectable(menu_sel - 1) = IF menu_sel = 1 THEN n ELSE menu_sel - 1
BY DEF Selectable, Wrap

-----------------------------------------------------------------------------
(***************************************************************************)
(* The keys on their way from the input thread to the main thread.         *)
(***************************************************************************)

\* Where() says the same of a longer sequence of typed keys.
LEMMA WhereSame ==
  ASSUME NEW d \in Nat, Where(d), \A i \in 1..d : typed'[i] = typed[i],
         UNCHANGED <<key, selected, chosen, kind, n, initial, menu_sel>>,
         pc' \in {pc, "crashed"} \/ (pc = "asleep" /\ pc' = "wait")
  PROVE  Where(d)'
<1>1. Position(typed, d)' = Position(typed, d)
  <2>1. Position(typed', d) = Position(typed, d)
    BY PositionSame
  <2>2. Position(typed, d)' = Position(typed', d)
    BY DEF Position
  <2> QED
    BY <2>1, <2>2
<1>2. d >= 1 => Position(typed, d - 1)' = Position(typed, d - 1)
  <2>1. ASSUME d >= 1 PROVE Position(typed', d - 1) = Position(typed, d - 1)
    BY <2>1, PositionSame
  <2>2. Position(typed, d - 1)' = Position(typed', d - 1)
    BY DEF Position
  <2> QED
    BY <2>1, <2>2
<1>3. Followed(d) => Followed(d)'
  BY <1>1 DEF Followed, NoAnswer, Answers
<1>4. InHand(d) => InHand(d)'
  BY <1>2 DEF InHand, NoAnswer, Answers
<1>5. d >= 1 => typed'[d] = typed[d]
  OBVIOUS
<1> QED
  BY <1>2, <1>3, <1>4, <1>5 DEF Where, Answers, Meant, NO_ITEM, GO_BACK

\* Steps that touch neither the keys nor the menu.
LEMMA KeysUntouched ==
  ASSUME KeysInv, UNCHANGED <<typed, disturbed, queue, key, selected, chosen, kind, n, initial, menu_sel,
                              show_text>>,
         pc' \in {pc, "crashed"}
  PROVE  KeysInv'
<1>1. TypedTypes'
  BY DEF KeysInv, TypedTypes, Meant, Answers
<1>2. CASE ~disturbed
  <2>1. PICK d \in 0..Len(typed) : InOrder(d) /\ Where(d)
    BY <1>2 DEF KeysInv, Undisturbed
  <2>2. d \in Nat
    BY DEF KeysInv, TypedTypes
  <2>3. Where(d)'
    BY <2>1, <2>2, WhereSame
  <2>4. InOrder(d)'
    BY <2>1 DEF InOrder, Answered, Answers, Rank, Times, Hits, Meant
  <2>5. Undisturbed'
    BY <1>2, <2>3, <2>4 DEF KeysInv, Undisturbed, Choosing
  <2> QED
    BY <1>1, <2>5 DEF KeysInv
<1> QED
  BY <1>1, <1>2 DEF KeysInv

\* ui_wait_key() takes the next key.
LEMMA KeysWait == KeysInv /\ InputInv /\ WaitKey => KeysInv'
<1> SUFFICES ASSUME KeysInv, InputInv, WaitKey PROVE KeysInv'
  OBVIOUS
<1>1. TypedTypes'
  BY DEF WaitKey, history, KeysInv, TypedTypes, Meant, Answers
<1>2. CASE disturbed
  BY <1>1, <1>2 DEF WaitKey, history, KeysInv
<1>3. CASE ~disturbed
  <2>1. PICK d \in 0..Len(typed) : InOrder(d) /\ Where(d)
    BY <1>3 DEF KeysInv, Undisturbed
  <2>2. Len(typed) \in Nat /\ d \in Nat /\ DOMAIN typed = 1..Len(typed) /\ typed \in Seq(Meant)
    BY DEF KeysInv, TypedTypes
  <2>3. pc = "wait" /\ Followed(d)
    BY <2>1 DEF WaitKey, Where
  <2>4. UNCHANGED <<typed, disturbed, selected, chosen, kind, n, initial, menu_sel, show_text>>
    BY DEF WaitKey, screen, history
  <2>5. show_text /\ chosen = NO_ITEM /\ \A i \in DOMAIN queue : queue[i] # "BTN_MOUSE"
    BY <1>3, <2>3 DEF KeysInv, Undisturbed, Choosing
  <2>6. CASE queue = <<>>
    <3>1. pc' = "asleep" /\ UNCHANGED <<key, queue>>
      BY <2>6 DEF WaitKey, Goto
    <3>2. Followed(d)'
      BY <2>3, <2>4 DEF Followed, NoAnswer, Answers, Position, Times, Hits
    <3>3. Where(d)'
      BY <2>4, <2>5, <3>1, <3>2 DEF Where
    <3>4. InOrder(d)'
      BY <2>1, <2>4, <3>1 DEF InOrder, Answered, Answers, Rank, Times, Hits, Meant
    <3>5. Undisturbed'
      BY <2>1, <2>4, <2>5, <3>1, <3>3, <3>4 DEF Undisturbed, Choosing
    <3> QED
      BY <1>1, <3>5 DEF KeysInv
  <2>7. CASE queue # <<>>
    <3>1. pc' = "visible" /\ key' = Head(queue) /\ queue' = Tail(queue)
      BY <2>7 DEF WaitKey, Goto
    <3>2. /\ queue \in Seq(Codes) /\ Tail(queue) \in Seq(Codes) /\ Len(queue) \in Nat \ {0}
          /\ Len(Tail(queue)) = Len(queue) - 1
          /\ Head(queue) = queue[1]
          /\ \A i \in 1..(Len(queue) - 1) : Tail(queue)[i] = queue[i + 1]
      BY <2>7 DEF InputInv
    <3>3. DOMAIN queue = 1..Len(queue) /\ DOMAIN Tail(queue) = 1..(Len(queue) - 1)
      BY <3>2
    <3>4. Head(queue) # "BTN_MOUSE" /\ \A i \in DOMAIN Tail(queue) : Tail(queue)[i] # "BTN_MOUSE"
      BY <2>5, <3>2, <3>3
    <3>one. PICK one \in {0, 1} : one = IF Head(queue) \in Meant THEN 1 ELSE 0
      OBVIOUS
    <3>5. \A i \in 0..(Len(queue) - 1) : Rank(queue, i + 1) = Rank(Tail(queue), i) + one
      BY <2>7, <3>2, <3>one, TimesTail DEF Rank
    <3>6. \A i \in Nat : Rank(Tail(queue), i) \in Nat /\ Rank(queue, i) \in Nat
      BY TimesType DEF Rank
    <3>7. Rank(Tail(queue), 0) = 0
      BY TimesType DEF Rank
    <3>8. Rank(queue, 1) = one /\ Rank(queue, Len(queue)) = Rank(Tail(queue), Len(queue) - 1) + one
      <4>1. Rank(queue, 0 + 1) = Rank(Tail(queue), 0) + one
        BY <3>2, <3>5
      <4>2. Rank(queue, (Len(queue) - 1) + 1) = Rank(Tail(queue), Len(queue) - 1) + one
        BY <3>2, <3>5
      <4> QED
        BY <3>2, <3>7, <4>1, <4>2
    <3>9. one = 1 => d + 1 <= Len(typed)
      <4>1. CASE Answered
        BY <2>2, <2>3, <4>1 DEF Answered, Followed, NoAnswer, KeysInv, TypedTypes
      <4>2. CASE ~Answered
        <5>1. Rank(Tail(queue), Len(queue) - 1) \in Nat
          <6>1. Len(queue) - 1 \in Nat
            BY <3>2
          <6> QED
            BY <3>6, <6>1
        <5> QED
          BY <2>1, <2>2, <3>8, <4>2, <5>1 DEF InOrder
      <4> QED
        BY <4>1, <4>2
    <3>10. one = 1 => typed[d + 1] = Head(queue)
      <4> HAVE one = 1
      <4>1. 1 \in DOMAIN queue /\ queue[1] \in Meant /\ d + Rank(queue, 1) <= Len(typed)
        BY <3>2, <3>3, <3>8, <3>9, <3>one
      <4> QED
        BY <2>1, <3>2, <3>8, <4>1 DEF InOrder
    <3>11. d + one \in 0..Len(typed)
      BY <2>2, <3>9
    <3>12. InOrder(d + one)'
      <4>1. \A i \in 1..(Len(queue) - 1) :
              Rank(queue, i + 1) = Rank(Tail(queue), i) + one /\ Rank(Tail(queue), i) \in Nat
        <5> TAKE i \in 1..(Len(queue) - 1)
        <5>1. i \in Nat /\ i \in 0..(Len(queue) - 1)
          BY <3>2
        <5> QED
          BY <3>5, <3>6, <5>1
      <4>2. \A i \in 1..(Len(queue) - 1) :
              Tail(queue)[i] \in Meant /\ d + one + Rank(Tail(queue), i) <= Len(typed)
                => typed[d + one + Rank(Tail(queue), i)] = Tail(queue)[i]
        <5> TAKE i \in 1..(Len(queue) - 1)
        <5>1. d + one + Rank(Tail(queue), i) = d + Rank(queue, i + 1)
          BY <2>2, <4>1
        <5>2. i + 1 \in DOMAIN queue /\ Tail(queue)[i] = queue[i + 1]
          BY <3>2, <3>3
        <5> QED
          BY <2>1, <5>1, <5>2 DEF InOrder
      <4>3. d + one + Rank(Tail(queue), Len(Tail(queue))) = d + Rank(queue, Len(queue))
        <5>1. Rank(Tail(queue), Len(queue) - 1) \in Nat
          <6>1. Len(queue) - 1 \in Nat
            BY <3>2
          <6> QED
            BY <3>6, <6>1
        <5> QED
          BY <2>2, <3>2, <3>8, <5>1
      <4>4. \A i : Rank(queue, i)' = Rank(Tail(queue), i)
        BY <3>1 DEF Rank, Times, Hits, Meant, Answers
      <4>5. Rank(queue, Len(queue))' = Rank(Tail(queue), Len(Tail(queue)))
        BY <3>1 DEF Rank, Times, Hits, Meant, Answers
      <4> QED
        BY <2>1, <2>4, <3>1, <3>3, <4>2, <4>3, <4>4, <4>5 DEF InOrder, Answered, Answers, Meant
    <3>13. Where(d + one)'
      <4>1. Position(typed, d)' = Position(typed, d)
        BY <2>4 DEF Position, Times, Hits
      <4>2. NoAnswer(typed, d)' = NoAnswer(typed, d)
        BY <2>4 DEF NoAnswer, Answers
      <4>3. CASE one = 1
        <5>1. d + one >= 1 /\ d + one - 1 = d /\ key' \in Meant
          BY <2>2, <3>1, <3>one, <4>3
        <5>2. InHand(d + one)'
          BY <2>3, <2>4, <3>1, <3>10, <4>1, <4>2, <4>3, <5>1 DEF InHand, Followed
        <5> QED
          BY <2>4, <2>5, <3>1, <5>1, <5>2 DEF Where, Meant, Answers
      <4>4. CASE one = 0
        <5>1. d + one = d /\ key' \notin Meant
          BY <2>2, <3>1, <3>one, <4>4
        <5>2. Followed(d)'
          BY <2>3, <2>4, <4>1, <4>2 DEF Followed
        <5> QED
          BY <2>4, <2>5, <3>1, <5>1, <5>2 DEF Where, Meant, Answers
      <4> QED
        BY <4>3, <4>4
    <3>14. Undisturbed'
      BY <2>4, <2>5, <3>1, <3>4, <3>11, <3>12, <3>13 DEF Undisturbed, Choosing
    <3> QED
      BY <1>1, <3>14 DEF KeysInv
  <2> QED
    BY <2>6, <2>7
<1> QED
  BY <1>2, <1>3

\* The input thread queues a key.
LEMMA KeysQueue == KeysInv /\ InputInv /\ QueueKey => KeysInv'
<1> SUFFICES ASSUME KeysInv, InputInv, QueueKey PROVE KeysInv'
  OBVIOUS
<1>1. /\ UNCHANGED <<key, selected, chosen, kind, n, initial, menu_sel, show_text>>
      /\ typed' = Type(ev)
      /\ pc' = pc \/ (pc = "asleep" /\ pc' = "wait")
  BY DEF QueueKey, KeepMain, screen, Signal
<1>2. /\ typed \in Seq(Meant) /\ Len(typed) \in Nat /\ DOMAIN typed = 1..Len(typed)
      /\ \A i \in DOMAIN typed : typed[i] \in Answers => i = Len(typed)
  BY DEF KeysInv, TypedTypes
<1>3. ASSUME ev \in Meant, ~Answered, ~disturbed
      PROVE  /\ typed' = Append(typed, ev) /\ typed' \in Seq(Meant) /\ Len(typed') = Len(typed) + 1
             /\ \A i \in 1..Len(typed) : typed'[i] = typed[i]
             /\ typed'[Len(typed) + 1] = ev /\ DOMAIN typed' = 1..(Len(typed) + 1)
  <2>1. typed' = Append(typed, ev)
    BY <1>1, <1>3 DEF Type, Meant
  <2> QED
    BY <1>2, <1>3, <2>1
<1>4. ASSUME ~(ev \in Meant /\ ~Answered /\ ~disturbed)
      PROVE  typed' = typed
  BY <1>1, <1>4 DEF Type, Meant
<1>5. TypedTypes'
  <2>1. CASE ev \in Meant /\ ~Answered /\ ~disturbed
    <3>1. \A i \in DOMAIN typed : typed[i] \notin Answers
      BY <2>1 DEF Answered
    <3>2. \A i \in DOMAIN typed' : typed'[i] \in Answers => i = Len(typed')
      BY <1>2, <1>3, <2>1, <3>1
    <3> QED
      BY <1>3, <2>1, <3>2 DEF TypedTypes, Answers, Meant
  <2>2. CASE ~(ev \in Meant /\ ~Answered /\ ~disturbed)
    BY <1>2, <1>4, <2>2 DEF TypedTypes, Answers, Meant
  <2> QED
    BY <2>1, <2>2
<1>6. CASE disturbed'
  BY <1>5, <1>6 DEF KeysInv
<1>7. CASE ~disturbed'
  <2>1. ~disturbed /\ ev # "BTN_MOUSE" /\ Len(queue) < QueueMax
    <3>1. ~disturbed /\ ev # "BTN_MOUSE" /\ ~(Len(queue) >= QueueMax)
      BY <1>7, Zenon DEF QueueKey
    <3>2. Len(queue) \in Nat /\ QueueMax \in Nat
      BY MenuBoundsAssumption DEF InputInv
    <3> QED
      BY <3>1, <3>2
  <2>2. PICK d \in 0..Len(typed) : InOrder(d) /\ Where(d)
    BY <2>1 DEF KeysInv, Undisturbed
  <2>3. d \in Nat /\ d \in 0..Len(typed')
    BY <1>2, <1>3, <1>4
  <2>4. \A i \in 1..d : typed'[i] = typed[i]
    BY <1>2, <1>3, <1>4, <2>3
  <2>5. Where(d)'
    BY <1>1, <2>2, <2>3, <2>4, WhereSame
  <2>6. /\ queue \in Seq(Codes) /\ Len(queue) \in Nat /\ DOMAIN queue = 1..Len(queue) /\ ev \in Codes
        /\ \A i \in DOMAIN queue : queue[i] # "BTN_MOUSE"
    BY <2>1 DEF InputInv, KeysInv, Undisturbed
  <2>7. (\A i \in DOMAIN queue' : queue'[i] # "BTN_MOUSE") /\ InOrder(d)'
    <3>1. CASE Pollutes
      <4>1. ev \notin Meant
        BY <3>1 DEF Pollutes, Meant, Answers
      <4>2. queue' = queue /\ typed' = typed
        BY <1>4, <3>1, <4>1 DEF QueueKey
      <4> QED
        BY <2>2, <2>6, <4>2 DEF InOrder, Answered, Answers, Rank, Times, Hits, Meant
    <3>2. CASE ~Pollutes
      <4>1. queue' = Append(queue, ev)
        BY <2>1, <3>2 DEF QueueKey
      <4>2. /\ Len(queue') = Len(queue) + 1 /\ DOMAIN queue' = 1..(Len(queue) + 1)
            /\ \A i \in 1..Len(queue) : queue'[i] = queue[i]
            /\ queue'[Len(queue) + 1] = ev
        BY <2>6, <4>1
      <4>3. \A i \in DOMAIN queue' : queue'[i] # "BTN_MOUSE"
        BY <2>1, <2>6, <4>2
      <4>4. \A i \in 1..Len(queue) : Rank(queue', i) = Rank(queue, i)
        <5> TAKE i \in 1..Len(queue)
        <5>1. i \in Nat /\ \A j \in 1..i : queue'[j] = queue[j]
          BY <2>6, <4>2
        <5> QED
          BY <5>1, TimesSame DEF Rank
      <4>5. Rank(queue', Len(queue)) = Rank(queue, Len(queue))
        BY <2>6, <4>2, TimesSame DEF Rank
      <4>6. Rank(queue', Len(queue) + 1) = Rank(queue, Len(queue)) + (IF ev \in Meant THEN 1 ELSE 0)
        BY <2>6, <4>2, <4>5, TimesNext DEF Rank
      <4>7. \A i \in 1..Len(queue) : Rank(queue, i) \in Nat /\ Rank(queue, i) <= Rank(queue, Len(queue))
        <5> TAKE i \in 1..Len(queue)
        <5>1. i \in Nat /\ i <= Len(queue)
          BY <2>6
        <5> QED
          BY <2>6, <5>1, TimesType, TimesGrows DEF Rank
      <4>8. Rank(queue, Len(queue)) \in Nat
        BY <2>6, TimesType DEF Rank
      <4>9. \A i : Rank(queue, i)' = Rank(queue', i)
        BY DEF Rank, Times, Hits, Meant, Answers
      <4>10. Rank(queue, Len(queue))' = Rank(queue', Len(queue) + 1)
        BY <4>2 DEF Rank, Times, Hits, Meant, Answers
      <4> HIDE DEF Rank
      <4>11. CASE ev \notin Meant
        <5>1. typed' = typed /\ Answered' = Answered
          BY <1>4, <4>11 DEF Answered, Answers
        <5>2. \A i \in DOMAIN queue' : queue'[i] \in Meant /\ d + Rank(queue', i) <= Len(typed)
                                         => typed[d + Rank(queue', i)] = queue'[i]
          BY <2>2, <2>6, <4>2, <4>4, <4>11 DEF InOrder
        <5>3. Rank(queue', Len(queue) + 1) = Rank(queue, Len(queue))
          BY <4>6, <4>8, <4>11
        <5> QED
          BY <2>2, <4>3, <4>9, <4>10, <5>1, <5>2, <5>3 DEF InOrder, Meant, Answers
      <4>12. CASE ev \in Meant /\ Answered
        <5>1. typed' = typed /\ Answered'
          BY <1>4, <4>12 DEF Answered, Answers
        <5>2. d + Rank(queue, Len(queue)) >= Len(typed)
          BY <2>2 DEF InOrder
        <5>3. d + Rank(queue', Len(queue) + 1) > Len(typed)
          BY <1>2, <2>3, <4>6, <4>8, <4>12, <5>2
        <5>4. \A i \in DOMAIN queue' : queue'[i] \in Meant /\ d + Rank(queue', i) <= Len(typed)
                                         => typed[d + Rank(queue', i)] = queue'[i]
          <6> TAKE i \in DOMAIN queue'
          <6>1. CASE i \in 1..Len(queue)
            BY <2>2, <2>6, <4>2, <4>4, <6>1 DEF InOrder
          <6>2. CASE i = Len(queue) + 1
            BY <1>2, <2>3, <4>6, <4>8, <5>3, <6>2
          <6> QED
            BY <2>6, <4>2, <6>1, <6>2
        <5>5. d + Rank(queue', Len(queue) + 1) >= Len(typed)
          BY <1>2, <2>3, <4>6, <4>8, <5>3
        <5> QED
          BY <4>3, <4>9, <4>10, <5>1, <5>4, <5>5 DEF InOrder, Meant, Answers
      <4>13. CASE ev \in Meant /\ ~Answered
        <5>1. d + Rank(queue, Len(queue)) = Len(typed)
          BY <2>2, <4>13 DEF InOrder
        <5>2. d + Rank(queue', Len(queue) + 1) = Len(typed) + 1
          BY <1>2, <2>3, <4>6, <4>8, <4>13, <5>1
        <5>3. /\ Len(typed') = Len(typed) + 1 /\ typed'[Len(typed) + 1] = ev
              /\ \A i \in 1..Len(typed) : typed'[i] = typed[i]
          BY <1>3, <2>1, <4>13
        <5>4. \A i \in DOMAIN queue' : queue'[i] \in Meant /\ d + Rank(queue', i) <= Len(typed')
                                         => typed'[d + Rank(queue', i)] = queue'[i]
          <6> TAKE i \in DOMAIN queue'
          <6>1. CASE i \in 1..Len(queue) /\ queue'[i] \in Meant
            <7>1. Rank(queue, i) \in Nat /\ d + Rank(queue, i) <= Len(typed) /\ queue'[i] = queue[i]
              BY <2>3, <4>2, <4>7, <4>8, <5>1, <6>1
            <7>2. typed[d + Rank(queue, i)] = queue[i]
              BY <2>2, <2>6, <6>1, <7>1 DEF InOrder
            <7>3. Rank(queue, i) >= 1
              <8>1. i - 1 \in Nat /\ (i - 1) + 1 = i
                BY <6>1
              <8>2. Times(queue, (i - 1) + 1, Meant)
                      = Times(queue, i - 1, Meant) + (IF queue[(i - 1) + 1] \in Meant THEN 1 ELSE 0)
                BY <8>1, TimesNext
              <8>3. Times(queue, i - 1, Meant) \in Nat
                BY <8>1, TimesType
              <8> QED
                BY <6>1, <7>1, <8>1, <8>2, <8>3 DEF Rank
            <7>4. d + Rank(queue, i) \in 1..Len(typed)
              BY <1>2, <2>3, <7>1, <7>3
            <7> QED
              BY <4>4, <5>3, <6>1, <7>1, <7>2, <7>4
          <6>2. CASE i = Len(queue) + 1
            BY <4>2, <5>2, <5>3, <6>2
          <6> QED
            BY <2>6, <4>2, <6>1, <6>2
        <5>5. d + Rank(queue', Len(queue) + 1) = Len(typed')
          BY <5>2, <5>3
        <5>6. d + Rank(queue', Len(queue) + 1) >= Len(typed')
          BY <1>2, <5>3, <5>5
        <5> QED
          BY <4>3, <4>9, <4>10, <5>4, <5>5, <5>6 DEF InOrder, Meant, Answers
      <4> QED
        BY <4>11, <4>12, <4>13
    <3> QED
      BY <3>1, <3>2
  <2>8. Undisturbed'
    BY <1>1, <2>1, <2>3, <2>5, <2>7 DEF KeysInv, Undisturbed, Choosing
  <2> QED
    BY <1>5, <2>8 DEF KeysInv
<1> QED
  BY <1>6, <1>7

\* ui_clear_key_queue() begins a menu: there is nothing to follow yet.
LEMMA KeysClear == KeysInv /\ MenuInv /\ Clear => KeysInv'
<1> SUFFICES ASSUME MenuInv, Clear PROVE KeysInv'
  OBVIOUS
<1>1. /\ typed' = <<>> /\ queue' = <<>> /\ pc' \in {"start", "select"} /\ chosen' = NO_ITEM
      /\ DOMAIN typed' = {} /\ DOMAIN queue' = {} /\ Len(typed') = 0 /\ Len(queue') = 0
  BY DEF Clear, Goto, KeepLocals, MenuInv, Chosen
<1>2. TypedTypes'
  BY <1>1 DEF TypedTypes
<1>3. Rank(queue', 0) = 0
  BY TimesType DEF Rank
<1>4. Rank(queue, Len(queue))' = Rank(queue', 0)
  BY <1>1 DEF Rank, Times, Hits, Meant, Answers
<1>5. InOrder(0)'
  BY <1>1, <1>3, <1>4 DEF InOrder
<1>6. Where(0)'
  BY <1>1 DEF Where
<1>7. Undisturbed'
  BY <1>1, <1>5, <1>6 DEF Undisturbed, Choosing
<1> QED
  BY <1>2, <1>7 DEF KeysInv

\* Where the main thread is after a step.
Follows(d) ==
  /\ Where(d)'
  /\ pc' \in {"start", "select", "end", "clear_again", "crashed"} \cup Choosing
  /\ pc' \in {"end", "clear_again"} => chosen' # NO_ITEM
  /\ pc' \in Choosing => show_text' /\ chosen' = NO_ITEM
  /\ pc' \in {"start", "select"} => chosen' = NO_ITEM
  /\ pc' \in {"visible", "selected", "highlight", "choose"} => key' # "BTN_MOUSE"

\* Steps of the main thread that leave the keys alone: what is left to show is where
\* it is afterwards.
LEMMA KeysMain ==
  ASSUME KeysInv, UNCHANGED <<typed, disturbed, queue>>,
         \A d \in 0..Len(typed) : ~disturbed /\ Undisturbed /\ Where(d) => Follows(d)
  PROVE  KeysInv'
<1>1. TypedTypes'
  BY DEF KeysInv, TypedTypes, Meant, Answers
<1>2. CASE ~disturbed
  <2>1. Undisturbed
    BY <1>2 DEF KeysInv
  <2>2. PICK d \in 0..Len(typed) : InOrder(d) /\ Where(d)
    BY <2>1 DEF Undisturbed
  <2>3. InOrder(d)'
    BY <2>2 DEF InOrder, Answered, Answers, Rank, Times, Hits, Meant
  <2>4. Undisturbed'
    BY <1>2, <2>1, <2>2, <2>3 DEF Undisturbed, Follows
  <2> QED
    BY <1>1, <2>4 DEF KeysInv
<1> QED
  BY <1>1, <1>2 DEF KeysInv

\* The steps of get_menu_selection().
LEMMA KeysChoosing ==
  KeysInv /\ MenuInv /\ (SelectInitial \/ HandleKey \/ GetSelected \/ Highlight \/ Choose) => KeysInv'
<1> SUFFICES ASSUME KeysInv, MenuInv,
                    SelectInitial \/ HandleKey \/ GetSelected \/ Highlight \/ Choose
             PROVE  KeysInv'
  OBVIOUS
<1>1. UNCHANGED <<typed, disturbed, queue, kind, n, initial>>
  BY DEF SelectInitial, HandleKey, GetSelected, Highlight, Choose, KeepLocals, history
<1> SUFFICES ASSUME NEW d \in 0..Len(typed), Undisturbed, Where(d) PROVE Follows(d)
  BY <1>1, KeysMain
<1>2. /\ d \in Nat /\ n \in Nat \ {0} /\ initial \in 1..n /\ menu_items = n + 1
      /\ pc # "select" => menu_sel \in 1..n
  BY DEF KeysInv, TypedTypes, MenuInv, Types, Sized, Listed, Selected, HasMenu, Choosing,
         SelectInitial, HandleKey, GetSelected, Highlight, Choose
<1>3. /\ Position(typed, d)' = Position(typed, d)
      /\ Position(typed, d - 1)' = Position(typed, d - 1)
      /\ NoAnswer(typed, d)' = NoAnswer(typed, d)
      /\ NoAnswer(typed, d - 1)' = NoAnswer(typed, d - 1)
  BY <1>1 DEF Position, Times, Hits, NoAnswer, Answers
<1>4. CASE SelectInitial
  <2>1. d = 0 /\ chosen = NO_ITEM
    BY <1>4 DEF SelectInitial, Where, Undisturbed
  <2>2. Position(typed, 0) = initial
    BY <1>2, PositionFirst
  <2>3. menu_sel' = initial /\ show_text' /\ chosen' = NO_ITEM /\ pc' = "wait"
    BY <1>2, <1>4, <2>1 DEF SelectInitial, ui_menu_select, Selectable, Wrap, KeepLocals, Goto
  <2>4. Followed(d)'
    BY <1>3, <2>1, <2>2, <2>3 DEF Followed, NoAnswer
  <2> QED
    BY <2>3, <2>4 DEF Follows, Where, Choosing
<1>5. CASE HandleKey
  <2>1. show_text /\ chosen = NO_ITEM /\ key # "BTN_MOUSE" /\ pc = "visible"
    BY <1>5 DEF HandleKey, Undisturbed, Choosing
  <2>2. UNCHANGED <<show_text, chosen, key, menu_sel, selected>>
    BY <1>5 DEF HandleKey, KeepLocals, screen
  <2>3. InHand(d)' = InHand(d) /\ Followed(d)' = Followed(d)
    BY <1>1, <1>3, <2>2 DEF InHand, Followed
  <2>4. pc' = IF key \in Meant THEN "selected" ELSE "wait"
    BY <1>5, <2>1 DEF HandleKey, Goto, Meant, Answers
  <2>5. IF key \in Meant THEN InHand(d) ELSE Followed(d)
    BY <2>1 DEF Where
  <2> QED
    BY <2>1, <2>2, <2>3, <2>4, <2>5 DEF Follows, Where, Choosing, Meant, Answers
<1>6. CASE GetSelected
  <2>1. show_text /\ chosen = NO_ITEM /\ key # "BTN_MOUSE" /\ key \in Meant /\ InHand(d)
    BY <1>6 DEF GetSelected, Undisturbed, Choosing, Where
  <2>2. UNCHANGED <<show_text, chosen, key, menu_sel>> /\ selected' = menu_sel
    BY <1>6 DEF GetSelected, screen
  <2>3. InHand(d)'
    BY <1>1, <1>3, <2>1, <2>2 DEF InHand
  <2>4. pc' = IF key \in {"VOLUP", "VOLDOWN"} THEN "highlight" ELSE "choose"
    BY <1>6 DEF GetSelected, Goto
  <2> QED
    BY <2>1, <2>2, <2>3, <2>4 DEF Follows, Where, Choosing, Meant, Answers
<1>7. CASE Highlight
  <2>1. chosen = NO_ITEM /\ key \in {"VOLUP", "VOLDOWN"} /\ InHand(d) /\ selected = menu_sel
    BY <1>7 DEF Highlight, Undisturbed, Choosing, Where
  <2>2. /\ show_text' /\ UNCHANGED <<chosen, key>> /\ pc' = "wait"
        /\ menu_sel' = Selectable(IF key = "VOLUP" THEN menu_sel + 1 ELSE menu_sel - 1)
    BY <1>7, <2>1 DEF Highlight, ui_menu_select, KeepLocals, Goto
  <2>3. d \in Nat \ {0} /\ typed[d] = key /\ menu_sel = Position(typed, d - 1)
    BY <1>2, <2>1 DEF InHand
  <2>4. menu_sel' = Position(typed, d)
    <3>1. /\ typed[d] = "VOLUP" => Position(typed, d) = IF menu_sel = n THEN 1 ELSE menu_sel + 1
          /\ typed[d] = "VOLDOWN" => Position(typed, d) = IF menu_sel = 1 THEN n ELSE menu_sel - 1
      BY <1>2, <2>3, PositionNext
    <3>2. /\ Selectable(menu_sel + 1) = IF menu_sel = n THEN 1 ELSE menu_sel + 1
          /\ Selectable(menu_sel - 1) = IF menu_sel = 1 THEN n ELSE menu_sel - 1
      BY <1>2, <1>7, SelectNeighbour DEF Highlight
    <3> QED
      BY <2>1, <2>2, <2>3, <3>1, <3>2
  <2>5. NoAnswer(typed, d)
    <3>1. NoAnswer(typed, d - 1) /\ typed[d] \notin Answers
      BY <2>1, <2>3 DEF InHand, Answers
    <3> QED
      BY <2>3, <3>1 DEF NoAnswer
  <2>6. Followed(d)'
    BY <1>3, <2>4, <2>5 DEF Followed
  <2> QED
    BY <2>1, <2>2, <2>6 DEF Follows, Where, Choosing
<1>8. CASE Choose
  <2>1. chosen = NO_ITEM /\ key \in Answers /\ InHand(d) /\ selected = menu_sel
    BY <1>8 DEF Choose, Undisturbed, Choosing, Where
  <2>2. d >= 1 /\ typed[d] = key /\ menu_sel = Position(typed, d - 1)
    BY <1>2, <2>1 DEF InHand
  <2>3. chosen' = IF typed[d] = "BACK" THEN GO_BACK
                  ELSE Position(typed, d - 1) - (IF kind = "plain" THEN 1 ELSE 0)
    BY <1>2, <1>8, <2>1, <2>2 DEF Choose, Item, Answers
  <2>4. chosen' # NO_ITEM
    BY <1>2, <2>2, <2>3, <1>8 DEF NO_ITEM, GO_BACK, Choose
  <2>5. pc' \in {"end", "clear_again"}
    BY <1>8, <2>4 DEF Choose, Goto
  <2> QED
    BY <1>1, <1>2, <1>3, <2>1, <2>2, <2>3, <2>4, <2>5 DEF Follows, Where, Choosing, Answers
<1> QED
  BY <1>4, <1>5, <1>6, <1>7, <1>8

\* Every step of either thread keeps the invariant.
LEMMA KeysNext == KeysInv /\ MenuInv /\ InputInv /\ [Next]_vars => KeysInv'
<1> SUFFICES ASSUME KeysInv, MenuInv, InputInv, [Next]_vars PROVE KeysInv'
  OBVIOUS
<1>1. ASSUME disturbed', UNCHANGED typed PROVE KeysInv'
  BY <1>1 DEF KeysInv, TypedTypes, Meant, Answers
<1>2. ASSUME pc \notin {"start", "select", "end", "clear_again", "crashed"} \cup Choosing PROVE disturbed
  BY <1>2 DEF KeysInv, Undisturbed
<1>3. ASSUME NEW k, NEW size, NEW first, Open(k, size, first) PROVE KeysInv'
  BY <1>1, <1>2, <1>3 DEF Open, history, Choosing
<1>4. CASE StartExt \/ AddMenu \/ Allow \/ Disallow \/ Hide
  BY <1>1, <1>2, <1>4 DEF StartExt, AddMenu, Allow, Disallow, Hide, history, Choosing
<1>5. CASE Clear
  BY <1>5, KeysClear
<1>6. CASE StartMenu
  <2>1. UNCHANGED <<typed, disturbed, queue, chosen>> /\ pc = "start" /\ pc' = "select"
    BY <1>6 DEF StartMenu, history, KeepLocals, Goto
  <2>2. \A d \in 0..Len(typed) : Undisturbed /\ Where(d) => Follows(d)
    BY <2>1 DEF Undisturbed, Where, Follows, Choosing
  <2> QED
    BY <2>1, <2>2, KeysMain
<1>7. CASE SelectInitial \/ HandleKey \/ GetSelected \/ Highlight \/ Choose
  BY <1>7, KeysChoosing
<1>8. CASE WaitKey
  BY <1>8, KeysWait
<1>9. CASE EndMenu
  <2>1. /\ UNCHANGED <<typed, disturbed, queue, chosen, kind, n, initial>> /\ pc = "end"
        /\ pc' = IF kind = "plain" THEN "clear_again" ELSE "caller"
    BY <1>9 DEF EndMenu, history, KeepLocals, Goto
  <2>2. \A d \in 0..Len(typed) : Undisturbed /\ Where(d) => Follows(d)
    <3> TAKE d \in 0..Len(typed)
    <3> HAVE Undisturbed /\ Where(d)
    <3>1. chosen # NO_ITEM /\ kind = "plain"
      BY <2>1 DEF Undisturbed, MenuInv, Chosen
    <3>2. Position(typed, d - 1)' = Position(typed, d - 1)
      BY <2>1 DEF Position, Times, Hits
    <3> QED
      BY <2>1, <3>1, <3>2 DEF Where, Follows, Choosing
  <2> QED
    BY <2>1, <2>2, KeysMain
<1>10. CASE ClearAgain
  BY <1>10 DEF ClearAgain, KeysInv, TypedTypes
<1>11. CASE User
  BY <1>11, KeysUntouched
     DEF User, PressKey, FingerDown, FingerMove, FingerUp, main, screen, history
<1>12. CASE TouchSelect
  <2>1. CASE Wild(row)
    BY <1>12, <2>1, KeysUntouched DEF TouchSelect, Crash, KeepMain, screen
  <2>2. CASE ~Wild(row)
    BY <1>1, <1>12, <2>2 DEF TouchSelect
  <2> QED
    BY <2>1, <2>2
<1>13. CASE TouchValid \/ MayToggle
  BY <1>13, KeysUntouched DEF TouchValid, MayToggle, main, screen, history
<1>14. CASE HelpFind
  BY <1>14, KeysUntouched DEF HelpFind, Crash, KeepMain, screen, history
<1>15. ASSUME NEW help \in BOOLEAN, HelpCopy(help) PROVE KeysInv'
  BY <1>15, KeysUntouched DEF HelpCopy, Crash, KeepMain, screen, history
<1>16. CASE QueueKey
  BY <1>16, KeysQueue
<1>17. CASE Flip
  BY <1>1, <1>17 DEF Flip
<1>18. CASE Draw \/ UNCHANGED vars
  BY <1>18, KeysUntouched DEF Draw, vars, main, screen, history
<1> QED
  BY <1>3, <1>4, <1>5, <1>6, <1>7, <1>8, <1>9, <1>10, <1>11, <1>12, <1>13, <1>14, <1>15, <1>16,
     <1>17, <1>18 DEF Next, MainStep, InputStep

\* get_menu_selection() returns what the keys mean that were pressed since it threw the
\* earlier ones away, for menus of any size, a queue of any length and any number of
\* keys, however the input thread interleaves with it, unless a touch, the display
\* toggle or a full queue interfered.
THEOREM KeysFollowed == Spec => []AsTyped
<1>1. Init => InputInv /\ KeysInv
  BY MenuBoundsAssumption DEF Init, InputInv, Codes, Keys, KeysInv, TypedTypes
<1>2. MenuInv /\ KeysInv => AsTyped
  <2> SUFFICES ASSUME MenuInv, KeysInv, chosen # NO_ITEM, ~disturbed
               PROVE  Answered /\ chosen = Meaning
    BY DEF AsTyped
  <2>1. PICK d \in 0..Len(typed) : Where(d)
    BY DEF KeysInv, Undisturbed
  <2>2. d \in DOMAIN typed /\ typed[d] \in Answers /\ Len(typed) \in Nat
    BY <2>1 DEF Where, KeysInv, TypedTypes
  <2>3. \A i \in DOMAIN typed : typed[i] \in Answers => i = d
    BY <2>2 DEF KeysInv, TypedTypes
  <2>4. Answer = d
    BY <2>2, <2>3 DEF Answer
  <2>5. \A k : Count(k) = Times(typed, d - 1, {k})
    <3> TAKE k
    <3>1. {i \in 1..(d - 1) : typed[i] = k} = Hits(typed, d - 1, {k})
      BY DEF Hits
    <3> QED
      BY <2>4, <3>1 DEF Count, Times
  <2>6. kind \in {"plain", "ext"} /\ initial \in Nat /\ n \in Nat \ {0} /\ d - 1 \in Nat
    BY <2>1, <2>2 DEF MenuInv, Types, KeysInv, TypedTypes, Where
  <2> DEFINE x == initial - 1 + Times(typed, d - 1, {"VOLUP"}) - Times(typed, d - 1, {"VOLDOWN"})
  <2>7. x % n \in 0..(n - 1)
    <3>1. Times(typed, d - 1, {"VOLUP"}) \in Nat /\ Times(typed, d - 1, {"VOLDOWN"}) \in Nat
      BY <2>6, TimesType
    <3>2. x \in Int
      BY <2>6, <3>1
    <3> HIDE DEF x
    <3> QED
      BY <2>6, <3>2, Division
  <2>8. Position(typed, d - 1) = (x % n) + 1
    BY DEF Position
  <2>9. Meaning = IF typed[d] = "BACK" THEN GO_BACK ELSE (x % n) + (IF kind = "ext" THEN 1 ELSE 0)
    BY <2>4, <2>5 DEF Meaning
  <2>10. chosen = IF typed[d] = "BACK" THEN GO_BACK
                  ELSE Position(typed, d - 1) - (IF kind = "plain" THEN 1 ELSE 0)
    BY <2>1 DEF Where
  <2> HIDE DEF x
  <2>11. chosen = Meaning
    BY <2>6, <2>7, <2>8, <2>9, <2>10
  <2> QED
    BY <2>2, <2>11 DEF Answered
<1> QED
  BY <1>1, <1>2, InputNext, KeysNext, MenuInit, MenuStep, PTL DEF Spec
=============================================================================
