-------------------------------- MODULE Menu --------------------------------
(***************************************************************************)
(* The menu of components/Menu.tsx: a button, and a popover of the         *)
(* browser, `popover="auto"`, that React knows nothing about.  The browser *)
(* hides it by itself, on Escape or when a pointer that went down          *)
(* elsewhere comes up, and tells so in a `toggle` event that comes later.  *)
(*                                                                         *)
(* A pointer goes down, comes up and clicks in three steps.  A user is     *)
(* slower than a task of the browser: no gesture begins while an event is  *)
(* on its way.  Where on the window the menu is drawn is not modelled, but *)
(* against which place of the row it was.                                  *)
(***************************************************************************)
EXTENDS Naturals, FiniteSets, Sequences

CONSTANTS
    Items,           \* the items, in the order the caller gives them
    MaxGestures,     \* bound on what the user does
    MaxChanges,      \* bound on the times the items or the row change
    MayHappen        \* "shrinks": an item leaves an open menu; "racing": the row scrolls
                     \* as the menu is dismissed

VARIABLES
    open,               \* the state of the component, that is aria-expanded
    shown,              \* the popover is in the top layer
    toggle,             \* the `toggle` event on its way: its newState
    focus,              \* an item, "trigger", or "outside"
    pressed,            \* what the pointer is doing: where it went down, and whether it is up
    openOnPointerDown,
    anchoredAt, row,    \* where the row was when the menu was placed, and where it is
    items,              \* the items there are, those refused among them
    refused,
    was,                \* the menu was on screen when the pointer went down, for the properties
    gestures, changes

look == <<open, shown, toggle, focus, anchoredAt>>
pointer == <<pressed, openOnPointerDown, was>>
rows == <<row, items, refused, changes>>
vars == <<look, pointer, rows, gestures>>

Up == [at |-> "none", up |-> FALSE]

Init ==
    /\ open = FALSE /\ shown = FALSE /\ toggle = "none" /\ focus = "outside" /\ pressed = Up
    /\ openOnPointerDown = FALSE /\ was = FALSE /\ row = 0 /\ anchoredAt = 0
    /\ items = Items /\ refused \in SUBSET {Items[i] : i \in DOMAIN Items}
    /\ gestures = 0 /\ changes = 0

Drawn == {items[i] : i \in DOMAIN items}
Gesture == gestures < MaxGestures /\ toggle = "none" /\ gestures' = gestures + 1

-----------------------------------------------------------------------------
(* The component.  A change of state and the layout effect that follows it *)
(* are one step.                                                           *)

\* The popover is shown, placed against the row, and focus put in it.
Show(end) ==
    /\ open' = TRUE /\ shown' = TRUE /\ toggle' = "open" /\ anchoredAt' = row
    /\ focus' = IF end = "first" THEN items[1] ELSE items[Len(items)]

\* The closing from inside, which puts focus back on the trigger.
Close ==
    /\ open' = FALSE /\ focus' = "trigger"
    /\ shown' = (shown /\ ~open)
    /\ toggle' = IF open /\ shown THEN "closed" ELSE toggle
    /\ UNCHANGED anchoredAt

\* The browser hides the popover: events that were on their way are one.
Dismiss(to) ==
    /\ shown' = FALSE /\ toggle' = "closed" /\ focus' = to
    /\ UNCHANGED <<open, anchoredAt>>

PointerDown(at) ==
    /\ Gesture /\ pressed = Up
    /\ at \in {"trigger", "outside"} \union (IF shown THEN Drawn ELSE {})
    /\ at = "trigger" => items # <<>>
    /\ pressed' = [at |-> at, up |-> FALSE] /\ was' = shown
    /\ openOnPointerDown' = IF at = "trigger" THEN open ELSE openOnPointerDown
    /\ focus' = at
    /\ UNCHANGED <<open, shown, toggle, anchoredAt, rows>>

\* Outside the popover, the trigger included, this dismisses it.
PointerUp ==
    /\ pressed # Up /\ ~pressed.up
    /\ pressed' = IF pressed.at = "outside" THEN Up ELSE [pressed EXCEPT !.up = TRUE]
    /\ IF shown /\ pressed.at \in {"trigger", "outside"} THEN Dismiss(focus) ELSE UNCHANGED look
    /\ UNCHANGED <<openOnPointerDown, was, rows, gestures>>

WasOpenMutant == open

\* The trigger was open when the pointer went down on it.
WasOpen == openOnPointerDown

ClickTrigger ==
    /\ pressed = [at |-> "trigger", up |-> TRUE] /\ items # <<>>
    /\ pressed' = Up
    /\ IF WasOpen THEN Close ELSE Show("first")
    /\ UNCHANGED <<openOnPointerDown, was, rows, gestures>>

\* Enter and Space are a click no pointer went down for.
PressTrigger ==
    /\ Gesture /\ focus = "trigger" /\ pressed = Up /\ items # <<>>
    /\ IF open THEN Close ELSE Show("first")
    /\ UNCHANGED <<pointer, rows>>

Arrow(end) ==
    /\ Gesture /\ focus = "trigger" /\ pressed = Up /\ items # <<>> /\ ~open
    /\ Show(end)
    /\ UNCHANGED <<pointer, rows>>

\* A refused item does nothing and the menu stays; any other runs over a menu
\* that is closed.
Select(item) ==
    /\ item \in Drawn
    /\ IF item \in refused THEN UNCHANGED look ELSE Close

ClickItem ==
    /\ pressed.at \in Drawn /\ pressed.up
    /\ pressed' = Up
    /\ Select(pressed.at)
    /\ UNCHANGED <<openOnPointerDown, was, rows, gestures>>

\* What is pressed has gone before the click, or is a trigger with no items.
ClickNothing ==
    /\ pressed.up /\ pressed.at \notin Drawn \union (IF items = <<>> THEN {} ELSE {"trigger"})
    /\ pressed' = Up
    /\ UNCHANGED <<look, openOnPointerDown, was, rows, gestures>>

PressItem ==
    /\ Gesture /\ pressed = Up /\ shown /\ focus \in Drawn
    /\ Select(focus)
    /\ UNCHANGED <<pointer, rows>>

\* The arrows go round, and stop at no end.
MoveFocus(step) ==
    /\ Gesture /\ pressed = Up /\ shown /\ focus \in Drawn
    /\ \E i \in DOMAIN items :
           items[i] = focus /\ focus' = items[((i - 1 + step + Len(items)) % Len(items)) + 1]
    /\ UNCHANGED <<open, shown, toggle, anchoredAt, pointer, rows>>

Tab == Gesture /\ pressed = Up /\ shown /\ focus \in Drawn /\ Close /\ UNCHANGED <<pointer, rows>>

\* The browser gives focus back to what had it when the popover was shown.
Escape == Gesture /\ pressed = Up /\ shown /\ Dismiss("trigger") /\ UNCHANGED <<pointer, rows>>

HandleToggle ==
    /\ toggle # "none"
    /\ toggle' = "none"
    /\ open' = (open /\ toggle # "closed")
    /\ UNCHANGED <<shown, focus, anchoredAt, pointer, rows, gestures>>

-----------------------------------------------------------------------------
(* What moves under the menu. *)

Changes == changes < MaxChanges /\ changes' = changes + 1

\* A scroll or a resize that moves the row closes the menu.  What moves it
\* without either is not modelled: nothing hears of it.
CloseIfMoved ==
    /\ Changes /\ row' = 1 - row
    /\ toggle = "none" \/ "racing" \in MayHappen
    /\ IF open /\ anchoredAt # 1 - row THEN Close ELSE UNCHANGED look
    /\ UNCHANGED <<items, refused, pointer, gestures>>

\* The caller draws other items, or refuses others: an open menu is placed
\* again, and its focus stays.
Redraw ==
    /\ Changes
    /\ \E kept \in SUBSET DOMAIN Items :
           /\ "shrinks" \in MayHappen \/ ~open \/ Drawn \subseteq {Items[i] : i \in kept}
           /\ items' = SelectSeq(Items, LAMBDA item : \E i \in kept : Items[i] = item)
    /\ refused' \in SUBSET {items'[i] : i \in DOMAIN items'}
    /\ focus' = IF focus \in {"trigger", "outside"} \union {items'[i] : i \in DOMAIN items'}
                THEN focus ELSE "outside"
    /\ anchoredAt' = IF open /\ shown /\ <<items, refused>>' # <<items, refused>> THEN row
                     ELSE anchoredAt
    /\ UNCHANGED <<open, shown, toggle, row, pointer, gestures>>

Next ==
    \/ \E at \in {"trigger", "outside"} \union Drawn : PointerDown(at)
    \/ PointerUp \/ ClickTrigger \/ ClickItem \/ ClickNothing
    \/ PressTrigger \/ PressItem \/ Tab \/ Escape
    \/ \E end \in {"first", "last"} : Arrow(end)
    \/ \E step \in {1, Len(items) - 1} : MoveFocus(step)
    \/ HandleToggle \/ CloseIfMoved \/ Redraw

Spec == Init /\ [][Next]_vars

-----------------------------------------------------------------------------
(* What must hold. *)

AtRest == toggle = "none" /\ pressed = Up

TypeOK ==
    /\ {open, shown, openOnPointerDown, was, pressed.up} \subseteq BOOLEAN
    /\ toggle \in {"none", "open", "closed"}
    /\ refused \subseteq Drawn
    /\ row \in {0, 1} /\ anchoredAt \in {0, 1}

\* aria-expanded and the paint of the trigger are never about a menu that is
\* gone (Menu.tsx, the toggle listener), an open one is against its row, and the
\* keyboard is in it.
SaysWhatIsShown ==
    AtRest => (open <=> shown) /\ (open => anchoredAt = row /\ focus \in Drawn)

\* A click on the trigger closes the menu it was on screen with, though the
\* browser has hidden it by then, and opens it otherwise (openOnPointerDown).
TriggerToggles ==
    [][pressed = [at |-> "trigger", up |-> TRUE] /\ pressed' = Up
           => items = <<>> \/ open' = ~was]_vars

\* The click that dismissed the menu was on its way to something else, and
\* focus stays there (Menu.tsx, close).
DismissalStealsNoFocus ==
    [][was /\ pressed = Up /\ focus = "outside" /\ gestures' = gestures => focus' = "outside"]_vars
=============================================================================
