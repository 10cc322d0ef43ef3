------------------------------- MODULE Toasts -------------------------------
(***************************************************************************)
(* The notifications of components/ToastHost.tsx: a short stack of cards,  *)
(* the timers of those that go by themselves, the two live regions that    *)
(* say what arrives, and the top layer of the browser, where the stack has *)
(* to climb over a dialog.                                                 *)
(*                                                                         *)
(* What is pushed, dismissed or announced waits for the next render, as    *)
(* much of it as comes before, in which React applies it in order and the  *)
(* effects follow.  All timers run as long, so they end in the order they  *)
(* were started in.                                                        *)
(***************************************************************************)
EXTENDS Integers, FiniteSets, SequencesExt

CONSTANTS
    Titles,
    MaxStack,        \* MAX_STACK, ToastHost.tsx:89
    MaxArrivals      \* bound on the notifications and announcements

VARIABLES
    toasts,          \* the cards, oldest first
    waiting,         \* the updates of the state that no render has applied
    nextId,
    spokenLast,      \* the region that was written last
    said,            \* what the regions hold after the next render
    announcements,   \* what they hold
    timers,          \* one for each card that goes by itself, in the order they started
    layer,           \* the top layer, bottom first
    arrivals,        \* how many things have arrived
    dismissed        \* the cards the user dismissed, for the properties

vars == <<toasts, waiting, nextId, spokenLast, said, announcements, timers, layer, arrivals, dismissed>>

Tones == {"success", "danger"}
Silence == [i \in {0, 1} |-> "none"]

Init ==
    /\ toasts = <<>> /\ waiting = <<>> /\ nextId = 0
    /\ spokenLast = 0 /\ said = Silence /\ announcements = Silence
    /\ timers = <<>> /\ layer = <<"stack">> /\ arrivals = 0 /\ dismissed = {}

-----------------------------------------------------------------------------

\* A repeat of the newest card is counted on it; otherwise the oldest beyond
\* MaxStack goes.
NextStack(current, message) ==
    IF current # <<>> /\ Last(current).tone = message.tone /\ Last(current).title = message.title
    THEN Append(Front(current),
                [message EXCEPT !.id = Last(current).id, !.repeats = Last(current).repeats + 1])
    ELSE LET longer == Append(current, message)
         IN  IF Len(longer) > MaxStack THEN Tail(longer) ELSE longer

\* The cards after one update.
Updated(current, update) ==
    CASE update.kind = "push" -> NextStack(current, update.message)
      [] update.kind = "dismiss" -> SelectSeq(current, LAMBDA toast : toast.id # update.id)
      [] OTHER -> current

KeyMutant(toast) == <<toast.id, 1>>

\* A timer is mounted with its card, and again when the card repeats.
Key(toast) == <<toast.id, toast.repeats>>

Expiries(cards) == SelectSeq(cards, LAMBDA toast : toast.tone # "danger")

\* The timers of the cards that are still there run on; the others are cleared,
\* and the new ones started.
Mounted(cards) ==
    LET keys == {Key(toast) : toast \in ToSet(Expiries(cards))}
        running == SelectSeq(timers, LAMBDA timer : timer.key \in keys)
        fresh == SelectSeq(Expiries(cards),
                           LAMBDA toast : \A timer \in ToSet(timers) : timer.key # Key(toast))
    IN  running \o [i \in DOMAIN fresh |-> [key |-> Key(fresh[i]), id |-> fresh[i].id,
                                            since |-> fresh[i].arrival]]

\* Written to the region that was not written last, and the other is cleared.
Announced(title) ==
    /\ spokenLast' = 1 - spokenLast
    /\ said' = [i \in {0, 1} |-> IF i = 1 - spokenLast THEN title ELSE "none"]
    /\ arrivals' = arrivals + 1

Announce(title) ==
    /\ arrivals < MaxArrivals
    /\ Announced(title)
    /\ waiting' = Append(waiting, [kind |-> "announce", title |-> title])
    /\ UNCHANGED <<toasts, nextId, announcements, timers, layer, dismissed>>

Push(tone, title) ==
    /\ arrivals < MaxArrivals
    /\ nextId' = nextId + 1
    /\ Announced(title)
    /\ waiting' = Append(waiting,
           [kind |-> "push", title |-> title,
            message |-> [id |-> nextId, tone |-> tone, title |-> title, repeats |-> 1,
                         arrival |-> arrivals + 1]])
    /\ UNCHANGED <<toasts, announcements, timers, layer, dismissed>>

Dismissing(id) == waiting' = Append(waiting, [kind |-> "dismiss", id |-> id])

\* The cross of a card; again before the render changes nothing.
Dismiss(toast) ==
    /\ toast.id \notin dismissed /\ Dismissing(toast.id)
    /\ dismissed' = dismissed \union {toast.id}
    /\ UNCHANGED <<toasts, nextId, spokenLast, said, announcements, timers, layer, arrivals>>

Expire ==
    /\ timers # <<>>
    /\ timers' = Tail(timers)
    /\ Dismissing(Head(timers).id)
    /\ UNCHANGED <<toasts, nextId, spokenLast, said, announcements, layer, arrivals, dismissed>>

\* The stack leaves the top layer and enters it again when something has
\* arrived and a modal dialog is open.
Claimed(arrived) ==
    IF arrived /\ "dialog" \in ToSet(layer)
    THEN Append(SelectSeq(layer, LAMBDA element : element # "stack"), "stack") ELSE layer

Pushes == SelectSeq(waiting, LAMBDA update : update.kind = "push")
Messages == [i \in DOMAIN Pushes |-> Pushes[i].message]
Sayings == SelectSeq(waiting, LAMBDA update : update.kind # "dismiss")

Render ==
    /\ waiting # <<>> /\ waiting' = <<>>
    /\ toasts' = FoldLeft(Updated, toasts, waiting)
    /\ announcements' = said
    /\ timers' = Mounted(toasts')
    /\ layer' = Claimed(Pushes # <<>>)
    /\ UNCHANGED <<nextId, spokenLast, said, arrivals, dismissed>>

ToggleDialog ==
    /\ layer' = IF "dialog" \in ToSet(layer)
                THEN SelectSeq(layer, LAMBDA element : element # "dialog")
                ELSE Append(layer, "dialog")
    /\ UNCHANGED <<toasts, waiting, nextId, spokenLast, said, announcements, timers, arrivals, dismissed>>

Next ==
    \/ \E title \in Titles : Announce(title) \/ \E tone \in Tones : Push(tone, title)
    \/ \E toast \in ToSet(toasts) : Dismiss(toast)
    \/ Expire \/ Render \/ ToggleDialog

Spec == Init /\ [][Next]_vars

-----------------------------------------------------------------------------
(* What must hold. *)

Ids(cards) == {toast.id : toast \in ToSet(cards)}

\* Each card has an identity of its own, and one that goes by itself has the
\* timer that takes it.
TypeOK ==
    /\ Len(toasts) <= MaxStack /\ Cardinality(Ids(toasts)) = Len(toasts)
    /\ \A toast \in ToSet(toasts) : toast.id < nextId /\ toast.arrival <= arrivals
    /\ waiting = <<>> =>
           {toast.id : toast \in ToSet(Expiries(toasts))} = {timer.id : timer \in ToSet(timers)}
    /\ ToSet(layer) \subseteq {"stack", "dialog"}

\* A failure is not taken away by a timer: it goes when the user dismisses it
\* or when MaxStack newer ones have come (ToastHost.tsx, TRANSIENT_MS).
FailuresWait ==
    [][\A toast \in ToSet(toasts) :
           toast.tone = "danger" /\ toast.id \notin Ids(toasts)'
               => \/ toast.id \in dismissed
                  \/ Cardinality({id \in Ids(toasts) \union Ids(Messages) : id > toast.id}) >= MaxStack]_vars

\* "a toast that dismisses the one that replaced it" (ToastHost.tsx, Expiry): a
\* timer takes a card away only when nothing has been drawn on it since it began.
TimersTakeWhatTheyWereFor ==
    [][Len(timers') < Len(timers) /\ Len(waiting') > Len(waiting)
           => \A toast \in ToSet(toasts) :
                  toast.id = Head(timers).id => toast.arrival = Head(timers).since]_vars

\* The card that a notification is counted on, if it comes before a render.
Repeats(message, toast) == message.tone = toast.tone /\ message.title = toast.title

\* A card like it is taken away, by the user or by its timer, in the same render.
Withdrawn(message) ==
    \E toast \in ToSet(toasts), i \in DOMAIN waiting :
        Repeats(message, toast) /\ waiting[i].kind = "dismiss" /\ waiting[i].id = toast.id

\* All that arrived before a render is drawn by it, on a card of its own or counted
\* on the one it repeats, above every dialog that is open: but for what MaxStack
\* others came after, and for a repeat of a card that is taken away with it.
DrawnAbove ==
    /\ Pushes # <<>> => Last(layer') = "stack" \/ "dialog" \notin ToSet(layer)
    /\ \A i \in DOMAIN Messages :
           \/ \E toast \in ToSet(toasts') : Repeats(Messages[i], toast) /\ toast.arrival >= Messages[i].arrival
           \/ Len(Messages) - i >= MaxStack
           \/ Withdrawn(Messages[i])

\* What is said is in a region that did not hold it: but for a text that waited
\* with others, of which only the last is written, and is written over itself
\* when their number is even and the region held it already.
Heard ==
    Sayings # <<>> =>
        \E region \in {0, 1} :
            /\ announcements'[region] = Last(Sayings).title
            /\ Len(Sayings) % 2 = 1 => announcements[region] # Last(Sayings).title

\* What arrives is drawn and said by the next render (ToastHost.tsx, push).
ArrivalsAreTold == [][waiting # <<>> /\ waiting' = <<>> => DrawnAbove /\ Heard]_vars
=============================================================================
