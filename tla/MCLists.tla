------------------------------ MODULE MCLists ------------------------------
(***************************************************************************)
(* Seven parts of the web interface that do not touch one another: the     *)
(* lists the user walks with the keyboard, the files of Changes and the    *)
(* commits of CommitLog; the resolver of Conflict; the dialog of Adding;   *)
(* the plan of Rewrite; the menu of Menu; and the notifications of Toasts. *)
(* A behaviour is one of the part that is chosen at the start, and the     *)
(* others stay where they begin.                                           *)
(***************************************************************************)
EXTENDS Changes, Rewrite, TLC

CONSTANTS Blank, a, b, main

VARIABLES
    part,
    scope, inspected, wanted, locating, mounted, top, loaded, broken, place, wantedRow, chasing,
    presses,
    text, chunks, edits,
    mode, typedDepth, depthLimit, scanned, variables, form, asking, plan, runFailed, requests,
    active, ran, strokes,
    open, shown, toggle, held, pressed, openOnPointerDown, anchoredAt, row, items, refused, was,
    touches, changes,
    toasts, waiting, nextId, spokenLast, said, announcements, timers, layer, arrivals, dismissed

\* A file of two lines and one of one.
TwoFiles == <<1..2, 1..1>>

log == <<scope, inspected, wanted, locating, mounted, top, loaded, broken, place, wantedRow,
         chasing, presses>>
resolver == <<text, chunks, edits>>
adding == <<mode, typedDepth, depthLimit, scanned, variables, form, asking, plan, runFailed,
            requests, active, ran, strokes>>
menu == <<open, shown, toggle, held, pressed, openOnPointerDown, anchoredAt, row, items, refused,
          was, touches, changes>>
notices == <<toasts, waiting, nextId, spokenLast, said, announcements, timers, layer, arrivals,
             dismissed>>

\* Five commits, of which two are reachable from HEAD.
Log == INSTANCE CommitLog WITH
    Walk <- [all |-> <<"a", "b", "c", "d", "e">>, head |-> <<"b", "e">>],
    PageSize <- 2, Height <- 2, Overscan <- 1, MayHappen <- {}, MaxGestures <- 4,
    focus <- place, gestures <- presses

\* A file with two conflicts, that git writes in either of its styles, with
\* lines before, between and after them.  A line can underline a heading.
Both(lines) == [conflict |-> FALSE, lines |-> lines]
Clash(ours, base, theirs) == [conflict |-> TRUE, ours |-> ours, base |-> base, theirs |-> theirs]

Clashes ==
    {Clash(sides[1], base, sides[2]) :
        sides \in {<<<<>>, <<"b">>>>, <<<<"a">>, <<>>>>, <<<<"a">>, <<"===">>>>},
        base \in {<<>>, <<"|||", "o">>}}

TwoConflicts ==
    {<<Both(before), first, Both(between), second, Both(after)>> :
        before \in {<<>>, <<"x">>, <<"x", "===", "y">>}, first \in Clashes,
        between \in {<<"x">>, <<"x", "===", "y">>}, second \in Clashes,
        after \in {<<"">>, <<"x", "y", "z">>}}

Resolver == INSTANCE Conflict WITH
    Merges <- TwoConflicts, Context <- 2, MaxEdits <- 1, Empty <- ""

\* Two repositories, and depths on both sides of the ceiling.
Dialog == INSTANCE Adding WITH
    Places <- {a, b}, Default <- 2, DefaultBranch <- main, DepthLimit <- 3, Depths <- {0, 1, 5},
    MaxGestures <- 7, MayHappen <- {"typing"}, gestures <- strokes

Actions == INSTANCE Menu WITH
    Items <- <<"m", "n">>, MaxGestures <- 4, MaxChanges <- 2, MayHappen <- {},
    focus <- held, gestures <- touches

Notices == INSTANCE Toasts WITH
    Titles <- {"t", "u"}, MaxStack <- 2, MaxArrivals <- 4

Start ==
    /\ part \in {"files", "commits", "resolver", "adding", "rebase", "menu", "notices"}
    /\ Init /\ (IF part = "files" THEN 2 \in status.unstaged ELSE status.staged = {})
    /\ Log!Init /\ (part # "commits" => scope = "all")
    /\ Resolver!Init /\ (part # "resolver" => chunks = CHOOSE merge \in TwoConflicts : TRUE)
    /\ Dialog!Init /\ RewriteInit /\ Notices!Init
    /\ Actions!Init /\ (part # "menu" => refused = {})

Step ==
    \/ /\ part = "files"
       /\ Next
       /\ gestures' + moves' <= 3
       /\ UNCHANGED <<part, log, resolver, adding, rewriteVars, menu, notices>>
    \/ /\ part = "commits" /\ Log!Next
       /\ UNCHANGED <<part, vars, resolver, adding, rewriteVars, menu, notices>>
    \/ /\ part = "resolver" /\ Resolver!Next
       /\ UNCHANGED <<part, vars, log, adding, rewriteVars, menu, notices>>
    \/ /\ part = "adding" /\ Dialog!Next
       /\ UNCHANGED <<part, vars, log, resolver, rewriteVars, menu, notices>>
    \/ /\ part = "rebase" /\ RewriteNext
       /\ UNCHANGED <<part, vars, log, resolver, adding, menu, notices>>
    \/ /\ part = "menu" /\ Actions!Next
       /\ UNCHANGED <<part, vars, log, resolver, adding, rewriteVars, notices>>
    \/ /\ part = "notices" /\ Notices!Next
       /\ UNCHANGED <<part, vars, log, resolver, adding, rewriteVars, menu>>

Lists == Start /\ [][Step]_<<part, vars, log, resolver, adding, rewriteVars, menu, notices>>

-----------------------------------------------------------------------------
(* The properties of the parts, with the meaning they have in their        *)
(* modules.                                                                *)

\* Tab reaches the list of commits, a page of it that failed can be retried,
\* and the row the keyboard asked for is focused once it has come; the list
\* takes no focus back, and goes by itself only to what is open.
CommitsAreReachable ==
    /\ [](part = "commits" =>
             Log!TypeOK /\ Log!ListIsReachable /\ Log!FailuresCanBeRetried /\ Log!KeysAreFollowed)
    /\ Log!FocusIsNotStolen /\ Log!GoesToWhatIsOpen

\* The resolver reads the conflicts as git wrote them, and counts the lines it
\* does not draw.
ConflictsAreRead == part = "resolver" => Resolver!ReadsWhatGitWrote /\ Resolver!SkippedAreCounted

\* The depth in the box is that of the scan beside it, a repository is created
\* as the command on the screen said, a failure to open is shown by the control
\* that asked, and a destination typed by hand is not replaced.
AddingTellsTheTruth ==
    /\ [](part = "adding" => Dialog!TypeOK /\ Dialog!BoxTellsTheScan /\ Dialog!CreatesWhatItShows)
    /\ Dialog!FailuresAreShownWhereAsked /\ Dialog!TypedPathIsKept


\* A menu says whether it is on the screen, its button closes it, and being
\* dismissed it takes no focus.
MenusKeepTheirWord ==
    [](part = "menu" => Actions!TypeOK /\ Actions!SaysWhatIsShown)
        /\ Actions!TriggerToggles /\ Actions!DismissalStealsNoFocus

\* What arrives is drawn and said, and what was not read is not taken away.
NoticesAreTold ==
    [](part = "notices" => Notices!TypeOK)
        /\ Notices!FailuresWait /\ Notices!TimersTakeWhatTheyWereFor /\ Notices!ArrivalsAreTold
=============================================================================
