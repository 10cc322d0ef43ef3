------------------------------- MODULE Changes -------------------------------
(***************************************************************************)
(* Choosing what to keep: web/src/app/ChangesView.tsx, the lists of        *)
(* ChangeList.tsx and the diff of DiffView.tsx, over the status and the    *)
(* diffs of useWorkingDirectory.ts.                                        *)
(*                                                                         *)
(* A file is its changed lines, each of them staged or not.  The diff of a *)
(* side lists the lines of that side in order, and a line is chosen by its *)
(* position in it: after anything has changed, the same position is        *)
(* another line.  A diff is identified by what it holds, and the daemon    *)
(* refuses a choice made in a diff that is not the one it reads.           *)
(***************************************************************************)
EXTENDS Page, Integers, Sequences, FiniteSets, FiniteSetsExt

CONSTANTS
    Lines,          \* the files in the order they are listed: the lines of each, numbered
    HunkSize, MaxDrawn,
    MaxMoves,       \* bound: changes made outside of the panel
    Asked           \* what was asked is not answered

Paths == DOMAIN Lines
Rows == {"staged", "unstaged"}
Keys == Paths \X Rows

\* What the daemon is asked: of whole files, or of lines by their position in
\* a diff.
Requests ==
    [kind : {"stage", "unstage", "discard"}, plan : BOOLEAN, paths : SUBSET Paths,
     lines : [diff : SUBSET Nat, indices : SUBSET Nat] \cup {None}, meant : SUBSET Nat,
     answer : [Rows -> SUBSET Paths] \cup {Asked}]

\* There is something or there is None.
ASSUME ChangesAssumption ==
    /\ Lines \in Seq(SUBSET Nat) /\ \A path \in Paths : IsFiniteSet(Lines[path])
    /\ MaxDrawn \in Nat
    /\ None \notin Rows /\ None \notin Paths /\ None \notin Requests
    /\ None \notin [row : Rows \cup {None}, path : Paths \cup {None}]

VARIABLES
    work,           \* the work tree: what each line of each file is
    status,         \* the lists, as they were last read
    diffs,          \* for each row of a file, its diff as it was last read, or None
    selected,       \* the row that was picked, or None
    filter,         \* the paths the filter lets through
    seenDiff, chosen, anchor,
    operation,      \* what is asked of the daemon, or None
    pendingDiscard, \* the question on screen, or None
    acted,          \* for each list, the row whose button was pressed, or None
    focusedPath,    \* for each list, the row last focused
    focus,          \* a row, None for the body of the page, or Elsewhere
    moves, gestures,
    meant           \* history variable: the lines chosen, as they were drawn

pane == <<seenDiff, chosen, anchor, meant>>
keyboard == <<acted, focusedPath, focus>>
vars == <<work, status, diffs, selected, filter, pane, operation,
          pendingDiscard, keyboard, moves, gestures>>

Elsewhere == [row |-> None, path |-> None]

-----------------------------------------------------------------------------
(* The daemon's side. *)

LinesOn(row, path) ==
    {line \in Lines[path] : work[path][line] = IF row = "staged" THEN "staged" ELSE "changed"}

StatusNow == [row \in Rows |-> {path \in Paths : LinesOn(row, path) # {}}]
DiffNow(key) == LinesOn(key[2], key[1])

\* What staging, unstaging or discarding leaves of a line.
Result(kind) == CASE kind = "stage" -> "staged" [] kind = "unstage" -> "changed" [] kind = "discard" -> "clean"
Side(kind) == IF kind = "unstage" THEN "staged" ELSE "unstaged"

\* The lines a request names: those at the positions given in a diff, or all.
At(diff, indices) == {line \in diff : Cardinality({other \in diff : other <= line}) \in indices}
Named(request, path) ==
    IF request.lines = None THEN LinesOn(Side(request.kind), path)
    ELSE At(request.lines.diff, request.lines.indices)

\* Of lines, the diff they were chosen in is read again and must be the same.
Accepted(request) ==
    request.lines # None => \A path \in request.paths : LinesOn(Side(request.kind), path) = request.lines.diff

-----------------------------------------------------------------------------
(* What is drawn. *)

Listed(row) == status[row] \cap filter
ListedNow(row) == status'[row] \cap filter'

Other(row) == IF row = "staged" THEN "unstaged" ELSE "staged"

\* The row that was picked, or else the same file in the other list.
Current ==
    IF selected = None THEN None
    ELSE IF selected.path \in status[selected.row] THEN selected
    ELSE IF selected.path \in status[Other(selected.row)] THEN [selected EXCEPT !.row = Other(@)]
    ELSE None

Key(at) == <<at.path, at.row>>
Diff == IF Current = None THEN None ELSE diffs[Key(Current)]

FirstToShow(lists) ==
    IF lists["unstaged"] # {} THEN [path |-> Min(lists["unstaged"]), row |-> "unstaged"]
    ELSE IF lists["staged"] # {} THEN [path |-> Min(lists["staged"]), row |-> "staged"]
    ELSE None

Busy == operation # None \/ pendingDiscard # None

\* The changed lines that are drawn, by position.
ChangedLines(diff) == 1..(IF Cardinality(diff) < MaxDrawn THEN Cardinality(diff) ELSE MaxDrawn)
Hunk(diff, index) ==
    LET of(i) == {(line - 1) \div HunkSize : line \in At(diff, {i})}
    IN  {other \in ChangedLines(diff) : of(other) = of(index)}

\* The row of a list that Tab reaches.
Roving(row) ==
    LET files == Listed(row)
        picked == selected # None /\ selected.row = row /\ selected.path \in files
    IN  IF files = {} THEN None
        ELSE IF focusedPath[row] \in files THEN focusedPath[row]
        ELSE IF picked THEN selected.path ELSE Min(files)

-----------------------------------------------------------------------------
Init ==
    /\ \E as \in [Paths -> {"changed", "staged"}] :
          work = [p \in Paths |-> [line \in Lines[p] |-> as[p]]]
    /\ status = StatusNow
    /\ diffs = [key \in Keys |-> None]
    /\ selected = FirstToShow(status) /\ filter = Paths
    /\ seenDiff = None /\ chosen = {} /\ anchor = None /\ meant = {}
    /\ operation = None /\ pendingDiscard = None
    /\ acted = [row \in Rows |-> None] /\ focusedPath = [row \in Rows |-> None] /\ focus = Elsewhere
    /\ moves = 0 /\ gestures = 0

Nowhere == [chosen |-> {}, anchor |-> None, meant |-> {}]
Choice == [chosen |-> chosen, anchor |-> anchor, meant |-> meant]

ShownMutant(choice) ==
    LET id == IF Diff' = None \/ Diff' = {} THEN None ELSE <<Key(Current'), Diff'>>
        kept == IF id = None THEN Nowhere ELSE choice
    IN  /\ seenDiff' = id
        /\ chosen' = kept.chosen /\ anchor' = kept.anchor /\ meant' = kept.meant

\* What is chosen is dropped with the diff it was chosen in.
Shown(choice) ==
    LET id == IF Diff' = None \/ Diff' = {} THEN None ELSE <<Key(Current'), Diff'>>
        kept == IF id = None \/ id # seenDiff THEN Nowhere ELSE choice
    IN  /\ seenDiff' = id
        /\ chosen' = kept.chosen /\ anchor' = kept.anchor /\ meant' = kept.meant

\* The heir of a row that left: the one that stands where it stood.
Heir(pressed, files) ==
    IF pressed.at < Cardinality(files) THEN Max(At(files, {pressed.at})) ELSE Max(files)

Gone(row) == acted[row] # None /\ acted[row].path \notin ListedNow(row)

HandsMutant(at, pressed) ==
    LET heirs == {row \in Rows : Gone(row) /\ ListedNow(row) # {}}
        kept == IF at \notin {None, Elsewhere} /\ at.path \notin ListedNow(at.row) THEN None ELSE at
        taker == IF kept = None /\ heirs # {} THEN CHOOSE row \in heirs : TRUE ELSE None
        heir == Heir(acted[taker], ListedNow(taker))
    IN  /\ acted' = [row \in Rows |-> IF Gone(row) THEN None ELSE pressed[row]]
        /\ focus' = IF taker = None THEN kept ELSE [row |-> taker, path |-> heir]
        /\ focusedPath' = IF taker = None THEN focusedPath ELSE [focusedPath EXCEPT ![taker] = heir]

\* A row that is taken off the page leaves focus to the body.  The list the
\* press was in gives it to the heir, if nothing else has it; a press that is
\* over is forgotten.
Hands(at, pressed) ==
    LET heirs == {row \in Rows : Gone(row) /\ ListedNow(row) # {}}
        kept == IF at \notin {None, Elsewhere} /\ at.path \notin ListedNow(at.row) THEN None ELSE at
        taker == IF kept = None /\ heirs # {} THEN CHOOSE row \in heirs : TRUE ELSE None
        heir == Heir(acted[taker], ListedNow(taker))
    IN  /\ acted' = [row \in Rows |-> IF Gone(row) \/ ~Busy' THEN None ELSE pressed[row]]
        /\ focus' = IF taker = None THEN kept ELSE [row |-> taker, path |-> heir]
        /\ focusedPath' = IF taker = None THEN focusedPath ELSE [focusedPath EXCEPT ![taker] = heir]

\* Into an empty selection, once, the panel picks a file by itself.
Opening == selected' = IF selected = None THEN FirstToShow(status') ELSE selected

Draw == Shown(Choice) /\ Hands(focus, acted)

Gesture == gestures < MaxGestures /\ gestures' = gestures + 1
Reading == UNCHANGED <<work, status, diffs, moves>>

-----------------------------------------------------------------------------
(* Choosing a file, and lines of it. *)

Select(row, path) ==
    /\ Gesture /\ pendingDiscard = None
    /\ path \in Listed(row)
    /\ selected' = [path |-> path, row |-> row]
    /\ UNCHANGED <<filter, operation, pendingDiscard, acted>> /\ Reading
    /\ Shown(Choice)
    /\ focus' = [row |-> row, path |-> path] /\ focusedPath' = [focusedPath EXCEPT ![row] = path]

\* Tab goes to one row of a list, and the arrows to its neighbours.
MoveFocus(row, path) ==
    /\ Gesture /\ pendingDiscard = None
    /\ path \in Listed(row) /\ focus # [row |-> row, path |-> path]
    /\ \/ path = Roving(row)
       \/ /\ focus \notin {None, Elsewhere} /\ focus.row = row
          /\ (path..focus.path \cup focus.path..path) \cap Listed(row) \subseteq {path, focus.path}
    /\ UNCHANGED <<selected, filter, operation, pendingDiscard, acted>> /\ Reading
    /\ Shown(Choice)
    /\ focus' = [row |-> row, path |-> path] /\ focusedPath' = [focusedPath EXCEPT ![row] = path]

Filter(paths) ==
    /\ Gesture /\ pendingDiscard = None
    /\ paths # filter /\ filter' = paths
    /\ UNCHANGED <<selected, operation, pendingDiscard>> /\ Reading
    /\ Shown(Choice) /\ Hands(Elsewhere, acted)

Chosen(indices, from) ==
    [chosen |-> indices, anchor |-> from, meant |-> (meant \ At(Diff, chosen \ indices)) \cup At(Diff, indices \ chosen)]

\* A click on a line, and Shift with it for the range from the last one.
Toggle(index, extend) ==
    /\ Gesture /\ pendingDiscard = None
    /\ seenDiff # None /\ index \in ChangedLines(Diff)
    /\ UNCHANGED <<selected, filter, operation, pendingDiscard>> /\ Reading
    /\ LET range == IF anchor < index THEN anchor..index ELSE index..anchor
           single == IF index \in chosen THEN chosen \ {index} ELSE chosen \cup {index}
       IN  Shown(Chosen(IF extend /\ anchor # None THEN chosen \cup range ELSE single, index))
    /\ Hands(Elsewhere, acted)

\* The arrows move from the line last touched to its neighbour, which Shift
\* then extends from.
MoveAnchor(index) ==
    /\ Gesture /\ pendingDiscard = None
    /\ seenDiff # None /\ index \in ChangedLines(Diff)
    /\ LET from == IF anchor = None THEN 1 ELSE anchor IN index \in {from - 1, from + 1}
    /\ UNCHANGED <<selected, filter, operation, pendingDiscard>> /\ Reading
    /\ Shown(Chosen(chosen, index)) /\ Hands(Elsewhere, acted)

Clear ==
    /\ Gesture /\ pendingDiscard = None
    /\ chosen # {}
    /\ UNCHANGED <<selected, filter, operation, pendingDiscard>> /\ Reading
    /\ Shown(Nowhere) /\ Hands(Elsewhere, acted)

-----------------------------------------------------------------------------
(* Acting on it. *)

\* What is asked of the daemon.  A discard is asked for its commands first.
Request(kind, paths, lines, lost) ==
    [kind |-> kind, plan |-> kind = "discard", paths |-> paths, lines |-> lines, meant |-> lost,
     answer |-> Asked]

Ask(request, choice, at, pressed) ==
    /\ Gesture /\ ~Busy
    /\ operation' = request
    /\ UNCHANGED <<selected, filter, pendingDiscard>> /\ Reading
    /\ Shown(choice) /\ Hands(at, pressed)

Offered(row) == IF row = "staged" THEN {"unstage"} ELSE {"stage", "discard"}

\* The button of a row is disabled by the press, and leaves focus to the body.
ActOnRow(row, path, kind) ==
    /\ path \in Listed(row) /\ kind \in Offered(row)
    /\ Ask(Request(kind, {path}, None, {}), Choice, None,
           [acted EXCEPT ![row] = [path |-> path,
                                   at |-> Cardinality({p \in Listed(row) : p <= path})]])

ActOnAll(row, kind) ==
    /\ Listed(row) # {} /\ kind \in Offered(row)
    /\ Ask(Request(kind, Listed(row), None, {}), Choice, None, acted)

\* Lines are dropped from the choice as they are sent; a discard keeps them.
ActOnLines(indices, kind) ==
    /\ Current # None /\ indices # {} /\ kind \in Offered(Current.row)
    /\ Ask(Request(kind, {Current.path}, [diff |-> Diff, indices |-> indices],
                   IF indices = chosen THEN meant ELSE At(Diff, indices)),
           IF kind = "discard" THEN Choice ELSE Nowhere, Elsewhere, acted)

ActOnChosen == seenDiff # None /\ \E kind \in {"stage", "unstage", "discard"} : ActOnLines(chosen, kind)
ActOnHunk ==
    /\ seenDiff # None
    /\ \E index \in ChangedLines(Diff), kind \in {"stage", "unstage", "discard"} :
          ActOnLines(Hunk(Diff, index), kind)

\* The plan is in: the question is put, with what it was asked about.
Propose ==
    /\ operation # None /\ operation.plan /\ operation.answer = Asked
    /\ pendingDiscard' = [operation EXCEPT !.plan = FALSE]
    /\ operation' = None
    /\ UNCHANGED <<selected, filter, gestures>> /\ Reading
    /\ Shown(Choice) /\ Hands(Elsewhere, acted)

ConfirmDiscard ==
    /\ pendingDiscard # None /\ operation = None
    /\ operation' = pendingDiscard
    /\ UNCHANGED <<selected, filter, pendingDiscard, gestures>> /\ Reading /\ Draw

CancelDiscard ==
    /\ pendingDiscard # None /\ operation = None
    /\ pendingDiscard' = None
    /\ UNCHANGED <<selected, filter, operation, gestures>> /\ Reading
    /\ Shown(Choice) /\ Hands(None, acted)

\* The daemon does it, and answers with the status that follows.
Run ==
    /\ operation # None /\ ~operation.plan /\ operation.answer = Asked
    /\ Accepted(operation)
    /\ work' = [path \in Paths |-> [line \in Lines[path] |->
                  IF path \in operation.paths /\ line \in Named(operation, path)
                  THEN Result(operation.kind) ELSE work[path][line]]]
    /\ operation' = [operation EXCEPT !.answer = StatusNow']
    /\ UNCHANGED <<status, diffs, selected, filter, pane, pendingDiscard,
                   keyboard, moves, gestures>>

\* The dialog closes with the answer.
Settle ==
    /\ operation # None /\ operation.answer # Asked
    /\ status' = operation.answer
    /\ operation' = None /\ pendingDiscard' = None
    /\ Opening
    /\ UNCHANGED <<work, diffs, filter, moves, gestures>>
    /\ Shown(Choice) /\ Hands(IF pendingDiscard # None THEN None ELSE focus, acted)

\* git refuses, or the diff has moved: the panel says so.
Refuse ==
    /\ operation # None /\ operation.answer = Asked
    /\ operation' = None /\ pendingDiscard' = None
    /\ UNCHANGED <<selected, filter, gestures>> /\ Reading
    /\ Shown(Choice) /\ Hands(IF pendingDiscard # None THEN None ELSE focus, acted)

-----------------------------------------------------------------------------
(* Reading, every two seconds or when told to: how a read under way is given *)
(* up for an answer is in ScreenCache.                                      *)

ReadStatus ==
    /\ status # StatusNow /\ status' = StatusNow
    /\ Opening
    /\ UNCHANGED <<work, diffs, moves, filter, operation, pendingDiscard, gestures>> /\ Draw

ReadDiff ==
    /\ Current # None /\ diffs[Key(Current)] # DiffNow(Key(Current))
    /\ diffs' = [diffs EXCEPT ![Key(Current)] = DiffNow(Key(Current))]
    /\ UNCHANGED <<work, status, moves, selected, filter, operation, pendingDiscard, gestures>> /\ Draw

\* An editor or a terminal.
Edit(path, line, as) ==
    /\ moves < MaxMoves /\ moves' = moves + 1
    /\ work[path][line] # as
    /\ work' = [work EXCEPT ![path][line] = as]
    /\ UNCHANGED <<status, diffs, selected, filter, operation, pendingDiscard, gestures, pane, keyboard>>

Leave ==
    /\ Gesture /\ pendingDiscard = None /\ focus # Elsewhere
    /\ UNCHANGED <<selected, filter, operation, pendingDiscard>> /\ Reading
    /\ Shown(Choice) /\ Hands(Elsewhere, acted)

Next ==
    \/ Clear \/ Leave
    \/ \E row \in Rows, path \in Paths : Select(row, path) \/ MoveFocus(row, path)
    \/ \E paths \in {Paths} \cup {{path} : path \in Paths} : Filter(paths)
    \/ \E index \in 1..MaxDrawn, extend \in BOOLEAN : Toggle(index, extend)
    \/ \E index \in 1..MaxDrawn : MoveAnchor(index)
    \/ \E row \in Rows, path \in Paths, kind \in {"stage", "unstage", "discard"} : ActOnRow(row, path, kind)
    \/ \E row \in Rows, kind \in {"stage", "unstage", "discard"} : ActOnAll(row, kind)
    \/ ActOnChosen \/ ActOnHunk
    \/ Propose \/ ConfirmDiscard \/ CancelDiscard
    \/ Run \/ Settle \/ Refuse
    \/ ReadStatus \/ ReadDiff
    \/ \E path \in Paths : \E line \in Lines[path], as \in {"clean", "changed"} : Edit(path, line, as)

Spec == Init /\ [][Next]_vars

-----------------------------------------------------------------------------
TypeOK ==
    /\ \A p \in Paths : work[p] \in [Lines[p] -> {"clean", "changed", "staged"}]
    /\ \A row \in Rows : status[row] \subseteq Paths
    /\ \A key \in Keys : diffs[key] = None \/ diffs[key] \subseteq Lines[key[1]]
    /\ chosen # {} => seenDiff # None /\ chosen \subseteq ChangedLines(seenDiff[2])
    /\ anchor # None => seenDiff # None /\ anchor \in ChangedLines(seenDiff[2])
    /\ \A row \in Rows : acted[row] # None => acted[row].path \in Paths

\* A line that is staged, unstaged or discarded from the diff is one the user
\* chose as it was drawn, and all of those are: whatever was saved, staged or
\* read again since, a position never stands for another line.
LinesAreTheOnesChosen ==
    [][operation # None /\ operation.lines # None /\ work' # work /\ moves' = moves
        => \A path \in Paths :
              {line \in Lines[path] : work'[path][line] # work[path][line]}
                = IF path \in operation.paths THEN operation.meant ELSE {}]_vars

\* The list takes the keyboard only when nothing has it, while a press of one
\* of its own buttons is going on or as it ends: never from the control the user
\* has moved to, nor for a press that git refused.
KeyboardIsNotTaken ==
    [][focus' # focus /\ gestures' = gestures /\ focus' \notin {None, Elsewhere}
        => /\ Busy
           /\ focus = Elsewhere => pendingDiscard # None
           /\ focus \notin {None, Elsewhere} => focus.path \notin ListedNow(focus.row)]_vars

\* Whoever stages file after file with the keyboard stays in the list: when the
\* row that was pressed leaves, the one that took its place has focus.
KeyboardStaysInTheList ==
    [][\A row \in Rows :
        acted[row] # None /\ gestures' = gestures /\ focus = None /\ pendingDiscard = None
          /\ acted[row].path \notin ListedNow(row) /\ ListedNow(row) # {}
        => focus' # None /\ focus'.path \in ListedNow(focus'.row)]_vars

\* The list of files takes the keyboard when one of its rows has left, and
\* never from anything else; what is chosen stays within what is drawn.
FilesKeepTheKeyboard == []TypeOK /\ KeyboardIsNotTaken /\ KeyboardStaysInTheList
=============================================================================
