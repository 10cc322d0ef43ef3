------------------------------ MODULE CommitLog ------------------------------
(***************************************************************************)
(* The history of a repository on screen: web/src/app/HistoryView.tsx, the *)
(* list of CommitList.tsx over the pages of useHistory.ts, and the panels  *)
(* that open under it.                                                     *)
(*                                                                         *)
(* The list draws a window of rows around where it is scrolled; a row that *)
(* is not in the window is not in the document, and a row whose page has   *)
(* not come is drawn but cannot take focus.  The walk that is drawn has    *)
(* its own pages, kept when another one is chosen.  A page that is asked   *)
(* for is one a row of which is drawn.                                     *)
(***************************************************************************)
EXTENDS Integers, Sequences, FiniteSets, FiniteSetsExt

CONSTANTS
    Walk,           \* for each scope, the commits of its walk, in order
    PageSize, Height, Overscan,
    MayHappen,      \* which of Interruptions do
    MaxGestures,    \* bound: gestures of the user
    None

\* While a row is looked up for a commit: "rescoped": another walk is drawn.
\* "left": something else than a commit of the list is opened, or it is closed.
Interruptions == {"rescoped", "left"}

Scopes == DOMAIN Walk
Commits == UNION {{Walk[s][i] : i \in DOMAIN Walk[s]} : s \in Scopes}

VARIABLES
    scope,
    inspected,      \* what the panel under the list shows, or None
    wanted,         \* the commit last asked for, or None
    locating,       \* the look-ups under way
    mounted,        \* the list is drawn
    top,            \* the first visible row
    loaded, broken, \* for each scope, the pages that came, and that failed
    focus,          \* a row, None for the body of the page, or Elsewhere
    wantedRow, chasing,
    gestures

vars == <<scope, inspected, wanted, locating, mounted, top, loaded, broken, focus, wantedRow,
          chasing, gestures>>
list == <<mounted, top, focus, wantedRow, chasing>>

Elsewhere == -1

-----------------------------------------------------------------------------
(* Rows and pages. *)

Total(s) == Len(Walk[s])
Rows(s) == 0..(Total(s) - 1)
CommitAt(s, row) == Walk[s][row + 1]
Located(s, commit) == {row \in Rows(s) : CommitAt(s, row) = commit}

PageOf(row) == row \div PageSize
Clamp(n, low, high) == IF n < low THEN low ELSE IF n > high THEN high ELSE n

FurthestTop(s) == Clamp(Total(s) - Height, 0, Total(s))
Visible(s, t) == {row \in Rows(s) : t <= row /\ row < t + Height}
Drawn(s, t) == {row \in Rows(s) : t - Overscan <= row /\ row < t + Height + Overscan}

\* The pages a row of which is drawn, the first one always.
PagesCovering(s, t) == {0} \cup {PageOf(row) : row \in Drawn(s, t)}

RowAt(s, row) == PageOf(row) \in loaded[s]
FailureAt(s, row) == PageOf(row) \in broken[s] /\ ~RowAt(s, row)

\* Where the list scrolls for a row: to the middle, or no further than needed.
Centred(s, row) == Clamp(row - Height \div 2, 0, FurthestTop(s))
Nearest(row) ==
    IF row < top THEN row ELSE IF row >= top + Height THEN row - Height + 1 ELSE top

-----------------------------------------------------------------------------
(* What a keyboard reaches. *)

RowForKey(key, from) ==
    LET page == Clamp(Height - 1, 1, Height)
        target == CASE key = "ArrowUp" -> from - 1
                    [] key = "ArrowDown" -> from + 1
                    [] key = "PageUp" -> from - page
                    [] key = "PageDown" -> from + page
                    [] key = "Home" -> 0
                    [] key = "End" -> Total(scope) - 1
    IN  Clamp(target, 0, Total(scope) - 1)

Keys == {"ArrowUp", "ArrowDown", "PageUp", "PageDown", "Home", "End"}

\* The row of the list that Tab reaches: the loaded one from the row wanted, or
\* else selected, downwards, and then upwards.
TabbableRow ==
    LET rows == Drawn(scope, top)
        selected == {row \in rows : RowAt(scope, row) /\ inspected # None
                                    /\ inspected.kind = "commit" /\ CommitAt(scope, row) = inspected.at}
        start == IF wantedRow # None THEN wantedRow
                 ELSE IF selected # {} THEN Min(selected) ELSE Min(rows)
        from == Clamp(start, Min(rows), Max(rows))
        down == {row \in rows : row >= from /\ RowAt(scope, row)}
        up == {row \in rows : row < from /\ RowAt(scope, row)}
    IN  IF down # {} THEN Min(down) ELSE IF up # {} THEN Max(up) ELSE None

ReportingRowsMutant ==
    {row \in Visible(scope, top) : FailureAt(scope, row) /\ row = PageOf(row) * PageSize}

\* Of a page that failed, the first row on screen carries its Retry.
ReportingRows ==
    {row \in Visible(scope, top) :
        /\ FailureAt(scope, row)
        /\ \A other \in Visible(scope, top) : PageOf(other) = PageOf(row) => row <= other}

-----------------------------------------------------------------------------
Init ==
    /\ scope \in Scopes
    /\ inspected = None /\ wanted = None /\ locating = {}
    /\ mounted = FALSE /\ top = 0
    /\ loaded = [s \in Scopes |-> {}] /\ broken = [s \in Scopes |-> {}]
    /\ focus = None /\ wantedRow = None /\ chasing = None
    /\ gestures = 0

\* The list as a step leaves it, with the row that is waited for.
List(m, t, f, w, c) == [mounted |-> m, top |-> t, focus |-> f, wantedRow |-> w, chasing |-> c]
Now == List(mounted, top, focus, wantedRow, chasing)

FocusableIn(l) == {row \in Drawn(scope', l.top) : l.mounted /\ PageOf(row) \in loaded'[scope']}

\* A row that is taken out of the document leaves focus to the body.
Kept(l) ==
    IF l.focus \in {None, Elsewhere} \cup FocusableIn(l) THEN l.focus ELSE None

\* After a render: the row waited for takes focus once it is there, unless the
\* user has gone to another one or out of the list.
Chase(l) ==
    IF l.chasing = None THEN l
    ELSE IF l.wantedRow # l.chasing \/ l.focus = Elsewhere THEN [l EXCEPT !.chasing = None]
    ELSE IF l.chasing \in FocusableIn(l) THEN [l EXCEPT !.focus = l.chasing, !.chasing = None]
    ELSE l

\* A list that was not drawn starts afresh.
Draw(l) ==
    LET kept == [l EXCEPT !.focus = Kept(l)]
        rendered == l.mounted /\ (l.top # top \/ l.wantedRow # wantedRow \/ loaded' # loaded
                                  \/ broken' # broken \/ inspected' # inspected \/ scope' # scope)
        after == IF ~l.mounted THEN List(FALSE, 0, Kept(l), None, None)
                 ELSE IF rendered THEN Chase(kept) ELSE kept
    IN  /\ mounted' = after.mounted /\ top' = after.top /\ focus' = after.focus
        /\ wantedRow' = after.wantedRow /\ chasing' = after.chasing

Gesture == gestures < MaxGestures /\ gestures' = gestures + 1

-----------------------------------------------------------------------------
(* Selecting. *)

Commit(sha) == [kind |-> "commit", at |-> sha]

\* Asked of the daemon in the walk drawn, for the panel and for the row.
GoTo(sha) ==
    /\ wanted' = sha
    /\ inspected' = Commit(sha)
    /\ locating' = locating \cup {[sha |-> sha, scope |-> scope]}

\* A reference of the sidebar, or a match of the search.
FollowReference(sha) ==
    /\ Gesture
    /\ GoTo(sha)
    /\ UNCHANGED <<scope, loaded, broken>>
    /\ Draw([Now EXCEPT !.focus = Elsewhere])

\* A click on a row while something is open revokes the row that was wanted.
SelectRow(sha) ==
    IF inspected = None THEN GoTo(sha)
    ELSE wanted' = None /\ inspected' = Commit(sha) /\ UNCHANGED locating

ClickRow(row) ==
    /\ Gesture
    /\ mounted /\ row \in Visible(scope, top) /\ RowAt(scope, row)
    /\ SelectRow(CommitAt(scope, row))
    /\ UNCHANGED <<scope, loaded, broken>>
    /\ Draw([Now EXCEPT !.focus = row, !.wantedRow = row])

Leaving == locating = {} \/ "left" \in MayHappen

\* Another panel is opened, or none.
Inspect(what) ==
    /\ Gesture /\ Leaving
    /\ inspected' = what
    /\ UNCHANGED <<scope, wanted, locating, loaded, broken>>
    /\ Draw([Now EXCEPT !.focus = Elsewhere])

Close == inspected # None /\ Inspect(None)
InspectStash == Inspect([kind |-> "stash", at |-> None])

\* From a commit, the history and the blame of a file of it.
InspectFile ==
    /\ inspected # None /\ inspected.kind = "commit"
    /\ \E k \in {"file-history", "blame"} : Inspect([inspected EXCEPT !.kind = k])

\* From a blame, the history of a line.
InspectLine ==
    /\ inspected # None /\ inspected.kind = "blame"
    /\ Inspect([inspected EXCEPT !.kind = "line-history"])

\* From each of these, one of the commits listed.
InspectEntry(sha) ==
    /\ inspected # None /\ inspected.kind \in {"file-history", "blame", "line-history"}
    /\ Inspect(Commit(sha))

\* The daemon answers with the row, and the list goes there if the commit is
\* still the one wanted.
Locate(q) ==
    /\ Located(q.scope, q.sha) # {}
    /\ locating' = locating \ {q}
    /\ UNCHANGED <<scope, inspected, wanted, loaded, broken, gestures>>
    /\ IF wanted = q.sha /\ mounted
       THEN Draw([Now EXCEPT !.top = Centred(scope, Min(Located(q.scope, q.sha)))])
       ELSE UNCHANGED list

\* It is not in this walk, or could not be read: the panel says so.
LocateFails(q) ==
    /\ locating' = locating \ {q}
    /\ UNCHANGED <<scope, inspected, wanted, loaded, broken, gestures, list>>

\* The list is drawn again when the walk chosen was read before.
ChooseScope(s) ==
    /\ Gesture /\ s # scope
    /\ locating = {} \/ "rescoped" \in MayHappen
    /\ scope' = s
    /\ UNCHANGED <<inspected, wanted, locating, loaded, broken>>
    /\ Draw([Now EXCEPT !.mounted = mounted /\ 0 \in loaded[s], !.focus = Elsewhere,
                        !.top = Clamp(@, 0, FurthestTop(s))])

-----------------------------------------------------------------------------
(* The keyboard and the wheel. *)

Press(key) ==
    /\ Gesture
    /\ mounted /\ focus \in Rows(scope)
    /\ LET target == RowForKey(key, focus)
       IN  /\ UNCHANGED <<scope, inspected, wanted, locating, loaded, broken>>
           /\ Draw([Now EXCEPT !.top = Nearest(target), !.wantedRow = target, !.chasing = target])

Tab ==
    /\ Gesture
    /\ mounted /\ focus \notin Rows(scope) /\ TabbableRow # None
    /\ UNCHANGED <<scope, inspected, wanted, locating, loaded, broken>>
    /\ Draw([Now EXCEPT !.focus = TabbableRow, !.wantedRow = TabbableRow])

\* Focus goes to another control.
Leave ==
    /\ Gesture
    /\ focus # Elsewhere
    /\ focus' = Elsewhere
    /\ UNCHANGED <<scope, inspected, wanted, locating, mounted, top, loaded, broken, wantedRow, chasing>>

Scroll(t) ==
    /\ Gesture
    /\ mounted /\ t \in 0..FurthestTop(scope) /\ t # top
    /\ UNCHANGED <<scope, inspected, wanted, locating, loaded, broken>>
    /\ Draw([Now EXCEPT !.top = t])

-----------------------------------------------------------------------------
(* Pages. *)

Awaited == PagesCovering(scope, top) \ (loaded[scope] \cup broken[scope])

\* The first page brings the number of rows, and the list with it.
PageLands(page) ==
    /\ page \in Awaited /\ (mounted \/ page = 0)
    /\ loaded' = [loaded EXCEPT ![scope] = @ \cup {page}]
    /\ UNCHANGED <<scope, inspected, wanted, locating, broken, gestures>>
    /\ Draw([Now EXCEPT !.mounted = mounted \/ page = 0])

PageFails(page) ==
    /\ page \in Awaited /\ (mounted \/ page = 0)
    /\ broken' = [broken EXCEPT ![scope] = @ \cup {page}]
    /\ UNCHANGED <<scope, inspected, wanted, locating, loaded, gestures>>
    /\ Draw(Now)

Ask(page) ==
    /\ broken' = [broken EXCEPT ![scope] = @ \ {page}]
    /\ UNCHANGED <<scope, inspected, wanted, locating, loaded>>
    /\ Draw(Now)

Retry(row) == Gesture /\ mounted /\ row \in ReportingRows /\ Ask(PageOf(row))

\* The first page has no row to retry from: the window takes focus.
Refocus == Gesture /\ ~mounted /\ 0 \in broken[scope] /\ Ask(0)

Next ==
    \/ \E sha \in Commits : FollowReference(sha) \/ InspectEntry(sha)
    \/ \E row \in Rows(scope) : ClickRow(row) \/ Retry(row)
    \/ Close \/ InspectStash \/ InspectFile \/ InspectLine
    \/ \E q \in locating : Locate(q) \/ LocateFails(q)
    \/ \E s \in Scopes : ChooseScope(s)
    \/ \E key \in Keys : Press(key)
    \/ Tab \/ Leave \/ Refocus
    \/ \E t \in Rows(scope) : Scroll(t)
    \/ \E page \in 0..PageOf(Total(scope)) : PageLands(page) \/ PageFails(page)

Spec == Init /\ [][Next]_vars

-----------------------------------------------------------------------------
TypeOK ==
    /\ \A s \in Scopes : loaded[s] \cap broken[s] = {} /\ loaded[s] \cup broken[s] \subseteq 0..PageOf(Total(s) - 1)
    /\ focus \in {None, Elsewhere} \cup Rows(scope)
    /\ top \in 0..FurthestTop(scope)
    /\ wantedRow \in {None} \cup Nat /\ chasing \in {None, wantedRow}
    /\ mounted => 0 \in loaded[scope]
    /\ wanted \in Commits \cup {None}

\* Tab always reaches the list: as soon as one row that is drawn is loaded, one
\* such row is the stop of the list.
ListIsReachable ==
    mounted /\ (\E row \in Drawn(scope, top) : RowAt(scope, row))
        => TabbableRow \in {row \in Drawn(scope, top) : RowAt(scope, row)}

\* Each page that failed and is on screen can be retried, from one row of those
\* the user sees.
FailuresCanBeRetried ==
    mounted => \A page \in {PageOf(row) : row \in {r \in Visible(scope, top) : FailureAt(scope, r)}} :
        Cardinality({row \in ReportingRows : PageOf(row) = page}) = 1

\* Focus is never taken from where the user put it: out of the list, it comes
\* back by a gesture only.
FocusIsNotStolen == [][focus = Elsewhere /\ gestures' = gestures => focus' = Elsewhere]_vars

\* A row asked for with the keyboard has focus once the pages that are drawn
\* have come, unless its own failed or the user scrolled away from it or left.
KeysAreFollowed ==
    Awaited = {} => \/ chasing \in {None, focus} \/ focus = Elsewhere
                    \/ PageOf(chasing) \in broken[scope] \/ chasing \notin Drawn(scope, top)

\* The list goes by itself only to the commit that is open, in the walk drawn.
GoesToWhatIsOpen ==
    [][top' # top /\ gestures' = gestures /\ scope' = scope /\ mounted /\ mounted'
        => /\ inspected # None /\ inspected.kind = "commit"
           /\ \E row \in Located(scope, inspected.at) : top' = Centred(scope, row)]_vars
=============================================================================
