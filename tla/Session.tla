------------------------------- MODULE Session -------------------------------
(***************************************************************************)
(* The repositories open in a page, and what of them outlives it:          *)
(* web/src/app/Workbench.tsx, which lists what the daemon holds, reopens   *)
(* what local storage remembers and writes back what it shows,             *)
(* sessionStore.ts, and the three forms of AddRepository.tsx.              *)
(*                                                                         *)
(* The daemon keeps its list in memory: a restart empties it.  The page    *)
(* keeps a copy of that list, and its effects run when the copy changes;   *)
(* a handler, the render it causes and the effects of that render are one  *)
(* step, as nothing else runs between them.  A request is asked, carried   *)
(* out by the daemon, and answered, in three steps.  An identifier is the  *)
(* digest of its path, so a path stands for both.  Themes, badges and the  *)
(* command log are left out.                                               *)
(***************************************************************************)
EXTENDS Integers, Sequences, SequencesExt, Functions, Page

CONSTANTS
    Roots,          \* the paths of repositories
    MaxRequests,    \* bound: what the user asks of the daemon
    MaxRestarts,    \* bound: restarts of the daemon
    MaxReloads      \* bound: reloads of the page

ASSUME TabsAssumption == None \notin Roots

\* "failing": reading the list again fails.  "first": the first read of a page
\* fails.  "final": so does the read that ends a reopening, twice.  "midway":
\* while the page is reopening the daemon restarts, the page is reloaded, the
\* window takes focus, or something else is opened.
\* "unseen": the daemon restarts, and the user goes on before the page lists.
\* "overtaken": a list without what was closed arrives before the answer to the
\* closing does.  "together": two are opened at once.  "unlisted": the read after
\* an opening fails, and the first of the list is on screen next.
TabInterruptions ==
    {"failing", "first", "final", "midway", "unseen", "overtaken", "together", "unlisted"}

VARIABLES
    onDisk,         \* paths where there is a repository
    registry,       \* repositories the daemon holds, in the order opened
    stored,         \* local storage: the paths, and which one was on screen
    page,           \* the workbench: see Fresh
    reading,        \* the read of the list under way, and what it answered
    pass,           \* the reopening under way
    calls,          \* requests of the user under way
    requests, restarts, reloads,
    unseen,         \* the daemon restarted and the page has not listed since
    wanted,         \* what was on screen and not closed, for the properties
    closed,         \* what was closed and not asked for since, likewise
    viewed          \* what the user last chose to see, for the properties

bounds == <<requests, restarts, reloads>>
tabsVars == <<onDisk, registry, stored, page, reading, pass, calls, bounds, unseen, wanted, closed, viewed>>

Undisturbed == pass.at = "none" \/ "midway" \in MayHappen

NoList == <<None>>      \* the list, before the first answer

\* The workbench of a page just loaded.
Fresh == [list |-> NoList, failed |-> FALSE, chosen |-> None,
          ready |-> FALSE, restoredActive |-> FALSE, restoring |-> FALSE]

NoRead == [at |-> "none", list |-> <<>>]
ListAsked == [at |-> "asked", list |-> <<>>]
NoPass == [at |-> "none", left |-> <<>>]

OpenTabs(p) == IF p.list = NoList THEN <<>> ELSE p.list
IsPending(p) == p.list = NoList /\ ~p.failed

\* Which repository is on screen.
Active(p) ==
    IF p.chosen \in ToSet(OpenTabs(p)) THEN p.chosen
    ELSE IF OpenTabs(p) = <<>> THEN None ELSE Head(OpenTabs(p))

TabsInit ==
    /\ onDisk = Roots
    /\ registry = <<>>
    /\ stored = [paths |-> <<>>, active |-> None]
    /\ page = Fresh
    /\ reading = ListAsked
    /\ pass = NoPass
    /\ calls = {}
    /\ requests = 0 /\ restarts = 0 /\ reloads = 0
    /\ unseen = FALSE
    /\ wanted = {} /\ closed = {} /\ viewed = None

-----------------------------------------------------------------------------
(* What runs after a render, of a page p over a store s. *)

RestoreMutant(p, s) ==
    IF p.ready \/ p.restoring \/ IsPending(p) THEN p
    ELSE IF OpenTabs(p) = <<>> /\ s.paths # <<>> THEN [p EXCEPT !.restoring = TRUE]
    ELSE [p EXCEPT !.ready = TRUE]

Restore(p, s) ==
    IF p.restoring \/ IsPending(p) THEN p
    ELSE IF OpenTabs(p) = <<>> /\ s.paths # <<>> THEN [p EXCEPT !.restoring = TRUE]
    ELSE [p EXCEPT !.ready = TRUE]

\* An empty list over a store that is not is a daemon that restarted.
MirrorPaths(p, s) ==
    IF ~p.ready \/ p.restoring \/ IsPending(p) \/ (OpenTabs(p) = <<>> /\ s.paths # <<>>)
    THEN s
    ELSE [s EXCEPT !.paths = OpenTabs(p)]

RestoreActive(p, s) ==
    IF p.restoredActive \/ OpenTabs(p) = <<>> THEN p
    ELSE [p EXCEPT !.restoredActive = TRUE,
                   !.chosen = IF s.active \in ToSet(OpenTabs(p)) THEN s.active ELSE @]

MirrorActive(p, s) ==
    IF ~p.restoredActive \/ Active(p) = None THEN s ELSE [s EXCEPT !.active = Active(p)]

\* Page p drawn over store s, and its effects in the order they are written.
\* The first three depend upon the list, the last one upon what is on screen.
Render(p, s) ==
    LET changed == OpenTabs(p) # OpenTabs(page) \/ IsPending(p) # IsPending(page)
        begun == IF changed THEN Restore(p, s) ELSE p
        mirrored == IF changed THEN MirrorPaths(begun, s) ELSE s
        settled == IF changed THEN RestoreActive(begun, mirrored) ELSE begun
    IN  /\ page' = settled
        /\ stored' = IF changed \/ Active(settled) # Active(page)
                     THEN MirrorActive(settled, mirrored) ELSE mirrored
        /\ pass' = IF begun.restoring /\ ~p.restoring
                   THEN [at |-> "opening", left |-> s.paths] ELSE pass

-----------------------------------------------------------------------------
(* Reading the list. *)

\* A read under way is given up and asked again, unless it is the first one.
Invalidated(p) == IF reading.at # "none" /\ p.list = NoList THEN reading ELSE ListAsked

\* The window takes focus, or Try again is pressed.
Refetch ==
    /\ reading = NoRead /\ ~IsPending(page) /\ Undisturbed
    /\ reading' = ListAsked
    /\ UNCHANGED <<onDisk, registry, stored, page, pass, calls, bounds, unseen, wanted, closed, viewed>>

DaemonLists ==
    /\ reading.at = "asked"
    /\ "overtaken" \in MayHappen \/ \A c \in calls : c.what = "close" => c.at # "done"
    /\ reading' = [at |-> "answered", list |-> registry]
    /\ UNCHANGED <<onDisk, registry, stored, page, pass, calls, bounds, unseen, wanted, closed, viewed>>

\* What the user looks at when what was chosen is no longer there.
Seen == IF page'.restoring \/ viewed \in ToSet(OpenTabs(page')) THEN viewed ELSE Active(page')

Waiting == {c \in calls : c.at = "listing"}

\* Those who wait for the read go on before it is drawn: what was opened last
\* is brought on screen.
Delivered(p) ==
    /\ reading' = NoRead
    /\ calls' = calls \ Waiting
    /\ \E last \in {c.path : c \in Waiting} \cup {None} :
          /\ last = None <=> Waiting = {}
          /\ Render(IF last = None THEN p ELSE [p EXCEPT !.chosen = last], stored)
          /\ LET asked == IF last = None THEN p.chosen ELSE last
             IN  viewed' = IF asked \in ToSet(OpenTabs(p)) /\ (asked = last \/ asked \notin ToSet(OpenTabs(page)))
                          THEN asked ELSE Seen
    /\ wanted' = wanted \cup ToSet(OpenTabs(p))
    /\ UNCHANGED closed

ListRead ==
    /\ reading.at = "answered" /\ pass.at \notin {"listing", "again"}
    /\ Delivered([page EXCEPT !.list = reading.list, !.failed = FALSE])
    /\ unseen' = FALSE
    /\ UNCHANGED <<onDisk, registry, bounds>>

\* A failed read keeps the list there was, and those who wait go on.
ListFailed ==
    /\ (IF page.list = NoList THEN "first" ELSE "failing") \in MayHappen
    /\ Waiting = {} \/ "unlisted" \in MayHappen
    /\ reading.at = "asked" /\ pass.at \notin {"listing", "again"}
    /\ Delivered([page EXCEPT !.failed = TRUE])
    /\ UNCHANGED <<onDisk, registry, bounds, unseen>>

-----------------------------------------------------------------------------
(* The reopening of what is remembered. *)

Opened(p) == IF p \in ToSet(registry) THEN registry ELSE Append(registry, p)

\* One path at a time; one that is refused is left.
Reopen ==
    /\ pass.at = "opening" /\ pass.left # <<>>
    /\ registry' = IF Head(pass.left) \in onDisk THEN Opened(Head(pass.left)) ELSE registry
    /\ wanted' = IF Head(pass.left) \in onDisk THEN wanted ELSE wanted \ {Head(pass.left)}
    /\ pass' = [pass EXCEPT !.left = Tail(@)]
    /\ UNCHANGED <<onDisk, stored, page, reading, calls, bounds, unseen, closed, viewed>>

RereadMutant ==
    /\ pass.at = "opening" /\ pass.left = <<>>
    /\ pass' = NoPass
    /\ reading' = Invalidated(page)
    /\ UNCHANGED <<onDisk, registry, stored, page, calls, bounds, unseen, wanted, closed, viewed>>

Reread ==
    /\ pass.at = "opening" /\ pass.left = <<>>
    /\ pass' = [pass EXCEPT !.at = "listing"]
    /\ reading' = Invalidated(page)
    /\ UNCHANGED <<onDisk, registry, stored, page, calls, bounds, unseen, wanted, closed, viewed>>

\* What is open is what is remembered.  What the store names is on screen again,
\* over what was opened meanwhile.
EndPass ==
    /\ reading.at = "answered" /\ pass.at \in {"listing", "again"}
    /\ LET back == {q \in {stored.active} : q \in ToSet(reading.list)}
           named == back \cup {c.path : c \in Waiting}
       IN  \E q \in IF named = {} THEN {page.chosen} ELSE named :
             /\ page' = [list |-> reading.list, failed |-> FALSE, chosen |-> q,
                         ready |-> TRUE, restoredActive |-> TRUE, restoring |-> FALSE]
    /\ stored' = MirrorActive(page', [stored EXCEPT !.paths = reading.list])
    /\ viewed' = IF Waiting # {} THEN Active(page') ELSE Seen
    /\ pass' = NoPass
    /\ reading' = NoRead
    /\ calls' = calls \ Waiting
    /\ wanted' = wanted \cup ToSet(reading.list)
    /\ unseen' = FALSE
    /\ UNCHANGED <<onDisk, registry, bounds, closed>>

\* A read that fails is asked once more, as the query is still stale; failing
\* again leaves the pass where it is, for good.
RereadFails ==
    /\ reading.at = "asked"
    /\ \/ pass.at = "listing" /\ "failing" \in MayHappen /\ reading' = ListAsked
       \/ pass.at = "again" /\ "final" \in MayHappen /\ reading' = NoRead
    /\ pass' = [pass EXCEPT !.at = IF @ = "listing" THEN "again" ELSE "lost"]
    /\ page' = [page EXCEPT !.failed = TRUE]
    /\ UNCHANGED <<onDisk, registry, stored, calls, bounds, unseen, wanted, closed, viewed>>

-----------------------------------------------------------------------------
(* The user. *)

\* The header is drawn, with its tabs and its Add button.
HeaderDrawn == ~IsPending(page) /\ ~page.failed

\* The daemon restarted and this page does not know.
Unaware == unseen /\ "unseen" \notin MayHappen

Select(p) ==
    /\ HeaderDrawn /\ p \in ToSet(OpenTabs(page)) /\ p # Active(page) /\ ~Unaware
    /\ Render([page EXCEPT !.chosen = p], stored)
    /\ viewed' = p
    /\ UNCHANGED <<onDisk, registry, reading, calls, bounds, unseen, wanted, closed>>

\* A path of the scan, one typed, one to clone into or to make.
AskOpen(p) ==
    /\ HeaderDrawn /\ requests < MaxRequests /\ ~Unaware
    /\ Undisturbed
    /\ \A c \in calls : c.path # p /\ (c.what = "open" => "together" \in MayHappen)
    /\ calls' = calls \cup {[what |-> "open", path |-> p, at |-> "asked"]}
    /\ requests' = requests + 1
    /\ closed' = closed \ {p}
    /\ UNCHANGED <<onDisk, registry, stored, page, reading, pass, restarts, reloads,
                   unseen, wanted, viewed>>

AskClose(p) ==
    /\ HeaderDrawn /\ p \in ToSet(OpenTabs(page)) /\ requests < MaxRequests /\ ~Unaware
    /\ \A c \in calls : c.path # p
    /\ calls' = calls \cup {[what |-> "close", path |-> p, at |-> "asked"]}
    /\ requests' = requests + 1
    /\ UNCHANGED <<onDisk, registry, stored, page, reading, pass, restarts, reloads,
                   unseen, wanted, closed, viewed>>

Goes(c, at) == calls' = (calls \ {c}) \cup {[c EXCEPT !.at = at]}

\* A refused request leaves a message where it was asked.
DaemonServes(c) ==
    /\ c.at = "asked"
    /\ IF c.what = "open" /\ c.path \in onDisk
       THEN registry' = Opened(c.path) /\ Goes(c, "done")
       ELSE IF c.what = "close" /\ c.path \in ToSet(registry)
       THEN registry' = Without(registry, c.path) /\ Goes(c, "done")
       ELSE calls' = calls \ {c} /\ UNCHANGED registry
    /\ UNCHANGED <<onDisk, stored, page, reading, pass, bounds, unseen, wanted, closed, viewed>>

OpenAnswered(c) ==
    /\ c.what = "open" /\ c.at = "done"
    /\ reading' = Invalidated(page)
    /\ Goes(c, "listing")
    /\ UNCHANGED <<onDisk, registry, stored, page, pass, bounds, unseen, wanted, closed, viewed>>

ForgottenMutant(p) == stored

\* What was closed is forgotten in the store as well, by the path it has in the
\* list: one the list has lost already is left there.
Forgotten(p) ==
    IF p \notin ToSet(OpenTabs(page)) THEN stored
    ELSE [paths |-> Without(stored.paths, p),
          active |-> IF stored.active = p THEN None ELSE stored.active]

CloseAnswered(c) ==
    /\ c.what = "close" /\ c.at = "done"
    /\ Render([page EXCEPT !.list = IF @ = NoList THEN @ ELSE Without(@, c.path),
                           !.failed = (page.list = NoList /\ @),
                           !.chosen = IF @ = c.path THEN None ELSE @],
              Forgotten(c.path))
    /\ reading' = Invalidated(page)
    /\ calls' = calls \ {c}
    /\ wanted' = wanted \ {c.path}
    /\ closed' = closed \cup {c.path}
    /\ viewed' = IF viewed = c.path THEN Active(page') ELSE Seen
    /\ UNCHANGED <<onDisk, registry, bounds, unseen>>

Reload ==
    /\ reloads < MaxReloads
    /\ Undisturbed
    /\ reloads' = reloads + 1
    /\ page' = Fresh
    /\ reading' = ListAsked
    /\ pass' = NoPass
    /\ calls' = {}
    /\ wanted' = wanted \ {c.path : c \in {d \in calls : d.what = "close"}}
    /\ UNCHANGED <<onDisk, registry, stored, requests, restarts, unseen, closed, viewed>>

-----------------------------------------------------------------------------
(* The world. *)

\* What was asked and not answered is refused.
Restart ==
    /\ restarts < MaxRestarts
    /\ Undisturbed
    /\ (calls = {} /\ reading.at # "answered") \/ "unseen" \in MayHappen
    /\ restarts' = restarts + 1
    /\ registry' = <<>>
    /\ unseen' = TRUE
    /\ calls' = {c \in calls : c.at # "asked"}
    /\ UNCHANGED <<onDisk, stored, page, reading, pass, requests, reloads, wanted, closed, viewed>>

\* A directory is moved away, or put back.
Move(p) ==
    /\ onDisk' = IF p \in onDisk THEN onDisk \ {p} ELSE onDisk \cup {p}
    /\ p \in onDisk => onDisk = Roots
    /\ UNCHANGED <<registry, stored, page, reading, pass, calls, bounds, unseen, wanted, closed, viewed>>

Settling ==
    \/ DaemonLists \/ ListRead \/ Reopen \/ Reread \/ EndPass
    \/ \E c \in calls : DaemonServes(c) \/ OpenAnswered(c) \/ CloseAnswered(c)

TabsNext ==
    \/ Settling
    \/ Refetch \/ ListFailed \/ RereadFails
    \/ \E p \in Roots : Select(p) \/ AskOpen(p) \/ AskClose(p) \/ Move(p)
    \/ Reload \/ Restart

\* The daemon answers and the page handles what it hears.
TabsSpec == TabsInit /\ [][TabsNext]_tabsVars /\ WF_tabsVars(Settling)

-----------------------------------------------------------------------------
TabsTypeOK ==
    /\ onDisk \subseteq Roots
    /\ ToSet(registry) \subseteq Roots /\ IsInjective(registry)
    /\ ToSet(stored.paths) \subseteq Roots /\ stored.active \in Roots \cup {None}
    /\ page.list = NoList \/ ToSet(page.list) \subseteq Roots
    /\ page.chosen \in Roots \cup {None}
    /\ {page.failed, page.ready, page.restoredActive, page.restoring} \subseteq BOOLEAN
    /\ reading.at \in {"none", "asked", "answered"} /\ ToSet(reading.list) \subseteq Roots
    /\ pass.at \in {"none", "opening", "listing", "again", "lost"}
    /\ \A c \in calls : c.path \in Roots /\ c.at \in {"asked", "done", "listing"}
    /\ wanted \cup closed \subseteq Roots /\ viewed \in Roots \cup {None}

Closing == {c.path : c \in {d \in calls : d.what = "close"}}

\* What was on screen and was not closed is remembered, so that a reload of
\* the page or a restart of the daemon brings it back; what is reopened is
\* written at the end.
Remembered == page.restoring \/ wanted \ Closing \subseteq ToSet(stored.paths)

\* Once what was remembered is restored, the repository on screen is the one
\* the user last chose, whatever was reloaded, restarted or reread since.
StaysOnScreen ==
    (page.restoredActive /\ ~page.restoring /\ viewed \in ToSet(OpenTabs(page)) \ Closing)
        => Active(page) = viewed

\* The tabs of a repository that is open are kept, and the one on screen is.
TabsAreKept == TabsTypeOK /\ Remembered /\ StaysOnScreen

\* A page that starts reopening what it remembers ends doing so.
PassEnds == page.restoring ~> ~page.restoring

\* A repository the user closed is not opened again by the page itself.
ClosedStaysClosed ==
    [][Reopen => (ToSet(registry') \ ToSet(registry)) \cap closed = {}]_tabsVars
=============================================================================
