------------------------------- MODULE Adding -------------------------------
(***************************************************************************)
(* The dialog that adds a repository, in its three ways: one of those a    *)
(* scan of the disk finds, or a path typed by hand, is opened; a remote is *)
(* cloned; an empty repository is created.  The last two show the command  *)
(* the daemon plans and run it once it is confirmed.  A panel forgets      *)
(* everything when it leaves the screen, and what it asked goes on.        *)
(* app/AddRepository.tsx, OpenRepository.tsx, discover.ts,                 *)
(* CloneRepository.tsx and InitRepository.tsx.                             *)
(***************************************************************************)
EXTENDS Integers, FiniteSets, FiniteSetsExt, Sequences

CONSTANTS
    Places,         \* what can be opened, cloned from or created
    Default,        \* the depth the daemon chooses
    DefaultBranch,  \* the first branch it chooses: init.defaultBranch
    DepthLimit,     \* the ceiling on the depth of a scan, the daemon's
    Depths,         \* what is typed as a depth
    MaxGestures,    \* bound on what the user does
    MayHappen,      \* "typing" while the plan is read, two opens "together"
    Blank,          \* a box that is empty
    None

VARIABLES
    mode,           \* the panel on the screen, or None: the dialog is closed
    \* OpenRepository
    typedDepth,     \* None before anything is typed, Blank once it is emptied
    depthLimit,     \* the ceiling the last scan told, or None
    scanned,        \* the key and the depth of the scan that has answered, or None
    variables,      \* the last open asked for, and whether it failed
    \* CloneRepository and InitRepository
    form,           \* their fields
    asking,         \* what the plan is being read for, or None
    plan,           \* what the command on the screen does, or None
    runFailed,      \* the run of that plan has failed
    \* In flight, whoever is still there to hear it.
    requests,
    active,         \* the repository on the screen
    ran,            \* history: what was confirmed, and what was run
    gestures

panel == <<typedDepth, depthLimit, scanned, variables, form, asking, plan, runFailed>>
vars == <<mode, panel, requests, active, ran, gestures>>

Modes == {"open", "clone", "init"}
Fields == [source |-> Blank, path |-> Blank, touched |-> FALSE]
NoOpen == [path |-> None, from |-> None, failed |-> FALSE]

\* Of a panel that has just been drawn.
Fresh ==
    /\ typedDepth' = None /\ depthLimit' = None /\ scanned' = None /\ variables' = NoOpen
    /\ form' = Fields /\ asking' = None /\ plan' = None /\ runFailed' = FALSE

Init ==
    /\ mode = None
    /\ typedDepth = None /\ depthLimit = None /\ scanned = None /\ variables = NoOpen
    /\ form = Fields /\ asking = None /\ plan = None /\ runFailed = FALSE
    /\ requests = {} /\ active = None /\ ran = {} /\ gestures = 0

Gesture == gestures < MaxGestures /\ gestures' = gestures + 1

-----------------------------------------------------------------------------
(* The dialog.  What is in flight is no longer heard by a panel that goes. *)

Orphaned == {[q EXCEPT !.mounted = FALSE] : q \in requests}

Show(way) ==
    /\ Gesture
    /\ way # mode
    /\ mode' = way
    /\ Fresh
    /\ requests' = Orphaned
    /\ UNCHANGED <<active, ran>>

-----------------------------------------------------------------------------
(* The scan.                                                               *)

BoundedMutant(depth) == Max({1, depth})

\* boundedScanDepth.
Bounded(depth) ==
    IF depthLimit = None THEN Max({1, depth}) ELSE Min({Max({1, depth}), depthLimit})

\* The depth asked for, which is the key of the scan: None leaves it to the
\* daemon.
RequestedDepth == IF typedDepth \in {None, Blank} THEN None ELSE Bounded(typedDepth)

\* What the daemon does with it.
DepthUsed(asked) == IF asked = None THEN Default ELSE Min({asked, DepthLimit})

Answered == scanned # None /\ scanned.key = RequestedDepth

\* What the box shows.
ScanDepth ==
    CASE typedDepth = None -> IF Answered THEN scanned.depth ELSE Blank
      [] typedDepth = Blank -> Blank
      [] OTHER -> Bounded(typedDepth)

TypeDepth(depth) ==
    /\ Gesture
    /\ mode = "open"
    /\ typedDepth' = depth
    /\ UNCHANGED <<mode, depthLimit, scanned, variables, form, asking, plan, runFailed, requests,
                   active, ran>>

ScanAnswers ==
    /\ mode = "open" /\ ~Answered
    /\ scanned' = [key |-> RequestedDepth, depth |-> DepthUsed(RequestedDepth)]
    /\ depthLimit' = DepthLimit
    /\ UNCHANGED <<mode, typedDepth, variables, form, asking, plan, runFailed, requests, active, ran,
                   gestures>>

-----------------------------------------------------------------------------
(* Opening.                                                                *)

Opening == {q \in requests : q.what = "open" /\ q.mounted}

\* The control that asked is the one that shows it, by the way in.
IsOpening(path, from) ==
    variables.path = path /\ variables.from = from /\ \E q \in Opening : q.path = path /\ q.from = from

\* failurePlacement: the control that shows the failure.
Placement == IF variables.failed THEN <<variables.from, variables.path>> ELSE None

Open(path, from) ==
    /\ Gesture
    /\ mode = "open"
    /\ from = "list" => Answered /\ ~IsOpening(path, "list")
    /\ from = "form" => Opening = {}
    /\ "together" \notin MayHappen => Opening = {}
    /\ requests' = requests \cup {[what |-> "open", path |-> path, from |-> from, mounted |-> TRUE]}
    /\ variables' = [path |-> path, from |-> from, failed |-> FALSE]
    /\ UNCHANGED <<mode, typedDepth, depthLimit, scanned, form, asking, plan, runFailed, active, ran>>

\* The observer of the panel has left the requests but the last.
Heard(q) == q.mounted /\ variables.path = q.path /\ variables.from = q.from

\* What is opened goes on the screen, and whatever dialog is there closes.
Delivered(q) ==
    /\ active' = q.path
    /\ mode' = None
    /\ Fresh
    /\ requests' = {[r EXCEPT !.mounted = FALSE] : r \in requests \ {q}}

OpenEnds(q, opened) ==
    /\ q \in requests /\ q.what = "open"
    /\ \/ opened /\ Delivered(q)
       \/ /\ ~opened
          /\ variables' = IF Heard(q) THEN [variables EXCEPT !.failed = TRUE] ELSE variables
          /\ requests' = requests \ {q}
          /\ UNCHANGED <<mode, typedDepth, depthLimit, scanned, form, asking, plan, runFailed, active>>
    /\ UNCHANGED <<ran, gestures>>

-----------------------------------------------------------------------------
(* Cloning and creating.                                                   *)

Editable ==
    /\ mode \in {"clone", "init"} /\ plan = None
    /\ "typing" \notin MayHappen => asking = None

\* The URL, which suggests a destination until one is typed, or the branch.
TypeSource(source) ==
    /\ Gesture
    /\ Editable
    /\ form' = IF mode = "clone" /\ ~form.touched
               THEN [form EXCEPT !.source = source, !.path = source]
               ELSE [form EXCEPT !.source = source]
    /\ UNCHANGED <<mode, typedDepth, depthLimit, scanned, variables, asking, plan, runFailed, requests,
                   active, ran>>

TypePath(path) ==
    /\ Gesture
    /\ Editable
    /\ form' = [form EXCEPT !.path = path, !.touched = TRUE]
    /\ UNCHANGED <<mode, typedDepth, depthLimit, scanned, variables, asking, plan, runFailed, requests,
                   active, ran>>

Target == [source |-> form.source, path |-> form.path]

\* submit.
AskPlan ==
    /\ Gesture
    /\ mode \in {"clone", "init"} /\ plan = None /\ asking = None
    /\ form.path # Blank /\ (mode = "clone" => form.source # Blank)
    /\ asking' = Target
    /\ UNCHANGED <<mode, typedDepth, depthLimit, scanned, variables, form, plan, runFailed, requests,
                   active, ran>>

\* The daemon settles the branch of a new repository, and the field takes it.
Settled(target) ==
    IF mode = "init" /\ target.source = Blank THEN [target EXCEPT !.source = DefaultBranch] ELSE target

PlanAnswers(read) ==
    /\ asking # None
    /\ asking' = None
    /\ IF read
       THEN /\ plan' = Settled(asking)
            /\ form' = IF mode = "init" THEN [form EXCEPT !.source = Settled(asking).source] ELSE form
            /\ runFailed' = FALSE
       ELSE UNCHANGED <<plan, form, runFailed>>
    /\ UNCHANGED <<mode, typedDepth, depthLimit, scanned, variables, requests, active, ran, gestures>>

Running == \E q \in requests : q.what # "open" /\ q.mounted

Back ==
    /\ Gesture
    /\ plan # None /\ ~Running
    /\ plan' = None /\ runFailed' = FALSE
    /\ UNCHANGED <<mode, typedDepth, depthLimit, scanned, variables, form, asking, requests, active,
                   ran>>

\* A creation runs the plan that was approved, a clone what the fields hold.
ToRun == IF mode = "init" THEN plan ELSE Target

Confirm ==
    /\ Gesture
    /\ plan # None /\ ~Running
    /\ requests' = requests \cup
         {[what |-> mode, path |-> ToRun.path, from |-> "form", mounted |-> TRUE]}
    /\ ran' = ran \cup {[by |-> mode, shown |-> plan, run |-> ToRun]}
    /\ runFailed' = FALSE
    /\ UNCHANGED <<mode, typedDepth, depthLimit, scanned, variables, form, asking, plan, active>>

RunEnds(q, made) ==
    /\ q \in requests /\ q.what # "open"
    /\ \/ made /\ Delivered(q)
       \/ /\ ~made
          /\ requests' = requests \ {q}
          /\ runFailed' = (runFailed \/ q.mounted)
          /\ UNCHANGED <<mode, typedDepth, depthLimit, scanned, variables, form, asking, plan, active>>
    /\ UNCHANGED <<ran, gestures>>

-----------------------------------------------------------------------------

Next ==
    \/ \E way \in Modes \cup {None} : Show(way)
    \/ \E depth \in Depths \cup {Blank} : TypeDepth(depth)
    \/ ScanAnswers
    \/ \E path \in Places, from \in {"list", "form"} : Open(path, from)
    \/ \E q \in requests, opened \in BOOLEAN : OpenEnds(q, opened)
    \/ \E source \in Places : TypeSource(source)
    \/ \E path \in Places : TypePath(path)
    \/ AskPlan
    \/ \E read \in BOOLEAN : PlanAnswers(read)
    \/ Back
    \/ Confirm
    \/ \E q \in requests, made \in BOOLEAN : RunEnds(q, made)

Spec == Init /\ [][Next]_vars

-----------------------------------------------------------------------------

TypeOK ==
    /\ mode \in Modes \cup {None}
    /\ typedDepth \in Depths \cup {Blank, None}
    /\ depthLimit \in {DepthLimit, None}
    /\ form.source \in Places \cup {Blank, DefaultBranch} /\ form.path \in Places \cup {Blank}
    /\ plan = None \/ plan.path \in Places
    /\ mode # "open" => scanned = None /\ variables = NoOpen
    /\ mode = "open" => asking = None /\ plan = None

\* The depth in the box is that of the scan that is drawn beside it, unless
\* the box was emptied (boundedScanDepth: "a field disagreeing with the scan
\* beside it is the interface lying about what it has just done").
BoxTellsTheScan ==
    mode = "open" /\ Answered /\ typedDepth # Blank => ScanDepth = scanned.depth

\* A repository is created where, and on the branch, that the command on the
\* screen said, whatever was typed while it was read.
CreatesWhatItShows == \A r \in ran : r.by = "init" => r.run = r.shown

\* "The confirmation's content is the exact command" (CloneRepository).
\* False: the fields can be changed until the command comes.
ClonesWhatItShows == \A r \in ran : r.by = "clone" => r.run = r.shown

\* A failure to open is shown by the control that asked, and by no other
\* (failurePlacement: "Exactly one place, always the one that was used").
FailuresAreShownWhereAsked ==
    [][\A q \in Opening :
          q \notin requests' /\ mode' = mode => Placement' = <<q.from, q.path>>]_vars

\* A destination typed by hand is not replaced by a suggestion.
TypedPathIsKept ==
    [][form.touched /\ form'.touched /\ form'.path # form.path => form'.source = form.source]_vars
=============================================================================
