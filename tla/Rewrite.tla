------------------------------ MODULE Rewrite ------------------------------
(***************************************************************************)
(* The plan of an interactive rebase, from the dialog it is written in     *)
(* (RebasePlanDialog.tsx, interactiveRebase.ts, useInteractiveRebase.ts)   *)
(* to the daemon that checks it against the branch (api/interactive.go,    *)
(* git/interactive.go) and to git, that executes it line by line.          *)
(*                                                                         *)
(* A commit is what it holds, whose message it carries, and whether git    *)
(* has written it again, which is what gives it another hash.  Git is      *)
(* external: it is modelled as interactive.go relies on it, the            *)
(* fast-forward over the untouched bottom of a plan included.  A stopped   *)
(* plan is carried on or aborted; `git rebase --skip` is not modelled, nor *)
(* is a merge inside the range, which PlanRange refuses.                   *)
(***************************************************************************)
EXTENDS Page, Integers, FiniteSets, SequencesExt

\* Of what may happen, "between": the branch moves between the check of a plan
\* and git.
CONSTANTS
    Length,          \* the number of commits after the base
    MaxLandings      \* bound on the times somebody else moves the branch

ASSUME RewriteAssumption == Length \in Nat

VARIABLES
    history,         \* the commits of the branch after the base, oldest first
    dialog,          \* the plan on the screen: the commits it was given, and its rows
    request,         \* the run that is in flight, and how far the daemon has brought it
    git,             \* git's directory: the list, the lines done, and the commits made
    toast,           \* what the interface says the run came to; as history, whether
                     \* the daemon could not read what it was to answer with
    rewrites,        \* how often the plan on the screen was changed
    landed           \* how often somebody else moved the branch

rewriteVars == <<history, dialog, request, git, toast, rewrites, landed>>

Instructions == {"pick", "fixup", "fixup -C", "edit", "drop"}

Combines(instruction) == instruction \in {"fixup", "fixup -C"}

Commit(c) == [holds |-> {c}, says |-> c, again |-> FALSE]

NoDialog == [open |-> FALSE, commits |-> <<>>, steps |-> <<>>]
NoRequest == [phase |-> "none", steps |-> <<>>]
Idle == [phase |-> "idle", todo |-> <<>>, done |-> 0, made |-> <<>>, was |-> <<>>, stops |-> 0,
         amended |-> TRUE]
Silent == [tone |-> "none", step |-> 0, unread |-> FALSE]

RewriteInit ==
    /\ history = [i \in 1..Length |-> Commit(i)]
    /\ dialog = NoDialog /\ request = NoRequest /\ git = Idle /\ toast = Silent
    /\ rewrites = 0 /\ landed = 0

-----------------------------------------------------------------------------
(* The dialog. *)

\* Every commit kept, in the order the branch holds them.
InitialSteps(commits) == [i \in DOMAIN commits |-> [commit |-> commits[i], instruction |-> "pick"]]

Count(steps, chosen) == Cardinality({i \in DOMAIN steps : steps[i].instruction \in chosen})
Dropped(steps) == Count(steps, {"drop"})
Combined(steps) == Count(steps, {"fixup", "fixup -C"})
Stops(steps) == Count(steps, {"edit"})

MoveStep(steps, from, to) ==
    IF from \notin DOMAIN steps \/ to \notin DOMAIN steps \/ from = to THEN steps
    ELSE InsertAt(RemoveAt(steps, from), to, steps[from])

\* The rows git fast-forwards over: those before the first that is not the
\* commit that is already there, kept.
Untouched(steps, commits) ==
    Cardinality({i \in DOMAIN steps : \A j \in 1..i :
        j \in DOMAIN commits /\ steps[j] = [commit |-> commits[j], instruction |-> "pick"]})

\* The first row the plan keeps has nothing above it to combine into.
FirstKeptCombines(steps) ==
    \E i \in DOMAIN steps :
        Combines(steps[i].instruction) /\ \A j \in 1..(i - 1) : steps[j].instruction = "drop"

PlanRefused(steps, commits) ==
    steps = <<>> \/ FirstKeptCombines(steps) \/ Untouched(steps, commits) = Len(steps)

\* What the description says of the plan.
Summary(steps, commits) ==
    [surviving |-> Len(steps) - Dropped(steps) - Combined(steps), dropped |-> Dropped(steps),
     combined |-> Combined(steps), stops |-> Stops(steps), untouched |-> Untouched(steps, commits)]

\* The dialog opens over the range the daemon answered with, unless it is
\* empty.
Plan ==
    /\ ~dialog.open /\ request.phase = "none" /\ git.phase = "idle" /\ toast = Silent
    /\ history # <<>>
    /\ dialog' = [open |-> TRUE, commits |-> history, steps |-> InitialSteps(history)]
    /\ UNCHANGED <<history, request, git, toast, rewrites, landed>>

Writing == dialog.open /\ request.phase = "none" /\ rewrites < MaxGestures

\* A row is moved; at the ends of the list the button refuses.
Move(at, by) ==
    /\ Writing /\ at + by \in DOMAIN dialog.steps
    /\ dialog' = [dialog EXCEPT !.steps = MoveStep(@, at, at + by)]
    /\ rewrites' = rewrites + 1
    /\ UNCHANGED <<history, request, git, toast, landed>>

\* Another instruction is chosen for a row.
WithInstruction(at, instruction) ==
    /\ Writing /\ dialog.steps[at].instruction # instruction
    /\ dialog' = [dialog EXCEPT !.steps[at].instruction = instruction]
    /\ rewrites' = rewrites + 1
    /\ UNCHANGED <<history, request, git, toast, landed>>

Confirm ==
    /\ dialog.open /\ request.phase = "none" /\ ~PlanRefused(dialog.steps, dialog.commits)
    /\ request' = [phase |-> "sent", steps |-> dialog.steps]
    /\ UNCHANGED <<history, dialog, git, toast, rewrites, landed>>

Cancel ==
    /\ dialog.open /\ request.phase = "none"
    /\ dialog' = NoDialog
    /\ UNCHANGED <<history, request, git, toast, rewrites, landed>>

-----------------------------------------------------------------------------
(* The daemon. *)

\* Every commit of the range once and nothing else, and nothing that git would
\* stop halfway through.
CheckPlan(steps, range) ==
    /\ steps # <<>>
    /\ Len(steps) = Len(range) /\ {step.commit : step \in ToSet(steps)} = ToSet(range)
    /\ ~FirstKeptCombines(steps)

\* The answer, with the dialog closed by it.
Answered(answer) ==
    /\ request' = NoRequest /\ dialog' = NoDialog /\ toast' = answer

\* The range is read again, and the plan compared with it.
Handle ==
    /\ request.phase = "sent"
    /\ IF history # <<>> /\ CheckPlan(request.steps, history)
       THEN request' = [request EXCEPT !.phase = "checked"] /\ UNCHANGED <<dialog, toast>>
       ELSE Answered([Silent EXCEPT !.tone = "refused"])
    /\ UNCHANGED <<history, git, rewrites, landed>>

\* The list cannot be written, or git starts over nothing: work that is not
\* committed, or an operation that is under way.
RebaseRefused ==
    /\ request.phase = "checked"
    /\ Answered([Silent EXCEPT !.tone = "failed"])
    /\ UNCHANGED <<history, git, rewrites, landed>>

\* Git starts over the list as it is written, whatever the branch has become.
RebaseInteractive ==
    /\ request.phase = "checked"
    /\ request' = [request EXCEPT !.phase = "running"]
    /\ git' = [Idle EXCEPT !.phase = "running", !.todo = request.steps, !.was = history]
    /\ UNCHANGED <<history, dialog, toast, rewrites, landed>>

PlanOutcomeMutant(refs, state) ==  \* what the exit code says
    [tone |-> IF git.phase = "conflict" \/ ~refs THEN "failed" ELSE "rewrote",
     step |-> 0,
     unread |-> git.phase # "conflict" /\ ~(refs /\ state)]

\* A failure of git, or of the reading of the references, is told as one.
\* Whether git stopped is read from its directory and not from the exit code,
\* that is zero for a stop at an `edit`; unreadable, it passes for no stop.
PlanOutcome(refs, state) ==
    LET stopped == git.phase = "stopped" /\ state
    IN  [tone |-> CASE git.phase = "conflict" \/ ~refs -> "failed"
                    [] refs /\ stopped -> "stopped"
                    [] OTHER -> "rewrote",
         step |-> IF refs /\ stopped THEN git.done ELSE 0,
         unread |-> git.phase # "conflict" /\ ~(refs /\ state)]

\* Git has exited; the references are read, then where it stopped.
AnswerWithPlanOutcome ==
    /\ request.phase = "running" /\ git.phase # "running"
    /\ \E refs, state \in BOOLEAN : Answered(PlanOutcome(refs, state))
    /\ UNCHANGED <<history, git, rewrites, landed>>

-----------------------------------------------------------------------------
(* Git. *)

\* The commit is already where the plan wants it.
FastForwards(c) == git.made = SubSeq(git.was, 1, Len(git.made)) /\ Len(git.made) < Len(git.was)
                   /\ git.was[Len(git.made) + 1] = c

Amended(made, step) ==
    LET above == Last(made)
    IN  Append(Front(made),
               [holds |-> above.holds \union step.commit.holds, again |-> TRUE,
                says |-> IF step.instruction = "fixup -C" THEN step.commit.says ELSE above.says])

Applied(step) ==
    CASE step.instruction = "drop" -> git.made
      [] Combines(step.instruction) -> Amended(git.made, step)
      [] OTHER -> Append(git.made, [step.commit EXCEPT !.again = @ \/ ~FastForwards(step.commit)])

\* One line.  A commit that is written again can conflict with what is below
\* it, the base included; an `edit` stops.
Line ==
    /\ git.phase = "running" /\ git.done < Len(git.todo)
    /\ LET step == git.todo[git.done + 1]
           stops == step.instruction = "edit"
       IN  \E conflict \in (IF step.instruction # "drop" /\ ~FastForwards(step.commit)
                            THEN BOOLEAN ELSE {FALSE}) :
               git' = [git EXCEPT !.done = @ + 1, !.made = Applied(step),
                          !.stops = IF stops THEN @ + 1 ELSE @,
                          !.phase = IF conflict THEN "conflict" ELSE IF stops THEN "stopped" ELSE @]
    /\ UNCHANGED <<history, dialog, request, toast, rewrites, landed>>

\* The last line is done, and the branch moves to what was made.
Finish ==
    /\ git.phase = "running" /\ git.done = Len(git.todo)
    /\ git' = [git EXCEPT !.phase = "done"]
    /\ history' = git.made
    /\ UNCHANGED <<dialog, request, toast, rewrites, landed>>

\* The user, from the banner or a terminal, amends the commit or does not, and
\* carries on.
Continue(amends) ==
    /\ git.phase \in {"stopped", "conflict"} /\ request.phase = "none"
    /\ git' = [git EXCEPT !.phase = "running", !.amended = @ /\ (amends \/ git.phase = "conflict"),
                   !.made = IF amends /\ git.phase = "stopped"
                            THEN Append(Front(@), [Last(@) EXCEPT !.again = TRUE]) ELSE @]
    /\ UNCHANGED <<history, dialog, request, toast, rewrites, landed>>

Abort ==
    /\ git.phase \in {"stopped", "conflict"} /\ request.phase = "none"
    /\ git' = Idle /\ history' = git.was
    /\ UNCHANGED <<dialog, request, toast, rewrites, landed>>

\* Somebody else moves the branch: a commit lands on it, or its last one is
\* taken off.
MovesElsewhere ==
    /\ landed < MaxLandings /\ git.phase = "idle" /\ toast = Silent
    /\ request.phase = "checked" => "between" \in MayHappen
    /\ history' \in {Append(history, Commit(Length + landed + 1))}
                    \union (IF history = <<>> THEN {} ELSE {Front(history)})
    /\ landed' = landed + 1
    /\ UNCHANGED <<dialog, request, git, toast, rewrites>>

RewriteNext ==
    \/ Plan \/ Confirm \/ Cancel
    \/ \E at \in DOMAIN dialog.steps :
           \/ \E by \in {-1, 1} : Move(at, by)
           \/ \E instruction \in Instructions : WithInstruction(at, instruction)
    \/ Handle \/ RebaseRefused \/ RebaseInteractive \/ AnswerWithPlanOutcome
    \/ Line \/ Finish \/ Abort
    \/ \E amends \in BOOLEAN : Continue(amends)
    \/ MovesElsewhere

RewriteSpec == RewriteInit /\ [][RewriteNext]_rewriteVars

-----------------------------------------------------------------------------
(* What must hold. *)

RewriteTypeOK ==
    /\ \A commits \in {history, dialog.commits, git.made, git.was} :
           \A i \in DOMAIN commits : commits[i].says \in commits[i].holds
    /\ request.phase \in {"none", "sent", "checked", "running"}
    /\ git.phase \in {"idle", "running", "stopped", "conflict", "done"}
    /\ git.done \in 0..Len(git.todo)
    /\ toast.tone \in {"none", "refused", "failed", "stopped", "rewrote"}

\* The dialog has said what git then does: how many commits survive, how often
\* git stops, and that the rows below the first it changed keep their hashes and
\* in a plan without a drop no commit above them does, once each stop was used
\* to amend (interactiveRebase.ts, planSummary and firstRewritten).  The row
\* that commits are combined into is left out: see CountedHashesAreKept.
PlanTellsTheOutcome ==
    git.phase = "done" =>
        LET told == Summary(git.todo, git.was)
            above == SubSeq(git.todo, told.untouched + 1, Len(git.todo))
        IN  /\ Len(git.made) = told.surviving
            /\ git.stops = told.stops
            /\ \A i \in 1..told.untouched :
                   git.made[i] = git.was[i] \/ (i = told.untouched /\ FirstKeptCombines(above))
            /\ git.amended /\ told.dropped = 0 =>
                   \A i \in (told.untouched + 1)..Len(git.made) : git.made[i].again

\* "git fast-forwards over the bottom of a plan ... and those commits keep their
\* hashes" (interactiveRebase.ts:142-144): every commit the summary counts among
\* those that keep theirs does.
CountedHashesAreKept ==
    git.phase = "done" =>
        \A i \in 1..Summary(git.todo, git.was).untouched : git.made[i] = git.was[i]

\* Only a row that says so takes the changes of a commit off the branch
\* (git/interactive.go, ErrPlanNotTheRange).
OnlyDropsTakeAway ==
    git.phase = "done" =>
        UNION {commit.holds : commit \in ToSet(git.made)}
            = (UNION {commit.holds : commit \in ToSet(git.was)})
              \ (UNION {step.commit.holds :
                            step \in {step \in ToSet(git.todo) : step.instruction = "drop"}})

\* Git is never handed a list it would stop in without having asked for it: a
\* row to combine has one above it (ErrCombineWithoutTarget).
CombinesHaveATarget ==
    git.phase = "running" /\ git.done < Len(git.todo)
        /\ Combines(git.todo[git.done + 1].instruction) => git.made # <<>>

\* The daemon refuses a plan of the dialog only when the branch has moved since
\* it opened; a plan is told as failed only when git stands in a conflict or has
\* done nothing, as stopped where git stands, as run when git is done: but for an
\* answer the daemon could not read, when a plan that ran can be told as failed
\* and one that stopped at an `edit` as run, never one that stands in a conflict
\* (api/interactive.go, answerWithPlanOutcome).
AnswersAreTrue ==
    [][toast' # toast =>
          /\ toast'.tone = "refused" => landed > 0 /\ git.phase = "idle"
          /\ toast'.tone = "failed" => git.phase \in {"idle", "conflict"} \/ toast'.unread
          /\ toast'.tone = "stopped" => git.phase = "stopped" /\ git.done = toast'.step
          /\ toast'.tone = "rewrote" => git.phase = "done" \/ (git.phase = "stopped" /\ toast'.unread)
      ]_rewriteVars

\* What is said of a plan and what is done with it.
PlansAreKept == RewriteTypeOK /\ PlanTellsTheOutcome /\ OnlyDropsTakeAway /\ CombinesHaveATarget

\* A plan does to the branch what the dialog said of it, and only that.
RewritesAreTold == []PlansAreKept /\ AnswersAreTrue
=============================================================================
