------------------------------- MODULE Dialogs -------------------------------
(***************************************************************************)
(* The dialogs of the workbench: web/src/app/dialogSlot.ts, the proposals  *)
(* of historyProposals.ts, the dialogs of HistoryDialogs.tsx, and the      *)
(* three other places that put a dialog up, UndoActions.tsx,               *)
(* RemoteActions.tsx and OperationBanner.tsx.                              *)
(*                                                                         *)
(* Most dialogs open on an answer: the daemon is asked what a command      *)
(* would do, the dialog shows the line, and the button runs it.  The plan  *)
(* and the run of a dialog are two requests.  A dialog is modal: the user  *)
(* acts upon the one drawn last, and upon the page when there is none.     *)
(*                                                                         *)
(* What a dialog asks for (a branch, a mode, a remote, what is typed) is a *)
(* member of Asks.  Of two requests asked by the same hook only the last   *)
(* one tells its dialog how it ended.                                      *)
(***************************************************************************)
EXTENDS Naturals, Sequences, SequencesExt, Page

CONSTANTS
    Asks,           \* what a dialog may ask for
    Blank,          \* a member of Asks: nothing typed
    Offered         \* the dialogs the user is given, among Kinds

VARIABLES
    shown,          \* for each place with dialogs, the one it has, or None
    drawn,          \* the places with a dialog, in the order drawn
    plans,          \* plans asked for, one at most for each hook
    runs,           \* commands under way, likewise
    gestures

vars == <<shown, drawn, plans, runs, gestures>>

-----------------------------------------------------------------------------
(* The dialogs.  "place" draws it.  "plan" and "run" are the hooks it asks. *)
(* "opens": at a "click", or on the "answer" of the plan.  "fields": what   *)
(* changing what it asks for does: nothing ("fixed"), nothing but change it *)
(* ("typed"), or ask for another plan ("again").  "waits": which of its     *)
(* requests disable its buttons.  "locks": Escape is refused while they do. *)
(* "ends": it closes when its run succeeds, or when it settles.             *)

Form(hook) ==
    [place |-> "slot", plan |-> None, run |-> hook, opens |-> "click", fields |-> "fixed",
     waits |-> {"run"}, locks |-> FALSE, ends |-> "success"]

Confirm(hook) ==
    [place |-> "slot", plan |-> hook, run |-> hook, opens |-> "answer", fields |-> "fixed",
     waits |-> {"run"}, locks |-> TRUE, ends |-> "settled"]

Continued(hook) ==
    [Form(hook) EXCEPT !.plan = hook, !.fields = "typed", !.waits = {"plan", "run"}]

CreateBranchDialog == Form("create")
RenameBranchDialog == Form("rename")
DeleteBranchDialog == Confirm("delete")
MergeBranchDialog == [Confirm("merge") EXCEPT !.fields = "again", !.waits = {"plan", "run"}]
RebaseBranchDialog == Confirm("rebase")
CherryPickDialog == Confirm("cherry-pick")
RevertDialog == Confirm("revert")
ResetDialog == [Confirm("reset") EXCEPT !.fields = "again", !.waits = {"plan", "run"}]
RebasePlanDialog == Confirm("rebase-plan")
SetUpstreamDialog == [Form("set-upstream") EXCEPT !.plan = "set-upstream", !.fields = "again"]
UnsetUpstreamDialog == [Confirm("unset-upstream") EXCEPT !.ends = "success"]
CreateTagDialog == Form("create-tag")
DeleteTagDialog == Confirm("delete-tag")
PushTagDialog ==
    [Form("push-tag") EXCEPT !.plan = "push-tag", !.fields = "again", !.ends = "settled"]
StashPushDialog ==
    [Confirm("stash-push") EXCEPT !.fields = "again", !.waits = {"plan", "run"}, !.locks = FALSE]
StashApplyDialog == [Confirm("stash-apply") EXCEPT !.fields = "again", !.waits = {"plan", "run"}]
StashDropDialog == Confirm("stash-drop")
AddWorktreeDialog == Continued("add-worktree")
RemoveWorktreeDialog ==
    [Confirm("remove-worktree") EXCEPT !.fields = "again", !.ends = "success"]
AddSubmoduleDialog == Continued("add-submodule")
RemoveSubmoduleDialog ==
    [Confirm("remove-submodule") EXCEPT !.fields = "again", !.ends = "success"]
TrackLFSDialog == Continued("lfs")
UntrackLFSDialog == [Confirm("lfs") EXCEPT !.ends = "success"]
SearchDialog == [Form(None) EXCEPT !.waits = {}]

UndoDialog == [Confirm("undo") EXCEPT !.place = "undo"]
OperationDialog == [Confirm("operation") EXCEPT !.place = "banner"]

PublishBranchDialog ==
    [Confirm("push") EXCEPT !.place = "publish", !.fields = "again", !.locks = FALSE,
                            !.ends = "success"]
ForcePushDialog == [Confirm("push") EXCEPT !.place = "force"]

\* The list of remotes, and the views it changes into, wait for one another.
RemoteList == [Form(None) EXCEPT !.place = "remotes", !.waits = {"manage"}]
AddRemoteDialog == [Form("add-remote") EXCEPT !.place = "remotes", !.waits = {"manage"}]
RenameRemoteDialog == [Form("rename-remote") EXCEPT !.place = "remotes", !.waits = {"manage"}]
SetRemoteURLDialog ==
    [Form("set-url") EXCEPT !.place = "remotes", !.plan = "set-url", !.fields = "again",
                            !.waits = {"manage"}]
RemoveRemoteDialog ==
    [Confirm("remove-remote") EXCEPT !.place = "remotes", !.waits = {"manage"}, !.ends = "success"]

BranchDialogs == [
    search |-> SearchDialog, create |-> CreateBranchDialog, rename |-> RenameBranchDialog,
    delete |-> DeleteBranchDialog, set_upstream |-> SetUpstreamDialog,
    unset_upstream |-> UnsetUpstreamDialog, merge |-> MergeBranchDialog,
    rebase |-> RebaseBranchDialog]

CommitDialogs == [
    rewrite |-> RebasePlanDialog, create_tag |-> CreateTagDialog, delete_tag |-> DeleteTagDialog,
    push_tag |-> PushTagDialog, pick |-> CherryPickDialog, revert |-> RevertDialog,
    reset |-> ResetDialog]

WorkTreeDialogs == [
    stash_push |-> StashPushDialog, stash_apply |-> StashApplyDialog,
    stash_drop |-> StashDropDialog, add_worktree |-> AddWorktreeDialog,
    remove_worktree |-> RemoveWorktreeDialog, add_submodule |-> AddSubmoduleDialog,
    remove_submodule |-> RemoveSubmoduleDialog, track |-> TrackLFSDialog,
    untrack |-> UntrackLFSDialog]

RemoteDialogs == [
    publish |-> PublishBranchDialog, force |-> ForcePushDialog, remotes |-> RemoteList,
    add_remote |-> AddRemoteDialog, rename_remote |-> RenameRemoteDialog,
    set_url |-> SetRemoteURLDialog, remove_remote |-> RemoveRemoteDialog]

BesideDialogs == [undo |-> UndoDialog, operation |-> OperationDialog]

And(f, g) == [k \in DOMAIN f \cup DOMAIN g |-> IF k \in DOMAIN f THEN f[k] ELSE g[k]]

Dialog ==
    And(BranchDialogs, And(CommitDialogs, And(WorkTreeDialogs, And(RemoteDialogs, BesideDialogs))))

Kinds == DOMAIN Dialog
Places == {Dialog[k].place : k \in Kinds}
Hooks == ({Dialog[k].plan : k \in Kinds} \cup {Dialog[k].run : k \in Kinds}) \ {None}
Manage == {"add-remote", "rename-remote", "set-url", "remove-remote"}

Views == {k \in Kinds : Dialog[k].place = "remotes"}

\* A dialog is there or is not: a box is no None.
ASSUME DialogsAssumption ==
    /\ Offered \subseteq Kinds /\ None \notin Kinds
    /\ Blank \in Asks
    /\ \A k \in Kinds, a \in Asks, p \in Asks \cup {None} : [kind |-> k, ask |-> a, plan |-> p] # None

PlaceOf(k) == Dialog[k].place
Box(k, ask, plan) == [kind |-> k, ask |-> ask, plan |-> plan]

Init ==
    /\ shown = [p \in Places |-> None]
    /\ drawn = <<>>
    /\ plans = {}
    /\ runs = {}
    /\ gestures = 0

-----------------------------------------------------------------------------
(* Drawing. *)

KindAt(boxes, p) == IF boxes[p] = None THEN None ELSE boxes[p].kind

\* A place that has another dialog than it had takes the old one down and puts
\* the new one up, over all there is.
Draw(p, box) ==
    /\ shown' = [shown EXCEPT ![p] = box]
    /\ drawn' = IF KindAt(shown, p) = KindAt(shown', p) THEN drawn
                ELSE IF box = None THEN Without(drawn, p)
                ELSE Append(Without(drawn, p), p)

OnPage == drawn = <<>>
Top == Last(drawn)
Facing == shown[Top]

Pending(table, hook) == \E r \in table : r.hook = hook

\* A request of a hook, which no longer hears of the one before.
With(table, r) == {q \in table : q.hook # r.hook} \cup {r}

\* The buttons of a dialog are disabled.
Busy(k) ==
    \/ "plan" \in Dialog[k].waits /\ Pending(plans, Dialog[k].plan)
    \/ "run" \in Dialog[k].waits /\ Pending(runs, Dialog[k].run)
    \/ "manage" \in Dialog[k].waits
       /\ (Pending(plans, "remove-remote") \/ \E h \in Manage : Pending(runs, h))

-----------------------------------------------------------------------------
(* The slot. *)

\* Whoever opens or claims the slot revokes the claims of the others: they open
\* nothing.  What is typed in the upstream and URL dialogs counts for itself,
\* and the other places count nothing.
Revoked == {IF r.claims THEN [r EXCEPT !.opens = FALSE] ELSE r : r \in plans}

\* Asked for kind k, over the dialog box.
Request(k, ask, box) ==
    [hook |-> Dialog[k].plan, kind |-> k, ask |-> ask, over |-> box, opens |-> TRUE,
     claims |-> PlaceOf(k) = "slot" /\ k # "set_upstream"]

Gesture == gestures < MaxGestures /\ gestures' = gestures + 1

Freed(k) == IF PlaceOf(k) = "slot" THEN Revoked ELSE plans

\* open: now, and what was claimed is revoked.
Open(k, box) == Draw(PlaceOf(k), box) /\ plans' = Freed(k)

\* propose: claimed before the request goes out, drawn when it is answered.
Propose(k, ask) ==
    /\ plans' = With(Freed(k), Request(k, ask, shown[PlaceOf(k)]))
    /\ UNCHANGED <<shown, drawn>>

ReplanMutant(k, ask) ==
    /\ Draw(PlaceOf(k), Box(k, ask, IF OnPage THEN None ELSE Facing.plan))
    /\ plans' = IF ask # Blank THEN With(Freed(k), Request(k, ask, Box(k, ask, None))) ELSE Freed(k)

\* Drawn now without its plan, which is asked for at once.
Replan(k, ask) ==
    /\ Draw(PlaceOf(k), Box(k, ask, None))
    /\ plans' = IF ask # Blank THEN With(Freed(k), Request(k, ask, Box(k, ask, None)))
                ELSE {IF r.kind = k THEN [r EXCEPT !.opens = FALSE] ELSE r : r \in Freed(k)}

-----------------------------------------------------------------------------
(* Gestures upon the page. *)

\* A form is opened.
Click(k) ==
    /\ OnPage /\ Gesture
    /\ Dialog[k].opens = "click" /\ Dialog[k].fields # "again"
    /\ k \notin {"rename_remote"}
    /\ Open(k, Box(k, IF Dialog[k].fields = "typed" THEN Blank ELSE CHOOSE a \in Asks : TRUE, None))
    /\ UNCHANGED runs

\* A command is asked about.
Consult(k, ask) ==
    /\ OnPage /\ Gesture
    /\ Dialog[k].opens = "answer" /\ PlaceOf(k) = "slot" /\ ask # Blank
    /\ Propose(k, ask)
    /\ UNCHANGED runs

\* Outside the slot.  Undo and the banner do not take a second click.
ConsultBeside(k, ask) ==
    /\ OnPage /\ Gesture
    /\ Dialog[k].opens = "answer" /\ PlaceOf(k) \notin {"slot", "remotes"} /\ ask # Blank
    /\ k \in {"undo", "operation"} =>
          ~Pending(plans, Dialog[k].plan) /\ ~Pending(runs, Dialog[k].run)
    /\ Propose(k, ask)
    /\ UNCHANGED runs

\* The upstream of a branch, on what it follows now if anything.
ConsultUpstream(ask) ==
    /\ OnPage /\ Gesture
    /\ Replan("set_upstream", ask)
    /\ UNCHANGED runs

ConsultTag(ask) ==
    /\ OnPage /\ Gesture /\ ask # Blank
    /\ Replan("push_tag", ask)
    /\ UNCHANGED runs

\* Continuing what is in progress is not asked about.
CarryOn ==
    /\ OnPage /\ Gesture
    /\ ~Pending(plans, "operation") /\ ~Pending(runs, "operation")
    /\ \E a \in Asks \ {Blank} :
          runs' = With(runs, [hook |-> "operation", kind |-> "operation", ask |-> a, plan |-> None])
    /\ UNCHANGED <<shown, drawn, plans>>

-----------------------------------------------------------------------------
(* Gestures upon the dialog in front. *)

\* Cancel and Escape.  A view of the remotes goes back to the list.
Cancel ==
    /\ ~OnPage /\ Gesture
    /\ ~(Dialog[Facing.kind].locks /\ Busy(Facing.kind))
    /\ Open(Facing.kind,
            IF Top = "remotes" /\ Facing.kind # "remotes" THEN Box("remotes", Blank, None) ELSE None)
    /\ UNCHANGED runs

\* The fields of a form stay what they are over its plan.
Type(ask) ==
    /\ ~OnPage /\ Gesture
    /\ Dialog[Facing.kind].fields = "typed" /\ ask # Facing.ask
    /\ Draw(Top, [Facing EXCEPT !.ask = ask])
    /\ UNCHANGED <<plans, runs>>

\* A form asks what it would run.
Continue ==
    /\ ~OnPage /\ Gesture
    /\ Dialog[Facing.kind].fields = "typed" /\ Facing.plan = None
    /\ ~Busy(Facing.kind) /\ Facing.ask # Blank
    /\ Propose(Facing.kind, Facing.ask)
    /\ UNCHANGED runs

\* Another mode or remote, or --force.  Those that show a plan keep it until
\* the next one; those that are typed in do not.
Change(ask) ==
    /\ ~OnPage /\ Gesture
    /\ Dialog[Facing.kind].fields = "again" /\ ask # Facing.ask
    /\ ~Busy(Facing.kind) \/ Facing.kind = "set_url"
    /\ IF Dialog[Facing.kind].opens = "answer" /\ Facing.kind # "publish"
       THEN ask # Blank /\ Propose(Facing.kind, ask)
       ELSE (Facing.kind \in {"publish", "push_tag"} => ask # Blank) /\ Replan(Facing.kind, ask)
    /\ UNCHANGED runs

\* From the list of remotes to one of its views.
GoTo(k) ==
    /\ ~OnPage /\ Gesture
    /\ Facing.kind = "remotes" /\ k \in Views \ {"remotes"} /\ ~Busy("remotes")
    /\ IF k = "remove_remote"
       THEN \E ask \in Asks \ {Blank} : Propose(k, ask)
       ELSE Open(k, Box(k, Blank, None))
    /\ UNCHANGED runs

\* What the dialog shows is what it was planned for.
Ready(box) ==
    \/ Dialog[box.kind].plan = None
    \/ Dialog[box.kind].fields = "typed" /\ box.plan # None
    \/ Dialog[box.kind].fields = "fixed"
    \/ Dialog[box.kind].opens = "answer" /\ box.plan # None
    \/ box.kind = "push_tag" /\ box.plan # None
    \/ box.kind = "set_upstream" /\ box.plan = box.ask /\ ~Pending(plans, "set-upstream")
    \/ box.kind = "set_url" /\ box.plan # None /\ ~Pending(plans, "set-url")

\* What is sent: the fields of a form, and the plan of a confirmation; the steps
\* of a rewrite are on its dialog.
Sent(box) ==
    IF Dialog[box.kind].opens = "click" \/ box.kind = "publish" THEN box.ask ELSE box.plan

Press ==
    /\ ~OnPage /\ Gesture
    /\ Dialog[Facing.kind].run # None
    /\ ~Busy(Facing.kind) /\ Ready(Facing)
    /\ runs' = With(runs, [hook |-> Dialog[Facing.kind].run, kind |-> Facing.kind,
                           ask |-> Sent(Facing), plan |-> Facing.plan])
    /\ UNCHANGED <<shown, drawn, plans>>

-----------------------------------------------------------------------------
(* The daemon. *)

\* Where the answer finds the fields of a form, they are left alone.
Landed(request) ==
    LET box == shown[PlaceOf(request.kind)]
    IN  IF Dialog[request.kind].fields = "typed" /\ box # None /\ box.kind = request.kind
        THEN [box EXCEPT !.plan = request.ask]
        ELSE Box(request.kind, request.ask, request.ask)

\* A plan that failed, or that has nothing to confirm, opens nothing.
PlanFails(r) ==
    /\ plans' = plans \ {r}
    /\ UNCHANGED <<shown, drawn, runs, gestures>>

PlanAnswers(r) ==
    /\ IF r.opens THEN Draw(PlaceOf(r.kind), Landed(r)) ELSE UNCHANGED <<shown, drawn>>
    /\ plans' = IF r.opens /\ r.kind = "set_upstream" THEN Revoked \ {r} ELSE plans \ {r}
    /\ UNCHANGED <<runs, gestures>>

Settled(r, succeeded) ==
    /\ runs' = runs \ {r}
    /\ IF succeeded \/ Dialog[r.kind].ends = "settled"
       THEN Open(r.kind, IF PlaceOf(r.kind) = "remotes" THEN Box("remotes", Blank, None) ELSE None)
       ELSE UNCHANGED <<shown, drawn, plans>>
    /\ UNCHANGED gestures

Next ==
    \/ \E k \in Offered : Click(k) \/ GoTo(k)
                      \/ \E a \in Asks : Consult(k, a) \/ ConsultBeside(k, a)
    \/ "set_upstream" \in Offered /\ \E a \in Asks : ConsultUpstream(a)
    \/ "push_tag" \in Offered /\ \E a \in Asks : ConsultTag(a)
    \/ "operation" \in Offered /\ CarryOn
    \/ Cancel \/ Continue \/ Press
    \/ \E a \in Asks : Type(a) \/ Change(a)
    \/ \E r \in plans : PlanAnswers(r) \/ PlanFails(r)
    \/ \E r \in runs, ok \in BOOLEAN : Settled(r, ok)

Spec == Init /\ [][Next]_vars

-----------------------------------------------------------------------------
Boxes == [kind : Kinds, ask : Asks, plan : Asks \cup {None}] \cup {None}

TypeOK ==
    /\ DOMAIN shown = Places /\ \A p \in Places : shown[p] \in Boxes
    /\ \A r \in plans : r.kind \in Kinds /\ {r.opens, r.claims} \subseteq BOOLEAN
    /\ \A t \in {plans, runs} : \A q, r \in t : q.hook = r.hook => q = r
    /\ ToSet(drawn) = {p \in Places : shown[p] # None}
    /\ \A p \in Places : shown[p] # None => PlaceOf(shown[p].kind) = p

\* The same dialog, whatever was typed in its fields since.
Same(b, c) ==
    IF b = None \/ c = None THEN b = c ELSE b.kind = c.kind /\ b.plan = c.plan

LandsWhereAsked(r) ==
    r \notin plans' /\ shown' # shown => Same(shown[PlaceOf(r.kind)], r.over)

\* A plan that comes back opens its dialog only over what was there when it
\* was asked for, never over what the user has gone to since.  Here, of the
\* plans proposed to the slot; in the whole workbench, below.
ProposalsLandWhereAsked == [][\A r \in plans : PlanAnswers(r) /\ r.claims => LandsWhereAsked(r)]_vars
PlansLandWhereAsked == [][\A r \in plans : PlanAnswers(r) => LandsWhereAsked(r)]_vars

\* The command a dialog shows is the command that runs.  Here, of those that
\* ask for another plan when what they ask for changes; of all, below.
ShowsWhatItRuns(r) == r.plan # None => r.ask = r.plan
ReplannedRunWhatTheyShow ==
    \A r \in runs : Dialog[r.kind].fields = "again" => ShowsWhatItRuns(r)
AllRunWhatTheyShow == \A r \in runs : ShowsWhatItRuns(r)

\* A dialog that refuses Escape while its command runs stays until it has
\* ended: the user is never left to think that it was stopped.
LockedUntilDone ==
    \A r \in runs : r.plan # None /\ Dialog[r.kind].locks => KindAt(shown, PlaceOf(r.kind)) = r.kind

\* What was confirmed is not sent again while it runs, from that dialog or
\* from another one of the same command.
NothingRunsTwice == [][Press => ~Pending(runs, Dialog[Facing.kind].run)]_vars

\* A dialog that plans again when it is changed runs what it shows, a plan lands
\* where it was asked for, and what it proposes runs once.
DialogsRunWhatTheyShow ==
    [](TypeOK /\ ReplannedRunWhatTheyShow) /\ ProposalsLandWhereAsked /\ NothingRunsTwice
=============================================================================
