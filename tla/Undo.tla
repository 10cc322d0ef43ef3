--------------------------------- MODULE Undo ---------------------------------
(***************************************************************************)
(* Undo: internal/git/undo.go, which reads what the last action was and    *)
(* reverses it, internal/api/undo.go, which plans and then runs it, and    *)
(* the deleted branches of internal/api/deleted.go and branch.go, which    *)
(* the reflog knows nothing of.                                            *)
(*                                                                         *)
(* Each git command is one step; git in a terminal, and the other handler, *)
(* run between any two.  A commit is a number, given in the order commits  *)
(* are made; a local branch holds one, or 0 when there is no such branch.  *)
(* The reflog keeps its two newest entries, which are all undo looks at;   *)
(* an amended commit is a commit of its own.  The work tree, the checks on *)
(* the spelling of names and the gate that refuses a repository in the     *)
(* middle of a merge are left out.                                         *)
(***************************************************************************)
EXTENDS Integers, Sequences

CONSTANTS
    Branches,
    Main,           \* the branch HEAD is on at first
    Handlers,       \* requests served at the same time, each for a tab
    MayFail,        \* which commands may fail without saying why: see Fails
    MaxCommits,     \* bound: commits
    MaxTerminal,    \* bound: what is done in a terminal
    MaxRequests,    \* bound: requests served
    None

ASSUME UndoAssumption ==
    /\ Main \in Branches
    /\ None \notin Branches \cup Nat /\ Branches \cap Nat = {}
    /\ MayFail \subseteq {"git", "rev-parse"}
    /\ {MaxCommits, MaxTerminal, MaxRequests} \subseteq Nat /\ MaxCommits >= 2

VARIABLES
    refs,       \* the commit of each local branch
    head,       \* the branch HEAD is on, None when detached, and its commit
    reflog,     \* of HEAD, newest first
    made,       \* commits made so far
    kept,       \* commits git gc never takes: in the reflog, or built upon
    gone,       \* commits git gc took
    deleted,    \* deletions.byID, of the repository this is about
    request,    \* what each handler is doing, or how it ended
    approved,   \* the plan each tab shows for confirmation
    terminal, requests,
    past,       \* where HEAD was before it last moved, for the properties
    lapsed,     \* what `deleted` names has been past restoring, for the same
    moved       \* something has moved since a tab asked for its plan, likewise

disk == <<refs, head, reflog, made, kept, gone>>
history == <<past, lapsed, moved>>
vars == <<disk, deleted, request, approved, terminal, requests, history>>

Commits == 1..MaxCommits

NoPlan == [kind |-> "none", into |-> None, head |-> 0, to |-> 0, ref |-> None,
           detach |-> FALSE, branch |-> None]
Ended(answer) == [at |-> answer, want |-> "nothing", record |-> None, entries |-> <<>>,
                  plan |-> NoPlan, branch |-> None]
AtEnd == {"idle", "done", "refused", "failed"}

\* One branch HEAD is on, holding the first commit, and others made elsewhere.
Init ==
    /\ refs \in {f \in [Branches -> {0, 1, 2}] : f[Main] = 1}
    /\ head = [on |-> Main, at |-> 1]
    /\ reflog = <<[kind |-> "initial", at |-> 1, from |-> None]>>
    /\ made = 2
    /\ kept = {1}
    /\ gone = {}
    /\ deleted = None
    /\ request = [h \in Handlers |-> Ended("idle")]
    /\ approved = [h \in Handlers |-> NoPlan]
    /\ terminal = 0 /\ requests = 0
    /\ past = head
    /\ lapsed = FALSE
    /\ moved = [h \in Handlers |-> FALSE]

Exists(b) == refs[b] # 0

\* What rev-parse says of a branch or a commit; 0 when there is none.
Resolved(ref) == IF ref \in Branches THEN refs[ref] ELSE IF ref \in gone THEN 0 ELSE ref

\* The bookkeeping of the properties, the same for every step.
Note ==
    /\ past' = IF reflog' = reflog THEN past ELSE head
    /\ lapsed' = IF deleted' = None THEN FALSE
                 ELSE \/ deleted' = deleted /\ lapsed
                      \/ head'.at # deleted'.head
                      \/ refs'[deleted'.name] # 0
                      \/ deleted'.sha \in gone'
    /\ moved' = [h \in Handlers |->
          IF request[h].at \in AtEnd /\ request'[h].want = "plan" THEN FALSE
          ELSE \/ moved[h] \/ disk' # disk
               \/ deleted' # deleted /\ request'[h] = request[h]]

-----------------------------------------------------------------------------
(* What git does to HEAD and to the branches. *)

Logged(kind, commit, from) ==
    /\ reflog' = <<[kind |-> kind, at |-> commit, from |-> from], reflog[1]>>
    /\ kept' = kept \cup {commit}

\* HEAD moves, and with it the branch it is on.
Advance(kind, commit) ==
    /\ head' = [head EXCEPT !.at = commit]
    /\ refs' = IF head.on = None THEN refs ELSE [refs EXCEPT ![head.on] = commit]
    /\ Logged(kind, commit, None)

\* HEAD leaves what it is on, which is what the entry names.
Leave(on, commit) ==
    /\ head' = [on |-> on, at |-> commit]
    /\ Logged("checkout", commit, IF head.on = None THEN head.at ELSE head.on)
    /\ UNCHANGED refs

ResetSoft(commit) == Advance("reset", commit) /\ UNCHANGED <<made, gone>>
Switch(b) == Exists(b) /\ Leave(b, refs[b]) /\ UNCHANGED <<made, gone>>
Detach(commit) == Leave(None, commit) /\ UNCHANGED <<made, gone>>

PointBranch(b, commit) ==
    /\ refs' = [refs EXCEPT ![b] = commit]
    /\ UNCHANGED <<head, reflog, made, kept, gone>>

CreateBranch(b, commit) == ~Exists(b) /\ commit \notin gone /\ PointBranch(b, commit)
DeleteBranch(b) == Exists(b) /\ head.on # b /\ PointBranch(b, 0)

-----------------------------------------------------------------------------
(* Git in a terminal. *)

Standing == (1..made) \ gone

AtTerminal ==
    /\ terminal < MaxTerminal
    /\ terminal' = terminal + 1
    /\ UNCHANGED <<deleted, request, approved, requests>>

\* A commit on HEAD: made there, amended there, or brought by a merge.
MakeCommit ==
    /\ AtTerminal
    /\ made < MaxCommits
    /\ made' = made + 1
    /\ \E kind \in {"commit", "other"} : Advance(kind, made + 1)
    /\ UNCHANGED gone
    /\ Note

\* A reset, or the reset to HEAD that a stash makes on its way.
Reset ==
    /\ AtTerminal
    /\ \E c \in Standing : ResetSoft(c)
    /\ Note

Checkout ==
    /\ AtTerminal
    /\ \/ \E b \in Branches : head.on # b /\ Switch(b)
       \/ \E c \in Standing : Detach(c)
    /\ Note

\* branch, branch -f, branch -D and a fetch, of a branch HEAD is not on.
Rewrite ==
    /\ AtTerminal
    /\ \E b \in Branches :
          /\ head.on # b
          /\ \/ \E c \in Standing : PointBranch(b, c)
             \/ DeleteBranch(b)
    /\ Note

\* git gc.
Collect ==
    /\ AtTerminal
    /\ \E c \in Standing \ kept :
          /\ c # head.at
          /\ \A b \in Branches : refs[b] # c
          /\ gone' = gone \cup {c}
    /\ UNCHANGED <<refs, head, reflog, made, kept>>
    /\ Note

-----------------------------------------------------------------------------
(* A handler, one git command at a time.  A tab shows one confirmation, *)
(* which goes with whatever it asks next and when undo has answered.    *)

Goes(h, now) == request' = [request EXCEPT ![h] = now] /\ UNCHANGED approved
To(h, state) == Goes(h, [request[h] EXCEPT !.at = state])
Shows(h, plan) == approved' = [approved EXCEPT ![h] = plan]
End(h, answer) == request' = [request EXCEPT ![h] = Ended(answer)] /\ Shows(h, NoPlan)

\* A command that does not run: its deadline, its tab gone, git not found.
\* Every read of undo answers so but those that go through revParse.
Fails(h) == "git" \in MayFail /\ End(h, "failed")

\* revParse: the same, and the caller is told that there is no such object.
Swallowed == "rev-parse" \in MayFail

Begin(h, now) ==
    /\ request[h].at \in AtEnd
    /\ requests < MaxRequests
    /\ requests' = requests + 1
    /\ request' = [request EXCEPT ![h] = now]
    /\ UNCHANGED <<disk, deleted, terminal>>
    /\ Note

\* A step that reads: the disk and the record are as they were.
Reading == UNCHANGED <<disk, deleted, terminal, requests>> /\ Note

AskPlan(h) == Shows(h, NoPlan) /\ Begin(h, [Ended("lookup") EXCEPT !.want = "plan"])

AskUndo(h) ==
    /\ approved[h] # NoPlan
    /\ UNCHANGED approved
    /\ Begin(h, [Ended("lookup") EXCEPT !.want = "undo"])

\* undoPreview has its answer: nothing to undo, a stale reflog, ...
Nothing(h) == End(h, IF request[h].want = "plan" THEN "idle" ELSE "refused")

\* ... or a plan.  The body of the request to undo is the plan the tab shows.
AgreesMutant(plan, body) ==  \* the same action, wherever it lands
    plan.kind = body.kind /\ plan.head = body.head /\ plan.ref = body.ref

Agrees(plan, body) ==
    /\ [plan EXCEPT !.into = None] = [body EXCEPT !.into = None]
    /\ plan.kind \in {"commit", "reset"} /\ plan.into # None => plan.into = body.into

Decide(h, plan) ==
    IF request[h].want = "plan"
    THEN request' = [request EXCEPT ![h] = Ended("idle")] /\ Shows(h, plan)
    ELSE IF Agrees(plan, approved[h])
         THEN Goes(h, [request[h] EXCEPT !.at = "check head", !.plan = plan])
         ELSE End(h, "refused")

\* PreviewUndoBranchDeletion, when something is remembered.
LookUp(h) ==
    /\ request[h].at = "lookup"
    /\ Goes(h, [request[h] EXCEPT !.record = deleted,
                   !.at = IF deleted = None THEN "reflog" ELSE "record head"])
    /\ Reading

RecordHeadMutant(h) ==  \* a HEAD that could not be read is one that moved
    /\ request[h].at = "record head"
    /\ \/ To(h, IF head.at = request[h].record.head THEN "record branch" ELSE "spent")
       \/ To(h, "spent")
    /\ Reading

RecordHead(h) ==
    /\ request[h].at = "record head"
    /\ \/ To(h, IF head.at = request[h].record.head THEN "record branch" ELSE "spent")
       \/ Fails(h)
    /\ Reading

RecordBranch(h) ==
    /\ request[h].at = "record branch"
    /\ \/ Exists(request[h].record.name) /\ To(h, "spent")
       \/ (~Exists(request[h].record.name) \/ Swallowed) /\ To(h, "record tip")
    /\ Reading

\* rev-parse of the commit, and the reading of its subject.
RecordTip(h) ==
    /\ request[h].at = "record tip"
    /\ LET record == request[h].record
       IN \/ /\ record.sha \notin gone
             /\ \/ Decide(h, [NoPlan EXCEPT !.kind = "branch-delete", !.head = record.head,
                                 !.to = record.sha, !.ref = record.sha, !.branch = record.name])
                \/ Fails(h)
          \/ (record.sha \in gone \/ Swallowed) /\ To(h, "spent")
    /\ Reading

\* deletions.forget: the reflog gets the question.
Spent(h) ==
    /\ request[h].at = "spent"
    /\ deleted' = None
    /\ To(h, "reflog")
    /\ UNCHANGED <<disk, terminal, requests>>
    /\ Note

-----------------------------------------------------------------------------
(* PreviewUndo. *)

ReadReflog(h) ==
    /\ request[h].at = "reflog"
    /\ \/ Goes(h, [request[h] EXCEPT !.at = "reflog head", !.entries = reflog])
       \/ Fails(h)
    /\ Reading

BeforeMutant(entries) == entries[1].at  \* where it went

\* Where HEAD was before the newest entry.
Before(entries) == entries[2].at

\* What the newest entry says.  A reset that moved nothing, as a stash makes
\* one, is not reversed; neither is the first commit.
Classify(h) ==
    LET entries == request[h].entries
        top == entries[1]
        Plan(to, ref) == [NoPlan EXCEPT !.kind = top.kind, !.into = head.on, !.head = head.at,
                                        !.to = to, !.ref = ref]
        Back == Plan(Before(entries), Before(entries))
    IN \/ head.at # top.at /\ Nothing(h)
       \/ /\ head.at = top.at
          /\ \/ top.kind \in {"initial", "other"} /\ Nothing(h)
             \/ top.kind = "commit" /\ Decide(h, Back)
             \/ top.kind = "reset" /\ (Len(entries) < 2 \/ Before(entries) = head.at) /\ Nothing(h)
             \/ top.kind = "reset" /\ Len(entries) = 2 /\ Before(entries) # head.at /\ Decide(h, Back)
             \/ /\ top.kind = "checkout"
                /\ Goes(h, [request[h] EXCEPT !.at = "came from", !.plan = Plan(0, top.from)])

ReadHead(h) ==
    /\ request[h].at = "reflog head"
    /\ Classify(h) \/ Fails(h)
    /\ Reading

\* Back to a branch of that name rather than to the commit it held, ...
CameFromBranch(h) ==
    /\ request[h].at = "came from"
    /\ LET from == request[h].plan.ref
       IN \/ /\ from \in Branches /\ Exists(from)
             /\ Decide(h, [request[h].plan EXCEPT !.to = refs[from]])
          \/ /\ from \in Branches => ~Exists(from) \/ Swallowed
             /\ To(h, "came from commit")
    /\ Reading

\* ... or else to a commit, with HEAD detached.
CameFromCommit(h) ==
    /\ request[h].at = "came from commit"
    /\ LET from == request[h].plan.ref
           commit == Resolved(from)
       IN \/ commit # 0 /\ Decide(h, [request[h].plan EXCEPT !.to = commit, !.detach = TRUE])
          \/ (commit = 0 \/ Swallowed) /\ Nothing(h)
    /\ Reading

-----------------------------------------------------------------------------
(* Runner.Undo: the lease, and the command. *)

CheckHead(h) ==
    /\ request[h].at = "check head"
    /\ \/ head.at = request[h].plan.head /\ To(h, "check target")
       \/ head.at # request[h].plan.head /\ End(h, "refused")
       \/ Fails(h)
    /\ Reading

CheckTarget(h) ==
    /\ request[h].at = "check target"
    /\ LET plan == request[h].plan
       IN \/ /\ Resolved(plan.ref) = plan.to
             /\ To(h, IF plan.kind = "branch-delete" THEN "check branch" ELSE "act")
          \/ Resolved(plan.ref) # plan.to /\ End(h, "refused")
          \/ Fails(h)
    /\ Reading

CheckBranch(h) ==
    /\ request[h].at = "check branch"
    /\ \/ Exists(request[h].plan.branch) /\ End(h, "refused")
       \/ (~Exists(request[h].plan.branch) \/ Swallowed) /\ To(h, "act")
    /\ Reading

\* Reset, Switch, Detach or CreateBranch, which git may refuse all the same.
Act(h) ==
    /\ request[h].at = "act"
    /\ LET plan == request[h].plan
       IN \/ plan.kind \in {"commit", "reset"} /\ ResetSoft(plan.to) /\ End(h, "done")
          \/ plan.kind = "checkout" /\ ~plan.detach /\ Switch(plan.ref) /\ End(h, "done")
          \/ /\ plan.kind = "checkout" /\ plan.detach
             /\ Resolved(plan.ref) # 0 /\ Detach(Resolved(plan.ref))
             /\ End(h, "done")
          \/ plan.kind = "branch-delete" /\ CreateBranch(plan.branch, plan.to) /\ To(h, "forget")
          \/ UNCHANGED disk /\ End(h, "failed")
    /\ UNCHANGED <<deleted, terminal, requests>>
    /\ Note

\* The record that was used is dropped.
Forget(h) ==
    /\ request[h].at = "forget"
    /\ deleted' = None
    /\ End(h, "done")
    /\ UNCHANGED <<disk, terminal, requests>>
    /\ Note

-----------------------------------------------------------------------------
(* handleDeleteBranch.  What could not be read is not remembered, and the *)
(* branch is deleted all the same.                                        *)

AskDelete(h) ==
    \E b \in Branches :
       /\ Exists(b)
       /\ Shows(h, NoPlan)
       /\ Begin(h, [Ended("read tip") EXCEPT !.branch = b])

\* Who deletes it, and when, tells one record from another.
ReadTip(h) ==
    /\ request[h].at = "read tip"
    /\ LET b == request[h].branch
       IN \/ /\ Exists(b)
             /\ Goes(h, [request[h] EXCEPT !.at = "read head", !.record =
                            [name |-> b, sha |-> refs[b], head |-> 0,
                             by |-> h, nth |-> requests]])
          \/ (~Exists(b) \/ "git" \in MayFail) /\ To(h, "delete")
    /\ Reading

ReadHeadBefore(h) ==
    /\ request[h].at = "read head"
    /\ \/ Goes(h, [request[h] EXCEPT !.at = "delete", !.record.head = head.at])
       \/ "git" \in MayFail /\ Goes(h, [request[h] EXCEPT !.at = "delete", !.record = None])
    /\ Reading

\* git branch -d, or -D: git may refuse what is not merged.
Delete(h) ==
    /\ request[h].at = "delete"
    /\ \/ /\ DeleteBranch(request[h].branch)
          /\ IF request[h].record = None THEN End(h, "done") ELSE To(h, "record")
       \/ UNCHANGED disk /\ End(h, "failed")
    /\ UNCHANGED <<deleted, terminal, requests>>
    /\ Note

Record(h) ==
    /\ request[h].at = "record"
    /\ deleted' = request[h].record
    /\ End(h, "done")
    /\ UNCHANGED <<disk, terminal, requests>>
    /\ Note

-----------------------------------------------------------------------------
Preview(h) ==
    \/ LookUp(h) \/ RecordHead(h) \/ RecordBranch(h) \/ RecordTip(h) \/ Spent(h)
    \/ ReadReflog(h) \/ ReadHead(h) \/ CameFromBranch(h) \/ CameFromCommit(h)

Next ==
    \/ MakeCommit \/ Reset \/ Checkout \/ Rewrite \/ Collect
    \/ \E h \in Handlers :
          \/ AskPlan(h) \/ AskUndo(h) \/ AskDelete(h)
          \/ Preview(h)
          \/ CheckHead(h) \/ CheckTarget(h) \/ CheckBranch(h) \/ Act(h) \/ Forget(h)
          \/ ReadTip(h) \/ ReadHeadBefore(h) \/ Delete(h) \/ Record(h)

Spec == Init /\ [][Next]_vars

-----------------------------------------------------------------------------
Plans == [kind : {"none", "commit", "checkout", "reset", "branch-delete"},
          into : Branches \cup {None}, head : 0..made, to : 0..made,
          ref : Branches \cup {None} \cup 1..made, detach : BOOLEAN,
          branch : Branches \cup {None}]
States == {"lookup", "record head", "record branch", "record tip", "spent", "reflog",
           "reflog head", "came from", "came from commit", "check head", "check target",
           "check branch", "act", "forget", "read tip", "read head", "delete", "record"}

(***************************************************************************)
(* The types of the state.  HEAD is at the commit of its branch, and no    *)
(* command leaves a branch at a commit that was collected.  A record that  *)
(* is kept has both its commits.                                           *)
(***************************************************************************)
TypeOK ==
    /\ refs \in [Branches -> 0..made] /\ made \in 2..MaxCommits
    /\ head \in [on : Branches \cup {None}, at : 1..made]
    /\ head.on # None => refs[head.on] = head.at
    /\ head.at = reflog[1].at
    /\ gone \subseteq 1..made /\ kept \cap gone = {}
    /\ \A b \in Branches : refs[b] \notin gone
    /\ deleted # None =>
          deleted.name \in Branches /\ {deleted.sha, deleted.head} \subseteq 1..made
    /\ \A h \in Handlers :
          /\ request[h].at \in States \cup AtEnd
          /\ request[h].plan \in Plans /\ approved[h] \in Plans

Acts(h) == request[h].at = "act" /\ request'[h].at \in {"done", "forget"}

(***************************************************************************)
(* The command undo runs does what the tab showed: a soft reset leaves the *)
(* branch of the plan at the commit of the plan, a checkout ends where the *)
(* plan said, a branch comes back at the commit shown and HEAD stays.  The *)
(* reads before it take several commands each, in which a terminal or      *)
(* another handler may have done anything; what git cannot be asked to     *)
(* check is whether HEAD changed branch, or the branch to go to moved,     *)
(* since it was last read.                                                 *)
(***************************************************************************)
DoesWhatWasApproved ==
    [][\A h \in Handlers : Acts(h) =>
          LET shown == approved[h]
              plan == request[h].plan
          IN CASE shown.kind \in {"commit", "reset"} ->
                     head.on = plan.into =>
                        head'.at = shown.to /\ head'.on \in {shown.into, None}
               [] shown.kind = "checkout" ->
                     Resolved(plan.ref) = plan.to =>
                        head' = [on |-> IF shown.detach THEN None ELSE shown.ref, at |-> shown.to]
               [] shown.kind = "branch-delete" ->
                     refs'[shown.branch] = shown.to /\ head' = head
               [] OTHER -> FALSE]_vars

(***************************************************************************)
(* What is reversed is the last move of HEAD: undo brings it back to the   *)
(* branch it was on before, and, but for a checkout of a branch that has   *)
(* moved since, to the commit.                                            *)
(***************************************************************************)
ReversesTheLastMove ==
    [][\A h \in Handlers :
          LET plan == request[h].plan
          IN Acts(h) /\ plan.kind # "branch-delete"
             /\ request[h].entries = reflog /\ head.on = plan.into
             => /\ head'.on = past.on \/ plan.detach
                /\ plan.kind \in {"commit", "reset"} => head'.at = past.at]_vars

(***************************************************************************)
(* The record of a deleted branch, "the only record of a tip that exists   *)
(* nowhere git will name" (api/undo.go:73-74), is dropped when HEAD has    *)
(* moved, the branch is back or its commit is gone, and for nothing else.  *)
(* A handler that looked up an older record is set aside.                  *)
(***************************************************************************)
RestoreStaysOffered ==
    [][deleted # None /\ deleted' = None =>
          \/ lapsed
          \/ \E h \in Handlers : request[h].at \in {"spent", "forget"}
                                 /\ request[h].record # deleted]_vars

(***************************************************************************)
(* Undo refuses a plan only if something moved after it was asked for:     *)
(* what is read to make a plan is enough to make the same plan again, the  *)
(* remembered deletion and the reflog never disagree on which it is.       *)
(***************************************************************************)
RefusedOnlyIfMoved ==
    [][\A h \in Handlers :
          request[h].want = "undo" /\ request'[h].at = "refused" => moved[h]]_vars

(***************************************************************************)
(* What a tab is shown and what is done when it is confirmed are one thing *)
(* (api/undo.go:160-187): an undo does what its plan said, and is refused  *)
(* only when something moved.                                              *)
(***************************************************************************)
AgreementIsKept == []TypeOK /\ DoesWhatWasApproved /\ RefusedOnlyIfMoved
=============================================================================
