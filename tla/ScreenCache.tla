----------------------------- MODULE ScreenCache -----------------------------
(***************************************************************************)
(* What a panel shows of a repository, and how it comes to show it again   *)
(* when that moved: web/src/app/settle.ts, the hooks that run commands,    *)
(* the reading of the events in useEvents.ts and the polls.                *)
(*                                                                         *)
(* Each panel reads one query of the cache.  Queries do not touch one      *)
(* another, so a behaviour follows one of them, drawn at the start.  What  *)
(* the daemon would answer to it is a version that every command which     *)
(* changes it moves up.  A read is asked, read by the daemon, and drawn.   *)
(* Dropping a query (invalidateQueries) gives up the read under way and    *)
(* asks again, unless it is the first one; writing one (setQueryData) does *)
(* not give up the read under way, which cancelQueries does.               *)
(***************************************************************************)
EXTENDS Naturals, FiniteSets

CONSTANTS
    MayHappen,      \* which of Mishaps do
    MaxMoves,       \* bound: commands run and changes made elsewhere
    None, Asked

\* "elsewhere": what is not announced is changed in a terminal.  "follow":
\* moving HEAD changes the lists of worktrees, submodules and LFS patterns.
\* "crossing": something moves between a command and the drawing of its answer.
\* "overtaken": a read begun before a command is drawn after an answer that was
\* written without giving it up.  "first": something moves during a first read.
\* "lost": a command runs, its answer does not come back and nothing is dropped.
Mishaps == {"elsewhere", "follow", "crossing", "overtaken", "first", "lost"}

VARIABLES
    query,          \* the query that is followed
    truth,          \* what the daemon would answer
    shown,          \* what the panel draws, None before the first answer
    failed,         \* the last read failed, and the panel says so
    fetch,          \* the read under way: None, Asked, or what was read
    commands,       \* under way: what each does to the query
    event,          \* a change of the repository is not announced yet
    moves

vars == <<query, truth, shown, failed, fetch, commands, event, moves>>

-----------------------------------------------------------------------------
(* The queries.  What the event of a change drops, what is asked every two  *)
(* seconds, and what is asked when the window takes focus.                  *)

Announced == {"commits", "commit", "refs", "status", "diff", "undo"}
Polled == {"status", "diff"}
Lists == {"stashes", "remotes", "worktrees", "submodules", "lfs"}
Queries == Announced \cup Lists \cup {"prepared-message", "stash"}
OnFocus == Announced \cup Lists

-----------------------------------------------------------------------------
(* What git changes, named by what would be answered differently. *)

Names == {"refs", "commits", "commit"}
Tree == {"status", "diff"}
Stack == {"stashes", "stash"}
Following == IF "follow" \in MayHappen THEN {"worktrees", "submodules", "lfs"} ELSE {}
AtHead == Names \cup Tree \cup Following \cup {"prepared-message", "undo"}

-----------------------------------------------------------------------------
(* What a command leaves stale.  "writes" is written from its answer, and    *)
(* of that "cancels" has the read under way given up; "drops" is asked again *)
(* when it succeeded, "errs" when it failed.                                 *)

Nothing == [writes |-> {}, cancels |-> {}, drops |-> {}]

\* What is left by an answer in hand, and by none.
SettleMutant(written, what) ==
    [writes |-> written, cancels |-> written,
     drops |-> {"commits", "commit"}
       \cup {q \in {"refs"} : q \notin written}
       \cup (IF {"head", "tree"} \cap what # {} THEN Tree ELSE {})
       \cup (IF "head" \in what THEN {"undo"} ELSE {})
       \cup (IF "stash" \in what THEN Stack \ written ELSE {})
       \cup (IF "tracking" \in what THEN {"status"} ELSE {})]

Settle(written, what) ==
    [writes |-> written, cancels |-> written,
     drops |-> {"commits", "commit"}
       \cup {q \in {"refs"} : q \notin written}
       \cup (IF {"head", "tree"} \cap what # {} THEN Tree ELSE {})
       \cup (IF "head" \in what THEN {"prepared-message", "undo"} ELSE {})
       \cup (IF "stash" \in what THEN Stack \ written ELSE {})
       \cup (IF "tracking" \in what THEN {"status"} ELSE {})]

Hook(moved, ok, errs) ==
    [moves |-> moved, writes |-> ok.writes, cancels |-> ok.cancels, drops |-> ok.drops,
     errs |-> errs]

\* A failure that is settled as the success is, without an answer.
Either(moved, written, what) ==
    Hook(moved, Settle(written, what), Settle({}, what).drops)

CreateBranch(switchTo) ==
    Hook(IF switchTo THEN AtHead ELSE Names,
         Settle({"refs"}, IF switchTo THEN {"head"} ELSE {}), {})
RenameBranch == Hook(Names \cup {"status"}, Settle({"refs"}, {}), {})
DeleteBranch == Hook(Names \cup {"undo"}, Settle({"refs"}, {}), {})
Merge == Either(AtHead, {"refs"}, {"head"})
Rebase == Either(AtHead, {"refs"}, {"head"})
CheckOut == Hook(AtHead, Settle({"refs"}, {"head"}), {})
CreateTag == Hook(Names, Settle({"refs"}, {}), {})
DeleteTag == Hook(Names, Settle({"refs"}, {}), {})
StashPush == Either(Tree \cup Stack \cup Names, {"stashes"}, {"tree", "stash"})
StashApply == Either(Tree \cup Stack \cup Names, {"stashes"}, {"tree", "stash"})
StashDrop == Either(Stack \cup Names, {"stashes"}, {"tree", "stash"})
Undo == Either(AtHead, {"refs"}, {"head"})
Reset == Either(AtHead, {"refs"}, {"head"})
Revert == Either(AtHead, {"refs"}, {"head"})
CherryPick == Either(AtHead, {"refs"}, {"head"})
InteractiveRebase == Either(AtHead, {"refs"}, {"head"})
SetUpstream == Hook(Names \cup {"status"}, Settle({"refs"}, {"tracking"}), {})
UnsetUpstream == Hook(Names \cup {"status"}, Settle({"refs"}, {"tracking"}), {})
Fetch == Either(Names \cup {"status"}, {"refs"}, {"tracking"})
Pull == Either(AtHead, {"refs"}, {"tracking", "head"})
Push == Either(Names \cup {"status"}, {"refs"}, {"tracking"})

\* The list of remotes is written over a read under way.
SettleRemotes(refsMoved) ==
    [writes |-> {"remotes"}, cancels |-> {},
     drops |-> IF refsMoved THEN Settle({}, {}).drops ELSE {}]

AddRemote == Hook({"remotes"}, SettleRemotes(FALSE), {})
RenameRemote == Hook({"remotes"} \cup Names, SettleRemotes(TRUE), {})
RemoveRemote == Hook({"remotes"} \cup Names, SettleRemotes(TRUE), {})
SetRemoteURL == Hook({"remotes"}, SettleRemotes(FALSE), {})

AddWorktree == Hook({"worktrees"} \cup Names, [Nothing EXCEPT !.drops = {"worktrees", "refs"}], {})
RemoveWorktree == Hook({"worktrees"}, [Nothing EXCEPT !.drops = {"worktrees"}], {})
PruneWorktrees == Hook({"worktrees"}, [Nothing EXCEPT !.drops = {"worktrees"}], {})

RefreshIndex == [Nothing EXCEPT !.drops = {"submodules"} \cup Settle({}, {"tree"}).drops]

AddSubmodule == Hook({"submodules"} \cup Tree, RefreshIndex, {})
RemoveSubmodule == Hook({"submodules"} \cup Tree, RefreshIndex, {})
UpdateSubmodules == Hook({"submodules"} \cup Tree, [Nothing EXCEPT !.drops = {"submodules"}], {})
SyncSubmodules == Hook({"submodules"}, [Nothing EXCEPT !.drops = {"submodules"}], {})

TrackLFS == Hook({"lfs"} \cup Tree, [writes |-> {"lfs"}, cancels |-> {}, drops |-> Tree], {})

ActOnOperation ==
    Hook(AtHead,
         [writes |-> {"status"}, cancels |-> {"status"},
          drops |-> {"refs", "commits", "commit", "diff", "prepared-message"}],
         {"status", "refs"})

SettleStatus == [writes |-> {"status"}, cancels |-> {"status"}, drops |-> {"diff"}]

StageOrDiscard == Hook(Tree, SettleStatus, {})
SaveFile == Hook(Tree, SettleStatus, {})
Resolve == Hook(Tree, SettleStatus, {})
Commit ==
    Hook(AtHead \ Following,
         [Nothing EXCEPT !.drops = {"status", "commits", "refs", "prepared-message"}], {})

Hooks == {
    CreateBranch(FALSE), CreateBranch(TRUE), RenameBranch, DeleteBranch, Merge, Rebase,
    CheckOut, CreateTag, DeleteTag, StashPush, StashApply, StashDrop, Undo, Reset, Revert,
    CherryPick, InteractiveRebase, SetUpstream, UnsetUpstream, Fetch, Pull, Push,
    AddRemote, RenameRemote, RemoveRemote, SetRemoteURL, AddWorktree, RemoveWorktree,
    PruneWorktrees, AddSubmodule, RemoveSubmodule, UpdateSubmodules, SyncSubmodules, TrackLFS,
    ActOnOperation, StageOrDiscard, SaveFile, Resolve, Commit}

\* What is changed elsewhere: in a terminal, in another window, by an editor.
Elsewhere ==
    {Names, Names \cup Tree \cup {"undo"}, Tree}
    \cup (IF "elsewhere" \in MayHappen
          THEN {Names \cup Tree \cup Stack, Names \cup {"worktrees"}, {"submodules"} \cup Tree}
          ELSE {})

-----------------------------------------------------------------------------
Init ==
    /\ query \in Queries
    /\ truth = 0 /\ shown = 0
    /\ failed = FALSE
    /\ fetch = None
    /\ commands = {}
    /\ event = FALSE
    /\ moves = 0

\* A first read under way is not given up: it goes on with what it had asked.
Drop == fetch' = IF fetch # None /\ shown = None THEN fetch ELSE Asked

\* Of what a command or somebody else changed, the watcher tells what is under
\* the git directory.
Moved(what) ==
    /\ truth' = IF query \in what THEN truth + 1 ELSE truth
    /\ event' = (event \/ Names \cap what # {})

Disturbed ==
    \/ shown = None /\ fetch # None /\ "first" \notin MayHappen
    \/ "crossing" \notin MayHappen /\ \E c \in commands : c.writes

\* A command, as the query sees it.
Restricted(hook) ==
    [moves |-> query \in hook.moves, writes |-> query \in hook.writes,
     cancels |-> query \in hook.cancels, drops |-> query \in hook.drops,
     errs |-> query \in hook.errs, answer |-> truth']

Act == moves < MaxMoves /\ ~Disturbed /\ moves' = moves + 1

\* The command runs, and the daemon reads the answer that it sends back.
Run(hook) ==
    /\ Act
    /\ Moved(hook.moves)
    /\ commands' = commands \cup {Restricted(hook)}
    /\ UNCHANGED <<query, shown, failed, fetch>>

\* A command is refused and changes nothing.
Refused(hook) ==
    /\ Act
    /\ IF query \in hook.errs THEN Drop ELSE UNCHANGED fetch
    /\ UNCHANGED <<query, truth, shown, failed, commands, event>>

ToldMutant(c) ==
    /\ commands' = commands \ {c}
    /\ IF c.writes THEN shown' = c.answer /\ failed' = FALSE /\ UNCHANGED fetch
       ELSE UNCHANGED <<shown, failed>> /\ IF c.drops THEN Drop ELSE UNCHANGED fetch
    /\ UNCHANGED <<query, truth, event, moves>>

\* The command succeeded, and what it leaves is settled.
Told(c) ==
    /\ "overtaken" \in MayHappen \/ c.cancels \/ ~c.writes \/ fetch \notin 0..(c.answer - 1)
    /\ commands' = commands \ {c}
    /\ IF c.writes
       THEN shown' = c.answer /\ failed' = FALSE /\ fetch' = IF c.cancels THEN None ELSE fetch
       ELSE UNCHANGED <<shown, failed>> /\ IF c.drops THEN Drop ELSE UNCHANGED fetch
    /\ UNCHANGED <<query, truth, event, moves>>

\* It failed halfway, or its answer did not come back.  The message of an
\* operation that goes on is another query: its key has the step.
Failed(c) ==
    /\ "lost" \in MayHappen \/ c.errs \/ ~c.moves \/ query \in Announced
    /\ commands' = commands \ {c}
    /\ IF c.errs THEN Drop ELSE UNCHANGED fetch
    /\ UNCHANGED <<query, truth, shown, failed, event, moves>>

MovedElsewhere(what) ==
    /\ Act
    /\ Moved(what)
    /\ UNCHANGED <<query, shown, failed, fetch, commands>>

-----------------------------------------------------------------------------
(* Reading. *)

HearEvent ==
    /\ event
    /\ event' = FALSE
    /\ IF query \in Announced THEN Drop ELSE UNCHANGED fetch
    /\ UNCHANGED <<query, truth, shown, failed, commands, moves>>

Ask ==
    /\ fetch = None
    /\ fetch' = Asked
    /\ UNCHANGED <<query, truth, shown, failed, commands, event, moves>>

Poll == query \in Polled /\ Ask
Focus == query \in OnFocus /\ Ask

\* The panel is given another commit, page or file to show.
Open ==
    /\ shown # None
    /\ "first" \in MayHappen \/ (commands = {} /\ ~event)
    /\ shown' = None
    /\ failed' = FALSE
    /\ fetch' = Asked
    /\ UNCHANGED <<query, truth, commands, event, moves>>

DaemonReads ==
    /\ fetch = Asked
    /\ fetch' = truth
    /\ UNCHANGED <<query, truth, shown, failed, commands, event, moves>>

Land ==
    /\ fetch \notin {None, Asked}
    /\ shown' = fetch
    /\ failed' = FALSE
    /\ fetch' = None
    /\ UNCHANGED <<query, truth, commands, event, moves>>

ReadFails ==
    /\ fetch # None
    /\ failed' = TRUE
    /\ fetch' = None
    /\ UNCHANGED <<query, truth, shown, commands, event, moves>>

Next ==
    \/ \E hook \in Hooks : Run(hook) \/ Refused(hook)
    \/ \E c \in commands : Told(c) \/ Failed(c)
    \/ \E what \in Elsewhere : MovedElsewhere(what)
    \/ HearEvent \/ Poll \/ Focus \/ Open \/ DaemonReads \/ Land \/ ReadFails

\* The daemon answers, events arrive and the timer of a poll rings.
Fairness ==
    /\ WF_vars(\E c \in commands : Told(c) \/ Failed(c))
    /\ WF_vars(HearEvent) /\ WF_vars(Poll) /\ WF_vars(DaemonReads) /\ WF_vars(Land)

Spec == Init /\ [][Next]_vars /\ Fairness

-----------------------------------------------------------------------------
TypeOK ==
    /\ query \in Queries
    /\ truth \in 0..MaxMoves /\ shown \in 0..MaxMoves \cup {None}
    /\ failed \in BOOLEAN /\ event \in BOOLEAN
    /\ fetch \in {None, Asked} \cup 0..MaxMoves
    /\ \A c \in commands : c.answer \in 0..truth /\ (c.cancels => c.writes)
    /\ moves \in 0..MaxMoves

\* Whatever was run and changed, and in whichever order the answers came, each
\* panel ends showing what the daemon holds or saying that it could not read it.
ScreenCatchesUp == []<>(failed \/ shown = truth)

\* A panel never goes back to what it showed before: a read begun before a
\* command is not drawn over what the command answered.
NeverGoesBack == [][shown # None /\ shown' # None => shown' >= shown]_vars
=============================================================================
