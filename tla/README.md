# Verification of yagit

yagit is a Git interface: a Go daemon (`cmd/yagit`, `internal/*`) that runs the
`git` command, and a React application (`web/`) it serves to browser tabs. The
daemon keeps little state of its own, all of it in memory; the repository on disk
is the truth and git, in a terminal or in the daemon, changes it at any moment.
What can go wrong is therefore mostly between things: between two handlers,
between what was read and what is done about it, between what a page shows and
what the daemon holds by now, between a channel and whoever was not reading it.

This directory models those parts in TLA+, model-checks them with TLC, and proves
the central claims of some of them with TLAPS.

## 1. The system

The daemon:

| component | where | its state | its operations | what makes it correct |
|---|---|---|---|---|
| Event stream | `internal/api/events.go` | the sequence number, a ring of past events, one bounded channel per tab, `done` | `publish`, `subscribe`, `unsubscribe`, `Backlog`, `Close`, the handler's loop | replay and channel have neither hole nor overlap; every stream ends at shutdown |
| Filesystem watcher | `internal/watch/watch.go` | `byDirectory`, `directoriesOf`, a timer per repository, the follow queue, the change channel, `closed` | `Watch`, `Forget`, `Close`, the event loop, the follow worker, `announce` | what is watched, booked and open agree; a change is announced; no send after close |
| Running git | `internal/git/command.go`, `serialize.go` | a one-place slot per directory, a process and its pipes | `Exec`, `acquire`, `runContext`, the signal and `WaitDelay` | one write at a time; every call ends; a lock file a signal left is told of before it is met |
| History store | `internal/history/history.go`, `internal/api/repos.go` | an entry per walk, a mutex in each, an order of use | `Window`, `entryFor`, `refresh`, the eviction, `Forget` | what is answered is of now; the ceiling; every mutex comes back |
| Open repositories | `internal/repo/registry.go`, `internal/api/repos.go` | the entries and their order, one pinned descriptor each; the watch, its warning and the record of a deletion beside them | open, get, list, close | one descriptor and one watch for each; an identifier keeps its directory |
| Undo | `internal/git/undo.go`, `internal/api/undo.go`, `deleted.go`, `branch.go` | the last branch deletion; all else is the reflog's | offer, plan, run; the deletion of a branch | it does what was approved, or refuses |
| Progress of transfers | `internal/api/progress.go`, `internal/git/command.go` | a bounded queue, a goroutine, an idle timer | `Line`, the drain, `Report`, the timer | git is never held up; the end is never lost |
| Interactive rebase | `internal/api/interactive.go`, `internal/git/interactive.go` | none; git's sequencer files | plan, check, run, continue, abort | the branch becomes what the dialog said |
| Merge, rebase, reset, stash, worktrees, saves, parsers, tokens | the rest of `internal/` | none that interleaves | one git command, or one file, each | section 7 |

The page:

| component | where | its state | its operations | what makes it correct |
|---|---|---|---|---|
| Its end of the stream | `useEvents.ts` | EventSource's last identifier, the commands heard, the backlog fetched | the `git` and `repository` listeners, the merge, reconnection | no command twice, in order |
| Open tabs | `Workbench.tsx`, `sessionStore.ts` | the list as read, what local storage remembers, which is on screen | open, close, select, reopen at load | what was open stays, what was closed does not come back |
| Dialogs | `dialogSlot.ts`, `historyProposals.ts`, `*Dialogs.tsx` | a dialog in each place, plans and runs under way | open, ask again, confirm, cancel, go from one to another | what runs is what was shown, once |
| Panels | `settle.ts`, the `use*.ts` hooks, React Query | a cache of what was read | read, drop, write, cancel, poll | each ends on what the daemon holds, and never goes back |
| History on screen | `HistoryView.tsx`, `CommitList.tsx`, `useHistory.ts` | a window of rows, pages, a row looked for | scroll, keys, look-ups, pages that fail | the keyboard reaches every row and is never taken |
| Choosing what to keep | `ChangesView.tsx`, `ChangeList.tsx`, `DiffView.tsx` | lists, a diff, lines chosen by position | stage, unstage, discard | the lines that move are those chosen |
| What is being typed | `FileEditor.tsx`, `CommitBox.tsx`, `useWorkingDirectory.ts` | a buffer over a file, a message over another | type, save, resolve, commit, amend, leave | nothing typed is lost, nothing unread replaced |
| Transfers | `client.ts`, `fetchTimeout.ts`, `useRemote.ts`, `RemoteActions.tsx` | a reader, a deadline, one progress line | fetch, pull, push | the answer told is git's |
| Conflict resolver | `conflict.ts`, `ConflictResolver.tsx` | the text | read regions, choose a side | reads what git wrote |
| Adding a repository | `AddRepository.tsx` and its three forms | fields, a plan, a scan | open, clone, create | runs what it shows |
| Plan of a rebase | `RebasePlanDialog.tsx`, `interactiveRebase.ts` | rows | move, drop, fold, confirm | the summary is what git does |
| Menus, notifications | `Menu.tsx`, `ToastHost.tsx` | a popover, a stack of cards | gestures; arrivals and timers | says what is on screen; failures stay |

Paths of the page are under `web/src/app`, `web/src/lib`, `web/src/api` and
`web/src/components`.

How they meet:

- a handler calls `Exec`, which reports every command it ran to the event stream;
  tabs read the stream, and the backlog of commands by another request;
- opening a repository pins a descriptor, then watches the git directory, then
  notes whether that worked; closing undoes the same in three steps of its own;
- the watcher announces a repository on a channel that `cmd/yagit` drains into the
  event stream; the page drops what the event makes stale, and the panels read
  again; the history does so in three commands under its entry's mutex;
- undo and the dialogs show a plan, wait for the user, and run one command, and
  nothing holds the repository, or the dialog, still meanwhile;
- a transfer's lines go from git's stderr through a queue and a connection to the
  page, each side with a deadline on the other's silence.

## 2. Modules

| module | models | checked by |
|---|---|---|
| `EventStream` | the daemon's stream, its connections, the tabs, restarts | `MCDaemon`, itself |
| `OrderedFeed` | what a tab is promised, without ring, replay or channel | the refinement in `EventStream` |
| `EventStreamProofs` | theorems about `EventStream`, and that it implements `OrderedFeed` | |
| `Sifting` | what is left of a sequence when some of it is dropped, with what is proved of it | `EventStream`, `RepoSessions`, `Page` |
| `Watcher` | the watcher, fsnotify below it, its callers and its consumer | `MCNews`, `MCWatcher` |
| `ScreenCache` | a panel of the page: one query, the hooks, events and polls | `MCNews`, itself |
| `NewsProofs` | theorems about `Watcher` and `ScreenCache` | |
| `GitExec` | `Exec`, git, what git starts and leaves, the terminal | `MCDaemon`, `MCGitExec` |
| `GitExecProofs` | theorems about `GitExec` | |
| `HistoryStore` | the store, its requests, the repository it reads | itself, `MCMemory` |
| `RepoSessions` | the registry and what is kept beside it | `MCMemory` |
| `MemoryProofs` | theorems about `HistoryStore` and `RepoSessions` | |
| `Undo` | undo and the deletion of branches, one git command at a time | `MCMemory`, `MCUndo` |
| `UndoProofs` | theorems about `Undo` | |
| `Page` | what parts of the page share: `None`, the bound on gestures, `MayHappen`, filtering a list | those parts |
| `Session` | the tabs of the page over reloads and restarts | `MCScreens` |
| `Dialogs` | every dialog by its shape, the plans and runs under way | `MCScreens`, `MCDialogs` |
| `Drafts` | a file and a message being typed | `MCScreens`, itself |
| `Transfer` | git, pump, connection and page of a fetch, pull or push | `MCScreens`, itself |
| `ScreensProofs` | theorems about `Session`, `Dialogs`, `Drafts` and `Transfer` | |
| `Changes` | the lists of files, the diff, staging by file and by line | `MCLists` |
| `CommitLog` | the list of commits, its pages and the keyboard | `MCLists` |
| `Conflict` | the text of a conflict and the resolver | `MCLists`, `MCConflict` |
| `Adding` | the dialog that adds a repository | `MCLists`, itself |
| `Rewrite` | the plan of an interactive rebase, from the dialog to git and its answer | `MCLists`, itself |
| `ListsProofs` | theorems about `Changes` and `Rewrite` | |
| `Menu`, `Toasts` | a menu against the browser's popover; the notifications | `MCLists` |

`MCDaemon`, `MCNews`, `MCMemory`, `MCScreens` and `MCLists` each put several modules
side by side: a variable `part`, drawn at the start, says which of them moves, and the
others stay in one initial state. The state space is the sum of the parts and not
their product, so nothing is claimed here about two parts at once, and each part is
as exhaustive as in a run of its own. Properties carry the names they have in their
modules, gathered where one question has several. `MCDaemon`, `MCNews`,
`MCMemory` and `MCScreens` extend all their parts and `MCLists` extends `Changes` and `Rewrite`, so
that a run checks the very formula a theorem states; where two modules of a run would both have
a `Spec`, an `Init` or a `Next`, the name says of which part it is (`TabsSpec`,
`DraftsSpec`, `TransferSpec`, `RewriteSpec`, `WatcherSpec`, `StoreSpec`,
`RegistrySpec`, `ExecSpec`). The remaining `MC` modules give constants their values.
`PROJECT.json` maps every definition to the lines it stands for.

### EventStream

`buffer` and `nextID` are the ring and the sequence number; `conn[c]` is a tab's
`subscriber` with the progress of its handler: `missed` is what is left of the
replay, `chan` the channel, `lagging` the closed channel that marks an overflow.
`Publish`, `Subscribe`, `WriteMissed`, `WriteEvent`, `HangUpLagging` and
`HangUpDone` are `publish`, `subscribe` and the branches of the handler's loop,
`Close` the shutdown hook. `Restart` is a new process, with numbers from one again:
`era` tells the events of two processes apart. `Cut` loses a connection at any
moment, and EventSource reconnects with `lastSeen`. `ReadBacklog` is the other
request, whose answer may be older than what the tab already holds.

### Watcher

The mutex divides `Watch`, `Forget`, `Close`, `handle` and `followOne` into
sections; each is an action, and so is each call of fsnotify between two of them.
`queue` is what inotify has reported, `kernel` what it watches. `orphans` and
`loose` are timers and announcements that the map `pending` no longer holds but
that run all the same. How much happens at once is `pace`, fixed for a behaviour:

- `any`: directories come and go, and callers call, at any moment;
- `patient`: a directory is made or removed when the watcher has caught up;
- `calm`: callers wait as well, and a debounce window lasts until the follow worker
  is idle. A window is 200 ms and the worker one `inotify_add_watch`, so this is
  what nearly always happens.

`Send` drops what finds the channel full; when no change of the same repository is in
it, what was owed is `"lost"` (`Lose`), so that a repository hidden by others is told
from one that the channel speaks for.

Writes to files happen at any moment at every pace. The properties of the books
and of the channel hold at every pace; those of what is watched say which pace
they take, and section 6 says what goes wrong at the others.

### GitExec

A call is at `acquiring`, `waiting`, `ready`, `running` or `done`. The argument
list is a sequence of words because finding the subcommand behind global flags is
itself at stake (`WritesTheIndex`). The process, what its exit status says, a child
that keeps its pipes and a lock file in somebody's name are separate variables, so
that a clean exit, a signal and the end of the pipes may come in any order.

### HistoryStore

The repository is three numbers: the references, HEAD and the depth of a shallow
clone. An entry holds the state its log was read in and the one its fingerprint was
taken in. `Ask`, `TakeEntry`, `Lock`, `ReadRefs`, `ReadHEAD`, `Log`, `Answer` are
the steps of a request; `Fail` is any of the three commands failing.

### RepoSessions

A repository's identifier is a hash of its path, so `Repos` are paths, and the
directory at a path is an inode that may be replaced. `Open`, `Watch`, `Warn` and
`Clear` are the steps of opening; `Close`, `ForgetDeletion`, `ForgetWarning` and
`ForgetWatch` those of closing; `Find`, `Check` and `Serve` those of a request.
`crossed` remembers that two handlers of one repository met.

### Undo

`reflog` keeps its two newest entries, all that undo reads. A commit is a number;
`kept` and `gone` are what a collection spares and took. Every git command of the
preview, of the run and of a deletion is one action. `MayFail` says which of them
may fail without a reason: all but `rev-parse` (`"git"`), or `rev-parse`.

### ScreenCache

Panels read one query of React Query's cache each, and queries do not touch one
another: a behaviour follows one of them, and `truth`, what the daemon would answer,
is a version that moves up. `Settle` is `settle.ts`, each hook an
operator of its name that says what git changed and what the hook writes, cancels
and drops; `Elsewhere` is what a terminal or another tab changes. `Told` and
`Failed` are the two ends of a hook, `HearEvent` the `repository` listener. What a
behaviour may not contain is `MayHappen`, empty in `watch`; section 6 says what each
of its members brings about.

### Session

A path stands for its repository. `page` is the list as the page has it, `pass` the
reopening of what local storage remembers, which is one request after another and
ends in a read of the list; `reading` is a read under way. A handler, the render it
causes and the effects of that render are one step (`Render`). `DaemonLists`,
`DaemonServes` and the answers are the two halves of a request, so that a list may
be read by the daemon before a close and drawn after it. `Restart` empties the
daemon, `Reload` the page, `Move` takes or brings a directory.

### Dialogs

Each dialog is a record of its shape, with the name of its component: whether it
opens at once or on an answer, whether a change of its fields asks the plan again,
what locks it while it runs, and what it proposes next. `shown` has one dialog for
each place that draws them and `drawn` their order; the user acts upon the last.
`plans` and `runs` are the requests under way, one for each hook, since a hook tells
only the caller of its last. `Propose`, `Replan`, `Change`, `Press`, `PlanAnswers`,
`PlanFails`, `Settled` are the transitions; a `Click` on the page needs a page with
no dialog before it.

### Changes and CommitLog

A file of `Changes` is the set of its changed lines, each staged or not, and a diff
the lines of a side in order, so a position means another line once something has
moved. A choice is made by position and sent with the diff it was made in, which the
daemon compares with what it reads (`Accepted`). `Draw` is the render after any
change: it drops a choice of another diff, and gives the keyboard to a row's
neighbour when the row pressed has left (`Hands`, `Heir`).

`CommitLog` draws the rows about `top`; a row that is not drawn cannot have focus,
one whose page has not come cannot take it. `Draw` is the render (the row of
tabindex zero, the row the keyboard waits for, pages asked). `locating` holds the
look-ups of a commit's row; a page lands, fails, and is asked again.

### Drafts

A text is a number, and `New` one that was never seen. The buffer `draft` is laid
over `seen`; `operation` is a save, a resolution or a whole side on its way. A save is two
steps of the daemon: `CheckSave` reads the file and compares it with what the save names,
and `RunOperation` renames the text written beside it over whatever is there by then, so
an editor may write in between. `over` is what the buffer was typed over, for the
properties.
`prepared` is the message git would start from, per key (amending or not, the stop
of an operation), and `commit` a commit on its way. `Leave` and `Return` are the
changes of view, which keep the message and drop the buffer. Both happen, and the user
types, while a save or a commit is under way.

### Transfer

Lines are numbers. `Say`, `Take`, `Deliver`, `Drained` are git's write, the pump's
goroutine, its write to the connection and its end; `Report` is the last event,
whatever the queue dropped. `wire` holds what is written and not read, and the page
reads one event or half of one (`torn`). A tick passes only when nobody has
anything to do, so the deadlines race the slow things alone: what a pull or a push asks
git before the headers (`AskTime`), git, what git leaves behind (`WaitDelay`), the reading
of the references (`RefsTime`), the network, and a page that sleeps. A tick is longer
than it takes an event to reach a page that reads, and nothing is said of a connection
that is slow and not cut.

### Conflict

A text is the sequence of its lines and `chunks` what it stands for, from git's
writing (`Written`, in either style) through choices and deletions. `Regions` is
the parser, `Before`, `After`, `SkippedBefore` the layout, `Choose` the edit.

### Adding

`mode` is the panel drawn. `scanned` and `typedDepth` are the box of the depth and
the scan beside it, `variables` and `requests` React Query's one mutation, whose
failure is told to the last caller only. `form`, `asking`, `plan` are the fields and
the command of a clone or a creation; a panel that leaves the screen forgets them
(`Fresh`), and what it asked goes on.

### Rewrite

A commit is what it holds, whose message it has, and whether git wrote it again.
`dialog` holds the rows, `request` the run: `CheckPlan` is the daemon's comparison
with the branch, `RebaseInteractive` git's start and `RebaseRefused` what fails before it
(the list that cannot be written, work that is not committed). `Line` executes a row, with the
fast-forward over an untouched bottom, conflicts and stops; `Continue` and `Abort`
are the banner's. `PlanOutcome` is the answer, from
two reads that may fail: without the references the plan is told as failed, without git's
state as run (`unread`). `Summary` is what the dialog says before, `toast` what the page
says after, and `RewritesAreTold` compares both with what git did.

### Menu and Toasts

`open` is the component's state and `shown` the browser's, which hides the popover
by itself between a pointer's fall and its rise, and tells it in a later `toggle`.
`PointerDown`, `PointerUp` and the clicks are three steps.

In `Toasts` what is pushed, dismissed or announced waits for `Render`, any number of
them together, which applies them in order and runs the effects: timers for the cards that go by themselves, the live region that speaks
next, and the claim of the top layer over a dialog.

## 3. Runs

Passing runs, all exhaustive:

| run | instance | what it shows |
|---|---|---|
| `daemon` | the stream: one tab, ring 2, channel 1, panel 2, four events a process, one restart. `Exec`: two calls on one directory, any of six argument lists each, children, a terminal | replay and channel together have neither hole nor overlap until the channel overflows; a tab never hears an event twice or out of order; the panel draws no command twice; the stream refines `OrderedFeed`; once connections stop being lost, the tab ends level; shutdown ends every stream. The slot is held exactly while a write runs; no git meets the lock of a git that is running; a lock file that a signal left is told of, as a timeout, before another git meets it; every call returns |
| `watch` | the watcher: one repository with a directory and a ref directory below it that comes and goes, or two repositories of a directory each that change at once; follow queue 1, change channel 1, all three paces. The panels: any of the thirteen queries, two moves | the two maps are each other's reverse and nothing is sent on a closed channel, at any pace; what is watched, booked and open agree at rest; a reported change is announced, unless it finds the channel full of the other repository's. After any two commands or announced changes each panel ends on what the daemon holds, or says it could not read it, and no panel goes back |
| `history` | two requests, two chosen walks, ceiling 1, two moves, a shallow clone, failures, a close | what is answered was the state at some moment of the request; every request ends, so every mutex is given back |
| `memory` | undo: two handlers, two branches, three commits, moves in a terminal and requests four together. Walks: three chosen ones, ceiling 2, four requests. Repositories: two handlers, two paths, three directories, four calls | undo does what was shown, reverses the last move, refuses only what moved, and the record of a deletion is dropped only when it has lapsed; the ceiling holds, and what it drops is never fresher than what it keeps; one descriptor and one place in the list for each open repository, which is watched or says it is not, and no request is served from a directory that replaced the one opened |
| `screens` | tabs: three paths, three requests, a restart, a reload, lists that fail. Dialogs: one of each of sixteen shapes, four gestures. Boxes: two files, one in conflict, five texts, four gestures, typing and leaving while a save or a commit is under way, editors that write in between. Transfers: one fetch or pull, three lines, queue 1, a cut connection, a page that sleeps | tabs are kept, closed ones stay closed and the reopening ends; a dialog that asks again runs what it shows, once; a save is written only over the text its check read, a message is recorded once unless its view was left, and only what is typed over something being saved or committed can be lost; a transfer that settles by its answer is told line by line and as it ended, the daemon gives up on a silent git before the page does, and every request settles |
| `lists` | files: three lines in two files, an edit. Commits: five, in two walks, pages of 2. Conflicts: two, both styles, lines that look like markers. Adding: two places, depths about the ceiling, typing while a plan is read. A rebase of three commits, four gestures, a branch that moves, answers that cannot be read. A menu of two items. Notifications: two titles, stack 2, four arrivals, any number of them before a render | the lines acted upon are those chosen; the keyboard reaches every row, is kept and never taken; the resolver reads what git wrote; the dialog that adds runs what it says; a plan does to the branch what was said before, and its answer is true as far as it could be read; a menu says what is on screen; what failed is drawn and said, but for the three cases of section 6 |

Runs in which TLC finds a sentence of the code or of its comments violated:

| run | the sentence |
|---|---|
| `watch_nested` | `internal/watch/watch.go:47`: the watch follows the tree of refs |
| `undo_forgets` | `internal/api/undo.go:70`: a command that did not start never spends the record of a deletion |
| `transfer_deadline` | `web/src/lib/fetchTimeout.ts:30`: the deadline that fires is the daemon's |
| `conflict_twice` | `web/src/app/conflict.ts:279`: no line is drawn twice |
| `cache_unheard` | `web/src/app/useStash.ts:44`, `useWorktrees.ts:10`: the list is read again when git's directory moves |
| `rewrite_told` | `web/src/app/interactiveRebase.ts:142`: the commits counted keep their hashes |

Bounds. The capacities are as small as they can be while an element can be both
inside and beyond them: a channel of one overflows at the second event, a ring of
two loses its first at the third, and four events leave a replay that is whole, one
that is cut and one that is empty. Two handlers, requests or calls are enough for
each pair of sections to interleave; what a third would add is a second waiter for
one mutex, which the code treats as the first. Two moves under a panel are a command
and something that meets it. Four gestures on dialogs open one, change it, confirm it
and open another over its answer; four in the boxes type, ask, type again and leave. The two deadlines of a transfer are 4
ticks and 2, with 1 for `WaitDelay` and up to 2 for what is read before and after git: the
order of the code's 315, 300, 5 and 60 or 30 seconds, in which what is read takes more than
the deadlines leave.
Three paths are one on screen, one open beside it and one to be opened or closed: with
two, a page that falls back to the first of the list is always right.
Five commits in pages of two put rows in the window, below it and on a page that has
not come. Three rows of a plan are an untouched one, one that is folded and one
below; four gestures reach each pair of instructions and a move. Depths 0, 1 and 5
are under the least, allowed, and over the ceiling. `Max...` constants only cap what
happens in a behaviour, and each is named where it is declared; where a run caps two
of them together its `Step` says so. Every run allows a deadlock because each system
may really stop: nobody has to open a repository, ask, press or publish, and the
bounds run out.

Symmetry is used in `memory` only, over handlers, paths and chosen walks, which no
definition tells apart; it checks no liveness property.

`MayHappen`, in the modules of the page, names things that do occur and under which a
property of the module fails. The runs leave these out, in so far as they break what
is checked, and section 6 says what each of them does; giving one back to a
configuration shows its counterexample. Kept in the runs are lists that fail, the
first one of a page among them (`Session`), typing while a plan is read (`Adding`), typing
and leaving while a save or a commit is under way (`Drafts`), and a cut connection and a
sleeping page (`Transfer`).

## 4. Fairness

Fairness is only asked of what a runtime, a kernel or a browser guarantees.

- `EventStream`: a handler that can write does (weak). Go's `select` draws at random
  among the ready branches, so a branch that is ready again and again is taken
  (strong, for the three branches). EventSource reconnects by itself (weak). The
  daemon need not publish or stop, and `TabsEndLevel` is for behaviours in which
  connections stop being cut.
- `Watcher`: goroutines that can run do, timers end, a call that started goes on.
  Git, the callers and `Close` owe nothing.
- `GitExec`: the goroutine of a call, the deadline and the signal. Neither git nor
  what it started owes anything: that is why `Exec` has deadlines and `WaitDelay`.
- `HistoryStore`: the steps of a request; git commands end because `GitExec` shows
  that every call of `Exec` does, and a Go mutex is handed to a waiter.
- `ScreenCache`: a command's promise settles, an event arrives, the timer of a poll
  rings, the daemon answers a read and the page draws it. The user and the terminal
  owe nothing; a read may fail, and then the panel says so.
- `Session`: what the daemon was asked it answers, and the page handles the answer.
- `Transfer`: the daemon's goroutines, the page while it is awake, and time. Git and
  the network owe nothing, which is what the two deadlines are for.

## 5. Proofs

TLC's answers hold for the instances above. The theorems hold for every value of
the constants: any number of tabs, calls, paths and directories, any capacities and
any bound, under the assumption each model states of its constants (capacities are
positive, bounds are natural numbers, a value that stands for nothing is nothing
else). A hypothesis beyond that is written in the theorem and named below.

`PROJECT.json` lists the theorems. They state every property of the runs `daemon`,
`watch`, `history`, `memory` and `screens` that is not one of liveness, and of
`lists` those about choosing what to keep and about the plan of a rebase. Each follows from an inductive invariant,
with one lemma for each action, and TLC has checked that invariant first.

### EventStreamProofs

`NoGapWhileKeepingUp` is not inductive: a replay is gap-free because the ring it is
cut from has no hole, so `RingIsTheRecentPast` is part of the invariant, and a tab
that subscribes starts from a blank connection, so that a connection that is down
equals `NoConnection` is part of it too. `IInv` is these with the types. The lemmas
say what one operator does to a sequence (`RetainedKeepsTheRecentPast`,
`OfferIsGapFree`, `ReplayIsWhatWasMissed`, ...), one lemma per action lifts that to
`IInv`, and `Invariance`, `TypeCorrect`, `RingHoldsTheRecentPast` and
`GapFreeDelivery` follow.

`DrawnOnce` takes that the two lists a panel is merged from repeat no number
(`PanelOK`), and that what is left of the second has none of the first. What is left
of a sequence is `Sifted`, in a module of its own: the n-th element kept is the one
with n - 1 kept before it, and `SiftedIsWhatIsKept` proves, by counting, that those
come in order and none is left out.

`HeardInOrder` is the refinement. What a tab is owed, replay and channel together,
ascends and lies after its cursor (`OwedInOrder`), even once the channel has
overflowed and what is left has a hole. From there each step of the stream maps to
one of `OrderedFeed`'s or to a stutter, and no event is heard after a later one.

### NewsProofs

The watcher has four invariants, each kept with the help of those before it. `Shaped`
has the types and that whatever names a directory beside a repository names one of that
repository; `WatcherTypes` and `ClosedIsSilent` need no more. `Settles` is that the two
maps are each other's reverse, with what a call that has taken a repository's
directories leaves meanwhile; it needs that one caller at a time opens and closes
(`OneCaller`), and section 6 says what two do. `Accounted` gives each watch of the
kernel somebody who will drop it or write it down: a map, a call or the worker; with
it `NoLeak` holds for any number of callers. `Calm` describes the pace of that name:
one directory at a time is made or removed, and its event, its place in the follow
queue and the worker's turn follow one another. `WatchesAreTheBooks` is all of it,
from `OneCaller` and `Room`, that the ceiling on directories is not reached.

A panel never goes back, for any number of commands and changes and any of the other
mishaps, from two hypotheses: `CacheMarks`, that the two marks of a read are no versions,
and `InOrder`, that nothing moves between a command and the drawing of an answer that
is written (`crossing`) and no older read lands over it (`overtaken`), the two orders
for which `settle.ts` promises nothing. The property is of a step, and takes that a
read under way is not older than what is drawn (`ReadsAreNotOlder`) and that an answer
which will be written is the newest there is (`AnswersAreNewest`);
`ReadsAndAnswersAreFresh` is that invariant.

### GitExecProofs

A call that takes the lock holds the slot of its directory from acquire to return
(`SlotGuardsTheWrite`); its git lives only in between (`GitRuns`); a lock file in
git's name belongs to a git that lives (`LockHeld`). A git that met another's lock
would share a slot with it, which holds one. `NoFightWithItself` states its one
hypothesis, that `writesTheIndex` names every command that takes the lock
(`LocksAreListed`): it is a fact about git's commands, not about the daemon. There is
one lemma per conjunct and in it one step per action.

`LeftLocksTold` follows a lock file from the git that made it. Whoever ends a git that
writes is the deadline, for a disconnection does not reach it (`Uninterrupted`); so a call
that holds a lock whose git was ended is one whose deadline passed, and returns with
`timed out` and nothing else (`Makers`). What another git meets (`Met`) is a lock whose
call no longer has its slot, that is, has answered. It has the same hypothesis.

### MemoryProofs

A window is of one moment of its request (`CurrentAnswers`) from one hypothesis,
`NeverReturns`: a reference does not come back to where it was, which `history_aba`
shows to be needed. What is kept was read after its fingerprint
(`LogsFollowFingerprints`), what a request compares it with was read later still and
half at a time (`ReadInOrder`), and one request is in an entry's refresh at a time
(`OneAtATime`). So a fingerprint that is still that of the repository leaves no room
to have moved between its two halves. `RoomForAll` only says that the bound on
requests leaves each its entry. `StoreTypes` and `BoundedStore`, on the ceiling and what
it drops, need no hypothesis; for the latter, no two walks that are held were last
asked for at the same count (`Ages`), so their ranks are distinct and fewer than the
ceiling of them may stay (`RanksAreDistinct`).

The registry's half of the invariant (`Books`) holds whatever the handlers do, since
each of its calls is made under its mutex: the list has every open repository once
and no other (`Lists`), and the descriptors follow the entries (`Counts`). What is
beside it is changed outside the mutex, and `EachOrderly` speaks of a repository none
of whose handlers has met another: there is at most one at work (`Alone`), what is
open is watched or says it is not unless that one is about to see to it (`Settled`),
and at each of its steps it may count on what the steps before it did (`Promised`).
`WholeRepositories` and `PromisesKept` follow. That an identifier serves what it was
given to needs none of this: it is a step's own check.

### UndoProofs

A request is followed from the reflog it read to the command it runs. `DiskOK` says
what any reflog holds, `PastOK` that its newest entry says how HEAD came to be where
it is, and `Holds` what a request at each of its steps may claim about what it has
read; `Reverses` is the relation of a plan with the reflog it was made from.
`Reversal` and `Promise` follow from these alone. `Agreement` also needs `UpToDate`,
that the plan a request is making is the one that would be made now unless something
moved since it was asked for, and one hypothesis: `rev-parse` fails only for want of
the object, as in the run. Where it may fail otherwise the theorem is false.

`Offer` is of the record of a deleted branch, which handlers look up, make and drop at
once, and has the same hypothesis: `undo_forgets` is what happens without it. A
handler about to drop what is remembered saw, some steps before, that the record it
holds could not be used (`Knowing`), and that is still so if what is remembered is that
record. It has then been remembered all along, for one that was replaced or dropped
does not come back: a record names who made it and in which request, and the one a
handler is making is newer than all of its that are remembered or held (`Making`,
`AllEarlier`).

### ScreensProofs

The boxes have four theorems, for whatever is typed, left or rewritten while a save or a
commit is under way. A save is written only when the daemon, reading the file for it,
found what the buffer was typed over (`SavesKeepOthers`): the buffer lies over a text that
was read (`Laid`), and an operation carries that text to the daemon, which compares
(`InOperation`). One message makes one commit, but for a commit whose view was left
(`RecordsOnce`), and only what is typed over a text being saved or a message being
committed is lost (`NothingTypedLost`); none of these has a hypothesis. That what is
offered and not typed is what git would start from takes two (`BoxesKeep`): the message
has been read again before it is committed (`"quick"`), and HEAD moves only by what the
page asks for (`"elsewhere"`); `OfferedIsRead` is the relation that is kept.

A transfer has the invariant `Flow`: the lines the pump took are, in order, those the
page has heard, those in the connection, the one in the goroutine's hand and those in
the queue. `AnswerComesLast` and `Answered` follow the answer along the same way, so
when the page has it, it has all that was kept (`TransferSafe`), for any capacities,
cut connections and pages that sleep. `DaemonFirst` compares the two clocks
(`Punctual`): once a pull or a push has been heard of, and for a fetch from the start, the
page's silence never exceeds git's by more than `WaitDelay`. Its assumption,
`BrowserIdle > DaemonIdle + WaitDelay`, is what the code has: 315 seconds
(`NETWORK_IDLE_MS`) against 5 minutes (`networkIdle`) and 5 seconds (`waitDelay`). What
comes before git and after it is as long as it likes (`AskTime`, `RefsTime`), and the
theorem excepts what it does to the order of the deadlines; `transfer_deadline` shows that
it must.

The tabs are kept, and closed ones stay closed (`TabsKept`, `ClosedStay`), if of
`TabInterruptions` only reads of the list that fail occur (`OnlyFailing`, true of the
run). There are three lists of what is open, the daemon's, the page's and one that was
read and not drawn, and what the store remembers beside them. `InLists` and
`InReading` say how they may differ: by what is being opened and what is being closed,
and by nothing else. Which tab comes on screen when one is closed is a matter of
places in a list, so `InOrder` says that each list goes on as the one before it did:
common paths are in the same order and new ones come after them. `InPass` is the
reopening, over a list that is empty, with all that is wanted open or left to open;
`OnScreen` says that what is on screen is what the user chose and that the store names
it whenever the page would have to find it again; `Gone` that what was closed is in
none of the lists. The invariant was checked by TLC on three paths before it was
proved, and the first attempt at it failed: after an opening, a read that fails puts
the first of the list on screen, which is now the interruption `"unlisted"`.

A dialog runs what it shows (`DialogsKeepTheirWord`), whichever dialogs the user is
given: of the plans under way that may open in the slot there is one at most, and what
was there when it was asked for is there still (`OneClaims`), since whatever else
changes the slot withdraws that claim; a dialog that plans again has the plan of what it
asks for (`BoxesAre`), and so has its run (`RunsAre`). That nothing runs twice is read
off the table of dialogs: what waits for its run is disabled meanwhile
(`AllDisabling`).

### ListsProofs

The lines acted upon are those chosen (`LinesStand`) for any files, diffs and gestures,
whatever is edited meanwhile. A choice is of positions. `Drawn` says that it was made
in the diff on screen as last read, `Meanings` that these positions are in that diff
and stand for the lines meant, `Asking` that a request still says so of the diff it
carries, whatever has become of the page since. The daemon accepts the request only if
it reads that diff, and then the positions are the lines. `KeyboardStays` rests on
`Keyboard`: a press lasts as long as what it asked for and its row, and a question on
screen has the keyboard.

A plan does to the branch what the dialog said of it (`PlansAreTold`), for a branch of
any length, any number of gestures, and conflicts, stops and amendments wherever they
fall. The theorem assumes that the branch does not move between the daemon's check and
git's start (`"between"`); without that TLC finds the counterexample section 6 tells. Of
the answer it says that a refusal means a branch that moved, a failure a conflict or a git
that never started, a stop where git stands and a success a plan that is done, unless the
references or git's state could not be read; even then a conflict is not told as a success.
The invariant is `PlansInv`. A plan has each commit of the branch once (`Rearranged`):
moving a row keeps that (`MovedAre`), and the daemon's comparison, which only counts and
looks for each, is enough to have it (`CheckedIs`). From there on `Rebased` says, of
every line git has done, what has become of the branch: a commit for each row kept as
one and a stop for each that asks (`Counts`), the changes of the kept rows and of no
other (`Holding`), the untouched rows where they were (`Bottom`), and above them nothing
that is not written again (`Top`). The last two need each an exception that came out
of the proof and was put to TLC: into the last untouched row may be combined what comes
first above it (`Capped`), which is what `rewrite_told` finds, and the commit that git
has stopped at is not written again until the user amends it. That the first kept
row does not combine is what gives every other one a target (`HasATarget`).

### Only model-checked

- Liveness (`StreamsSettle`, `ChangesAreAnnounced`, `ScreenCatchesUp`,
  `EveryCallReturns`, `EveryRequestEnds`, `PassEnds`, `EveryRequestSettles`):
  fairness and `ENABLED` are beyond the prover.
- `ConflictsAreRead`: what the parser makes of a text is a fold over its lines, and to
  prove it of every text takes induction over the text, through theorems that none of
  the installed provers can instantiate.
- `CommitsAreReachable`, `AddingTellsTheTruth`, `MenusKeepTheirWord`,
  `NoticesAreTold`: within reach, and not done.
- The six properties that TLC finds violated, of course.

No module here declares a RECURSIVE operator: where the code recurs, the model has a
recursive function or a fold.

## 6. Known limits

What the code does, found while modelling, that no run above states. Most were
counterexamples to a stronger property than the one the runs check, and the weaker
one names the condition under which it holds. Those with a configuration named in
brackets can be looked at with it.

The daemon:

- A tab away for longer than the ring is resumed from the oldest event the ring
  has, and is not told (`events.go:329`); the sequence it sees has a hole.
- After a restart the panel and the backlog hold numbers of two processes, so a
  command of the new one is hidden behind the old (`useEvents.ts:109`, `122`;
  [`stream_repeat`]), and the merged list is not in the order of time
  (`useEvents.ts:29`).
- A ref directory removed and made again between the follow worker's `Add` and its
  recording is booked and not watched (`watch.go:425`). A repository opened again
  while a worker takes back a watch loses it (`watch.go:414`). Two calls for one
  repository at once leave a watch with no book, or a book with no watch
  (`watch.go:161`). A change is dropped, and never told, when the channel is full of
  other repositories' (`watch.go:457`; [`watch_crowded`]), though the comment there says
  that what is queued carries its meaning. Opening a repository again stops the timer of a
  change that waits (`watch.go:244`).
- The child of a git that was killed goes on writing, and the slot is given to the
  next call meanwhile (`serialize.go:26`; [`exec_serial`]). Two linked worktrees
  share the locks of their references and have a slot each (`serialize.go:131`).
- A git that fails by itself as its deadline passes is reported as timed out
  (`command.go:606`), and one that exits cleanly as its signal arrives as failed
  (`command.go:508`).
- References that move and come back between two reads, or a shallow clone that is
  deepened, keep their fingerprint (`history.go:346`; [`history_aba`] has the
  first). A request past its lookup makes an entry anew after `Forget`
  (`repos.go:213`).
- A close that an open overtakes drops the watch or the warning of that open
  (`repos.go:234`); an open that fails leaves the warning there was
  (`registry.go:401`); the record of a deletion outlives a repository replaced at
  its path, since the identifier is a hash of the path (`repos.go:224`).
- Undo's soft reset moves whatever branch HEAD is on by then, if HEAD leaves the
  plan's branch after its last read (`api/undo.go:190`). A checkout of another
  branch at the same commit keeps the offer to restore (`git/undo.go:213`). A tip
  that moves between its reading and the deletion is remembered as it was read.
- A commit that lands between the check of a rebase's plan and git's start is
  dropped without a word (`api/interactive.go:207`; `Rewrite`, `"between"`). A plan that
  ran is told as failed when the references cannot be read after it, and one that stopped
  at an `edit` as run when git's state cannot (`api/interactive.go:239`, `247`; the comment
  there leaves the latter to the banner).
- What an editor writes between the check of a save and its rename is replaced unread
  (`edit.go:219`, `479`; [`drafts_unread`]), though `Save` is said to refuse if the file
  moved since it was read.

The panels (`ScreenCache`):

- `"elsewhere"`: what a terminal does to stashes, worktrees, remotes, submodules and
  LFS patterns reaches no panel (the run `cache_unheard`). `"follow"`: moving HEAD
  changes the lists of worktrees, submodules and LFS patterns, which its hooks do not
  drop. `"first"`: a drop during a first read does not ask again. `"crossing"` and
  `"overtaken"`: an answer is written over something newer, or an older read over an
  answer, by the hooks that write without cancelling (`useRemoteManage.ts:23`,
  `useLFS.ts:60`). `"lost"`: a command runs, its answer does not come back, and the
  hook has no `onError` that settles.

The tabs, the dialogs and the boxes:

- `Session`: a read that fails at the end of a reopening (`"final"`) leaves the
  reopening unended, and a restart or a reload in its midst (`"midway"`) what was
  remembered forgotten (`Workbench.tsx:204`); of two opens together, or a list that
  overtakes the answer to a closing, another tab than the one chosen is on screen,
  and the second reopens what was closed. After an opening whose list cannot be read
  again (`"unlisted"`) the first of the list is on screen and not what was opened:
  found in proving `TabsAreKept`, and seen by TLC from three paths on.
- `Dialogs`: a plan that was asked for on a page lands on the page where the user
  is by then (`historyProposals.ts:99`; [`dialog_reopens`]). A worktree's dialog
  runs what was planned for other fields (`WorktreeDialogs.tsx:102`). Escape closes
  a dialog whose command runs (`Dialog.tsx:57`), two places' dialogs stack, a plan
  that fails leaves `Reading what ...` in four of them, and the banner's confirmation
  outlives its operation.
- `Drafts`: after a save that was refused the file is not read again, nor is there
  the Reload that `useWorkingDirectory.ts:135` promises ([`drafts_unread`]). What is
  typed while a save or a commit is under way goes with its answer
  (`FileEditor.tsx:131`, `CommitBox.tsx:191`), and a message whose commit answers after
  the view was left is there to be committed again (`CommitBox.tsx:83`): the properties
  except these two and no more. A message prepared before HEAD moved is offered after (`"quick"`, `"elsewhere"`,
  `useWorkingDirectory.ts:273`).
- `CommitLog`: a row looked for is scrolled to in another walk, or over something
  else that was opened meanwhile (`"rescoped"`, `"left"`, `HistoryView.tsx:203`).

Transfers:

- A transfer that the page gives up on is not told in the words meant for it: the
  answer's headers come before git starts, so the deadline ends a read, outside the
  `catch` that has them (`client.ts:1432`; [`transfer_shown`]). Fetch, pull and
  push share one state, so of two at once one button shows no spinner and can be
  pressed again (`RemoteActions.tsx:269`; [`transfer_shown`]), and they write over
  each other's line of progress. The page's deadline counts what the daemon does before git
  and after it, two commands for a pull or a push and the references, of 30 seconds at most
  each, against the 15 there are to spare; when they are slow the page gives up first, on
  a transfer that is under way or one that has succeeded (the run `transfer_deadline`).
  References that cannot be read after a push are told as a push that
  failed.

The others:

- `Adding`: text typed while the plan is read leaves a command on screen for other
  fields, and it is run ([`adding_runs_other`], `CloneRepository.tsx:57`). Of two
  opens pressed together the first one's failure is shown nowhere. An answer that
  comes after the dialog was closed takes the screen.
- `Rewrite`: a git that the deadline killed is taken to stand in a conflict. Commits above a dropped one are counted as written again even where
  git writes none; the dialog does not name the message that `fixup -C` replaces.
- `Conflict`: a line of seven equals signs on our side is read as the separator.
- `Menu`: an item that leaves an open menu while it has the focus leaves the menu
  open without it (`"shrinks"`), a row that scrolls as a menu is dismissed by a click
  takes the focus from what was clicked (`"racing"`), and a row moved without
  scrolling or resizing is not followed.
- `Toasts`: of the arrivals before one render only the last is said, and when their
  number is even and its sentence was the last one said too, it is written over itself and
  not heard (`ToastHost.tsx:201`). A repeat that comes before the render that takes its card
  away, by hand or by its timer, goes with the card (`ToastHost.tsx:98`, `197`). A card that
  `MAX_STACK` newer ones follow before a render is never drawn. Whether a popover over a modal dialog can be pressed is the
  browser's.

## 7. What is not modelled

- The daemon's side of merge, rebase, cherry-pick, revert and reset: each checks
  that HEAD is where its plan found it and runs one command, as `Undo` and `Rewrite`
  have it; the page's side is `Dialogs`.
- Stash, tags, worktrees, submodules, LFS: one git command and its parsed output
  each; the command is `GitExec`, the list on the page `ScreenCache`. A stash entry
  is addressed by a position and checked by its hash in one handler.
- Durable saves: that a path names the old content or the new one whatever is
  interrupted is promised in `edit.go:426-436`; it rests on what a file system does with
  writes, syncs and renames across a crash, of which there is no model here. The check of
  a save and its rename are in `Drafts`.
- Patches of chosen lines, graph lanes, parsers of git's output: pure functions,
  covered by tests and fuzzers; `Changes` takes a patch to do what it is asked.
- Clone and init destinations on the disk: claimed, verified and discarded in one
  handler each.
- Tokens, headers, the network boundary (`session`, `protect`, `publicurl`,
  middlewares): each is a check of one request that keeps nothing.
- In `Changes`, the third list, of files in conflict, is treated as unstaged files,
  and renames and binary files are left out; in `Rewrite`, `git rebase --skip` and
  merges in the range.
- Wording, layout, icons, themes, the showcase and the folds of the sidebar.
- On Windows fsnotify answers `Add` from the goroutine that delivers events
  (`watch.go:64`), which is why a worker adds; the models have inotify below them.

## 8. Plan

Order of what has been built: the event stream first (every tab depends on it),
then the watcher, `Exec`, the history, the registry, undo; then the page, from the
panels and the dialogs, that every command goes through, to the single components.
What could be added:

1. `EditSave`: a save's temporary file, syncs and rename with a crash between any
   two (`edit.go:430-500`), once a fault model of the file system is agreed.
2. `GraphLanes` and `PatchBuilder`: the algorithms against declarative references
   over bounded inputs.
3. Proofs: what is named as provable at the end of section 5.

## 9. Running

    tlc -workers 2 -config daemon.cfg MCDaemon
    tlapm EventStreamProofs.tla

Every configuration has the name of its run, and `PROJECT.json` names the module of
each. The configurations that section 6 names in brackets, `stream_repeat`, `watch_crowded`,
`exec_serial`, `history_aba`, `dialog_reopens`, `drafts_unread`, `transfer_shown` and
`adding_runs_other`, run with `EventStream`, `MCWatcher`, `MCGitExec`, `HistoryStore`,
`MCDialogs`, `Drafts`, `Transfer` and `Adding` in that order, and end in a
counterexample; `drafts_unread` and `transfer_shown` name two properties that are
violated, and show the second's counterexample when the first is left out.

