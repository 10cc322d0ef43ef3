------------------------------- MODULE Watcher -------------------------------
(***************************************************************************)
(* internal/watch/watch.go: the watcher that follows the git directories   *)
(* of open repositories, with the goroutines around it.                    *)
(*                                                                         *)
(* Every section under Watcher.mutex is one step.  The calls into fsnotify *)
(* are made outside it and are steps of their own, so a Watch or a Forget  *)
(* is a walk of several steps between which the event loop, the follow     *)
(* worker, the debounce timers and other callers run.                      *)
(*                                                                         *)
(* The disk is a tree of directories; a write is any change git makes to a *)
(* file of one.  `kernel` is what inotify watches and `queue` the events   *)
(* fsnotify has still to hand over.  The list of a repository is a set:    *)
(* that it may name a directory twice only makes its cap tighter.  The     *)
(* files ignorable() drops and the `capped` flag, which only silences a    *)
(* log line, are left out.                                                 *)
(***************************************************************************)
EXTENDS Integers, Sequences, FiniteSets

CONSTANTS
    Repos,                  \* repository identifiers
    Dirs,                   \* the directories that may exist
    Owner,                  \* Dirs -> Repos: whose git directory each is in
    Parent,                 \* Dirs -> Dirs \cup {Absent}; Absent for a git directory
    Callers,                \* request handlers that open and close repositories
    MaxWatchedDirectories,  \* maxWatchedDirectories, watch.go:53
    FollowBuffer,           \* followBuffer, watch.go:105
    ChangesBuffer,          \* capacity of Watcher.changes, watch.go:120
    MaxDisk,                \* bound: what git does on disk
    MaxCalls,               \* bound: calls of Watch and Forget
    Paces,                  \* how much may happen at once, of "any", "patient", "calm"
    Absent

ASSUME WatcherAssumption ==
    /\ Absent \notin Repos \cup Dirs /\ \A s \in SUBSET Dirs : s # Absent
    /\ Owner \in [Dirs -> Repos]
    /\ Parent \in [Dirs -> Dirs \cup {Absent}]
    /\ \A d \in Dirs : Parent[d] # Absent => Parent[d] # d /\ Owner[Parent[d]] = Owner[d]
    /\ {MaxWatchedDirectories, FollowBuffer, ChangesBuffer, MaxDisk, MaxCalls} \subseteq Nat
    /\ Paces \subseteq {"any", "patient", "calm"}

Roots == {d \in Dirs : Parent[d] = Absent}

VARIABLES
    pace,           \* one of Paces, for the whole of a behaviour
    exists,         \* the directories on disk
    kernel,         \* those inotify watches
    queue,          \* inner.Events, oldest first
    closing,        \* how far Close has come
    byDirectory,    \* Watcher.byDirectory
    directoriesOf,  \* Watcher.directoriesOf; Absent where the map has no entry
    timer,          \* the timer Watcher.pending holds for each repository
    orphans,        \* timers that run though pending lost them
    loose,          \* announcements that are due though pending lost them
    follow,         \* Watcher.follow
    follower,       \* what followNewDirectories is doing
    changes,        \* Watcher.changes
    closed,         \* Watcher.closed
    call,           \* what each caller is doing
    owed,           \* what the interface is owed about each repository
    disk, calls     \* how much of the bounds is spent

fs == <<pace, exists, disk>>
books == <<byDirectory, directoriesOf>>
debounce == <<timer, orphans, loose>>
watcherVars == <<fs, kernel, queue, closing, books, debounce, follow, follower,
          changes, closed, call, owed, calls>>

Event == [dir : Dirs, op : {"write", "create", "remove", "stale"}, name : Dirs \cup {Absent}]
FollowRequest == [repo : Repos, dir : Dirs]
TimerState == {"none", "armed", "fired", "stopped"}

Idle == [op |-> "idle", repo |-> Absent, at |-> "idle",
         todo |-> {}, added |-> {}, dropping |-> {}]
FollowerIdle == [at |-> "idle", repo |-> Absent, dir |-> Absent]

WatcherInit ==
    /\ pace \in Paces
    /\ exists \in {Roots, Dirs}
    /\ kernel = {}
    /\ queue = <<>>
    /\ closing = "no"
    /\ byDirectory = [d \in Dirs |-> Absent]
    /\ directoriesOf = [r \in Repos |-> Absent]
    /\ timer = [r \in Repos |-> "none"]
    /\ orphans = [r \in Repos |-> 0]
    /\ loose = [r \in Repos |-> 0]
    /\ follow = <<>>
    /\ follower = FollowerIdle
    /\ changes = <<>>
    /\ closed = FALSE
    /\ call = [c \in Callers |-> Idle]
    /\ owed = [r \in Repos |-> "nothing"]
    /\ disk = 0
    /\ calls = 0

Listed(r) == IF directoriesOf[r] = Absent THEN {} ELSE directoriesOf[r]
Busy(r) == \E c \in Callers : call[c].repo = r

-----------------------------------------------------------------------------
(***************************************************************************)
(* The disk, and fsnotify's view of it.  A change is reported when the     *)
(* directory it happens in is watched.  It is then owed to the interface,  *)
(* unless the repository's watch is being taken or dropped at that moment; *)
(* and where nothing waits for the follow worker, the watch of a ref       *)
(* directory may be dropped before what came through it is handed over.    *)
(***************************************************************************)
Owed(d) ==
    /\ d \in kernel /\ directoriesOf[Owner[d]] # Absent /\ ~Busy(Owner[d])
    /\ d \in Roots \/ pace = "calm"

Report(dir, event) ==
    /\ disk < MaxDisk
    /\ disk' = disk + 1
    /\ queue' = IF dir \in kernel THEN Append(queue, event) ELSE queue
    /\ owed' = IF Owed(dir) THEN [owed EXCEPT ![Owner[dir]] = "change"] ELSE owed
    /\ UNCHANGED <<pace, closing, books, debounce, follow, follower, changes,
                   closed, call, calls>>

AtRest ==
    /\ queue = <<>> /\ follow = <<>> /\ follower = FollowerIdle
    /\ \A c \in Callers : call[c] = Idle
    /\ closing = "no"

(***************************************************************************)
(* When git makes and removes directories.  "any": at any time.            *)
(* "patient": when the watcher has caught up with everything.  "calm": so  *)
(* do the callers, a window lasts until the follow queue is empty, and the *)
(* machine has a watch left for each directory that is followed.           *)
(***************************************************************************)
Settled == pace # "any" => AtRest

WriteFile(d) ==
    /\ d \in exists
    /\ Report(d, [dir |-> d, op |-> "write", name |-> Absent])
    /\ UNCHANGED <<exists, kernel>>

MakeDirectory(d) ==
    /\ d \notin exists
    /\ Parent[d] \in exists
    /\ Settled
    /\ exists' = exists \cup {d}
    /\ Report(Parent[d], [dir |-> Parent[d], op |-> "create", name |-> d])
    /\ UNCHANGED kernel

\* The kernel drops the watch on a directory that is gone.
RemoveDirectory(d) ==
    /\ d \in exists \ Roots
    /\ \A child \in exists : Parent[child] # d
    /\ Settled
    /\ exists' = exists \ {d}
    /\ kernel' = kernel \ {d}
    /\ Report(Parent[d], [dir |-> Parent[d], op |-> "remove", name |-> d])

\* inner.Add: no directory, no watch; and the machine may be out of watches.
Added(d) == d \in exists /\ closing # "closed" /\ kernel' = kernel \cup {d}
NotAdded == UNCHANGED kernel

\* inner.Remove: fsnotify skips what is still to come of a watch that is gone.
Removed(d) ==
    /\ kernel' = kernel \ {d}
    /\ queue' = [i \in DOMAIN queue |->
                    IF queue[i].dir = d THEN [queue[i] EXCEPT !.op = "stale"] ELSE queue[i]]

-----------------------------------------------------------------------------
(* Debouncing.  All of this happens under the mutex. *)

Count(counter, r, n) == [counter EXCEPT ![r] = @ + n]

\* debounceLocked: a timer of the map is reset, and one that had fired runs twice.
Debounce(r) ==
    /\ timer' = [timer EXCEPT ![r] = "armed"]
    /\ loose' = IF timer[r] = "fired" THEN Count(loose, r, 1) ELSE loose
    /\ UNCHANGED orphans

\* timer.Stop and the delete beside it, which a timer that fired outlives.
StopTimer(r) ==
    /\ timer' = [timer EXCEPT ![r] = "none"]
    /\ loose' = IF timer[r] = "fired" THEN Count(loose, r, 1) ELSE loose
    /\ UNCHANGED orphans

\* The window ends: announce waits for the mutex.
Fire(r) ==
    /\ pace = "calm" => follow = <<>> /\ follower = FollowerIdle
    /\ \/ /\ timer[r] = "armed"
          /\ timer' = [timer EXCEPT ![r] = "fired"]
          /\ UNCHANGED <<orphans, loose>>
       \/ /\ orphans[r] > 0
          /\ orphans' = Count(orphans, r, -1)
          /\ loose' = Count(loose, r, 1)
          /\ UNCHANGED timer
    /\ UNCHANGED <<fs, kernel, queue, closing, books, follow, follower,
                   changes, closed, call, owed, calls>>

SendMutant(r) == changes' = Append(changes, r)  \* whatever the channel holds

HasRoom == Len(changes) < ChangesBuffer
Queued(r) == \E i \in DOMAIN changes : changes[i] = r

\* The non-blocking send.
Send(r) == changes' = IF HasRoom THEN Append(changes, r) ELSE changes

\* What is dropped is told by an announcement of the same repository that waits
\* in the channel, or it is lost.
Lose(r) ==
    owed' = IF HasRoom \/ Queued(r) \/ owed[r] = "nothing" THEN owed ELSE [owed EXCEPT ![r] = "lost"]

\* announce deletes whatever timer the map holds, its own or a later one.
Due(r) ==
    \/ /\ timer[r] = "fired"
       /\ timer' = [timer EXCEPT ![r] = "none"]
       /\ UNCHANGED <<orphans, loose>>
    \/ /\ loose[r] > 0
       /\ timer' = [timer EXCEPT ![r] = "none"]
       /\ orphans' = IF timer[r] = "armed" THEN Count(orphans, r, 1) ELSE orphans
       /\ loose' = IF timer[r] = "fired" THEN loose ELSE Count(loose, r, -1)

AnnounceMutant(r) ==  \* the closed check is gone
    /\ Due(r)
    /\ Send(r) /\ Lose(r)
    /\ UNCHANGED <<fs, kernel, queue, closing, books, follow, follower,
                   closed, call, calls>>

Announce(r) ==
    /\ ~closed
    /\ Due(r)
    /\ Send(r) /\ Lose(r)
    /\ UNCHANGED <<fs, kernel, queue, closing, books, follow, follower,
                   closed, call, calls>>

\* startWatcher's goroutine in cmd/yagit: what it takes it publishes.
Consume ==
    /\ changes # <<>>
    /\ changes' = Tail(changes)
    /\ owed' = [owed EXCEPT ![Head(changes)] = "nothing"]
    /\ UNCHANGED <<fs, kernel, queue, closing, books, debounce, follow,
                   follower, closed, call, calls>>

-----------------------------------------------------------------------------
(* The event loop. *)

\* forgetDirectoryLocked.
ForgetDirectory(r, d) ==
    IF byDirectory[d] = Absent THEN UNCHANGED books
    ELSE /\ byDirectory' = [byDirectory EXCEPT ![d] = Absent]
         /\ directoriesOf' = [directoriesOf EXCEPT ![r] = Listed(r) \ {d}]

\* The hand-off to the follow worker, dropped when the queue is full.
HandOff(r, d) ==
    follow' = IF Len(follow) < FollowBuffer
              THEN Append(follow, [repo |-> r, dir |-> d]) ELSE follow

HandleReturnsMutant ==  \* a directory handed off is not announced as well
    /\ queue # <<>> /\ closing # "closed"
    /\ queue' = Tail(queue)
    /\ LET event == Head(queue)
           r == byDirectory[event.dir]
       IN IF event.op = "stale" \/ r = Absent THEN UNCHANGED <<books, debounce, follow>>
          ELSE /\ IF event.op = "create" /\ event.name \in exists
                  THEN HandOff(r, event.name) /\ UNCHANGED debounce
                  ELSE Debounce(r) /\ UNCHANGED follow
               /\ IF event.op = "remove"
                  THEN ForgetDirectory(r, event.name) ELSE UNCHANGED books
    /\ UNCHANGED <<fs, kernel, closing, follower, changes, closed, call,
                   owed, calls>>

Handle ==
    /\ queue # <<>>
    /\ closing # "closed"
    /\ queue' = Tail(queue)
    /\ LET event == Head(queue)
           r == byDirectory[event.dir]
       IN IF event.op = "stale" \/ r = Absent
          THEN UNCHANGED <<books, debounce, follow>>
          ELSE /\ IF event.op = "create" /\ event.name \in exists
                  THEN HandOff(r, event.name) ELSE UNCHANGED follow
               /\ IF event.op = "remove"
                  THEN ForgetDirectory(r, event.name) ELSE UNCHANGED books
               /\ Debounce(r)
    /\ UNCHANGED <<fs, kernel, closing, follower, changes, closed, call,
                   owed, calls>>

\* Close, in its two halves: the timers under the mutex, fsnotify outside it.
StopTimers ==
    /\ closing = "no"
    /\ closing' = "timers"
    /\ timer' = [r \in Repos |-> IF timer[r] = "armed" THEN "stopped" ELSE timer[r]]
    /\ UNCHANGED <<fs, kernel, queue, books, orphans, loose, follow, follower, changes,
                   closed, call, owed, calls>>

CloseInner ==
    /\ closing = "timers"
    /\ closing' = "closed"
    /\ kernel' = {}
    /\ UNCHANGED <<fs, queue, books, debounce, follow, follower, changes, closed,
                   call, owed, calls>>

\* run returns and its defer closes both channels.
EndRun ==
    /\ closing = "closed"
    /\ ~closed
    /\ closed' = TRUE
    /\ queue' = <<>>
    /\ UNCHANGED <<fs, kernel, closing, books, debounce, follow, follower,
                   changes, call, owed, calls>>

-----------------------------------------------------------------------------
(* The follow worker. *)

FollowCheck ==
    /\ follow # <<>>
    /\ follower = FollowerIdle
    /\ follow' = Tail(follow)
    /\ LET request == Head(follow)
       IN follower' = IF \/ closed
                         \/ byDirectory[request.dir] # Absent
                         \/ Cardinality(Listed(request.repo)) >= MaxWatchedDirectories
                      THEN FollowerIdle
                      ELSE [at |-> "add", repo |-> request.repo, dir |-> request.dir]
    /\ UNCHANGED <<fs, kernel, queue, closing, books, debounce, changes,
                   closed, call, owed, calls>>

FollowAdd ==
    /\ follower.at = "add"
    /\ \/ Added(follower.dir) /\ follower' = [follower EXCEPT !.at = "record"]
       \/ /\ pace = "calm" => follower.dir \notin exists
          /\ NotAdded
          /\ follower' = FollowerIdle
    /\ UNCHANGED <<fs, queue, closing, books, debounce, follow, changes,
                   closed, call, owed, calls>>

FollowRecordMutant ==  \* what recordOne refused stays watched
    /\ follower.at = "record"
    /\ IF closed \/ directoriesOf[follower.repo] = Absent THEN UNCHANGED books
       ELSE /\ byDirectory' = [byDirectory EXCEPT ![follower.dir] = follower.repo]
            /\ directoriesOf' = [directoriesOf EXCEPT ![follower.repo] = @ \cup {follower.dir}]
    /\ follower' = FollowerIdle
    /\ UNCHANGED <<fs, kernel, queue, closing, debounce, follow, changes,
                   closed, call, owed, calls>>

\* recordOne, and what followOne does when it refuses.
FollowRecord ==
    /\ follower.at = "record"
    /\ IF closed \/ directoriesOf[follower.repo] = Absent
       THEN /\ follower' = [follower EXCEPT !.at = "undo"]
            /\ UNCHANGED books
       ELSE /\ byDirectory' = [byDirectory EXCEPT ![follower.dir] = follower.repo]
            /\ directoriesOf' = [directoriesOf EXCEPT ![follower.repo] = @ \cup {follower.dir}]
            /\ follower' = FollowerIdle
    /\ UNCHANGED <<fs, kernel, queue, closing, debounce, follow, changes,
                   closed, call, owed, calls>>

FollowUndo ==
    /\ follower.at = "undo"
    /\ Removed(follower.dir)
    /\ follower' = FollowerIdle
    /\ UNCHANGED <<fs, closing, books, debounce, follow, changes, closed,
                   call, owed, calls>>

Worker == FollowCheck \/ FollowAdd \/ FollowRecord \/ FollowUndo

-----------------------------------------------------------------------------
(* Watch and Forget. *)

\* watchableDirectories: the git directory and the tree below it.
Walk(r) == {d \in exists : Owner[d] = r}

\* A walk that reaches the cap fails before anything is touched.
StartWatch(c, r) ==
    /\ call[c] = Idle
    /\ pace = "calm" => AtRest
    /\ calls < MaxCalls
    /\ calls' = calls + 1
    /\ Cardinality(Walk(r)) < MaxWatchedDirectories
    /\ call' = [call EXCEPT ![c] = [op |-> "watch", repo |-> r, at |-> "take",
                                    todo |-> Walk(r), added |-> {}, dropping |-> {}]]
    /\ UNCHANGED <<fs, kernel, queue, closing, books, debounce, follow,
                   follower, changes, closed, owed>>

StartForget(c, r) ==
    /\ call[c] = Idle
    /\ pace = "calm" => AtRest
    /\ calls < MaxCalls
    /\ calls' = calls + 1
    /\ call' = [call EXCEPT ![c] = [Idle EXCEPT !.op = "forget", !.repo = r, !.at = "take"]]
    /\ UNCHANGED <<fs, kernel, queue, closing, books, debounce, follow,
                   follower, changes, closed, owed>>

\* takeDirectories.  About a repository that is closed, or opened again, nobody
\* is owed anything: its timer is stopped.
TakeDirectories(c) ==
    /\ call[c].at = "take"
    /\ LET r == call[c].repo
       IN /\ byDirectory' = [d \in Dirs |-> IF d \in Listed(r) THEN Absent ELSE byDirectory[d]]
          /\ directoriesOf' = [directoriesOf EXCEPT ![r] = Absent]
          /\ StopTimer(r)
          /\ call' = [call EXCEPT ![c].at = "unwatch", ![c].dropping = Listed(r)]
          /\ owed' = [owed EXCEPT ![r] = "nothing"]
    /\ UNCHANGED <<fs, kernel, queue, closing, follow, follower, changes,
                   closed, calls>>

\* unwatch, one directory at a time and outside the mutex.
Unwatch(c) ==
    /\ call[c].at = "unwatch"
    /\ \E d \in call[c].dropping :
          /\ Removed(d)
          /\ call' = [call EXCEPT ![c].dropping = @ \ {d}]
    /\ UNCHANGED <<fs, closing, books, debounce, follow, follower, changes,
                   closed, owed, calls>>

\* A Forget, or a Watch that failed, is over; a Watch goes on to Add.
Unwatched(c) ==
    /\ call[c].at = "unwatch"
    /\ call[c].dropping = {}
    /\ call' = [call EXCEPT ![c] = IF call[c].op = "watch" THEN [@ EXCEPT !.at = "add"]
                                   ELSE Idle]
    /\ UNCHANGED <<fs, kernel, queue, closing, books, debounce, follow,
                   follower, changes, closed, owed, calls>>

\* What a failed Watch undoes; the registry then says the repository is unwatched.
UndoWatch(c) ==
    /\ call' = [call EXCEPT ![c].op = "undo", ![c].at = "unwatch",
                            ![c].dropping = call[c].added]
    /\ owed' = [owed EXCEPT ![call[c].repo] = "nothing"]

AddOne(c) ==
    /\ call[c].at = "add"
    /\ \E d \in call[c].todo :
          /\ Parent[d] \notin call[c].todo
          /\ \/ /\ Added(d)
                /\ call' = [call EXCEPT ![c].todo = @ \ {d}, ![c].added = @ \cup {d}]
                /\ UNCHANGED owed
             \/ NotAdded /\ UndoWatch(c)
    /\ UNCHANGED <<fs, queue, closing, books, debounce, follow, follower,
                   changes, closed, calls>>

\* record, and the unwatch of what it refuses.
Record(c) ==
    /\ call[c].at = "add"
    /\ call[c].todo = {}
    /\ IF closed
       THEN UndoWatch(c) /\ UNCHANGED books
       ELSE /\ byDirectory' = [d \in Dirs |-> IF d \in call[c].added THEN call[c].repo
                                              ELSE byDirectory[d]]
            /\ directoriesOf' = [directoriesOf EXCEPT ![call[c].repo] = call[c].added]
            /\ call' = [call EXCEPT ![c] = Idle]
            /\ UNCHANGED owed
    /\ UNCHANGED <<fs, kernel, queue, closing, debounce, follow, follower,
                   changes, closed, calls>>

Working(c) == TakeDirectories(c) \/ Unwatch(c) \/ Unwatched(c) \/ AddOne(c) \/ Record(c)

-----------------------------------------------------------------------------
Disk == \E d \in Dirs : WriteFile(d) \/ MakeDirectory(d) \/ RemoveDirectory(d)

WatcherNext ==
    \/ Disk
    \/ \E r \in Repos : Fire(r) \/ Announce(r)
    \/ Consume \/ Handle \/ StopTimers \/ CloseInner \/ EndRun
    \/ Worker
    \/ \E c \in Callers : Working(c) \/ \E r \in Repos : StartWatch(c, r) \/ StartForget(c, r)

WatcherSpec == WatcherInit /\ [][WatcherNext]_watcherVars

(***************************************************************************)
(* Every goroutine of the daemon that can run does, timers end, and a call *)
(* goes on to its end.  Git, the callers and Close owe nothing.            *)
(***************************************************************************)
FairSpec ==
    /\ WatcherSpec
    /\ \A r \in Repos : WF_watcherVars(Fire(r)) /\ WF_watcherVars(Announce(r))
    /\ WF_watcherVars(Consume) /\ WF_watcherVars(Handle) /\ WF_watcherVars(CloseInner) /\ WF_watcherVars(EndRun) /\ WF_watcherVars(Worker)
    /\ \A c \in Callers : WF_watcherVars(Working(c))
-----------------------------------------------------------------------------
(* What a state looks like. *)
WatcherTypeOK ==
    /\ exists \subseteq Dirs /\ Roots \subseteq exists
    /\ kernel \subseteq exists
    /\ queue \in Seq(Event)
    /\ closing \in {"no", "timers", "closed"} /\ closed \in BOOLEAN
    /\ byDirectory \in [Dirs -> Repos \cup {Absent}]
    /\ directoriesOf \in [Repos -> (SUBSET Dirs) \cup {Absent}]
    /\ timer \in [Repos -> TimerState]
    /\ {orphans, loose} \subseteq [Repos -> Nat]
    /\ follow \in Seq(FollowRequest) /\ Len(follow) <= FollowBuffer
    /\ follower.at \in {"idle", "add", "record", "undo"}
    /\ changes \in Seq(Repos) /\ Len(changes) <= ChangesBuffer
    /\ owed \in [Repos -> {"nothing", "change", "lost"}]
    /\ disk \in 0..MaxDisk /\ calls \in 0..MaxCalls

(***************************************************************************)
(* directoriesOf is the reverse of byDirectory (watch.go:82), whatever the *)
(* event loop, the follow worker and one caller do in between.             *)
(***************************************************************************)
BooksAgree ==
    \A d \in Dirs, r \in Repos : byDirectory[d] = r <=> d \in Listed(r)

(***************************************************************************)
(* Nothing is sent on `changes` once run's defer has closed it: a timer    *)
(* that fires late, or a Debounce between the two halves of Close, finds   *)
(* the flag.                                                               *)
(***************************************************************************)
NoSendAfterClose ==
    [][closed => changes' \in {changes} \cup {Tail(s) : s \in {changes} \ {<<>>}}]_watcherVars

(***************************************************************************)
(* When everything has settled, inotify watches nothing the books do not   *)
(* know: such a watch would be held for the life of the daemon.  It takes  *)
(* ref directories that come and go only while the watcher is caught up.   *)
(***************************************************************************)
NothingLeaks ==
    pace # "any" /\ AtRest => \A d \in kernel : byDirectory[d] # Absent

(***************************************************************************)
(* And what the books say is watched is: an entry with no watch behind it  *)
(* makes the follow worker skip the directory as already watched.  It      *)
(* takes callers that wait as well.                                        *)
(***************************************************************************)
BookedIsWatched ==
    pace = "calm" /\ AtRest => \A d \in exists : byDirectory[d] # Absent => d \in kernel

(***************************************************************************)
(* Every directory of an open repository is watched once things settle,    *)
(* those made since it was opened included, where directories and callers  *)
(* wait for the watcher.                                                   *)
(***************************************************************************)
EveryDirectoryWatched ==
    pace = "calm" /\ AtRest =>
        \A r \in Repos : directoriesOf[r] # Absent => Walk(r) \subseteq kernel

(***************************************************************************)
(* The books, and what inotify watches, are those of the open              *)
(* repositories.                                                           *)
(***************************************************************************)
WatchesFollowTheBooks ==
    WatcherTypeOK /\ BooksAgree /\ NothingLeaks /\ BookedIsWatched /\ EveryDirectoryWatched

(***************************************************************************)
(* A change inotify reports, at any moment and however many repositories   *)
(* change at once, is announced, unless the repository is closed, or       *)
(* opened again, or the watcher itself closed before it could be.  The one *)
(* change that is lost is that which finds the channel full of the changes *)
(* of other repositories (watch.go:457-466): a repository is never hidden  *)
(* by its own, nor by timers that are reset, fire late or run twice.       *)
(***************************************************************************)
ChangesAreAnnounced ==
    \A r \in Repos : owed[r] = "change" ~> owed[r] # "change" \/ closing # "no"

-----------------------------------------------------------------------------
(* What comments of the code say, and the code does not do. *)

(***************************************************************************)
(* "Refs live in a directory tree ... so the watch has to follow it"       *)
(* (watch.go:47-48): whenever ref directories are made, those of an open   *)
(* repository are watched once the watcher has caught up.                  *)
(***************************************************************************)
RefTreeIsFollowed ==
    AtRest => \A r \in Repos : directoriesOf[r] # Absent => Walk(r) \subseteq kernel

(***************************************************************************)
(* "every change says the same thing ... so the ones already queued carry  *)
(* this one's meaning too" (watch.go:460-462): what a full channel drops   *)
(* is told by what it holds.                                               *)
(***************************************************************************)
QueuedOnesCarryTheMeaning == \A r \in Repos : owed[r] # "lost"
=============================================================================
