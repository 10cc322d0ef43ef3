---------------------------- MODULE NewsProofs ------------------------------
(***************************************************************************)
(* What is proved of the way a change becomes news: of the watcher that    *)
(* hears of it, and of the panel that reads again when it is told.         *)
(***************************************************************************)
EXTENDS Watcher, ScreenCache, FiniteSetTheorems, TLAPS

-----------------------------------------------------------------------------
(***************************************************************************)
(* What is proved of the watcher, for any repositories, directories and    *)
(* bounds.                                                                 *)
(*                                                                         *)
(* Three facts are kept by every step.  `Shaped` says what each piece of   *)
(* state may hold: whatever names a directory beside a repository names    *)
(* one of that repository.  `Settles` is about the two maps while one      *)
(* caller at a time opens and closes: the repository that is being opened  *)
(* has no list between the moment its directories are taken and the moment *)
(* they are recorded.  `Accounted` says who will drop each watch of the    *)
(* kernel: the books, the caller that took it or is dropping it, or the    *)
(* follow worker.                                                          *)
(*                                                                         *)
(* The last two properties need the calm pace, and `Calm` describes it:    *)
(* one directory at a time is made or removed, its event, its place in the *)
(* follow queue and the worker's turn follow one another, and no call runs *)
(* meanwhile.                                                              *)
(***************************************************************************)

-----------------------------------------------------------------------------
(* What each piece of state may hold. *)

Call == [op : {"idle", "watch", "forget", "undo"}, repo : Repos \cup {Absent},
         at : {"idle", "take", "unwatch", "add"},
         todo : SUBSET Dirs, added : SUBSET Dirs, dropping : SUBSET Dirs]

Of(r) == {d \in Dirs : Owner[d] = r}

CallOK(k) ==
    /\ k \in Call
    /\ k.at = "idle" => k = Idle
    /\ k.at # "idle" => k.repo \in Repos
    /\ k.todo \cup k.added \cup k.dropping \subseteq Of(k.repo)
    /\ k.at \in {"take", "add"} => k.dropping = {}
    /\ k.at = "add" => k.op = "watch"
    /\ k.at = "take" \/ (k.at = "unwatch" /\ k.op = "watch") => k.added = {}

Follower == [at : {"idle", "add", "record", "undo"},
             repo : Repos \cup {Absent}, dir : Dirs \cup {Absent}]

FollowerOK ==
    /\ follower \in Follower
    /\ follower.at = "idle" => follower = FollowerIdle
    /\ follower.at # "idle" =>
          follower.repo \in Repos /\ follower.dir \in Of(follower.repo) \ Roots

\* What is made or removed is reported by the directory it is in.
EventOK(e) == e.op \in {"create", "remove"} => e.name \in Dirs /\ Parent[e.name] = e.dir

QueuesOK ==
    /\ queue \in Seq(Event) /\ \A i \in 1..Len(queue) : EventOK(queue[i])
    /\ follow \in Seq(FollowRequest) /\ Len(follow) <= FollowBuffer
    /\ \A i \in 1..Len(follow) : follow[i].dir \in Of(follow[i].repo) \ Roots

DiskOK ==
    /\ pace \in Paces
    /\ exists \subseteq Dirs /\ Roots \subseteq exists
    /\ kernel \subseteq exists
    /\ \A d \in exists \ Roots : Parent[d] \in exists
    /\ disk \in 0..MaxDisk

BooksOK ==
    /\ byDirectory \in [Dirs -> Repos \cup {Absent}]
    /\ \A d \in Dirs : byDirectory[d] \in {Owner[d], Absent}
    /\ directoriesOf \in [Repos -> (SUBSET Dirs) \cup {Absent}]
    /\ \A r \in Repos : Listed(r) \subseteq Of(r)

TimersOK ==
    /\ timer \in [Repos -> TimerState]
    /\ orphans \in [Repos -> Nat] /\ loose \in [Repos -> Nat]
    /\ changes \in Seq(Repos) /\ Len(changes) <= ChangesBuffer
    /\ owed \in [Repos -> {"nothing", "change", "lost"}]

CloseOK ==
    /\ closing \in {"no", "timers", "closed"} /\ closed \in BOOLEAN
    /\ closed => closing = "closed"

CallsOK ==
    /\ call \in [Callers -> Call] /\ \A c \in Callers : CallOK(call[c])
    /\ calls \in 0..MaxCalls

Shaped ==
    DiskOK /\ QueuesOK /\ BooksOK /\ TimersOK /\ CloseOK /\ CallsOK /\ FollowerOK

-----------------------------------------------------------------------------
(* The two maps, while one caller at a time opens and closes. *)

OneCaller == \A c, other \in Callers : c = other

Taken(k) == k.at \in {"unwatch", "add"} /\ k.op \in {"watch", "undo"}

Settles == BooksAgree /\ \A c \in Callers : Taken(call[c]) => directoriesOf[call[c].repo] = Absent

-----------------------------------------------------------------------------
(* Who will drop a watch. *)

Holding(c, d) ==
    \/ call[c].at = "add" /\ d \in call[c].added
    \/ call[c].at = "unwatch" /\ d \in call[c].dropping

FollowedBy(d) == follower.at \in {"record", "undo"} /\ follower.dir = d

Accounted ==
    pace # "any" =>
        /\ \A d \in kernel : byDirectory[d] # Absent \/ FollowedBy(d) \/ \E c \in Callers : Holding(c, d)
        /\ \A i \in 1..Len(queue) : queue[i].op = "remove" => queue[i].name \notin exists

-----------------------------------------------------------------------------
(* The calm pace. *)

Tells(i) == queue[i].op \in {"create", "remove"}
Telling == \E i \in 1..Len(queue) : Tells(i)
ReportedAs(op, d) == \E i \in 1..Len(queue) : queue[i].op = op /\ queue[i].name = d

\* One directory at a time, and one place for it.
OneAtATime ==
    /\ \A i, j \in 1..Len(queue) : Tells(i) /\ Tells(j) => i = j
    /\ Telling => follow = <<>> /\ follower = FollowerIdle
    /\ follow # <<>> => Len(follow) = 1 /\ follower = FollowerIdle
    /\ Telling \/ follow # <<>> \/ follower # FollowerIdle => \A c \in Callers : call[c] = Idle

\* What is on its way to be watched is there, and its parent is watched.
OnItsWay(d) ==
    \/ ReportedAs("create", d)
    \/ \E i \in 1..Len(follow) : follow[i].dir = d
    \/ follower.dir = d

WayOK ==
    /\ follower.at # "undo"
    /\ \A d \in Dirs : OnItsWay(d) => d \in exists
    /\ \A i \in 1..Len(follow) : byDirectory[Parent[follow[i].dir]] # Absent
    /\ follower # FollowerIdle => byDirectory[Parent[follower.dir]] # Absent
    /\ follower.at = "record" => follower.dir \in kernel

\* A call sees the tree that it listed, and drops what no book holds.
WalkOK(k) ==
    /\ k.at = "add" =>
          k.todo \cup k.added = Walk(k.repo) /\ k.added \subseteq kernel
    /\ k.at \in {"take", "unwatch"} /\ k.op = "watch" => k.todo = Walk(k.repo)
    /\ k.at \in {"unwatch", "add"} => directoriesOf[k.repo] = Absent

BooksAreTrue ==
    /\ \A d \in exists : byDirectory[d] # Absent => d \in kernel
    /\ \A d \in Dirs \ exists : byDirectory[d] # Absent => ReportedAs("remove", d)
    /\ \A d \in Dirs \ Roots : byDirectory[d] # Absent => byDirectory[Parent[d]] # Absent

OpenIsFollowed ==
    \A d \in exists :
        directoriesOf[Owner[d]] # Absent => byDirectory[d] # Absent \/ OnItsWay(d)

CalmParts ==
    OneAtATime /\ WayOK /\ (\A c \in Callers : WalkOK(call[c])) /\ BooksAreTrue /\ OpenIsFollowed

Calm == pace = "calm" /\ closing # "closed" => CalmParts

\* No directory is turned away: maxWatchedDirectories is above what there is.
Room ==
    /\ FollowBuffer > 0
    /\ IsFiniteSet(Dirs) /\ Cardinality(Dirs) <= MaxWatchedDirectories

-----------------------------------------------------------------------------
(* The disk. *)

LEMMA DiskStep == ASSUME Shaped, [WatcherNext]_watcherVars PROVE DiskOK'
<1> USE DEF DiskOK, Shaped, fs
<1>1. CASE UNCHANGED <<fs, kernel>>
      BY <1>1
<1>2. ASSUME NEW d \in Dirs, WriteFile(d) PROVE DiskOK'
      BY <1>2, WatcherAssumption DEF WriteFile, Report
<1>3. ASSUME NEW d \in Dirs, MakeDirectory(d) PROVE DiskOK'
      BY <1>3, WatcherAssumption DEF MakeDirectory, Report, Roots
<1>4. ASSUME NEW d \in Dirs, RemoveDirectory(d) PROVE DiskOK'
      BY <1>4, WatcherAssumption DEF RemoveDirectory, Report, Roots
<1>5. CASE FollowAdd
      BY <1>5 DEF FollowAdd, Added, NotAdded
<1>6. CASE FollowUndo
      BY <1>6 DEF FollowUndo, Removed
<1>7. CASE CloseInner
      BY <1>7 DEF CloseInner
<1>8. ASSUME NEW c \in Callers, Unwatch(c) PROVE DiskOK'
      BY <1>8 DEF Unwatch, Removed
<1>9. ASSUME NEW c \in Callers, AddOne(c) PROVE DiskOK'
      BY <1>9 DEF AddOne, Added, NotAdded
<1>10. ASSUME NEW r \in Repos, Fire(r) \/ Announce(r) PROVE DiskOK'
      BY <1>10, <1>1 DEF Fire, Announce
<1>11. CASE Consume \/ Handle \/ StopTimers \/ EndRun \/ FollowCheck \/ FollowRecord
      BY <1>11, <1>1 DEF Consume, Handle, StopTimers, EndRun, FollowCheck, FollowRecord
<1>12. ASSUME NEW c \in Callers,
             TakeDirectories(c) \/ Unwatched(c) \/ Record(c)
             \/ \E r \in Repos : StartWatch(c, r) \/ StartForget(c, r)
       PROVE DiskOK'
      BY <1>12, <1>1 DEF TakeDirectories, Unwatched, Record, StartWatch, StartForget
<1>13. CASE UNCHANGED watcherVars
      BY <1>13, <1>1 DEF watcherVars
<1> QED
    BY <1>2, <1>3, <1>4, <1>5, <1>6, <1>7, <1>8, <1>9, <1>10, <1>11, <1>12, <1>13
    DEF WatcherNext, Disk, Worker, Working

-----------------------------------------------------------------------------
(* What is to come: the events of fsnotify, and what the worker will follow. *)

LEMMA AppendedEvents ==
    ASSUME NEW q \in Seq(Event), NEW e \in Event, \A i \in 1..Len(q) : EventOK(q[i]), EventOK(e)
    PROVE  /\ Append(q, e) \in Seq(Event)
           /\ \A i \in 1..Len(Append(q, e)) : EventOK(Append(q, e)[i])
<1> USE DEF EventOK
<1> QED
    OBVIOUS

LEMMA StaleEvents ==
    ASSUME NEW d, queue \in Seq(Event), \A i \in 1..Len(queue) : EventOK(queue[i]), Removed(d)
    PROVE  /\ queue' \in Seq(Event) /\ Len(queue') = Len(queue)
           /\ \A i \in 1..Len(queue) :
                queue'[i] = IF queue[i].dir = d THEN [queue[i] EXCEPT !.op = "stale"] ELSE queue[i]
           /\ \A i \in 1..Len(queue') : EventOK(queue'[i])
<1>1. DOMAIN queue = 1..Len(queue) /\ Len(queue) \in Nat
      OBVIOUS
<1>2. \A i \in 1..Len(queue) : queue[i] \in Event
      OBVIOUS
<1>3. ASSUME NEW i \in 1..Len(queue)
      PROVE (IF queue[i].dir = d THEN [queue[i] EXCEPT !.op = "stale"] ELSE queue[i]) \in Event
      BY <1>2 DEF Event
<1>4. queue' \in [1..Len(queue) -> Event]
      BY <1>1, <1>3 DEF Removed
<1>5. queue' \in Seq(Event) /\ Len(queue') = Len(queue)
      BY <1>1, <1>4
<1>6. \A i \in 1..Len(queue) :
         queue'[i] = IF queue[i].dir = d THEN [queue[i] EXCEPT !.op = "stale"] ELSE queue[i]
      BY <1>1 DEF Removed
<1>7. ASSUME NEW i \in 1..Len(queue') PROVE EventOK(queue'[i])
      BY <1>2, <1>5, <1>6, ZenonT(40) DEF EventOK, Event
<1> QED
    BY <1>5, <1>6, <1>7

LEMMA ReportedEvents ==
    ASSUME QueuesOK, NEW dir \in Dirs, NEW e \in Event, EventOK(e), Report(dir, e)
    PROVE  QueuesOK'
<1>1. queue' \in Seq(Event) /\ \A i \in 1..Len(queue') : EventOK(queue'[i])
      BY AppendedEvents DEF QueuesOK, Report
<1> QED
    BY <1>1 DEF QueuesOK, Report

LEMMA QueuesStep == ASSUME Shaped, [WatcherNext]_watcherVars PROVE QueuesOK'
<1> USE DEF Shaped
<1>1. CASE UNCHANGED <<queue, follow>>
      BY <1>1 DEF QueuesOK
<1>2. ASSUME NEW d \in Dirs, WriteFile(d) PROVE QueuesOK'
  <2>1. PICK e : e = [dir |-> d, op |-> "write", name |-> Absent]
        OBVIOUS
  <2>2. e \in Event /\ EventOK(e)
        BY <2>1 DEF Event, EventOK
  <2> QED
      BY <1>2, <2>1, <2>2, ReportedEvents DEF WriteFile
<1>3. ASSUME NEW d \in Dirs, MakeDirectory(d) PROVE QueuesOK'
  <2>1. PICK e : e = [dir |-> Parent[d], op |-> "create", name |-> d]
        OBVIOUS
  <2>2. Parent[d] \in Dirs
        BY <1>3 DEF MakeDirectory, DiskOK
  <2>3. e \in Event /\ EventOK(e)
        BY <2>1, <2>2 DEF Event, EventOK
  <2> QED
      BY <1>3, <2>1, <2>2, <2>3, ReportedEvents DEF MakeDirectory
<1>4. ASSUME NEW d \in Dirs, RemoveDirectory(d) PROVE QueuesOK'
  <2>1. PICK e : e = [dir |-> Parent[d], op |-> "remove", name |-> d]
        OBVIOUS
  <2>2. Parent[d] \in Dirs
        BY <1>4, WatcherAssumption DEF RemoveDirectory, Roots
  <2>3. e \in Event /\ EventOK(e)
        BY <2>1, <2>2 DEF Event, EventOK
  <2> QED
      BY <1>4, <2>1, <2>2, <2>3, ReportedEvents DEF RemoveDirectory
<1>5. ASSUME NEW d, Removed(d), UNCHANGED follow PROVE QueuesOK'
      BY <1>5, StaleEvents DEF QueuesOK
<1>6. CASE FollowUndo
      BY <1>5, <1>6 DEF FollowUndo
<1>7. ASSUME NEW c \in Callers, Unwatch(c) PROVE QueuesOK'
      BY <1>5, <1>7 DEF Unwatch
<1>8. CASE EndRun
      BY <1>8 DEF EndRun, QueuesOK
<1>9. CASE FollowCheck
  <2>1. /\ follow' \in Seq(FollowRequest) /\ Len(follow') = Len(follow) - 1
        /\ \A i \in 1..Len(follow') : follow'[i] = follow[i + 1] /\ i + 1 \in 1..Len(follow)
        BY <1>9 DEF QueuesOK, FollowCheck
  <2> QED
      BY <1>9, <2>1, WatcherAssumption DEF QueuesOK, FollowCheck
<1>10. CASE Handle
  <2>1. /\ queue' \in Seq(Event) /\ Len(queue') = Len(queue) - 1
        /\ \A i \in 1..Len(queue') : queue'[i] = queue[i + 1] /\ i + 1 \in 1..Len(queue)
        BY <1>10 DEF QueuesOK, Handle
  <2>2. \A i \in 1..Len(queue') : EventOK(queue'[i])
        BY <2>1 DEF QueuesOK
  <2>3. PICK e : e = Head(queue)
        OBVIOUS
  <2>4. e \in Event /\ EventOK(e)
        BY <1>10, <2>3 DEF QueuesOK, Handle
  <2>5. PICK r : r = byDirectory[e.dir]
        OBVIOUS
  <2>6. \/ follow' = follow
        \/ r # Absent /\ e.op = "create" /\ HandOff(r, e.name)
        BY <1>10, <2>3, <2>5 DEF Handle
  <2>7. CASE r # Absent /\ e.op = "create" /\ HandOff(r, e.name)
    <3>1. e.dir \in Dirs /\ e.name \in Dirs /\ Parent[e.name] = e.dir
          BY <2>4, <2>7 DEF EventOK, Event
    <3>2. e.name \notin Roots
          BY <3>1, WatcherAssumption DEF Roots
    <3>3. r \in Repos /\ r = Owner[e.name]
          BY <2>5, <2>7, <3>1, WatcherAssumption DEF BooksOK
    <3>4. PICK request : request = [repo |-> r, dir |-> e.name]
          OBVIOUS
    <3>5. request \in FollowRequest /\ request.dir \in Of(request.repo) \ Roots
          BY <3>1, <3>2, <3>3, <3>4 DEF FollowRequest, Of
    <3>6. follow' = IF Len(follow) < FollowBuffer THEN Append(follow, request) ELSE follow
          BY <2>7, <3>4 DEF HandOff
    <3>7. /\ follow' \in Seq(FollowRequest) /\ Len(follow') <= FollowBuffer
          /\ \A i \in 1..Len(follow') : follow'[i] = request \/ (i \in 1..Len(follow) /\ follow'[i] = follow[i])
          BY <3>5, <3>6, WatcherAssumption DEF QueuesOK
    <3> QED
        BY <2>1, <2>2, <3>5, <3>7 DEF QueuesOK
  <2> QED
      BY <2>1, <2>2, <2>6, <2>7 DEF QueuesOK
<1>11. ASSUME NEW r \in Repos, Fire(r) \/ Announce(r) PROVE QueuesOK'
      BY <1>11, <1>1 DEF Fire, Announce
<1>12. CASE Consume \/ StopTimers \/ CloseInner \/ FollowAdd \/ FollowRecord
      BY <1>12, <1>1 DEF Consume, StopTimers, CloseInner, FollowAdd, FollowRecord
<1>13. ASSUME NEW c \in Callers,
             TakeDirectories(c) \/ Unwatched(c) \/ AddOne(c) \/ Record(c)
             \/ \E r \in Repos : StartWatch(c, r) \/ StartForget(c, r)
       PROVE QueuesOK'
      BY <1>13, <1>1 DEF TakeDirectories, Unwatched, AddOne, Record, StartWatch, StartForget
<1>14. CASE UNCHANGED watcherVars
      BY <1>14, <1>1 DEF watcherVars
<1> QED
    BY <1>2, <1>3, <1>4, <1>6, <1>7, <1>8, <1>9, <1>10, <1>11, <1>12, <1>13, <1>14
    DEF WatcherNext, Disk, Worker, Working

-----------------------------------------------------------------------------
(* The two maps. *)

LEMMA ListedIsOwned ==
    ASSUME BooksOK, NEW r \in Repos
    PROVE  Listed(r) \subseteq Of(r) /\ Listed(r) \subseteq Dirs
BY DEF BooksOK, Of

LEMMA BooksStep == ASSUME Shaped, [WatcherNext]_watcherVars PROVE BooksOK'
<1> USE WatcherAssumption DEF Shaped, BooksOK, books, Listed, Of
<1>1. CASE UNCHANGED books
      BY <1>1
<1>2. CASE Handle
  <2>1. PICK e : e = Head(queue)
        OBVIOUS
  <2>2. e \in Event /\ EventOK(e)
        BY <1>2, <2>1 DEF QueuesOK, Handle
  <2>3. PICK r : r = byDirectory[e.dir]
        OBVIOUS
  <2>4. UNCHANGED books \/ (r # Absent /\ e.op = "remove" /\ ForgetDirectory(r, e.name))
        BY <1>2, <2>1, <2>3 DEF Handle
  <2>5. ASSUME r # Absent, e.op = "remove", ForgetDirectory(r, e.name), ~UNCHANGED books
        PROVE BooksOK'
    <3>1. r \in Repos /\ e.name \in Dirs
          BY <2>2, <2>3, <2>5 DEF EventOK, Event
    <3>2. byDirectory' = [byDirectory EXCEPT ![e.name] = Absent]
          BY <2>5 DEF ForgetDirectory
    <3>3. directoriesOf' = [directoriesOf EXCEPT ![r] = Listed(r) \ {e.name}]
          BY <2>5 DEF ForgetDirectory
    <3> QED
        BY <3>1, <3>2, <3>3
  <2> QED
      BY <1>1, <2>4, <2>5
<1>3. CASE FollowRecord
  <2>1. follower.repo \in Repos /\ follower.dir \in Dirs /\ Owner[follower.dir] = follower.repo
        BY <1>3 DEF FollowRecord, FollowerOK
  <2> QED
      BY <1>1, <1>3, <2>1 DEF FollowRecord
<1>4. ASSUME NEW c \in Callers, TakeDirectories(c) PROVE BooksOK'
  <2>1. PICK r \in Repos : r = call[c].repo
        BY <1>4 DEF TakeDirectories, CallsOK, CallOK
  <2>2. byDirectory' = [d \in Dirs |-> IF d \in Listed(r) THEN Absent ELSE byDirectory[d]]
        BY <1>4, <2>1 DEF TakeDirectories
  <2>3. directoriesOf' = [directoriesOf EXCEPT ![r] = Absent]
        BY <1>4, <2>1 DEF TakeDirectories
  <2>4. /\ byDirectory' \in [Dirs -> Repos \cup {Absent}]
        /\ \A d \in Dirs : byDirectory'[d] \in {Owner[d], Absent}
        BY <2>2
  <2>5. /\ directoriesOf' \in [Repos -> (SUBSET Dirs) \cup {Absent}]
        /\ \A x \in Repos : Listed(x)' \subseteq Listed(x)
        BY <2>3
  <2> QED
      BY <2>4, <2>5
<1>5. ASSUME NEW c \in Callers, Record(c) PROVE BooksOK'
  <2>1. call[c].repo \in Repos /\ call[c].added \subseteq Of(call[c].repo)
        BY <1>5 DEF Record, CallsOK, CallOK
  <2> QED
      BY <1>1, <1>5, <2>1 DEF Record
<1>6. ASSUME NEW d \in Dirs, WriteFile(d) \/ MakeDirectory(d) \/ RemoveDirectory(d) PROVE BooksOK'
      BY <1>6, <1>1 DEF WriteFile, MakeDirectory, RemoveDirectory, Report
<1>7. ASSUME NEW r \in Repos, Fire(r) \/ Announce(r) PROVE BooksOK'
      BY <1>7, <1>1 DEF Fire, Announce
<1>8. CASE Consume \/ StopTimers \/ CloseInner \/ EndRun \/ FollowCheck \/ FollowAdd \/ FollowUndo
      BY <1>8, <1>1 DEF Consume, StopTimers, CloseInner, EndRun, FollowCheck, FollowAdd, FollowUndo
<1>9. ASSUME NEW c \in Callers,
             Unwatch(c) \/ Unwatched(c) \/ AddOne(c)
             \/ \E r \in Repos : StartWatch(c, r) \/ StartForget(c, r)
      PROVE BooksOK'
      BY <1>9, <1>1 DEF Unwatch, Unwatched, AddOne, StartWatch, StartForget
<1>10. CASE UNCHANGED watcherVars
      BY <1>10, <1>1 DEF watcherVars
<1> QED
    BY <1>2, <1>3, <1>4, <1>5, <1>6, <1>7, <1>8, <1>9, <1>10
    DEF WatcherNext, Disk, Worker, Working

-----------------------------------------------------------------------------
(* Timers, announcements and the end. *)

LEMMA TimersStep == ASSUME Shaped, [WatcherNext]_watcherVars PROVE TimersOK'
<1> USE WatcherAssumption DEF Shaped, TimersOK, debounce, TimerState, Count
<1>1. CASE UNCHANGED <<debounce, changes, owed>>
      BY <1>1
<1>2. ASSUME NEW d \in Dirs, WriteFile(d) \/ MakeDirectory(d) \/ RemoveDirectory(d) PROVE TimersOK'
      BY <1>2 DEF WriteFile, MakeDirectory, RemoveDirectory, Report
<1>3. ASSUME NEW r \in Repos, Fire(r) PROVE TimersOK'
  <2>1. UNCHANGED <<changes, owed>> /\ orphans[r] \in Nat /\ loose[r] \in Nat
        BY <1>3 DEF Fire
  <2>2. CASE timer' = [timer EXCEPT ![r] = "fired"] /\ UNCHANGED <<orphans, loose>>
        BY <2>1, <2>2
  <2>3. CASE /\ orphans[r] > 0 /\ UNCHANGED timer
             /\ orphans' = [orphans EXCEPT ![r] = orphans[r] + (-1)]
             /\ loose' = [loose EXCEPT ![r] = loose[r] + 1]
        BY <2>1, <2>3, SMTT(30)
  <2> QED
      BY <1>3, <2>2, <2>3 DEF Fire
<1>4. ASSUME NEW r \in Repos, Announce(r) PROVE TimersOK'
  <2>1. /\ timer' \in [Repos -> TimerState]
        /\ orphans' \in [Repos -> Nat] /\ loose' \in [Repos -> Nat]
    <3>1. timer' = [timer EXCEPT ![r] = "none"]
          /\ orphans[r] \in Nat /\ loose[r] \in Nat
          BY <1>4 DEF Announce, Due
    <3>2. orphans' = orphans \/ orphans' = [orphans EXCEPT ![r] = orphans[r] + 1]
          BY <1>4 DEF Announce, Due
    <3>3. loose' = loose \/ (loose[r] > 0 /\ loose' = [loose EXCEPT ![r] = loose[r] + (-1)])
          BY <1>4 DEF Announce, Due
    <3>4. orphans[r] + 1 \in Nat /\ (loose[r] > 0 => loose[r] + (-1) \in Nat)
          BY <3>1, SMTT(30)
    <3>5. timer' \in [Repos -> TimerState]
          BY <3>1
    <3>6. orphans' \in [Repos -> Nat]
          BY <3>2, <3>4, ZenonT(40)
    <3>7. loose' \in [Repos -> Nat]
          BY <3>3, <3>4, ZenonT(40)
    <3> QED
        BY <3>1, <3>5, <3>6, <3>7
  <2>2. changes' \in Seq(Repos) /\ Len(changes') <= ChangesBuffer
        BY <1>4 DEF Announce, Send, HasRoom
  <2>3. owed' \in [Repos -> {"nothing", "change", "lost"}]
        BY <1>4 DEF Announce, Lose
  <2> QED
      BY <2>1, <2>2, <2>3
<1>5. CASE Consume
      BY <1>5, SMTT(30) DEF Consume
<1>6. CASE Handle
  <2>1. PICK e : e = Head(queue)
        OBVIOUS
  <2>2. e \in Event
        BY <1>6, <2>1 DEF QueuesOK, Handle
  <2>3. PICK r : r = byDirectory[e.dir]
        OBVIOUS
  <2>4. r \in Repos \cup {Absent}
        BY <2>2, <2>3 DEF BooksOK, Event
  <2>5. UNCHANGED debounce \/ (r # Absent /\ Debounce(r))
        BY <1>6, <2>1, <2>3 DEF Handle
  <2>6. UNCHANGED <<changes, owed>>
        BY <1>6 DEF Handle
  <2>7. ASSUME r \in Repos, Debounce(r) PROVE TimersOK'
    <3>1. timer' = [timer EXCEPT ![r] = "armed"] /\ orphans' = orphans /\ loose[r] \in Nat
          BY <2>7 DEF Debounce
    <3>2. loose' = loose \/ loose' = [loose EXCEPT ![r] = loose[r] + 1]
          BY <2>7 DEF Debounce
    <3>3. loose[r] + 1 \in Nat
          BY <3>1
    <3>4. loose' \in [Repos -> Nat]
          BY <3>2, <3>3, ZenonT(40)
    <3>5. timer' \in [Repos -> TimerState]
          BY <3>1
    <3> QED
        BY <2>6, <3>1, <3>4, <3>5
  <2> QED
      BY <1>1, <2>4, <2>5, <2>6, <2>7
<1>7. CASE StopTimers
      BY <1>7 DEF StopTimers
<1>8. ASSUME NEW c \in Callers, TakeDirectories(c) PROVE TimersOK'
  <2>1. call[c].repo \in Repos
        BY <1>8 DEF TakeDirectories, CallsOK, CallOK
  <2> QED
      BY <1>8, <2>1, SMTT(30) DEF TakeDirectories, StopTimer
<1>9. ASSUME NEW c \in Callers, AddOne(c) \/ Record(c) PROVE TimersOK'
  <2>1. call[c].repo \in Repos
        BY <1>9 DEF AddOne, Record, CallsOK, CallOK
  <2> QED
      BY <1>9, <2>1, ZenonT(40) DEF AddOne, Record, UndoWatch
<1>10. CASE CloseInner \/ EndRun \/ Worker
      BY <1>10, <1>1 DEF CloseInner, EndRun, Worker, FollowCheck, FollowAdd, FollowRecord, FollowUndo
<1>11. ASSUME NEW c \in Callers,
             Unwatch(c) \/ Unwatched(c) \/ \E r \in Repos : StartWatch(c, r) \/ StartForget(c, r)
      PROVE TimersOK'
      BY <1>11, <1>1 DEF Unwatch, Unwatched, StartWatch, StartForget
<1>12. CASE UNCHANGED watcherVars
      BY <1>12, <1>1 DEF watcherVars
<1> QED
    BY <1>2, <1>3, <1>4, <1>5, <1>6, <1>7, <1>8, <1>9, <1>10, <1>11, <1>12
    DEF WatcherNext, Disk, Working

LEMMA CloseStep == ASSUME Shaped, [WatcherNext]_watcherVars PROVE CloseOK'
<1> USE DEF Shaped, CloseOK
<1>1. CASE UNCHANGED <<closing, closed>>
      BY <1>1
<1>2. CASE StopTimers \/ CloseInner \/ EndRun
  <2>1. closing' \in {"timers", "closed"} \/ UNCHANGED closing
        BY <1>2 DEF StopTimers, CloseInner, EndRun
  <2>2. closed' = closed \/ (closed' = TRUE /\ closing' = "closed")
        BY <1>2 DEF StopTimers, CloseInner, EndRun
  <2>3. closed' \in BOOLEAN
        BY <2>2
  <2>4. closing = "closed" => closing' = "closed"
        BY <1>2 DEF StopTimers, CloseInner, EndRun
  <2> QED
      BY <2>1, <2>2, <2>3, <2>4
<1>3. ASSUME NEW d \in Dirs, WriteFile(d) \/ MakeDirectory(d) \/ RemoveDirectory(d) PROVE CloseOK'
      BY <1>1, <1>3 DEF WriteFile, MakeDirectory, RemoveDirectory, Report
<1>4. ASSUME NEW r \in Repos, Fire(r) \/ Announce(r) PROVE CloseOK'
      BY <1>1, <1>4 DEF Fire, Announce
<1>5. CASE Consume \/ Handle \/ Worker
      BY <1>5, <1>1 DEF Consume, Handle, Worker, FollowCheck, FollowAdd, FollowRecord, FollowUndo
<1>6. ASSUME NEW c \in Callers, Working(c) \/ \E r \in Repos : StartWatch(c, r) \/ StartForget(c, r)
      PROVE CloseOK'
      BY <1>6, <1>1 DEF Working, TakeDirectories, Unwatch, Unwatched, AddOne, Record,
                        StartWatch, StartForget
<1>7. CASE UNCHANGED watcherVars
      BY <1>7, <1>1 DEF watcherVars
<1> QED
    BY <1>2, <1>3, <1>4, <1>5, <1>6, <1>7 DEF WatcherNext, Disk

-----------------------------------------------------------------------------
(* What the callers and the follow worker are doing. *)

\* Only one call changes in a step.
LEMMA CallsAfterTurn ==
    ASSUME CallsOK, NEW c \in Callers, NEW k, CallOK(k), call' = [call EXCEPT ![c] = k],
           calls' \in 0..MaxCalls
    PROVE  CallsOK'
BY DEF CallsOK, CallOK

LEMMA IdleIsACall == CallOK(Idle)
BY DEF CallOK, Idle, Call, Of

LEMMA WhatACallIs ==
    ASSUME NEW k, CallOK(k)
    PROVE  k = [op |-> k.op, repo |-> k.repo, at |-> k.at, todo |-> k.todo, added |-> k.added,
                dropping |-> k.dropping]
BY DEF CallOK, Call

LEMMA CallsStep == ASSUME Shaped, [WatcherNext]_watcherVars PROVE CallsOK'
<1> USE DEF Shaped
<1>1. CASE UNCHANGED <<call, calls>>
      BY <1>1 DEF CallsOK
<1>2. ASSUME NEW c \in Callers, NEW r \in Repos, StartWatch(c, r) PROVE CallsOK'
  <2>1. PICK k : k = [op |-> "watch", repo |-> r, at |-> "take", todo |-> Walk(r), added |-> {},
                      dropping |-> {}]
        OBVIOUS
  <2>2. Walk(r) \subseteq Of(r)
        BY DEF Walk, Of, DiskOK
  <2>3. CallOK(k)
        BY <2>1, <2>2 DEF CallOK, Call, Of
  <2>4. call' = [call EXCEPT ![c] = k] /\ calls' \in 0..MaxCalls
        BY <1>2, <2>1, WatcherAssumption DEF StartWatch, CallsOK
  <2> QED
      BY <2>3, <2>4, CallsAfterTurn
<1>3. ASSUME NEW c \in Callers, NEW r \in Repos, StartForget(c, r) PROVE CallsOK'
  <2>1. PICK k : k = [Idle EXCEPT !.op = "forget", !.repo = r, !.at = "take"]
        OBVIOUS
  <2>2. k = [op |-> "forget", repo |-> r, at |-> "take", todo |-> {}, added |-> {}, dropping |-> {}]
        BY <2>1 DEF Idle
  <2>3. CallOK(k)
        BY <2>2 DEF CallOK, Call, Of
  <2>4. call' = [call EXCEPT ![c] = k] /\ calls' \in 0..MaxCalls
        BY <1>3, <2>1, WatcherAssumption DEF StartForget, CallsOK
  <2> QED
      BY <2>3, <2>4, CallsAfterTurn
<1>4. ASSUME NEW c \in Callers, TakeDirectories(c) PROVE CallsOK'
  <2>1. PICK k : k = call[c]
        OBVIOUS
  <2>2. CallOK(k) /\ k.at = "take"
        BY <1>4, <2>1 DEF CallsOK, TakeDirectories
  <2>3. PICK list : list = Listed(k.repo)
        OBVIOUS
  <2>4. list \subseteq Of(k.repo)
        BY <2>2, <2>3, ListedIsOwned DEF CallOK
  <2>5. PICK new : new = [k EXCEPT !.at = "unwatch", !.dropping = list]
        OBVIOUS
  <2>6. CallOK(new)
    <3>1. /\ new \in Call /\ new.op = k.op /\ new.repo = k.repo /\ new.at = "unwatch"
          /\ new.todo = k.todo /\ new.added = k.added /\ new.dropping = list
          BY <2>2, <2>4, <2>5 DEF CallOK, Call, Of
    <3> QED
        BY <2>2, <2>4, <3>1 DEF CallOK
  <2>7. call' = [call EXCEPT ![c] = new]
    <3>1. call' = [call EXCEPT ![c].at = "unwatch", ![c].dropping = list]
          BY <1>4, <2>1, <2>3 DEF TakeDirectories
    <3> QED
        BY <2>1, <2>5, <3>1 DEF CallsOK
  <2>8. calls' = calls
        BY <1>4 DEF TakeDirectories
  <2> QED
      BY <2>6, <2>7, <2>8, CallsAfterTurn DEF CallsOK
<1>5. ASSUME NEW c \in Callers, Unwatch(c) PROVE CallsOK'
  <2>1. PICK k : k = call[c]
        OBVIOUS
  <2>2. CallOK(k) /\ k.at = "unwatch"
        BY <1>5, <2>1 DEF CallsOK, Unwatch
  <2>3. PICK d \in k.dropping : call' = [call EXCEPT ![c].dropping = @ \ {d}]
        BY <1>5, <2>1 DEF Unwatch
  <2>4. PICK new : new = [op |-> k.op, repo |-> k.repo, at |-> k.at, todo |-> k.todo,
                          added |-> k.added, dropping |-> k.dropping \ {d}]
        OBVIOUS
  <2>5. CallOK(new)
        BY <2>2, <2>4 DEF CallOK, Call, Of
  <2>6. call' = [call EXCEPT ![c] = new]
    <3>1. new = [k EXCEPT !.dropping = k.dropping \ {d}]
          BY <2>2, <2>4, WhatACallIs
    <3> QED
        BY <2>1, <2>3, <3>1 DEF CallsOK
  <2>7. calls' = calls
        BY <1>5 DEF Unwatch
  <2> QED
      BY <2>5, <2>6, <2>7, CallsAfterTurn DEF CallsOK
<1>6. ASSUME NEW c \in Callers, Unwatched(c) PROVE CallsOK'
  <2>1. PICK k : k = call[c]
        OBVIOUS
  <2>2. CallOK(k) /\ k.at = "unwatch" /\ k.dropping = {}
        BY <1>6, <2>1 DEF CallsOK, Unwatched
  <2>3. PICK new : new = IF k.op = "watch" THEN [k EXCEPT !.at = "add"] ELSE Idle
        OBVIOUS
  <2>4. CallOK(new)
    <3>1. CASE k.op = "watch"
      <4>1. new = [op |-> k.op, repo |-> k.repo, at |-> "add", todo |-> k.todo, added |-> k.added,
                   dropping |-> k.dropping]
            BY <2>2, <2>3, <3>1, WhatACallIs
      <4> QED
          BY <2>2, <3>1, <4>1 DEF CallOK, Call, Of
    <3>2. CASE k.op # "watch"
          BY <2>3, <3>2, IdleIsACall
    <3> QED
        BY <3>1, <3>2
  <2>5. call' = [call EXCEPT ![c] = new] /\ calls' = calls
        BY <1>6, <2>1, <2>3 DEF Unwatched, CallsOK
  <2> QED
      BY <2>4, <2>5, CallsAfterTurn DEF CallsOK
<1>7. ASSUME NEW c \in Callers, call[c].at = "add", UndoWatch(c), calls' = calls PROVE CallsOK'
  <2>1. PICK k : k = call[c]
        OBVIOUS
  <2>2. CallOK(k) /\ k.at = "add"
        BY <1>7, <2>1 DEF CallsOK
  <2>3. PICK new : new = [op |-> "undo", repo |-> k.repo, at |-> "unwatch", todo |-> k.todo,
                          added |-> k.added, dropping |-> k.added]
        OBVIOUS
  <2>4. CallOK(new)
        BY <2>2, <2>3 DEF CallOK, Call, Of
  <2>5. call' = [call EXCEPT ![c] = new]
        BY <1>7, <2>1, <2>2, <2>3, WhatACallIs DEF UndoWatch, CallsOK
  <2> QED
      BY <1>7, <2>4, <2>5, CallsAfterTurn DEF CallsOK
<1>8. ASSUME NEW c \in Callers, AddOne(c) PROVE CallsOK'
  <2>1. PICK k : k = call[c]
        OBVIOUS
  <2>2. CallOK(k) /\ k.at = "add"
        BY <1>8, <2>1 DEF CallsOK, AddOne
  <2>3. PICK d \in k.todo :
           \/ call' = [call EXCEPT ![c].todo = @ \ {d}, ![c].added = @ \cup {d}]
           \/ UndoWatch(c)
        BY <1>8, <2>1 DEF AddOne
  <2>4. calls' = calls
        BY <1>8 DEF AddOne
  <2>5. CASE call' = [call EXCEPT ![c].todo = @ \ {d}, ![c].added = @ \cup {d}]
    <3>1. PICK new : new = [k EXCEPT !.todo = k.todo \ {d}, !.added = k.added \cup {d}]
          OBVIOUS
    <3>2. CallOK(new)
      <4>1. /\ new \in Call /\ new.op = k.op /\ new.repo = k.repo /\ new.at = k.at
            /\ new.todo = k.todo \ {d} /\ new.added = k.added \cup {d} /\ new.dropping = k.dropping
            BY <2>2, <2>3, <3>1 DEF CallOK, Call
      <4> QED
          BY <2>2, <4>1 DEF CallOK
    <3>3. call' = [call EXCEPT ![c] = new]
          BY <2>1, <2>5, <3>1 DEF CallsOK
    <3> QED
        BY <2>4, <3>2, <3>3, CallsAfterTurn DEF CallsOK
  <2> QED
      BY <1>7, <2>1, <2>2, <2>3, <2>4, <2>5
<1>9. ASSUME NEW c \in Callers, Record(c) PROVE CallsOK'
  <2>1. call[c].at = "add" /\ calls' = calls
        BY <1>9 DEF Record
  <2>2. UndoWatch(c) \/ call' = [call EXCEPT ![c] = Idle]
        BY <1>9 DEF Record
  <2> QED
      BY <1>7, <2>1, <2>2, IdleIsACall, CallsAfterTurn DEF CallsOK
<1>10. ASSUME NEW d \in Dirs, WriteFile(d) \/ MakeDirectory(d) \/ RemoveDirectory(d) PROVE CallsOK'
      BY <1>1, <1>10 DEF WriteFile, MakeDirectory, RemoveDirectory, Report
<1>11. ASSUME NEW r \in Repos, Fire(r) \/ Announce(r) PROVE CallsOK'
      BY <1>1, <1>11 DEF Fire, Announce
<1>12. CASE Consume \/ Handle \/ StopTimers \/ CloseInner \/ EndRun \/ Worker
      BY <1>12, <1>1 DEF Consume, Handle, StopTimers, CloseInner, EndRun, Worker, FollowCheck,
                         FollowAdd, FollowRecord, FollowUndo
<1>13. CASE UNCHANGED watcherVars
      BY <1>13, <1>1 DEF watcherVars
<1> QED
    BY <1>2, <1>3, <1>4, <1>5, <1>6, <1>8, <1>9, <1>10, <1>11, <1>12, <1>13
    DEF WatcherNext, Disk, Working

LEMMA FollowerStep == ASSUME Shaped, [WatcherNext]_watcherVars PROVE FollowerOK'
<1> USE DEF Shaped, FollowerOK
<1>1. CASE UNCHANGED follower
      BY <1>1
<1>2. CASE follower' = FollowerIdle
      BY <1>2 DEF FollowerIdle, Follower
<1>3. CASE FollowCheck
  <2>1. PICK request : request = Head(follow)
        OBVIOUS
  <2>2. request \in FollowRequest /\ request.dir \in Of(request.repo) \ Roots
        BY <1>3, <2>1 DEF FollowCheck, QueuesOK
  <2>3. follower' = FollowerIdle
        \/ follower' = [at |-> "add", repo |-> request.repo, dir |-> request.dir]
        BY <1>3, <2>1 DEF FollowCheck
  <2> QED
      BY <1>2, <2>2, <2>3 DEF Follower, FollowRequest
<1>4. CASE FollowAdd
  <2>1. follower' = FollowerIdle \/ follower' = [follower EXCEPT !.at = "record"]
        BY <1>4 DEF FollowAdd
  <2> QED
      BY <1>2, <1>4, <2>1 DEF FollowAdd, Follower
<1>5. CASE FollowRecord
  <2>1. follower' = FollowerIdle \/ follower' = [follower EXCEPT !.at = "undo"]
        BY <1>5 DEF FollowRecord
  <2> QED
      BY <1>2, <1>5, <2>1 DEF FollowRecord, Follower
<1>6. CASE FollowUndo
      BY <1>2, <1>6 DEF FollowUndo
<1>7. ASSUME NEW d \in Dirs, WriteFile(d) \/ MakeDirectory(d) \/ RemoveDirectory(d) PROVE FollowerOK'
      BY <1>1, <1>7 DEF WriteFile, MakeDirectory, RemoveDirectory, Report
<1>8. ASSUME NEW r \in Repos, Fire(r) \/ Announce(r) PROVE FollowerOK'
      BY <1>1, <1>8 DEF Fire, Announce
<1>9. CASE Consume \/ Handle \/ StopTimers \/ CloseInner \/ EndRun
      BY <1>9, <1>1 DEF Consume, Handle, StopTimers, CloseInner, EndRun
<1>10. ASSUME NEW c \in Callers, Working(c) \/ \E r \in Repos : StartWatch(c, r) \/ StartForget(c, r)
       PROVE FollowerOK'
      BY <1>10, <1>1 DEF Working, TakeDirectories, Unwatch, Unwatched, AddOne, Record,
                         StartWatch, StartForget
<1>11. CASE UNCHANGED watcherVars
      BY <1>11, <1>1 DEF watcherVars
<1> QED
    BY <1>3, <1>4, <1>5, <1>6, <1>7, <1>8, <1>9, <1>10, <1>11 DEF WatcherNext, Disk, Worker

LEMMA ShapedInit == WatcherInit => Shaped
<1> SUFFICES ASSUME WatcherInit PROVE Shaped
    OBVIOUS
<1> USE WatcherAssumption DEF WatcherInit
<1>1. DiskOK
      BY DEF DiskOK, Roots
<1>2. QueuesOK
      BY DEF QueuesOK
<1>3. BooksOK
  <2>1. \A r \in Repos : Listed(r) = {}
        BY DEF Listed
  <2>2. byDirectory \in [Dirs -> Repos \cup {Absent}] /\ \A d \in Dirs : byDirectory[d] = Absent
        OBVIOUS
  <2>3. directoriesOf \in [Repos -> (SUBSET Dirs) \cup {Absent}]
        OBVIOUS
  <2> QED
      BY <2>1, <2>2, <2>3 DEF BooksOK
<1>4. TimersOK
      BY DEF TimersOK, TimerState
<1>5. CloseOK
      BY DEF CloseOK
<1>6. CallsOK
  <2>1. \A c \in Callers : call[c] = Idle
        OBVIOUS
  <2> QED
      BY <2>1, IdleIsACall DEF CallsOK, CallOK
<1>7. FollowerOK
      BY DEF FollowerOK, FollowerIdle, Follower
<1> QED
    BY <1>1, <1>2, <1>3, <1>4, <1>5, <1>6, <1>7 DEF Shaped

LEMMA ShapedStep == Shaped /\ [WatcherNext]_watcherVars => Shaped'
BY DiskStep, QueuesStep, BooksStep, TimersStep, CloseStep, CallsStep, FollowerStep DEF Shaped

LEMMA StaysShaped == WatcherSpec => []Shaped
<1>1. Shaped /\ [WatcherNext]_watcherVars => Shaped'
      BY ShapedStep
<1> QED
    BY <1>1, ShapedInit, PTL DEF WatcherSpec

(***************************************************************************)
(* Every variable stays in its range: what inotify watches exists, and no  *)
(* queue holds more than its capacity (watch.go:53, :105, :120).           *)
(***************************************************************************)
THEOREM WatcherTypes == WatcherSpec => []WatcherTypeOK
<1>1. Shaped => WatcherTypeOK
      BY DEF Shaped, DiskOK, QueuesOK, BooksOK, TimersOK, CloseOK, CallsOK, FollowerOK, Follower,
             WatcherTypeOK
<1> QED
    BY <1>1, StaysShaped, PTL

-----------------------------------------------------------------------------
(* Nothing is sent once `changes` is closed. *)

(***************************************************************************)
(* A timer that fires late finds the flag (watch.go:446-466): once run's   *)
(* defer has closed the channel, it only empties, whichever timers and     *)
(* calls are still about.                                                  *)
(***************************************************************************)
THEOREM ClosedIsSilent == WatcherSpec => NoSendAfterClose
<1>1. ASSUME [WatcherNext]_watcherVars, closed
      PROVE  changes' \in {changes} \cup {Tail(s) : s \in {changes} \ {<<>>}}
  <2>1. CASE UNCHANGED changes
        BY <2>1
  <2>2. CASE Consume
        BY <2>2 DEF Consume
  <2>3. ASSUME NEW r \in Repos, Fire(r) \/ Announce(r) PROVE UNCHANGED changes
        BY <1>1, <2>3 DEF Fire, Announce
  <2>4. ASSUME NEW d \in Dirs, WriteFile(d) \/ MakeDirectory(d) \/ RemoveDirectory(d)
        PROVE UNCHANGED changes
        BY <2>4 DEF WriteFile, MakeDirectory, RemoveDirectory, Report
  <2>5. CASE Handle \/ StopTimers \/ CloseInner \/ EndRun \/ Worker
        BY <2>5, <2>1 DEF Handle, StopTimers, CloseInner, EndRun, Worker, FollowCheck, FollowAdd,
                          FollowRecord, FollowUndo
  <2>6. ASSUME NEW c \in Callers, Working(c) \/ \E r \in Repos : StartWatch(c, r) \/ StartForget(c, r)
        PROVE UNCHANGED changes
        BY <2>6 DEF Working, TakeDirectories, Unwatch, Unwatched, AddOne, Record, StartWatch,
                    StartForget
  <2>7. CASE UNCHANGED watcherVars
        BY <2>7, <2>1 DEF watcherVars
  <2> QED
      BY <1>1, <2>1, <2>2, <2>3, <2>4, <2>5, <2>6, <2>7 DEF WatcherNext, Disk
<1> QED
    BY <1>1, PTL DEF WatcherSpec, NoSendAfterClose

-----------------------------------------------------------------------------
(* The two maps. *)

\* What a call that is over or not yet begun is not: past the taking.
LEMMA NotTaken == ASSUME NEW k, k.at \in {"idle", "take"} PROVE ~Taken(k)
BY DEF Taken

LEMMA BooksUnread ==
    ASSUME Shaped, Settles, UNCHANGED books,
           \A c \in Callers : Taken(call'[c]) =>
              Taken(call[c]) /\ call'[c].repo = call[c].repo
    PROVE  Settles'
BY DEF Settles, BooksAgree, Listed, books

\* A directory that a repository is rid of, or given, in both maps at once.
LEMMA Dropped ==
    ASSUME Shaped, Settles, NEW r \in Repos, NEW d \in Of(r), ForgetDirectory(r, d),
           directoriesOf[r] # Absent
    PROVE  /\ BooksAgree'
           /\ \A x \in Repos : directoriesOf[x] = Absent => directoriesOf'[x] = Absent
<1> USE WatcherAssumption DEF Shaped, BooksOK, Of, Settles
<1>1. CASE UNCHANGED books
      BY <1>1 DEF BooksAgree, Listed, books
<1>2. CASE /\ byDirectory' = [byDirectory EXCEPT ![d] = Absent]
           /\ directoriesOf' = [directoriesOf EXCEPT ![r] = Listed(r) \ {d}]
  <2>1. Listed(r)' = Listed(r) \ {d} /\ \A x \in Repos \ {r} : Listed(x)' = Listed(x)
        BY <1>2 DEF Listed
  <2>2. ASSUME NEW e \in Dirs, NEW x \in Repos PROVE byDirectory'[e] = x <=> e \in Listed(x)'
        BY <1>2, <2>1 DEF BooksAgree
  <2> QED
      BY <1>2, <2>2 DEF BooksAgree
<1> QED
    BY <1>1, <1>2 DEF ForgetDirectory

LEMMA SettlesStep ==
    ASSUME OneCaller, Shaped, Settles, [WatcherNext]_watcherVars PROVE Settles'
<1>1. CASE UNCHANGED <<books, call>>
      BY <1>1, BooksUnread
<1>2. CASE Handle
  <2>1. PICK e : e = Head(queue)
        OBVIOUS
  <2>2. e \in Event /\ EventOK(e)
        BY <1>2, <2>1 DEF Shaped, QueuesOK, Handle
  <2>3. PICK r : r = byDirectory[e.dir]
        OBVIOUS
  <2>4. UNCHANGED books \/ (r # Absent /\ e.op = "remove" /\ ForgetDirectory(r, e.name))
        BY <1>2, <2>1, <2>3 DEF Handle
  <2>5. UNCHANGED call
        BY <1>2 DEF Handle
  <2>6. ASSUME r # Absent, e.op = "remove", ForgetDirectory(r, e.name) PROVE Settles'
    <3>1. e.dir \in Dirs /\ e.name \in Dirs /\ Parent[e.name] = e.dir
          BY <2>2, <2>6 DEF EventOK, Event
    <3>2. r \in Repos /\ e.name \in Of(r)
          BY <2>3, <2>6, <3>1, WatcherAssumption DEF Shaped, BooksOK, Of
    <3>3. directoriesOf[r] # Absent
          BY <2>3, <3>1, <3>2 DEF Settles, BooksAgree, Listed
    <3>4. BooksAgree' /\ \A x \in Repos : directoriesOf[x] = Absent => directoriesOf'[x] = Absent
          BY <2>6, <3>2, <3>3, Dropped
    <3> QED
        BY <2>5, <3>4 DEF Settles, Shaped, CallsOK, CallOK, Taken
  <2> QED
      BY <1>1, <2>4, <2>5, <2>6
<1>3. CASE FollowRecord
  <2>1. PICK r \in Repos : r = follower.repo
        BY <1>3 DEF FollowRecord, Shaped, FollowerOK
  <2>2. PICK d \in Of(r) : d = follower.dir
        BY <1>3, <2>1 DEF FollowRecord, Shaped, FollowerOK
  <2>3. UNCHANGED call
        BY <1>3 DEF FollowRecord
  <2>4. UNCHANGED books
        \/ /\ directoriesOf[r] # Absent
           /\ byDirectory' = [byDirectory EXCEPT ![d] = r]
           /\ directoriesOf' = [directoriesOf EXCEPT ![r] = directoriesOf[r] \cup {d}]
        BY <1>3, <2>1, <2>2 DEF FollowRecord
  <2>5. ASSUME directoriesOf[r] # Absent,
               byDirectory' = [byDirectory EXCEPT ![d] = r],
               directoriesOf' = [directoriesOf EXCEPT ![r] = directoriesOf[r] \cup {d}]
        PROVE Settles'
    <3> USE WatcherAssumption DEF Shaped, BooksOK, Of, Settles
    <3>1. directoriesOf[r] \in SUBSET Dirs /\ directoriesOf[r] \cup {d} # Absent
          BY <2>5
    <3>2. Listed(r)' = Listed(r) \cup {d} /\ \A x \in Repos \ {r} : Listed(x)' = Listed(x)
          BY <2>5, <3>1 DEF Listed
    <3>3. byDirectory[d] \in {r, Absent}
          OBVIOUS
    <3>4. ASSUME NEW e \in Dirs, NEW x \in Repos PROVE byDirectory'[e] = x <=> e \in Listed(x)'
          BY <2>5, <3>2, <3>3 DEF BooksAgree
    <3>5. \A c \in Callers : Taken(call[c]) => call[c].repo \in Repos
          BY DEF Taken, CallsOK, CallOK
    <3>6. \A x \in Repos : directoriesOf[x] = Absent => directoriesOf'[x] = Absent
          BY <2>5
    <3> QED
        BY <2>3, <3>4, <3>5, <3>6 DEF BooksAgree
  <2> QED
      BY <1>1, <2>3, <2>4, <2>5
<1>4. ASSUME NEW c \in Callers, TakeDirectories(c) PROVE Settles'
  <2>1. PICK r \in Repos : r = call[c].repo
        BY <1>4 DEF TakeDirectories, Shaped, CallsOK, CallOK
  <2>2. byDirectory' = [d \in Dirs |-> IF d \in Listed(r) THEN Absent ELSE byDirectory[d]]
        BY <1>4, <2>1 DEF TakeDirectories
  <2>3. directoriesOf' = [directoriesOf EXCEPT ![r] = Absent]
        BY <1>4, <2>1 DEF TakeDirectories
  <2>4. call'[c].repo = r
        BY <1>4, <2>1 DEF TakeDirectories, Shaped, CallsOK, Call
  <2>5. Listed(r)' = {} /\ \A x \in Repos \ {r} : Listed(x)' = Listed(x)
        BY <2>3 DEF Listed, Shaped, BooksOK
  <2>6. ASSUME NEW e \in Dirs, NEW x \in Repos PROVE byDirectory'[e] = x <=> e \in Listed(x)'
        BY <2>2, <2>5, WatcherAssumption DEF Settles, BooksAgree
  <2>7. directoriesOf'[r] = Absent
        BY <2>3 DEF Shaped, BooksOK
  <2> QED
      BY <2>4, <2>6, <2>7 DEF Settles, BooksAgree, OneCaller
<1>5. ASSUME NEW c \in Callers, Record(c) PROVE Settles'
  <2>1. PICK r \in Repos : r = call[c].repo
        BY <1>5 DEF Record, Shaped, CallsOK, CallOK
  <2>2. PICK added : added = call[c].added
        OBVIOUS
  <2>3. added \subseteq Of(r) /\ call[c].op = "watch" /\ call[c].at = "add"
        BY <1>5, <2>1, <2>2 DEF Record, Shaped, CallsOK, CallOK
  <2>4. Taken(call[c]) /\ directoriesOf[r] = Absent
        BY <2>1, <2>3 DEF Taken, Settles
  <2>5. CASE UndoWatch(c) /\ UNCHANGED books
    <3>1. call'[c].repo = r
          BY <2>1, <2>5 DEF UndoWatch, Shaped, CallsOK, Call
    <3> QED
        BY <2>1, <2>4, <2>5, <3>1, BooksUnread DEF OneCaller
  <2>6. CASE /\ byDirectory' = [d \in Dirs |-> IF d \in added THEN r ELSE byDirectory[d]]
             /\ directoriesOf' = [directoriesOf EXCEPT ![r] = added]
             /\ call' = [call EXCEPT ![c] = Idle]
    <3> USE WatcherAssumption DEF Shaped, BooksOK, Of, Settles
    <3>1. added \in SUBSET Dirs /\ added # Absent
          BY <2>3
    <3>2. Listed(r)' = added /\ Listed(r) = {} /\ \A x \in Repos \ {r} : Listed(x)' = Listed(x)
          BY <2>4, <2>6, <3>1 DEF Listed
    <3>3. \A e \in added : byDirectory[e] \in {r, Absent}
          BY <2>3
    <3>4. ASSUME NEW e \in Dirs, NEW x \in Repos PROVE byDirectory'[e] = x <=> e \in Listed(x)'
          BY <2>6, <3>2, <3>3 DEF BooksAgree
    <3>5. ~Taken(call'[c])
          BY <2>6 DEF Taken, Idle, CallsOK
    <3> QED
        BY <3>4, <3>5 DEF BooksAgree, OneCaller
  <2> QED
      BY <1>5, <2>1, <2>2, <2>5, <2>6 DEF Record
<1>6. ASSUME NEW c \in Callers, \E r \in Repos : StartWatch(c, r) \/ StartForget(c, r)
      PROVE Settles'
  <2>1. UNCHANGED books /\ call'[c].at = "take"
    <3>1. call \in [Callers -> Call]
          BY DEF Shaped, CallsOK
    <3>2. ASSUME NEW r \in Repos, StartWatch(c, r) PROVE UNCHANGED books /\ call'[c].at = "take"
          BY <3>1, <3>2 DEF StartWatch
    <3>3. ASSUME NEW r \in Repos, StartForget(c, r) PROVE UNCHANGED books /\ call'[c].at = "take"
          BY <3>1, <3>3 DEF StartForget, Idle
    <3> QED
        BY <1>6, <3>2, <3>3
  <2> QED
      BY <2>1, BooksUnread, NotTaken DEF OneCaller
<1>7. ASSUME NEW c \in Callers, Unwatch(c) PROVE Settles'
  <2>1. UNCHANGED books
        BY <1>7 DEF Unwatch
  <2>2. call'[c].op = call[c].op /\ call'[c].at = call[c].at /\ call'[c].repo = call[c].repo
        BY <1>7 DEF Unwatch, Shaped, CallsOK, Call
  <2> QED
      BY <2>1, <2>2, BooksUnread DEF OneCaller, Taken
<1>8. ASSUME NEW c \in Callers, Unwatched(c) PROVE Settles'
  <2>1. UNCHANGED books
        BY <1>8 DEF Unwatched
  <2>2. PICK k : k = call[c]
        OBVIOUS
  <2>3. k \in Call /\ k.at = "unwatch"
        BY <1>8, <2>2 DEF Unwatched, Shaped, CallsOK
  <2>4. call'[c] = Idle \/ (k.op = "watch" /\ call'[c] = [k EXCEPT !.at = "add"])
        BY <1>8, <2>2 DEF Unwatched, Shaped, CallsOK
  <2>5. ~Taken(call'[c]) \/ (Taken(k) /\ call'[c].repo = k.repo)
        BY <2>3, <2>4 DEF Taken, Idle, Call
  <2> QED
      BY <2>1, <2>2, <2>5, BooksUnread DEF OneCaller
<1>9. ASSUME NEW c \in Callers, AddOne(c) PROVE Settles'
  <2>1. UNCHANGED books
        BY <1>9 DEF AddOne
  <2>2. call[c] \in Call /\ call[c].at = "add" /\ call[c].op = "watch"
        BY <1>9 DEF AddOne, Shaped, CallsOK, CallOK
  <2>3. Taken(call[c])
        BY <2>2 DEF Taken
  <2>4. call'[c].repo = call[c].repo
    <3>1. CASE UndoWatch(c)
          BY <3>1, <2>2 DEF UndoWatch, Shaped, CallsOK, Call
    <3>2. ASSUME NEW d, call' = [call EXCEPT ![c].todo = @ \ {d}, ![c].added = @ \cup {d}]
          PROVE call'[c].repo = call[c].repo
          BY <3>2, <2>2 DEF Shaped, CallsOK, Call
    <3> QED
        BY <1>9, <3>1, <3>2 DEF AddOne
  <2> QED
      BY <2>1, <2>3, <2>4, BooksUnread DEF OneCaller
<1>10. ASSUME NEW d \in Dirs, WriteFile(d) \/ MakeDirectory(d) \/ RemoveDirectory(d) PROVE Settles'
      BY <1>1, <1>10 DEF WriteFile, MakeDirectory, RemoveDirectory, Report
<1>11. ASSUME NEW r \in Repos, Fire(r) \/ Announce(r) PROVE Settles'
      BY <1>1, <1>11 DEF Fire, Announce
<1>12. CASE Consume \/ StopTimers \/ CloseInner \/ EndRun \/ FollowCheck \/ FollowAdd \/ FollowUndo
      BY <1>12, <1>1 DEF Consume, StopTimers, CloseInner, EndRun, FollowCheck, FollowAdd, FollowUndo
<1>13. CASE UNCHANGED watcherVars
      BY <1>13, <1>1 DEF watcherVars
<1> QED
    BY <1>2, <1>3, <1>4, <1>5, <1>6, <1>7, <1>8, <1>9, <1>10, <1>11, <1>12, <1>13
    DEF WatcherNext, Disk, Worker, Working

LEMMA SettlesInit == WatcherInit => Settles
<1> SUFFICES ASSUME WatcherInit PROVE Settles
    OBVIOUS
<1>1. \A r \in Repos : Listed(r) = {}
      BY DEF WatcherInit, Listed
<1>2. \A d \in Dirs : byDirectory[d] = Absent
      BY DEF WatcherInit
<1>3. \A c \in Callers : ~Taken(call[c])
      BY DEF WatcherInit, Taken, Idle
<1> QED
    BY <1>1, <1>2, <1>3, WatcherAssumption DEF Settles, BooksAgree

(***************************************************************************)
(* directoriesOf stays the reverse of byDirectory (watch.go:82) while one  *)
(* caller at a time opens and closes, at whatever pace directories come    *)
(* and go and the worker follows them.                                     *)
(***************************************************************************)
THEOREM Books == ASSUME OneCaller PROVE WatcherSpec => []BooksAgree
<1>1. Settles /\ Shaped /\ [WatcherNext]_watcherVars => Settles'
      BY SettlesStep
<1>2. Settles => BooksAgree
      BY DEF Settles
<1> QED
    BY <1>1, <1>2, SettlesInit, StaysShaped, PTL DEF WatcherSpec

-----------------------------------------------------------------------------
(* Who will drop a watch. *)

Kept(d) == byDirectory[d] # Absent \/ FollowedBy(d) \/ \E c \in Callers : Holding(c, d)

\* The two halves of Accounted.
KernelAccounted == \A d \in kernel : Kept(d)
RemovesAreTrue == \A i \in 1..Len(queue) : queue[i].op = "remove" => queue[i].name \notin exists

LEMMA Halves == Accounted <=> (pace # "any" => KernelAccounted /\ RemovesAreTrue)
BY DEF Accounted, KernelAccounted, RemovesAreTrue, Kept

\* One more event.
LEMMA ReportedRemoves ==
    ASSUME Shaped, NEW dir \in Dirs, NEW e \in Event, Report(dir, e), exists' \subseteq Dirs,
           \A i \in 1..Len(queue) : queue[i].op = "remove" => queue[i].name \notin exists',
           e.op = "remove" => e.name \notin exists'
    PROVE  RemovesAreTrue'
<1>1. queue \in Seq(Event)
      BY DEF Shaped, QueuesOK
<1>2. queue' = queue \/ queue' = Append(queue, e)
      BY DEF Report
<1> QED
    BY <1>1, <1>2 DEF RemovesAreTrue

\* Fewer, or stale, events.
LEMMA FewerRemoves ==
    ASSUME RemovesAreTrue, UNCHANGED exists,
           \A i \in 1..Len(queue') :
              queue'[i].op = "remove" => \E j \in 1..Len(queue) : queue'[i] = queue[j]
    PROVE  RemovesAreTrue'
BY DEF RemovesAreTrue

LEMMA StaleRemoves ==
    ASSUME Shaped, RemovesAreTrue, UNCHANGED exists, NEW d, Removed(d)
    PROVE  RemovesAreTrue'
<1>1. /\ Len(queue') = Len(queue)
      /\ \A i \in 1..Len(queue) :
           queue'[i] = IF queue[i].dir = d THEN [queue[i] EXCEPT !.op = "stale"] ELSE queue[i]
      BY StaleEvents DEF Shaped, QueuesOK
<1>2. \A i \in 1..Len(queue) : queue[i] \in Event
      BY DEF Shaped, QueuesOK
<1>3. ASSUME NEW i \in 1..Len(queue'), queue'[i].op = "remove"
      PROVE  queue'[i] = queue[i] /\ i \in 1..Len(queue)
      BY <1>1, <1>2, <1>3 DEF Event
<1> QED
    BY <1>3, FewerRemoves

\* The kernel watches no more, and what kept each watch still does.
LEMMA StillKept ==
    ASSUME KernelAccounted, kernel' \subseteq kernel,
           \A d \in kernel' : Kept(d) => Kept(d)'
    PROVE  KernelAccounted'
BY DEF KernelAccounted

LEMMA HoldingUnchanged ==
    ASSUME UNCHANGED call PROVE \A c \in Callers, d \in Dirs : Holding(c, d)' <=> Holding(c, d)
BY DEF Holding

LEMMA FollowingUnchanged ==
    ASSUME UNCHANGED follower PROVE \A d \in Dirs : FollowedBy(d)' <=> FollowedBy(d)
BY DEF FollowedBy

LEMMA KernelInDirs == Shaped => kernel \subseteq Dirs
BY DEF Shaped, DiskOK

LEMMA AccountedStep ==
    ASSUME Shaped, Accounted, [WatcherNext]_watcherVars PROVE Accounted'
<1>0. UNCHANGED pace
      BY DEF WatcherNext, watcherVars, fs, Disk, WriteFile, MakeDirectory, RemoveDirectory, Report,
             Fire, Announce, Consume, Handle, StopTimers, CloseInner, EndRun, Worker, FollowCheck,
             FollowAdd, FollowRecord, FollowUndo, Working, TakeDirectories, Unwatch, Unwatched,
             AddOne, Record, StartWatch, StartForget
<1> SUFFICES ASSUME pace # "any" PROVE KernelAccounted' /\ RemovesAreTrue'
    BY <1>0, Halves DEF Accounted, KernelAccounted, RemovesAreTrue, Kept
<1>00. KernelAccounted /\ RemovesAreTrue
      BY Halves
<1>1. CASE UNCHANGED <<exists, kernel, queue, byDirectory, follower, call>>
      BY <1>1, <1>00 DEF KernelAccounted, RemovesAreTrue, Kept, Holding, FollowedBy
<1>2. ASSUME NEW d \in Dirs, WriteFile(d) PROVE KernelAccounted' /\ RemovesAreTrue'
  <2>1. PICK e : e = [dir |-> d, op |-> "write", name |-> Absent]
        OBVIOUS
  <2>2. e \in Event /\ e.op # "remove"
        BY <2>1 DEF Event
  <2>3. Report(d, e) /\ UNCHANGED <<exists, kernel>>
        BY <1>2, <2>1 DEF WriteFile
  <2>4. RemovesAreTrue'
        BY <1>00, <2>2, <2>3, ReportedRemoves DEF RemovesAreTrue, Shaped, DiskOK
  <2>5. UNCHANGED <<byDirectory, follower, call>>
        BY <2>3 DEF Report, books
  <2> QED
      BY <1>00, <2>3, <2>4, <2>5 DEF KernelAccounted, Kept, Holding, FollowedBy
<1>3. ASSUME NEW d \in Dirs, MakeDirectory(d) PROVE KernelAccounted' /\ RemovesAreTrue'
  <2>1. PICK e : e = [dir |-> Parent[d], op |-> "create", name |-> d]
        OBVIOUS
  <2>2. Parent[d] \in Dirs
        BY <1>3 DEF MakeDirectory, Shaped, DiskOK
  <2>3. e \in Event /\ e.op # "remove"
        BY <2>1, <2>2 DEF Event
  <2>4. queue = <<>> /\ exists' = exists \cup {d} /\ UNCHANGED kernel /\ Report(Parent[d], e)
        BY <1>3, <2>1 DEF MakeDirectory, Settled, AtRest
  <2>5. RemovesAreTrue'
        BY <2>2, <2>3, <2>4, ReportedRemoves DEF Shaped, DiskOK
  <2>6. UNCHANGED <<byDirectory, follower, call>>
        BY <2>4 DEF Report, books
  <2> QED
      BY <1>00, <2>4, <2>5, <2>6 DEF KernelAccounted, Kept, Holding, FollowedBy
<1>4. ASSUME NEW d \in Dirs, RemoveDirectory(d) PROVE KernelAccounted' /\ RemovesAreTrue'
  <2>1. PICK e : e = [dir |-> Parent[d], op |-> "remove", name |-> d]
        OBVIOUS
  <2>2. Parent[d] \in Dirs
        BY <1>4, WatcherAssumption DEF RemoveDirectory, Roots
  <2>3. e \in Event /\ e.name = d
        BY <2>1, <2>2 DEF Event
  <2>4. exists' = exists \ {d} /\ kernel' = kernel \ {d} /\ Report(Parent[d], e)
        BY <1>4, <2>1 DEF RemoveDirectory
  <2>5. RemovesAreTrue'
        BY <1>00, <2>2, <2>3, <2>4, ReportedRemoves DEF RemovesAreTrue, Shaped, DiskOK
  <2>6. UNCHANGED <<byDirectory, follower, call>>
        BY <2>4 DEF Report, books
  <2> QED
      BY <1>00, <2>4, <2>5, <2>6 DEF KernelAccounted, Kept, Holding, FollowedBy
<1>5. CASE Handle
  <2>1. PICK e : e = Head(queue)
        OBVIOUS
  <2>2. /\ e \in Event /\ EventOK(e) /\ (e.op = "remove" => e.name \notin exists)
        /\ UNCHANGED <<exists, kernel, follower, call>> /\ queue' = Tail(queue)
        BY <1>5, <1>00, <2>1 DEF Shaped, QueuesOK, Handle, RemovesAreTrue, fs
  <2>3. PICK r : r = byDirectory[e.dir]
        OBVIOUS
  <2>4. UNCHANGED books \/ (e.op = "remove" /\ ForgetDirectory(r, e.name))
        BY <1>5, <2>1, <2>3 DEF Handle
  <2>5. \A d \in kernel : byDirectory'[d] = byDirectory[d]
    <3>1. CASE UNCHANGED books
          BY <3>1 DEF books
    <3>2. CASE e.op = "remove" /\ ForgetDirectory(r, e.name)
      <4>1. e.name \notin kernel
            BY <2>2, <3>2 DEF Shaped, DiskOK
      <4> QED
          BY <3>2, <4>1, KernelInDirs DEF ForgetDirectory, books, Shaped, BooksOK
    <3> QED
        BY <2>4, <3>1, <3>2
  <2>6. \A i \in 1..Len(queue') : i + 1 \in 1..Len(queue) /\ queue'[i] = queue[i + 1]
        BY <1>5, <2>2 DEF Handle, Shaped, QueuesOK
  <2>7. RemovesAreTrue'
        BY <1>00, <2>2, <2>6 DEF RemovesAreTrue
  <2> QED
      BY <1>00, <2>2, <2>5, <2>7 DEF KernelAccounted, Kept, Holding, FollowedBy
<1>6. CASE CloseInner
      BY <1>6, <1>00 DEF CloseInner, KernelAccounted, RemovesAreTrue, fs
<1>7. CASE EndRun
  <2>1. queue' = <<>> /\ UNCHANGED <<kernel, byDirectory, follower, call>>
        BY <1>7 DEF EndRun, books
  <2> QED
      BY <1>00, <2>1 DEF KernelAccounted, RemovesAreTrue, Kept, Holding, FollowedBy
<1>8. CASE FollowCheck
  <2>1. /\ follower = FollowerIdle /\ UNCHANGED <<exists, kernel, queue, byDirectory, call>>
        BY <1>8 DEF FollowCheck, fs, books
  <2>2. \A d \in Dirs : ~FollowedBy(d)
        BY <2>1 DEF FollowedBy, FollowerIdle
  <2> QED
      BY <1>00, <2>1, <2>2, KernelInDirs DEF KernelAccounted, RemovesAreTrue, Kept, Holding
<1>9. CASE FollowAdd
  <2>1. follower.at = "add" /\ UNCHANGED <<exists, queue, byDirectory, call>>
        BY <1>9 DEF FollowAdd, fs, books
  <2>2. \A d \in Dirs : ~FollowedBy(d)
        BY <2>1 DEF FollowedBy
  <2>3. PICK new : new = follower.dir
        OBVIOUS
  <2>4. \/ UNCHANGED kernel
        \/ kernel' = kernel \cup {new} /\ FollowedBy(new)'
    <3>1. CASE Added(new) /\ follower' = [follower EXCEPT !.at = "record"]
          BY <2>3, <3>1 DEF Added, FollowedBy, Shaped, FollowerOK, Follower
    <3>2. CASE NotAdded
          BY <3>2 DEF NotAdded
    <3> QED
        BY <1>9, <2>3, <3>1, <3>2 DEF FollowAdd
  <2>5. \A d \in kernel : Kept(d)'
        BY <1>00, <2>1, <2>2, KernelInDirs DEF KernelAccounted, Kept, Holding
  <2>6. KernelAccounted'
        BY <2>4, <2>5 DEF KernelAccounted, Kept
  <2> QED
      BY <1>00, <2>1, <2>6 DEF RemovesAreTrue
<1>10. CASE FollowRecord
  <2>1. follower.at = "record" /\ UNCHANGED <<exists, kernel, queue, call>>
        BY <1>10 DEF FollowRecord, fs
  <2>2. \/ follower' = [follower EXCEPT !.at = "undo"] /\ UNCHANGED byDirectory
        \/ byDirectory' = [byDirectory EXCEPT ![follower.dir] = follower.repo]
        BY <1>10 DEF FollowRecord, books
  <2>3. follower.repo # Absent /\ follower.dir \in Dirs
        BY <2>1, WatcherAssumption DEF Shaped, FollowerOK, Of
  <2>4. \A d \in kernel : Kept(d)'
    <3>1. CASE follower' = [follower EXCEPT !.at = "undo"] /\ UNCHANGED byDirectory
      <4>1. \A d \in Dirs : FollowedBy(d) => FollowedBy(d)'
            BY <3>1 DEF FollowedBy, Shaped, FollowerOK, Follower
      <4> QED
          BY <1>00, <2>1, <3>1, <4>1, KernelInDirs DEF KernelAccounted, Kept, Holding
    <3>2. CASE byDirectory' = [byDirectory EXCEPT ![follower.dir] = follower.repo]
          BY <1>00, <2>1, <2>3, <3>2, KernelInDirs
          DEF KernelAccounted, Kept, Holding, FollowedBy, Shaped, BooksOK
    <3> QED
        BY <2>2, <3>1, <3>2
  <2> QED
      BY <1>00, <2>1, <2>4 DEF KernelAccounted, RemovesAreTrue
<1>11. CASE FollowUndo
  <2>1. Removed(follower.dir) /\ UNCHANGED <<exists, byDirectory, call>>
        BY <1>11 DEF FollowUndo, fs, books
  <2>2. RemovesAreTrue'
        BY <1>00, <2>1, StaleRemoves
  <2>3. kernel' = kernel \ {follower.dir}
        BY <2>1 DEF Removed
  <2> QED
      BY <1>00, <2>1, <2>2, <2>3 DEF KernelAccounted, Kept, Holding, FollowedBy
<1>12. ASSUME NEW c \in Callers, \E r \in Repos : StartWatch(c, r) \/ StartForget(c, r)
       PROVE KernelAccounted' /\ RemovesAreTrue'
  <2>1. /\ UNCHANGED <<exists, kernel, queue, byDirectory, follower>> /\ call[c] = Idle
        /\ \E k : call' = [call EXCEPT ![c] = k]
        BY <1>12 DEF StartWatch, StartForget, fs, books
  <2>2. \A d : ~Holding(c, d)
        BY <2>1 DEF Holding, Idle
  <2>3. \A other \in Callers \ {c} : call'[other] = call[other]
        BY <2>1 DEF Shaped, CallsOK
  <2> QED
      BY <1>00, <2>1, <2>2, <2>3, KernelInDirs DEF KernelAccounted, RemovesAreTrue, Kept, Holding, FollowedBy
<1>13. ASSUME NEW c \in Callers, TakeDirectories(c) PROVE KernelAccounted' /\ RemovesAreTrue'
  <2>1. UNCHANGED <<exists, kernel, queue, follower>> /\ call[c].at = "take"
        BY <1>13 DEF TakeDirectories, fs
  <2>2. PICK r \in Repos : r = call[c].repo
        BY <2>1 DEF Shaped, CallsOK, CallOK
  <2>3. PICK list : list = Listed(r)
        OBVIOUS
  <2>4. byDirectory' = [d \in Dirs |-> IF d \in list THEN Absent ELSE byDirectory[d]]
        BY <1>13, <2>2, <2>3 DEF TakeDirectories
  <2>5. call' = [call EXCEPT ![c].at = "unwatch", ![c].dropping = list]
        BY <1>13, <2>2, <2>3 DEF TakeDirectories
  <2>6. /\ call'[c].at = "unwatch" /\ call'[c].dropping = list
        /\ \A other \in Callers \ {c} : call'[other] = call[other]
        BY <2>5 DEF Shaped, CallsOK, Call
  <2>7. \A d : ~Holding(c, d)
        BY <2>1 DEF Holding
  <2>8. \A d \in kernel : Kept(d) => Kept(d)'
        BY <2>1, <2>4, <2>6, <2>7, KernelInDirs DEF Kept, Holding, FollowedBy
  <2> QED
      BY <1>00, <2>1, <2>8 DEF KernelAccounted, RemovesAreTrue
<1>14. ASSUME NEW c \in Callers, Unwatch(c) PROVE KernelAccounted' /\ RemovesAreTrue'
  <2>1. PICK d \in call[c].dropping : Removed(d) /\ call' = [call EXCEPT ![c].dropping = @ \ {d}]
        BY <1>14 DEF Unwatch
  <2>2. UNCHANGED <<exists, byDirectory, follower>> /\ call[c].at = "unwatch"
        BY <1>14 DEF Unwatch, fs, books
  <2>3. /\ call'[c].at = "unwatch" /\ call'[c].dropping = call[c].dropping \ {d}
        /\ \A other \in Callers \ {c} : call'[other] = call[other]
        BY <2>1, <2>2 DEF Shaped, CallsOK, Call
  <2>4. RemovesAreTrue'
        BY <1>00, <2>1, <2>2, StaleRemoves
  <2>5. kernel' = kernel \ {d}
        BY <2>1 DEF Removed
  <2>6. \A e \in kernel' : Kept(e) => Kept(e)'
        BY <2>2, <2>3, <2>5 DEF Kept, Holding, FollowedBy
  <2> QED
      BY <1>00, <2>4, <2>5, <2>6, StillKept
<1>15. ASSUME NEW c \in Callers, Unwatched(c) PROVE KernelAccounted' /\ RemovesAreTrue'
  <2>1. /\ UNCHANGED <<exists, kernel, queue, byDirectory, follower>>
        /\ call[c].at = "unwatch" /\ call[c].dropping = {}
        /\ \E k : call' = [call EXCEPT ![c] = k]
        BY <1>15 DEF Unwatched, fs, books
  <2>2. \A d : ~Holding(c, d)
        BY <2>1 DEF Holding
  <2>3. \A other \in Callers \ {c} : call'[other] = call[other]
        BY <2>1 DEF Shaped, CallsOK
  <2> QED
      BY <1>00, <2>1, <2>2, <2>3, KernelInDirs DEF KernelAccounted, RemovesAreTrue, Kept, Holding, FollowedBy
<1>16. ASSUME NEW c \in Callers, call[c].at = "add", UndoWatch(c),
              UNCHANGED <<exists, kernel, queue, byDirectory, follower>>
       PROVE KernelAccounted' /\ RemovesAreTrue'
  <2>1. /\ call'[c].at = "unwatch" /\ call'[c].dropping = call[c].added
        /\ \A other \in Callers \ {c} : call'[other] = call[other]
        BY <1>16 DEF UndoWatch, Shaped, CallsOK, Call
  <2>2. \A d \in kernel : Kept(d) => Kept(d)'
        BY <1>16, <2>1 DEF Kept, Holding, FollowedBy
  <2> QED
      BY <1>00, <1>16, <2>2 DEF KernelAccounted, RemovesAreTrue
<1>17. ASSUME NEW c \in Callers, AddOne(c) PROVE KernelAccounted' /\ RemovesAreTrue'
  <2>1. UNCHANGED <<exists, queue, byDirectory, follower>> /\ call[c].at = "add"
        BY <1>17 DEF AddOne, fs, books
  <2>2. PICK d : \/ kernel' = kernel \cup {d}
                    /\ call' = [call EXCEPT ![c].todo = @ \ {d}, ![c].added = @ \cup {d}]
                 \/ UNCHANGED kernel /\ UndoWatch(c)
        BY <1>17 DEF AddOne, Added, NotAdded
  <2>3. CASE /\ kernel' = kernel \cup {d}
             /\ call' = [call EXCEPT ![c].todo = @ \ {d}, ![c].added = @ \cup {d}]
    <3>1. /\ call'[c].at = "add" /\ call'[c].added = call[c].added \cup {d}
          /\ \A other \in Callers \ {c} : call'[other] = call[other]
          BY <2>1, <2>3 DEF Shaped, CallsOK, Call
    <3>2. \A e \in kernel : Kept(e) => Kept(e)'
          BY <2>1, <3>1 DEF Kept, Holding, FollowedBy
    <3>3. Kept(d)'
          BY <3>1 DEF Kept, Holding
    <3> QED
        BY <1>00, <2>1, <2>3, <3>2, <3>3 DEF KernelAccounted, RemovesAreTrue
  <2> QED
      BY <1>16, <2>1, <2>2, <2>3
<1>18. ASSUME NEW c \in Callers, Record(c) PROVE KernelAccounted' /\ RemovesAreTrue'
  <2>1. UNCHANGED <<exists, kernel, queue, follower>> /\ call[c].at = "add"
        BY <1>18 DEF Record, fs
  <2>2. PICK k : k = call[c]
        OBVIOUS
  <2>3. k.repo \in Repos
        BY <2>1, <2>2 DEF Shaped, CallsOK, CallOK
  <2>4. \/ UndoWatch(c) /\ UNCHANGED byDirectory
        \/ /\ byDirectory' = [d \in Dirs |-> IF d \in k.added THEN k.repo ELSE byDirectory[d]]
           /\ call' = [call EXCEPT ![c] = Idle]
        BY <1>18, <2>2 DEF Record, books
  <2>5. CASE /\ byDirectory' = [d \in Dirs |-> IF d \in k.added THEN k.repo ELSE byDirectory[d]]
             /\ call' = [call EXCEPT ![c] = Idle]
    <3>1. \A other \in Callers \ {c} : call'[other] = call[other]
          BY <2>5 DEF Shaped, CallsOK
    <3>2. \A d : Holding(c, d) => d \in k.added
          BY <2>1, <2>2 DEF Holding
    <3>3. \A d \in kernel : Kept(d) => Kept(d)'
          BY <2>1, <2>3, <2>5, <3>1, <3>2, KernelInDirs, WatcherAssumption DEF Kept, Holding, FollowedBy
    <3> QED
        BY <1>00, <2>1, <3>3 DEF KernelAccounted, RemovesAreTrue
  <2> QED
      BY <1>16, <2>1, <2>4, <2>5
<1>19. ASSUME NEW r \in Repos, Fire(r) \/ Announce(r) PROVE KernelAccounted' /\ RemovesAreTrue'
      BY <1>1, <1>19 DEF Fire, Announce, fs, books
<1>20. CASE Consume \/ StopTimers
      BY <1>20, <1>1 DEF Consume, StopTimers, fs, books
<1>21. CASE UNCHANGED watcherVars
      BY <1>21, <1>1 DEF watcherVars, fs, books
<1> QED
    BY <1>2, <1>3, <1>4, <1>5, <1>6, <1>7, <1>8, <1>9, <1>10, <1>11, <1>12, <1>13, <1>14, <1>15,
       <1>17, <1>18, <1>19, <1>20, <1>21, SMTT(30), SMTT(30)
    DEF WatcherNext, Disk, Worker, Working

LEMMA AccountedInit == WatcherInit => Accounted
BY DEF WatcherInit, Accounted

LEMMA StaysAccounted == WatcherSpec => []Accounted
<1>1. Shaped /\ Accounted /\ [WatcherNext]_watcherVars => Accounted'
      BY AccountedStep
<1> QED
    BY <1>1, AccountedInit, StaysShaped, PTL DEF WatcherSpec

(***************************************************************************)
(* Whoever takes a watch of the kernel drops it or writes it down: when    *)
(* everything has settled there is none that no map names, however many    *)
(* callers open, close and fail (watch.go:410-416).                        *)
(***************************************************************************)
THEOREM NoLeak == WatcherSpec => []NothingLeaks
<1>1. ASSUME Accounted, pace # "any", AtRest PROVE \A d \in kernel : byDirectory[d] # Absent
  <2>1. \A c \in Callers, d \in kernel : ~Holding(c, d)
        BY <1>1 DEF AtRest, Holding, Idle
  <2>2. \A d \in kernel : ~FollowedBy(d)
        BY <1>1 DEF AtRest, FollowedBy, FollowerIdle
  <2> QED
      BY <1>1, <2>1, <2>2 DEF Accounted
<1>2. Accounted => NothingLeaks
      BY <1>1 DEF NothingLeaks
<1> QED
    BY <1>2, StaysAccounted, PTL

-----------------------------------------------------------------------------
(* The calm pace. *)

CalmNow ==
    OneCaller /\ Room /\ Shaped /\ Settles /\ Accounted /\ pace = "calm" /\ closing # "closed" /\ CalmParts

\* What is told is the same, n places further on.
LEMMA SameTelling ==
    ASSUME Shaped, OneAtATime, NEW n \in {0, 1}, queue' \in Seq(Event),
           \A i \in 1..Len(queue') : Tells(i)' => i + n \in 1..Len(queue) /\ queue'[i] = queue[i + n],
           \A i \in 1..Len(queue) : Tells(i) => i - n \in 1..Len(queue') /\ queue'[i - n] = queue[i]
    PROVE  /\ Telling' <=> Telling
           /\ \A op \in {"create", "remove"}, d \in Dirs : ReportedAs(op, d)' <=> ReportedAs(op, d)
           /\ \A i, j \in 1..Len(queue') : Tells(i)' /\ Tells(j)' => i = j
<1>1. queue \in Seq(Event) /\ Len(queue) \in Nat /\ Len(queue') \in Nat
      BY DEF Shaped, QueuesOK
<1>2. \A i \in 1..Len(queue') : Tells(i)' => Tells(i + n)
      BY DEF Tells
<1>3. \A i \in 1..Len(queue) : Tells(i) => Tells(i - n)'
      BY DEF Tells
<1>4. Telling' <=> Telling
      BY <1>2, <1>3 DEF Telling
<1>5. ASSUME NEW op \in {"create", "remove"}, NEW d \in Dirs PROVE ReportedAs(op, d)' <=> ReportedAs(op, d)
  <2>1. ASSUME ReportedAs(op, d)' PROVE ReportedAs(op, d)
        BY <2>1 DEF ReportedAs, Tells
  <2>2. ASSUME ReportedAs(op, d) PROVE ReportedAs(op, d)'
        BY <2>2 DEF ReportedAs, Tells
  <2> QED
      BY <2>1, <2>2
<1>6. ASSUME NEW i \in 1..Len(queue'), NEW j \in 1..Len(queue'), Tells(i)', Tells(j)' PROVE i = j
  <2>1. i + n \in 1..Len(queue) /\ j + n \in 1..Len(queue) /\ Tells(i + n) /\ Tells(j + n)
        BY <1>2, <1>6
  <2>2. i + n = j + n
        BY <2>1 DEF OneAtATime
  <2> QED
      BY <1>1, <2>2
<1> QED
    BY <1>4, <1>5, <1>6

LEMMA NoTelling ==
    ASSUME ~Telling PROVE \A op \in {"create", "remove"} : \A d : ~ReportedAs(op, d)
BY DEF Telling, ReportedAs, Tells

LEMMA CalmSame ==
    ASSUME CalmNow, UNCHANGED <<exists, kernel, byDirectory, directoriesOf, follow, follower, call>>,
           Telling' <=> Telling,
           \A op \in {"create", "remove"}, d \in Dirs : ReportedAs(op, d)' <=> ReportedAs(op, d),
           \A i, j \in 1..Len(queue') : Tells(i)' /\ Tells(j)' => i = j
    PROVE  CalmParts'
<1> USE DEF CalmNow, CalmParts
<1>1. OneAtATime'
      BY DEF OneAtATime
<1>2. \A d \in Dirs : OnItsWay(d)' <=> OnItsWay(d)
      BY DEF OnItsWay
<1>3. WayOK'
      BY <1>2 DEF WayOK
<1>4. \A c \in Callers : WalkOK(call[c])'
      BY DEF WalkOK, Walk
<1>5. BooksAreTrue'
      BY DEF BooksAreTrue, Shaped, DiskOK
<1>6. OpenIsFollowed'
      BY <1>2 DEF OpenIsFollowed, Shaped, DiskOK
<1> QED
    BY <1>1, <1>3, <1>4, <1>5, <1>6

LEMMA CalmUnmoved ==
    ASSUME CalmNow, UNCHANGED <<exists, kernel, queue, byDirectory, directoriesOf, follow, follower, call>>
    PROVE  CalmParts'
<1>1. /\ Telling' <=> Telling
      /\ \A op \in {"create", "remove"}, d \in Dirs : ReportedAs(op, d)' <=> ReportedAs(op, d)
      /\ \A i, j \in 1..Len(queue') : Tells(i)' /\ Tells(j)' => i = j
      BY DEF Telling, ReportedAs, Tells, CalmNow, CalmParts, OneAtATime
<1> QED
    BY <1>1, CalmSame

\* At rest there is nothing on its way.
LEMMA RestIsQuiet ==
    ASSUME CalmNow, AtRest
    PROVE  /\ ~Telling /\ follow = <<>> /\ follower = FollowerIdle /\ queue = <<>>
           /\ \A d \in Dirs : ~OnItsWay(d)
           /\ \A c \in Callers : call[c] = Idle
<1>1. ~Telling
      BY DEF AtRest, Telling
<1>2. \A d \in Dirs : ~OnItsWay(d)
      BY <1>1, NoTelling, WatcherAssumption DEF AtRest, OnItsWay, FollowerIdle
<1> QED
    BY <1>1, <1>2 DEF AtRest

\* Nor is there while a call is under way.
LEMMA CallIsQuiet ==
    ASSUME CalmNow, NEW c \in Callers, call[c] # Idle
    PROVE  /\ ~Telling /\ follow = <<>> /\ follower = FollowerIdle
           /\ \A d \in Dirs : ~OnItsWay(d)
<1>1. ~Telling /\ follow = <<>> /\ follower = FollowerIdle
      BY DEF CalmNow, CalmParts, OneAtATime
<1>2. \A d \in Dirs : ~OnItsWay(d)
      BY <1>1, NoTelling, WatcherAssumption DEF OnItsWay, FollowerIdle
<1> QED
    BY <1>1, <1>2

\* A repository is open when one of its directories is in the books.
LEMMA BookedIsOpen ==
    ASSUME Shaped, BooksAgree, NEW d \in Dirs, byDirectory[d] # Absent
    PROVE  directoriesOf[Owner[d]] # Absent
BY WatcherAssumption DEF Shaped, BooksOK, BooksAgree, Listed

-----------------------------------------------------------------------------
(* What git does. *)

LEMMA WriteCalm == ASSUME CalmNow, NEW d \in Dirs, WriteFile(d) PROVE CalmParts'
<1>1. PICK e : e = [dir |-> d, op |-> "write", name |-> Absent]
      OBVIOUS
<1>2. e \in Event /\ e.op = "write"
      BY <1>1 DEF Event
<1>3. queue \in Seq(Event) /\ (queue' = queue \/ queue' = Append(queue, e))
      BY <1>1 DEF WriteFile, Report, CalmNow, Shaped, QueuesOK
<1>4. /\ queue' \in Seq(Event)
      /\ \A i \in 1..Len(queue') : Tells(i)' => i \in 1..Len(queue) /\ queue'[i] = queue[i]
      /\ \A i \in 1..Len(queue) : i \in 1..Len(queue') /\ queue'[i] = queue[i]
      BY <1>2, <1>3 DEF Tells
<1>5. PICK n \in {0, 1} : n = 0
      OBVIOUS
<1>6. /\ Telling' <=> Telling
      /\ \A op \in {"create", "remove"}, x \in Dirs : ReportedAs(op, x)' <=> ReportedAs(op, x)
      /\ \A i, j \in 1..Len(queue') : Tells(i)' /\ Tells(j)' => i = j
      BY <1>4, <1>5, SameTelling DEF CalmNow, CalmParts
<1> QED
    BY <1>6, CalmSame DEF WriteFile, Report, books

LEMMA MakeCalm == ASSUME CalmNow, NEW d \in Dirs, MakeDirectory(d) PROVE CalmParts'
<1> USE DEF CalmNow, CalmParts
<1>1. AtRest
      BY DEF MakeDirectory, Settled
<1>2. PICK e : e = [dir |-> Parent[d], op |-> "create", name |-> d]
      OBVIOUS
<1>3. PICK p \in exists : p = Parent[d]
      BY DEF MakeDirectory
<1>4. p \in Dirs /\ Owner[p] = Owner[d] /\ d \notin exists
      BY <1>3, WatcherAssumption DEF MakeDirectory, Shaped, DiskOK
<1>5. /\ UNCHANGED <<kernel, byDirectory, directoriesOf, follow, follower, call>>
      /\ exists' = exists \cup {d}
      /\ queue' = IF p \in kernel THEN Append(queue, e) ELSE queue
      BY <1>2, <1>3 DEF MakeDirectory, Report, books
<1>6. /\ ~Telling /\ follow = <<>> /\ follower = FollowerIdle /\ queue = <<>>
      /\ \A x \in Dirs : ~OnItsWay(x)
      /\ \A c \in Callers : call[c] = Idle
      BY <1>1, RestIsQuiet
<1>7. queue' = <<>> \/ queue' = <<e>>
      BY <1>5, <1>6
<1>8. e.op = "create" /\ e.name = d
      BY <1>2
<1>9. \A i \in 1..Len(queue') : i = 1 /\ queue'[i] = e
      BY <1>7, SMTT(30)
<1>10. \A x : ~ReportedAs("remove", x) /\ ~ReportedAs("remove", x)'
      BY <1>6, <1>8, <1>9, NoTelling DEF ReportedAs
<1>11. OneAtATime'
      BY <1>5, <1>6, <1>9 DEF OneAtATime, FollowerIdle
<1>12. \A x \in Dirs : OnItsWay(x)' => x = d
      BY <1>5, <1>6, <1>8, <1>9, WatcherAssumption DEF OnItsWay, ReportedAs, FollowerIdle
<1>13. WayOK'
      BY <1>5, <1>6, <1>12 DEF WayOK, FollowerIdle
<1>14. \A c \in Callers : WalkOK(call[c])'
      BY <1>5, <1>6 DEF WalkOK, Idle
<1>15. BooksAreTrue'
      BY <1>4, <1>5, <1>10 DEF BooksAreTrue
<1>16. OpenIsFollowed'
  <2>1. ASSUME directoriesOf[Owner[d]] # Absent PROVE OnItsWay(d)'
    <3>1. byDirectory[p] # Absent
          BY <1>3, <1>4, <1>6, <2>1 DEF OpenIsFollowed
    <3>2. p \in kernel
          BY <1>3, <3>1 DEF BooksAreTrue
    <3>3. queue' = <<e>>
          BY <1>5, <1>6, <3>2
    <3>4. ReportedAs("create", d)'
          BY <1>8, <3>3 DEF ReportedAs
    <3> QED
        BY <3>4 DEF OnItsWay
  <2>2. \A x \in exists : directoriesOf[Owner[x]] # Absent => byDirectory[x] # Absent
        BY <1>6 DEF OpenIsFollowed, Shaped, DiskOK
  <2> QED
      BY <1>5, <2>1, <2>2 DEF OpenIsFollowed
<1> QED
    BY <1>11, <1>13, <1>14, <1>15, <1>16

LEMMA RemoveCalm == ASSUME CalmNow, NEW d \in Dirs, RemoveDirectory(d) PROVE CalmParts'
<1> USE DEF CalmNow, CalmParts
<1>1. AtRest
      BY DEF RemoveDirectory, Settled
<1>2. PICK e : e = [dir |-> Parent[d], op |-> "remove", name |-> d]
      OBVIOUS
<1>3. PICK p \in exists : p = Parent[d]
      BY DEF RemoveDirectory, Shaped, DiskOK
<1>4. p \in Dirs /\ d \in exists /\ d \notin Roots
      BY <1>3 DEF RemoveDirectory, Shaped, DiskOK
<1>5. /\ UNCHANGED <<byDirectory, directoriesOf, follow, follower, call>>
      /\ exists' = exists \ {d} /\ kernel' = kernel \ {d}
      /\ queue' = IF p \in kernel THEN Append(queue, e) ELSE queue
      BY <1>2, <1>3 DEF RemoveDirectory, Report, books
<1>6. /\ ~Telling /\ follow = <<>> /\ follower = FollowerIdle /\ queue = <<>>
      /\ \A x \in Dirs : ~OnItsWay(x)
      /\ \A c \in Callers : call[c] = Idle
      BY <1>1, RestIsQuiet
<1>7. queue' = <<>> \/ queue' = <<e>>
      BY <1>5, <1>6
<1>8. e.op = "remove" /\ e.name = d
      BY <1>2
<1>9. \A i \in 1..Len(queue') : i = 1 /\ queue'[i] = e
      BY <1>7
<1>10. \A x : ~ReportedAs("remove", x)
      BY <1>6, NoTelling
<1>11. OneAtATime'
      BY <1>5, <1>6, <1>9 DEF OneAtATime, FollowerIdle
<1>12. \A x \in Dirs : ~OnItsWay(x)'
      BY <1>5, <1>6, <1>8, <1>9, WatcherAssumption DEF OnItsWay, ReportedAs, FollowerIdle
<1>13. WayOK'
      BY <1>5, <1>6, <1>12 DEF WayOK, FollowerIdle
<1>14. \A c \in Callers : WalkOK(call[c])'
      BY <1>5, <1>6 DEF WalkOK, Idle
<1>15. BooksAreTrue'
  <2>1. ASSUME byDirectory[d] # Absent PROVE ReportedAs("remove", d)'
    <3>1. byDirectory[p] # Absent
          BY <1>3, <1>4, <2>1 DEF BooksAreTrue
    <3>2. p \in kernel
          BY <1>3, <3>1 DEF BooksAreTrue
    <3>3. queue' = <<e>>
          BY <1>5, <1>6, <3>2
    <3> QED
        BY <1>8, <3>3 DEF ReportedAs
  <2> QED
      BY <1>5, <1>10, <2>1 DEF BooksAreTrue
<1>16. OpenIsFollowed'
      BY <1>5, <1>6 DEF OpenIsFollowed, Shaped, DiskOK
<1> QED
    BY <1>11, <1>13, <1>14, <1>15, <1>16

-----------------------------------------------------------------------------
(* What the event loop and the follow worker do at the calm pace. *)

LEMMA HandleQuietCalm ==
    ASSUME CalmNow, Handle, Head(queue).op \notin {"create", "remove"} PROVE CalmParts'
<1>1. queue \in Seq(Event) /\ queue # <<>> /\ queue' = Tail(queue) /\ ~Tells(1)
      BY DEF Handle, CalmNow, Shaped, QueuesOK, Tells
<1>2. /\ queue' \in Seq(Event)
      /\ \A i \in 1..Len(queue') : i + 1 \in 1..Len(queue) /\ queue'[i] = queue[i + 1]
      /\ \A i \in 1..Len(queue) : i # 1 => i - 1 \in 1..Len(queue') /\ queue'[i - 1] = queue[i]
      BY <1>1
<1>3. PICK n \in {0, 1} : n = 1
      OBVIOUS
<1>4. /\ Telling' <=> Telling
      /\ \A op \in {"create", "remove"}, x \in Dirs : ReportedAs(op, x)' <=> ReportedAs(op, x)
      /\ \A i, j \in 1..Len(queue') : Tells(i)' /\ Tells(j)' => i = j
      BY <1>1, <1>2, <1>3, SameTelling DEF CalmNow, CalmParts
<1>5. UNCHANGED <<exists, kernel, byDirectory, directoriesOf, follow, follower, call>>
      BY DEF Handle, fs, books
<1> QED
    BY <1>4, <1>5, CalmSame

\* The one event that tells something is handed over: no other is left.
LEMMA LastTelling ==
    ASSUME CalmNow, Handle, NEW e \in Event, e = Head(queue), e.op \in {"create", "remove"}
    PROVE  /\ EventOK(e) /\ e.name \in Dirs /\ Parent[e.name] = e.dir /\ e.dir \in Dirs
           /\ Owner[e.dir] = Owner[e.name] /\ e.name \notin Roots
           /\ ReportedAs(e.op, e.name)
           /\ \A op \in {"create", "remove"}, d \in Dirs : ReportedAs(op, d) => op = e.op /\ d = e.name
           /\ ~Telling'
           /\ follow = <<>> /\ follower = FollowerIdle /\ \A c \in Callers : call[c] = Idle
<1> USE DEF CalmNow, CalmParts
<1>1. queue \in Seq(Event) /\ queue # <<>> /\ queue' = Tail(queue) /\ queue[1] = e /\ 1 \in 1..Len(queue)
      BY DEF Handle, Shaped, QueuesOK
<1>2. Tells(1)
      BY <1>1 DEF Tells
<1>3. EventOK(e) /\ e.name \in Dirs /\ Parent[e.name] = e.dir /\ e.dir \in Dirs
      BY <1>1 DEF Shaped, QueuesOK, EventOK, Event
<1>4. Owner[e.dir] = Owner[e.name] /\ e.name \notin Roots
      BY <1>3, WatcherAssumption DEF Roots
<1>5. ReportedAs(e.op, e.name)
      BY <1>1 DEF ReportedAs
<1>6. \A i \in 1..Len(queue) : Tells(i) => i = 1
      BY <1>1, <1>2 DEF OneAtATime
<1>7. \A op \in {"create", "remove"}, d \in Dirs : ReportedAs(op, d) => op = e.op /\ d = e.name
      BY <1>1, <1>6 DEF ReportedAs, Tells
<1>8. \A i \in 1..Len(queue') : i + 1 \in 1..Len(queue) /\ i + 1 # 1 /\ queue'[i] = queue[i + 1]
      BY <1>1
<1>9. ~Telling'
      BY <1>6, <1>8 DEF Telling, Tells
<1>10. follow = <<>> /\ follower = FollowerIdle /\ \A c \in Callers : call[c] = Idle
      BY <1>1, <1>2 DEF OneAtATime, Telling
<1> QED
    BY <1>3, <1>4, <1>5, <1>7, <1>9, <1>10

LEMMA HandleCreateCalm ==
    ASSUME CalmNow, Handle, Head(queue).op = "create" PROVE CalmParts'
<1> USE DEF CalmNow, CalmParts
<1>1. PICK e \in Event : e = Head(queue)
      BY DEF Handle, Shaped, QueuesOK
<1>2. PICK d \in Dirs : d = e.name
      BY <1>1, LastTelling
<1>3. PICK p \in Dirs : p = Parent[d] /\ p = e.dir /\ Owner[p] = Owner[d] /\ d \notin Roots /\ p # d
      BY <1>1, <1>2, LastTelling, WatcherAssumption DEF Roots
<1>4. /\ ReportedAs("create", d) /\ ~Telling'
      /\ \A op \in {"create", "remove"}, x \in Dirs : ReportedAs(op, x) => op = "create" /\ x = d
      /\ follow = <<>> /\ follower = FollowerIdle /\ \A c \in Callers : call[c] = Idle
      BY <1>1, <1>2, LastTelling
<1>5. \A x \in Dirs : OnItsWay(x) => x = d
      BY <1>4, WatcherAssumption DEF OnItsWay, FollowerIdle
<1>6. d \in exists /\ p \in exists
      BY <1>3, <1>4 DEF WayOK, OnItsWay, Shaped, DiskOK
<1>7. UNCHANGED <<exists, kernel, byDirectory, directoriesOf, follower, call>>
      BY <1>1 DEF Handle, fs, books
<1>8. PICK request : request = [repo |-> byDirectory[p], dir |-> d]
      OBVIOUS
<1>9. follow' = IF byDirectory[p] = Absent THEN <<>> ELSE <<request>>
      BY <1>1, <1>2, <1>3, <1>4, <1>6, <1>8, WatcherAssumption DEF Handle, HandOff, Room
<1>10. request.dir = d
      BY <1>8
<1>11. \A i \in 1..Len(follow') : i = 1 /\ follow'[i] = request /\ byDirectory[p] # Absent
      BY <1>9
<1>12. OneAtATime'
      BY <1>4, <1>7, <1>9 DEF OneAtATime, Telling, Tells
<1>13. \A x \in Dirs : OnItsWay(x)' => x = d
  <2>1. \A x \in Dirs : ~ReportedAs("create", x)'
        BY <1>4 DEF ReportedAs, Telling, Tells
  <2> QED
      BY <1>4, <1>7, <1>10, <1>11, <2>1, WatcherAssumption DEF OnItsWay, FollowerIdle
<1>14. WayOK'
      BY <1>3, <1>4, <1>6, <1>7, <1>10, <1>11, <1>13 DEF WayOK, FollowerIdle
<1>15. \A c \in Callers : WalkOK(call[c])'
      BY <1>4, <1>7 DEF WalkOK, Idle
<1>16. BooksAreTrue'
      BY <1>4, <1>7 DEF BooksAreTrue, Shaped, DiskOK
<1>17. OpenIsFollowed'
  <2>1. ASSUME directoriesOf[Owner[d]] # Absent PROVE OnItsWay(d)'
    <3>1. byDirectory[p] # Absent
          BY <1>3, <1>5, <1>6, <2>1 DEF OpenIsFollowed
    <3> QED
        BY <1>9, <1>10, <3>1 DEF OnItsWay
  <2> QED
      BY <1>5, <1>7, <2>1 DEF OpenIsFollowed, Shaped, DiskOK
<1> QED
    BY <1>12, <1>14, <1>15, <1>16, <1>17

LEMMA HandleRemoveCalm ==
    ASSUME CalmNow, Handle, Head(queue).op = "remove" PROVE CalmParts'
<1> USE DEF CalmNow, CalmParts
<1>1. PICK e \in Event : e = Head(queue)
      BY DEF Handle, Shaped, QueuesOK
<1>2. PICK d \in Dirs : d = e.name
      BY <1>1, LastTelling
<1>3. PICK p \in Dirs : p = Parent[d] /\ p = e.dir /\ Owner[p] = Owner[d] /\ d \notin Roots /\ p # d
      BY <1>1, <1>2, LastTelling, WatcherAssumption DEF Roots
<1>4. /\ ReportedAs("remove", d) /\ ~Telling'
      /\ \A op \in {"create", "remove"}, x \in Dirs : ReportedAs(op, x) => op = "remove" /\ x = d
      /\ follow = <<>> /\ follower = FollowerIdle /\ \A c \in Callers : call[c] = Idle
      BY <1>1, <1>2, LastTelling
<1>5. \A x \in Dirs : ~OnItsWay(x)
      BY <1>4, WatcherAssumption DEF OnItsWay, FollowerIdle
<1>6. d \notin exists
      BY <1>4 DEF ReportedAs, Accounted
<1>7. UNCHANGED <<exists, kernel, follower, call, follow>>
      BY <1>1 DEF Handle, fs
<1>8. PICK r : r = byDirectory[p]
      OBVIOUS
<1>9. IF r = Absent THEN UNCHANGED books ELSE ForgetDirectory(r, d)
      BY <1>1, <1>2, <1>3, <1>8 DEF Handle
<1>10. byDirectory[d] # Absent => r # Absent
      BY <1>3, <1>8 DEF BooksAreTrue
<1>11. byDirectory' = [byDirectory EXCEPT ![d] = Absent]
      BY <1>9, <1>10 DEF ForgetDirectory, books, Shaped, BooksOK
<1>12. \A x \in Repos : directoriesOf'[x] = Absent <=> directoriesOf[x] = Absent
  <2>1. CASE UNCHANGED books
        BY <2>1 DEF books
  <2>2. CASE r # Absent /\ directoriesOf' = [directoriesOf EXCEPT ![r] = Listed(r) \ {d}]
    <3>1. r = Owner[p] /\ r \in Repos /\ directoriesOf[r] # Absent
          BY <1>8, <2>2, BookedIsOpen, WatcherAssumption DEF Shaped, BooksOK, Settles
    <3>2. Listed(r) \ {d} \in SUBSET Dirs
          BY <3>1, ListedIsOwned DEF Shaped
    <3>3. Listed(r) \ {d} # Absent
          BY <3>2, WatcherAssumption
    <3> QED
        BY <2>2, <3>1, <3>3 DEF Shaped, BooksOK
  <2> QED
      BY <1>9, <2>1, <2>2 DEF ForgetDirectory
<1>13. \A x \in Dirs : ~ReportedAs("create", x)' /\ ~ReportedAs("remove", x)'
      BY <1>4 DEF ReportedAs, Telling, Tells
<1>14. \A x \in Dirs : ~OnItsWay(x)'
      BY <1>4, <1>7, <1>13, WatcherAssumption DEF OnItsWay, FollowerIdle
<1>15. OneAtATime'
      BY <1>4, <1>7 DEF OneAtATime, Telling, Tells
<1>16. WayOK'
      BY <1>4, <1>7, <1>14 DEF WayOK, FollowerIdle
<1>17. \A c \in Callers : WalkOK(call[c])'
      BY <1>4, <1>7 DEF WalkOK, Idle
<1>18. BooksAreTrue'
  <2>1. \A x \in exists : byDirectory'[x] # Absent => x \in kernel
        BY <1>11 DEF BooksAreTrue, Shaped, DiskOK, BooksOK
  <2>2. \A x \in Dirs \ exists : byDirectory'[x] = Absent
        BY <1>4, <1>11 DEF BooksAreTrue, Shaped, BooksOK
  <2>3. ASSUME NEW x \in Dirs \ Roots, byDirectory'[x] # Absent PROVE byDirectory'[Parent[x]] # Absent
    <3>1. x \in exists /\ byDirectory[x] # Absent
          BY <1>11, <2>2, <2>3 DEF Shaped, BooksOK
    <3>2. Parent[x] \in exists
          BY <2>3, <3>1 DEF Shaped, DiskOK
    <3>3. Parent[x] # d /\ byDirectory[Parent[x]] # Absent /\ Parent[x] \in Dirs
          BY <1>6, <2>3, <3>1, <3>2 DEF BooksAreTrue, Shaped, DiskOK
    <3> QED
        BY <1>11, <3>3 DEF Shaped, BooksOK
  <2> QED
      BY <1>7, <2>1, <2>2, <2>3 DEF BooksAreTrue
<1>19. OpenIsFollowed'
  <2>1. \A x \in exists : x # d /\ x \in Dirs /\ Owner[x] \in Repos
        BY <1>6, WatcherAssumption DEF Shaped, DiskOK
  <2> QED
      BY <1>5, <1>7, <1>11, <1>12, <2>1 DEF OpenIsFollowed, Shaped, BooksOK
<1> QED
    BY <1>15, <1>16, <1>17, <1>18, <1>19

LEMMA HandleCalm == ASSUME CalmNow, Handle PROVE CalmParts'
BY HandleQuietCalm, HandleCreateCalm, HandleRemoveCalm

LEMMA CheckCalm == ASSUME CalmNow, FollowCheck PROVE CalmParts'
<1> USE DEF CalmNow, CalmParts
<1>1. follow # <<>> /\ Len(follow) = 1 /\ follower = FollowerIdle /\ ~Telling
      BY DEF FollowCheck, OneAtATime
<1>2. follow \in Seq(FollowRequest) /\ 1 \in 1..Len(follow)
      BY <1>1 DEF Shaped, QueuesOK
<1>3. PICK request \in FollowRequest : request = follow[1]
      BY <1>1, <1>2
<1>4. PICK d \in Dirs : d = request.dir
      BY <1>3 DEF FollowRequest
<1>5. PICK r \in Repos : r = request.repo
      BY <1>3 DEF FollowRequest
<1>6. d \in Of(r) \ Roots /\ Head(follow) = request /\ follow' = <<>>
      BY <1>1, <1>2, <1>3, <1>4, <1>5 DEF FollowCheck, Shaped, QueuesOK
<1>7. \A c \in Callers : call[c] = Idle
      BY <1>1 DEF OneAtATime
<1>8. \A i \in 1..Len(follow) : follow[i].dir = d
      BY <1>1, <1>2, <1>3, <1>4
<1>9. \A x \in Dirs : OnItsWay(x) <=> x = d
      BY <1>1, <1>2, <1>8, NoTelling, WatcherAssumption DEF OnItsWay, FollowerIdle
<1>10. d \in exists /\ byDirectory[Parent[d]] # Absent
      BY <1>2, <1>8, <1>9 DEF WayOK
<1>11. UNCHANGED <<exists, kernel, queue, byDirectory, directoriesOf, call>>
      BY DEF FollowCheck, fs, books
<1>12. PICK new : new = [at |-> "add", repo |-> r, dir |-> d]
      OBVIOUS
<1>13. IF byDirectory[d] # Absent THEN follower' = FollowerIdle ELSE follower' = new
  <2>1. ~closed
        BY DEF Shaped, CloseOK
  <2>2. ASSUME byDirectory[d] = Absent PROVE ~(Cardinality(Listed(r)) >= MaxWatchedDirectories)
    <3>1. Listed(r) \subseteq Dirs \ {d}
          BY <2>2, ListedIsOwned, WatcherAssumption DEF Settles, BooksAgree, Shaped
    <3>2. IsFiniteSet(Dirs \ {d}) /\ Cardinality(Dirs \ {d}) = Cardinality(Dirs) - 1
          BY FS_RemoveElement DEF Room
    <3>3. Cardinality(Listed(r)) <= Cardinality(Dirs \ {d})
          BY <3>1, <3>2, FS_Subset
    <3>4. Cardinality(Dirs) \in Nat /\ Cardinality(Listed(r)) \in Nat
          BY <3>1, <3>2, FS_Subset, FS_CardinalityType DEF Room
    <3> QED
        BY <3>2, <3>3, <3>4, WatcherAssumption DEF Room
  <2> QED
      BY <1>4, <1>5, <1>6, <1>12, <2>1, <2>2 DEF FollowCheck
<1>14. new.at = "add" /\ new.dir = d /\ new # FollowerIdle
      BY <1>12, WatcherAssumption DEF FollowerIdle
<1>15. ~Telling' /\ \A i \in 1..Len(queue') : ~Tells(i)'
      BY <1>1, <1>11 DEF Telling, Tells
<1>16. OneAtATime'
      BY <1>6, <1>7, <1>11, <1>15 DEF OneAtATime
<1>17. \A x \in Dirs : OnItsWay(x)' <=> (byDirectory[d] = Absent /\ x = d)
  <2>1. \A x \in Dirs : ~ReportedAs("create", x)'
        BY <1>15 DEF ReportedAs, Tells
  <2> QED
      BY <1>6, <1>13, <1>14, <2>1, WatcherAssumption DEF OnItsWay, FollowerIdle
<1>18. WayOK'
      BY <1>6, <1>10, <1>11, <1>13, <1>14, <1>17 DEF WayOK, FollowerIdle
<1>19. \A c \in Callers : WalkOK(call[c])'
      BY <1>7, <1>11 DEF WalkOK, Idle
<1>20. BooksAreTrue'
      BY <1>11 DEF BooksAreTrue, ReportedAs
<1>21. OpenIsFollowed'
      BY <1>9, <1>11, <1>17 DEF OpenIsFollowed, Shaped, DiskOK
<1> QED
    BY <1>16, <1>18, <1>19, <1>20, <1>21

\* The worker has something in hand.
LEMMA WorkerIsAlone ==
    ASSUME CalmNow, follower.at # "idle"
    PROVE  /\ ~Telling /\ follow = <<>> /\ \A c \in Callers : call[c] = Idle
           /\ follower.repo \in Repos /\ follower.dir \in Of(follower.repo) \ Roots
           /\ \A x \in Dirs : OnItsWay(x) <=> x = follower.dir
           /\ follower.dir \in exists /\ byDirectory[Parent[follower.dir]] # Absent
<1> USE DEF CalmNow, CalmParts
<1>1. follower # FollowerIdle
      BY DEF FollowerIdle
<1>2. ~Telling /\ follow = <<>> /\ \A c \in Callers : call[c] = Idle
      BY <1>1 DEF OneAtATime
<1>3. follower.repo \in Repos /\ follower.dir \in Of(follower.repo) \ Roots
      BY DEF Shaped, FollowerOK
<1>4. \A x \in Dirs : OnItsWay(x) <=> x = follower.dir
      BY <1>2, NoTelling DEF OnItsWay
<1>5. follower.dir \in exists /\ byDirectory[Parent[follower.dir]] # Absent
      BY <1>1, <1>3, <1>4 DEF WayOK, Of
<1> QED
    BY <1>2, <1>3, <1>4, <1>5

LEMMA AddCalm == ASSUME CalmNow, FollowAdd PROVE CalmParts'
<1> USE DEF CalmNow, CalmParts
<1>1. PICK d : d = follower.dir
      OBVIOUS
<1>2. /\ ~Telling /\ follow = <<>> /\ \A c \in Callers : call[c] = Idle
      /\ d \in Dirs /\ d \notin Roots
      /\ \A x \in Dirs : OnItsWay(x) <=> x = d
      /\ d \in exists /\ byDirectory[Parent[d]] # Absent
      BY <1>1, WorkerIsAlone DEF FollowAdd, Of
<1>3. /\ kernel' = kernel \cup {d} /\ follower' = [follower EXCEPT !.at = "record"]
      /\ UNCHANGED <<exists, queue, byDirectory, directoriesOf, follow, call>>
      BY <1>1, <1>2 DEF FollowAdd, Added, fs, books
<1>4. follower'.at = "record" /\ follower'.dir = d
      BY <1>1, <1>3 DEF Shaped, FollowerOK, Follower
<1>5. ~Telling' /\ \A i \in 1..Len(queue') : ~Tells(i)'
      BY <1>2, <1>3 DEF Telling, Tells
<1>6. \A x \in Dirs : OnItsWay(x)' <=> x = d
      BY <1>2, <1>3, <1>4, <1>5 DEF OnItsWay, ReportedAs, Tells
<1>7. OneAtATime'
      BY <1>2, <1>3, <1>5 DEF OneAtATime
<1>8. WayOK'
      BY <1>2, <1>3, <1>4, <1>6 DEF WayOK
<1>9. \A c \in Callers : WalkOK(call[c])'
      BY <1>2, <1>3 DEF WalkOK, Idle
<1>10. BooksAreTrue'
      BY <1>3 DEF BooksAreTrue, ReportedAs
<1>11. OpenIsFollowed'
      BY <1>2, <1>3, <1>6 DEF OpenIsFollowed, Shaped, DiskOK
<1> QED
    BY <1>7, <1>8, <1>9, <1>10, <1>11

LEMMA FollowRecordCalm == ASSUME CalmNow, FollowRecord PROVE CalmParts'
<1> USE DEF CalmNow, CalmParts
<1>1. PICK d : d = follower.dir
      OBVIOUS
<1>2. PICK r : r = follower.repo
      OBVIOUS
<1>3. /\ ~Telling /\ follow = <<>> /\ \A c \in Callers : call[c] = Idle
      /\ d \in Dirs /\ d \notin Roots /\ r \in Repos /\ r = Owner[d]
      /\ \A x \in Dirs : OnItsWay(x) <=> x = d
      /\ d \in exists /\ byDirectory[Parent[d]] # Absent
      BY <1>1, <1>2, WorkerIsAlone DEF FollowRecord, Of
<1>4. d \in kernel
      BY <1>1 DEF FollowRecord, WayOK
<1>5. PICK p \in Dirs : p = Parent[d] /\ Owner[p] = r
      BY <1>3, WatcherAssumption DEF Roots
<1>6. directoriesOf[r] # Absent /\ ~closed
      BY <1>3, <1>5, BookedIsOpen DEF Settles, Shaped, CloseOK
<1>7. /\ byDirectory' = [byDirectory EXCEPT ![d] = r]
      /\ directoriesOf' = [directoriesOf EXCEPT ![r] = directoriesOf[r] \cup {d}]
      /\ follower' = FollowerIdle
      /\ UNCHANGED <<exists, kernel, queue, follow, call>>
      BY <1>1, <1>2, <1>6 DEF FollowRecord, fs
<1>8. \A x \in Dirs : byDirectory[x] # Absent => byDirectory'[x] # Absent
      BY <1>3, <1>7, WatcherAssumption DEF Shaped, BooksOK
<1>9. byDirectory'[d] # Absent /\ \A x \in Dirs \ {d} : byDirectory'[x] = byDirectory[x]
      BY <1>3, <1>7, WatcherAssumption DEF Shaped, BooksOK
<1>10. \A x \in Repos : directoriesOf'[x] # Absent => directoriesOf[x] # Absent
      BY <1>3, <1>6, <1>7 DEF Shaped, BooksOK
<1>11. ~Telling' /\ \A i \in 1..Len(queue') : ~Tells(i)'
      BY <1>3, <1>7 DEF Telling, Tells
<1>12. \A x \in Dirs : ~OnItsWay(x)'
      BY <1>3, <1>7, <1>11, WatcherAssumption DEF OnItsWay, ReportedAs, Tells, FollowerIdle
<1>13. OneAtATime'
      BY <1>3, <1>7, <1>11 DEF OneAtATime
<1>14. WayOK'
      BY <1>3, <1>7, <1>12 DEF WayOK, FollowerIdle
<1>15. \A c \in Callers : WalkOK(call[c])'
      BY <1>3, <1>7 DEF WalkOK, Idle
<1>16. BooksAreTrue'
  <2>1. \A x \in exists : byDirectory'[x] # Absent => x \in kernel
        BY <1>4, <1>9 DEF BooksAreTrue, Shaped, DiskOK
  <2>2. \A x \in Dirs \ exists : byDirectory'[x] # Absent => ReportedAs("remove", x)'
        BY <1>3, <1>7, <1>9 DEF BooksAreTrue, ReportedAs
  <2>3. ASSUME NEW x \in Dirs \ Roots, byDirectory'[x] # Absent PROVE byDirectory'[Parent[x]] # Absent
    <3>1. Parent[x] \in Dirs
          BY <2>3, WatcherAssumption DEF Roots
    <3>2. byDirectory[Parent[x]] # Absent
          BY <1>3, <1>9, <2>3 DEF BooksAreTrue
    <3> QED
        BY <1>8, <3>1, <3>2
  <2> QED
      BY <1>7, <2>1, <2>2, <2>3 DEF BooksAreTrue
<1>17. OpenIsFollowed'
  <2>1. \A x \in exists : x \in Dirs /\ Owner[x] \in Repos
        BY WatcherAssumption DEF Shaped, DiskOK
  <2> QED
      BY <1>3, <1>7, <1>8, <1>9, <1>10, <2>1 DEF OpenIsFollowed
<1> QED
    BY <1>13, <1>14, <1>15, <1>16, <1>17

LEMMA WorkerCalm == ASSUME CalmNow, Worker PROVE CalmParts'
<1>1. ~FollowUndo
      BY DEF FollowUndo, CalmNow, CalmParts, WayOK
<1> QED
    BY <1>1, CheckCalm, AddCalm, FollowRecordCalm DEF Worker

-----------------------------------------------------------------------------
(* What the callers do at the calm pace. *)

\* A call changes while nothing is on its way: what is left to show.
LEMMA CallCalm ==
    ASSUME CalmNow, NEW c \in Callers,
           ~Telling', \A d \in Dirs : ~ReportedAs("remove", d), follow' = <<>>, follower' = FollowerIdle,
           WalkOK(call[c])', BooksAreTrue',
           \A d \in exists' : directoriesOf'[Owner[d]] # Absent => byDirectory'[d] # Absent
    PROVE  CalmParts'
<1> USE DEF CalmNow, CalmParts
<1>1. \A i \in 1..Len(queue') : ~Tells(i)'
      BY DEF Telling
<1>2. OneAtATime'
      BY <1>1 DEF OneAtATime
<1>3. \A d \in Dirs : ~OnItsWay(d)'
      BY <1>1, WatcherAssumption DEF OnItsWay, ReportedAs, Tells, FollowerIdle
<1>4. WayOK'
      BY <1>3 DEF WayOK, FollowerIdle
<1>5. \A other \in Callers : WalkOK(call[other])'
      BY DEF OneCaller
<1>6. OpenIsFollowed'
      BY DEF OpenIsFollowed
<1> QED
    BY <1>2, <1>4, <1>5, <1>6

\* Of an open repository every directory is in the books when nothing is on its way.
LEMMA QuietIsBooked ==
    ASSUME CalmNow, \A d \in Dirs : ~OnItsWay(d)
    PROVE  \A d \in exists : directoriesOf[Owner[d]] # Absent => byDirectory[d] # Absent
BY DEF CalmNow, CalmParts, OpenIsFollowed, Shaped, DiskOK

LEMMA StartCalm ==
    ASSUME CalmNow, NEW c \in Callers, NEW r \in Repos, StartWatch(c, r) \/ StartForget(c, r)
    PROVE  CalmParts'
<1> USE DEF CalmNow, CalmParts
<1>1. /\ ~Telling /\ follow = <<>> /\ follower = FollowerIdle /\ queue = <<>>
      /\ \A d \in Dirs : ~OnItsWay(d)
      BY RestIsQuiet DEF StartWatch, StartForget
<1>2. UNCHANGED <<exists, kernel, queue, byDirectory, directoriesOf, follow, follower>>
      BY DEF StartWatch, StartForget, fs, books
<1>3. ~Telling' /\ \A d \in Dirs : ~ReportedAs("remove", d)
      BY <1>1, <1>2, NoTelling DEF Telling, Tells
<1>4. call \in [Callers -> Call]
      BY DEF Shaped, CallsOK
<1>5. WalkOK(call[c])'
  <2>1. CASE StartWatch(c, r)
    <3>1. /\ call'[c].op = "watch" /\ call'[c].at = "take" /\ call'[c].repo = r
          /\ call'[c].todo = Walk(r)
          BY <1>4, <2>1 DEF StartWatch
    <3> QED
        BY <1>2, <3>1 DEF WalkOK, Walk
  <2>2. CASE StartForget(c, r)
    <3>1. call'[c].op = "forget" /\ call'[c].at = "take"
          BY <1>4, <2>2 DEF StartForget, Idle
    <3> QED
        BY <3>1 DEF WalkOK
  <2> QED
      BY <2>1, <2>2
<1>6. BooksAreTrue'
      BY <1>2 DEF BooksAreTrue, ReportedAs
<1> QED
    BY <1>1, <1>2, <1>3, <1>5, <1>6, QuietIsBooked, CallCalm

\* What holds of every step of a call.
LEMMA WorkingCalm ==
    ASSUME CalmNow, NEW c \in Callers, call[c].at # "idle"
    PROVE  /\ ~Telling /\ (\A d \in Dirs : ~ReportedAs("remove", d))
           /\ follow = <<>> /\ follower = FollowerIdle
           /\ (\A d \in exists : directoriesOf[Owner[d]] # Absent => byDirectory[d] # Absent)
           /\ call \in [Callers -> Call] /\ call[c].repo \in Repos
           /\ (\A d \in Dirs \ exists : byDirectory[d] = Absent)
<1>1. call[c] # Idle
      BY DEF Idle
<1>2. ~Telling /\ follow = <<>> /\ follower = FollowerIdle /\ \A d \in Dirs : ~OnItsWay(d)
      BY <1>1, CallIsQuiet
<1>3. \A d \in Dirs : ~ReportedAs("remove", d)
      BY <1>2, NoTelling
<1>4. call \in [Callers -> Call] /\ call[c].repo \in Repos
      BY DEF CalmNow, Shaped, CallsOK, CallOK
<1>5. \A d \in Dirs \ exists : byDirectory[d] = Absent
      BY <1>3 DEF CalmNow, CalmParts, BooksAreTrue
<1> QED
    BY <1>2, <1>3, <1>4, <1>5, QuietIsBooked

\* A repository without a list has nothing in the books.
LEMMA UnlistedIsUnbooked ==
    ASSUME CalmNow, NEW r \in Repos, directoriesOf[r] = Absent
    PROVE  \A d \in Of(r) : byDirectory[d] = Absent
BY BookedIsOpen DEF CalmNow, Settles, Of

LEMMA TakeCalm == ASSUME CalmNow, NEW c \in Callers, TakeDirectories(c) PROVE CalmParts'
<1> USE DEF CalmNow, CalmParts
<1>1. /\ ~Telling /\ (\A d \in Dirs : ~ReportedAs("remove", d))
      /\ follow = <<>> /\ follower = FollowerIdle
      /\ (\A d \in exists : directoriesOf[Owner[d]] # Absent => byDirectory[d] # Absent)
      /\ call \in [Callers -> Call] /\ call[c].repo \in Repos
      /\ (\A d \in Dirs \ exists : byDirectory[d] = Absent)
      BY WorkingCalm DEF TakeDirectories
<1>2. PICK r \in Repos : r = call[c].repo
      BY <1>1
<1>3. PICK list : list = Listed(r)
      OBVIOUS
<1>4. /\ byDirectory' = [d \in Dirs |-> IF d \in list THEN Absent ELSE byDirectory[d]]
      /\ directoriesOf' = [directoriesOf EXCEPT ![r] = Absent]
      /\ UNCHANGED <<exists, kernel, queue, follow, follower>>
      BY <1>2, <1>3 DEF TakeDirectories, fs
<1>5. /\ call'[c].op = call[c].op /\ call'[c].repo = r /\ call'[c].at = "unwatch"
      /\ call'[c].todo = call[c].todo
      BY <1>1, <1>2 DEF TakeDirectories, Call
<1>6. \A d \in Dirs : byDirectory'[d] = IF Owner[d] = r THEN Absent ELSE byDirectory[d]
      BY <1>3, <1>4, WatcherAssumption DEF Shaped, BooksOK, Settles, BooksAgree
<1>7. \A x \in Repos : directoriesOf'[x] = IF x = r THEN Absent ELSE directoriesOf[x]
      BY <1>4 DEF Shaped, BooksOK
<1>8. ~Telling'
      BY <1>1, <1>4 DEF Telling, Tells
<1>9. WalkOK(call[c])'
  <2>1. call[c].op = "watch" => call[c].todo = Walk(r)
        BY <1>2 DEF TakeDirectories, WalkOK
  <2>2. directoriesOf'[r] = Absent
        BY <1>7
  <2> QED
      BY <1>4, <1>5, <2>1, <2>2 DEF WalkOK, Walk
<1>10. BooksAreTrue'
  <2>1. \A d \in exists : byDirectory'[d] # Absent => d \in kernel
        BY <1>6 DEF BooksAreTrue, Shaped, DiskOK
  <2>2. \A d \in Dirs \ exists : byDirectory'[d] = Absent
        BY <1>1, <1>6
  <2>3. ASSUME NEW d \in Dirs \ Roots, byDirectory'[d] # Absent PROVE byDirectory'[Parent[d]] # Absent
    <3>1. Parent[d] \in Dirs /\ Owner[Parent[d]] = Owner[d]
          BY <2>3, WatcherAssumption DEF Roots
    <3>2. Owner[d] # r /\ byDirectory[Parent[d]] # Absent
          BY <1>6, <2>3 DEF BooksAreTrue
    <3> QED
        BY <1>6, <3>1, <3>2
  <2> QED
      BY <1>4, <2>1, <2>2, <2>3 DEF BooksAreTrue
<1>11. \A d \in exists' : directoriesOf'[Owner[d]] # Absent => byDirectory'[d] # Absent
      BY <1>1, <1>4, <1>6, <1>7, WatcherAssumption DEF Shaped, DiskOK
<1> QED
    BY <1>1, <1>4, <1>8, <1>9, <1>10, <1>11, CallCalm

LEMMA UnwatchCalm == ASSUME CalmNow, NEW c \in Callers, Unwatch(c) PROVE CalmParts'
<1> USE DEF CalmNow, CalmParts
<1>1. /\ ~Telling /\ (\A d \in Dirs : ~ReportedAs("remove", d))
      /\ follow = <<>> /\ follower = FollowerIdle
      /\ (\A d \in exists : directoriesOf[Owner[d]] # Absent => byDirectory[d] # Absent)
      /\ call \in [Callers -> Call] /\ call[c].repo \in Repos
      /\ (\A d \in Dirs \ exists : byDirectory[d] = Absent)
      BY WorkingCalm DEF Unwatch
<1>2. PICK d \in call[c].dropping : Removed(d) /\ call' = [call EXCEPT ![c].dropping = @ \ {d}]
      BY DEF Unwatch
<1>3. UNCHANGED <<exists, byDirectory, directoriesOf, follow, follower>> /\ kernel' = kernel \ {d}
      BY <1>2 DEF Unwatch, Removed, fs, books
<1>4. /\ call'[c].op = call[c].op /\ call'[c].repo = call[c].repo /\ call'[c].at = "unwatch"
      /\ call'[c].todo = call[c].todo
      BY <1>1, <1>2 DEF Unwatch, Call
<1>5. directoriesOf[call[c].repo] = Absent
      BY DEF WalkOK, Unwatch
<1>6. byDirectory[d] = Absent
      BY <1>1, <1>2, <1>5, UnlistedIsUnbooked DEF Shaped, CallsOK, CallOK
<1>7. ~Telling'
  <2>1. /\ Len(queue') = Len(queue)
        /\ \A i \in 1..Len(queue) :
             queue'[i] = IF queue[i].dir = d THEN [queue[i] EXCEPT !.op = "stale"] ELSE queue[i]
        BY <1>2, StaleEvents DEF Shaped, QueuesOK
  <2>2. \A i \in 1..Len(queue) : queue[i] \in Event /\ queue[i].op \notin {"create", "remove"}
        BY <1>1 DEF Shaped, QueuesOK, Telling, Tells
  <2> QED
      BY <2>1, <2>2 DEF Telling, Tells, Event
<1>8. WalkOK(call[c])'
      BY <1>3, <1>4, <1>5 DEF WalkOK, Walk, Unwatch
<1>9. BooksAreTrue'
      BY <1>1, <1>3, <1>6 DEF BooksAreTrue
<1> QED
    BY <1>1, <1>3, <1>7, <1>8, <1>9, CallCalm

LEMMA UnwatchedCalm == ASSUME CalmNow, NEW c \in Callers, Unwatched(c) PROVE CalmParts'
<1> USE DEF CalmNow, CalmParts
<1>1. /\ ~Telling /\ (\A d \in Dirs : ~ReportedAs("remove", d))
      /\ follow = <<>> /\ follower = FollowerIdle
      /\ (\A d \in exists : directoriesOf[Owner[d]] # Absent => byDirectory[d] # Absent)
      /\ call \in [Callers -> Call] /\ call[c].repo \in Repos
      /\ (\A d \in Dirs \ exists : byDirectory[d] = Absent)
      BY WorkingCalm DEF Unwatched
<1>2. UNCHANGED <<exists, kernel, queue, byDirectory, directoriesOf, follow, follower>>
      BY DEF Unwatched, fs, books
<1>3. ~Telling'
      BY <1>1, <1>2 DEF Telling, Tells
<1>4. WalkOK(call[c])'
  <2>1. PICK k : k = call[c]
        OBVIOUS
  <2>2. CallOK(k) /\ k.at = "unwatch" /\ WalkOK(k)
        BY <2>1 DEF Unwatched, Shaped, CallsOK
  <2>3. call'[c] = Idle \/ (k.op = "watch" /\ call'[c] = [k EXCEPT !.at = "add"])
        BY <1>1, <2>1 DEF Unwatched
  <2>4. CASE call'[c] = Idle
        BY <2>4 DEF WalkOK, Idle
  <2>5. CASE k.op = "watch" /\ call'[c] = [k EXCEPT !.at = "add"]
    <3>1. /\ call'[c].at = "add" /\ call'[c].todo = k.todo /\ call'[c].added = k.added
          /\ call'[c].repo = k.repo
          BY <2>2, <2>5 DEF CallOK, Call
    <3>2. k.todo = Walk(k.repo) /\ k.added = {} /\ directoriesOf[k.repo] = Absent
          BY <2>2, <2>5 DEF CallOK, WalkOK
    <3> QED
        BY <1>2, <3>1, <3>2 DEF WalkOK, Walk
  <2> QED
      BY <2>3, <2>4, <2>5
<1>5. BooksAreTrue'
      BY <1>2 DEF BooksAreTrue, ReportedAs
<1> QED
    BY <1>1, <1>2, <1>3, <1>4, <1>5, CallCalm

LEMMA AddOneCalm == ASSUME CalmNow, NEW c \in Callers, AddOne(c) PROVE CalmParts'
<1> USE DEF CalmNow, CalmParts
<1>1. /\ ~Telling /\ (\A d \in Dirs : ~ReportedAs("remove", d))
      /\ follow = <<>> /\ follower = FollowerIdle
      /\ (\A d \in exists : directoriesOf[Owner[d]] # Absent => byDirectory[d] # Absent)
      /\ call \in [Callers -> Call] /\ call[c].repo \in Repos
      /\ (\A d \in Dirs \ exists : byDirectory[d] = Absent)
      BY WorkingCalm DEF AddOne
<1>2. PICK k : k = call[c]
      OBVIOUS
<1>3. /\ CallOK(k) /\ k.at = "add" /\ directoriesOf[k.repo] = Absent
      /\ k.todo \cup k.added = Walk(k.repo) /\ k.added \subseteq kernel
      BY <1>2 DEF AddOne, Shaped, CallsOK, WalkOK
<1>4. UNCHANGED <<exists, queue, byDirectory, directoriesOf, follow, follower>>
      BY DEF AddOne, fs, books
<1>5. ~Telling'
      BY <1>1, <1>4 DEF Telling, Tells
<1>6. PICK d \in k.todo :
         \/ Added(d) /\ call' = [call EXCEPT ![c].todo = @ \ {d}, ![c].added = @ \cup {d}]
         \/ NotAdded /\ UndoWatch(c)
      BY <1>2 DEF AddOne
<1>7. kernel \subseteq kernel'
      BY <1>6 DEF Added, NotAdded
<1>8. WalkOK(call[c])'
  <2>1. CASE Added(d) /\ call' = [call EXCEPT ![c].todo = @ \ {d}, ![c].added = @ \cup {d}]
    <3>1. /\ call'[c].at = "add" /\ call'[c].todo = k.todo \ {d} /\ call'[c].added = k.added \cup {d}
          /\ call'[c].repo = k.repo
          BY <1>1, <1>2, <1>3, <2>1 DEF Call
    <3>2. kernel' = kernel \cup {d}
          BY <2>1 DEF Added
    <3> QED
        BY <1>3, <1>4, <1>6, <3>1, <3>2 DEF WalkOK, Walk
  <2>2. CASE UndoWatch(c)
    <3>1. call'[c].at = "unwatch" /\ call'[c].op = "undo" /\ call'[c].repo = k.repo
          BY <1>1, <1>2, <2>2 DEF UndoWatch, Call
    <3> QED
        BY <1>3, <1>4, <3>1 DEF WalkOK
  <2> QED
      BY <1>6, <2>1, <2>2
<1>9. BooksAreTrue'
      BY <1>4, <1>7 DEF BooksAreTrue, ReportedAs
<1> QED
    BY <1>1, <1>4, <1>5, <1>8, <1>9, CallCalm

LEMMA RecordCalm == ASSUME CalmNow, NEW c \in Callers, Record(c) PROVE CalmParts'
<1> USE DEF CalmNow, CalmParts
<1>1. /\ ~Telling /\ (\A d \in Dirs : ~ReportedAs("remove", d))
      /\ follow = <<>> /\ follower = FollowerIdle
      /\ (\A d \in exists : directoriesOf[Owner[d]] # Absent => byDirectory[d] # Absent)
      /\ call \in [Callers -> Call] /\ call[c].repo \in Repos
      /\ (\A d \in Dirs \ exists : byDirectory[d] = Absent)
      BY WorkingCalm DEF Record
<1>2. PICK k : k = call[c]
      OBVIOUS
<1>3. PICK r \in Repos : r = k.repo
      BY <1>1, <1>2
<1>4. /\ CallOK(k) /\ k.at = "add" /\ k.todo = {} /\ k.added = Walk(r) /\ k.added \subseteq kernel
      /\ directoriesOf[r] = Absent
      BY <1>2, <1>3 DEF Record, Shaped, CallsOK, WalkOK
<1>5. ~closed
      BY DEF Shaped, CloseOK
<1>6. /\ byDirectory' = [d \in Dirs |-> IF d \in k.added THEN r ELSE byDirectory[d]]
      /\ directoriesOf' = [directoriesOf EXCEPT ![r] = k.added]
      /\ call' = [call EXCEPT ![c] = Idle]
      /\ UNCHANGED <<exists, kernel, queue, follow, follower>>
      BY <1>2, <1>3, <1>5 DEF Record, fs
<1>7. ~Telling'
      BY <1>1, <1>6 DEF Telling, Tells
<1>8. WalkOK(call[c])'
      BY <1>1, <1>6 DEF WalkOK, Idle
<1>9. \A d \in exists : d \in Dirs /\ (d \in k.added <=> Owner[d] = r)
      BY <1>4 DEF Walk, Shaped, DiskOK
<1>10. \A d \in Dirs : byDirectory'[d] = IF d \in k.added THEN r ELSE byDirectory[d]
      BY <1>6
<1>11. k.added \subseteq exists /\ r # Absent
      BY <1>4, WatcherAssumption DEF Walk
<1>12. BooksAreTrue'
  <2>1. \A d \in exists : byDirectory'[d] # Absent => d \in kernel
        BY <1>4, <1>9, <1>10 DEF BooksAreTrue
  <2>2. \A d \in Dirs \ exists : byDirectory'[d] = Absent
        BY <1>1, <1>10, <1>11
  <2>3. ASSUME NEW d \in Dirs \ Roots, byDirectory'[d] # Absent PROVE byDirectory'[Parent[d]] # Absent
    <3>1. d \in exists
          BY <2>2, <2>3
    <3>2. Parent[d] \in exists /\ Parent[d] \in Dirs /\ Owner[Parent[d]] = Owner[d]
          BY <2>3, <3>1, WatcherAssumption DEF Shaped, DiskOK, Roots
    <3>3. CASE d \in k.added
          BY <1>9, <1>10, <1>11, <3>1, <3>2, <3>3
    <3>4. CASE d \notin k.added
      <4>1. byDirectory[d] # Absent
            BY <1>10, <2>3, <3>4
      <4>2. byDirectory[Parent[d]] # Absent
            BY <2>3, <4>1 DEF BooksAreTrue
      <4> QED
          BY <1>10, <1>11, <3>2, <4>2
    <3> QED
        BY <3>3, <3>4
  <2> QED
      BY <1>6, <2>1, <2>2, <2>3 DEF BooksAreTrue
<1>13. \A d \in exists' : directoriesOf'[Owner[d]] # Absent => byDirectory'[d] # Absent
  <2>1. \A x \in Repos : x # r => directoriesOf'[x] = directoriesOf[x]
        BY <1>6 DEF Shaped, BooksOK
  <2>2. ASSUME NEW d \in exists, directoriesOf'[Owner[d]] # Absent PROVE byDirectory'[d] # Absent
    <3>1. d \in Dirs /\ Owner[d] \in Repos
          BY <1>9, WatcherAssumption
    <3>2. CASE Owner[d] = r
          BY <1>9, <1>10, <1>11, <3>1, <3>2
    <3>3. CASE Owner[d] # r
          BY <1>1, <1>10, <1>11, <2>1, <2>2, <3>1, <3>3
    <3> QED
        BY <3>2, <3>3
  <2> QED
      BY <1>6, <2>2
<1> QED
    BY <1>1, <1>6, <1>7, <1>8, <1>12, <1>13, CallCalm

-----------------------------------------------------------------------------
LEMMA CalmStep ==
    ASSUME OneCaller, Room, Shaped, Settles, Accounted, Calm, [WatcherNext]_watcherVars
    PROVE  Calm'
<1> SUFFICES ASSUME pace' = "calm", closing' # "closed" PROVE CalmParts'
    BY SMTT(30) DEF Calm
<1>1. UNCHANGED pace /\ (closing = "closed" => closing' = "closed")
      BY DEF WatcherNext, watcherVars, fs, Disk, WriteFile, MakeDirectory, RemoveDirectory, Report,
             Fire, Announce, Consume, Handle, StopTimers, CloseInner, EndRun, Worker, FollowCheck,
             FollowAdd, FollowRecord, FollowUndo, Working, TakeDirectories, Unwatch, Unwatched,
             AddOne, Record, StartWatch, StartForget
<1>2. CalmNow
      BY <1>1 DEF CalmNow, Calm
<1>3. CASE UNCHANGED <<exists, kernel, queue, byDirectory, directoriesOf, follow, follower, call>>
      BY <1>2, <1>3, CalmUnmoved
<1>4. ASSUME NEW d \in Dirs, WriteFile(d) \/ MakeDirectory(d) \/ RemoveDirectory(d) PROVE CalmParts'
      BY <1>2, <1>4, WriteCalm, MakeCalm, RemoveCalm
<1>5. ASSUME NEW r \in Repos, Fire(r) \/ Announce(r) PROVE CalmParts'
      BY <1>3, <1>5 DEF Fire, Announce, fs, books
<1>6. CASE Consume \/ StopTimers
      BY <1>3, <1>6 DEF Consume, StopTimers, fs, books
<1>7. CASE CloseInner \/ EndRun
      BY <1>7 DEF CloseInner, EndRun
<1>8. CASE Handle
      BY <1>2, <1>8, HandleCalm
<1>9. CASE Worker
      BY <1>2, <1>9, WorkerCalm
<1>10. ASSUME NEW c \in Callers, Working(c) PROVE CalmParts'
      BY <1>2, <1>10, TakeCalm, UnwatchCalm, UnwatchedCalm, AddOneCalm, RecordCalm DEF Working
<1>11. ASSUME NEW c \in Callers, NEW r \in Repos, StartWatch(c, r) \/ StartForget(c, r)
       PROVE CalmParts'
      BY <1>2, <1>11, StartCalm
<1>12. CASE UNCHANGED watcherVars
      BY <1>3, <1>12 DEF watcherVars, fs, books
<1> QED
    BY <1>4, <1>5, <1>6, <1>7, <1>8, <1>9, <1>10, <1>11, <1>12 DEF WatcherNext, Disk

LEMMA CalmInit == WatcherInit => Calm
<1> SUFFICES ASSUME WatcherInit PROVE CalmParts
    BY DEF Calm
<1>1. /\ queue = <<>> /\ follow = <<>> /\ follower = FollowerIdle
      /\ (\A d \in Dirs : byDirectory[d] = Absent) /\ (\A r \in Repos : directoriesOf[r] = Absent)
      /\ (\A c \in Callers : call[c] = Idle) /\ exists \subseteq Dirs
      BY WatcherAssumption DEF WatcherInit, Roots
<1>2. OneAtATime
      BY <1>1 DEF OneAtATime, Telling
<1>3. WayOK
      BY <1>1, WatcherAssumption DEF WayOK, OnItsWay, ReportedAs, FollowerIdle
<1>4. \A c \in Callers : WalkOK(call[c])
      BY <1>1 DEF WalkOK, Idle
<1>5. BooksAreTrue
      BY <1>1 DEF BooksAreTrue
<1>6. OpenIsFollowed
      BY <1>1, WatcherAssumption DEF OpenIsFollowed
<1> QED
    BY <1>2, <1>3, <1>4, <1>5, <1>6 DEF CalmParts

(***************************************************************************)
(* With one caller at a time and room for every directory, the books, what *)
(* inotify watches and what is open agree: the two maps at any pace, the   *)
(* watches nobody would drop when directories wait for the watcher, and    *)
(* that all of an open repository is watched when the callers do as well   *)
(* (watch.go:47, :82, :347-366).                                           *)
(***************************************************************************)
THEOREM WatchesAreTheBooks ==
    ASSUME OneCaller, Room PROVE WatcherSpec => []WatchesFollowTheBooks
<1>1. Settles /\ Shaped /\ [WatcherNext]_watcherVars => Settles'
      BY SettlesStep
<1>2. Calm /\ Accounted /\ Settles /\ Shaped /\ [WatcherNext]_watcherVars => Calm'
      BY CalmStep
<1>3. ASSUME Shaped, Settles, Accounted, Calm, pace = "calm", AtRest
      PROVE  /\ \A d \in exists : byDirectory[d] # Absent => d \in kernel
             /\ \A r \in Repos : directoriesOf[r] # Absent => Walk(r) \subseteq kernel
  <2>1. CalmNow
        BY <1>3 DEF CalmNow, Calm, AtRest
  <2>2. \A d \in exists : directoriesOf[Owner[d]] # Absent => byDirectory[d] # Absent
        BY <1>3, <2>1, RestIsQuiet, QuietIsBooked
  <2> QED
      BY <2>1, <2>2 DEF CalmNow, CalmParts, BooksAreTrue, Walk
<1>4. Shaped /\ Settles /\ Calm /\ Accounted => BooksAgree /\ BookedIsWatched /\ EveryDirectoryWatched
      BY <1>3 DEF Settles, BookedIsWatched, EveryDirectoryWatched
<1>5. WatcherTypeOK /\ BooksAgree /\ NothingLeaks /\ BookedIsWatched /\ EveryDirectoryWatched
      => WatchesFollowTheBooks
      BY DEF WatchesFollowTheBooks
<1> QED
    BY <1>1, <1>2, <1>4, <1>5, SettlesInit, CalmInit, StaysShaped, StaysAccounted, WatcherTypes, NoLeak, PTL
    DEF WatcherSpec

-----------------------------------------------------------------------------
(***************************************************************************)
(* A panel never goes back, whatever the bound on the moves: a proof for   *)
(* ScreenCache, where no answer is overtaken and nothing moves between a   *)
(* command and the drawing of the answer it is written from.               *)
(***************************************************************************)

\* What a read or an answer holds is a version, and none of the two marks.
CacheMarks == None \notin Nat /\ Asked \notin Nat

\* Neither of the two orders under which settle.ts promises nothing.
InOrder == "crossing" \notin MayHappen /\ "overtaken" \notin MayHappen

-----------------------------------------------------------------------------
(* The inductive invariant.  That a panel never goes back takes, of a read *)
(* under way, that it is not older than what is drawn, and of an answer    *)
(* that will be drawn, that nothing is newer.                              *)

ShownIsPast == truth \in Nat /\ shown \in 0..truth \cup {None}
ReadsArePast == fetch \in 0..truth \cup {None, Asked}
ReadsAreNotOlder == fetch \in Nat /\ shown \in Nat => shown <= fetch
AnswersAreNewest ==
    \A c \in commands : c.answer \in 0..truth /\ (c.writes => c.answer = truth)

CacheInv == ShownIsPast /\ ReadsArePast /\ ReadsAreNotOlder /\ AnswersAreNewest

\* Nothing is asked and nothing is run at the start.
LEMMA CacheStarts == ASSUME CacheMarks, Init PROVE CacheInv
BY DEF CacheMarks, Init, CacheInv, ShownIsPast, ReadsArePast, ReadsAreNotOlder, AnswersAreNewest

\* Asking again leaves the read as it was, or holding nothing.
LEMMA Dropping == Drop => fetch' = fetch \/ fetch' = Asked
BY DEF Drop

\* A version moves up only while no answer is to be drawn.
LEMMA Moving ==
    ASSUME CacheInv, InOrder, Act, NEW what, Moved(what)
    PROVE  truth' \in Nat /\ truth' >= truth /\ \A c \in commands : ~c.writes
BY DEF CacheInv, InOrder, Act, Moved, Disturbed, ShownIsPast

\* What every step that leaves the version, the panel and the commands alone
\* has to show.
LEMMA ReadOnly ==
    ASSUME CacheInv, CacheMarks, UNCHANGED <<truth, shown, commands>>, fetch' \in {fetch, None, Asked, truth}
    PROVE  CacheInv'
<1>1. ShownIsPast' /\ AnswersAreNewest'
  BY DEF CacheInv, ShownIsPast, AnswersAreNewest
<1>2. ReadsArePast'
  BY DEF CacheInv, ShownIsPast, ReadsArePast
<1>3. ReadsAreNotOlder'
  BY DEF CacheInv, CacheMarks, ShownIsPast, ReadsArePast, ReadsAreNotOlder
<1> QED BY <1>1, <1>2, <1>3 DEF CacheInv

\* One step.
LEMMA CacheSteps == ASSUME CacheInv, CacheMarks, InOrder, [Next]_vars PROVE CacheInv'
<1>1. ASSUME NEW hook \in Hooks, Run(hook) PROVE CacheInv'
  <2> DEFINE new == Restricted(hook)
  <2>1. truth' \in Nat /\ truth' >= truth /\ \A c \in commands : ~c.writes
    BY <1>1, Moving DEF Run
  <2>2. UNCHANGED <<shown, fetch>> /\ commands' = commands \cup {new}
    BY <1>1 DEF Run
  <2>3. new.answer = truth'
    BY DEF Restricted
  <2>4. ShownIsPast' /\ ReadsArePast' /\ ReadsAreNotOlder'
    BY <2>1, <2>2 DEF CacheInv, ShownIsPast, ReadsArePast, ReadsAreNotOlder
  <2>5. AnswersAreNewest'
    BY <2>1, <2>2, <2>3 DEF CacheInv, ShownIsPast, AnswersAreNewest
  <2> QED BY <2>4, <2>5 DEF CacheInv
<1>2. ASSUME NEW hook \in Hooks, Refused(hook) PROVE CacheInv'
  BY <1>2, ReadOnly, Dropping DEF Refused
<1>3. ASSUME NEW c \in commands, Told(c) PROVE CacheInv'
  <2>1. CASE c.writes
    <3>1. /\ shown' = c.answer /\ commands' = commands \ {c} /\ truth' = truth
          /\ fetch' = IF c.cancels THEN None ELSE fetch
      BY <1>3, <2>1 DEF Told
    <3>2. c.answer = truth /\ truth \in Nat
      BY <2>1 DEF CacheInv, AnswersAreNewest, ShownIsPast
    <3>3. c.cancels \/ fetch \notin 0..(truth - 1)
      BY <1>3, <2>1, <3>2 DEF Told, InOrder
    <3>4. ShownIsPast' /\ AnswersAreNewest'
      BY <3>1, <3>2 DEF CacheInv, ShownIsPast, AnswersAreNewest
    <3>5. ReadsArePast'
      BY <3>1 DEF CacheInv, ReadsArePast
    <3>6. ReadsAreNotOlder'
      BY <3>1, <3>2, <3>3 DEF CacheInv, CacheMarks, ReadsArePast, ReadsAreNotOlder
    <3> QED BY <3>4, <3>5, <3>6 DEF CacheInv
  <2>2. CASE ~c.writes
    <3>1. /\ UNCHANGED <<truth, shown>> /\ commands' = commands \ {c}
          /\ fetch' \in {fetch, Asked}
      BY <1>3, <2>2, Dropping DEF Told
    <3>2. ShownIsPast' /\ ReadsArePast' /\ AnswersAreNewest'
      BY <3>1 DEF CacheInv, ShownIsPast, ReadsArePast, AnswersAreNewest
    <3>3. ReadsAreNotOlder'
      BY <3>1 DEF CacheInv, CacheMarks, ReadsAreNotOlder
    <3> QED BY <3>2, <3>3 DEF CacheInv
  <2> QED BY <2>1, <2>2
<1>4. ASSUME NEW c \in commands, Failed(c) PROVE CacheInv'
  <2>1. /\ UNCHANGED <<truth, shown>> /\ commands' = commands \ {c}
        /\ fetch' \in {fetch, Asked}
    BY <1>4, Dropping DEF Failed
  <2>2. ShownIsPast' /\ ReadsArePast' /\ AnswersAreNewest'
    BY <2>1 DEF CacheInv, ShownIsPast, ReadsArePast, AnswersAreNewest
  <2>3. ReadsAreNotOlder'
    BY <2>1 DEF CacheInv, CacheMarks, ReadsAreNotOlder
  <2> QED BY <2>2, <2>3 DEF CacheInv
<1>5. ASSUME NEW what, MovedElsewhere(what) PROVE CacheInv'
  <2>1. truth' \in Nat /\ truth' >= truth /\ \A c \in commands : ~c.writes
    BY <1>5, Moving DEF MovedElsewhere
  <2>2. UNCHANGED <<shown, fetch, commands>>
    BY <1>5 DEF MovedElsewhere
  <2>3. ShownIsPast' /\ ReadsArePast' /\ ReadsAreNotOlder'
    BY <2>1, <2>2 DEF CacheInv, ShownIsPast, ReadsArePast, ReadsAreNotOlder
  <2>4. AnswersAreNewest'
    BY <2>1, <2>2 DEF CacheInv, ShownIsPast, AnswersAreNewest
  <2> QED BY <2>3, <2>4 DEF CacheInv
<1>6. CASE HearEvent
  BY <1>6, ReadOnly, Dropping DEF HearEvent
<1>7. CASE Poll \/ Focus
  BY <1>7, ReadOnly DEF Poll, Focus, Ask
<1>8. CASE Open
  <2>1. UNCHANGED <<truth, commands>> /\ shown' = None /\ fetch' = Asked
    BY <1>8 DEF Open
  <2> QED BY <2>1 DEF CacheInv, CacheMarks, ShownIsPast, ReadsArePast, ReadsAreNotOlder, AnswersAreNewest
<1>9. CASE DaemonReads
  BY <1>9, ReadOnly DEF DaemonReads
<1>10. CASE Land
  <2>1. UNCHANGED <<truth, commands>> /\ shown' = fetch /\ fetch' = None /\ fetch \in 0..truth
    BY <1>10 DEF Land, CacheInv, ReadsArePast
  <2> QED BY <2>1 DEF CacheInv, CacheMarks, ShownIsPast, ReadsArePast, ReadsAreNotOlder, AnswersAreNewest
<1>11. CASE ReadFails
  BY <1>11, ReadOnly DEF ReadFails
<1>12. CASE UNCHANGED vars
  BY <1>12, ReadOnly DEF vars
<1> QED BY <1>1, <1>2, <1>3, <1>4, <1>5, <1>6, <1>7, <1>8, <1>9, <1>10, <1>11, <1>12 DEF Next

\* A step that draws draws nothing older.
LEMMA Forward ==
    ASSUME CacheInv, CacheMarks, [Next]_vars, shown # None, shown' # None
    PROVE  shown' >= shown
<1>0. shown \in Nat /\ shown <= truth
  BY DEF CacheInv, ShownIsPast
<1>1. ASSUME NEW c \in commands, Told(c) PROVE shown' >= shown
  BY <1>0, <1>1 DEF CacheInv, AnswersAreNewest, Told
<1>2. CASE Land
  BY <1>0, <1>2 DEF CacheInv, ReadsArePast, ReadsAreNotOlder, Land
<1>3. CASE Open
  BY <1>3 DEF Open
<1>4. CASE UNCHANGED shown
  BY <1>0, <1>4
<1> QED
  BY <1>1, <1>2, <1>3, <1>4
  DEF Next, vars, Run, Refused, Failed, MovedElsewhere, HearEvent, Poll, Focus, Ask, DaemonReads, ReadFails

-----------------------------------------------------------------------------

\* At every moment no read under way is older than the panel, and an answer
\* that will be drawn is what the daemon holds (settle.ts).
THEOREM ReadsAndAnswersAreFresh == ASSUME CacheMarks, InOrder PROVE Spec => []CacheInv
<1>1. Init => CacheInv
  BY CacheStarts
<1>2. CacheInv /\ [Next]_vars => CacheInv'
  BY CacheSteps
<1> QED BY <1>1, <1>2, PTL DEF Spec

\* No panel goes back to what it showed before, however many commands are run
\* and changes are made (settle.ts, "a read that was already on its way").
THEOREM PanelsNeverGoBack == ASSUME CacheMarks, InOrder PROVE Spec => NeverGoesBack
<1>1. CacheInv /\ [Next]_vars => [shown # None /\ shown' # None => shown' >= shown]_vars
  BY Forward
<1> QED BY <1>1, ReadsAndAnswersAreFresh, PTL DEF Spec, NeverGoesBack
=============================================================================
