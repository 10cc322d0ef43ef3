------------------------------- MODULE GitExec -------------------------------
(***************************************************************************)
(* internal/git/command.go and serialize.go: what Runner.Exec does around  *)
(* one git process, and the slot that serialises the commands which take   *)
(* .git/index.lock, one repository directory at a time.                    *)
(*                                                                         *)
(* git, its children and the user's terminal are the environment: they     *)
(* take and leave the lock file.  Clocks are left out: a deadline passes,  *)
(* a wait runs out, a WaitDelay elapses at any moment it is running.  The  *)
(* text of an error is left out, its kind is kept; so are the exit codes   *)
(* and the output cap that only read commands set.                         *)
(***************************************************************************)
EXTENDS Integers, Sequences

CONSTANTS
    Calls,      \* calls of Exec
    Dirs,       \* repository directories
    DirOf,      \* Calls -> Dirs
    Commands,   \* the argument lists tried, sequences of strings
    Children,   \* TRUE: git may leave a child that holds its pipes or its lock
    NoCall

\* What begins with a dash before the subcommand; one stands for all the others.
Flags == {"-c", "-C", "--git-dir", "--work-tree", "--namespace", "--exec-path",
          "--super-prefix", "--no-pager"}
TakesAValue == Flags \ {"--no-pager"}

ASSUME ExecAssumption ==
    /\ DirOf \in [Calls -> Dirs]
    /\ Commands \subseteq Seq(STRING)
    /\ Children \in BOOLEAN
    /\ NoCall \notin Calls

VARIABLES
    slot,       \* dirLocks.slots: who fills each channel
    indexLock,  \* .git/index.lock of each directory: who made it
    at,         \* where each call is in Exec
    args,       \* Command.Args
    ended,      \* what ended runContext, if anything has
    proc,       \* the git process
    outcome,    \* what its exit status says
    late,       \* it was signalled when it had exited already
    child,      \* a child of it lives on and holds its pipes
    answer,     \* what Exec returned
    metLock     \* whose lock file git found in its way

disk == <<indexLock, metLock>>
process == <<proc, outcome, late, child>>
execVars == <<slot, disk, at, args, ended, process, answer>>

Free == [by |-> "nobody", call |-> NoCall]
ByGit(c) == [by |-> "git", call |-> c]
ByChild(c) == [by |-> "child", call |-> c]
Stale(c) == [by |-> "killed", call |-> c]
ByTerminal == [by |-> "terminal", call |-> NoCall]
LeftBehind(lock) == lock.by \in {"killed", "child"}

ExecInit ==
    /\ slot = [d \in Dirs |-> NoCall]
    /\ indexLock = [d \in Dirs |-> Free]
    /\ at = [c \in Calls |-> "new"]
    /\ args = [c \in Calls |-> <<>>]
    /\ ended = [c \in Calls |-> "no"]
    /\ proc = [c \in Calls |-> "none"]
    /\ outcome = [c \in Calls |-> "none"]
    /\ late = [c \in Calls |-> FALSE]
    /\ child = [c \in Calls |-> FALSE]
    /\ answer = [c \in Calls |-> "none"]
    /\ metLock = [c \in Calls |-> Free]

-----------------------------------------------------------------------------
(* Which commands take the lock. *)

\* The first argument that is neither a global flag nor the value of one.
SubcommandOf(list) ==
    LET from[i \in 1..(Len(list) + 2)] ==
            IF i > Len(list) THEN ""
            ELSE IF list[i] \notin Flags THEN list[i]
            ELSE IF list[i] \in TakesAValue THEN from[i + 2] ELSE from[i + 1]
    IN from[1]

AlwaysWrite == {"add", "commit", "switch", "checkout", "restore", "reset", "merge",
                "rebase", "cherry-pick", "revert", "rm", "mv", "clean", "am", "pull"}

WritesTheIndexMutant(list) ==  \* pull left out of the list
    \/ SubcommandOf(list) \in AlwaysWrite \ {"pull"}
    \/ SubcommandOf(list) = "stash"

WritesTheIndex(list) ==
    LET subcommand == SubcommandOf(list)
    IN \/ subcommand \in AlwaysWrite
       \/ subcommand = "apply" /\ \A i \in 1..Len(list) : list[i] # "--check"
       \/ subcommand = "stash" /\ (Len(list) < 2 \/ list[2] \notin {"list", "show"})
       \/ subcommand = "submodule" /\ (Len(list) < 2 \/ list[2] # "status")

\* What git does with the words it is given, whatever Exec makes of them.
TakesTheLock(list) ==
    LET word == {list[i] : i \in 1..Len(list)}
    IN \/ word \cap AlwaysWrite # {}
       \/ "apply" \in word /\ "--check" \notin word
       \/ "stash" \in word /\ word \cap {"list", "show"} = {}
       \/ "submodule" \in word /\ "status" \notin word

-----------------------------------------------------------------------------
(* Exec up to the process. *)

Start(c) ==
    /\ at[c] = "new"
    /\ \E list \in Commands :
          /\ args' = [args EXCEPT ![c] = list]
          /\ at' = [at EXCEPT ![c] = IF WritesTheIndex(list) THEN "acquiring" ELSE "ready"]
    /\ UNCHANGED <<slot, disk, ended, process, answer>>

AcquireMutant(c) ==  \* the channel holds two
    /\ at[c] \in {"acquiring", "waiting"}
    /\ slot' = [slot EXCEPT ![DirOf[c]] = c]
    /\ at' = [at EXCEPT ![c] = "ready"]
    /\ UNCHANGED <<disk, args, ended, process, answer>>

\* acquire, on its fast path or after a wait: the channel takes one value.
Acquire(c) ==
    /\ at[c] \in {"acquiring", "waiting"}
    /\ slot[DirOf[c]] = NoCall
    /\ slot' = [slot EXCEPT ![DirOf[c]] = c]
    /\ at' = [at EXCEPT ![c] = "ready"]
    /\ UNCHANGED <<disk, args, ended, process, answer>>

Wait(c) ==
    /\ at[c] = "acquiring"
    /\ slot[DirOf[c]] # NoCall
    /\ at' = [at EXCEPT ![c] = "waiting"]
    /\ UNCHANGED <<slot, disk, args, ended, process, answer>>

\* busyWait ran out, or the caller's context ended: nothing was started.
GiveUp(c) ==
    /\ at[c] = "waiting"
    /\ at' = [at EXCEPT ![c] = "done"]
    /\ answer' = [answer EXCEPT ![c] = IF ended[c] = "no" THEN "busy" ELSE "ended"]
    /\ UNCHANGED <<slot, disk, args, ended, process>>

\* The wall clock, or the silence, that bounds the command: it runs from the
\* start of Exec, the wait for the slot included.
Deadline(c) ==
    /\ at[c] \notin {"new", "done"}
    /\ ended[c] = "no"
    /\ ended' = [ended EXCEPT ![c] = "deadline"]
    /\ UNCHANGED <<slot, disk, at, args, process, answer>>

DisconnectMutant(c) ==  \* a write is interrupted too
    /\ at[c] \notin {"new", "done"}
    /\ ended[c] = "no"
    /\ ended' = [ended EXCEPT ![c] = "cancelled"]
    /\ UNCHANGED <<slot, disk, at, args, process, answer>>

\* A browser that goes ends the reads; the writes are uninterrupted().
Disconnect(c) ==
    /\ at[c] \notin {"new", "done"}
    /\ ended[c] = "no"
    /\ ~TakesTheLock(args[c])
    /\ ended' = [ended EXCEPT ![c] = "cancelled"]
    /\ UNCHANGED <<slot, disk, at, args, process, answer>>

\* Under a context that has ended os/exec starts nothing.
Spawn(c) ==
    /\ at[c] = "ready"
    /\ at' = [at EXCEPT ![c] = "running"]
    /\ IF ended[c] = "no"
       THEN proc' = [proc EXCEPT ![c] = "alive"] /\ UNCHANGED outcome
       ELSE /\ proc' = [proc EXCEPT ![c] = "exited"]
            /\ outcome' = [outcome EXCEPT ![c] = "killed"]
    /\ UNCHANGED <<slot, disk, args, ended, late, child, answer>>

-----------------------------------------------------------------------------
(* git, its children, and the terminal. *)

Holds(c) == indexLock[DirOf[c]] = ByGit(c)

\* git makes the lock file, or finds one and gives up naming it.
LockIndex(c) ==
    /\ proc[c] = "alive"
    /\ TakesTheLock(args[c])
    /\ ~Holds(c)
    /\ IF indexLock[DirOf[c]] = Free
       THEN /\ indexLock' = [indexLock EXCEPT ![DirOf[c]] = ByGit(c)]
            /\ UNCHANGED <<metLock, proc, outcome>>
       ELSE /\ metLock' = [metLock EXCEPT ![c] = indexLock[DirOf[c]]]
            /\ proc' = [proc EXCEPT ![c] = "exited"]
            /\ outcome' = [outcome EXCEPT ![c] = "failed"]
            /\ UNCHANGED indexLock
    /\ UNCHANGED <<slot, at, args, ended, late, child, answer>>

\* A hook may have started something that keeps git's pipes open.
Exit(c) ==
    /\ proc[c] = "alive"
    /\ TakesTheLock(args[c]) => Holds(c)
    /\ proc' = [proc EXCEPT ![c] = "exited"]
    /\ \E status \in {"ok", "failed"} : outcome' = [outcome EXCEPT ![c] = status]
    /\ indexLock' = IF Holds(c) THEN [indexLock EXCEPT ![DirOf[c]] = Free] ELSE indexLock
    /\ \E left \in {FALSE, Children} : child' = [child EXCEPT ![c] = left]
    /\ UNCHANGED <<slot, metLock, at, args, ended, late, answer>>

\* The signal reaches git itself: the lock file it made stays, unless the work
\* was in a child's hands (the merge of a pull), which goes on with it.
Kill(c) ==
    /\ at[c] = "running"
    /\ ended[c] # "no"
    /\ \/ /\ proc[c] = "alive"
          /\ proc' = [proc EXCEPT ![c] = "exited"]
          /\ outcome' = [outcome EXCEPT ![c] = "killed"]
          /\ \E left \in {FALSE, Children} :
                /\ child' = [child EXCEPT ![c] = left]
                /\ indexLock' = IF Holds(c)
                                THEN [indexLock EXCEPT ![DirOf[c]] =
                                        IF left THEN ByChild(c) ELSE Stale(c)]
                                ELSE indexLock
          /\ UNCHANGED late
       \/ /\ proc[c] = "exited"
          /\ outcome[c] \in {"ok", "failed"}
          /\ ~late[c]
          /\ late' = [late EXCEPT ![c] = TRUE]
          /\ UNCHANGED <<proc, outcome, child, indexLock>>
    /\ UNCHANGED <<slot, metLock, at, args, ended, answer>>

ChildEnds(c) ==
    /\ child[c]
    /\ child' = [child EXCEPT ![c] = FALSE]
    /\ indexLock' = IF indexLock[DirOf[c]] = ByChild(c)
                    THEN [indexLock EXCEPT ![DirOf[c]] = Free] ELSE indexLock
    /\ UNCHANGED <<slot, metLock, at, args, ended, proc, outcome, late, answer>>

Terminal(d) ==
    /\ \/ indexLock[d] = Free /\ indexLock' = [indexLock EXCEPT ![d] = ByTerminal]
       \/ indexLock[d] = ByTerminal /\ indexLock' = [indexLock EXCEPT ![d] = Free]
    /\ UNCHANGED <<slot, metLock, at, args, ended, process, answer>>

-----------------------------------------------------------------------------
(* Exec after the process. *)

\* os/exec answers a clean exit with the context's error when its signal was
\* sent, then with ErrWaitDelay when the pipes had to be closed; Exec accepts
\* the second, and names the deadline whenever it has passed.
Verdict(c) ==
    IF outcome[c] = "ok" /\ ~late[c] THEN "ok"
    ELSE IF ended[c] = "deadline" THEN "timed out" ELSE "failed"

Release(c) ==
    slot' = IF slot[DirOf[c]] = c THEN [slot EXCEPT ![DirOf[c]] = NoCall] ELSE slot

ReturnMutant(c) ==  \* no WaitDelay
    /\ at[c] = "running"
    /\ proc[c] = "exited" /\ ~child[c]
    /\ at' = [at EXCEPT ![c] = "done"]
    /\ answer' = [answer EXCEPT ![c] = Verdict(c)]
    /\ Release(c)
    /\ UNCHANGED <<disk, args, ended, process>>

\* Wait returns once the last holder of the pipes has ended or WaitDelay has
\* passed, so a child never keeps it from returning.
Return(c) ==
    /\ at[c] = "running"
    /\ proc[c] = "exited"
    /\ at' = [at EXCEPT ![c] = "done"]
    /\ answer' = [answer EXCEPT ![c] = Verdict(c)]
    /\ Release(c)
    /\ UNCHANGED <<disk, args, ended, process>>

-----------------------------------------------------------------------------
Exec(c) ==
    Start(c) \/ Acquire(c) \/ Wait(c) \/ GiveUp(c) \/ Spawn(c) \/ Return(c)

Environment(c) ==
    Deadline(c) \/ Disconnect(c) \/ Kill(c) \/ LockIndex(c) \/ Exit(c) \/ ChildEnds(c)

ExecNext ==
    \/ \E c \in Calls : Exec(c) \/ Environment(c)
    \/ \E d \in Dirs : Terminal(d)

ExecSpec == ExecInit /\ [][ExecNext]_execVars

(***************************************************************************)
(* A goroutine that can go on does, a wait and a deadline run out, and a   *)
(* signal is delivered.  Neither git, nor what it started, nor the user    *)
(* owes anything.                                                          *)
(***************************************************************************)
FairExecSpec ==
    /\ ExecSpec
    /\ \A c \in Calls :
          /\ WF_execVars(Acquire(c) \/ Wait(c) \/ GiveUp(c))
          /\ WF_execVars(Deadline(c)) /\ WF_execVars(Spawn(c))
          /\ WF_execVars(Kill(c)) /\ WF_execVars(Return(c))

-----------------------------------------------------------------------------
Lock == [by : {"nobody", "git", "child", "killed", "terminal"}, call : Calls \cup {NoCall}]

(***************************************************************************)
(* The types of the state; a slot is filled by a call on its directory.    *)
(***************************************************************************)
ExecTypeOK ==
    /\ slot \in [Dirs -> Calls \cup {NoCall}]
    /\ \A d \in Dirs : slot[d] # NoCall => DirOf[slot[d]] = d
    /\ indexLock \in [Dirs -> Lock]
    /\ metLock \in [Calls -> Lock]
    /\ at \in [Calls -> {"new", "acquiring", "waiting", "ready", "running", "done"}]
    /\ args \in [Calls -> Commands \cup {<<>>}]
    /\ ended \in [Calls -> {"no", "deadline", "cancelled"}]
    /\ proc \in [Calls -> {"none", "alive", "exited"}]
    /\ outcome \in [Calls -> {"none", "ok", "failed", "killed"}]
    /\ late \in [Calls -> BOOLEAN]
    /\ child \in [Calls -> BOOLEAN]
    /\ answer \in [Calls -> {"none", "ok", "busy", "ended", "timed out", "failed"}]

Active(c) == at[c] \in {"ready", "running"}

(***************************************************************************)
(* A slot is filled exactly while a write of its directory is between its  *)
(* acquire and its return, so two never are at once and none is left       *)
(* filled when every call is over.                                         *)
(***************************************************************************)
SlotGuardsTheWrite ==
    \A c \in Calls :
        WritesTheIndex(args[c]) => (Active(c) <=> slot[DirOf[c]] = c)

(***************************************************************************)
(* git never finds in its way the lock file of another git that Exec is    *)
(* still running: the sentence that tells the user to delete a file inside *)
(* .git is about somebody else's lock (serialize.go:20-24).                *)
(***************************************************************************)
NeverFightsItself == \A c \in Calls : metLock[c].by # "git"

(***************************************************************************)
(* A lock file that Exec's own signal left behind is no riddle: the caller *)
(* of the git that made it is told that it timed out, and is told before   *)
(* any other git meets the file (lifetime.go:8-41, command.go:595-615).    *)
(* What the signal ended was never a write that only lost its reader, and  *)
(* was not answered as a success.                                          *)
(***************************************************************************)
LeftLocksAreTold ==
    /\ \A d \in Dirs : LeftBehind(indexLock[d]) /\ at[indexLock[d].call] = "done" =>
                           answer[indexLock[d].call] = "timed out"
    /\ \A c \in Calls : LeftBehind(metLock[c]) => answer[metLock[c].call] = "timed out"

(***************************************************************************)
(* Every call of Exec returns: a wait for the slot ends, a deadline ends   *)
(* git, and WaitDelay ends the wait for what git started.                  *)
(***************************************************************************)
EveryCallReturns == \A c \in Calls : at[c] # "new" ~> at[c] = "done"

-----------------------------------------------------------------------------
(***************************************************************************)
(* "So writes are serialised per repository directory here"                *)
(* (serialize.go:26): no git starts writing a directory while something    *)
(* yagit started is still writing it.                                      *)
(***************************************************************************)
WritesAreSerialised == \A c \in Calls : metLock[c].by # "child"
=============================================================================
