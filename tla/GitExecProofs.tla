---------------------------- MODULE GitExecProofs ----------------------------
(***************************************************************************)
(* What GitExec promises for any number of calls and directories, whatever *)
(* git, its children and the terminal do to the lock files.                *)
(*                                                                         *)
(* The argument: a call that takes the lock holds the slot of its          *)
(* directory from acquire to return (SlotGuardsTheWrite), its git lives    *)
(* only in between (GitRuns), and a lock file in git's name is that of a   *)
(* git which lives (LockHeld).  So when a git meets a lock file, the git   *)
(* that made it would hold the same slot.                                  *)
(***************************************************************************)
EXTENDS GitExec, TLAPS

\* Whoever fills a slot is a write on its way.
SlotHolder == \A d \in Dirs : slot[d] # NoCall =>
                  /\ Active(slot[d])
                  /\ WritesTheIndex(args[slot[d]])
                  /\ DirOf[slot[d]] = d

\* Only a write waits for a slot, and its arguments are those it was given.
Waiters == \A c \in Calls :
    /\ at[c] \in {"acquiring", "waiting"} => WritesTheIndex(args[c])
    /\ at[c] # "new" => args[c] \in Commands

\* Nothing has run before Spawn, and git runs only while Exec waits for it.
GitRuns == \A c \in Calls :
    /\ proc[c] = "alive" => at[c] = "running"
    /\ at[c] \in {"new", "acquiring", "waiting", "ready"} => outcome[c] = "none"

\* A lock file in git's name is that of a git which lives and takes the lock.
HeldAt(d) == indexLock[d].by = "git" =>
    \E c \in Calls : /\ indexLock[d] = ByGit(c)
                     /\ DirOf[c] = d
                     /\ proc[c] = "alive"
                     /\ TakesTheLock(args[c])
LockHeld == \A d \in Dirs : HeldAt(d)

IInv == ExecTypeOK /\ SlotHolder /\ SlotGuardsTheWrite /\ Waiters /\ GitRuns /\ LockHeld

-----------------------------------------------------------------------------
\* Where each call works, and that an empty slot names nobody.
LEMMA Places == DirOf \in [Calls -> Dirs] /\ NoCall \notin Calls /\ Children \in BOOLEAN
  BY ExecAssumption DEF ExecAssumption

\* What is not in git's name owes nothing.
LEMMA HeldByGit ==
    ASSUME NEW d \in Dirs, indexLock'[d].by # "git"
    PROVE  HeldAt(d)'
  BY DEF HeldAt

(* One lemma per conjunct: every step preserves it. *)

\* Every step leaves the slots to writes on their way.
LEMMA HolderStep ==
    ASSUME IInv, [ExecNext]_execVars
    PROVE  SlotHolder'
<1>types. /\ DirOf \in [Calls -> Dirs] /\ NoCall \notin Calls
          /\ slot \in [Dirs -> Calls \cup {NoCall}]
          /\ at \in [Calls -> {"new", "acquiring", "waiting", "ready", "running", "done"}]
          /\ args \in [Calls -> Commands \cup {<<>>}]
  BY Places DEF IInv, ExecTypeOK
<1>inv. SlotHolder /\ Waiters
  BY DEF IInv
<1> USE <1>types, <1>inv DEF SlotHolder, Waiters, Active, disk, process
<1>1. ASSUME NEW c \in Calls, Start(c) PROVE SlotHolder'
  BY <1>1 DEF Start
<1>2. ASSUME NEW c \in Calls, Acquire(c) PROVE SlotHolder'
  BY <1>2 DEF Acquire
<1>3. ASSUME NEW c \in Calls, Wait(c) PROVE SlotHolder'
  BY <1>3 DEF Wait
<1>4. ASSUME NEW c \in Calls, GiveUp(c) PROVE SlotHolder'
  BY <1>4 DEF GiveUp
<1>5. ASSUME NEW c \in Calls, Spawn(c) PROVE SlotHolder'
  BY <1>5 DEF Spawn
<1>6. ASSUME NEW c \in Calls, Return(c) PROVE SlotHolder'
  BY <1>6 DEF Return, Release
<1>7. ASSUME NEW c \in Calls, Deadline(c) PROVE SlotHolder'
  BY <1>7 DEF Deadline
<1>8. ASSUME NEW c \in Calls, Disconnect(c) PROVE SlotHolder'
  BY <1>8 DEF Disconnect
<1>9. ASSUME NEW c \in Calls, Kill(c) PROVE SlotHolder'
  BY <1>9 DEF Kill
<1>10. ASSUME NEW c \in Calls, LockIndex(c) PROVE SlotHolder'
  BY <1>10 DEF LockIndex
<1>11. ASSUME NEW c \in Calls, Exit(c) PROVE SlotHolder'
  BY <1>11 DEF Exit
<1>12. ASSUME NEW c \in Calls, ChildEnds(c) PROVE SlotHolder'
  BY <1>12 DEF ChildEnds
<1>13. ASSUME NEW d \in Dirs, Terminal(d) PROVE SlotHolder'
  BY <1>13 DEF Terminal
<1>14. CASE UNCHANGED execVars
  BY <1>14 DEF execVars
<1> HIDE <1>types, <1>inv DEF SlotHolder, Waiters, Active, disk, process
<1> QED
  BY <1>1, <1>2, <1>3, <1>4, <1>5, <1>6, <1>7, <1>8, <1>9, <1>10, <1>11, <1>12, <1>13, <1>14 DEF ExecNext, Exec, Environment

\* Every step keeps a slot filled for as long as its write runs.
LEMMA SlotStep ==
    ASSUME IInv, [ExecNext]_execVars
    PROVE  SlotGuardsTheWrite'
<1>types. /\ DirOf \in [Calls -> Dirs] /\ NoCall \notin Calls
          /\ slot \in [Dirs -> Calls \cup {NoCall}]
          /\ at \in [Calls -> {"new", "acquiring", "waiting", "ready", "running", "done"}]
          /\ args \in [Calls -> Commands \cup {<<>>}]
  BY Places DEF IInv, ExecTypeOK
<1>inv. SlotHolder /\ SlotGuardsTheWrite
  BY DEF IInv
<1> USE <1>types, <1>inv DEF SlotHolder, SlotGuardsTheWrite, Active, disk, process
<1>1. ASSUME NEW c \in Calls, Start(c) PROVE SlotGuardsTheWrite'
  BY <1>1 DEF Start
<1>2. ASSUME NEW c \in Calls, Acquire(c) PROVE SlotGuardsTheWrite'
  BY <1>2 DEF Acquire
<1>3. ASSUME NEW c \in Calls, Wait(c) PROVE SlotGuardsTheWrite'
  BY <1>3 DEF Wait
<1>4. ASSUME NEW c \in Calls, GiveUp(c) PROVE SlotGuardsTheWrite'
  BY <1>4 DEF GiveUp
<1>5. ASSUME NEW c \in Calls, Spawn(c) PROVE SlotGuardsTheWrite'
  BY <1>5 DEF Spawn
<1>6. ASSUME NEW c \in Calls, Return(c) PROVE SlotGuardsTheWrite'
  BY <1>6 DEF Return, Release
<1>7. ASSUME NEW c \in Calls, Deadline(c) PROVE SlotGuardsTheWrite'
  BY <1>7 DEF Deadline
<1>8. ASSUME NEW c \in Calls, Disconnect(c) PROVE SlotGuardsTheWrite'
  BY <1>8 DEF Disconnect
<1>9. ASSUME NEW c \in Calls, Kill(c) PROVE SlotGuardsTheWrite'
  BY <1>9 DEF Kill
<1>10. ASSUME NEW c \in Calls, LockIndex(c) PROVE SlotGuardsTheWrite'
  BY <1>10 DEF LockIndex
<1>11. ASSUME NEW c \in Calls, Exit(c) PROVE SlotGuardsTheWrite'
  BY <1>11 DEF Exit
<1>12. ASSUME NEW c \in Calls, ChildEnds(c) PROVE SlotGuardsTheWrite'
  BY <1>12 DEF ChildEnds
<1>13. ASSUME NEW d \in Dirs, Terminal(d) PROVE SlotGuardsTheWrite'
  BY <1>13 DEF Terminal
<1>14. CASE UNCHANGED execVars
  BY <1>14 DEF execVars
<1> HIDE <1>types, <1>inv DEF SlotHolder, SlotGuardsTheWrite, Active, disk, process
<1> QED
  BY <1>1, <1>2, <1>3, <1>4, <1>5, <1>6, <1>7, <1>8, <1>9, <1>10, <1>11, <1>12, <1>13, <1>14 DEF ExecNext, Exec, Environment

\* Every step leaves the waiting to writes.
LEMMA WaitersStep ==
    ASSUME IInv, [ExecNext]_execVars
    PROVE  Waiters'
<1>types. /\ at \in [Calls -> {"new", "acquiring", "waiting", "ready", "running", "done"}]
          /\ args \in [Calls -> Commands \cup {<<>>}]
  BY Places DEF IInv, ExecTypeOK
<1>inv. Waiters
  BY DEF IInv
<1> USE <1>types, <1>inv DEF Waiters, disk, process
<1>1. ASSUME NEW c \in Calls, Start(c) PROVE Waiters'
  BY <1>1 DEF Start
<1>2. ASSUME NEW c \in Calls, Acquire(c) PROVE Waiters'
  BY <1>2 DEF Acquire
<1>3. ASSUME NEW c \in Calls, Wait(c) PROVE Waiters'
  BY <1>3 DEF Wait
<1>4. ASSUME NEW c \in Calls, GiveUp(c) PROVE Waiters'
  BY <1>4 DEF GiveUp
<1>5. ASSUME NEW c \in Calls, Spawn(c) PROVE Waiters'
  BY <1>5 DEF Spawn
<1>6. ASSUME NEW c \in Calls, Return(c) PROVE Waiters'
  BY <1>6 DEF Return, Release
<1>7. ASSUME NEW c \in Calls, Deadline(c) PROVE Waiters'
  BY <1>7 DEF Deadline
<1>8. ASSUME NEW c \in Calls, Disconnect(c) PROVE Waiters'
  BY <1>8 DEF Disconnect
<1>9. ASSUME NEW c \in Calls, Kill(c) PROVE Waiters'
  BY <1>9 DEF Kill
<1>10. ASSUME NEW c \in Calls, LockIndex(c) PROVE Waiters'
  BY <1>10 DEF LockIndex
<1>11. ASSUME NEW c \in Calls, Exit(c) PROVE Waiters'
  BY <1>11 DEF Exit
<1>12. ASSUME NEW c \in Calls, ChildEnds(c) PROVE Waiters'
  BY <1>12 DEF ChildEnds
<1>13. ASSUME NEW d \in Dirs, Terminal(d) PROVE Waiters'
  BY <1>13 DEF Terminal
<1>14. CASE UNCHANGED execVars
  BY <1>14 DEF execVars
<1> HIDE <1>types, <1>inv DEF Waiters, disk, process
<1> QED
  BY <1>1, <1>2, <1>3, <1>4, <1>5, <1>6, <1>7, <1>8, <1>9, <1>10, <1>11, <1>12, <1>13, <1>14 DEF ExecNext, Exec, Environment

\* Every step keeps git inside its call.
LEMMA RunsStep ==
    ASSUME IInv, [ExecNext]_execVars
    PROVE  GitRuns'
<1>types. /\ at \in [Calls -> {"new", "acquiring", "waiting", "ready", "running", "done"}]
          /\ proc \in [Calls -> {"none", "alive", "exited"}]
          /\ outcome \in [Calls -> {"none", "ok", "failed", "killed"}]
  BY Places DEF IInv, ExecTypeOK
<1>inv. GitRuns
  BY DEF IInv
<1> USE <1>types, <1>inv DEF GitRuns, disk, process
<1>1. ASSUME NEW c \in Calls, Start(c) PROVE GitRuns'
  BY <1>1 DEF Start
<1>2. ASSUME NEW c \in Calls, Acquire(c) PROVE GitRuns'
  BY <1>2 DEF Acquire
<1>3. ASSUME NEW c \in Calls, Wait(c) PROVE GitRuns'
  BY <1>3 DEF Wait
<1>4. ASSUME NEW c \in Calls, GiveUp(c) PROVE GitRuns'
  BY <1>4 DEF GiveUp
<1>5. ASSUME NEW c \in Calls, Spawn(c) PROVE GitRuns'
  BY <1>5 DEF Spawn
<1>6. ASSUME NEW c \in Calls, Return(c) PROVE GitRuns'
  BY <1>6 DEF Return, Release
<1>7. ASSUME NEW c \in Calls, Deadline(c) PROVE GitRuns'
  BY <1>7 DEF Deadline
<1>8. ASSUME NEW c \in Calls, Disconnect(c) PROVE GitRuns'
  BY <1>8 DEF Disconnect
<1>9. ASSUME NEW c \in Calls, Kill(c) PROVE GitRuns'
  BY <1>9 DEF Kill
<1>10. ASSUME NEW c \in Calls, LockIndex(c) PROVE GitRuns'
  BY <1>10 DEF LockIndex
<1>11. ASSUME NEW c \in Calls, Exit(c) PROVE GitRuns'
  BY <1>11 DEF Exit
<1>12. ASSUME NEW c \in Calls, ChildEnds(c) PROVE GitRuns'
  BY <1>12 DEF ChildEnds
<1>13. ASSUME NEW d \in Dirs, Terminal(d) PROVE GitRuns'
  BY <1>13 DEF Terminal
<1>14. CASE UNCHANGED execVars
  BY <1>14 DEF execVars
<1> HIDE <1>types, <1>inv DEF GitRuns, disk, process
<1> QED
  BY <1>1, <1>2, <1>3, <1>4, <1>5, <1>6, <1>7, <1>8, <1>9, <1>10, <1>11, <1>12, <1>13, <1>14 DEF ExecNext, Exec, Environment

\* Every step leaves no lock file in the name of a git that is gone.
LEMMA LockStep ==
    ASSUME IInv, [ExecNext]_execVars
    PROVE  LockHeld'
<1>types. /\ DirOf \in [Calls -> Dirs] /\ NoCall \notin Calls
          /\ indexLock \in [Dirs -> Lock]
          /\ args \in [Calls -> Commands \cup {<<>>}]
          /\ proc \in [Calls -> {"none", "alive", "exited"}]
          /\ at \in [Calls -> {"new", "acquiring", "waiting", "ready", "running", "done"}]
  BY Places DEF IInv, ExecTypeOK
<1>inv. GitRuns /\ LockHeld
  BY DEF IInv
<1> USE <1>types, <1>inv DEF GitRuns, LockHeld, HeldAt, disk, process, ByGit, Lock
<1>1. ASSUME NEW c \in Calls, Start(c) PROVE LockHeld'
  BY <1>1 DEF Start
<1>2. ASSUME NEW c \in Calls, Acquire(c) PROVE LockHeld'
  BY <1>2 DEF Acquire
<1>3. ASSUME NEW c \in Calls, Wait(c) PROVE LockHeld'
  BY <1>3 DEF Wait
<1>4. ASSUME NEW c \in Calls, GiveUp(c) PROVE LockHeld'
  BY <1>4 DEF GiveUp
<1>5. ASSUME NEW c \in Calls, Spawn(c) PROVE LockHeld'
  BY <1>5 DEF Spawn
<1>6. ASSUME NEW c \in Calls, Return(c) PROVE LockHeld'
  BY <1>6 DEF Return, Release
<1>7. ASSUME NEW c \in Calls, Deadline(c) PROVE LockHeld'
  BY <1>7 DEF Deadline
<1>8. ASSUME NEW c \in Calls, Disconnect(c) PROVE LockHeld'
  BY <1>8 DEF Disconnect
<1>9. ASSUME NEW c \in Calls, Kill(c) PROVE LockHeld'
  <2> HIDE DEF HeldAt
  <2> SUFFICES ASSUME NEW d \in Dirs, indexLock'[d].by = "git" PROVE HeldAt(d)'
    BY HeldByGit DEF LockHeld
  <2> USE DEF HeldAt
  <2>1. indexLock'[d] = indexLock[d] /\ ~(Holds(c) /\ d = DirOf[c] /\ proc[c] = "alive")
    BY <1>9 DEF Kill, Holds, ByChild, Stale
  <2>2. PICK b \in Calls : /\ indexLock[d] = ByGit(b) /\ DirOf[b] = d
                           /\ proc[b] = "alive" /\ TakesTheLock(args[b])
    BY <2>1
  <2>3. b # c
    BY <2>1, <2>2 DEF Holds
  <2> QED
    BY <1>9, <2>1, <2>2, <2>3 DEF Kill
<1>10. ASSUME NEW c \in Calls, LockIndex(c) PROVE LockHeld'
  <2> HIDE DEF HeldAt
  <2> SUFFICES ASSUME NEW d \in Dirs, indexLock'[d].by = "git" PROVE HeldAt(d)'
    BY HeldByGit DEF LockHeld
  <2> USE DEF HeldAt
  <2>1. CASE indexLock[DirOf[c]] = Free /\ d = DirOf[c]
    BY <1>10, <2>1 DEF LockIndex
  <2>2. CASE ~(indexLock[DirOf[c]] = Free /\ d = DirOf[c])
    <3>1. indexLock'[d] = indexLock[d]
      BY <1>10, <2>2 DEF LockIndex
    <3>2. PICK b \in Calls : /\ indexLock[d] = ByGit(b) /\ DirOf[b] = d
                             /\ proc[b] = "alive" /\ TakesTheLock(args[b])
      BY <3>1
    <3>3. b # c
      BY <1>10, <3>2 DEF LockIndex, Holds
    <3> QED
      BY <1>10, <3>1, <3>2, <3>3 DEF LockIndex
  <2> QED
    BY <2>1, <2>2
<1>11. ASSUME NEW c \in Calls, Exit(c) PROVE LockHeld'
  BY <1>11 DEF Exit, Free, Holds
<1>12. ASSUME NEW c \in Calls, ChildEnds(c) PROVE LockHeld'
  BY <1>12 DEF ChildEnds, Free, ByChild
<1>13. ASSUME NEW d \in Dirs, Terminal(d) PROVE LockHeld'
  <2> HIDE DEF HeldAt
  <2> SUFFICES ASSUME NEW e \in Dirs, indexLock'[e].by = "git" PROVE HeldAt(e)'
    BY HeldByGit DEF LockHeld
  <2> USE DEF HeldAt
  <2>1. indexLock'[e] = indexLock[e]
    BY <1>13 DEF Terminal, Free, ByTerminal
  <2> QED
    BY <1>13, <2>1 DEF Terminal
<1>14. CASE UNCHANGED execVars
  BY <1>14 DEF execVars
<1> HIDE <1>types, <1>inv DEF GitRuns, LockHeld, HeldAt, disk, process, ByGit, Lock
<1> QED
  BY <1>1, <1>2, <1>3, <1>4, <1>5, <1>6, <1>7, <1>8, <1>9, <1>10, <1>11, <1>12, <1>13, <1>14 DEF ExecNext, Exec, Environment

\* Every lock file is one of the five kinds.
LEMMA Locks == /\ Free \in Lock /\ ByTerminal \in Lock
               /\ \A c \in Calls : {ByGit(c), ByChild(c), Stale(c)} \subseteq Lock
  BY DEF Lock, Free, ByTerminal, ByGit, ByChild, Stale

\* Every step keeps the types.
LEMMA TypeStep ==
    ASSUME IInv, [ExecNext]_execVars
    PROVE  ExecTypeOK'
<1> USE Places DEF IInv, ExecTypeOK, disk, process
<1>1. ASSUME NEW c \in Calls, Start(c) PROVE ExecTypeOK'
  BY <1>1, ZenonT(40) DEF Start
<1>2. ASSUME NEW c \in Calls, Acquire(c) PROVE ExecTypeOK'
  BY <1>2 DEF Acquire
<1>3. ASSUME NEW c \in Calls, Wait(c) PROVE ExecTypeOK'
  BY <1>3 DEF Wait
<1>4. ASSUME NEW c \in Calls, GiveUp(c) PROVE ExecTypeOK'
  BY <1>4 DEF GiveUp
<1>5. ASSUME NEW c \in Calls, Spawn(c) PROVE ExecTypeOK'
  BY <1>5 DEF Spawn
<1>6. ASSUME NEW c \in Calls, Return(c) PROVE ExecTypeOK'
  BY <1>6 DEF Return, Release, Verdict
<1>7. ASSUME NEW c \in Calls, Deadline(c) PROVE ExecTypeOK'
  BY <1>7 DEF Deadline
<1>8. ASSUME NEW c \in Calls, Disconnect(c) PROVE ExecTypeOK'
  BY <1>8 DEF Disconnect
<1>9. ASSUME NEW c \in Calls, Kill(c) PROVE ExecTypeOK'
  <2>1. indexLock' \in [Dirs -> Lock]
    <3>1. PICK left \in BOOLEAN : \/ indexLock' = indexLock
                                  \/ indexLock' = [indexLock EXCEPT ![DirOf[c]] =
                                                      IF left THEN ByChild(c) ELSE Stale(c)]
      BY <1>9 DEF Kill
    <3>2. (IF left THEN ByChild(c) ELSE Stale(c)) \in Lock
      BY Locks
    <3> QED
      BY <3>1, <3>2, ZenonT(40)
  <2>2. metLock' \in [Calls -> Lock]
    BY <1>9 DEF Kill
  <2>3. /\ at' \in [Calls -> {"new", "acquiring", "waiting", "ready", "running", "done"}]
        /\ proc' \in [Calls -> {"none", "alive", "exited"}]
        /\ outcome' \in [Calls -> {"none", "ok", "failed", "killed"}]
        /\ late' \in [Calls -> BOOLEAN]
    BY <1>9 DEF Kill
  <2>5. child' \in [Calls -> BOOLEAN]
    <3>1. \/ child' = child
          \/ child' = [child EXCEPT ![c] = TRUE]
          \/ child' = [child EXCEPT ![c] = FALSE]
      BY <1>9 DEF Kill
    <3> QED
      BY <3>1
  <2>4. UNCHANGED <<slot, args, ended, answer>>
    BY <1>9 DEF Kill
  <2> QED
    BY <2>1, <2>2, <2>3, <2>4, <2>5
<1>10. ASSUME NEW c \in Calls, LockIndex(c) PROVE ExecTypeOK'
  <2>1. indexLock' \in [Dirs -> Lock]
    BY <1>10, Locks, ZenonT(40) DEF LockIndex, Holds
  <2>2. metLock' \in [Calls -> Lock]
    <3>1. indexLock[DirOf[c]] \in Lock
      OBVIOUS
    <3>2. metLock' = metLock \/ metLock' = [metLock EXCEPT ![c] = indexLock[DirOf[c]]]
      BY <1>10 DEF LockIndex
    <3>3. metLock \in [Calls -> Lock]
      OBVIOUS
    <3> HIDE DEF IInv, ExecTypeOK
    <3> QED
      BY <3>1, <3>2, <3>3
  <2>3. /\ at' \in [Calls -> {"new", "acquiring", "waiting", "ready", "running", "done"}]
        /\ proc' \in [Calls -> {"none", "alive", "exited"}]
        /\ outcome' \in [Calls -> {"none", "ok", "failed", "killed"}]
        /\ late' \in [Calls -> BOOLEAN] /\ child' \in [Calls -> BOOLEAN]
    BY <1>10, ZenonT(40) DEF LockIndex
  <2>4. UNCHANGED <<slot, args, ended, answer>>
    BY <1>10 DEF LockIndex
  <2> QED
    BY <2>1, <2>2, <2>3, <2>4
<1>11. ASSUME NEW c \in Calls, Exit(c) PROVE ExecTypeOK'
  <2>1. indexLock' \in [Dirs -> Lock]
    BY <1>11, Locks DEF Exit, Holds
  <2>2. metLock' \in [Calls -> Lock]
    BY <1>11 DEF Exit
  <2>3. /\ at' \in [Calls -> {"new", "acquiring", "waiting", "ready", "running", "done"}]
        /\ proc' \in [Calls -> {"none", "alive", "exited"}]
        /\ late' \in [Calls -> BOOLEAN]
    BY <1>11 DEF Exit
  <2>6. outcome' \in [Calls -> {"none", "ok", "failed", "killed"}]
    <3>1. PICK status \in {"ok", "failed"} : outcome' = [outcome EXCEPT ![c] = status]
      BY <1>11 DEF Exit
    <3> QED
      BY <3>1
  <2>5. child' \in [Calls -> BOOLEAN]
    <3>1. \/ child' = child
          \/ child' = [child EXCEPT ![c] = TRUE]
          \/ child' = [child EXCEPT ![c] = FALSE]
      BY <1>11 DEF Exit
    <3> QED
      BY <3>1
  <2>4. UNCHANGED <<slot, args, ended, answer>>
    BY <1>11 DEF Exit
  <2> QED
    BY <2>1, <2>2, <2>3, <2>4, <2>5, <2>6
<1>12. ASSUME NEW c \in Calls, ChildEnds(c) PROVE ExecTypeOK'
  BY <1>12 DEF ChildEnds, Lock, Free
<1>13. ASSUME NEW d \in Dirs, Terminal(d) PROVE ExecTypeOK'
  <2>1. indexLock' \in [Dirs -> Lock]
    BY <1>13, Locks, ZenonT(40) DEF Terminal
  <2> QED
    BY <1>13, <2>1 DEF Terminal
<1>14. CASE UNCHANGED execVars
  BY <1>14 DEF execVars
<1> HIDE DEF IInv, ExecTypeOK, disk, process
<1> QED
  BY <1>1, <1>2, <1>3, <1>4, <1>5, <1>6, <1>7, <1>8, <1>9, <1>10, <1>11, <1>12, <1>13,
     <1>14 DEF ExecNext, Exec, Environment

\* Nothing has started, so the invariant holds.
LEMMA InitIInv ==
    ASSUME ExecInit
    PROVE  IInv
<1>1. ExecTypeOK
  BY Places DEF ExecInit, ExecTypeOK, Lock, Free
<1>2. SlotHolder /\ Waiters /\ GitRuns /\ LockHeld
  BY DEF ExecInit, SlotHolder, Waiters, GitRuns, LockHeld, HeldAt, Free
<1>3. SlotGuardsTheWrite
  BY Places DEF ExecInit, SlotGuardsTheWrite, Active
<1> QED
  BY <1>1, <1>2, <1>3 DEF IInv

\* The invariant is inductive.
LEMMA NextIInv ==
    ASSUME IInv, [ExecNext]_execVars
    PROVE  IInv'
  BY TypeStep, HolderStep, SlotStep, WaitersStep, RunsStep, LockStep DEF IInv

(* The inductive invariant holds for ever. *)
THEOREM Invariance == ExecSpec => []IInv
<1>1. ExecInit => IInv
  BY InitIInv
<1>2. IInv /\ [ExecNext]_execVars => IInv'
  BY NextIInv
<1> QED
  BY <1>1, <1>2, PTL DEF ExecSpec

(***************************************************************************)
(* Exec keeps its types, for any calls, directories and commands.          *)
(***************************************************************************)
THEOREM TypeCorrect == ExecSpec => []ExecTypeOK
<1>1. IInv => ExecTypeOK
  BY DEF IInv
<1> QED
  BY Invariance, <1>1, PTL

(***************************************************************************)
(* However many calls meet on however many directories, and whichever way  *)
(* each of them ends, a slot is filled exactly while a write runs.         *)
(***************************************************************************)
THEOREM SlotsGuardWrites == ExecSpec => []SlotGuardsTheWrite
<1>1. IInv => SlotGuardsTheWrite
  BY DEF IInv
<1> QED
  BY Invariance, <1>1, PTL

\* What writesTheIndex is written to be: no command takes the lock behind its back.
LocksAreListed == \A list \in Commands : TakesTheLock(list) => WritesTheIndex(list)

\* Every step keeps yagit out of its own way.
LEMMA FightStep ==
    ASSUME LocksAreListed, IInv, NeverFightsItself, [ExecNext]_execVars
    PROVE  NeverFightsItself'
<1>types. /\ DirOf \in [Calls -> Dirs] /\ NoCall \notin Calls
          /\ slot \in [Dirs -> Calls \cup {NoCall}]
          /\ at \in [Calls -> {"new", "acquiring", "waiting", "ready", "running", "done"}]
          /\ args \in [Calls -> Commands \cup {<<>>}]
          /\ metLock \in [Calls -> Lock]
          /\ indexLock \in [Dirs -> Lock]
  BY Places DEF IInv, ExecTypeOK
<1>inv. SlotHolder /\ SlotGuardsTheWrite /\ Waiters /\ GitRuns /\ LockHeld
  BY DEF IInv
<1> USE <1>types, <1>inv DEF disk, process, NeverFightsItself
<1>1. ASSUME NEW c \in Calls, Start(c) PROVE NeverFightsItself'
  BY <1>1 DEF Start
<1>2. ASSUME NEW c \in Calls, Acquire(c) PROVE NeverFightsItself'
  BY <1>2 DEF Acquire
<1>3. ASSUME NEW c \in Calls, Wait(c) PROVE NeverFightsItself'
  BY <1>3 DEF Wait
<1>4. ASSUME NEW c \in Calls, GiveUp(c) PROVE NeverFightsItself'
  BY <1>4 DEF GiveUp
<1>5. ASSUME NEW c \in Calls, Spawn(c) PROVE NeverFightsItself'
  BY <1>5 DEF Spawn
<1>6. ASSUME NEW c \in Calls, Return(c) PROVE NeverFightsItself'
  BY <1>6 DEF Return
<1>7. ASSUME NEW c \in Calls, Deadline(c) PROVE NeverFightsItself'
  BY <1>7 DEF Deadline
<1>8. ASSUME NEW c \in Calls, Disconnect(c) PROVE NeverFightsItself'
  BY <1>8 DEF Disconnect
<1>9. ASSUME NEW c \in Calls, Kill(c) PROVE NeverFightsItself'
  BY <1>9 DEF Kill
<1>10. ASSUME NEW c \in Calls, LockIndex(c) PROVE NeverFightsItself'
  <2> SUFFICES ASSUME indexLock[DirOf[c]].by = "git", ~Holds(c), proc[c] = "alive",
                      TakesTheLock(args[c])
               PROVE  FALSE
    BY <1>10 DEF LockIndex
  <2>1. PICK b \in Calls : /\ indexLock[DirOf[c]] = ByGit(b) /\ DirOf[b] = DirOf[c]
                           /\ proc[b] = "alive" /\ TakesTheLock(args[b])
    BY DEF LockHeld, HeldAt
  <2>2. at[b] = "running" /\ at[c] = "running"
    BY <2>1 DEF GitRuns
  <2>3. WritesTheIndex(args[b]) /\ WritesTheIndex(args[c])
    BY <2>1, <2>2 DEF Waiters, LocksAreListed
  <2>4. slot[DirOf[b]] = b /\ slot[DirOf[c]] = c
    BY <2>2, <2>3 DEF SlotGuardsTheWrite, Active
  <2> QED
    BY <2>1, <2>4 DEF Holds
<1>11. ASSUME NEW c \in Calls, Exit(c) PROVE NeverFightsItself'
  BY <1>11 DEF Exit
<1>12. ASSUME NEW c \in Calls, ChildEnds(c) PROVE NeverFightsItself'
  BY <1>12 DEF ChildEnds
<1>13. ASSUME NEW d \in Dirs, Terminal(d) PROVE NeverFightsItself'
  BY <1>13 DEF Terminal
<1>14. CASE UNCHANGED execVars
  BY <1>14 DEF execVars
<1> HIDE <1>types, <1>inv DEF disk, process, NeverFightsItself
<1> QED
  BY <1>1, <1>2, <1>3, <1>4, <1>5, <1>6, <1>7, <1>8, <1>9, <1>10, <1>11, <1>12, <1>13, <1>14 DEF ExecNext, Exec, Environment

(***************************************************************************)
(* As long as writesTheIndex knows every command that takes the lock, git  *)
(* never meets the lock file of a git Exec is running, however many calls  *)
(* there are.  The run exec checks the conclusion for those it tries.      *)
(***************************************************************************)
THEOREM NoFightWithItself ==
    ASSUME LocksAreListed
    PROVE  ExecSpec => []NeverFightsItself
<1>1. ExecInit => NeverFightsItself
  <2>1. ExecInit => metLock = [c \in Calls |-> Free]
    BY DEF ExecInit
  <2> QED
    <3>1. Free.by # "git"
      BY DEF Free
    <3> QED
      BY <2>1, <3>1 DEF NeverFightsItself
<1>2. IInv /\ NeverFightsItself /\ [ExecNext]_execVars => NeverFightsItself'
  BY FightStep
<1> QED
  BY <1>1, <1>2, Invariance, PTL DEF ExecSpec

-----------------------------------------------------------------------------
(* The lock files that a signal leaves behind.                             *)

\* A call that its reader ended takes no lock, and one that has not started was
\* not ended.
Uninterrupted == \A c \in Calls :
    /\ TakesTheLock(args[c]) => ended[c] # "cancelled"
    /\ at[c] = "new" => ended[c] = "no"

\* A write that its deadline ended, and whose answer says so once there is one.
TimedOut(c) ==
    /\ TakesTheLock(args[c])
    /\ ended[c] = "deadline" /\ outcome[c] = "killed" /\ proc[c] = "exited"
    /\ at[c] \in {"running", "done"}
    /\ at[c] = "done" => answer[c] = "timed out"

\* Such a file was made by one, which works where the file is.
MakerAt(d) == LeftBehind(indexLock[d]) =>
    \E c \in Calls : indexLock[d].call = c /\ DirOf[c] = d /\ TimedOut(c)
Makers == \A d \in Dirs : MakerAt(d)

\* Whoever has met one came after the answer.
MetAt(c) == LeftBehind(metLock[c]) =>
    \E b \in Calls : metLock[c].call = b /\ at[b] = "done" /\ answer[b] = "timed out"
Met == \A c \in Calls : MetAt(c)

LeftInv == Uninterrupted /\ Makers /\ Met

\* Nothing has ended and nothing was left.
LEMMA InitLeft ==
    ASSUME ExecInit
    PROVE  LeftInv
  BY DEF ExecInit, LeftInv, Uninterrupted, Makers, MakerAt, Met, MetAt, LeftBehind, Free, TakesTheLock

\* Every step leaves the writes to their deadline.
LEMMA UninterruptedStep ==
    ASSUME IInv, LeftInv, [ExecNext]_execVars
    PROVE  Uninterrupted'
<1>types. /\ at \in [Calls -> {"new", "acquiring", "waiting", "ready", "running", "done"}]
          /\ ended \in [Calls -> {"no", "deadline", "cancelled"}]
          /\ args \in [Calls -> Commands \cup {<<>>}]
  BY Places DEF IInv, ExecTypeOK
<1>inv. Uninterrupted
  BY DEF IInv, LeftInv
<1> USE <1>types, <1>inv DEF Uninterrupted, disk, process
<1>1. ASSUME NEW c \in Calls, Start(c) PROVE Uninterrupted'
  BY <1>1 DEF Start
<1>2. ASSUME NEW c \in Calls, Acquire(c) PROVE Uninterrupted'
  BY <1>2 DEF Acquire
<1>3. ASSUME NEW c \in Calls, Wait(c) PROVE Uninterrupted'
  BY <1>3 DEF Wait
<1>4. ASSUME NEW c \in Calls, GiveUp(c) PROVE Uninterrupted'
  BY <1>4 DEF GiveUp
<1>5. ASSUME NEW c \in Calls, Spawn(c) PROVE Uninterrupted'
  BY <1>5 DEF Spawn
<1>6. ASSUME NEW c \in Calls, Return(c) PROVE Uninterrupted'
  BY <1>6 DEF Return
<1>7. ASSUME NEW c \in Calls, Deadline(c) PROVE Uninterrupted'
  BY <1>7 DEF Deadline
<1>8. ASSUME NEW c \in Calls, Disconnect(c) PROVE Uninterrupted'
  BY <1>8 DEF Disconnect
<1>9. ASSUME NEW c \in Calls, Kill(c) PROVE Uninterrupted'
  BY <1>9 DEF Kill
<1>10. ASSUME NEW c \in Calls, LockIndex(c) PROVE Uninterrupted'
  BY <1>10 DEF LockIndex
<1>11. ASSUME NEW c \in Calls, Exit(c) PROVE Uninterrupted'
  BY <1>11 DEF Exit
<1>12. ASSUME NEW c \in Calls, ChildEnds(c) PROVE Uninterrupted'
  BY <1>12 DEF ChildEnds
<1>13. ASSUME NEW d \in Dirs, Terminal(d) PROVE Uninterrupted'
  BY <1>13 DEF Terminal
<1>14. CASE UNCHANGED execVars
  BY <1>14 DEF execVars
<1> HIDE <1>types, <1>inv DEF Uninterrupted, disk, process
<1> QED
  BY <1>1, <1>2, <1>3, <1>4, <1>5, <1>6, <1>7, <1>8, <1>9, <1>10, <1>11, <1>12, <1>13, <1>14 DEF ExecNext, Exec, Environment

\* A call that timed out stays one.
LEMMA TimedOutStays ==
    ASSUME IInv, [ExecNext]_execVars, NEW b \in Calls, TimedOut(b)
    PROVE  TimedOut(b)'
<1>types. /\ at \in [Calls -> {"new", "acquiring", "waiting", "ready", "running", "done"}]
          /\ ended \in [Calls -> {"no", "deadline", "cancelled"}]
          /\ args \in [Calls -> Commands \cup {<<>>}]
          /\ proc \in [Calls -> {"none", "alive", "exited"}]
          /\ outcome \in [Calls -> {"none", "ok", "failed", "killed"}]
          /\ answer \in [Calls -> {"none", "ok", "busy", "ended", "timed out", "failed"}]
  BY DEF IInv, ExecTypeOK
<1> USE <1>types DEF TimedOut, disk, process
<1>1. ASSUME NEW c \in Calls, Start(c) PROVE TimedOut(b)'
  BY <1>1 DEF Start
<1>2. ASSUME NEW c \in Calls, Acquire(c) PROVE TimedOut(b)'
  BY <1>2 DEF Acquire
<1>3. ASSUME NEW c \in Calls, Wait(c) PROVE TimedOut(b)'
  BY <1>3 DEF Wait
<1>4. ASSUME NEW c \in Calls, GiveUp(c) PROVE TimedOut(b)'
  BY <1>4 DEF GiveUp
<1>5. ASSUME NEW c \in Calls, Spawn(c) PROVE TimedOut(b)'
  BY <1>5 DEF Spawn
<1>6. ASSUME NEW c \in Calls, Return(c) PROVE TimedOut(b)'
  BY <1>6 DEF Return, Verdict
<1>7. ASSUME NEW c \in Calls, Deadline(c) PROVE TimedOut(b)'
  BY <1>7 DEF Deadline
<1>8. ASSUME NEW c \in Calls, Disconnect(c) PROVE TimedOut(b)'
  BY <1>8 DEF Disconnect
<1>9. ASSUME NEW c \in Calls, Kill(c) PROVE TimedOut(b)'
  BY <1>9 DEF Kill
<1>10. ASSUME NEW c \in Calls, LockIndex(c) PROVE TimedOut(b)'
  BY <1>10 DEF LockIndex
<1>11. ASSUME NEW c \in Calls, Exit(c) PROVE TimedOut(b)'
  BY <1>11 DEF Exit
<1>12. ASSUME NEW c \in Calls, ChildEnds(c) PROVE TimedOut(b)'
  BY <1>12 DEF ChildEnds
<1>13. ASSUME NEW d \in Dirs, Terminal(d) PROVE TimedOut(b)'
  BY <1>13 DEF Terminal
<1>14. CASE UNCHANGED execVars
  BY <1>14 DEF execVars
<1> HIDE <1>types DEF TimedOut, disk, process
<1> QED
  BY <1>1, <1>2, <1>3, <1>4, <1>5, <1>6, <1>7, <1>8, <1>9, <1>10, <1>11, <1>12, <1>13, <1>14 DEF ExecNext, Exec, Environment

\* The answer of a call that is over stays.
LEMMA AnswerStays ==
    ASSUME IInv, [ExecNext]_execVars, NEW b \in Calls, at[b] = "done"
    PROVE  at'[b] = "done" /\ answer'[b] = answer[b]
<1>types. /\ at \in [Calls -> {"new", "acquiring", "waiting", "ready", "running", "done"}]
          /\ ended \in [Calls -> {"no", "deadline", "cancelled"}]
          /\ args \in [Calls -> Commands \cup {<<>>}]
          /\ proc \in [Calls -> {"none", "alive", "exited"}]
          /\ outcome \in [Calls -> {"none", "ok", "failed", "killed"}]
          /\ answer \in [Calls -> {"none", "ok", "busy", "ended", "timed out", "failed"}]
  BY DEF IInv, ExecTypeOK
<1> USE <1>types DEF disk, process
<1>1. ASSUME NEW c \in Calls, Start(c) PROVE at'[b] = "done" /\ answer'[b] = answer[b]
  BY <1>1 DEF Start
<1>2. ASSUME NEW c \in Calls, Acquire(c) PROVE at'[b] = "done" /\ answer'[b] = answer[b]
  BY <1>2 DEF Acquire
<1>3. ASSUME NEW c \in Calls, Wait(c) PROVE at'[b] = "done" /\ answer'[b] = answer[b]
  BY <1>3 DEF Wait
<1>4. ASSUME NEW c \in Calls, GiveUp(c) PROVE at'[b] = "done" /\ answer'[b] = answer[b]
  BY <1>4 DEF GiveUp
<1>5. ASSUME NEW c \in Calls, Spawn(c) PROVE at'[b] = "done" /\ answer'[b] = answer[b]
  BY <1>5 DEF Spawn
<1>6. ASSUME NEW c \in Calls, Return(c) PROVE at'[b] = "done" /\ answer'[b] = answer[b]
  BY <1>6 DEF Return
<1>7. ASSUME NEW c \in Calls, Deadline(c) PROVE at'[b] = "done" /\ answer'[b] = answer[b]
  BY <1>7 DEF Deadline
<1>8. ASSUME NEW c \in Calls, Disconnect(c) PROVE at'[b] = "done" /\ answer'[b] = answer[b]
  BY <1>8 DEF Disconnect
<1>9. ASSUME NEW c \in Calls, Kill(c) PROVE at'[b] = "done" /\ answer'[b] = answer[b]
  BY <1>9 DEF Kill
<1>10. ASSUME NEW c \in Calls, LockIndex(c) PROVE at'[b] = "done" /\ answer'[b] = answer[b]
  BY <1>10 DEF LockIndex
<1>11. ASSUME NEW c \in Calls, Exit(c) PROVE at'[b] = "done" /\ answer'[b] = answer[b]
  BY <1>11 DEF Exit
<1>12. ASSUME NEW c \in Calls, ChildEnds(c) PROVE at'[b] = "done" /\ answer'[b] = answer[b]
  BY <1>12 DEF ChildEnds
<1>13. ASSUME NEW d \in Dirs, Terminal(d) PROVE at'[b] = "done" /\ answer'[b] = answer[b]
  BY <1>13 DEF Terminal
<1>14. CASE UNCHANGED execVars
  BY <1>14 DEF execVars
<1> HIDE <1>types DEF disk, process
<1> QED
  BY <1>1, <1>2, <1>3, <1>4, <1>5, <1>6, <1>7, <1>8, <1>9, <1>10, <1>11, <1>12, <1>13, <1>14 DEF ExecNext, Exec, Environment

\* Only a signal leaves a lock file behind, that of the git it ends.
LEMMA OnlyKillLeaves ==
    ASSUME IInv, [ExecNext]_execVars, NEW e \in Dirs, LeftBehind(indexLock'[e]), indexLock'[e] # indexLock[e]
    PROVE  \E c \in Calls : Kill(c) /\ Holds(c) /\ DirOf[c] = e /\ indexLock'[e].call = c
                            /\ outcome'[c] = "killed" /\ proc'[c] = "exited"
<1>types. /\ DirOf \in [Calls -> Dirs] /\ indexLock \in [Dirs -> Lock]
          /\ outcome \in [Calls -> {"none", "ok", "failed", "killed"}]
          /\ proc \in [Calls -> {"none", "alive", "exited"}]
  BY Places DEF IInv, ExecTypeOK
<1>left. LeftBehind(indexLock'[e]) /\ indexLock'[e] # indexLock[e]
  OBVIOUS
<1> DEFINE left(c) == Kill(c) /\ Holds(c) /\ DirOf[c] = e /\ indexLock'[e].call = c
                      /\ outcome'[c] = "killed" /\ proc'[c] = "exited"
           goal == \E c \in Calls : left(c)
<1> HIDE DEF goal, left
<1> USE <1>types, <1>left DEF LeftBehind, disk, process
<1>1. ASSUME NEW c \in Calls, Start(c) PROVE goal
  BY <1>1 DEF Start
<1>2. ASSUME NEW c \in Calls, Acquire(c) PROVE goal
  BY <1>2 DEF Acquire
<1>3. ASSUME NEW c \in Calls, Wait(c) PROVE goal
  BY <1>3 DEF Wait
<1>4. ASSUME NEW c \in Calls, GiveUp(c) PROVE goal
  BY <1>4 DEF GiveUp
<1>5. ASSUME NEW c \in Calls, Spawn(c) PROVE goal
  BY <1>5 DEF Spawn
<1>6. ASSUME NEW c \in Calls, Return(c) PROVE goal
  BY <1>6 DEF Return
<1>7. ASSUME NEW c \in Calls, Deadline(c) PROVE goal
  BY <1>7 DEF Deadline
<1>8. ASSUME NEW c \in Calls, Disconnect(c) PROVE goal
  BY <1>8 DEF Disconnect
<1>9. ASSUME NEW c \in Calls, Kill(c) PROVE goal
  <2>1. /\ proc[c] = "alive" /\ Holds(c) /\ e = DirOf[c]
        /\ outcome' = [outcome EXCEPT ![c] = "killed"] /\ proc' = [proc EXCEPT ![c] = "exited"]
    BY <1>9 DEF Kill
  <2>2. indexLock'[e] = ByChild(c) \/ indexLock'[e] = Stale(c)
    BY <1>9, <2>1 DEF Kill
  <2>3. indexLock'[e].call = c
    BY <2>2 DEF ByChild, Stale
  <2>4. left(c)
    BY <1>9, <2>1, <2>3 DEF left
  <2> QED
    BY <2>4 DEF goal
<1>10. ASSUME NEW c \in Calls, LockIndex(c) PROVE goal
  BY <1>10 DEF LockIndex, ByGit
<1>11. ASSUME NEW c \in Calls, Exit(c) PROVE goal
  BY <1>11 DEF Exit, Free
<1>12. ASSUME NEW c \in Calls, ChildEnds(c) PROVE goal
  BY <1>12 DEF ChildEnds, Free
<1>13. ASSUME NEW d \in Dirs, Terminal(d) PROVE goal
  BY <1>13 DEF Terminal, Free, ByTerminal
<1>14. CASE UNCHANGED execVars
  BY <1>14 DEF execVars
<1> HIDE <1>types, <1>left DEF LeftBehind, disk, process
<1>15. goal
  BY <1>1, <1>2, <1>3, <1>4, <1>5, <1>6, <1>7, <1>8, <1>9, <1>10, <1>11, <1>12, <1>13, <1>14 DEF ExecNext, Exec, Environment
<1> QED
  BY <1>15 DEF goal, left

\* Every step leaves a lock file only in the name of a write that timed out.
LEMMA MakersStep ==
    ASSUME IInv, LeftInv, [ExecNext]_execVars
    PROVE  Makers'
<1> SUFFICES ASSUME NEW e \in Dirs, LeftBehind(indexLock'[e]) PROVE MakerAt(e)'
  BY DEF Makers, MakerAt
<1>1. CASE indexLock'[e] = indexLock[e]
  <2>1. PICK b \in Calls : indexLock[e].call = b /\ DirOf[b] = e /\ TimedOut(b)
    BY <1>1 DEF LeftInv, Makers, MakerAt
  <2>2. TimedOut(b)'
    BY <2>1, TimedOutStays
  <2> QED
    BY <1>1, <2>1, <2>2 DEF MakerAt
<1>2. CASE indexLock'[e] # indexLock[e]
  <2>1. PICK c \in Calls : Kill(c) /\ Holds(c) /\ DirOf[c] = e /\ indexLock'[e].call = c
                           /\ outcome'[c] = "killed" /\ proc'[c] = "exited"
    BY <1>2, OnlyKillLeaves
  <2>2. PICK b \in Calls : indexLock[e] = ByGit(b) /\ TakesTheLock(args[b])
    BY <2>1 DEF IInv, LockHeld, HeldAt, Holds, ByGit
  <2>3. b = c
    BY <2>1, <2>2 DEF Holds, ByGit
  <2>4. at[c] = "running" /\ ended[c] # "no" /\ UNCHANGED <<at, args, ended>>
    BY <2>1 DEF Kill
  <2>5. ended[c] = "deadline"
    BY <2>2, <2>3, <2>4 DEF LeftInv, Uninterrupted, IInv, ExecTypeOK
  <2>6. TimedOut(c)'
    BY <2>1, <2>2, <2>3, <2>4, <2>5 DEF TimedOut
  <2> QED
    BY <2>1, <2>6 DEF MakerAt
<1> QED
  BY <1>1, <1>2

\* Only git that tries for the lock meets a file.
LEMMA OnlyLockMeets ==
    ASSUME IInv, [ExecNext]_execVars, NEW e \in Calls, metLock'[e] # metLock[e]
    PROVE  LockIndex(e) /\ metLock'[e] = indexLock[DirOf[e]]
<1>types. metLock \in [Calls -> Lock]
  BY DEF IInv, ExecTypeOK
<1> DEFINE goal == LockIndex(e) /\ metLock'[e] = indexLock[DirOf[e]]
<1>met. metLock'[e] # metLock[e]
  OBVIOUS
<1> HIDE DEF goal
<1> USE <1>types, <1>met DEF disk, process
<1>1. ASSUME NEW c \in Calls, Start(c) PROVE goal
  BY <1>1 DEF Start
<1>2. ASSUME NEW c \in Calls, Acquire(c) PROVE goal
  BY <1>2 DEF Acquire
<1>3. ASSUME NEW c \in Calls, Wait(c) PROVE goal
  BY <1>3 DEF Wait
<1>4. ASSUME NEW c \in Calls, GiveUp(c) PROVE goal
  BY <1>4 DEF GiveUp
<1>5. ASSUME NEW c \in Calls, Spawn(c) PROVE goal
  BY <1>5 DEF Spawn
<1>6. ASSUME NEW c \in Calls, Return(c) PROVE goal
  BY <1>6 DEF Return
<1>7. ASSUME NEW c \in Calls, Deadline(c) PROVE goal
  BY <1>7 DEF Deadline
<1>8. ASSUME NEW c \in Calls, Disconnect(c) PROVE goal
  BY <1>8 DEF Disconnect
<1>9. ASSUME NEW c \in Calls, Kill(c) PROVE goal
  BY <1>9 DEF Kill
<1>10. ASSUME NEW c \in Calls, LockIndex(c) PROVE goal
  BY <1>10 DEF LockIndex, goal
<1>11. ASSUME NEW c \in Calls, Exit(c) PROVE goal
  BY <1>11 DEF Exit
<1>12. ASSUME NEW c \in Calls, ChildEnds(c) PROVE goal
  BY <1>12 DEF ChildEnds
<1>13. ASSUME NEW d \in Dirs, Terminal(d) PROVE goal
  BY <1>13 DEF Terminal
<1>14. CASE UNCHANGED execVars
  BY <1>14 DEF execVars
<1> HIDE <1>types, <1>met DEF disk, process
<1>15. goal
  BY <1>1, <1>2, <1>3, <1>4, <1>5, <1>6, <1>7, <1>8, <1>9, <1>10, <1>11, <1>12, <1>13, <1>14 DEF ExecNext, Exec, Environment
<1> QED
  BY <1>15 DEF goal

\* What is met is of a call that is over: its write and the one that meets the
\* file have the same slot.
LEMMA MetStep ==
    ASSUME LocksAreListed, IInv, LeftInv, [ExecNext]_execVars
    PROVE  Met'
<1> SUFFICES ASSUME NEW e \in Calls, LeftBehind(metLock'[e]) PROVE MetAt(e)'
  BY DEF Met, MetAt
<1>1. CASE metLock'[e] = metLock[e]
  <2>1. PICK b \in Calls : metLock[e].call = b /\ at[b] = "done" /\ answer[b] = "timed out"
    BY <1>1 DEF LeftInv, Met, MetAt
  <2>2. at'[b] = "done" /\ answer'[b] = "timed out"
    BY <2>1, AnswerStays
  <2> QED
    BY <1>1, <2>1, <2>2 DEF MetAt
<1>2. CASE metLock'[e] # metLock[e]
  <2>1. LockIndex(e) /\ metLock'[e] = indexLock[DirOf[e]]
    BY <1>2, OnlyLockMeets
  <2>2. proc[e] = "alive" /\ TakesTheLock(args[e]) /\ UNCHANGED <<at, answer>>
    BY <2>1 DEF LockIndex
  <2>3. DirOf[e] \in Dirs
    BY Places
  <2>4. PICK b \in Calls : indexLock[DirOf[e]].call = b /\ DirOf[b] = DirOf[e] /\ TimedOut(b)
    BY <1>2, <2>1, <2>3 DEF LeftInv, Makers, MakerAt
  <2>5. at[e] = "running"
    BY <2>2 DEF IInv, GitRuns
  <2>6. WritesTheIndex(args[b]) /\ WritesTheIndex(args[e])
    BY <2>2, <2>4, <2>5 DEF IInv, Waiters, LocksAreListed, TimedOut
  <2>7. at[b] = "done"
    <3>1. CASE at[b] = "running"
      BY <2>2, <2>4, <2>5, <2>6, <3>1 DEF IInv, SlotGuardsTheWrite, Active, TimedOut
    <3> QED
      BY <2>4, <3>1 DEF TimedOut
  <2>8. answer[b] = "timed out"
    BY <2>4, <2>7 DEF TimedOut
  <2> QED
    BY <2>1, <2>2, <2>4, <2>7, <2>8 DEF MetAt
<1> QED
  BY <1>1, <1>2

(***************************************************************************)
(* As long as writesTheIndex knows every command that takes the lock, a    *)
(* lock file left by a git that Exec ended is that of a call answered with *)
(* "timed out", and answered before any other git met the file, whatever   *)
(* readers go away and whatever children live on.                          *)
(***************************************************************************)
THEOREM LeftLocksTold ==
    ASSUME LocksAreListed
    PROVE  ExecSpec => []LeftLocksAreTold
<1>1. ExecInit => LeftInv
  BY InitLeft
<1>2. IInv /\ LeftInv /\ [ExecNext]_execVars => LeftInv'
  BY UninterruptedStep, MakersStep, MetStep DEF LeftInv
<1>3. LeftInv => LeftLocksAreTold
  <2> SUFFICES ASSUME LeftInv PROVE LeftLocksAreTold
    OBVIOUS
  <2>1. ASSUME NEW d \in Dirs, LeftBehind(indexLock[d]), at[indexLock[d].call] = "done"
        PROVE  answer[indexLock[d].call] = "timed out"
    <3>1. PICK b \in Calls : indexLock[d].call = b /\ TimedOut(b)
      BY <2>1 DEF LeftInv, Makers, MakerAt
    <3> QED
      BY <2>1, <3>1 DEF TimedOut
  <2>2. ASSUME NEW c \in Calls, LeftBehind(metLock[c])
        PROVE  answer[metLock[c].call] = "timed out"
    BY <2>2 DEF LeftInv, Met, MetAt
  <2> QED
    BY <2>1, <2>2 DEF LeftLocksAreTold
<1> QED
  BY <1>1, <1>2, <1>3, Invariance, PTL DEF ExecSpec
=============================================================================
