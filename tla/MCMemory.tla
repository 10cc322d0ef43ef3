------------------------------ MODULE MCMemory ------------------------------
(***************************************************************************)
(* What the daemon alone remembers: the branches it deleted, which Undo    *)
(* brings back, the walks of the history it has computed, which the store  *)
(* of HistoryStore drops over a ceiling, and the repositories that are     *)
(* open, of RepoSessions.  A behaviour is one of the part that is chosen   *)
(* at the start, and the others stay where they begin.                     *)
(***************************************************************************)
EXTENDS Undo, HistoryStore, RepoSessions, TLC

CONSTANT side  \* the branch that is deleted

VARIABLE part

\* There is a branch to delete.
Beginning ==
    /\ part \in {"undo", "walks", "repositories"}
    /\ StoreInit /\ RegistryInit
    /\ Init /\ (IF part = "undo" THEN refs[side] # 0 ELSE refs[side] = 1)

\* Of undo, the more is done in a terminal the fewer requests are made.
Turn ==
    \/ /\ part = "undo"
       /\ Next
       /\ terminal' + requests' <= 4
       /\ UNCHANGED <<part, storeVars, registryVars>>
    \/ part = "walks" /\ StoreNext /\ UNCHANGED <<part, vars, registryVars>>
    \/ part = "repositories" /\ RegistryNext /\ UNCHANGED <<part, vars, storeVars>>

Memory == Beginning /\ [][Turn]_<<part, vars, storeVars, registryVars>>

\* Handlers are alike, and so are the walks of chosen references and the paths.
Symmetry == Permutations(Handlers) \cup Permutations(Picked) \cup Permutations(Repos)
=============================================================================
