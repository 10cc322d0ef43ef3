------------------------------ MODULE MCWatcher ------------------------------
EXTENDS Watcher, TLC

CONSTANTS a, b, git, feat, nested, there

\* One repository whose ref tree is one level deep, and one nested deeper.
FlatParent == git :> Absent @@ feat :> git
NestedParent == FlatParent @@ nested :> feat
OneOwner == [d \in Dirs |-> a]

\* Two repositories.
TwoRoots == [d \in {git, there} |-> Absent]
TwoOwners == git :> a @@ there :> b
=============================================================================
