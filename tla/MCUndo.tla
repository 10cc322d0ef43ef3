------------------------------- MODULE MCUndo -------------------------------
EXTENDS Undo, TLC

CONSTANTS main, side

\* Handlers are alike.
Symmetry == Permutations(Handlers)
=============================================================================
