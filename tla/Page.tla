-------------------------------- MODULE Page --------------------------------
(***************************************************************************)
(* What the parts of the page have in common.  They share the user, who is *)
(* faced with one of them at a time, and no state.                         *)
(***************************************************************************)
EXTENDS Naturals, Sifting

CONSTANTS
    None,           \* what is not there: null and undefined
    MaxGestures,    \* bound: what the user does
    MayHappen       \* the orders of events, of those a part names, that do occur

ASSUME PageAssumption == None \notin Nat

\* What filter leaves of a list.
Without(list, one) == Sifted(list, {i \in DOMAIN list : list[i] # one})
=============================================================================
