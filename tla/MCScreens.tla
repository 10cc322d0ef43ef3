------------------------------ MODULE MCScreens ------------------------------
(***************************************************************************)
(* Four parts of the web interface that do not touch one another: the      *)
(* dialogs of Dialogs, the tabs of Session, the boxes of Drafts and the    *)
(* transfers of Transfer.  Each is explored by itself: a behaviour is one  *)
(* of the part that is chosen at the start, and the others stay where they *)
(* begin.                                                                  *)
(***************************************************************************)
EXTENDS Dialogs, Session, Drafts, Transfer

\* One dialog of each shape, and each place that has dialogs.
Some == {"create", "search", "merge", "push_tag", "set_upstream", "remove_worktree",
         "add_worktree", "track", "untrack", "undo", "operation", "publish", "force", "remotes",
         "set_url", "remove_remote"}

VARIABLE part

Start ==
    /\ part \in {"dialogs", "tabs", "boxes", "transfers"}
    /\ Init /\ TabsInit /\ TransferInit
    /\ DraftsInit /\ (part # "boxes" => ~staged /\ unmerged = {})

Step ==
    \/ part = "dialogs" /\ Next /\ UNCHANGED <<part, tabsVars, draftsVars, transferVars>>
    \/ part = "tabs" /\ TabsNext /\ UNCHANGED <<part, vars, draftsVars, transferVars>>
    \/ part = "boxes" /\ DraftsNext /\ UNCHANGED <<part, vars, tabsVars, transferVars>>
    \/ part = "transfers" /\ TransferNext /\ UNCHANGED <<part, vars, tabsVars, draftsVars>>

\* That of the part that is chosen.
FairParts ==
    /\ WF_tabsVars(part = "tabs" /\ Settling)
    /\ WF_transferVars(part = "transfers" /\ Daemon(1))
    /\ WF_transferVars(part = "transfers" /\ Browser(1))
    /\ WF_transferVars(part = "transfers" /\ Tick)

Screens == Start /\ [][Step]_<<part, vars, tabsVars, draftsVars, transferVars>> /\ FairParts
=============================================================================
