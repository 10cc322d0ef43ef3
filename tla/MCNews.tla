------------------------------- MODULE MCNews -------------------------------
(***************************************************************************)
(* The two ends of the way a change on disk takes to the screen: the       *)
(* watcher of the daemon, and the panels of the page.  Between them are    *)
(* the event stream and its tabs (EventStream).  Each is explored by       *)
(* itself: a behaviour is one of the end that is chosen at the start, and  *)
(* the other stays where it begins.  The watcher follows one repository    *)
(* whose directories come and go, or two whose directories stay.           *)
(***************************************************************************)
EXTENDS Watcher, ScreenCache, TLC

CONSTANTS a, b, git, feat, there, c1

VARIABLE part

\* One repository whose ref tree is one level deep, and another one.
TwoOwners == [d \in {git, feat} |-> a] @@ there :> b
FlatParent == git :> Absent @@ feat :> git @@ there :> Absent

Start ==
    /\ part \in {"watcher", "two", "panels"}
    /\ Init /\ (part # "panels" => query = "refs")
    /\ WatcherInit
    /\ part # "watcher" => exists = {git, there} /\ (part = "panels" => pace = "any")

Served == {call[c].repo : c \in Callers}

Step ==
    \/ part = "panels" /\ Next /\ UNCHANGED <<part, watcherVars>>
    \/ part = "watcher" /\ WatcherNext /\ b \notin Served' /\ UNCHANGED <<part, vars>>
    \/ part = "two" /\ WatcherNext /\ UNCHANGED exists /\ UNCHANGED <<part, vars>>

Watching == part \in {"watcher", "two"}

\* That of the end that is chosen.
FairParts ==
    /\ WF_vars(part = "panels" /\ \E c \in commands : Told(c) \/ Failed(c))
    /\ WF_vars(part = "panels" /\ HearEvent)
    /\ WF_vars(part = "panels" /\ Poll)
    /\ WF_vars(part = "panels" /\ DaemonReads)
    /\ WF_vars(part = "panels" /\ Land)
    /\ WF_watcherVars(Watching /\ Fire(a)) /\ WF_watcherVars(Watching /\ Fire(b))
    /\ WF_watcherVars(Watching /\ Announce(a)) /\ WF_watcherVars(Watching /\ Announce(b))
    /\ WF_watcherVars(Watching /\ Consume)
    /\ WF_watcherVars(Watching /\ Handle)
    /\ WF_watcherVars(Watching /\ CloseInner)
    /\ WF_watcherVars(Watching /\ EndRun)
    /\ WF_watcherVars(Watching /\ Worker)
    /\ WF_watcherVars(Watching /\ Working(c1))

News == Start /\ [][Step]_<<part, vars, watcherVars>> /\ FairParts
=============================================================================
