------------------------------ MODULE MCDaemon ------------------------------
(***************************************************************************)
(* Two parts of the daemon that share nothing but the command that ran:    *)
(* the event stream of EventStream with its tabs, and Exec of GitExec with *)
(* the calls of MCGitExec.  A behaviour is one of the stream, or of Exec   *)
(* from where the one tab has connected and nothing has happened to it.    *)
(***************************************************************************)
EXTENDS EventStream, MCGitExec

CONSTANT c1

VARIABLE part

Beginning ==
    /\ part = "stream"
    /\ Init /\ ExecInit

TabIsConnected ==
    /\ conn[c1].up
    /\ nextID = 0 /\ ~done /\ era = 0 /\ backlog[c1] = None /\ lastSeen[c1] = None

Turn ==
    \/ part = "stream" /\ TabIsConnected /\ part' = "exec" /\ UNCHANGED <<vars, execVars>>
    \/ part = "stream" /\ Next /\ UNCHANGED <<part, execVars>>
    \/ part = "exec" /\ ExecNext /\ UNCHANGED <<part, vars>>

\* That of the part that is chosen.
FairParts ==
    /\ WF_vars(part = "stream" /\ WriteMissed(c1))
    /\ SF_vars(part = "stream" /\ WriteEvent(c1))
    /\ SF_vars(part = "stream" /\ HangUpLagging(c1))
    /\ SF_vars(part = "stream" /\ HangUpDone(c1))
    /\ WF_vars(part = "stream" /\ Subscribe(c1))
    /\ \A c \in Calls :
          /\ WF_execVars(part = "exec" /\ (Acquire(c) \/ Wait(c) \/ GiveUp(c)))
          /\ WF_execVars(part = "exec" /\ Deadline(c)) /\ WF_execVars(part = "exec" /\ Spawn(c))
          /\ WF_execVars(part = "exec" /\ Kill(c)) /\ WF_execVars(part = "exec" /\ Return(c))

SideBySide == Beginning /\ [][Turn]_<<part, vars, execVars>> /\ FairParts
=============================================================================
