----------------------------- MODULE OrderedFeed -----------------------------
(***************************************************************************)
(* What the event stream promises each tab, without the ring, the replay   *)
(* or the channels: an attached tab is written the events that follow the  *)
(* one it took up at, one by one, with no hole until its connection is     *)
(* lossy; a lossy one still only moves forward.                            *)
(***************************************************************************)
EXTENDS Integers

CONSTANT Clients

VARIABLES
    published,  \* how many events there are
    up,         \* the tabs attached
    lossy,      \* those that fell too far behind
    cursor      \* the event each was last written, or took up at

vars == <<published, up, lossy, cursor>>

Init ==
    /\ published = 0
    /\ up = {}
    /\ lossy = {}
    /\ cursor = [c \in Clients |-> 0]

Publish ==
    /\ published' = published + 1
    /\ \E behind \in SUBSET up : lossy' = lossy \cup behind
    /\ UNCHANGED <<up, cursor>>

Attach(c) ==
    /\ c \notin up
    /\ up' = up \cup {c}
    /\ \E n \in 0..published : cursor' = [cursor EXCEPT ![c] = n]
    /\ UNCHANGED <<published, lossy>>

Write(c) ==
    /\ c \in up
    /\ \E n \in (cursor[c] + 1)..published :
          /\ c \notin lossy => n = cursor[c] + 1
          /\ cursor' = [cursor EXCEPT ![c] = n]
    /\ UNCHANGED <<published, up, lossy>>

Detach(c) ==
    /\ c \in up
    /\ up' = up \ {c}
    /\ lossy' = lossy \ {c}
    /\ cursor' = [cursor EXCEPT ![c] = 0]
    /\ UNCHANGED published

\* Another daemon: its first event is number one again.
Renew ==
    /\ published' = 0
    /\ up' = {}
    /\ lossy' = {}
    /\ cursor' = [c \in Clients |-> 0]

Next ==
    \/ Publish
    \/ Renew
    \/ \E c \in Clients : Attach(c) \/ Write(c) \/ Detach(c)

Spec == Init /\ [][Next]_vars
=============================================================================
