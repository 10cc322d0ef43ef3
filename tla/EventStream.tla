----------------------------- MODULE EventStream -----------------------------
(***************************************************************************)
(* The daemon's one push channel: internal/api/events.go, and the browser  *)
(* that reads it, web/src/app/useEvents.ts.                                *)
(*                                                                         *)
(* publish, subscribe, unsubscribe and Executions each run under           *)
(* EventStream.mutex, so each is one step.  A handler writes one event per *)
(* iteration of its loop and its select takes any branch that is ready.  A *)
(* write either reaches the browser or ends with the connection, so the    *)
(* write, its reception and the listener that runs are one step, and Cut   *)
(* is everything that loses a connection.  Heartbeats carry nothing and    *)
(* are left out.                                                           *)
(*                                                                         *)
(* A Client is a browser tab that is never reloaded.  An event is its id   *)
(* and its kind; `era` counts the daemon processes and is no part of what  *)
(* travels: it tells two events of the same id apart.                      *)
(***************************************************************************)
EXTENDS Integers, Sequences, FiniteSets, Sifting

CONSTANTS
    Clients,            \* browser tabs
    BufferedEvents,     \* bufferedEvents, events.go:41
    SubscriberBuffer,   \* subscriberBuffer, events.go:47
    KeptExecutions,     \* KEPT_EXECUTIONS, useEvents.ts:23
    MaxEvents,          \* bound: events one daemon process publishes
    MaxRestarts,        \* bound: daemon processes after the first
    None                \* no id yet, no backlog yet

ASSUME BoundsAssumption ==
    /\ BufferedEvents \in Nat \ {0}
    /\ SubscriberBuffer \in Nat \ {0}
    /\ KeptExecutions \in Nat \ {0}
    /\ MaxEvents \in Nat
    /\ MaxRestarts \in Nat
    /\ None \notin Nat

VARIABLES
    nextID,       \* EventStream.nextID
    buffer,       \* EventStream.buffer, oldest first
    done,         \* EventStream.done is closed
    era,          \* which daemon process this is
    conn,         \* the subscriber of each tab and its handler's progress
    lastSeen,     \* EventSource's last event id, sent back as Last-Event-ID
    backlog,      \* what GET /api/log last answered each tab, or None
    executions    \* the tab's own list of the commands it heard of

daemon == <<nextID, buffer, done, era>>
tabs == <<lastSeen, backlog, executions>>
vars == <<daemon, conn, tabs>>

Kinds == {"repository", "git"}
Event == [id : Nat \ {0}, kind : Kinds, era : Nat]

-----------------------------------------------------------------------------
(***************************************************************************)
(* Connections.  `missed` is the replay the handler has still to write,    *)
(* `chan` the subscriber's channel.  `cursor` is what the tab was promised *)
(* to know already when it subscribed, then the last event written to it.  *)
(***************************************************************************)
NoConnection ==
    [up |-> FALSE, chan |-> <<>>, missed |-> <<>>, lagging |-> FALSE, cursor |-> 0]

Ids(events) == [i \in DOMAIN events |-> events[i].id]
Pending(c) == conn[c].missed \o conn[c].chan

\* The oldest event a replay can still reach.
Oldest == nextID - Len(buffer) + 1

\* Where a subscription is meant to take up: a first connection from now on, a
\* returning one right after what it saw, or after what the ring let go.
ResumePoint(after) ==
    IF after = None \/ after > nextID THEN nextID
    ELSE IF after < Oldest - 1 THEN Oldest - 1 ELSE after

Init ==
    /\ nextID = 0
    /\ buffer = <<>>
    /\ done = FALSE
    /\ era = 0
    /\ conn = [c \in Clients |-> NoConnection]
    /\ lastSeen = [c \in Clients |-> None]
    /\ backlog = [c \in Clients |-> None]
    /\ executions = [c \in Clients |-> <<>>]

-----------------------------------------------------------------------------
(* The daemon. *)

RetainedMutant(events) ==  \* >= for >: the ring is one short
    IF Len(events) >= BufferedEvents THEN Tail(events) ELSE events

\* The shift that keeps the ring at its size.
Retained(events) ==
    IF Len(events) > BufferedEvents THEN Tail(events) ELSE events

OfferMutant(k, event) ==  \* the overflow is not told
    IF k.up /\ Len(k.chan) < SubscriberBuffer
    THEN [k EXCEPT !.chan = Append(@, event)] ELSE k

\* publish's non-blocking send to one subscriber: queued, or lagging for good.
Offer(k, event) ==
    IF ~k.up THEN k
    ELSE IF Len(k.chan) < SubscriberBuffer
         THEN [k EXCEPT !.chan = Append(@, event)]
         ELSE [k EXCEPT !.lagging = TRUE]

Publish(kind) ==
    /\ nextID < MaxEvents
    /\ LET event == [id |-> nextID + 1, kind |-> kind, era |-> era]
       IN /\ buffer' = Retained(Append(buffer, event))
          /\ conn' = [c \in Clients |-> Offer(conn[c], event)]
    /\ nextID' = nextID + 1
    /\ UNCHANGED <<done, era, tabs>>

\* The replay, decided under the same lock as the registration.  The ring
\* ascends (RingIsTheRecentPast), so the events past `after` are its end.
MissedMutant(after) == SubSeq(buffer, 1, Len(buffer))  \* forgets Last-Event-ID

Missed(after) ==
    IF after = None THEN <<>>
    ELSE SubSeq(buffer, Cardinality({i \in DOMAIN buffer : buffer[i].id <= after}) + 1,
                Len(buffer))

Subscribe(c) ==
    /\ ~conn[c].up
    /\ ~done
    /\ conn' = [conn EXCEPT ![c] =
          [up |-> TRUE, chan |-> <<>>, missed |-> Missed(lastSeen[c]),
           lagging |-> FALSE, cursor |-> ResumePoint(lastSeen[c])]]
    /\ UNCHANGED <<daemon, tabs>>

\* http.Server's shutdown hook.
Close ==
    /\ ~done
    /\ done' = TRUE
    /\ UNCHANGED <<nextID, buffer, era, conn, tabs>>

\* The process ends, cleanly or not, and another takes its place: the sequence
\* numbers start again, the tabs keep what they hold.
Restart ==
    /\ era < MaxRestarts
    /\ nextID' = 0
    /\ buffer' = <<>>
    /\ done' = FALSE
    /\ era' = era + 1
    /\ conn' = [c \in Clients |-> NoConnection]
    /\ UNCHANGED tabs

-----------------------------------------------------------------------------
(* The tab. *)

Has(events, id) == \E i \in DOMAIN events : events[i].id = id
LastOf(events, n) ==
    IF Len(events) > n THEN SubSeq(events, Len(events) - n + 1, Len(events)) ELSE events

\* The 'git' listener: a repeat is dropped, the list is kept to its length.
Heard(held, event) ==
    IF event.kind # "git" \/ Has(held, event.id) THEN held
    ELSE LastOf(Append(held, event), KeptExecutions)

ShownMutant(c) ==  \* the backlog and the stream just put together
    LET first == IF backlog[c] = None THEN <<>> ELSE backlog[c]
    IN LastOf(first \o executions[c], KeptExecutions)

\* What the panel draws: the backlog, then what arrived since.
Shown(c) ==
    LET first == IF backlog[c] = None THEN <<>> ELSE backlog[c]
        unheard == {i \in DOMAIN executions[c] : ~Has(first, executions[c][i].id)}
    IN LastOf(first \o Sifted(executions[c], unheard), KeptExecutions)

Receive(c, event) ==
    /\ lastSeen' = [lastSeen EXCEPT ![c] = event.id]
    /\ executions' = [executions EXCEPT ![c] = Heard(@, event)]
    /\ UNCHANGED backlog

\* Executions: the git commands of the ring.
Backlog == Sifted(buffer, {i \in DOMAIN buffer : buffer[i].kind = "git"})

ReadBacklog(c) ==
    /\ ~done
    /\ backlog[c] # Backlog
    /\ backlog' = [backlog EXCEPT ![c] = Backlog]
    /\ UNCHANGED <<daemon, conn, lastSeen, executions>>

-----------------------------------------------------------------------------
(* handleEvents. *)

\* The replay is written out before the loop looks at anything else.
WriteMissed(c) ==
    /\ conn[c].up
    /\ conn[c].missed # <<>>
    /\ LET event == Head(conn[c].missed)
       IN /\ conn' = [conn EXCEPT ![c].missed = Tail(@), ![c].cursor = event.id]
          /\ Receive(c, event)
    /\ UNCHANGED daemon

Looping(c) == conn[c].up /\ conn[c].missed = <<>>

WriteEvent(c) ==
    /\ Looping(c)
    /\ conn[c].chan # <<>>
    /\ LET event == Head(conn[c].chan)
       IN /\ conn' = [conn EXCEPT ![c].chan = Tail(@), ![c].cursor = event.id]
          /\ Receive(c, event)
    /\ UNCHANGED daemon

\* The deferred unsubscribe.
Leave(c) ==
    /\ conn' = [conn EXCEPT ![c] = NoConnection]
    /\ UNCHANGED <<daemon, tabs>>

HangUpLaggingMutant(c) == FALSE  \* nobody reads the channel that says so
HangUpLagging(c) == Looping(c) /\ conn[c].lagging /\ Leave(c)
HangUpDone(c) == Looping(c) /\ done /\ Leave(c)

\* A write failed or the request's context ended.
Cut(c) == conn[c].up /\ Leave(c)

-----------------------------------------------------------------------------
Daemon == (\E kind \in Kinds : Publish(kind)) \/ Close \/ Restart

Handler(c) == WriteMissed(c) \/ WriteEvent(c) \/ HangUpLagging(c) \/ HangUpDone(c)

Tab(c) == Subscribe(c) \/ ReadBacklog(c) \/ Cut(c)

Next == Daemon \/ \E c \in Clients : Handler(c) \/ Tab(c)

Spec == Init /\ [][Next]_vars

(***************************************************************************)
(* A handler that can write does; Go's select draws among the ready        *)
(* branches, so a branch that is ready again and again is taken; and       *)
(* EventSource reconnects on its own for as long as the daemon listens.    *)
(* Nothing obliges the daemon to publish, to stop, or a connection to cut. *)
(***************************************************************************)
FairSpec ==
    /\ Spec
    /\ \A c \in Clients :
          /\ WF_vars(WriteMissed(c))
          /\ SF_vars(WriteEvent(c))
          /\ SF_vars(HangUpLagging(c))
          /\ SF_vars(HangUpDone(c))
          /\ WF_vars(Subscribe(c))

-----------------------------------------------------------------------------
(***************************************************************************)
(* The types of the state, with the capacities of the ring, of a channel   *)
(* and of the panel.                                                       *)
(***************************************************************************)
TypeOK ==
    /\ nextID \in Nat
    /\ buffer \in Seq(Event)
    /\ Len(buffer) <= BufferedEvents
    /\ done \in BOOLEAN
    /\ era \in Nat
    /\ DOMAIN conn = Clients
    /\ \A c \in Clients :
          /\ conn[c].up \in BOOLEAN
          /\ conn[c].lagging \in BOOLEAN
          /\ conn[c].cursor \in Nat
          /\ conn[c].missed \in Seq(Event)
          /\ conn[c].chan \in Seq(Event)
          /\ Len(conn[c].chan) <= SubscriberBuffer
    /\ lastSeen \in [Clients -> Nat \cup {None}]
    /\ executions \in [Clients -> Seq(Event)]
    /\ \A c \in Clients : Len(executions[c]) <= KeptExecutions

(***************************************************************************)
(* The ring holds exactly the most recent events of this process, without  *)
(* a hole, as many as it has room for: what bufferedEvents promises to a   *)
(* replay and to the backlog.                                              *)
(***************************************************************************)
RingIsTheRecentPast ==
    /\ Len(buffer) = IF nextID < BufferedEvents THEN nextID ELSE BufferedEvents
    /\ \A i \in 1..Len(buffer) : buffer[i].id = nextID - Len(buffer) + i

(***************************************************************************)
(* A connection that has not overflowed owes its tab exactly the events    *)
(* after the last one it wrote, each once and in order, up to the latest:  *)
(* replay and channel together have neither a hole nor an overlap.  This   *)
(* is what taking the replay and the subscription under one lock is for.   *)
(***************************************************************************)
NoGapWhileKeepingUp ==
    \A c \in Clients :
        conn[c].up /\ ~conn[c].lagging =>
            /\ conn[c].cursor + Len(Pending(c)) = nextID
            /\ \A i \in 1..Len(Pending(c)) : Pending(c)[i].id = conn[c].cursor + i

(***************************************************************************)
(* A tab never hears an event of one daemon twice or after a later one,    *)
(* however many times it is cut off, overflows and comes back.             *)
(***************************************************************************)
NeverTwiceNorBackwards ==
    [][\A c \in Clients :
        lastSeen'[c] # lastSeen[c] => conn[c].cursor < lastSeen'[c]]_vars

(***************************************************************************)
(* Once connections stop being lost, every tab ends level with a daemon    *)
(* that keeps running: nothing stays queued and no overflow goes without a *)
(* reconnection.                                                           *)
(***************************************************************************)
Lost == \E c \in Clients : Cut(c)
Level(c) == conn[c].up /\ ~conn[c].lagging /\ conn[c].cursor = nextID

TabsEndLevel ==
    <>[][~Lost]_vars => <>[](done \/ \A c \in Clients : Level(c))

(***************************************************************************)
(* Once the daemon is stopping every stream ends, which is what lets       *)
(* http.Server.Shutdown return within its grace period.                    *)
(***************************************************************************)
ShutdownEndsStreams == done ~> (\A c \in Clients : ~conn[c].up)

(***************************************************************************)
(* Both of the things a stream is waited for.                              *)
(***************************************************************************)
StreamsSettle == TabsEndLevel /\ ShutdownEndsStreams

(***************************************************************************)
(* The panel never draws one command twice, whichever of the backlog, the  *)
(* stream and a replay brought it.                                         *)
(***************************************************************************)
PanelDrawsOnce ==
    \A c \in Clients : \A i, j \in DOMAIN Shown(c) :
        Shown(c)[i].id = Shown(c)[j].id => i = j

(***************************************************************************)
(* The stream implements the feed: buffers, replays and reconnections are  *)
(* invisible to a tab that keeps up.                                       *)
(***************************************************************************)
Feed == INSTANCE OrderedFeed WITH
    published <- nextID,
    up <- {c \in Clients : conn[c].up},
    lossy <- {c \in Clients : conn[c].lagging},
    cursor <- [c \in Clients |-> conn[c].cursor]

ImplementsFeed == Feed!Spec

(***************************************************************************)
(* A tab hears what the feed promises, over one connection and over all of *)
(* them.                                                                   *)
(***************************************************************************)
TabsHearInOrder == ImplementsFeed /\ NeverTwiceNorBackwards

-----------------------------------------------------------------------------
(***************************************************************************)
(* What comments of the code say, and the code does not do.                *)
(***************************************************************************)

(***************************************************************************)
(* "The identifier is the daemon's own sequence number, so dropping a      *)
(* repeat is exact" (useEvents.ts:109): a command is dropped from the      *)
(* panel only when the panel holds that very command.                      *)
(***************************************************************************)
DroppingARepeatIsExact ==
    \A c \in Clients :
        LET next == Head(conn[c].chan)
        IN Looping(c) /\ conn[c].chan # <<>> /\ next.kind = "git" =>
              \A i \in DOMAIN executions[c] :
                  executions[c][i].id = next.id => executions[c][i] = next
=============================================================================
