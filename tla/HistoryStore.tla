----------------------------- MODULE HistoryStore -----------------------------
(***************************************************************************)
(* internal/history/history.go: the store that keeps the assigned history  *)
(* of each walk, with the requests of internal/api that read through it,   *)
(* and the closing of a repository, which empties it.                      *)
(*                                                                         *)
(* A history is abstracted to the state of the repository `git log` read   *)
(* it from.  That state is where the references and HEAD point, which git  *)
(* can move at any time, and how deep the clone is.  The rows a window     *)
(* cuts and the columns they get are left out; so is the scan of Locate,   *)
(* which refreshes exactly as Window does.                                 *)
(***************************************************************************)
EXTENDS Integers, FiniteSets

CONSTANTS
    Requests,           \* handlers at work at the same time
    Picked,             \* walks of chosen references: git.ScopeRefs
    Fixed,              \* walks under the two other scopes
    ChosenHistories,    \* chosenHistories, history.go:139
    MaxAsks,            \* bound: requests served
    MaxMoves,           \* bound: moves of references, HEAD and the boundary
    Returns,            \* TRUE: a reference may come back to where it was
    Shallow,            \* TRUE: the clone is shallow and may be deepened
    Absent

Walks == Picked \cup Fixed
Entries == 1..MaxAsks

ASSUME HistoryAssumption ==
    /\ ChosenHistories \in Nat \ {0}
    /\ {MaxAsks, MaxMoves} \subseteq Nat
    /\ {Returns, Shallow} \subseteq BOOLEAN
    /\ Absent \notin Requests \cup Walks \cup Nat

VARIABLES
    now,        \* the repository on disk
    open,       \* the registry knows it
    closing,    \* handleCloseRepo is between the registry and the store
    byWalk,     \* Store.byWalk: the entry of each walk
    entries,    \* what each entry holds
    handedOut,  \* Store.handedOut
    owner,      \* which request holds each entry's mutex
    serving,    \* what each handler is doing
    lastUse,    \* when each walk was last asked for, for the properties
    asks, moves

repository == <<now, moves>>
known == <<open, closing>>
store == <<byWalk, entries, handedOut, lastUse>>
storeVars == <<repository, known, store, owner, serving, asks>>

NoHistory == [log |-> Absent, fingerprint |-> Absent, used |-> 0]
IdleRequest ==
    [at |-> "idle", walk |-> Absent, entry |-> 0, refs |-> Absent, head |-> Absent,
     seen |-> {}, answer |-> Absent]

StoreInit ==
    /\ now = [refs |-> 0, head |-> 0, depth |-> 0]
    /\ open = TRUE
    /\ closing = FALSE
    /\ byWalk = [w \in Walks |-> 0]
    /\ entries = [e \in Entries |-> NoHistory]
    /\ handedOut = 0
    /\ owner = [e \in Entries |-> Absent]
    /\ serving = [q \in Requests |-> IdleRequest]
    /\ lastUse = [w \in Walks |-> 0]
    /\ asks = 0
    /\ moves = 0

-----------------------------------------------------------------------------
(* git, in a terminal or under another request. *)

\* What a running request may have seen; the properties alone read it.
Witness(state) ==
    serving' = [q \in Requests |-> IF serving[q].at = "idle" THEN serving[q]
                                   ELSE [serving[q] EXCEPT !.seen = @ \cup {state}]]

Moved(n) == IF Returns THEN {1 - n} ELSE {n + 1}

Move(state) ==
    /\ moves < MaxMoves
    /\ moves' = moves + 1
    /\ now' = state
    /\ Witness(state)
    /\ UNCHANGED <<known, store, owner, asks>>

MoveRefs == \E n \in Moved(now.refs) : Move([now EXCEPT !.refs = n])
MoveHead == \E n \in Moved(now.head) : Move([now EXCEPT !.head = n])
Deepen == Shallow /\ Move([now EXCEPT !.depth = @ + 1])

-----------------------------------------------------------------------------
(* A request. *)

Ask(q) ==
    /\ serving[q].at = "idle"
    /\ open
    /\ asks < MaxAsks
    /\ asks' = asks + 1
    /\ \E w \in Walks :
          serving' = [serving EXCEPT ![q] =
                        [IdleRequest EXCEPT !.at = "found", !.walk = w, !.seen = {now}]]
    /\ UNCHANGED <<repository, known, store, owner>>

Used(all, e, n) == [all EXCEPT ![e].used = n]

EvictMutant(map, all) == map  \* whatever the ceiling

\* evictChosen: as many as it takes of the picked walks, least recently used
\* first.  Two entries of a map never were handed out at the same count.
Evict(map, all) ==
    LET held == {w \in Picked : map[w] # 0}
        Newer(w) == {v \in held : all[map[v]].used > all[map[w]].used}
    IN [w \in Walks |-> IF w \in held /\ Cardinality(Newer(w)) >= ChosenHistories
                        THEN 0 ELSE map[w]]

\* entryFor, under the store's mutex.  A new entry is known by the count it was
\* first handed out at.
TakeEntry(q) ==
    /\ serving[q].at = "found"
    /\ LET w == serving[q].walk
           e == IF byWalk[w] = 0 THEN handedOut + 1 ELSE byWalk[w]
           all == Used(entries, e, handedOut + 1)
           map == [byWalk EXCEPT ![w] = e]
       IN /\ entries' = all
          /\ byWalk' = IF w \in Picked THEN Evict(map, all) ELSE map
          /\ lastUse' = [lastUse EXCEPT ![w] = handedOut + 1]
          /\ serving' = [serving EXCEPT ![q].at = "entry", ![q].entry = e]
    /\ handedOut' = handedOut + 1
    /\ UNCHANGED <<repository, known, owner, asks>>

Lock(q) ==
    /\ serving[q].at = "entry"
    /\ owner[serving[q].entry] = Absent
    /\ owner' = [owner EXCEPT ![serving[q].entry] = q]
    /\ serving' = [serving EXCEPT ![q].at = "refs"]
    /\ UNCHANGED <<repository, known, store, asks>>

ReadRefs(q) ==
    /\ serving[q].at = "refs"
    /\ serving' = [serving EXCEPT ![q].at = "head", ![q].refs = now.refs]
    /\ UNCHANGED <<repository, known, store, owner, asks>>

Fingerprint(q, head) == [refs |-> serving[q].refs, head |-> head]

Answered(q, log) == [serving EXCEPT ![q].at = "answer", ![q].answer = log]

FreshMutant(q, entry, fingerprint) == entry.log # Absent  \* held is held

Fresh(q, entry, fingerprint) == entry.log # Absent /\ entry.fingerprint = fingerprint

\* ReadHEAD, and the comparison: what is held answers, or git log runs.
ReadHEAD(q) ==
    /\ serving[q].at = "head"
    /\ LET entry == entries[serving[q].entry]
       IN serving' = IF Fresh(q, entry, Fingerprint(q, now.head))
                     THEN Answered(q, entry.log)
                     ELSE [serving EXCEPT ![q].at = "log", ![q].head = now.head]
    /\ UNCHANGED <<repository, known, store, owner, asks>>

\* LogScope resolves HEAD, --all and the names anew.
Log(q) ==
    /\ serving[q].at = "log"
    /\ entries' = [entries EXCEPT
          ![serving[q].entry].log = now,
          ![serving[q].entry].fingerprint = Fingerprint(q, serving[q].head)]
    /\ serving' = Answered(q, now)
    /\ UNCHANGED <<repository, known, byWalk, handedOut, lastUse, owner, asks>>

FailMutant(q) ==  \* returns with the entry locked
    /\ serving[q].at \in {"refs", "head", "log"}
    /\ serving' = [serving EXCEPT ![q] = IdleRequest]
    /\ UNCHANGED <<repository, known, store, owner, asks>>

\* Any of the three commands fails; what the entry held it keeps.
Fail(q) ==
    /\ serving[q].at \in {"refs", "head", "log"}
    /\ serving' = [serving EXCEPT ![q] = IdleRequest]
    /\ owner' = [owner EXCEPT ![serving[q].entry] = Absent]
    /\ UNCHANGED <<repository, known, store, asks>>

Answer(q) ==
    /\ serving[q].at = "answer"
    /\ serving' = [serving EXCEPT ![q] = IdleRequest]
    /\ owner' = [owner EXCEPT ![serving[q].entry] = Absent]
    /\ UNCHANGED <<repository, known, store, asks>>

-----------------------------------------------------------------------------
(* The repository is opened and closed. *)

OpenRepo ==
    /\ ~open
    /\ asks < MaxAsks
    /\ open' = TRUE
    /\ UNCHANGED <<repository, closing, store, owner, serving, asks>>

\* handleCloseRepo: the registry first.
CloseRepo ==
    /\ open /\ ~closing
    /\ open' = FALSE
    /\ closing' = TRUE
    /\ UNCHANGED <<repository, store, owner, serving, asks>>

\* Then Store.Forget.
ForgetWalks ==
    /\ closing
    /\ closing' = FALSE
    /\ byWalk' = [w \in Walks |-> 0]
    /\ lastUse' = [w \in Walks |-> 0]
    /\ UNCHANGED <<repository, open, entries, handedOut, owner, serving, asks>>

-----------------------------------------------------------------------------
Step(q) == TakeEntry(q) \/ Lock(q) \/ ReadRefs(q) \/ ReadHEAD(q) \/ Log(q) \/ Answer(q)

StoreNext ==
    \/ MoveRefs \/ MoveHead \/ Deepen
    \/ OpenRepo \/ CloseRepo \/ ForgetWalks
    \/ \E q \in Requests : Ask(q) \/ Step(q) \/ Fail(q)

StoreSpec == StoreInit /\ [][StoreNext]_storeVars

(***************************************************************************)
(* A handler goes on, git commands end, and a mutex is handed to whoever   *)
(* waits for it.  Nobody has to ask, and git need not fail.                *)
(***************************************************************************)
FairStoreSpec == StoreSpec /\ \A q \in Requests : WF_storeVars(Step(q))

-----------------------------------------------------------------------------
State == [refs : Nat, head : Nat, depth : Nat]

(***************************************************************************)
(* The types of the state, with a mutex held by the one request that is in *)
(* an entry's refresh.                                                     *)
(***************************************************************************)
StoreTypeOK ==
    /\ now \in State
    /\ open \in BOOLEAN /\ closing \in BOOLEAN
    /\ byWalk \in [Walks -> Entries \cup {0}]
    /\ \A e \in Entries :
          /\ entries[e].log \in State \cup {Absent}
          /\ entries[e].used \in 0..handedOut
          /\ \A q \in Requests : owner[e] = q <=>
                serving[q].entry = e /\ serving[q].at \in {"refs", "head", "log", "answer"}
    /\ handedOut \in 0..MaxAsks
    /\ \A q \in Requests : serving[q].at \in
          {"idle", "found", "entry", "refs", "head", "log", "answer"}
    /\ asks \in 0..MaxAsks /\ moves \in 0..MaxMoves

(***************************************************************************)
(* A window shows the references and HEAD as they were at some moment of   *)
(* the request: not a state that was gone when it came, nor references of  *)
(* one moment with the HEAD of another.  Two requests that share an entry, *)
(* one whose entry is evicted or forgotten under it, and one that follows  *)
(* a failure are no exception.  It takes references that never come back   *)
(* to where they were; how deep the clone was is not promised.             *)
(***************************************************************************)
AnswersAreCurrent ==
    \A q \in Requests : serving[q].at = "answer" =>
        \E s \in serving[q].seen :
            s.refs = serving[q].answer.refs /\ s.head = serving[q].answer.head

(***************************************************************************)
(* The store keeps at most chosenHistories picked walks of a repository:   *)
(* "the ceiling is a promise about memory" (history.go:262).               *)
(***************************************************************************)
CeilingHolds == Cardinality({w \in Picked : byWalk[w] # 0}) <= ChosenHistories

(***************************************************************************)
(* What the ceiling drops is never fresher than what it keeps.             *)
(***************************************************************************)
KeepsTheMostRecent ==
    \A kept, dropped \in Picked :
        byWalk[kept] # 0 /\ byWalk[dropped] = 0 => lastUse[dropped] <= lastUse[kept]

(***************************************************************************)
(* The memory a repository takes is bounded, and spent on what was asked   *)
(* for last.                                                               *)
(***************************************************************************)
StoreIsBounded == StoreTypeOK /\ CeilingHolds /\ KeepsTheMostRecent

(***************************************************************************)
(* A request always ends: the mutex of an entry is given back on every way *)
(* out, a failed command included.                                         *)
(***************************************************************************)
EveryRequestEnds == \A q \in Requests : serving[q].at # "idle" ~> serving[q].at = "idle"
=============================================================================
