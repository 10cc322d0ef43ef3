--------------------------- MODULE MemoryProofs -----------------------------
(***************************************************************************)
(* What is proved of the memory of the daemon: the store of histories and  *)
(* the registry of open repositories, each a component of its own.         *)
(***************************************************************************)
EXTENDS HistoryStore, RepoSessions, FiniteSetTheorems, TLAPS

-----------------------------------------------------------------------------
(***************************************************************************)
(* What a window of the history shows was the state of the repository at   *)
(* some moment of its request, for every number of requests, walks and     *)
(* moves and every ceiling, as long as a reference never comes back to     *)
(* where it was.  What is kept was read after its fingerprint, so a        *)
(* fingerprint that is still that of the repository leaves it no room to   *)
(* have moved.  And the store never keeps more picked walks than its       *)
(* ceiling, nor drops a fresher one than it keeps.                         *)
(***************************************************************************)

\* References and HEAD only move on.
NeverReturns == ~Returns

Fingerprints == [refs : Nat, head : Nat]
Kept == [log : State \cup {Absent}, fingerprint : Fingerprints \cup {Absent}, used : Nat]
Holding == {"refs", "head", "log", "answer"}
Past == {"found", "entry"} \cup Holding
Serving == [at : {"idle"} \cup Past, walk : Walks \cup {Absent}, entry : Entries \cup {0},
            refs : Nat \cup {Absent}, head : Nat \cup {Absent}, seen : SUBSET State,
            answer : State \cup {Absent}]

StoreShapes ==
    /\ now \in State
    /\ Returns => now.refs \in {0, 1} /\ now.head \in {0, 1}
    /\ open \in BOOLEAN /\ closing \in BOOLEAN
    /\ byWalk \in [Walks -> Entries \cup {0}]
    /\ entries \in [Entries -> Kept]
    /\ owner \in [Entries -> Requests \cup {Absent}]
    /\ serving \in [Requests -> Serving]
    /\ handedOut \in Nat /\ asks \in 0..MaxAsks /\ moves \in 0..MaxMoves
    /\ \A e \in Entries : entries[e].used <= handedOut

\* Each request that was counted and has no entry yet may make one.
Finding == {q \in Requests : serving[q].at = "found"}
RoomForAll == IsFiniteSet(Finding) /\ handedOut + Cardinality(Finding) <= asks

\* One request is in the refresh of an entry at a time.
OneAtATime ==
    \A q \in Requests :
        /\ serving[q].at \in {"entry"} \cup Holding => serving[q].entry \in Entries
        /\ \A e \in Entries :
              owner[e] = q <=> serving[q].entry = e /\ serving[q].at \in Holding

\* States have an order as long as nothing comes back.
NotAfter(s, t) == NeverReturns => s.refs <= t.refs /\ s.head <= t.head

\* What is kept was read after its fingerprint was.
LogsFollowFingerprints ==
    \A e \in Entries : entries[e].log # Absent =>
        /\ NotAfter(entries[e].log, now)
        /\ entries[e].fingerprint \in Fingerprints
        /\ NotAfter(entries[e].fingerprint, entries[e].log)

\* A request knows the walk it is for and the repository as it is.
KnowsNow ==
    \A q \in Requests : serving[q].at # "idle" =>
        serving[q].walk \in Walks /\ now \in serving[q].seen

\* The references it read were those of a state it knows, and what its entry
\* keeps is not newer than that.
RefsAreOf(q, s) ==
    /\ s.refs = serving[q].refs /\ NotAfter(s, now)
    /\ entries[serving[q].entry].log # Absent => NotAfter(entries[serving[q].entry].log, s)
ReadInOrder ==
    \A q \in Requests :
        /\ serving[q].at = "head" => \E s \in serving[q].seen : RefsAreOf(q, s)
        /\ serving[q].at = "log" => NotAfter(Fingerprint(q, serving[q].head), now)
                                    /\ Fingerprint(q, serving[q].head) \in Fingerprints

StoreInv ==
    /\ StoreShapes /\ RoomForAll /\ OneAtATime
    /\ LogsFollowFingerprints /\ KnowsNow /\ ReadInOrder
    /\ NeverReturns => AnswersAreCurrent

-----------------------------------------------------------------------------
\* Nothing is kept and nothing is asked at the start.
LEMMA InitStoreInv == StoreInit => StoreInv
<1> SUFFICES ASSUME StoreInit PROVE StoreInv  OBVIOUS
<1> USE HistoryAssumption
<1>1. StoreShapes
  <2>1. now \in State /\ now.refs \in {0, 1} /\ now.head \in {0, 1}  BY DEF StoreInit, State
  <2>2. byWalk \in [Walks -> Entries \cup {0}]  BY DEF StoreInit
  <2>3. entries \in [Entries -> Kept]  BY DEF StoreInit, NoHistory, Kept
  <2>4. owner \in [Entries -> Requests \cup {Absent}]  BY DEF StoreInit
  <2>5. IdleRequest \in Serving  BY DEF IdleRequest, Serving
  <2>6. serving \in [Requests -> Serving]  BY <2>5 DEF StoreInit
  <2>7. \A e \in Entries : entries[e].used <= handedOut  BY DEF StoreInit, NoHistory
  <2>8. open \in BOOLEAN /\ closing \in BOOLEAN  BY DEF StoreInit
  <2>9. handedOut \in Nat /\ asks \in 0..MaxAsks /\ moves \in 0..MaxMoves
    <3>1. MaxAsks \in Nat /\ MaxMoves \in Nat  OBVIOUS
    <3>2. QED  BY <3>1 DEF StoreInit
  <2>10. QED  BY <2>1, <2>2, <2>3, <2>4, <2>6, <2>7, <2>8, <2>9 DEF StoreShapes
<1>2. RoomForAll
  <2>1. Finding = {}  BY DEF StoreInit, Finding, IdleRequest
  <2>2. QED  BY <2>1, FS_EmptySet DEF StoreInit, RoomForAll
<1>3. OneAtATime  BY DEF StoreInit, OneAtATime, IdleRequest, Holding, Entries
<1>4. LogsFollowFingerprints  BY DEF StoreInit, LogsFollowFingerprints, NoHistory
<1>5. KnowsNow /\ ReadInOrder /\ (NeverReturns => AnswersAreCurrent)
  BY DEF StoreInit, KnowsNow, ReadInOrder, AnswersAreCurrent, IdleRequest
<1>6. QED  BY <1>1, <1>2, <1>3, <1>4, <1>5 DEF StoreInv

-----------------------------------------------------------------------------
\* The repository moves on: what a request knew it still knows, and more.
LEMMA MoveKeeps ==
    ASSUME StoreInv, MoveRefs \/ MoveHead \/ Deepen
    PROVE  StoreInv'
<1> USE HistoryAssumption DEF StoreInv
<1>1. PICK state \in State :
        /\ Move(state) /\ NotAfter(now, state)
        /\ Returns => state.refs \in {0, 1} /\ state.head \in {0, 1}
  <2>1. now \in State /\ (Returns => now.refs \in {0, 1} /\ now.head \in {0, 1})  BY DEF StoreShapes
  <2>2. CASE MoveRefs
    <3>1. PICK n \in Moved(now.refs) : Move([now EXCEPT !.refs = n])  BY <2>2 DEF MoveRefs
    <3> DEFINE t == [now EXCEPT !.refs = n]
    <3>2. n = IF Returns THEN 1 - now.refs ELSE now.refs + 1  BY DEF Moved
    <3>3. t \in State /\ NotAfter(now, t)
      BY <2>1, <3>2 DEF State, NotAfter, NeverReturns
    <3>4. Returns => t.refs \in {0, 1} /\ t.head \in {0, 1}
      BY <2>1, <3>2 DEF State
    <3>5. QED  BY <3>1, <3>3, <3>4
  <2>3. CASE MoveHead
    <3>1. PICK n \in Moved(now.head) : Move([now EXCEPT !.head = n])  BY <2>3 DEF MoveHead
    <3> DEFINE t == [now EXCEPT !.head = n]
    <3>2. n = IF Returns THEN 1 - now.head ELSE now.head + 1  BY DEF Moved
    <3>3. t \in State /\ NotAfter(now, t)
      BY <2>1, <3>2 DEF State, NotAfter, NeverReturns
    <3>4. Returns => t.refs \in {0, 1} /\ t.head \in {0, 1}
      BY <2>1, <3>2 DEF State
    <3>5. QED  BY <3>1, <3>3, <3>4
  <2>4. CASE Deepen
    <3>1. Move([now EXCEPT !.depth = @ + 1])  BY <2>4 DEF Deepen
    <3> DEFINE t == [now EXCEPT !.depth = @ + 1]
    <3>2. /\ t \in State /\ NotAfter(now, t)
          /\ Returns => t.refs \in {0, 1} /\ t.head \in {0, 1}
      BY <2>1 DEF State, NotAfter
    <3>3. QED  BY <3>1, <3>2
  <2>5. QED  BY <2>2, <2>3, <2>4
<1>2. /\ now \in State /\ now' = state /\ moves < MaxMoves /\ moves' = moves + 1
      /\ UNCHANGED <<open, closing, byWalk, entries, handedOut, owner, asks>>
  BY <1>1 DEF Move, StoreShapes, known, store
<1>3. /\ serving \in [Requests -> Serving] /\ serving' \in [Requests -> Serving]
      /\ \A q \in Requests :
            /\ serving[q].at = "idle" => serving'[q] = serving[q]
            /\ serving[q].at # "idle" => serving'[q] = [serving[q] EXCEPT !.seen = @ \cup {state}]
  <2>1. serving \in [Requests -> Serving]  BY DEF StoreShapes
  <2>2. \A q \in Requests : [serving[q] EXCEPT !.seen = @ \cup {state}] \in Serving
    BY <2>1 DEF Serving
  <2>3. QED  BY <1>1, <2>1, <2>2 DEF Move, Witness
<1>4. \A q \in Requests :
        /\ serving'[q].at = serving[q].at /\ serving'[q].entry = serving[q].entry
        /\ serving'[q].refs = serving[q].refs /\ serving'[q].head = serving[q].head
        /\ serving'[q].answer = serving[q].answer /\ serving'[q].walk = serving[q].walk
        /\ serving[q].seen \subseteq serving'[q].seen
        /\ serving[q].at # "idle" => state \in serving'[q].seen
        /\ serving[q].seen \subseteq State
  BY <1>3 DEF Serving
<1>5. StoreShapes'
  <2>1. moves' \in 0..MaxMoves  BY <1>2 DEF StoreShapes
  <2>2. QED  BY <1>1, <1>2, <1>3, <2>1 DEF StoreShapes
<1>6. RoomForAll'
  <2>1. Finding' = Finding  BY <1>4 DEF Finding
  <2>2. QED  BY <1>2, <2>1 DEF RoomForAll
<1>7. OneAtATime'
  <2>1. owner' = owner  BY <1>2
  <2>2. QED  BY <1>4, <2>1 DEF OneAtATime
<1>8. LogsFollowFingerprints'
  <2> SUFFICES ASSUME NEW e \in Entries, entries[e].log # Absent
               PROVE  /\ NotAfter(entries[e].log, state)
                      /\ entries[e].fingerprint \in Fingerprints
                      /\ NotAfter(entries[e].fingerprint, entries[e].log)
    BY <1>2 DEF LogsFollowFingerprints
  <2>1. entries[e].log \in State  BY DEF StoreShapes, Kept
  <2>2. NotAfter(entries[e].log, now)  BY DEF LogsFollowFingerprints
  <2>3. NotAfter(entries[e].log, state)  BY <1>1, <1>2, <2>1, <2>2 DEF NotAfter, State
  <2>4. QED  BY <2>3 DEF LogsFollowFingerprints
<1>9. KnowsNow'  BY <1>2, <1>4 DEF KnowsNow
<1>10. ReadInOrder'
  <2> SUFFICES ASSUME NEW q \in Requests
               PROVE  (/\ serving[q].at = "head" => \E s \in serving[q].seen : RefsAreOf(q, s)
                       /\ serving[q].at = "log" =>
                             NotAfter(Fingerprint(q, serving[q].head), now)
                             /\ Fingerprint(q, serving[q].head) \in Fingerprints)'
    BY DEF ReadInOrder
  <2>1. CASE serving[q].at = "head"
    <3>1. PICK s \in serving[q].seen : RefsAreOf(q, s)  BY <2>1 DEF ReadInOrder
    <3>2. NotAfter(s, now) /\ NotAfter(now, state) /\ s \in State
      BY <1>1, <1>4, <3>1 DEF RefsAreOf
    <3>3. NotAfter(s, state)  BY <1>1, <1>2, <3>2 DEF State, NotAfter
    <3>4. RefsAreOf(q, s)'  BY <1>2, <1>4, <3>1, <3>3 DEF RefsAreOf
    <3>5. s \in serving'[q].seen  BY <1>4, <3>1
    <3>6. QED  BY <1>4, <2>1, <3>4, <3>5
  <2>2. CASE serving[q].at = "log"
    <3> DEFINE fp == Fingerprint(q, serving[q].head)
    <3>1. NotAfter(fp, now) /\ fp \in Fingerprints  BY <2>2 DEF ReadInOrder
    <3>2. NotAfter(fp, state)  BY <1>1, <1>2, <3>1 DEF NotAfter, State, Fingerprints
    <3>3. Fingerprint(q, serving[q].head)' = fp  BY <1>4 DEF Fingerprint
    <3>4. QED  BY <1>2, <1>4, <2>2, <3>1, <3>2, <3>3
  <2>3. CASE serving[q].at \notin {"head", "log"}  BY <1>4, <2>3
  <2>4. QED  BY <2>1, <2>2, <2>3
<1>11. NeverReturns => AnswersAreCurrent'
  <2> SUFFICES ASSUME NeverReturns, NEW q \in Requests, serving[q].at = "answer"
               PROVE  \E s \in serving'[q].seen :
                        s.refs = serving'[q].answer.refs /\ s.head = serving'[q].answer.head
    BY <1>4 DEF AnswersAreCurrent
  <2>1. PICK s \in serving[q].seen : s.refs = serving[q].answer.refs
                                     /\ s.head = serving[q].answer.head
    BY DEF AnswersAreCurrent
  <2>2. QED  BY <1>4, <2>1
<1>12. QED  BY <1>5, <1>6, <1>7, <1>8, <1>9, <1>10, <1>11
-----------------------------------------------------------------------------
\* What a request at the point r says must hold is all a turn has to show: the
\* others are where they were, and no other's entry was written.
Knows(r) == r.at # "idle" => r.walk \in Walks /\ now \in r.seen
Reads(r) ==
    /\ r.at = "head" => \E s \in r.seen :
          /\ s.refs = r.refs /\ NotAfter(s, now)
          /\ entries[r.entry].log # Absent => NotAfter(entries[r.entry].log, s)
    /\ r.at = "log" => LET fp == [refs |-> r.refs, head |-> r.head]
                       IN NotAfter(fp, now) /\ fp \in Fingerprints
Answers(r) ==
    NeverReturns /\ r.at = "answer" =>
        \E s \in r.seen : s.refs = r.answer.refs /\ s.head = r.answer.head

\* A request alone takes a turn, and no entry is written but by who holds it.
LEMMA OneTurn ==
    ASSUME StoreInv, NEW q \in Requests, NEW r \in Serving,
           serving' = [serving EXCEPT ![q] = r], now' = now,
           \A e \in Entries : owner[e] # q => entries'[e].log = entries[e].log,
           Knows(r)', Reads(r)', Answers(r)'
    PROVE  KnowsNow' /\ ReadInOrder' /\ (NeverReturns => AnswersAreCurrent')
<1>1. serving \in [Requests -> Serving]  BY DEF StoreInv, StoreShapes
<1>2. /\ serving'[q] = r
      /\ \A p \in Requests \ {q} : serving'[p] = serving[p]
  BY <1>1
<1>3. KnowsNow'  BY <1>2 DEF StoreInv, KnowsNow, Knows
<1>4. NeverReturns => AnswersAreCurrent'  BY <1>2 DEF StoreInv, AnswersAreCurrent, Answers
<1>5. ReadInOrder'
  <2> SUFFICES ASSUME NEW p \in Requests
               PROVE  (/\ serving[p].at = "head" => \E s \in serving[p].seen : RefsAreOf(p, s)
                       /\ serving[p].at = "log" =>
                             NotAfter(Fingerprint(p, serving[p].head), now)
                             /\ Fingerprint(p, serving[p].head) \in Fingerprints)'
    BY DEF ReadInOrder
  <2>1. CASE p = q  BY <1>2, <2>1 DEF Reads, RefsAreOf, Fingerprint
  <2>2. CASE p # q
    <3>1. serving'[p] = serving[p]  BY <1>2, <2>2
    <3>2. CASE serving[p].at = "head"
      <4>1. PICK s \in serving[p].seen : RefsAreOf(p, s)  BY <3>2 DEF StoreInv, ReadInOrder
      <4>2. serving[p].entry \in Entries /\ owner[serving[p].entry] = p
        BY <3>2 DEF StoreInv, OneAtATime, Holding
      <4>3. entries'[serving[p].entry].log = entries[serving[p].entry].log  BY <2>2, <4>2
      <4>4. RefsAreOf(p, s)'  BY <3>1, <4>1, <4>3 DEF RefsAreOf
      <4>5. QED  BY <3>1, <3>2, <4>1, <4>4
    <3>3. CASE serving[p].at = "log"  BY <3>1, <3>3 DEF StoreInv, ReadInOrder, Fingerprint
    <3>4. CASE serving[p].at \notin {"head", "log"}  BY <3>1, <3>4
    <3>5. QED  BY <3>2, <3>3, <3>4
  <2>3. QED  BY <2>1, <2>2
<1>6. QED  BY <1>3, <1>4, <1>5

\* A turn that neither comes from "found" nor goes there leaves the room as it is.
LEMMA SameRoom ==
    ASSUME StoreInv, NEW q \in Requests, NEW r \in Serving,
           serving' = [serving EXCEPT ![q] = r],
           serving[q].at # "found", r.at # "found",
           UNCHANGED <<handedOut, asks>>
    PROVE  RoomForAll'
<1>1. serving \in [Requests -> Serving]  BY DEF StoreInv, StoreShapes
<1>2. Finding' = Finding  BY <1>1 DEF Finding
<1>3. QED  BY <1>2 DEF StoreInv, RoomForAll

\* A turn between two points where the mutex is held, or not, keeps it so.
LEMMA SameHolder ==
    ASSUME StoreInv, NEW q \in Requests, NEW r \in Serving,
           serving' = [serving EXCEPT ![q] = r], owner' = owner,
           r.at \in {"entry"} \cup Holding => r.entry \in Entries,
           \/ serving[q].at \in Holding /\ r.at \in Holding /\ r.entry = serving[q].entry
           \/ serving[q].at \notin Holding /\ r.at \notin Holding
    PROVE  OneAtATime'
<1>1. serving \in [Requests -> Serving]  BY DEF StoreInv, StoreShapes
<1>2. /\ serving'[q] = r
      /\ \A p \in Requests \ {q} : serving'[p] = serving[p]
  BY <1>1
<1>3. \A p \in Requests \ {q} :
        (/\ serving[p].at \in {"entry"} \cup Holding => serving[p].entry \in Entries
         /\ \A e \in Entries :
               owner[e] = p <=> serving[p].entry = e /\ serving[p].at \in Holding)'
  BY <1>2 DEF StoreInv, OneAtATime
<1>4. (/\ serving[q].at \in {"entry"} \cup Holding => serving[q].entry \in Entries
       /\ \A e \in Entries :
             owner[e] = q <=> serving[q].entry = e /\ serving[q].at \in Holding)'
  BY <1>2 DEF StoreInv, OneAtATime
<1>5. QED  BY <1>3, <1>4 DEF OneAtATime

\* What is kept is as good as it was while nobody writes it.
LEMMA SameEntries ==
    ASSUME StoreInv, now' = now, entries' = entries
    PROVE  LogsFollowFingerprints'
BY DEF StoreInv, LogsFollowFingerprints

-----------------------------------------------------------------------------
\* A request comes, and is one of those that may make an entry.
LEMMA LookUpKeeps ==
    ASSUME StoreInv, NEW q \in Requests, Ask(q)
    PROVE  StoreInv'
<1> USE HistoryAssumption
<1>1. PICK w \in Walks : serving' = [serving EXCEPT ![q] =
                             [IdleRequest EXCEPT !.at = "found", !.walk = w, !.seen = {now}]]
  BY DEF Ask
<1>2. /\ now \in State /\ serving \in [Requests -> Serving] /\ asks \in Nat
      /\ serving[q].at = "idle" /\ asks < MaxAsks /\ asks' = asks + 1
      /\ UNCHANGED <<now, moves, open, closing, byWalk, entries, handedOut, lastUse, owner>>
  BY DEF Ask, StoreInv, StoreShapes, repository, known, store
<1>3. PICK r \in Serving :
        /\ r = [IdleRequest EXCEPT !.at = "found", !.walk = w, !.seen = {now}]
        /\ r.at = "found" /\ r.seen = {now} /\ r.walk \in Walks
  <2> DEFINE t == [IdleRequest EXCEPT !.at = "found", !.walk = w, !.seen = {now}]
  <2>1. t \in Serving  BY <1>2 DEF IdleRequest, Serving, Past, Holding
  <2>2. t.at = "found" /\ t.seen = {now} /\ t.walk = w  BY DEF IdleRequest
  <2>3. QED  BY <2>1, <2>2
<1>4. serving' = [serving EXCEPT ![q] = r]  BY <1>1, <1>3
<1>5. StoreShapes'
  <2>1. serving' \in [Requests -> Serving]  BY <1>2, <1>3, <1>4
  <2>2. asks' \in 0..MaxAsks  BY <1>2
  <2>3. QED  BY <1>2, <2>1, <2>2 DEF StoreInv, StoreShapes
<1>6. RoomForAll'
  <2>1. Finding' = Finding \cup {q}  BY <1>2, <1>3, <1>4 DEF Finding
  <2>2. q \notin Finding  BY <1>2 DEF Finding
  <2>3. IsFiniteSet(Finding')
        /\ Cardinality(Finding') = Cardinality(Finding) + 1
    BY <2>1, <2>2, FS_AddElement DEF StoreInv, RoomForAll
  <2>4. Cardinality(Finding) \in Nat  BY FS_CardinalityType DEF StoreInv, RoomForAll
  <2>5. handedOut' + Cardinality(Finding') <= asks'
    BY <1>2, <2>3, <2>4 DEF StoreInv, RoomForAll, StoreShapes
  <2>6. QED  BY <2>3, <2>5 DEF RoomForAll
<1>7. OneAtATime'
  BY <1>2, <1>3, <1>4, SameHolder DEF Holding
<1>8. LogsFollowFingerprints'  BY <1>2, SameEntries
<1>9. KnowsNow' /\ ReadInOrder' /\ (NeverReturns => AnswersAreCurrent')
  <2>1. Knows(r)' /\ Reads(r)' /\ Answers(r)'
    BY <1>2, <1>3 DEF Knows, Reads, Answers
  <2>2. QED  BY <1>2, <1>3, <1>4, <2>1, OneTurn
<1>10. QED  BY <1>5, <1>6, <1>7, <1>8, <1>9 DEF StoreInv

\* Eviction empties places of the map and fills none.
LEMMA EvictType ==
    ASSUME NEW map \in [Walks -> Entries \cup {0}], NEW all
    PROVE  Evict(map, all) \in [Walks -> Entries \cup {0}]
BY DEF Evict

\* A request takes the entry of its walk, and there is room for one more.
LEMMA TakeEntryKeeps ==
    ASSUME StoreInv, NEW q \in Requests, TakeEntry(q)
    PROVE  StoreInv'
<1> USE HistoryAssumption
<1> DEFINE w == serving[q].walk
           n == IF byWalk[w] = 0 THEN handedOut + 1 ELSE byWalk[w]
           map == [byWalk EXCEPT ![w] = n]
<1>1. /\ now \in State /\ serving \in [Requests -> Serving] /\ asks \in 0..MaxAsks
      /\ handedOut \in Nat /\ MaxAsks \in Nat /\ entries \in [Entries -> Kept]
      /\ byWalk \in [Walks -> Entries \cup {0}] /\ serving[q].at = "found"
      /\ UNCHANGED <<now, moves, open, closing, owner, asks>>
      /\ handedOut' = handedOut + 1
  BY SMTT(30) DEF TakeEntry, StoreInv, StoreShapes, repository, known
<1>2. /\ entries' = [entries EXCEPT ![n].used = handedOut + 1]
      /\ byWalk' = IF w \in Picked THEN Evict(map, entries') ELSE map
      /\ serving' = [serving EXCEPT ![q].at = "entry", ![q].entry = n]
  BY DEF TakeEntry, Used
<1>3. handedOut + 1 <= asks /\ RoomForAll'
  <2>1. q \in Finding /\ IsFiniteSet(Finding)  BY <1>1, SMTT(30) DEF Finding, StoreInv, RoomForAll
  <2>2. Finding' = Finding \ {q}  BY <1>1, <1>2 DEF Finding
  <2>3. IsFiniteSet(Finding') /\ Cardinality(Finding') = Cardinality(Finding) - 1
    BY <2>1, <2>2, FS_RemoveElement
  <2>4. Cardinality(Finding) \in Nat /\ Cardinality(Finding') \in Nat
    BY <2>1, <2>3, FS_CardinalityType
  <2>5. handedOut + Cardinality(Finding) <= asks  BY DEF StoreInv, RoomForAll
  <2>6. QED  BY <1>1, <2>3, <2>4, <2>5 DEF RoomForAll
<1>4. w \in Walks /\ n \in Entries
  <2>1. handedOut + 1 \in Entries  BY <1>1, <1>3 DEF Entries
  <2>2. w \in Walks  BY <1>1 DEF StoreInv, KnowsNow
  <2>3. QED  BY <1>1, <2>1, <2>2
<1>5. PICK r \in Serving :
        /\ r = [serving[q] EXCEPT !.at = "entry", !.entry = n]
        /\ r.at = "entry" /\ r.entry \in Entries
        /\ r.walk = serving[q].walk /\ r.seen = serving[q].seen
  <2> DEFINE t == [serving[q] EXCEPT !.at = "entry", !.entry = n]
  <2>1. serving[q] \in Serving  BY <1>1
  <2>2. t \in Serving  BY <1>4, <2>1 DEF Serving, Past
  <2>3. t.at = "entry" /\ t.entry = n /\ t.walk = serving[q].walk /\ t.seen = serving[q].seen
    BY <2>1, SMTT(30) DEF Serving
  <2>4. QED  BY <1>4, <2>2, <2>3
<1>6. serving' = [serving EXCEPT ![q] = r]  BY <1>2, <1>5
<1>7. /\ entries' \in [Entries -> Kept]
      /\ \A e \in Entries : /\ entries'[e].log = entries[e].log
                            /\ entries'[e].fingerprint = entries[e].fingerprint
                            /\ entries'[e].used <= handedOut + 1
  <2>1. \A e \in Entries : entries[e] \in Kept /\ entries[e].used <= handedOut
    BY <1>1 DEF StoreInv, StoreShapes
  <2>2. handedOut + 1 \in Nat  BY <1>1
  <2>3. [entries[n] EXCEPT !.used = handedOut + 1] \in Kept  BY <1>4, <2>1, <2>2 DEF Kept
  <2>4. entries' \in [Entries -> Kept]  BY <1>1, <1>2, <1>4, <2>3
  <2>5. ASSUME NEW e \in Entries
        PROVE  /\ entries'[e].log = entries[e].log
               /\ entries'[e].fingerprint = entries[e].fingerprint
               /\ entries'[e].used <= handedOut + 1
    <3>1. entries[e] \in Kept /\ entries[e].used \in Nat /\ entries[e].used <= handedOut
      BY <2>1, SMTT(30) DEF Kept
    <3>2. CASE e = n  BY <1>1, <1>2, <1>4, <3>1, <3>2 DEF Kept
    <3>3. CASE e # n  BY <1>1, <1>2, <1>4, <3>1, <3>3
    <3>4. QED  BY <3>2, <3>3
  <2>6. QED  BY <2>4, <2>5
<1>8. StoreShapes'
  <2>1. map \in [Walks -> Entries \cup {0}]  BY <1>1, <1>4, SMTT(30)
  <2>2. byWalk' \in [Walks -> Entries \cup {0}]  BY <1>2, <2>1, EvictType
  <2>3. serving' \in [Requests -> Serving]  BY <1>1, <1>5, <1>6
  <2>4. handedOut' \in Nat  BY <1>1
  <2>5. QED  BY <1>1, <1>7, <2>2, <2>3, <2>4 DEF StoreInv, StoreShapes
<1>9. OneAtATime'  BY <1>1, <1>5, <1>6, SameHolder DEF Holding
<1>10. LogsFollowFingerprints'
  BY <1>1, <1>7 DEF StoreInv, LogsFollowFingerprints
<1>11. KnowsNow' /\ ReadInOrder' /\ (NeverReturns => AnswersAreCurrent')
  <2>1. Knows(r)' /\ Reads(r)' /\ Answers(r)'
    BY <1>1, <1>4, <1>5 DEF Knows, Reads, Answers, StoreInv, KnowsNow
  <2>2. QED  BY <1>1, <1>5, <1>6, <1>7, <2>1, OneTurn
<1>12. QED  BY <1>3, <1>8, <1>9, <1>10, <1>11 DEF StoreInv

\* A request takes the mutex of its entry, which nobody held.
LEMMA LockKeeps ==
    ASSUME StoreInv, NEW q \in Requests, Lock(q)
    PROVE  StoreInv'
<1> USE HistoryAssumption
<1> DEFINE e == serving[q].entry
<1>1. /\ now \in State /\ serving \in [Requests -> Serving]
      /\ owner \in [Entries -> Requests \cup {Absent}]
      /\ serving[q].at = "entry" /\ owner[e] = Absent
      /\ owner' = [owner EXCEPT ![e] = q]
      /\ serving' = [serving EXCEPT ![q].at = "refs"]
      /\ UNCHANGED <<now, moves, open, closing, byWalk, entries, handedOut, asks>>
  BY DEF Lock, StoreInv, StoreShapes, repository, known, store
<1>2. e \in Entries  BY <1>1 DEF StoreInv, OneAtATime
<1>3. PICK r \in Serving :
        /\ r = [serving[q] EXCEPT !.at = "refs"] /\ r.at = "refs"
        /\ r.entry = e /\ r.walk = serving[q].walk /\ r.seen = serving[q].seen
  <2> DEFINE t == [serving[q] EXCEPT !.at = "refs"]
  <2>1. serving[q] \in Serving  BY <1>1
  <2>2. t \in Serving  BY <2>1 DEF Serving, Past, Holding
  <2>3. /\ t.at = "refs" /\ t.entry = e
        /\ t.walk = serving[q].walk /\ t.seen = serving[q].seen
    BY <2>1 DEF Serving
  <2>4. QED  BY <2>2, <2>3
<1>4. serving' = [serving EXCEPT ![q] = r]  BY <1>1, <1>3
<1>5. StoreShapes'
  <2>1. serving' \in [Requests -> Serving]  BY <1>1, <1>3, <1>4
  <2>2. owner' \in [Entries -> Requests \cup {Absent}]  BY <1>1
  <2>3. QED  BY <1>1, <2>1, <2>2 DEF StoreInv, StoreShapes
<1>6. RoomForAll'  BY <1>1, <1>3, <1>4, SameRoom
<1>7. OneAtATime'
  <2> SUFFICES ASSUME NEW p \in Requests
               PROVE  (/\ serving[p].at \in {"entry"} \cup Holding => serving[p].entry \in Entries
                       /\ \A f \in Entries : owner[f] = p <=>
                             serving[p].entry = f /\ serving[p].at \in Holding)'
    BY DEF OneAtATime
  <2>1. p # Absent  OBVIOUS
  <2>2. \A f \in Entries : owner[f] = p <=> serving[p].entry = f /\ serving[p].at \in Holding
    BY DEF StoreInv, OneAtATime
  <2>3. CASE p = q
    <3>1. serving'[q] = r  BY <1>1, <1>4
    <3>2. \A f \in Entries : owner[f] # q  BY <1>1, <2>2, <2>3 DEF Holding
    <3>3. \A f \in Entries : owner'[f] = q <=> f = e  BY <1>1, <1>2, <3>2
    <3>4. QED  BY <1>2, <1>3, <2>3, <3>1, <3>3 DEF Holding
  <2>4. CASE p # q
    <3>1. serving'[p] = serving[p]  BY <1>1, <2>4
    <3>2. \A f \in Entries : owner'[f] = p <=> owner[f] = p  BY <1>1, <1>2, <2>1, <2>4
    <3>3. QED  BY <2>2, <3>1, <3>2 DEF StoreInv, OneAtATime
  <2>5. QED  BY <2>3, <2>4
<1>8. LogsFollowFingerprints'  BY <1>1, SameEntries
<1>9. KnowsNow' /\ ReadInOrder' /\ (NeverReturns => AnswersAreCurrent')
  <2>1. Knows(r)' /\ Reads(r)' /\ Answers(r)'
    BY <1>1, <1>3 DEF Knows, Reads, Answers, StoreInv, KnowsNow
  <2>2. QED  BY <1>1, <1>3, <1>4, <2>1, OneTurn
<1>10. QED  BY <1>5, <1>6, <1>7, <1>8, <1>9 DEF StoreInv

\* The references are read; what the entry keeps is not newer than they are.
LEMMA ReadRefsKeeps ==
    ASSUME StoreInv, NEW q \in Requests, ReadRefs(q)
    PROVE  StoreInv'
<1> USE HistoryAssumption
<1>1. /\ now \in State /\ serving \in [Requests -> Serving] /\ serving[q].at = "refs"
      /\ serving' = [serving EXCEPT ![q].at = "head", ![q].refs = now.refs]
      /\ UNCHANGED <<now, moves, open, closing, byWalk, entries, handedOut, owner, asks>>
  BY DEF ReadRefs, StoreInv, StoreShapes, repository, known, store
<1>2. serving[q].entry \in Entries /\ serving[q].walk \in Walks /\ now \in serving[q].seen
  BY <1>1 DEF StoreInv, OneAtATime, KnowsNow, Holding
<1>3. PICK r \in Serving :
        /\ r = [serving[q] EXCEPT !.at = "head", !.refs = now.refs]
        /\ r.at = "head" /\ r.refs = now.refs
        /\ r.entry = serving[q].entry /\ r.walk = serving[q].walk /\ r.seen = serving[q].seen
  <2> DEFINE t == [serving[q] EXCEPT !.at = "head", !.refs = now.refs]
  <2>1. serving[q] \in Serving /\ now.refs \in Nat  BY <1>1 DEF State
  <2>2. t \in Serving  BY <2>1 DEF Serving, Past, Holding
  <2>3. /\ t.at = "head" /\ t.refs = now.refs /\ t.entry = serving[q].entry
        /\ t.walk = serving[q].walk /\ t.seen = serving[q].seen
    BY <2>1 DEF Serving
  <2>4. QED  BY <2>2, <2>3
<1>4. serving' = [serving EXCEPT ![q] = r]  BY <1>1, <1>3
<1>5. StoreShapes'
  <2>1. serving' \in [Requests -> Serving]  BY <1>1, <1>3, <1>4
  <2>2. QED  BY <1>1, <2>1 DEF StoreInv, StoreShapes
<1>6. RoomForAll'  BY <1>1, <1>3, <1>4, SameRoom
<1>7. OneAtATime'  BY <1>1, <1>2, <1>3, <1>4, SameHolder DEF Holding
<1>8. LogsFollowFingerprints'  BY <1>1, SameEntries
<1>9. KnowsNow' /\ ReadInOrder' /\ (NeverReturns => AnswersAreCurrent')
  <2>1. Knows(r)' /\ Answers(r)'  BY <1>1, <1>2, <1>3 DEF Knows, Answers
  <2>2. entries[r.entry].log # Absent => NotAfter(entries[r.entry].log, now)
    BY <1>2, <1>3 DEF StoreInv, LogsFollowFingerprints
  <2>3. NotAfter(now, now)  BY <1>1 DEF NotAfter, State
  <2>4. Reads(r)'  BY <1>1, <1>2, <1>3, <2>2, <2>3 DEF Reads
  <2>5. QED  BY <1>1, <1>3, <1>4, <2>1, <2>4, OneTurn
<1>10. QED  BY <1>5, <1>6, <1>7, <1>8, <1>9 DEF StoreInv

\* HEAD is read.  What is kept under the fingerprint just read was read between
\* the reference half of it and now, and none of the two moved meanwhile.
LEMMA ReadHeadKeeps ==
    ASSUME StoreInv, NEW q \in Requests, ReadHEAD(q)
    PROVE  StoreInv'
<1> USE HistoryAssumption
<1> DEFINE entry == entries[serving[q].entry]
           fp == Fingerprint(q, now.head)
<1>1. /\ now \in State /\ serving \in [Requests -> Serving] /\ serving[q].at = "head"
      /\ serving' = IF Fresh(q, entry, fp) THEN Answered(q, entry.log)
                    ELSE [serving EXCEPT ![q].at = "log", ![q].head = now.head]
      /\ UNCHANGED <<now, moves, open, closing, byWalk, entries, handedOut, owner, asks>>
  BY DEF ReadHEAD, StoreInv, StoreShapes, repository, known, store
<1>2. /\ serving[q].entry \in Entries /\ serving[q].walk \in Walks /\ now \in serving[q].seen
      /\ serving[q] \in Serving /\ entry \in Kept /\ serving[q].seen \subseteq State
  BY <1>1 DEF StoreInv, OneAtATime, KnowsNow, Holding, StoreShapes, Serving
<1>3. PICK s \in serving[q].seen : RefsAreOf(q, s)  BY <1>1 DEF StoreInv, ReadInOrder
<1>4. s \in State /\ s.refs = serving[q].refs /\ NotAfter(s, now)
  BY <1>2, <1>3 DEF RefsAreOf
<1>5. PICK r \in Serving :
        /\ serving' = [serving EXCEPT ![q] = r]
        /\ r.at \in {"answer", "log"}
        /\ r.entry = serving[q].entry /\ r.walk = serving[q].walk /\ r.seen = serving[q].seen
        /\ r.at = "answer" => r.answer = entry.log /\ Fresh(q, entry, fp)
        /\ r.at = "log" => r.refs = serving[q].refs /\ r.head = now.head
  <2>1. CASE Fresh(q, entry, fp)
    <3> DEFINE t == [serving[q] EXCEPT !.at = "answer", !.answer = entry.log]
    <3>1. entry.log \in State  BY <1>2, <2>1 DEF Fresh, Kept
    <3>2. t \in Serving  BY <1>2, <3>1 DEF Serving, Past, Holding
    <3>3. /\ t.at = "answer" /\ t.answer = entry.log /\ t.entry = serving[q].entry
          /\ t.walk = serving[q].walk /\ t.seen = serving[q].seen
      BY <1>2 DEF Serving
    <3>4. serving' = [serving EXCEPT ![q] = t]  BY <1>1, <2>1 DEF Answered
    <3>5. QED  BY <2>1, <3>2, <3>3, <3>4
  <2>2. CASE ~Fresh(q, entry, fp)
    <3> DEFINE t == [serving[q] EXCEPT !.at = "log", !.head = now.head]
    <3>1. now.head \in Nat  BY <1>1 DEF State
    <3>2. t \in Serving  BY <1>2, <3>1 DEF Serving, Past, Holding
    <3>3. /\ t.at = "log" /\ t.refs = serving[q].refs /\ t.head = now.head
          /\ t.entry = serving[q].entry /\ t.walk = serving[q].walk /\ t.seen = serving[q].seen
      BY <1>2 DEF Serving
    <3>4. serving' = [serving EXCEPT ![q] = t]  BY <1>1, <2>2
    <3>5. QED  BY <3>2, <3>3, <3>4
  <2>3. QED  BY <2>1, <2>2
<1>6. StoreShapes'
  <2>1. serving' \in [Requests -> Serving]  BY <1>1, <1>5
  <2>2. QED  BY <1>1, <2>1 DEF StoreInv, StoreShapes
<1>7. RoomForAll'  BY <1>1, <1>5, SameRoom
<1>8. OneAtATime'  BY <1>1, <1>2, <1>5, SameHolder DEF Holding
<1>9. LogsFollowFingerprints'  BY <1>1, SameEntries
<1>10. Answers(r)'
  <2> SUFFICES ASSUME NeverReturns, r.at = "answer"
               PROVE  s.refs = r.answer.refs /\ s.head = r.answer.head
    BY <1>3, <1>5 DEF Answers
  <2>1. /\ entry.log \in State /\ r.answer = entry.log
        /\ entry.fingerprint = fp
    BY <1>2, <1>5 DEF Fresh, Kept
  <2>2. NotAfter(fp, entry.log)
    BY <1>2, <1>5, <2>1 DEF Fresh, StoreInv, LogsFollowFingerprints
  <2>3. NotAfter(entry.log, s)  BY <1>3, <1>5 DEF Fresh, RefsAreOf
  <2>4. fp.refs = s.refs /\ fp.head = now.head  BY <1>4 DEF Fingerprint
  <2>5. /\ s.refs <= entry.log.refs /\ entry.log.refs <= s.refs
        /\ now.head <= entry.log.head /\ entry.log.head <= s.head /\ s.head <= now.head
    BY <1>4, <2>2, <2>3, <2>4 DEF NotAfter
  <2>6. /\ s.refs \in Nat /\ s.head \in Nat /\ now.head \in Nat
        /\ entry.log.refs \in Nat /\ entry.log.head \in Nat
    BY <1>1, <1>4, <2>1 DEF State
  <2>7. s.refs = entry.log.refs /\ s.head = entry.log.head
    BY <1>4, <2>5, <2>6
  <2>8. QED  BY <2>1, <2>7
<1>11. Reads(r)'
  <2> SUFFICES ASSUME r.at = "log"
               PROVE  /\ NotAfter([refs |-> r.refs, head |-> r.head], now)
                      /\ [refs |-> r.refs, head |-> r.head] \in Fingerprints
    BY <1>1, <1>5 DEF Reads
  <2>1. r.refs = s.refs /\ r.head = now.head  BY <1>4, <1>5
  <2>3. QED  BY <1>1, <1>4, <2>1 DEF NotAfter, Fingerprints, State
<1>12. KnowsNow' /\ ReadInOrder' /\ (NeverReturns => AnswersAreCurrent')
  <2>1. Knows(r)'  BY <1>1, <1>2, <1>5 DEF Knows
  <2>2. QED  BY <1>1, <1>5, <1>10, <1>11, <2>1, OneTurn
<1>13. QED  BY <1>6, <1>7, <1>8, <1>9, <1>12 DEF StoreInv

\* git log is read after the fingerprint it is kept under.
LEMMA LogKeeps ==
    ASSUME StoreInv, NEW q \in Requests, Log(q)
    PROVE  StoreInv'
<1> USE HistoryAssumption
<1> DEFINE e == serving[q].entry
           fp == Fingerprint(q, serving[q].head)
<1>1. /\ now \in State /\ serving \in [Requests -> Serving] /\ serving[q].at = "log"
      /\ entries \in [Entries -> Kept]
      /\ entries' = [entries EXCEPT ![e].log = now, ![e].fingerprint = fp]
      /\ serving' = Answered(q, now)
      /\ UNCHANGED <<now, moves, open, closing, byWalk, handedOut, owner, asks>>
  BY DEF Log, StoreInv, StoreShapes, repository, known
<1>2. /\ e \in Entries /\ serving[q].walk \in Walks /\ now \in serving[q].seen
      /\ serving[q] \in Serving /\ owner[e] = q
      /\ fp \in Fingerprints /\ NotAfter(fp, now)
  BY <1>1 DEF StoreInv, OneAtATime, KnowsNow, ReadInOrder, Holding
<1>3. PICK r \in Serving :
        /\ serving' = [serving EXCEPT ![q] = r] /\ r.at = "answer" /\ r.answer = now
        /\ r.entry = e /\ r.walk = serving[q].walk /\ r.seen = serving[q].seen
  <2> DEFINE t == [serving[q] EXCEPT !.at = "answer", !.answer = now]
  <2>1. t \in Serving  BY <1>1, <1>2 DEF Serving, Past, Holding
  <2>2. /\ t.at = "answer" /\ t.answer = now /\ t.entry = e
        /\ t.walk = serving[q].walk /\ t.seen = serving[q].seen
    BY <1>2 DEF Serving
  <2>3. serving' = [serving EXCEPT ![q] = t]  BY <1>1 DEF Answered
  <2>4. QED  BY <2>1, <2>2, <2>3
<1>4. /\ entries' \in [Entries -> Kept]
      /\ entries'[e].log = now /\ entries'[e].fingerprint = fp
      /\ entries'[e].used = entries[e].used
      /\ \A f \in Entries \ {e} : entries'[f] = entries[f]
  <2>1. entries[e] \in Kept  BY <1>1, <1>2
  <2>2. [entries[e] EXCEPT !.log = now, !.fingerprint = fp] \in Kept
    BY <1>1, <1>2, <2>1 DEF Kept
  <2>3. entries' = [entries EXCEPT ![e] = [entries[e] EXCEPT !.log = now, !.fingerprint = fp]]
    BY <1>1, <1>2
  <2>4. QED  BY <1>1, <1>2, <2>1, <2>2, <2>3 DEF Kept
<1>5. StoreShapes'
  <2>1. serving' \in [Requests -> Serving]  BY <1>1, <1>3
  <2>2. \A f \in Entries : entries'[f].used <= handedOut  BY <1>4 DEF StoreInv, StoreShapes
  <2>3. QED  BY <1>1, <1>4, <2>1, <2>2 DEF StoreInv, StoreShapes
<1>6. RoomForAll'  BY <1>1, <1>3, SameRoom
<1>7. OneAtATime'  BY <1>1, <1>2, <1>3, SameHolder DEF Holding
<1>8. LogsFollowFingerprints'
  <2> SUFFICES ASSUME NEW f \in Entries, entries'[f].log # Absent
               PROVE  /\ NotAfter(entries'[f].log, now)
                      /\ entries'[f].fingerprint \in Fingerprints
                      /\ NotAfter(entries'[f].fingerprint, entries'[f].log)
    BY <1>1 DEF LogsFollowFingerprints
  <2>1. CASE f = e
    <3>1. NotAfter(now, now)  BY <1>1 DEF NotAfter, State
    <3>2. QED  BY <1>2, <1>4, <2>1, <3>1
  <2>2. CASE f # e  BY <1>4, <2>2 DEF StoreInv, LogsFollowFingerprints
  <2>3. QED  BY <2>1, <2>2
<1>9. KnowsNow' /\ ReadInOrder' /\ (NeverReturns => AnswersAreCurrent')
  <2>1. Knows(r)' /\ Reads(r)' /\ Answers(r)'
    BY <1>1, <1>2, <1>3 DEF Knows, Reads, Answers
  <2>2. \A f \in Entries : owner[f] # q => entries'[f].log = entries[f].log
    BY <1>2, <1>4
  <2>3. QED  BY <1>1, <1>3, <2>1, <2>2, OneTurn
<1>10. QED  BY <1>5, <1>6, <1>7, <1>8, <1>9 DEF StoreInv

\* A request ends and gives its mutex back, whether it failed or answered.
LEMMA EndKeeps ==
    ASSUME StoreInv, NEW q \in Requests, Fail(q) \/ Answer(q)
    PROVE  StoreInv'
<1> USE HistoryAssumption
<1> DEFINE e == serving[q].entry
<1>1. /\ now \in State /\ serving \in [Requests -> Serving] /\ serving[q].at \in Holding
      /\ owner \in [Entries -> Requests \cup {Absent}]
      /\ owner' = [owner EXCEPT ![e] = Absent]
      /\ serving' = [serving EXCEPT ![q] = IdleRequest]
      /\ UNCHANGED <<now, moves, open, closing, byWalk, entries, handedOut, asks>>
  BY DEF Fail, Answer, Holding, StoreInv, StoreShapes, repository, known, store
<1>2. e \in Entries /\ owner[e] = q  BY <1>1 DEF StoreInv, OneAtATime
<1>3. PICK r \in Serving : r = IdleRequest /\ r.at = "idle"
  <2>1. IdleRequest \in Serving /\ IdleRequest.at = "idle"  BY DEF IdleRequest, Serving
  <2>2. QED  BY <2>1
<1>4. serving' = [serving EXCEPT ![q] = r]  BY <1>1, <1>3
<1>5. StoreShapes'
  <2>1. serving' \in [Requests -> Serving]  BY <1>1, <1>3, <1>4
  <2>2. owner' \in [Entries -> Requests \cup {Absent}]  BY <1>1
  <2>3. QED  BY <1>1, <2>1, <2>2 DEF StoreInv, StoreShapes
<1>6. RoomForAll'  BY <1>1, <1>3, <1>4, SameRoom DEF Holding
<1>7. OneAtATime'
  <2> SUFFICES ASSUME NEW p \in Requests
               PROVE  (/\ serving[p].at \in {"entry"} \cup Holding => serving[p].entry \in Entries
                       /\ \A f \in Entries : owner[f] = p <=>
                             serving[p].entry = f /\ serving[p].at \in Holding)'
    BY DEF OneAtATime
  <2>1. p # Absent  OBVIOUS
  <2>2. \A f \in Entries : owner[f] = p <=> serving[p].entry = f /\ serving[p].at \in Holding
    BY DEF StoreInv, OneAtATime
  <2>3. CASE p = q
    <3>1. serving'[q] = r  BY <1>1, <1>4
    <3>2. \A f \in Entries : owner[f] = q => f = e  BY <2>2, <2>3
    <3>3. \A f \in Entries : owner'[f] # q  BY <1>1, <1>2, <2>1, <2>3, <3>2
    <3>4. QED  BY <1>3, <2>3, <3>1, <3>3 DEF Holding
  <2>4. CASE p # q
    <3>1. serving'[p] = serving[p]  BY <1>1, <2>4
    <3>2. \A f \in Entries : owner'[f] = p <=> owner[f] = p  BY <1>1, <1>2, <2>1, <2>4
    <3>3. QED  BY <2>2, <3>1, <3>2 DEF StoreInv, OneAtATime
  <2>5. QED  BY <2>3, <2>4
<1>8. LogsFollowFingerprints'  BY <1>1, SameEntries
<1>9. KnowsNow' /\ ReadInOrder' /\ (NeverReturns => AnswersAreCurrent')
  <2>1. Knows(r)' /\ Reads(r)' /\ Answers(r)'  BY <1>3 DEF Knows, Reads, Answers
  <2>2. QED  BY <1>1, <1>3, <1>4, <2>1, OneTurn
<1>10. QED  BY <1>5, <1>6, <1>7, <1>8, <1>9 DEF StoreInv

\* Opening and closing the repository leave the requests and what they hold alone.
LEMMA RegistryKeeps ==
    ASSUME StoreInv, OpenRepo \/ CloseRepo \/ ForgetWalks
    PROVE  StoreInv'
<1>1. UNCHANGED <<now, moves, entries, handedOut, owner, serving, asks>>
  BY DEF OpenRepo, CloseRepo, ForgetWalks, repository, store
<1>2. /\ open' \in BOOLEAN /\ closing' \in BOOLEAN
      /\ byWalk' \in [Walks -> Entries \cup {0}]
  BY DEF OpenRepo, CloseRepo, ForgetWalks, store, StoreInv, StoreShapes
<1>3. StoreShapes'  BY <1>1, <1>2 DEF StoreInv, StoreShapes
<1>4. RoomForAll'
  <2>1. Finding' = Finding  BY <1>1 DEF Finding
  <2>2. QED  BY <1>1, <2>1 DEF StoreInv, RoomForAll
<1>5. OneAtATime' /\ LogsFollowFingerprints'
  BY <1>1 DEF StoreInv, OneAtATime, LogsFollowFingerprints
<1>6. KnowsNow' /\ ReadInOrder' /\ (NeverReturns => AnswersAreCurrent')
  BY <1>1 DEF StoreInv, KnowsNow, ReadInOrder, RefsAreOf, Fingerprint, AnswersAreCurrent
<1>7. QED  BY <1>3, <1>4, <1>5, <1>6 DEF StoreInv

-----------------------------------------------------------------------------
\* Every step keeps the invariant.
LEMMA NextStoreInv == StoreInv /\ [StoreNext]_storeVars => StoreInv'
<1> SUFFICES ASSUME StoreInv, [StoreNext]_storeVars PROVE StoreInv'  OBVIOUS
<1>1. CASE MoveRefs \/ MoveHead \/ Deepen  BY <1>1, MoveKeeps
<1>2. CASE OpenRepo \/ CloseRepo \/ ForgetWalks  BY <1>2, RegistryKeeps
<1>3. ASSUME NEW q \in Requests, Ask(q) \/ Step(q) \/ Fail(q) PROVE StoreInv'
  BY <1>3, LookUpKeeps, TakeEntryKeeps, LockKeeps, ReadRefsKeeps, ReadHeadKeeps, LogKeeps,
     EndKeeps DEF Step
<1>4. CASE UNCHANGED storeVars
  <2>1. UNCHANGED <<now, moves, open, closing, byWalk, entries, handedOut, owner, serving, asks>>
    BY <1>4 DEF storeVars, repository, known, store
  <2>2. Finding' = Finding  BY <2>1 DEF Finding
  <2>3. StoreShapes' /\ RoomForAll'  BY <2>1, <2>2 DEF StoreInv, StoreShapes, RoomForAll
  <2>4. OneAtATime' /\ LogsFollowFingerprints'
    BY <2>1 DEF StoreInv, OneAtATime, LogsFollowFingerprints
  <2>5. KnowsNow' /\ ReadInOrder' /\ (NeverReturns => AnswersAreCurrent')
    BY <2>1 DEF StoreInv, KnowsNow, ReadInOrder, RefsAreOf, Fingerprint, AnswersAreCurrent
  <2>6. QED  BY <2>3, <2>4, <2>5 DEF StoreInv
<1>5. QED  BY <1>1, <1>2, <1>3, <1>4 DEF StoreNext

\* A window of the history shows the references and HEAD of one moment of its
\* request, however requests share entries, lose them or fail.
THEOREM CurrentAnswers == NeverReturns => (StoreSpec => []AnswersAreCurrent)
<1> SUFFICES ASSUME NeverReturns PROVE StoreSpec => []AnswersAreCurrent  OBVIOUS
<1>1. StoreInv => AnswersAreCurrent  BY DEF StoreInv
<1>2. QED  BY <1>1, InitStoreInv, NextStoreInv, PTL DEF StoreSpec

\* What is invariant has the types of the state.
LEMMA StoreInvTypes == StoreInv => StoreTypeOK
<1> SUFFICES ASSUME StoreInv PROVE StoreTypeOK  OBVIOUS
<1>1. \A e \in Entries :
        /\ entries[e].log \in State \cup {Absent}
        /\ entries[e].used \in 0..handedOut
        /\ \A q \in Requests : owner[e] = q <=>
              serving[q].entry = e /\ serving[q].at \in {"refs", "head", "log", "answer"}
  <2> TAKE e \in Entries
  <2>1. entries[e] \in Kept /\ entries[e].used <= handedOut /\ handedOut \in Nat
    BY DEF StoreInv, StoreShapes
  <2>2. QED  BY <2>1 DEF StoreInv, OneAtATime, Holding, Kept
<1>2. handedOut \in 0..MaxAsks
  <2>1. handedOut \in Nat /\ asks \in 0..MaxAsks  BY DEF StoreInv, StoreShapes
  <2>2. Cardinality(Finding) \in Nat  BY FS_CardinalityType DEF StoreInv, RoomForAll
  <2>3. MaxAsks \in Nat  BY HistoryAssumption
  <2>4. QED  BY <2>1, <2>2, <2>3 DEF StoreInv, RoomForAll
<1>3. \A q \in Requests : serving[q].at \in
        {"idle", "found", "entry", "refs", "head", "log", "answer"}
  BY DEF StoreInv, StoreShapes, Serving, Past, Holding
<1>4. QED  BY <1>1, <1>2, <1>3 DEF StoreInv, StoreShapes, StoreTypeOK

\* The types of the state; among them that the mutex of an entry is held by
\* exactly the request that is in its refresh.
THEOREM StoreTypes == StoreSpec => []StoreTypeOK
<1>1. QED  BY StoreInvTypes, InitStoreInv, NextStoreInv, PTL DEF StoreSpec
-----------------------------------------------------------------------------
(* The ceiling.  No two walks were last asked for at the same count, and an *)
(* entry remembers when its walk was; so ranks among what is held are       *)
(* distinct, and fewer than ChosenHistories of them are allowed to stay.    *)
Held == {w \in Picked : byWalk[w] # 0}

Ages ==
    /\ lastUse \in [Walks -> Nat]
    /\ \A w \in Walks :
          /\ lastUse[w] <= handedOut
          /\ byWalk[w] # 0 => byWalk[w] <= handedOut /\ entries[byWalk[w]].used = lastUse[w]
    /\ \A v, w \in Walks : v # w /\ byWalk[v] # 0 /\ byWalk[w] # 0 =>
          byWalk[v] # byWalk[w] /\ lastUse[v] # lastUse[w]

CInv == IsFiniteSet(Held) /\ Ages /\ CeilingHolds /\ KeepsTheMostRecent

\* A store nobody asked is within its ceiling.
LEMMA InitCInv == StoreInit => CInv
<1> SUFFICES ASSUME StoreInit PROVE CInv  OBVIOUS
<1> USE HistoryAssumption
<1>1. Held = {}  BY DEF StoreInit, Held, Walks
<1>2. IsFiniteSet(Held) /\ CeilingHolds  BY <1>1, FS_EmptySet DEF CeilingHolds, Held
<1>3. Ages  BY DEF StoreInit, Ages
<1>4. KeepsTheMostRecent  BY DEF StoreInit, KeepsTheMostRecent, Walks
<1>5. QED  BY <1>2, <1>3, <1>4 DEF CInv

\* The members of S that are younger than s.
Younger(S, age, s) == {t \in S : age[t] > age[s]}

\* What is ranked by an age of its own, and kept while fewer than a ceiling are
\* newer, is no more than the ceiling.
LEMMA RanksAreDistinct ==
    ASSUME NEW S, IsFiniteSet(S), NEW age, \A s \in S : age[s] \in Nat,
           \A s, t \in S : s # t => age[s] # age[t], NEW C \in Nat,
           NEW K, K \subseteq S, \A s \in K : Cardinality(Younger(S, age, s)) < C
    PROVE  IsFiniteSet(K) /\ Cardinality(K) <= C
<1> DEFINE Newer(s) == Younger(S, age, s)
<1>1. \A s \in S : IsFiniteSet(Newer(s)) /\ Cardinality(Newer(s)) \in Nat
  BY FS_Subset, FS_CardinalityType DEF Younger
<1>2. ASSUME NEW s \in S, NEW t \in S, age[t] > age[s]
      PROVE  Cardinality(Newer(t)) < Cardinality(Newer(s))
  <2>1. Newer(t) \subseteq Newer(s) /\ t \in Newer(s) /\ t \notin Newer(t)
    BY <1>2 DEF Younger
  <2>2. Newer(t) # Newer(s)  BY <2>1
  <2> HIDE DEF Newer
  <2>3. Cardinality(Newer(t)) <= Cardinality(Newer(s))
        /\ Cardinality(Newer(t)) # Cardinality(Newer(s))
    BY <1>1, <2>1, <2>2, FS_Subset
  <2>4. QED  BY <1>1, <2>3
<1>3. IsFiniteSet(K) /\ Cardinality(K) \in Nat  BY FS_Subset, FS_CardinalityType
<1>4. ASSUME Cardinality(K) > C PROVE FALSE
  <2> DEFINE rank == [s \in K |-> Cardinality(Newer(s))]
  <2>1. rank \in [K -> 0..(C - 1)]  BY <1>1
  <2>2. IsFiniteSet(0..(C - 1)) /\ Cardinality(0..(C - 1)) = C  BY FS_Interval
  <2>3. PICK s, t \in K : s # t /\ rank[s] = rank[t]
    <3> HIDE DEF rank
    <3>1. Cardinality(0..(C - 1)) < Cardinality(K)  BY <1>3, <1>4, <2>2
    <3>2. QED  BY <1>3, <2>1, <2>2, <3>1, FS_PigeonHole
  <2>4. s \in S /\ t \in S /\ age[s] \in Nat /\ age[t] \in Nat /\ age[s] # age[t]  BY <2>3
  <2>5. age[s] > age[t] \/ age[t] > age[s]  BY <2>4
  <2>6. rank[s] = Cardinality(Newer(s)) /\ rank[t] = Cardinality(Newer(t))  BY <2>3
  <2>7. Cardinality(Newer(s)) = Cardinality(Newer(t))  BY <2>3, <2>6
  <2>8. Cardinality(Newer(s)) \in Nat /\ Cardinality(Newer(t)) \in Nat  BY <1>1, <2>4
  <2>9. \/ Cardinality(Newer(s)) < Cardinality(Newer(t))
        \/ Cardinality(Newer(t)) < Cardinality(Newer(s))
    BY <1>2, <2>4, <2>5
  <2> HIDE DEF Newer
  <2>10. QED  BY <2>7, <2>8, <2>9
<1>5. QED  BY <1>3, <1>4

\* The walk asked for is the youngest; what it pushes out was the oldest held.
LEMMA TakeEntryCeiling ==
    ASSUME StoreInv, CInv, NEW q \in Requests, TakeEntry(q)
    PROVE  CInv'
<1> USE HistoryAssumption
<1> DEFINE w == serving[q].walk
           n == IF byWalk[w] = 0 THEN handedOut + 1 ELSE byWalk[w]
           map == [byWalk EXCEPT ![w] = n]
           stays(v) == ~ Cardinality({u \in {x \in Picked : map[x] # 0} :
                                         lastUse'[u] > lastUse'[v]}) >= ChosenHistories
           kept == {v \in {x \in Picked : map[x] # 0} : stays(v)}
<1>1. /\ handedOut \in Nat /\ handedOut' = handedOut + 1
      /\ entries \in [Entries -> Kept] /\ byWalk \in [Walks -> Entries \cup {0}]
      /\ lastUse \in [Walks -> Nat] /\ lastUse' = [lastUse EXCEPT ![w] = handedOut + 1]
      /\ entries' = [entries EXCEPT ![n].used = handedOut + 1]
      /\ byWalk' = IF w \in Picked THEN Evict(map, entries') ELSE map
  BY SMTT(30) DEF TakeEntry, Used, StoreInv, StoreShapes, CInv, Ages
<1>2. w \in Walks /\ n \in Entries
  <2>1. handedOut + 1 \in Entries
    <3>1. q \in Finding /\ IsFiniteSet(Finding)
      BY DEF Finding, StoreInv, RoomForAll, TakeEntry
    <3>2. Cardinality(Finding) \in Nat /\ Cardinality(Finding \ {q}) \in Nat
          /\ Cardinality(Finding \ {q}) = Cardinality(Finding) - 1
      BY <3>1, FS_CardinalityType, FS_RemoveElement, SMTT(30)
    <3>3. handedOut + 1 <= asks /\ asks \in 0..MaxAsks /\ MaxAsks \in Nat
      BY <1>1, <3>2, SMTT(30) DEF StoreInv, RoomForAll, StoreShapes
    <3>4. handedOut \in Nat  BY <1>1
    <3>5. QED  BY <3>3, <3>4 DEF Entries
  <2>2. w \in Walks  BY DEF StoreInv, KnowsNow, TakeEntry
  <2>3. QED  BY <1>1, <2>1, <2>2
<1>3. Entries \subseteq Nat \ {0}
  <2>1. MaxAsks \in Nat  OBVIOUS
  <2>2. QED  BY <2>1 DEF Entries
<1>4. /\ map \in [Walks -> Entries \cup {0}] /\ map[w] = n /\ n # 0 /\ n <= handedOut + 1
      /\ \A v \in Walks \ {w} : map[v] = byWalk[v]
      /\ lastUse' \in [Walks -> Nat] /\ lastUse'[w] = handedOut + 1
      /\ \A v \in Walks \ {w} : lastUse'[v] = lastUse[v] /\ lastUse[v] <= handedOut
  <2>1. map \in [Walks -> Entries \cup {0}] /\ map[w] = n  BY <1>1, <1>2, SMTT(30)
  <2>2. n # 0 /\ n <= handedOut + 1
    <3>1. n \in Nat /\ n # 0  BY <1>2, <1>3
    <3>2. byWalk[w] # 0 => byWalk[w] <= handedOut  BY <1>2 DEF CInv, Ages
    <3>3. QED  BY <1>1, <3>1, <3>2
  <2>3. handedOut + 1 \in Nat  BY <1>1
  <2>4. lastUse' \in [Walks -> Nat] /\ lastUse'[w] = handedOut + 1  BY <1>1, <1>2, <2>3, SMTT(30)
  <2>5. \A v \in Walks \ {w} : map[v] = byWalk[v] /\ lastUse'[v] = lastUse[v]  BY <1>1, <1>2
  <2>6. QED  BY <2>1, <2>2, <2>4, <2>5, SMTT(30) DEF CInv, Ages
<1>5. ASSUME NEW v \in Walks \ {w}, map[v] # 0 PROVE map[v] # n /\ map[v] <= handedOut
  <2>1. byWalk[v] # 0 /\ byWalk[v] <= handedOut  BY <1>4, <1>5, SMTT(30) DEF CInv, Ages
  <2>2. CASE byWalk[w] = 0
    <3>1. n = handedOut + 1  BY <2>2, SMTT(30)
    <3>2. byWalk[v] \in Nat  BY <1>1, <1>3
    <3>3. QED  BY <1>1, <1>4, <2>1, <3>1, <3>2
  <2>3. CASE byWalk[w] # 0  BY <1>2, <1>4, <2>1, <2>3 DEF CInv, Ages
  <2>4. QED  BY <2>2, <2>3
<1>6. \A v \in Walks : map[v] # 0 =>
        map[v] <= handedOut + 1 /\ entries'[map[v]].used = lastUse'[v]
  <2> SUFFICES ASSUME NEW v \in Walks, map[v] # 0
               PROVE  map[v] <= handedOut + 1 /\ entries'[map[v]].used = lastUse'[v]
    BY SMTT(30)
  <2>1. \A e \in Entries : entries[e] \in Kept  BY <1>1, SMTT(30)
  <2>2. CASE v = w
    <3>1. entries'[n].used = handedOut + 1  BY <1>1, <1>2, <2>1, SMTT(30) DEF Kept
    <3>2. QED  BY <1>1, <1>4, <2>2, <3>1, SMTT(30)
  <2>3. CASE v # w
    <3>1. map[v] # n /\ map[v] <= handedOut /\ map[v] = byWalk[v] /\ map[v] \in Entries
      BY <1>4, <1>5, <2>3, SMTT(30)
    <3>2. entries'[map[v]] = entries[map[v]]  BY <1>1, <1>2, <3>1
    <3>3. entries[map[v]].used = lastUse[v]  BY <3>1, <2>3 DEF CInv, Ages
    <3>4. QED  BY <1>1, <1>4, <2>3, <3>1, <3>2, <3>3 DEF Entries
  <2>4. QED  BY <2>2, <2>3
<1>7. \A u, v \in Walks : u # v /\ map[u] # 0 /\ map[v] # 0 =>
        map[u] # map[v] /\ lastUse'[u] # lastUse'[v]
  <2> SUFFICES ASSUME NEW u \in Walks, NEW v \in Walks, u # v, map[u] # 0, map[v] # 0
               PROVE  map[u] # map[v] /\ lastUse'[u] # lastUse'[v]
    BY SMTT(30)
  <2>1. \A x \in Walks \ {w} : map[x] # 0 => map[x] # map[w] /\ lastUse'[x] # lastUse'[w]
    <3> SUFFICES ASSUME NEW x \in Walks \ {w}, map[x] # 0 PROVE map[x] # map[w] /\ lastUse'[x] # lastUse'[w]
      OBVIOUS
    <3>1. map[w] = n /\ map[x] # n  BY <1>4, <1>5
    <3>2. lastUse'[w] = handedOut + 1 /\ lastUse'[x] = lastUse[x] /\ lastUse[x] <= handedOut  BY <1>4, SMTT(30)
    <3>3. handedOut \in Nat /\ lastUse[x] \in Nat  BY <1>1
    <3>4. QED  BY <3>1, <3>2, <3>3
  <2>2. u = w \/ v = w => map[u] # map[v] /\ lastUse'[u] # lastUse'[v]  BY <2>1, Zenon
  <2>3. CASE u # w /\ v # w  BY <1>4, <2>3 DEF CInv, Ages
  <2>4. QED  BY <2>2, <2>3
<1>8. IsFiniteSet({x \in Picked : map[x] # 0})
  <2>1. {x \in Picked : map[x] # 0} \subseteq Held \cup {w}  BY <1>4 DEF Held, Walks
  <2>2. IsFiniteSet(Held \cup {w})  BY FS_AddElement, SMTT(30) DEF CInv
  <2>3. QED  BY <2>1, <2>2, FS_Subset
<1>9. /\ lastUse' \in [Walks -> Nat]
      /\ \A v \in Walks :
            /\ lastUse'[v] <= handedOut'
            /\ map[v] # 0 => map[v] <= handedOut' /\ entries'[map[v]].used = lastUse'[v]
      /\ \A u, v \in Walks : u # v /\ map[u] # 0 /\ map[v] # 0 =>
            map[u] # map[v] /\ lastUse'[u] # lastUse'[v]
  <2>1. \A v \in Walks : lastUse'[v] <= handedOut + 1
    <3> TAKE v \in Walks
    <3>1. lastUse'[v] \in Nat  BY <1>4, SMTT(30)
    <3>2. CASE v = w  BY <1>1, <1>4, <3>2, SMTT(30)
    <3>3. CASE v # w  BY <1>1, <1>4, <3>1, <3>3, SMTT(30)
    <3>4. QED  BY <3>2, <3>3
  <2>2. handedOut' = handedOut + 1  BY <1>1
  <2>3. QED  BY <1>4, <1>6, <1>7, <2>1, <2>2
<1>10. CASE w \notin Picked
  <2>1. byWalk' = map  BY <1>1, <1>10
  <2>2. Held' = Held  BY <1>4, <1>10, <2>1 DEF Held, Walks
  <2>3. Ages'  BY <1>9, <2>1 DEF Ages
  <2>4. CeilingHolds'  BY <2>2 DEF CInv, CeilingHolds, Held
  <2>5. KeepsTheMostRecent'
    BY <1>4, <1>10, <2>1 DEF CInv, KeepsTheMostRecent, Walks
  <2>6. QED  BY <2>2, <2>3, <2>4, <2>5 DEF CInv
<1>11. CASE w \in Picked
  <2>1. byWalk' = [v \in Walks |-> IF v \in {x \in Picked : map[x] # 0} /\ ~ stays(v)
                                  THEN 0 ELSE map[v]]
    <3>1. \A u \in {x \in Picked : map[x] # 0} : entries'[map[u]].used = lastUse'[u]
      BY <1>6 DEF Walks
    <3>2. \A v \in {x \in Picked : map[x] # 0} :
            {u \in {x \in Picked : map[x] # 0} : entries'[map[u]].used > entries'[map[v]].used}
            = {u \in {x \in Picked : map[x] # 0} : lastUse'[u] > lastUse'[v]}
      BY <3>1
    <3>3. QED  BY <1>1, <1>11, <3>2 DEF Evict
  <2>2. Held' = kept  BY <2>1 DEF Held, Walks
  <2>3. IsFiniteSet(kept) /\ Cardinality(kept) <= ChosenHistories
    <3>1. \A v \in {x \in Picked : map[x] # 0} : lastUse'[v] \in Nat  BY <1>4 DEF Walks
    <3>2. \A u, v \in {x \in Picked : map[x] # 0} : u # v => lastUse'[u] # lastUse'[v]
      BY <1>7 DEF Walks
    <3>3. PICK S : S = {x \in Picked : map[x] # 0}  OBVIOUS
    <3>4. PICK age : age = lastUse'  OBVIOUS
    <3>5. PICK K : K = kept  OBVIOUS
    <3>6. IsFiniteSet(S) /\ ChosenHistories \in Nat  BY <1>8, <3>3, HistoryAssumption
    <3>7. K \subseteq S /\ \A s \in K : Cardinality(Younger(S, age, s)) < ChosenHistories
      <4>1. K \subseteq S /\ \A s \in K : ~ Cardinality(Younger(S, age, s)) >= ChosenHistories
        BY <3>3, <3>4, <3>5 DEF Younger
      <4>2. \A s \in S : Cardinality(Younger(S, age, s)) \in Nat
        BY <3>6, FS_Subset, FS_CardinalityType DEF Younger
      <4>3. QED  BY <3>6, <4>1, <4>2
    <3>8. /\ \A s \in S : age[s] \in Nat
          /\ \A s, u \in S : s # u => age[s] # age[u]
      BY <3>1, <3>2, <3>3, <3>4
    <3>9. IsFiniteSet(K) /\ Cardinality(K) <= ChosenHistories
      BY <3>6, <3>7, <3>8, RanksAreDistinct
    <3>10. QED  BY <3>5, <3>9
  <2>4. CeilingHolds' /\ IsFiniteSet(Held')  BY <2>2, <2>3 DEF CeilingHolds, Held
  <2>5. \A v \in Walks : byWalk'[v] # 0 => byWalk'[v] = map[v]  BY <2>1
  <2>6. Ages'  BY <1>9, <2>5 DEF Ages
  <2>7. KeepsTheMostRecent'
    <3> SUFFICES ASSUME NEW k \in Picked, NEW d \in Picked, byWalk'[k] # 0, byWalk'[d] = 0
                 PROVE  lastUse'[d] <= lastUse'[k]
      BY DEF KeepsTheMostRecent
    <3>1. k \in kept /\ map[k] # 0 /\ stays(k)  BY <2>2 DEF Held
    <3>2. lastUse'[k] \in Nat /\ lastUse'[d] \in Nat  BY <1>4 DEF Walks
    <3>3. CASE map[d] = 0
      <4>1. d # w /\ byWalk[d] = 0 /\ lastUse'[d] = lastUse[d] /\ lastUse[d] <= handedOut
        BY <1>4, <3>3, SMTT(30) DEF Walks
      <4>2. CASE k = w
        <5>1. lastUse'[k] = handedOut + 1 /\ lastUse'[d] <= handedOut  BY <1>4, <4>1, <4>2
        <5>2. QED  BY <1>1, <3>2, <5>1
      <4>3. CASE k # w
        <5>1. byWalk[k] # 0 /\ lastUse'[k] = lastUse[k]  BY <1>4, <3>1, <4>3 DEF Walks
        <5>2. QED  BY <4>1, <5>1 DEF CInv, KeepsTheMostRecent
      <4>4. QED  BY <4>2, <4>3
    <3>4. CASE map[d] # 0 /\ lastUse'[d] > lastUse'[k]
      <4> DEFINE S == {x \in Picked : map[x] # 0}
                 Newer(v) == {u \in S : lastUse'[u] > lastUse'[v]}
      <4>1. ~ stays(d)  BY <2>1, <3>4 DEF Walks
      <4>2. Newer(d) \subseteq Newer(k)
        <5> SUFFICES ASSUME NEW u \in S, lastUse'[u] > lastUse'[d]
                     PROVE  lastUse'[u] > lastUse'[k]
          OBVIOUS
        <5>1. lastUse'[u] \in Nat  BY <1>4 DEF Walks
        <5>2. QED  BY <3>2, <3>4, <5>1
      <4>3. IsFiniteSet(Newer(d)) /\ IsFiniteSet(Newer(k))  BY <1>8, FS_Subset
      <4>4. Cardinality(Newer(d)) \in Nat /\ Cardinality(Newer(k)) \in Nat
            /\ Cardinality(Newer(d)) <= Cardinality(Newer(k))
        BY <4>2, <4>3, FS_Subset, FS_CardinalityType
      <4>5. Cardinality(Newer(d)) >= ChosenHistories /\ ~ Cardinality(Newer(k)) >= ChosenHistories
        BY <3>1, <4>1
      <4> HIDE DEF Newer
      <4>6. QED  BY <4>4, <4>5
    <3>5. QED  BY <3>2, <3>3, <3>4
  <2>8. QED  BY <2>4, <2>6, <2>7, SMTT(30) DEF CInv
<1>12. QED  BY <1>10, <1>11, SMTT(30)

\* Every step keeps the ceiling: but for a request that takes its entry and the
\* closing of the repository, none touches what is held or its ages.
LEMMA NextCInv == StoreInv /\ CInv /\ [StoreNext]_storeVars => CInv'
<1> SUFFICES ASSUME StoreInv, CInv, [StoreNext]_storeVars PROVE CInv'  OBVIOUS
<1>1. ASSUME NEW q \in Requests, TakeEntry(q) PROVE CInv'  BY <1>1, TakeEntryCeiling
<1>2. CASE ForgetWalks
  <2>1. /\ byWalk' = [w \in Walks |-> 0] /\ lastUse' = [w \in Walks |-> 0]
        /\ handedOut' = handedOut /\ handedOut \in Nat
    BY <1>2 DEF ForgetWalks, StoreInv, StoreShapes
  <2>2. Held' = {}  BY <2>1 DEF Held, Walks
  <2>3. IsFiniteSet(Held') /\ CeilingHolds'
    BY <2>2, FS_EmptySet, HistoryAssumption DEF CeilingHolds, Held
  <2>4. Ages' /\ KeepsTheMostRecent'  BY <2>1 DEF Ages, KeepsTheMostRecent, Walks
  <2>5. QED  BY <2>3, <2>4 DEF CInv
<1>3. ASSUME UNCHANGED <<byWalk, lastUse, handedOut>>,
             \A e \in Entries : entries'[e].used = entries[e].used
      PROVE  CInv'
  <2>1. Held' = Held /\ CeilingHolds' /\ KeepsTheMostRecent'
    BY <1>3 DEF Held, CInv, CeilingHolds, KeepsTheMostRecent
  <2>2. \A w \in Walks : byWalk[w] # 0 => byWalk[w] \in Entries  BY DEF StoreInv, StoreShapes
  <2>3. Ages'  BY <1>3, <2>2 DEF CInv, Ages
  <2>4. QED  BY <2>1, <2>3 DEF CInv
<1>4. CASE \/ MoveRefs \/ MoveHead \/ Deepen \/ OpenRepo \/ CloseRepo
           \/ \E q \in Requests : Ask(q) \/ Lock(q) \/ ReadRefs(q) \/ ReadHEAD(q)
                                  \/ Answer(q) \/ Fail(q)
           \/ UNCHANGED storeVars
  <2>1. UNCHANGED <<byWalk, lastUse, handedOut, entries>>
    BY <1>4 DEF MoveRefs, MoveHead, Deepen, Move, OpenRepo, CloseRepo, Ask, Lock, ReadRefs,
                ReadHEAD, Answer, Fail, store, storeVars
  <2>2. QED  BY <1>3, <2>1, SMTT(30)
<1>5. ASSUME NEW q \in Requests, Log(q) PROVE CInv'
  <2>1. entries \in [Entries -> Kept] /\ UNCHANGED <<byWalk, lastUse, handedOut>>
    BY <1>5 DEF Log, StoreInv, StoreShapes
  <2>2. \A e \in Entries : entries'[e].used = entries[e].used  BY <1>5, <2>1 DEF Log, Kept
  <2>3. QED  BY <1>3, <2>1, <2>2
<1>6. QED  BY <1>1, <1>2, <1>4, <1>5 DEF StoreNext, Step

\* The store never keeps more picked walks than its ceiling, and the ones it
\* drops are never fresher than those it keeps, whatever the requests ask for.
THEOREM BoundedStore == StoreSpec => []StoreIsBounded
<1>1. StoreInv /\ CInv => StoreIsBounded  BY StoreInvTypes DEF CInv, StoreIsBounded
<1>2. QED  BY <1>1, InitStoreInv, NextStoreInv, InitCInv, NextCInv, PTL DEF StoreSpec

-----------------------------------------------------------------------------
(***************************************************************************)
(* That what is open is whole, and that an identifier serves what it was   *)
(* given to and leaves nothing, proved for any paths, any number of        *)
(* handlers at once and any bounds.                                        *)
(*                                                                         *)
(* The registry is sound whatever the handlers do, for each of its calls   *)
(* is made under its mutex.  What is beside it, the watch, the warning and *)
(* the deletion, is changed outside: there the invariant speaks of a       *)
(* repository none of whose handlers has met another, and says what the    *)
(* one that is at work may count on at each of its steps.                  *)
(***************************************************************************)

-----------------------------------------------------------------------------
(* The invariant. *)

Working == [at : Steps \ {"idle"}, repo : Repos, found : 0..inodes]

RegistryShapes ==
    /\ inodes \in 0..MaxInodes
    /\ inode \in [Repos -> 0..inodes]
    /\ byID \in [Repos -> 0..inodes]
    /\ pinned \in [Repos -> Nat]
    /\ watched \in [Repos -> 0..inodes]
    /\ reason \in [Repos -> BOOLEAN]
    /\ lostBranch \in [Repos -> 0..inodes]
    /\ call \in [Callers -> {Idle} \cup Working]
    /\ crossed \in [Repos -> BOOLEAN]
    /\ calls \in 0..MaxCalls

\* The list has every open repository and no other, and none twice.
Lists(list, ids) ==
    /\ list \in Seq(Repos)
    /\ \A i, j \in 1..Len(list) : list[i] = list[j] => i = j
    /\ \A r \in Repos : ids[r] # 0 <=> \E i \in 1..Len(list) : list[i] = r

\* Each open repository has one descriptor.
Counts(held, ids) == \A r \in Repos : held[r] = IF ids[r] = 0 THEN 0 ELSE 1

Books == Lists(order, byID) /\ Counts(pinned, byID)

\* What is open and still there is watched, or the interface says it is not.
Quiet(r) == byID[r] # 0 /\ inode[r] = byID[r] => watched[r] = byID[r] \/ reason[r]

Opening == {"open", "watch", "warn", "clear"}

Closing == {"forget deletion", "forget warning", "forget watch"}

\* What holds of a repository none of whose handlers has met another.
Alone(r) == \A c, d \in Callers : call[c].repo = r /\ call[d].repo = r => c = d

Settled(r) ==
    (\A c \in Callers : call[c].repo = r => call[c].at \notin Opening) => Quiet(r)

Promised(r, step) ==
    /\ step = "clear" => (byID[r] # 0 /\ inode[r] = byID[r] => watched[r] = byID[r])
    /\ step \in Closing => byID[r] = 0
    /\ step \in {"forget warning", "forget watch"} => lostBranch[r] = 0
    /\ step = "forget watch" => ~reason[r]

Orderly(r) ==
    /\ Alone(r)
    /\ Settled(r)
    /\ \A c \in Callers : call[c].repo = r => Promised(r, call[c].at)

EachOrderly == \A r \in Repos : crossed[r] \/ Orderly(r)

RInv == RegistryShapes /\ Books /\ EachOrderly

-----------------------------------------------------------------------------
(* The list.  *)

\* Without a repository the list names the others, each once.
LEMMA WithoutLists ==
    ASSUME byID \in [Repos -> Nat], Lists(order, byID), NEW r \in Repos
    PROVE  Lists(Without(r), [byID EXCEPT ![r] = 0])
<1> DEFINE kept == {i \in DOMAIN order : order[i] # r}
           left == Without(r)
           at == Place(kept)
           size == Cardinality(kept)
<1>1. order \in Seq(Repos) /\ DOMAIN order = 1..Len(order)  BY DEF Lists
<1>2. kept \in SUBSET (1..Len(order))  BY <1>1
<1>3. left = Sifted(order, kept)  BY DEF Without
<1>4. \A i \in 1..Len(order) : i \in kept <=> order[i] # r  BY <1>1
<1> HIDE DEF kept, left
<1>5. /\ left \in Seq(Repos) /\ Len(left) = size /\ size \in Nat
      /\ at \in [1..size -> kept]
      /\ \A n \in 1..size : left[n] = order[at[n]]
      /\ \A m, n \in 1..size : m < n => at[m] < at[n]
      /\ \A i \in kept : \E n \in 1..size : at[n] = i
  BY <1>1, <1>2, <1>3, SiftedIsWhatIsKept, SMTT(30)
<1> HIDE DEF at, size
<1>6. \A n \in 1..size : at[n] \in kept /\ at[n] \in 1..Len(order) /\ at[n] \in Int /\ n \in Int
  <2>1. \A i \in 1..Len(order) : i \in Int  BY <1>1
  <2>2. \A n \in 1..size : n \in Int  BY <1>5
  <2>3. QED  BY <1>2, <1>5, <2>1, <2>2
<1>7. \A i, j \in 1..Len(left) : left[i] = left[j] => i = j
  <2> SUFFICES ASSUME NEW i \in 1..size, NEW j \in 1..size, left[i] = left[j] PROVE i = j
    BY <1>5
  <2>1. order[at[i]] = order[at[j]]  BY <1>5
  <2>2. at[i] = at[j]  BY <1>6, <2>1 DEF Lists
  <2>3. ~(i < j) /\ ~(j < i)
    <3>1. i < j => at[i] < at[j]  BY <1>5
    <3>2. j < i => at[j] < at[i]  BY <1>5
    <3>3. QED  BY <1>6, <2>2, <3>1, <3>2
  <2>4. QED  BY <1>6, <2>3
<1>8. ASSUME NEW s \in Repos
      PROVE  [byID EXCEPT ![r] = 0][s] # 0 <=> \E n \in 1..Len(left) : left[n] = s
  <2>1. ASSUME NEW n \in 1..size, left[n] = s  PROVE s # r /\ byID[s] # 0
    <3>1. order[at[n]] = s /\ at[n] \in 1..Len(order) /\ at[n] \in kept  BY <1>5, <1>6, <2>1
    <3>2. QED  BY <1>4, <3>1 DEF Lists
  <2>2. ASSUME s # r, byID[s] # 0  PROVE \E n \in 1..size : left[n] = s
    <3>1. PICK i \in 1..Len(order) : order[i] = s  BY <2>2 DEF Lists
    <3>2. i \in kept  BY <1>4, <2>2, <3>1
    <3>3. PICK n \in 1..size : at[n] = i  BY <1>5, <3>2
    <3>4. QED  BY <1>5, <3>1, <3>3
  <2>3. [byID EXCEPT ![r] = 0][s] # 0 <=> s # r /\ byID[s] # 0  OBVIOUS
  <2>4. QED  BY <1>5, <2>1, <2>2, <2>3
<1>9. QED  BY <1>5, <1>7, <1>8 DEF Lists, left

\* A repository that was not listed is listed once when it is appended.
LEMMA AppendLists ==
    ASSUME NEW ids \in [Repos -> Nat], NEW list, Lists(list, ids),
           NEW r \in Repos, ids[r] = 0, NEW identity \in Nat \ {0}
    PROVE  Lists(Append(list, r), [ids EXCEPT ![r] = identity])
<1> DEFINE more == Append(list, r)
           n == Len(list)
<1>1. list \in Seq(Repos) /\ n \in Nat  BY DEF Lists
<1>2. /\ more \in Seq(Repos) /\ Len(more) = n + 1 /\ more[n + 1] = r
      /\ \A i \in 1..n : more[i] = list[i]
  BY <1>1
<1>3. \A i \in 1..n : list[i] # r  BY DEF Lists
<1>4. \A i \in 1..(n + 1) : i = n + 1 \/ i \in 1..n  BY <1>1
<1> HIDE DEF more, n
<1>5. \A i, j \in 1..Len(more) : more[i] = more[j] => i = j
  <2>1. \A i, j \in 1..n : list[i] = list[j] => i = j  BY DEF Lists, n
  <2> SUFFICES ASSUME NEW i \in 1..(n + 1), NEW j \in 1..(n + 1), more[i] = more[j] PROVE i = j
    BY <1>2
  <2>2. QED  BY <1>2, <1>3, <1>4, <2>1
<1>6. ASSUME NEW s \in Repos
      PROVE  [ids EXCEPT ![r] = identity][s] # 0 <=> \E i \in 1..Len(more) : more[i] = s
  <2>1. ids[s] # 0 <=> \E i \in 1..n : list[i] = s  BY DEF Lists, n
  <2>2. (\E i \in 1..(n + 1) : more[i] = s) <=> s = r \/ \E i \in 1..n : list[i] = s
    <3>1. n + 1 \in 1..(n + 1) /\ \A i \in 1..n : i \in 1..(n + 1)  BY <1>1
    <3>2. QED  BY <1>2, <1>4, <3>1
  <2>3. [ids EXCEPT ![r] = identity][s] # 0 <=> s = r \/ ids[s] # 0  OBVIOUS
  <2>4. QED  BY <1>2, <2>1, <2>2, <2>3
<1>7. QED  BY <1>2, <1>5, <1>6 DEF Lists, more

\* The descriptors follow an entry that goes and one that comes.
LEMMA ReleasedCounts ==
    ASSUME byID \in [Repos -> Nat], pinned \in [Repos -> Nat], Counts(pinned, byID),
           NEW r \in Repos, byID[r] # 0
    PROVE  Released(r) \in [Repos -> Nat] /\ Counts(Released(r), [byID EXCEPT ![r] = 0])
<1>1. pinned[r] = 1  BY DEF Counts
<1>2. Released(r) = [pinned EXCEPT ![r] = 0]  BY <1>1 DEF Released
<1>3. QED  BY <1>2 DEF Counts

LEMMA PinnedCounts ==
    ASSUME NEW ids \in [Repos -> Nat], NEW held \in [Repos -> Nat], Counts(held, ids),
           NEW r \in Repos, ids[r] = 0, NEW identity \in Nat \ {0}
    PROVE  /\ [held EXCEPT ![r] = @ + 1] \in [Repos -> Nat]
           /\ Counts([held EXCEPT ![r] = @ + 1], [ids EXCEPT ![r] = identity])
<1>1. held[r] = 0  BY DEF Counts
<1>2. [held EXCEPT ![r] = @ + 1] = [held EXCEPT ![r] = 1]  BY <1>1
<1>3. QED  BY <1>2 DEF Counts

-----------------------------------------------------------------------------
(* The handlers. *)

\* One that is past its beginning has a repository, and goes on with it.
LEMMA AtWork ==
    ASSUME RegistryShapes, NEW c \in Callers, call[c].at # "idle"
    PROVE  /\ call[c] \in Working /\ call[c].repo \in Repos /\ call[c].found \in 0..inodes
           /\ \A step \in Steps \ {"idle"} : Proceed(c, step) =>
                \E v \in Working : /\ v.at = step /\ v.repo = call[c].repo
                                   /\ v.found = call[c].found
                                   /\ call' = [call EXCEPT ![c] = v]
<1>1. call[c] \in {Idle} \cup Working  BY DEF RegistryShapes
<1>2. call[c] \in Working  BY <1>1 DEF Idle
<1>3. ASSUME NEW step \in Steps \ {"idle"}, Proceed(c, step)
      PROVE  \E v \in Working : /\ v.at = step /\ v.repo = call[c].repo
                                /\ v.found = call[c].found
                                /\ call' = [call EXCEPT ![c] = v]
  <2>1. PICK v : v = [call[c] EXCEPT !.at = step]  OBVIOUS
  <2>2. v \in Working /\ v.at = step /\ v.repo = call[c].repo /\ v.found = call[c].found
    BY <1>2, <2>1 DEF Working
  <2>3. call' = [call EXCEPT ![c] = v]  BY <1>3, <2>1 DEF Proceed
  <2>4. QED  BY <2>2, <2>3
<1>4. QED  BY <1>2, <1>3 DEF Working

\* What a handler does says nothing of the repositories it is not about.
LEMMA Elsewhere ==
    ASSUME NEW c \in Callers, call \in [Callers -> {Idle} \cup Working],
           NEW v, call' = [call EXCEPT ![c] = v],
           NEW s \in Repos, call[c].repo # s, v.repo # s, Orderly(s),
           inode'[s] = inode[s], byID'[s] = byID[s], watched'[s] = watched[s],
           reason'[s] = reason[s], lostBranch'[s] = lostBranch[s]
    PROVE  Orderly(s)'
<1>1. \A d \in Callers : d # c => call'[d] = call[d]  OBVIOUS
<1>2. call'[c] = v  OBVIOUS
<1>3. \A d \in Callers : /\ call'[d].repo = s <=> call[d].repo = s
                         /\ call'[d].repo = s => call'[d] = call[d]
  BY <1>1, <1>2
<1>4. Alone(s)'  BY <1>3 DEF Orderly, Alone
<1>5. Quiet(s)' <=> Quiet(s)  BY DEF Quiet
<1>6. Settled(s)'  BY <1>3, <1>5 DEF Orderly, Settled
<1>7. (\A d \in Callers : call[d].repo = s => Promised(s, call[d].at))'
  BY <1>3 DEF Orderly, Promised
<1>8. QED  BY <1>4, <1>6, <1>7 DEF Orderly

\* A repository with one handler is in order when that one keeps its promise.
Keeps(r, v) ==
    /\ v.repo = r => Promised(r, v.at)
    /\ v.repo # r \/ v.at \notin Opening => Quiet(r)

LEMMA Here ==
    ASSUME NEW c \in Callers, call \in [Callers -> {Idle} \cup Working],
           NEW v, call' = [call EXCEPT ![c] = v], NEW r \in Repos,
           \A d \in Callers : d # c => call[d].repo # r,
           Keeps(r, v)'
    PROVE  Orderly(r)'
<1>1. \A d \in Callers : d # c => call'[d] = call[d]  OBVIOUS
<1>2. call'[c] = v  OBVIOUS
<1>3. \A d \in Callers : call'[d].repo = r => d = c  BY <1>1
<1>4. Alone(r)'  BY <1>3 DEF Alone
<1>5. Settled(r)'
  <2>1. CASE v.repo = r /\ v.at \in Opening  BY <1>2, <2>1 DEF Settled
  <2>2. CASE v.repo # r \/ v.at \notin Opening  BY <2>2 DEF Settled, Keeps
  <2>3. QED  BY <2>1, <2>2
<1>6. (\A d \in Callers : call[d].repo = r => Promised(r, call[d].at))'
  BY <1>2, <1>3 DEF Promised, Keeps
<1>7. QED  BY <1>4, <1>5, <1>6 DEF Orderly

Becomes(c, v) == call' = [call EXCEPT ![c] = v]

\* A step leaves alone what is kept for the repositories it is not about.
OnlyAbout(r) ==
    \A s \in Repos : s # r => /\ byID'[s] = byID[s] /\ watched'[s] = watched[s]
                              /\ reason'[s] = reason[s] /\ lostBranch'[s] = lostBranch[s]

\* A handler that goes on, or ends, keeps every repository in order when it
\* keeps its promise about its own, unless its handlers have met.
LEMMA GoesOn ==
    ASSUME RegistryShapes, EachOrderly, NEW c \in Callers, NEW r \in Repos, call[c].repo = r,
           NEW v, v.repo \in {r, NoRepo}, Becomes(c, v),
           crossed' = crossed, inode' = inode,
           OnlyAbout(r),
           crossed[r] \/ Keeps(r, v)'
    PROVE  EachOrderly'
<1> SUFFICES ASSUME NEW s \in Repos, ~crossed[s] PROVE Orderly(s)'
  BY DEF EachOrderly
<1>1. Orderly(s)  BY DEF EachOrderly
<1>2. call \in [Callers -> {Idle} \cup Working]  BY DEF RegistryShapes
<1>3. CASE s = r
  <2>1. Keeps(r, v)'  BY <1>1, <1>3
  <2>2. \A d \in Callers : d # c => call[d].repo # r  BY <1>1, <1>3 DEF Orderly, Alone
  <2>3. QED  BY <1>2, <1>3, <2>1, <2>2, Here DEF Becomes
<1>4. CASE s # r
  <2>1. v.repo # s  BY <1>4, RegistryAssumption
  <2>2. QED  BY <1>1, <1>2, <1>4, <2>1, Elsewhere DEF OnlyAbout, Becomes
<1>5. QED  BY <1>3, <1>4

\* A handler that begins finds its repository in order, or crossed.
LEMMA Begins ==
    ASSUME RegistryShapes, EachOrderly, NEW c \in Callers, NEW r \in Repos,
           NEW step \in Steps \ {"idle"}, NEW found \in 0..inodes, Start(c, r, step, found),
           inode' = inode,
           OnlyAbout(r),
           Promised(r, step)',
           \/ step \in Opening
           \/ Quiet(r)'
           \/ (step = "check" /\ UNCHANGED <<byID, watched, reason>>)
    PROVE  EachOrderly'
<1> DEFINE v == [at |-> step, repo |-> r, found |-> found]
<1> SUFFICES ASSUME NEW s \in Repos, ~crossed'[s] PROVE Orderly(s)'
  BY DEF EachOrderly
<1>1. /\ call \in [Callers -> {Idle} \cup Working] /\ crossed \in [Repos -> BOOLEAN]
      /\ call[c] = Idle /\ call[c].repo = NoRepo
      /\ call' = [call EXCEPT ![c] = v] /\ v.repo = r /\ v.at = step
      /\ crossed' = [crossed EXCEPT ![r] = Busy(r) \/ (@ /\ step = "check")]
  BY DEF RegistryShapes, Start, Idle
<1> HIDE DEF v
<1>2. CASE s = r
  <2>1. ~Busy(r) /\ ~(crossed[r] /\ step = "check")  BY <1>1, <1>2
  <2>2. \A d \in Callers : call[d].repo # r  BY <2>1 DEF Busy
  <2>3. step \notin Opening => Quiet(r)'
    <3>1. CASE step = "check" /\ UNCHANGED <<byID, watched, reason>>
      <4>1. Orderly(r)  BY <2>1, <3>1 DEF EachOrderly
      <4>2. Quiet(r)  BY <2>2, <4>1 DEF Orderly, Settled
      <4>3. QED  BY <3>1, <4>2 DEF Quiet
    <3>2. QED  BY <3>1
  <2>4. Keeps(r, v)'  BY <1>1, <2>3 DEF Keeps
  <2>5. QED  BY <1>1, <1>2, <2>2, <2>4, Here
<1>3. CASE s # r
  <2>1. Orderly(s)  BY <1>1, <1>3 DEF EachOrderly
  <2>2. v.repo # s /\ call[c].repo # s  BY <1>1, <1>3, RegistryAssumption
  <2>3. QED  BY <1>1, <1>3, <2>1, <2>2, Elsewhere DEF OnlyAbout
<1>4. QED  BY <1>2, <1>3

-----------------------------------------------------------------------------
(* The steps.  *)

LEMMA InitRInv == RegistryInit => RInv
<1> SUFFICES ASSUME RegistryInit PROVE RInv  OBVIOUS
<1>1. RegistryShapes  BY RegistryAssumption DEF RegistryInit, RegistryShapes
<1>2. Lists(order, byID)  BY DEF RegistryInit, Lists
<1>3. Counts(pinned, byID)  BY DEF RegistryInit, Counts
<1>4. ASSUME NEW r \in Repos  PROVE Orderly(r)
  <2>1. \A c \in Callers : call[c].repo # r
    BY RegistryAssumption DEF RegistryInit, Idle
  <2>2. byID[r] = 0  BY DEF RegistryInit
  <2>3. QED  BY <2>1, <2>2 DEF Orderly, Alone, Settled, Quiet
<1>5. QED  BY <1>1, <1>2, <1>3, <1>4 DEF RInv, Books, EachOrderly

\* The disk may change at any time: what was opened is then no longer there.
LEMMA DiskKeeps ==
    ASSUME RInv, NEW r \in Repos, Make(r) \/ Remove(r)
    PROVE  RInv'
<1>1. UNCHANGED <<registry, beside, callers>>  BY DEF Make, Remove
<1>2. PICK n \in Nat : inode' = [inode EXCEPT ![r] = n] /\ (n = 0 \/ n = inodes + 1)
                       /\ inodes' \in 0..MaxInodes /\ inodes <= inodes' /\ n <= inodes'
  <2>1. inodes \in Nat /\ MaxInodes \in Nat /\ inodes <= MaxInodes
    BY RegistryAssumption DEF RInv, RegistryShapes
  <2>2. CASE Make(r)
    <3>1. /\ inode' = [inode EXCEPT ![r] = inodes + 1]
          /\ inodes' \in 0..MaxInodes /\ inodes' = inodes + 1
      BY <2>1, <2>2 DEF Make
    <3> inodes + 1 \in Nat  BY <2>1
    <3>2. WITNESS inodes + 1 \in Nat
    <3>3. QED  BY <2>1, <3>1
  <2>3. CASE Remove(r)
    <3>1. inode' = [inode EXCEPT ![r] = 0] /\ inodes' = inodes  BY <2>3 DEF Remove
    <3>2. WITNESS 0 \in Nat
    <3>3. QED  BY <2>1, <3>1
  <2>4. QED  BY <2>2, <2>3
<1>3. inodes \in Nat /\ inodes' \in Nat /\ 0..inodes \subseteq 0..inodes' /\ n \in 0..inodes'
  BY <1>2, RegistryAssumption DEF RInv, RegistryShapes
<1>4. RegistryShapes'
  <2>1. {Idle} \cup Working \subseteq {Idle'} \cup Working'  BY <1>3 DEF Working, Idle
  <2>2. call' \in [Callers -> {Idle'} \cup Working']
    BY <1>1, <2>1 DEF RInv, RegistryShapes, callers
  <2>3. inode' \in [Repos -> 0..inodes']  BY <1>2, <1>3 DEF RInv, RegistryShapes
  <2>4. /\ byID' \in [Repos -> 0..inodes'] /\ watched' \in [Repos -> 0..inodes']
        /\ lostBranch' \in [Repos -> 0..inodes']
    BY <1>1, <1>3 DEF RInv, RegistryShapes, registry, beside
  <2>5. QED  BY <1>1, <1>2, <2>2, <2>3, <2>4 DEF RInv, RegistryShapes, registry, beside, callers
<1>5. Books'  BY <1>1 DEF RInv, Books, Lists, Counts, registry
<1>6. EachOrderly'
  <2> SUFFICES ASSUME NEW s \in Repos, ~crossed[s] PROVE Orderly(s)'
    BY <1>1 DEF EachOrderly, callers
  <2>1. Orderly(s)  BY DEF RInv, EachOrderly
  <2>2. byID[s] \in 0..inodes /\ inode[s] \in 0..inodes  BY DEF RInv, RegistryShapes
  <2>3. byID'[s] # 0 /\ inode'[s] = byID'[s] => inode[s] = byID[s]
    BY <1>1, <1>2, <1>3, <2>2 DEF RInv, RegistryShapes, registry
  <2>4. QED
    BY <1>1, <2>1, <2>3
    DEF Orderly, Alone, Settled, Quiet, Promised, registry, beside, callers
<1>7. QED  BY <1>4, <1>5, <1>6 DEF RInv

\* Locate and Find begin a request about a repository, and change nothing else.
LEMMA BeginningKeeps ==
    ASSUME RInv, NEW c \in Callers, NEW r \in Repos, Locate(c, r) \/ Find(c, r)
    PROVE  RInv'
<1>1. UNCHANGED <<onDisk, registry, beside>>  BY DEF Locate, Find
<1>2. PICK step \in {"open", "check"}, found \in 0..inodes : Start(c, r, step, found)
  <2>1. 0 \in 0..inodes /\ byID[r] \in 0..inodes  BY DEF RInv, RegistryShapes
  <2>2. QED  BY <2>1 DEF Locate, Find
<1>3. step \in Steps \ {"idle"}  BY DEF Steps
<1>4. EachOrderly'
  <2>1. Promised(r, step)'  BY DEF Promised, Closing
  <2>2. step \in Opening \/ (step = "check" /\ UNCHANGED <<byID, watched, reason>>)
    BY <1>1 DEF Opening, registry, beside
  <2>3. OnlyAbout(r) /\ inode' = inode  BY <1>1 DEF OnlyAbout, onDisk, registry, beside
  <2>4. QED  BY <1>2, <1>3, <2>1, <2>2, <2>3, Begins DEF RInv
<1>5. RegistryShapes'
  <2>1. call' \in [Callers -> {Idle} \cup Working]
    BY <1>2, <1>3 DEF RInv, RegistryShapes, Start, Working
  <2>2. crossed' \in [Repos -> BOOLEAN]  BY <1>2 DEF RInv, RegistryShapes, Start, Busy
  <2>3. calls' \in 0..MaxCalls  BY <1>2, RegistryAssumption DEF RInv, RegistryShapes, Start
  <2>4. QED
    BY <1>1, <2>1, <2>2, <2>3 DEF RInv, RegistryShapes, onDisk, registry, beside, Idle, Working
<1>6. Books'  BY <1>1 DEF RInv, Books, Lists, Counts, registry
<1>7. QED  BY <1>4, <1>5, <1>6 DEF RInv

\* The entry goes, with its descriptor and its place in the list, and maybe
\* another comes: the books stay right.
LEMMA GoneIsBooked ==
    ASSUME RInv, NEW r \in Repos, byID[r] # 0
    PROVE  /\ Lists(Without(r), [byID EXCEPT ![r] = 0])
           /\ Released(r) \in [Repos -> Nat]
           /\ Counts(Released(r), [byID EXCEPT ![r] = 0])
<1>1. byID \in [Repos -> Nat]
  <2>1. \A n \in 0..inodes : n \in Nat  BY DEF RInv, RegistryShapes
  <2>2. QED  BY <2>1 DEF RInv, RegistryShapes
<1>2. QED  BY <1>1, WithoutLists, ReleasedCounts DEF RInv, RegistryShapes, Books

LEMMA PinIsBooked ==
    ASSUME RInv, NEW c \in Callers, NEW r \in Repos, NEW held \in [Repos -> Nat], NEW listed,
           Lists(listed, [byID EXCEPT ![r] = 0]), Counts(held, [byID EXCEPT ![r] = 0]),
           Pin(c, r, held, listed)
    PROVE  /\ Lists(order', byID') /\ Counts(pinned', byID') /\ pinned' \in [Repos -> Nat]
           /\ \/ byID' = [byID EXCEPT ![r] = 0] /\ Finish(c)
              \/ /\ inode[r] # 0 /\ byID' = [byID EXCEPT ![r] = inode[r]]
                 /\ Proceed(c, "watch")
<1> DEFINE ids == [byID EXCEPT ![r] = 0]
<1>1. ids \in [Repos -> Nat] /\ ids[r] = 0 /\ inode[r] \in Nat
  <2>1. \A n \in 0..inodes : n \in Nat  BY DEF RInv, RegistryShapes
  <2>2. QED  BY <2>1 DEF RInv, RegistryShapes
<1>2. [ids EXCEPT ![r] = inode[r]] = [byID EXCEPT ![r] = inode[r]]  BY DEF RInv, RegistryShapes
<1> HIDE DEF ids
<1>3. CASE inode[r] = 0  BY <1>3 DEF Pin, ids
<1>4. CASE inode[r] # 0
  <2>1. /\ byID' = [ids EXCEPT ![r] = inode[r]] /\ order' = Append(listed, r)
        /\ pinned' = [held EXCEPT ![r] = @ + 1] /\ Proceed(c, "watch")
    BY <1>2, <1>4 DEF Pin
  <2>2. Lists(order', byID')  BY <1>1, <1>4, <2>1, AppendLists DEF ids
  <2>3. Counts(pinned', byID') /\ pinned' \in [Repos -> Nat]
    BY <1>1, <1>4, <2>1, PinnedCounts DEF ids
  <2>4. QED  BY <1>2, <1>4, <2>1, <2>2, <2>3
<1>5. QED  BY <1>3, <1>4

\* Open keeps the books, and either leaves an open repository that is to be
\* watched or none.
LEMMA OpenIsBooked ==
    ASSUME RInv, NEW c \in Callers, NEW r \in Repos, call[c].repo = r, Open(c)
    PROVE  /\ Books' /\ pinned' \in [Repos -> Nat]
           /\ \E identity \in 0..inodes : byID' = [byID EXCEPT ![r] = identity]
           /\ Proceed(c, "watch") \/ (byID'[r] = 0 /\ Finish(c))
<1>1. /\ byID \in [Repos -> 0..inodes] /\ 0 \in 0..inodes /\ inode[r] \in 0..inodes
      /\ pinned \in [Repos -> Nat]
  BY DEF RInv, RegistryShapes
<1>2. ASSUME NEW held \in [Repos -> Nat], NEW listed, Pin(c, r, held, listed),
             Lists(listed, [byID EXCEPT ![r] = 0]), Counts(held, [byID EXCEPT ![r] = 0])
      PROVE  /\ Books' /\ pinned' \in [Repos -> Nat]
             /\ \E identity \in 0..inodes : byID' = [byID EXCEPT ![r] = identity]
             /\ Proceed(c, "watch") \/ (byID'[r] = 0 /\ Finish(c))
  <2>1. /\ Lists(order', byID') /\ Counts(pinned', byID') /\ pinned' \in [Repos -> Nat]
        /\ \/ byID' = [byID EXCEPT ![r] = 0] /\ Finish(c)
           \/ byID' = [byID EXCEPT ![r] = inode[r]] /\ Proceed(c, "watch")
    BY <1>2, PinIsBooked
  <2>2. QED  BY <1>1, <2>1 DEF Books
<1>3. CASE byID[r] = 0 /\ Pin(c, r, pinned, order)
  <2>1. [byID EXCEPT ![r] = 0] = byID  BY <1>1, <1>3
  <2>2. Lists(order, byID) /\ Counts(pinned, byID)  BY DEF RInv, Books
  <2>3. QED  BY <1>1, <1>2, <1>3, <2>1, <2>2
<1>4. CASE byID[r] # 0 /\ Pin(c, r, Released(r), Without(r))
  BY <1>2, <1>4, GoneIsBooked
<1>5. CASE Proceed(c, "watch") /\ UNCHANGED registry
  <2>1. Books' /\ pinned' = pinned /\ byID' = byID  BY <1>5 DEF RInv, Books, Lists, Counts, registry
  <2>2. byID[r] \in 0..inodes /\ byID = [byID EXCEPT ![r] = byID[r]]  BY <1>1
  <2>3. QED  BY <1>1, <1>5, <2>1, <2>2
<1>6. CASE /\ byID[r] # 0 /\ byID' = [byID EXCEPT ![r] = 0]
           /\ order' = Without(r) /\ pinned' = Released(r) /\ Finish(c)
  <2>1. Books' /\ pinned' \in [Repos -> Nat]  BY <1>6, GoneIsBooked DEF Books
  <2>2. QED  BY <1>1, <1>6, <2>1
<1>7. QED  BY <1>3, <1>4, <1>5, <1>6 DEF Open

LEMMA OpenKeeps ==
    ASSUME RInv, NEW c \in Callers, Open(c)
    PROVE  RInv'
<1>1. PICK r \in Repos : call[c].repo = r /\ call[c].at = "open"
  <2>1. call[c].at # "idle"  BY DEF Open
  <2>2. QED  BY <2>1, AtWork DEF RInv, Open
<1>2. /\ Books' /\ pinned' \in [Repos -> Nat]
      /\ Proceed(c, "watch") \/ (byID'[r] = 0 /\ Finish(c))
  BY <1>1, OpenIsBooked
<1>3. PICK identity \in 0..inodes : byID' = [byID EXCEPT ![r] = identity]
  BY <1>1, OpenIsBooked
<1>4. UNCHANGED <<onDisk, beside, crossed, calls>>  BY DEF Open
<1>5. PICK v \in {Idle} \cup Working :
          /\ call' = [call EXCEPT ![c] = v] /\ v.repo \in {r, NoRepo}
          /\ v.repo = r => v.at = "watch"
          /\ v.repo # r => byID'[r] = 0
  <2>1. CASE Proceed(c, "watch")
    <3>1. PICK v \in Working : v.at = "watch" /\ v.repo = r /\ call' = [call EXCEPT ![c] = v]
      BY <1>1, <2>1, AtWork DEF RInv, Steps
    <3>2. QED  BY <3>1
  <2>2. CASE byID'[r] = 0 /\ Finish(c)
    BY <2>2, RegistryAssumption DEF Finish, Idle
  <2>3. QED  BY <1>2, <2>1, <2>2
<1>6. EachOrderly'
  <2>1. Promised(r, "watch")'  BY DEF Promised, Closing
  <2>2. v.repo # r \/ v.at \notin Opening => Quiet(r)'
    BY <1>5 DEF Opening, Quiet
  <2>3. Keeps(r, v)'  BY <1>5, <2>1, <2>2 DEF Keeps
  <2>4. OnlyAbout(r)  BY <1>3, <1>4 DEF RInv, RegistryShapes, beside, OnlyAbout
  <2>5. crossed' = crossed /\ inode' = inode  BY <1>4 DEF onDisk
  <2>6. Becomes(c, v) /\ v.repo \in {r, NoRepo}  BY <1>5 DEF Becomes
  <2>7. QED  BY <1>1, <2>3, <2>4, <2>5, <2>6, GoesOn DEF RInv
<1>7. RegistryShapes'
  <2>1. call' \in [Callers -> {Idle} \cup Working]  BY <1>5 DEF RInv, RegistryShapes
  <2>2. byID' \in [Repos -> 0..inodes]  BY <1>3 DEF RInv, RegistryShapes
  <2>3. QED  BY <1>2, <1>4, <2>1, <2>2 DEF RInv, RegistryShapes, onDisk, beside, Idle, Working
<1>8. QED  BY <1>2, <1>6, <1>7 DEF RInv

\* Close forgets the entry; what is kept beside it goes in the steps after.
LEMMA CloseKeeps ==
    ASSUME RInv, NEW c \in Callers, NEW r \in Repos, Close(c, r)
    PROVE  RInv'
<1>1. byID \in [Repos -> 0..inodes] /\ 0 \in 0..inodes  BY DEF RInv, RegistryShapes
<1>2. Books' /\ pinned' \in [Repos -> Nat] /\ byID' = [byID EXCEPT ![r] = 0]
  <2>1. CASE byID[r] = 0
    <3>1. UNCHANGED registry  BY <2>1 DEF Close
    <3>2. [byID EXCEPT ![r] = 0] = byID  BY <1>1, <2>1
    <3>3. QED  BY <3>1, <3>2 DEF RInv, RegistryShapes, Books, Lists, Counts, registry
  <2>2. CASE byID[r] # 0
    <3>1. byID' = [byID EXCEPT ![r] = 0] /\ order' = Without(r) /\ pinned' = Released(r)
      BY <2>2 DEF Close
    <3>2. QED  BY <2>2, <3>1, GoneIsBooked DEF Books
  <2>3. QED  BY <2>1, <2>2
<1>3. UNCHANGED <<onDisk, beside>> /\ Start(c, r, "forget deletion", 0)  BY DEF Close
<1>4. EachOrderly'
  <2>1. Promised(r, "forget deletion")' /\ Quiet(r)'  BY <1>1, <1>2 DEF Promised, Quiet
  <2>2. "forget deletion" \in Steps \ {"idle"}  BY DEF Steps
  <2>3. OnlyAbout(r)  BY <1>1, <1>2, <1>3 DEF beside, OnlyAbout
  <2>4. inode' = inode  BY <1>3 DEF onDisk
  <2>5. QED  BY <1>1, <1>3, <2>1, <2>2, <2>3, <2>4, Begins DEF RInv
<1>5. RegistryShapes'
  <2>1. call' \in [Callers -> {Idle} \cup Working]
    BY <1>1, <1>3 DEF RInv, RegistryShapes, Start, Working, Steps
  <2>2. crossed' \in [Repos -> BOOLEAN]  BY <1>3 DEF RInv, RegistryShapes, Start, Busy
  <2>3. calls' \in 0..MaxCalls
    <3>1. calls' = calls + 1 /\ calls < MaxCalls  BY <1>3 DEF Start
    <3>2. QED  BY <3>1, RegistryAssumption DEF RInv, RegistryShapes
  <2>4. byID' \in [Repos -> 0..inodes]  BY <1>1, <1>2
  <2>5. QED
    BY <1>2, <1>3, <2>1, <2>2, <2>3, <2>4
    DEF RInv, RegistryShapes, onDisk, beside, Idle, Working
<1>6. QED  BY <1>2, <1>4, <1>5 DEF RInv

\* A step that leaves the registry and the disk keeps them; it has to keep the
\* promise of the handler and the types of what it changes beside.
LEMMA BesideKeeps ==
    ASSUME RInv, NEW c \in Callers, NEW r \in Repos, call[c].repo = r,
           UNCHANGED <<onDisk, registry, crossed, calls>>,
           watched' \in [Repos -> 0..inodes], reason' \in [Repos -> BOOLEAN],
           lostBranch' \in [Repos -> 0..inodes],
           OnlyAbout(r),
           NEW v \in {Idle} \cup Working, call' = [call EXCEPT ![c] = v],
           v.repo \in {r, NoRepo},
           crossed[r] \/ Keeps(r, v)'
    PROVE  RInv'
<1>1. EachOrderly'
  <2>1. crossed' = crossed /\ inode' = inode /\ byID' = byID  BY DEF onDisk, registry
  <2>2. Becomes(c, v)  BY DEF Becomes
  <2>3. QED  BY <2>1, <2>2, GoesOn DEF RInv
<1>2. RegistryShapes'
  <2>1. call' \in [Callers -> {Idle} \cup Working]  BY DEF RInv, RegistryShapes
  <2>2. QED  BY <2>1 DEF RInv, RegistryShapes, onDisk, registry, Idle, Working
<1>3. Books'  BY DEF RInv, Books, Lists, Counts, registry
<1>4. QED  BY <1>1, <1>2, <1>3 DEF RInv

\* A handler that ends.
LEMMA Finishing ==
    ASSUME NEW c \in Callers, Finish(c), NEW r \in Repos
    PROVE  \E v \in {Idle} \cup Working :
              /\ call' = [call EXCEPT ![c] = v] /\ v.repo \in {r, NoRepo} /\ v.repo # r
<1>1. Idle.repo = NoRepo /\ NoRepo # r  BY RegistryAssumption DEF Idle
<1>2. call' = [call EXCEPT ![c] = Idle]  BY DEF Finish
<1>3. QED  BY <1>1, <1>2

\* What a handler at a step before another does: it goes on with its repository,
\* of which it may suppose that it is in order when its handlers have not met.
LEMMA Advances ==
    ASSUME RInv, NEW c \in Callers, call[c].at # "idle",
           NEW step \in Steps \ {"idle"}, Proceed(c, step)
    PROVE  \E v \in Working, r \in Repos :
              /\ call[c].repo = r /\ v.repo = r /\ v.at = step
              /\ call' = [call EXCEPT ![c] = v]
<1>1. call[c].repo \in Repos  BY AtWork DEF RInv
<1>2. PICK v \in Working : /\ v.at = step /\ v.repo = call[c].repo
                           /\ call' = [call EXCEPT ![c] = v]
  BY AtWork DEF RInv
<1>3. QED  BY <1>1, <1>2

LEMMA WatchKeeps ==
    ASSUME RInv, NEW c \in Callers, Watch(c)
    PROVE  RInv'
<1>1. call[c].at = "watch" /\ call[c].repo \in Repos
  BY AtWork DEF Watch, RInv
<1>2. /\ watched \in [Repos -> 0..inodes] /\ inode[call[c].repo] \in 0..inodes
      /\ 0 \in 0..inodes /\ call \in [Callers -> {Idle} \cup Working]
      /\ reason \in [Repos -> BOOLEAN] /\ lostBranch \in [Repos -> 0..inodes]
  BY <1>1 DEF RInv, RegistryShapes
<1>3. PICK step \in {"clear", "warn"}, n \in 0..inodes :
          /\ Proceed(c, step) /\ watched' = [watched EXCEPT ![call[c].repo] = n]
          /\ step = "clear" => n = inode[call[c].repo]
  BY <1>2 DEF Watch
<1>4. PICK v \in Working, r \in Repos :
          /\ call[c].repo = r /\ v.repo = r /\ v.at = step
          /\ call' = [call EXCEPT ![c] = v]
  BY <1>1, <1>3, Advances DEF Steps
<1>5. UNCHANGED <<onDisk, registry, reason, lostBranch, crossed, calls>>  BY DEF Watch
<1>6. Keeps(r, v)'
  <2>1. step = "clear" => watched'[r] = inode[r] /\ inode' = inode
    BY <1>2, <1>3, <1>4, <1>5 DEF onDisk
  <2>2. QED  BY <1>3, <1>4, <2>1 DEF Keeps, Promised, Opening, Closing
<1>7. /\ watched' \in [Repos -> 0..inodes] /\ OnlyAbout(r)
  BY <1>2, <1>3, <1>4, <1>5 DEF OnlyAbout, registry
<1>8. UNCHANGED <<onDisk, registry, crossed, calls>>  BY <1>5
<1>9. reason' \in [Repos -> BOOLEAN] /\ lostBranch' \in [Repos -> 0..inodes]  BY <1>2, <1>5
<1>10. QED  BY <1>4, <1>6, <1>7, <1>8, <1>9, BesideKeeps

\* The deletion, then the warning, go while the close is at work.
LEMMA ForgettingKeeps ==
    ASSUME RInv, NEW c \in Callers, ForgetDeletion(c) \/ ForgetWarning(c)
    PROVE  RInv'
<1>1. /\ watched \in [Repos -> 0..inodes] /\ 0 \in 0..inodes
      /\ reason \in [Repos -> BOOLEAN] /\ lostBranch \in [Repos -> 0..inodes]
  BY DEF RInv, RegistryShapes
<1>2. UNCHANGED <<onDisk, registry, watched, crossed, calls>>
  BY DEF ForgetDeletion, ForgetWarning
<1>3. PICK step \in {"forget warning", "forget watch"} :
          /\ Proceed(c, step) /\ call[c].at \in Closing
          /\ IF step = "forget warning"
             THEN lostBranch' = [lostBranch EXCEPT ![call[c].repo] = 0] /\ reason' = reason
             ELSE /\ call[c].at = "forget warning" /\ lostBranch' = lostBranch
                  /\ reason' = [reason EXCEPT ![call[c].repo] = FALSE]
  BY DEF ForgetDeletion, ForgetWarning, Closing
<1>4. PICK v \in Working, r \in Repos :
          /\ call[c].repo = r /\ v.repo = r /\ v.at = step
          /\ call' = [call EXCEPT ![c] = v]
  BY <1>3, Advances DEF Steps, Closing
<1>5. crossed[r] \/ Keeps(r, v)'
  <2> SUFFICES ASSUME ~crossed[r] PROVE Keeps(r, v)'  OBVIOUS
  <2>1. Promised(r, call[c].at)  BY <1>4 DEF RInv, EachOrderly, Orderly
  <2>2. byID[r] = 0 /\ byID' = byID  BY <1>2, <1>3, <2>1 DEF Promised, registry
  <2>3. lostBranch'[r] = 0  BY <1>1, <1>3, <1>4, <2>1 DEF Promised
  <2>4. step = "forget watch" => ~reason'[r]  BY <1>1, <1>3, <1>4
  <2>5. QED  BY <1>3, <1>4, <2>2, <2>3, <2>4 DEF Keeps, Promised, Quiet, Closing
<1>6. /\ reason' \in [Repos -> BOOLEAN] /\ lostBranch' \in [Repos -> 0..inodes]
      /\ watched' \in [Repos -> 0..inodes] /\ OnlyAbout(r)
  BY <1>1, <1>2, <1>3, <1>4 DEF OnlyAbout, registry
<1>7. UNCHANGED <<onDisk, registry, crossed, calls>>  BY <1>2
<1>8. QED  BY <1>4, <1>5, <1>6, <1>7, BesideKeeps

\* A handler that ends what it does beside the registry leaves a repository none
\* of whose handlers has met another watched, or with a warning.
LEMMA EndingKeeps ==
    ASSUME RInv, NEW c \in Callers,
           Warn(c) \/ Clear(c) \/ ForgetWatch(c) \/ Serve(c)
    PROVE  RInv'
<1>1. /\ call[c].at \in {"warn", "clear", "forget watch", "serve"} /\ Finish(c)
      /\ UNCHANGED <<onDisk, registry, crossed, calls>>
  BY DEF Warn, Clear, ForgetWatch, Serve
<1>2. PICK r \in Repos : call[c].repo = r  BY <1>1, AtWork DEF RInv
<1>3. PICK v \in {Idle} \cup Working :
          call' = [call EXCEPT ![c] = v] /\ v.repo \in {r, NoRepo} /\ v.repo # r
  BY <1>1, Finishing
<1>4. /\ watched \in [Repos -> 0..inodes] /\ 0 \in 0..inodes /\ inode[r] \in 0..inodes
      /\ reason \in [Repos -> BOOLEAN] /\ lostBranch \in [Repos -> 0..inodes]
  BY DEF RInv, RegistryShapes
<1>5. /\ watched' \in [Repos -> 0..inodes] /\ reason' \in [Repos -> BOOLEAN]
      /\ lostBranch' \in [Repos -> 0..inodes] /\ OnlyAbout(r)
  BY <1>1, <1>2, <1>4 DEF Warn, Clear, ForgetWatch, Serve, OnlyAbout, registry
<1>6. crossed[r] \/ Keeps(r, v)'
  <2> SUFFICES ASSUME ~crossed[r] PROVE Quiet(r)'  BY <1>3 DEF Keeps
  <2>1. Orderly(r)  BY DEF RInv, EachOrderly
  <2>2. Promised(r, call[c].at)  BY <1>2, <2>1 DEF Orderly
  <2>3. byID' = byID /\ inode' = inode  BY <1>1 DEF onDisk, registry
  <2>4. CASE Warn(c)  BY <1>2, <1>4, <2>4 DEF Warn, Quiet
  <2>5. CASE Clear(c)  BY <2>2, <2>3, <2>5 DEF Clear, Promised, Quiet
  <2>6. CASE ForgetWatch(c)  BY <2>2, <2>3, <2>6 DEF ForgetWatch, Promised, Closing, Quiet
  <2>7. CASE Serve(c)
    <3>1. \A d \in Callers : call[d].repo = r => d = c  BY <1>2, <2>1 DEF Orderly, Alone
    <3>2. call[c].at = "serve"  BY <2>7 DEF Serve
    <3>3. Quiet(r)  BY <2>1, <3>1, <3>2 DEF Orderly, Settled, Opening
    <3>4. watched' = watched /\ reason' = reason  BY <2>7 DEF Serve
    <3>5. QED  BY <2>3, <3>3, <3>4 DEF Quiet
  <2>8. QED  BY <2>4, <2>5, <2>6, <2>7
<1>7. QED  BY <1>1, <1>2, <1>3, <1>5, <1>6, BesideKeeps

\* Get's comparison changes nothing but where the handler is.
LEMMA CheckKeeps ==
    ASSUME RInv, NEW c \in Callers, Check(c)
    PROVE  RInv'
<1>1. /\ call[c].at = "check"
      /\ Proceed(c, "serve") \/ Finish(c)
      /\ UNCHANGED <<onDisk, registry, beside, crossed, calls>>
  BY DEF Check
<1>2. PICK r \in Repos : call[c].repo = r  BY <1>1, AtWork DEF RInv
<1>3. PICK v \in {Idle} \cup Working :
          /\ call' = [call EXCEPT ![c] = v] /\ v.repo \in {r, NoRepo}
          /\ v.repo = r => v.at = "serve"
  <2>1. CASE Proceed(c, "serve")
    <3>1. PICK v \in Working, s \in Repos :
              /\ call[c].repo = s /\ v.repo = s /\ v.at = "serve"
              /\ call' = [call EXCEPT ![c] = v]
      BY <1>1, <2>1, Advances DEF Steps
    <3>2. QED  BY <1>2, <3>1
  <2>2. CASE Finish(c)  BY <2>2, Finishing
  <2>3. QED  BY <1>1, <2>1, <2>2
<1>4. crossed[r] \/ Keeps(r, v)'
  <2> SUFFICES ASSUME ~crossed[r] PROVE Keeps(r, v)'  OBVIOUS
  <2>1. Orderly(r)  BY DEF RInv, EachOrderly
  <2>2. \A d \in Callers : call[d].repo = r => d = c  BY <1>2, <2>1 DEF Orderly, Alone
  <2>3. Quiet(r)  BY <1>1, <2>1, <2>2 DEF Orderly, Settled, Opening
  <2>4. Quiet(r)'  BY <1>1, <2>3 DEF Quiet, onDisk, registry, beside
  <2>5. QED  BY <1>3, <2>4 DEF Keeps, Promised, Closing
<1>5. /\ watched' \in [Repos -> 0..inodes] /\ reason' \in [Repos -> BOOLEAN]
      /\ lostBranch' \in [Repos -> 0..inodes] /\ OnlyAbout(r)
  BY <1>1 DEF RInv, RegistryShapes, beside, OnlyAbout, registry
<1>6. UNCHANGED <<onDisk, registry, crossed, calls>>  BY <1>1
<1>7. QED  BY <1>2, <1>3, <1>4, <1>5, <1>6, BesideKeeps

LEMMA NextRInv == RInv /\ [RegistryNext]_registryVars => RInv'
<1> SUFFICES ASSUME RInv, [RegistryNext]_registryVars PROVE RInv'  OBVIOUS
<1>1. ASSUME NEW r \in Repos, Make(r) \/ Remove(r)  PROVE RInv'  BY <1>1, DiskKeeps
<1>2. ASSUME NEW c \in Callers, Handler(c)  PROVE RInv'
  BY <1>2, OpenKeeps, WatchKeeps, ForgettingKeeps, EndingKeeps, CheckKeeps DEF Handler
<1>3. ASSUME NEW c \in Callers, NEW r \in Repos, Locate(c, r) \/ Close(c, r) \/ Find(c, r)
      PROVE  RInv'
  BY <1>3, BeginningKeeps, CloseKeeps
<1>4. CASE UNCHANGED registryVars
  <2>1. RegistryShapes'
    BY <1>4 DEF registryVars, onDisk, registry, beside, callers, RInv, RegistryShapes, Idle, Working
  <2>2. Books'  BY <1>4 DEF registryVars, registry, RInv, Books, Lists, Counts
  <2>3. EachOrderly'
    BY <1>4, ZenonT(40)
    DEF registryVars, onDisk, registry, beside, callers, RInv, EachOrderly, Orderly, Alone,
        Settled, Quiet, Promised
  <2>4. QED  BY <2>1, <2>2, <2>3 DEF RInv
<1>5. QED  BY <1>1, <1>2, <1>3, <1>4 DEF RegistryNext

-----------------------------------------------------------------------------
(* The theorems. *)

\* What is invariant has the types of the state.
LEMMA RInvTypes == RInv => RegistryTypeOK
<1> SUFFICES ASSUME RInv PROVE RegistryTypeOK  OBVIOUS
<1>1. {Idle} \cup Working \subseteq
          [at : Steps, repo : Repos \cup {NoRepo}, found : 0..inodes]
  <2>1. 0 \in 0..inodes  BY DEF RInv, RegistryShapes
  <2>2. Idle \in [at : Steps, repo : Repos \cup {NoRepo}, found : 0..inodes]
    BY <2>1 DEF Idle, Steps
  <2>3. ASSUME NEW v \in Working
        PROVE  v \in [at : Steps, repo : Repos \cup {NoRepo}, found : 0..inodes]
    BY DEF Working
  <2>4. QED  BY <2>2, <2>3
<1>2. call \in [Callers -> [at : Steps, repo : Repos \cup {NoRepo}, found : 0..inodes]]
  BY <1>1 DEF RInv, RegistryShapes
<1>3. order \in Seq(Repos)  BY DEF RInv, Books, Lists
<1>4. QED  BY <1>2, <1>3 DEF RInv, RegistryShapes, RegistryTypeOK

\* The types of the state: no inode, descriptor or place in the list is made up.
THEOREM RegistryTypes == RegistrySpec => []RegistryTypeOK
<1>1. QED  BY RInvTypes, InitRInv, NextRInv, PTL DEF RegistrySpec

\* What is open is whole, whatever the handlers of one repository do at once: it
\* has one descriptor and one place in the list, and once nobody is at work it is
\* watched or the interface says it is not, unless handlers of it have met.
THEOREM WholeRepositories == RegistrySpec => []OpenRepositoriesAreWhole
<1>1. RInv => OpenRepositoriesAreWhole
  <2> SUFFICES ASSUME RInv PROVE OpenRepositoriesAreWhole  OBVIOUS
  <2>1. DescriptorsFollowEntries  BY DEF RInv, Books, Counts, DescriptorsFollowEntries
  <2>2. ASSUME NEW r \in Repos
        PROVE  Cardinality({i \in DOMAIN order : order[i] = r}) = IF byID[r] = 0 THEN 0 ELSE 1
    <3>1. /\ DOMAIN order = 1..Len(order)
          /\ \A i, j \in 1..Len(order) : order[i] = order[j] => i = j
          /\ byID[r] # 0 <=> \E i \in 1..Len(order) : order[i] = r
      BY DEF RInv, Books, Lists
    <3>2. CASE byID[r] = 0
      <4>1. {i \in DOMAIN order : order[i] = r} = {}  BY <3>1, <3>2
      <4>2. QED  BY <3>2, <4>1, FS_EmptySet
    <3>3. CASE byID[r] # 0
      <4>1. PICK i \in 1..Len(order) : order[i] = r  BY <3>1, <3>3
      <4>2. {j \in DOMAIN order : order[j] = r} = {i}  BY <3>1, <4>1
      <4>3. QED  BY <3>3, <4>2, FS_Singleton
    <3>4. QED  BY <3>2, <3>3
  <2>3. OpenIsWatchedOrSaysSo
    <3> SUFFICES ASSUME AtRest, NEW r \in Repos, byID[r] # 0, SameDirectory(r, byID[r]),
                        ~crossed[r]
                 PROVE  watched[r] = byID[r] \/ reason[r]
      BY DEF OpenIsWatchedOrSaysSo
    <3>1. \A c \in Callers : call[c].at \notin Opening  BY DEF AtRest, Idle, Opening
    <3>2. Quiet(r)  BY <3>1 DEF RInv, EachOrderly, Orderly, Settled
    <3>3. QED  BY <3>2 DEF Quiet, SameDirectory
  <2>4. QED  BY <2>1, <2>2, <2>3, RInvTypes DEF OpenRepositoriesAreWhole, ListNamesTheOpen
<1>2. QED  BY <1>1, InitRInv, NextRInv, PTL DEF RegistrySpec

\* Nobody but itself moves a handler that is at work.
LEMMA MovesItself ==
    ASSUME RegistryShapes, NEW c \in Callers, call[c].at # "idle", RegistryNext, call'[c] # call[c]
    PROVE  Handler(c)
<1>1. call \in [Callers -> {Idle} \cup Working]  BY DEF RegistryShapes
<1>2. ASSUME NEW d \in Callers, d # c, Handler(d)  PROVE call'[c] = call[c]
  <2>1. (\E step : Proceed(d, step)) \/ Finish(d)
    <3>1. CASE Open(d)
      <4>1. \A held, listed, r : Pin(d, r, held, listed) => Proceed(d, "watch") \/ Finish(d)
        BY DEF Pin
      <4>2. QED  BY <3>1, <4>1 DEF Open
    <3>2. CASE \/ Watch(d) \/ Warn(d) \/ Clear(d) \/ ForgetDeletion(d) \/ ForgetWarning(d)
               \/ ForgetWatch(d) \/ Check(d) \/ Serve(d)
      BY <3>2
      DEF Watch, Warn, Clear, ForgetDeletion, ForgetWarning, ForgetWatch, Check, Serve
    <3>3. QED  BY <1>2, <3>1, <3>2 DEF Handler
  <2>2. QED  BY <1>1, <1>2, <2>1 DEF Proceed, Finish
<1>3. ASSUME NEW d \in Callers, NEW r \in Repos, Locate(d, r) \/ Close(d, r) \/ Find(d, r)
      PROVE  call'[c] = call[c]
  <2>1. PICK step, found : Start(d, r, step, found)  BY <1>3 DEF Locate, Close, Find
  <2>2. d # c  BY <2>1 DEF Start, Idle
  <2>3. QED  BY <1>1, <2>1, <2>2 DEF Start
<1>4. ASSUME NEW r \in Repos, Make(r) \/ Remove(r)  PROVE call'[c] = call[c]
  BY <1>4 DEF Make, Remove, callers
<1>5. QED  BY <1>2, <1>3, <1>4 DEF RegistryNext

\* An identifier serves the directory it was given to, or answers that it is gone,
\* whatever takes its place and when; and a close that meets no other request of
\* its repository leaves nothing of it.
THEOREM PromisesKept == RegistrySpec => IdentifiersKeepTheirPromise
<1>1. RInv /\ [RegistryNext]_registryVars =>
        [\A c \in Callers : call[c].at = "check" /\ call'[c].at = "serve"
            => inode[call[c].repo] = call[c].found]_registryVars
  <2> SUFFICES ASSUME RInv, RegistryNext, NEW c \in Callers,
                      call[c].at = "check", call'[c].at = "serve"
               PROVE  inode[call[c].repo] = call[c].found
    OBVIOUS
  <2>1. Handler(c)  BY MovesItself DEF RInv
  <2>2. Check(c)
    BY <2>1
    DEF Handler, Open, Watch, Warn, Clear, ForgetDeletion, ForgetWarning, ForgetWatch, Serve
  <2>3. ~Finish(c)
    <3>1. call \in [Callers -> {Idle} \cup Working]  BY DEF RInv, RegistryShapes
    <3>2. QED  BY <3>1 DEF Finish, Idle
  <2>4. QED  BY <2>2, <2>3 DEF Check, SameDirectory
<1>2. RInv /\ [RegistryNext]_registryVars =>
        [\A c \in Callers : call[c].at = "forget watch" /\ call'[c].at = "idle" =>
            LET r == call[c].repo
            IN crossed[r] \/ (byID'[r] = 0 /\ watched'[r] = 0 /\ ~reason'[r]
                              /\ lostBranch'[r] = 0)]_registryVars
  <2> SUFFICES ASSUME RInv, RegistryNext, NEW c \in Callers,
                      call[c].at = "forget watch", call'[c].at = "idle",
                      ~crossed[call[c].repo]
               PROVE  /\ byID'[call[c].repo] = 0 /\ watched'[call[c].repo] = 0
                      /\ ~reason'[call[c].repo] /\ lostBranch'[call[c].repo] = 0
    OBVIOUS
  <2>1. PICK r \in Repos : call[c].repo = r  BY AtWork DEF RInv
  <2>2. Handler(c)  BY MovesItself DEF RInv
  <2>3. ForgetWatch(c)
    BY <2>2
    DEF Handler, Open, Watch, Warn, Clear, ForgetDeletion, ForgetWarning, Check, Serve
  <2>4. Promised(r, "forget watch")  BY <2>1 DEF RInv, EachOrderly, Orderly
  <2>5. byID[r] = 0 /\ lostBranch[r] = 0 /\ ~reason[r]  BY <2>4 DEF Promised, Closing
  <2>6. watched \in [Repos -> 0..inodes]  BY DEF RInv, RegistryShapes
  <2>7. QED  BY <2>1, <2>3, <2>5, <2>6 DEF ForgetWatch, registry
<1>3. QED
  BY <1>1, <1>2, InitRInv, NextRInv, PTL
  DEF RegistrySpec, IdentifiersKeepTheirPromise, ServesWhatWasOpened, CloseLeavesNothing
=============================================================================
