-------------------------- MODULE EventStreamProofs --------------------------
(***************************************************************************)
(* Proofs about EventStream for every number of tabs, every capacity and   *)
(* every bound.  The invariant is inductive once the ring is known to be   *)
(* the recent past (a replay is cut from it) and a connection that is down *)
(* is known to be blank.                                                   *)
(***************************************************************************)
EXTENDS EventStream, SequenceTheorems, FiniteSetTheorems, TLAPS

ConnType ==
    [up : BOOLEAN, chan : Seq(Event), missed : Seq(Event), lagging : BOOLEAN,
     cursor : Nat]

\* NoGapWhileKeepingUp for one subscriber of a stream whose last event is `last`.
GapFree(k, last) ==
    k.up /\ ~k.lagging =>
        LET owed == k.missed \o k.chan
        IN /\ k.cursor + Len(owed) = last
           /\ \A i \in 1..Len(owed) : owed[i].id = k.cursor + i

ConnOK(k, last) ==
    /\ k \in ConnType
    /\ GapFree(k, last)
    /\ Len(k.chan) <= SubscriberBuffer
    /\ ~k.up => k = NoConnection

DaemonOK ==
    /\ nextID \in Nat
    /\ buffer \in Seq(Event)
    /\ Len(buffer) <= BufferedEvents
    /\ RingIsTheRecentPast
    /\ done \in BOOLEAN
    /\ era \in Nat

ConnsOK ==
    /\ conn \in [Clients -> ConnType]
    /\ \A c \in Clients : ConnOK(conn[c], nextID)

TabsOK ==
    /\ lastSeen \in [Clients -> Nat \cup {None}]
    /\ executions \in [Clients -> Seq(Event)]
    /\ \A c \in Clients : Len(executions[c]) <= KeptExecutions

IInv == DaemonOK /\ ConnsOK /\ TabsOK

-----------------------------------------------------------------------------
(* The ring. *)

RecentPast(ring, last) ==
    /\ Len(ring) = IF last < BufferedEvents THEN last ELSE BufferedEvents
    /\ \A i \in 1..Len(ring) : ring[i].id = last - Len(ring) + i

\* The ring invariant is RecentPast of the current buffer and number.
LEMMA RingIsRecentPast == RingIsTheRecentPast <=> RecentPast(buffer, nextID)
BY DEF RingIsTheRecentPast, RecentPast

\* What publish makes of a ring it finds in order: still the recent past.
LEMMA RetainedKeepsTheRecentPast ==
    ASSUME NEW ring \in Seq(Event), NEW n \in Nat, NEW event \in Event,
           event.id = n + 1, RecentPast(ring, n),
           NEW next, next = Retained(Append(ring, event))
    PROVE  next \in Seq(Event) /\ RecentPast(next, n + 1)
<1> USE DEF RecentPast
<1> DEFINE longer == Append(ring, event)
<1>1. /\ longer \in Seq(Event)
      /\ Len(longer) = Len(ring) + 1
      /\ \A i \in 1..Len(longer) : longer[i].id = n + 1 - Len(longer) + i
  <2>1. /\ longer \in Seq(Event)
        /\ Len(longer) = Len(ring) + 1
        /\ \A i \in 1..Len(ring) : longer[i] = ring[i]
        /\ longer[Len(ring) + 1] = event
    BY AppendProperties
  <2>2. QED  BY <2>1
<1>2. CASE Len(longer) > BufferedEvents
  <2>1. longer # <<>>  BY <1>1, <1>2, BoundsAssumption, SMTT(30)
  <2>2. /\ Tail(longer) \in Seq(Event)
        /\ Len(Tail(longer)) = Len(longer) - 1
        /\ \A i \in 1..Len(Tail(longer)) : Tail(longer)[i] = longer[i + 1]
    BY <1>1, <2>1, HeadTailProperties
  <2>3. next = Tail(longer)  BY <1>2 DEF Retained
  <2> HIDE DEF longer
  <2>4. Len(ring) = BufferedEvents /\ Len(next) = BufferedEvents
    BY <1>1, <1>2, <2>2, <2>3, BoundsAssumption
  <2>5. ASSUME NEW i \in 1..Len(next)
        PROVE  next[i].id = n + 1 - Len(next) + i
    <3>1. i + 1 \in 1..Len(longer)  BY <1>1, <2>2, <2>3
    <3>2. longer[i + 1].id = n + 1 - Len(longer) + (i + 1)  BY <1>1, <3>1
    <3>3. next[i] = longer[i + 1]  BY <2>2, <2>3
    <3>4. Len(longer) \in Nat /\ i \in Int  BY <1>1, LenProperties
    <3>5. Len(next) = Len(longer) - 1  BY <2>2, <2>3
    <3>6. QED  BY <3>2, <3>3, <3>4, <3>5
  <2>6. n + 1 >= BufferedEvents  BY <1>1, <1>2, <2>4, BoundsAssumption
  <2>7. /\ next \in Seq(Event)
        /\ Len(next) = IF n + 1 < BufferedEvents THEN n + 1 ELSE BufferedEvents
    <3>1. next \in Seq(Event)  BY <2>2, <2>3
    <3>2. ~(n + 1 < BufferedEvents)  BY <2>6, BoundsAssumption
    <3>3. QED  BY <2>4, <3>1, <3>2
  <2>8. QED  BY <2>5, <2>7, SMTT(30)
<1>3. CASE ~(Len(longer) > BufferedEvents)
  <2>1. next = longer  BY <1>3 DEF Retained
  <2> HIDE DEF longer
  <2>2. QED  BY <1>1, <1>3, <2>1, BoundsAssumption
<1>4. QED  BY <1>2, <1>3

-----------------------------------------------------------------------------
(* One connection. *)

\* What is queued in a channel is queued behind the whole of what is owed.
LEMMA AppendBehind ==
    ASSUME NEW S, NEW s \in Seq(S), NEW t \in Seq(S), NEW e \in S
    PROVE  s \o Append(t, e) = Append(s \o t, e)
<1>1. /\ Append(t, e) = t \o <<e>>
      /\ <<e>> \in Seq(S)
      /\ s \o t \in Seq(S)
  BY AppendIsConcat, ConcatProperties
<1>2. Append(s \o t, e) = (s \o t) \o <<e>>  BY <1>1, AppendIsConcat
<1>3. QED  BY <1>1, <1>2, ConcatAssociative

\* publish either queues the event behind what is owed, or marks the overflow.
LEMMA OfferIsGapFree ==
    ASSUME NEW k \in ConnType, NEW n \in Nat, NEW event \in Event,
           event.id = n + 1, GapFree(k, n), Len(k.chan) <= SubscriberBuffer,
           ~k.up => k = NoConnection,
           NEW next, next = Offer(k, event)
    PROVE  /\ next \in ConnType
           /\ GapFree(next, n + 1)
           /\ Len(next.chan) <= SubscriberBuffer
           /\ next.cursor = k.cursor
           /\ ~next.up => next = NoConnection
<1>1. CASE ~k.up
  BY <1>1 DEF Offer, GapFree
<1>2. CASE k.up /\ ~(Len(k.chan) < SubscriberBuffer)
  <2>1. next = [k EXCEPT !.lagging = TRUE]  BY <1>2 DEF Offer
  <2>2. QED  BY <1>2, <2>1 DEF GapFree, ConnType
<1>3. CASE k.up /\ Len(k.chan) < SubscriberBuffer
  <2> DEFINE owed == k.missed \o k.chan
             later == k.missed \o Append(k.chan, event)
  <2>1. next = [k EXCEPT !.chan = Append(k.chan, event)]  BY <1>3 DEF Offer, ConnType
  <2>2. /\ k.chan \in Seq(Event)
        /\ k.missed \in Seq(Event)
    BY DEF ConnType
  <2>3. /\ Append(k.chan, event) \in Seq(Event)
        /\ Len(Append(k.chan, event)) = Len(k.chan) + 1
    BY <2>2, AppendProperties
  <2>4. owed \in Seq(Event) /\ Len(owed) \in Nat  BY <2>2, ConcatProperties, LenProperties
  <2>5. later = Append(owed, event)
    <3>1. \A s, t \in Seq(Event) : s \o Append(t, event) = Append(s \o t, event)
      BY AppendBehind
    <3>2. QED  BY <2>2, <3>1
  <2>6. /\ Len(later) = Len(owed) + 1
        /\ \A i \in 1..Len(owed) : later[i] = owed[i]
        /\ later[Len(owed) + 1] = event
    <3> HIDE DEF owed, later
    <3>1. QED  BY <2>4, <2>5, AppendProperties
  <2>7. GapFree(next, n + 1)
    <3>1. CASE k.lagging
      BY <2>1, <3>1 DEF GapFree, ConnType
    <3>2. CASE ~k.lagging
      <4>1. /\ k.cursor + Len(owed) = n
            /\ \A i \in 1..Len(owed) : owed[i].id = k.cursor + i
        BY <1>3, <3>2 DEF GapFree
      <4>2. k.cursor \in Nat  BY DEF ConnType
      <4>3. /\ k.cursor + Len(later) = n + 1
            /\ \A i \in 1..Len(later) : later[i].id = k.cursor + i
        <5> HIDE DEF owed, later
        <5>1. k.cursor + Len(later) = n + 1  BY <2>4, <2>6, <4>1, <4>2, SMTT(30)
        <5>2. ASSUME NEW i \in 1..Len(later)
              PROVE  later[i].id = k.cursor + i
          <6>1. CASE i \in 1..Len(owed)  BY <2>6, <4>1, <6>1
          <6>2. CASE i = Len(owed) + 1
            <7>1. later[i] = event  BY <2>6, <6>2
            <7>2. QED  BY <2>4, <4>1, <4>2, <6>2, <7>1, SMTT(30)
          <6>3. QED  BY <2>4, <2>6, <6>1, <6>2
        <5>3. QED  BY <5>1, <5>2
      <4>4. /\ next.missed \o next.chan = later
            /\ next.cursor = k.cursor
        BY <2>1 DEF ConnType
      <4>5. QED  BY <4>3, <4>4 DEF GapFree
    <3>3. QED  BY <3>1, <3>2
  <2>8. next \in ConnType  BY <2>1, <2>3 DEF ConnType
  <2>9. /\ next.chan = Append(k.chan, event)
        /\ next.cursor = k.cursor
        /\ next.up
    BY <1>3, <2>1 DEF ConnType
  <2>10. QED  BY <1>3, <2>2, <2>3, <2>7, <2>8, <2>9, BoundsAssumption
<1>4. QED  BY <1>1, <1>2, <1>3 DEF ConnType

\* Taking the head of the front sequence takes the head of the whole.
LEMMA TailInFront ==
    ASSUME NEW S, NEW s \in Seq(S), s # <<>>, NEW t \in Seq(S)
    PROVE  /\ Head(s) = (s \o t)[1]
           /\ Len(Tail(s) \o t) = Len(s \o t) - 1
           /\ \A i \in 1..Len(Tail(s) \o t) : (Tail(s) \o t)[i] = (s \o t)[i + 1]
<1>1. /\ Tail(s) \in Seq(S)
      /\ Len(Tail(s)) = Len(s) - 1
      /\ \A i \in 1..Len(Tail(s)) : Tail(s)[i] = s[i + 1]
  BY HeadTailProperties
<1>2. Len(s) \in Nat \ {0} /\ Len(t) \in Nat /\ Head(s) = s[1]
  BY LenProperties, EmptySeq
<1>3. /\ Len(s \o t) = Len(s) + Len(t)
      /\ \A i \in 1..Len(s) + Len(t) :
            (s \o t)[i] = IF i <= Len(s) THEN s[i] ELSE t[i - Len(s)]
  BY ConcatProperties
<1>4. /\ Len(Tail(s) \o t) = Len(Tail(s)) + Len(t)
      /\ \A i \in 1..Len(Tail(s)) + Len(t) :
            (Tail(s) \o t)[i] = IF i <= Len(Tail(s)) THEN Tail(s)[i]
                                ELSE t[i - Len(Tail(s))]
  BY <1>1, ConcatProperties
<1>5. Head(s) = (s \o t)[1]  BY <1>2, <1>3
<1>6. Len(Tail(s) \o t) = Len(s \o t) - 1  BY <1>1, <1>2, <1>3, <1>4
<1>7. ASSUME NEW i \in 1..Len(Tail(s) \o t)
      PROVE  (Tail(s) \o t)[i] = (s \o t)[i + 1]
  <2>1. i \in 1..Len(Tail(s)) + Len(t) /\ i + 1 \in 1..Len(s) + Len(t)
    BY <1>1, <1>2, <1>4
  <2>2. CASE i <= Len(Tail(s))
    <3>1. (Tail(s) \o t)[i] = Tail(s)[i]  BY <1>4, <2>1, <2>2
    <3>2. Tail(s)[i] = s[i + 1]  BY <1>1, <1>2, <2>1, <2>2
    <3>3. i + 1 <= Len(s)  BY <1>1, <1>2, <2>1, <2>2
    <3>4. (s \o t)[i + 1] = s[i + 1]  BY <1>3, <2>1, <3>3
    <3>5. QED  BY <3>1, <3>2, <3>4
  <2>3. CASE ~(i <= Len(Tail(s)))
    <3>1. (Tail(s) \o t)[i] = t[i - Len(Tail(s))]  BY <1>4, <2>1, <2>3
    <3>2. ~(i + 1 <= Len(s))  BY <1>1, <1>2, <2>1, <2>3
    <3>3. (s \o t)[i + 1] = t[(i + 1) - Len(s)]  BY <1>3, <2>1, <3>2
    <3>4. (i + 1) - Len(s) = i - Len(Tail(s))  BY <1>1, <1>2, <2>1
    <3>5. QED  BY <3>1, <3>3, <3>4
  <2>4. QED  BY <2>2, <2>3
<1>8. QED  BY <1>5, <1>6, <1>7

\* Writing what is owed first, from the replay while there is one.
LEMMA WritingMissedIsGapFree ==
    ASSUME NEW k \in ConnType, NEW n \in Nat, GapFree(k, n), k.missed # <<>>,
           NEW next,
           next = [k EXCEPT !.missed = Tail(k.missed), !.cursor = Head(k.missed).id]
    PROVE  next \in ConnType /\ GapFree(next, n) /\ next.up = k.up /\ next.chan = k.chan
<1>1. k.missed \in Seq(Event) /\ k.chan \in Seq(Event)  BY DEF ConnType
<1>2. Tail(k.missed) \in Seq(Event) /\ Head(k.missed) \in Event
  BY <1>1, HeadTailProperties
<1>3. next \in ConnType /\ next.up = k.up /\ next.chan = k.chan
  BY <1>2 DEF ConnType, Event
<1>4. ASSUME k.up, ~k.lagging
      PROVE  /\ next.cursor + Len(next.missed \o next.chan) = n
             /\ \A i \in 1..Len(next.missed \o next.chan) :
                   (next.missed \o next.chan)[i].id = next.cursor + i
  <2> DEFINE owed == k.missed \o k.chan
             rest == Tail(k.missed) \o k.chan
  <2>1. /\ k.cursor + Len(owed) = n
        /\ \A i \in 1..Len(owed) : owed[i].id = k.cursor + i
    BY <1>4 DEF GapFree
  <2>2. /\ Head(k.missed) = owed[1]
        /\ Len(rest) = Len(owed) - 1
        /\ \A i \in 1..Len(rest) : rest[i] = owed[i + 1]
    <3>1. \A s, t \in Seq(Event) : s # <<>> =>
             /\ Head(s) = (s \o t)[1]
             /\ Len(Tail(s) \o t) = Len(s \o t) - 1
             /\ \A i \in 1..Len(Tail(s) \o t) : (Tail(s) \o t)[i] = (s \o t)[i + 1]
      BY TailInFront, SMTT(30)
    <3>2. QED  BY <1>1, <3>1
  <2>3. /\ next.missed \o next.chan = rest
        /\ next.cursor = Head(k.missed).id
        /\ k.cursor \in Nat
    BY DEF ConnType
  <2>4. Len(owed) \in Nat /\ Len(rest) \in Nat
    BY <1>1, <1>2, ConcatProperties, LenProperties
  <2> HIDE DEF owed, rest
  <2>5. next.cursor = k.cursor + 1  BY <2>1, <2>2, <2>3, <2>4
  <2>6. ASSUME NEW i \in 1..Len(rest)
        PROVE  rest[i].id = next.cursor + i
    <3>1. i + 1 \in 1..Len(owed)  BY <2>2, <2>4
    <3>2. owed[i + 1].id = k.cursor + (i + 1)  BY <2>1, <3>1
    <3>3. rest[i] = owed[i + 1] /\ i \in Int  BY <2>2
    <3>4. QED  BY <2>3, <2>5, <3>2, <3>3
  <2>7. next.cursor + Len(rest) = n  BY <2>1, <2>2, <2>3, <2>4, <2>5
  <2>8. QED  BY <2>3, <2>6, <2>7
<1>5. next.lagging = k.lagging  BY DEF ConnType
<1>6. QED  BY <1>3, <1>4, <1>5 DEF GapFree

\* The same from the channel, once the replay is written out.
LEMMA WritingEventIsGapFree ==
    ASSUME NEW k \in ConnType, NEW n \in Nat, GapFree(k, n),
           k.missed = <<>>, k.chan # <<>>, NEW next,
           next = [k EXCEPT !.chan = Tail(k.chan), !.cursor = Head(k.chan).id]
    PROVE  /\ next \in ConnType /\ GapFree(next, n) /\ next.up = k.up
           /\ Len(next.chan) = Len(k.chan) - 1
<1>1. k.chan \in Seq(Event) /\ k.missed \in Seq(Event)  BY DEF ConnType
<1>2. /\ Tail(k.chan) \in Seq(Event)
      /\ Head(k.chan) \in Event
      /\ Head(k.chan) = k.chan[1]
      /\ Len(Tail(k.chan)) = Len(k.chan) - 1
      /\ \A i \in 1..Len(Tail(k.chan)) : Tail(k.chan)[i] = k.chan[i + 1]
  BY <1>1, HeadTailProperties
<1>3. /\ next \in ConnType
      /\ next.up = k.up
      /\ next.lagging = k.lagging
      /\ next.chan = Tail(k.chan)
      /\ next.missed = <<>>
      /\ next.cursor = Head(k.chan).id
  BY <1>2 DEF ConnType, Event
<1>4. /\ k.missed \o k.chan = k.chan
      /\ next.missed \o next.chan = Tail(k.chan)
  BY <1>1, <1>2, <1>3, ConcatEmptySeq
<1>5. ASSUME k.up, ~k.lagging
      PROVE  /\ next.cursor + Len(Tail(k.chan)) = n
             /\ \A i \in 1..Len(Tail(k.chan)) : Tail(k.chan)[i].id = next.cursor + i
  <2>1. /\ k.cursor + Len(k.chan) = n
        /\ \A i \in 1..Len(k.chan) : k.chan[i].id = k.cursor + i
    BY <1>4, <1>5 DEF GapFree
  <2>2. Len(k.chan) \in Nat \ {0} /\ k.cursor \in Nat
    BY <1>1, LenProperties, EmptySeq DEF ConnType
  <2>3. next.cursor = k.cursor + 1  BY <1>2, <1>3, <2>1, <2>2
  <2>4. ASSUME NEW i \in 1..Len(Tail(k.chan))
        PROVE  Tail(k.chan)[i].id = next.cursor + i
    <3>1. i + 1 \in 1..Len(k.chan)  BY <1>2, <2>2
    <3>2. k.chan[i + 1].id = k.cursor + (i + 1)  BY <2>1, <3>1
    <3>3. Tail(k.chan)[i] = k.chan[i + 1] /\ i \in Int  BY <1>2
    <3>4. QED  BY <2>2, <2>3, <3>2, <3>3, SMTT(30)
  <2>5. QED  BY <1>2, <2>1, <2>2, <2>3, <2>4
<1>6. GapFree(next, n)  BY <1>3, <1>4, <1>5 DEF GapFree
<1>7. QED  BY <1>2, <1>3, <1>6

-----------------------------------------------------------------------------
(* A subscription. *)

\* A replay cut from a ring in order is what the tab missed, from its resume
\* point to the latest event.
LEMMA ReplayIsWhatWasMissed ==
    ASSUME buffer \in Seq(Event), nextID \in Nat, RingIsTheRecentPast,
           NEW after \in Nat \cup {None}
    PROVE  /\ Missed(after) \in Seq(Event)
           /\ ResumePoint(after) \in Nat
           /\ ResumePoint(after) + Len(Missed(after)) = nextID
           /\ \A i \in 1..Len(Missed(after)) :
                 Missed(after)[i].id = ResumePoint(after) + i
<1>1. CASE after = None
  <2>1. Missed(after) = <<>> /\ ResumePoint(after) = nextID
    BY <1>1 DEF Missed, ResumePoint
  <2>2. QED  BY <2>1
<1>2. CASE after # None
  <2> DEFINE length == Len(buffer)
             base == nextID - length
             seen == {i \in DOMAIN buffer : buffer[i].id <= after}
             m == IF after < base THEN 0
                  ELSE IF after > nextID THEN length ELSE after - base
  <2>1. after \in Nat  BY <1>2
  <2>2. /\ length \in Nat /\ DOMAIN buffer = 1..length
        /\ base \in Nat
        /\ \A i \in 1..length : buffer[i] \in Event /\ buffer[i].id = base + i
    <3>1. length \in Nat /\ DOMAIN buffer = 1..length  BY LenProperties
    <3>2. base \in Nat  BY <3>1, BoundsAssumption DEF RingIsTheRecentPast
    <3>3. \A i \in 1..length : buffer[i] \in Event  BY ElementOfSeq
    <3>4. \A i \in 1..length : buffer[i].id = base + i  BY DEF RingIsTheRecentPast
    <3>5. QED  BY <3>1, <3>2, <3>3, <3>4
  <2>3. m \in 0..length  BY <2>1, <2>2
  <2>4. seen = 1..m
    <3>1. \A i : i \in seen <=> i \in 1..length /\ base + i <= after
      BY <2>2
    <3>2. nextID = base + length  BY <2>2
    <3> HIDE DEF length, base, seen
    <3>3. \A i \in 1..length : base + i <= after <=> i <= m  BY <2>1, <2>2, <3>2
    <3> HIDE DEF m
    <3>4. ASSUME NEW i \in seen  PROVE i \in 1..m
      <4>1. i \in 1..length /\ i <= m  BY <3>1, <3>3
      <4>2. QED  BY <2>3, <4>1
    <3>5. ASSUME NEW i \in 1..m  PROVE i \in seen
      <4>1. i \in 1..length /\ i <= m  BY <2>2, <2>3
      <4>2. QED  BY <3>1, <3>3, <4>1
    <3>6. QED  BY <3>4, <3>5
  <2>5. Cardinality(seen) = m
    <3> HIDE DEF length, seen
    <3>1. m \in Int  BY <2>2, <2>3
    <3> HIDE DEF m
    <3>2. \A a, b \in Int : Cardinality(a..b) = IF a > b THEN 0 ELSE b - a + 1
      BY FS_Interval
    <3>3. QED  BY <2>2, <2>3, <2>4, <3>1, <3>2
  <2>6. Missed(after) = SubSeq(buffer, m + 1, length)
    BY <1>2, <2>5 DEF Missed
  <2>7. ResumePoint(after) = base + m
    BY <1>2, <2>1, <2>2 DEF ResumePoint, Oldest
  <2> HIDE DEF length, base, m, seen
  <2>8. /\ Missed(after) \in Seq(Event)
        /\ Len(Missed(after)) = IF m + 1 <= length THEN length - (m + 1) + 1 ELSE 0
        /\ \A i \in 1..length - (m + 1) + 1 : Missed(after)[i] = buffer[m + 1 + i - 1]
    <3>1. m + 1 \in Int /\ length \in Int /\ \A i \in (m + 1)..length : buffer[i] \in Event
      BY <2>2, <2>3
    <3>2. QED  BY <2>6, <3>1, SubSeqProperties
  <2>9. Len(Missed(after)) = length - m  BY <2>2, <2>3, <2>8
  <2>10. base + length = nextID  BY <2>2 DEF base, length
  <2>11. ASSUME NEW i \in 1..Len(Missed(after))
         PROVE  Missed(after)[i].id = ResumePoint(after) + i
    <3>1. /\ i \in 1..length - (m + 1) + 1
          /\ m + i \in 1..length
          /\ m + 1 + i - 1 = m + i
      BY <2>2, <2>3, <2>9
    <3>2. Missed(after)[i] = buffer[m + i]  BY <2>8, <3>1
    <3>3. buffer[m + i].id = base + (m + i)  BY <2>2, <3>1
    <3>4. QED  BY <2>2, <2>3, <2>7, <3>1, <3>2, <3>3
  <2>12. QED  BY <2>2, <2>3, <2>7, <2>8, <2>9, <2>10, <2>11
<1>3. QED  BY <1>1, <1>2

-----------------------------------------------------------------------------
(* The tab's list. *)

\* A tab that hears of a command keeps no more than KEPT_EXECUTIONS of them.
LEMMA HeardKeepsItsLength ==
    ASSUME NEW held \in Seq(Event), Len(held) <= KeptExecutions,
           NEW event \in Event
    PROVE  /\ Heard(held, event) \in Seq(Event)
           /\ Len(Heard(held, event)) <= KeptExecutions
<1> DEFINE longer == Append(held, event)
<1>1. longer \in Seq(Event) /\ Len(longer) \in Nat
  BY AppendProperties, LenProperties
<1>2. /\ LastOf(longer, KeptExecutions) \in Seq(Event)
      /\ Len(LastOf(longer, KeptExecutions)) <= KeptExecutions
  <2> HIDE DEF longer
  <2>1. CASE Len(longer) > KeptExecutions
    <3> DEFINE m == Len(longer) - KeptExecutions + 1
    <3>1. m \in 1..Len(longer)  BY <1>1, <2>1, BoundsAssumption
    <3>2. \A i \in m..Len(longer) : longer[i] \in Event
      <4>1. \A i \in 1..Len(longer) : longer[i] \in Event  BY <1>1, ElementOfSeq
      <4>2. QED  BY <1>1, <3>1, <4>1
    <3>3. LastOf(longer, KeptExecutions) = SubSeq(longer, m, Len(longer))
      BY <2>1 DEF LastOf
    <3> HIDE DEF m
    <3>4. m \in Int /\ Len(longer) \in Int  BY <1>1, <3>1
    <3>5. /\ SubSeq(longer, m, Len(longer)) \in Seq(Event)
          /\ Len(SubSeq(longer, m, Len(longer)))
               = IF m <= Len(longer) THEN Len(longer) - m + 1 ELSE 0
      BY <3>2, <3>4, SubSeqProperties
    <3>6. Len(longer) - m + 1 = KeptExecutions  BY <1>1, BoundsAssumption DEF m
    <3>7. QED  BY <3>1, <3>3, <3>5, <3>6, BoundsAssumption
  <2>2. CASE ~(Len(longer) > KeptExecutions)
    <3>1. LastOf(longer, KeptExecutions) = longer  BY <2>2 DEF LastOf
    <3>2. QED  BY <1>1, <2>2, <3>1, BoundsAssumption
  <2>3. QED  BY <2>1, <2>2
<1>3. QED  BY <1>2 DEF Heard

\* A tab that receives an event keeps its types and its length.
LEMMA ReceiveKeepsTabsOK ==
    ASSUME TabsOK, NEW c \in Clients, NEW event \in Event, Receive(c, event)
    PROVE  TabsOK'
<1>1. lastSeen' \in [Clients -> Nat \cup {None}]
  BY DEF TabsOK, Receive, Event
<1>2. /\ executions[c] \in Seq(Event)
      /\ Len(executions[c]) <= KeptExecutions
  BY DEF TabsOK
<1>3. /\ Heard(executions[c], event) \in Seq(Event)
      /\ Len(Heard(executions[c], event)) <= KeptExecutions
  BY <1>2, HeardKeepsItsLength
<1>4. executions' = [executions EXCEPT ![c] = Heard(executions[c], event)]
  BY DEF Receive, TabsOK
<1>5. QED  BY <1>1, <1>3, <1>4 DEF TabsOK

-----------------------------------------------------------------------------
(* The specification. *)

\* A tab that is not connected is owed nothing, whatever was published.
LEMMA NoConnectionOK == \A n : ConnOK(NoConnection, n)
<1>1. NoConnection \in ConnType  BY EmptySeq DEF NoConnection, ConnType
<1>2. QED  BY <1>1, EmptySeq, BoundsAssumption DEF ConnOK, GapFree, NoConnection

\* Nothing is published and nobody is connected, so the invariant holds.
LEMMA InitIInv == Init => IInv
<1> SUFFICES ASSUME Init PROVE IInv  OBVIOUS
<1>1. DaemonOK
  <2>1. nextID = 0 /\ buffer \in Seq(Event) /\ Len(buffer) = 0
    BY EmptySeq DEF Init
  <2>2. RingIsTheRecentPast  BY <2>1, BoundsAssumption DEF RingIsTheRecentPast
  <2>3. done \in BOOLEAN /\ era \in Nat  BY DEF Init
  <2>4. QED  BY <2>1, <2>2, <2>3, BoundsAssumption DEF DaemonOK
<1>2. ConnsOK
  BY NoConnectionOK DEF Init, ConnsOK, ConnOK
<1>3. TabsOK
  BY EmptySeq, BoundsAssumption DEF Init, TabsOK
<1>4. QED  BY <1>1, <1>2, <1>3 DEF IInv

\* One connection changes and the others are left alone.
LEMMA OneConnection ==
    ASSUME ConnsOK, nextID' = nextID, NEW c \in Clients, NEW k,
           ConnOK(k, nextID), conn' = [conn EXCEPT ![c] = k]
    PROVE  ConnsOK'
BY DEF ConnsOK, ConnOK

\* Publishing shifts the ring and offers the event to every subscriber.
LEMMA PublishIInv ==
    ASSUME IInv, NEW kind \in Kinds, Publish(kind)
    PROVE  IInv'
<1> DEFINE event == [id |-> nextID + 1, kind |-> kind, era |-> era]
<1>1. event \in Event /\ event.id = nextID + 1 /\ nextID' = nextID + 1
  BY DEF IInv, DaemonOK, Event, Publish
<1>2. /\ buffer' = Retained(Append(buffer, event))
      /\ conn' = [c \in Clients |-> Offer(conn[c], event)]
  BY DEF Publish
<1> HIDE DEF event
<1>3. DaemonOK'
  <2>1. buffer \in Seq(Event) /\ nextID \in Nat /\ RecentPast(buffer, nextID)
    BY RingIsRecentPast DEF IInv, DaemonOK
  <2>2. buffer' \in Seq(Event) /\ RecentPast(buffer', nextID')
    BY <1>1, <1>2, <2>1, RetainedKeepsTheRecentPast
  <2>3. /\ RingIsTheRecentPast'
        /\ Len(buffer') <= BufferedEvents
    BY <1>1, <2>1, <2>2, BoundsAssumption DEF RingIsTheRecentPast, RecentPast
  <2>4. QED  BY <1>1, <2>1, <2>2, <2>3 DEF IInv, DaemonOK, Publish
<1>4. ConnsOK'
  <2>1. ASSUME NEW c \in Clients
        PROVE  ConnOK(Offer(conn[c], event), nextID + 1)
    BY <1>1, OfferIsGapFree DEF IInv, DaemonOK, ConnsOK, ConnOK
  <2>2. QED  BY <1>1, <1>2, <2>1 DEF ConnsOK, ConnOK
<1>5. TabsOK'  BY DEF IInv, TabsOK, Publish, tabs
<1>6. QED  BY <1>3, <1>4, <1>5 DEF IInv

\* Subscribing cuts the replay from a ring without a hole.
LEMMA SubscribeIInv ==
    ASSUME IInv, NEW c \in Clients, Subscribe(c)
    PROVE  IInv'
<1> DEFINE after == lastSeen[c]
           k == [up |-> TRUE, chan |-> <<>>, missed |-> Missed(after),
                 lagging |-> FALSE, cursor |-> ResumePoint(after)]
<1>1. after \in Nat \cup {None}  BY DEF IInv, TabsOK
<1>2. /\ Missed(after) \in Seq(Event)
      /\ ResumePoint(after) \in Nat
      /\ ResumePoint(after) + Len(Missed(after)) = nextID
      /\ \A i \in 1..Len(Missed(after)) :
            Missed(after)[i].id = ResumePoint(after) + i
  BY <1>1, ReplayIsWhatWasMissed DEF IInv, DaemonOK
<1>3. ConnOK(k, nextID)
  <2>1. k.missed \o k.chan = Missed(after)  BY <1>2, ConcatEmptySeq
  <2>2. k \in ConnType  BY <1>2, EmptySeq DEF ConnType
  <2>3. GapFree(k, nextID)  BY <1>2, <2>1 DEF GapFree
  <2>4. QED  BY <2>2, <2>3, EmptySeq, BoundsAssumption DEF ConnOK
<1>4. conn' = [conn EXCEPT ![c] = k] /\ UNCHANGED daemon /\ UNCHANGED tabs
  BY DEF Subscribe
<1> HIDE DEF k
<1>5. ConnsOK'  BY <1>3, <1>4, OneConnection DEF IInv, daemon
<1>6. QED
  BY <1>4, <1>5 DEF IInv, DaemonOK, RingIsTheRecentPast, TabsOK, daemon, tabs

\* Writing the replay, oldest first, moves the cursor by one event.
LEMMA WriteMissedIInv ==
    ASSUME IInv, NEW c \in Clients, WriteMissed(c)
    PROVE  IInv'
<1> DEFINE event == Head(conn[c].missed)
           k == [conn[c] EXCEPT !.missed = Tail(conn[c].missed), !.cursor = event.id]
<1>1. conn[c] \in ConnType /\ ConnOK(conn[c], nextID) /\ nextID \in Nat
  BY DEF IInv, ConnsOK, DaemonOK
<1>2. event \in Event
  BY <1>1, HeadTailProperties DEF WriteMissed, ConnType
<1>3. k \in ConnType /\ GapFree(k, nextID) /\ k.up = conn[c].up /\ k.chan = conn[c].chan
  <2>1. GapFree(conn[c], nextID) /\ conn[c].missed # <<>>
    BY <1>1 DEF WriteMissed, ConnOK
  <2>2. QED  BY <1>1, <2>1, WritingMissedIsGapFree
<1>4. conn' = [conn EXCEPT ![c] = k]  BY DEF WriteMissed, IInv, ConnsOK
<1>5. Receive(c, event) /\ UNCHANGED daemon  BY DEF WriteMissed
<1>6. TabsOK'  BY <1>2, <1>5, ReceiveKeepsTabsOK DEF IInv
<1> HIDE DEF event, k
<1>7. ConnOK(k, nextID)  BY <1>1, <1>3 DEF ConnOK, WriteMissed
<1>8. ConnsOK'  BY <1>4, <1>5, <1>7, OneConnection DEF IInv, daemon
<1>9. QED  BY <1>5, <1>6, <1>8 DEF IInv, DaemonOK, RingIsTheRecentPast, daemon

\* Writing from the channel, once the replay is out, moves it by one too.
LEMMA WriteEventIInv ==
    ASSUME IInv, NEW c \in Clients, WriteEvent(c)
    PROVE  IInv'
<1> DEFINE event == Head(conn[c].chan)
           k == [conn[c] EXCEPT !.chan = Tail(conn[c].chan), !.cursor = event.id]
<1>1. conn[c] \in ConnType /\ ConnOK(conn[c], nextID) /\ nextID \in Nat
  BY DEF IInv, ConnsOK, DaemonOK
<1>2. event \in Event
  BY <1>1, HeadTailProperties DEF WriteEvent, ConnType
<1>3. /\ k \in ConnType
      /\ GapFree(k, nextID)
      /\ k.up = conn[c].up
      /\ Len(k.chan) = Len(conn[c].chan) - 1
  BY <1>1, WritingEventIsGapFree, ZenonT(40) DEF WriteEvent, Looping, ConnOK
<1>4. conn' = [conn EXCEPT ![c] = k]  BY DEF WriteEvent, IInv, ConnsOK
<1>5. Receive(c, event) /\ UNCHANGED daemon  BY DEF WriteEvent
<1>6. TabsOK'  BY <1>2, <1>5, ReceiveKeepsTabsOK DEF IInv
<1>7. Len(conn[c].chan) \in Nat  BY <1>1, LenProperties DEF ConnType
<1> HIDE DEF event, k
<1>8. ConnOK(k, nextID)
  BY <1>1, <1>3, <1>7, BoundsAssumption DEF ConnOK, WriteEvent, Looping
<1>9. ConnsOK'  BY <1>4, <1>5, <1>8, OneConnection DEF IInv, daemon
<1>10. QED  BY <1>5, <1>6, <1>9 DEF IInv, DaemonOK, RingIsTheRecentPast, daemon

\* A connection that ends leaves its tab with none.
LEMMA LeaveIInv ==
    ASSUME IInv, NEW c \in Clients, Leave(c)
    PROVE  IInv'
<1>1. ConnsOK'
  BY NoConnectionOK, OneConnection DEF IInv, Leave, daemon
<1>2. QED
  BY <1>1 DEF IInv, DaemonOK, RingIsTheRecentPast, TabsOK, Leave, daemon, tabs

\* A new daemon starts with an empty ring and no connection.
LEMMA RestartIInv ==
    ASSUME IInv, Restart
    PROVE  IInv'
<1>1. DaemonOK'
  <2>1. nextID' = 0 /\ buffer' \in Seq(Event) /\ Len(buffer') = 0
    BY EmptySeq DEF Restart
  <2>2. RingIsTheRecentPast'  BY <2>1, BoundsAssumption DEF RingIsTheRecentPast
  <2>3. done' \in BOOLEAN /\ era' \in Nat
    <3>1. era \in Nat  BY DEF IInv, DaemonOK
    <3>2. era' \in Nat  BY <3>1 DEF Restart
    <3>3. done' \in BOOLEAN  BY DEF Restart
    <3>4. QED  BY <3>2, <3>3
  <2>4. QED  BY <2>1, <2>2, <2>3, BoundsAssumption DEF DaemonOK
<1>2. ConnsOK'
  BY NoConnectionOK DEF Restart, ConnsOK, ConnOK
<1>3. TabsOK'  BY DEF IInv, TabsOK, Restart, tabs
<1>4. QED  BY <1>1, <1>2, <1>3 DEF IInv

\* The invariant is inductive.
LEMMA NextIInv == IInv /\ [Next]_vars => IInv'
<1> SUFFICES ASSUME IInv, [Next]_vars PROVE IInv'  OBVIOUS
<1>1. ASSUME NEW kind \in Kinds, Publish(kind) PROVE IInv'  BY <1>1, PublishIInv
<1>2. CASE Close
  BY <1>2 DEF Close, tabs, IInv, DaemonOK, RingIsTheRecentPast, ConnsOK, TabsOK
<1>3. CASE Restart  BY <1>3, RestartIInv
<1>4. ASSUME NEW c \in Clients, WriteMissed(c) PROVE IInv'  BY <1>4, WriteMissedIInv
<1>5. ASSUME NEW c \in Clients, WriteEvent(c) PROVE IInv'  BY <1>5, WriteEventIInv
<1>6. ASSUME NEW c \in Clients, HangUpLagging(c) \/ HangUpDone(c) \/ Cut(c) PROVE IInv'
  BY <1>6, LeaveIInv DEF HangUpLagging, HangUpDone, Cut
<1>7. ASSUME NEW c \in Clients, Subscribe(c) PROVE IInv'  BY <1>7, SubscribeIInv
<1>8. ASSUME NEW c \in Clients, ReadBacklog(c) PROVE IInv'
  BY <1>8 DEF ReadBacklog, daemon, IInv, DaemonOK, RingIsTheRecentPast, ConnsOK, TabsOK
<1>9. CASE UNCHANGED vars
  BY <1>9 DEF vars, daemon, tabs, IInv, DaemonOK, RingIsTheRecentPast, ConnsOK, TabsOK
<1>10. QED
  BY <1>1, <1>2, <1>3, <1>4, <1>5, <1>6, <1>7, <1>8, <1>9
     DEF Next, Daemon, Handler, Tab

\* The invariant holds of every behaviour of the stream.
THEOREM Invariance == Spec => []IInv
BY InitIInv, NextIInv, PTL DEF Spec

\* Every value keeps its type: the ring, a channel and the panel their length.
THEOREM TypeCorrect == Spec => []TypeOK
<1>1. IInv => TypeOK
  BY DEF IInv, DaemonOK, ConnsOK, ConnOK, ConnType, TabsOK, TypeOK
<1>2. QED  BY <1>1, Invariance, PTL

\* EventStream.buffer is always the recent past: what a replay and the backlog
\* are cut from has no hole.
THEOREM RingHoldsTheRecentPast == Spec => []RingIsTheRecentPast
<1>1. IInv => RingIsTheRecentPast  BY DEF IInv, DaemonOK
<1>2. QED  BY <1>1, Invariance, PTL

\* subscribe and publish under one mutex, and the channel written after the
\* replay, leave no event out for a tab that keeps up.
THEOREM GapFreeDelivery == Spec => []NoGapWhileKeepingUp
<1>1. IInv => NoGapWhileKeepingUp
  BY DEF IInv, ConnsOK, ConnOK, GapFree, NoGapWhileKeepingUp, Pending
<1>2. QED  BY <1>1, Invariance, PTL
-----------------------------------------------------------------------------
(***************************************************************************)
(* The panel never draws one command twice.  What the tab heard names each *)
(* command once because a repeat is dropped, what the daemon answered does *)
(* because the ring is the recent past, and what is drawn because what was *)
(* heard and is in the answer is left out of it.                           *)
(***************************************************************************)

Distinct(events) ==
    \A i, j \in 1..Len(events) : events[i].id = events[j].id => i = j

PanelOK ==
    /\ backlog \in [Clients -> Seq(Event) \cup {None}]
    /\ \A c \in Clients : Distinct(executions[c])
    /\ \A c \in Clients : backlog[c] # None =>
          backlog[c] \in Seq(Event) /\ Distinct(backlog[c])

\* The end of a list without repeats has none.
LEMMA LastOfIsDistinct ==
    ASSUME NEW s \in Seq(Event), Distinct(s), NEW n \in Nat, NEW r, r = LastOf(s, n)
    PROVE  r \in Seq(Event) /\ Distinct(r)
<1>1. CASE ~(Len(s) > n)  BY <1>1 DEF LastOf
<1>2. CASE Len(s) > n
  <2> DEFINE m == Len(s) - n + 1
  <2>1. Len(s) \in Nat /\ \A i \in 1..Len(s) : s[i] \in Event
    BY LenProperties, ElementOfSeq
  <2>2. m \in Nat \ {0} /\ m <= Len(s) + 1  BY <1>2, <2>1
  <2>3. r = SubSeq(s, m, Len(s))  BY <1>2 DEF LastOf
  <2> HIDE DEF m
  <2>4. \A i \in m..Len(s) : i \in 1..Len(s)  BY <2>1, <2>2
  <2>5. \A i \in m..Len(s) : s[i] \in Event  BY <2>1, <2>4
  <2>6. /\ r \in Seq(Event)
        /\ Len(r) = IF m <= Len(s) THEN Len(s) - m + 1 ELSE 0
        /\ \A i \in 1..(Len(s) - m + 1) : r[i] = s[m + i - 1]
    BY <2>1, <2>2, <2>3, <2>5, SubSeqProperties
  <2>7. ASSUME NEW i \in 1..Len(r), NEW j \in 1..Len(r), r[i].id = r[j].id
        PROVE  i = j
    <3>1. i \in 1..(Len(s) - m + 1) /\ j \in 1..(Len(s) - m + 1)  BY <2>1, <2>2, <2>6
    <3>2. m + i - 1 \in 1..Len(s) /\ m + j - 1 \in 1..Len(s)  BY <2>1, <2>2, <3>1
    <3>3. s[m + i - 1].id = s[m + j - 1].id  BY <2>6, <2>7, <3>1
    <3>4. m + i - 1 = m + j - 1  BY <3>2, <3>3 DEF Distinct
    <3>5. QED  BY <2>2, <3>1, <3>4
  <2>8. QED  BY <2>6, <2>7 DEF Distinct
<1>3. QED  BY <1>1, <1>2

\* What is left of a list without repeats has none.
LEMMA SiftedIsDistinct ==
    ASSUME NEW s \in Seq(Event), Distinct(s), NEW kept \in SUBSET (1..Len(s)),
           NEW r, r = Sifted(s, kept)
    PROVE  /\ r \in Seq(Event) /\ Distinct(r)
           /\ \A n \in 1..Len(r) : \E i \in kept : r[n] = s[i]
<1> DEFINE size == Cardinality(kept)
           at == Place(kept)
<1>1. /\ r \in Seq(Event) /\ Len(r) = size /\ size \in Nat
      /\ at \in [1..size -> kept]
      /\ \A n \in 1..size : r[n] = s[at[n]]
      /\ \A m, n \in 1..size : m < n => at[m] < at[n]
  BY SiftedIsWhatIsKept
<1> HIDE DEF size, at
<1>2. ASSUME NEW m \in 1..size, NEW n \in 1..size, r[m].id = r[n].id
      PROVE  m = n
  <2>1. at[m] \in 1..Len(s) /\ at[n] \in 1..Len(s) /\ s[at[m]].id = s[at[n]].id
    BY <1>1, <1>2
  <2>2. at[m] = at[n]  BY <2>1 DEF Distinct
  <2>3. Len(s) \in Nat  BY LenProperties
  <2>4. at[m] \in Int  BY <2>1, <2>3
  <2>5. ~(m < n) /\ ~(n < m)  BY <1>1, <2>2, <2>4
  <2>6. QED  BY <1>1, <2>5
<1>3. QED  BY <1>1, <1>2 DEF Distinct

\* Two lists without repeats that share nothing have none together.
LEMMA ConcatIsDistinct ==
    ASSUME NEW s \in Seq(Event), NEW t \in Seq(Event), Distinct(s), Distinct(t),
           \A j \in 1..Len(t) : \A i \in 1..Len(s) : s[i].id # t[j].id,
           NEW r, r = s \o t
    PROVE  r \in Seq(Event) /\ Distinct(r)
<1>1. /\ r \in Seq(Event) /\ Len(r) = Len(s) + Len(t)
      /\ \A i \in 1..(Len(s) + Len(t)) :
            r[i] = IF i <= Len(s) THEN s[i] ELSE t[i - Len(s)]
  BY ConcatProperties
<1>2. Len(s) \in Nat /\ Len(t) \in Nat  BY LenProperties
<1>3. ASSUME NEW i \in 1..Len(r)
      PROVE  \/ i \in 1..Len(s) /\ r[i] = s[i]
             \/ i - Len(s) \in 1..Len(t) /\ r[i] = t[i - Len(s)]
  <2>1. CASE i <= Len(s)  BY <1>1, <1>2, <2>1
  <2>2. CASE ~(i <= Len(s))
    <3>1. i - Len(s) \in 1..Len(t)  BY <1>1, <1>2, <2>2
    <3>2. QED  BY <1>1, <2>2, <3>1
  <2>3. QED  BY <2>1, <2>2
<1>4. ASSUME NEW i \in 1..Len(r), NEW j \in 1..Len(r), r[i].id = r[j].id
      PROVE  i = j
  <2>1. CASE i \in 1..Len(s) /\ r[i] = s[i]
    <3>1. CASE j \in 1..Len(s) /\ r[j] = s[j]  BY <1>4, <2>1, <3>1 DEF Distinct
    <3>2. CASE j - Len(s) \in 1..Len(t) /\ r[j] = t[j - Len(s)]  BY <1>4, <2>1, <3>2
    <3>3. QED  BY <1>3, <3>1, <3>2
  <2>2. CASE i - Len(s) \in 1..Len(t) /\ r[i] = t[i - Len(s)]
    <3>1. CASE j \in 1..Len(s) /\ r[j] = s[j]  BY <1>4, <2>2, <3>1
    <3>2. CASE j - Len(s) \in 1..Len(t) /\ r[j] = t[j - Len(s)]
      <4>1. i - Len(s) = j - Len(s)  BY <1>4, <2>2, <3>2 DEF Distinct
      <4>2. i \in Int /\ j \in Int  BY <1>1, <1>2
      <4>3. QED  BY <1>2, <4>1, <4>2
    <3>3. QED  BY <1>3, <3>1, <3>2
  <2>3. QED  BY <1>3, <2>1, <2>2
<1>5. QED  BY <1>1, <1>4 DEF Distinct

\* The 'git' listener drops a repeat, so that what it keeps has none.
LEMMA HeardIsDistinct ==
    ASSUME NEW held \in Seq(Event), Distinct(held), NEW event \in Event
    PROVE  Distinct(Heard(held, event))
<1>1. CASE event.kind # "git" \/ Has(held, event.id)  BY <1>1 DEF Heard
<1>2. CASE ~(event.kind # "git" \/ Has(held, event.id))
  <2> DEFINE longer == Append(held, event)
  <2>1. /\ longer \in Seq(Event) /\ Len(longer) = Len(held) + 1
        /\ \A i \in 1..Len(held) : longer[i] = held[i]
        /\ longer[Len(held) + 1] = event
    BY AppendProperties
  <2>2. Len(held) \in Nat /\ DOMAIN held = 1..Len(held)  BY LenProperties
  <2>3. \A i \in 1..Len(held) : held[i].id # event.id  BY <1>2, <2>2 DEF Has
  <2>4. Heard(held, event) = LastOf(longer, KeptExecutions)  BY <1>2 DEF Heard
  <2> HIDE DEF longer
  <2>5. \A i \in 1..Len(longer) : i \in 1..Len(held) \/ i = Len(held) + 1  BY <2>1, <2>2
  <2>6. ASSUME NEW i \in 1..Len(longer), NEW j \in 1..Len(longer),
               longer[i].id = longer[j].id
        PROVE  i = j
    <3>1. CASE i \in 1..Len(held) /\ j \in 1..Len(held)
      BY <2>1, <2>6, <3>1 DEF Distinct
    <3>2. CASE i \in 1..Len(held) /\ j = Len(held) + 1
      BY <2>1, <2>3, <2>6, <3>2
    <3>3. CASE i = Len(held) + 1 /\ j \in 1..Len(held)
      BY <2>1, <2>3, <2>6, <3>3
    <3>4. QED  BY <2>5, <3>1, <3>2, <3>3
  <2>7. Distinct(longer)  BY <2>6 DEF Distinct
  <2>8. QED  BY <2>1, <2>4, <2>7, LastOfIsDistinct, BoundsAssumption
<1>3. QED  BY <1>1, <1>2

\* The ring ascends, so Executions answers each command once.
LEMMA BacklogIsDistinct ==
    ASSUME DaemonOK
    PROVE  Backlog \in Seq(Event) /\ Distinct(Backlog)
<1>1. /\ buffer \in Seq(Event) /\ nextID \in Nat /\ Len(buffer) \in Nat
      /\ DOMAIN buffer = 1..Len(buffer)
  BY LenProperties DEF DaemonOK
<1>2. \A i \in 1..Len(buffer) : buffer[i].id = nextID - Len(buffer) + i
  BY DEF DaemonOK, RingIsTheRecentPast
<1>3. Distinct(buffer)
  <2>1. ASSUME NEW i \in 1..Len(buffer), NEW j \in 1..Len(buffer),
               buffer[i].id = buffer[j].id
        PROVE  i = j
    <3>1. nextID - Len(buffer) + i = nextID - Len(buffer) + j  BY <1>2, <2>1
    <3>2. QED  BY <1>1, <3>1
  <2>2. QED  BY <2>1 DEF Distinct
<1> DEFINE commands == {i \in DOMAIN buffer : buffer[i].kind = "git"}
<1>4. commands \subseteq 1..Len(buffer)  BY <1>1
<1>5. Backlog = Sifted(buffer, commands)  BY DEF Backlog
<1> HIDE DEF commands
<1>6. QED  BY <1>1, <1>3, <1>4, <1>5, SiftedIsDistinct

\* What is drawn of a list and an answer without repeats has none.
LEMMA ShownIsDistinct ==
    ASSUME IInv, PanelOK, NEW c \in Clients
    PROVE  Shown(c) \in Seq(Event) /\ Distinct(Shown(c))
<1> DEFINE first == IF backlog[c] = None THEN <<>> ELSE backlog[c]
           unheard == {i \in DOMAIN executions[c] : ~Has(first, executions[c][i].id)}
           heard == Sifted(executions[c], unheard)
<1>1. first \in Seq(Event) /\ Distinct(first)
  <2>1. CASE backlog[c] = None  BY <2>1, EmptySeq DEF Distinct
  <2>2. CASE backlog[c] # None  BY <2>2 DEF PanelOK
  <2>3. QED  BY <2>1, <2>2
<1>2. executions[c] \in Seq(Event) /\ Distinct(executions[c])
  BY DEF IInv, TabsOK, PanelOK
<1>3. DOMAIN executions[c] = 1..Len(executions[c])  BY <1>2, LenProperties
<1>4. unheard \in SUBSET (1..Len(executions[c]))  BY <1>3
<1>5. \A i \in unheard : ~Has(first, executions[c][i].id)  OBVIOUS
<1>6. Shown(c) = LastOf(first \o heard, KeptExecutions)  BY DEF Shown
<1> HIDE DEF first, unheard
<1>7. /\ heard \in Seq(Event) /\ Distinct(heard)
      /\ \A n \in 1..Len(heard) : \E i \in unheard : heard[n] = executions[c][i]
  BY <1>2, <1>4, SiftedIsDistinct
<1> HIDE DEF heard
<1>8. DOMAIN first = 1..Len(first)  BY <1>1, LenProperties
<1>9. \A j \in 1..Len(heard) : \A i \in 1..Len(first) : first[i].id # heard[j].id
  BY <1>5, <1>7, <1>8 DEF Has
<1>10. first \o heard \in Seq(Event) /\ Distinct(first \o heard)
  BY <1>1, <1>7, <1>9, ConcatIsDistinct
<1>11. QED  BY <1>6, <1>10, LastOfIsDistinct, BoundsAssumption

\* What a tab receives is one more of its commands, or none.
LEMMA ReceivePanelOK ==
    ASSUME IInv, PanelOK, NEW c \in Clients, NEW event \in Event, Receive(c, event)
    PROVE  PanelOK'
<1>1. executions \in [Clients -> Seq(Event)]  BY DEF IInv, TabsOK
<1>2. /\ executions' = [executions EXCEPT ![c] = Heard(executions[c], event)]
      /\ backlog' = backlog
  BY DEF Receive
<1>3. Distinct(Heard(executions[c], event))  BY <1>1, HeardIsDistinct DEF PanelOK
<1>4. ASSUME NEW d \in Clients  PROVE Distinct(executions'[d])
  <2>1. CASE d = c
    <3>1. executions'[d] = Heard(executions[c], event)  BY <1>1, <1>2, <2>1
    <3>2. QED  BY <1>3, <3>1
  <2>2. CASE d # c
    <3>1. executions'[d] = executions[d]  BY <1>1, <1>2, <2>2
    <3>2. QED  BY <3>1 DEF PanelOK
  <2>3. QED  BY <2>1, <2>2
<1>5. QED  BY <1>2, <1>4 DEF PanelOK

\* Only what a tab hears and what the daemon answers it touches its panel.
LEMMA NextPanelOK == IInv /\ PanelOK /\ [Next]_vars => PanelOK'
<1> SUFFICES ASSUME IInv, PanelOK, [Next]_vars PROVE PanelOK'  OBVIOUS
<1>1. CASE UNCHANGED tabs  BY <1>1 DEF tabs, PanelOK
<1>2. ASSUME NEW c \in Clients, WriteMissed(c)  PROVE PanelOK'
  <2>1. conn[c].missed \in Seq(Event) /\ conn[c].missed # <<>>
    BY <1>2 DEF IInv, ConnsOK, ConnType, WriteMissed
  <2>2. Head(conn[c].missed) \in Event  BY <2>1, HeadTailProperties
  <2>3. Receive(c, Head(conn[c].missed))  BY <1>2 DEF WriteMissed
  <2>4. QED  BY <2>2, <2>3, ReceivePanelOK
<1>3. ASSUME NEW c \in Clients, WriteEvent(c)  PROVE PanelOK'
  <2>1. conn[c].chan \in Seq(Event) /\ conn[c].chan # <<>>
    BY <1>3 DEF IInv, ConnsOK, ConnType, WriteEvent
  <2>2. Head(conn[c].chan) \in Event  BY <2>1, HeadTailProperties
  <2>3. Receive(c, Head(conn[c].chan))  BY <1>3 DEF WriteEvent
  <2>4. QED  BY <2>2, <2>3, ReceivePanelOK
<1>4. ASSUME NEW c \in Clients, ReadBacklog(c)  PROVE PanelOK'
  <2>1. executions' = executions /\ backlog' = [backlog EXCEPT ![c] = Backlog]
    BY <1>4 DEF ReadBacklog
  <2>2. Backlog \in Seq(Event) /\ Distinct(Backlog)  BY BacklogIsDistinct DEF IInv
  <2>3. backlog \in [Clients -> Seq(Event) \cup {None}]  BY DEF PanelOK
  <2>4. backlog' \in [Clients -> Seq(Event) \cup {None}]  BY <2>1, <2>2, <2>3
  <2>5. ASSUME NEW d \in Clients, backlog'[d] # None
        PROVE  backlog'[d] \in Seq(Event) /\ Distinct(backlog'[d])
    <3>1. CASE d = c
      <4>1. backlog'[d] = Backlog  BY <2>1, <2>3, <3>1
      <4>2. QED  BY <2>2, <4>1
    <3>2. CASE d # c
      <4>1. backlog'[d] = backlog[d]  BY <2>1, <2>3, <3>2
      <4>2. QED  BY <2>5, <4>1 DEF PanelOK
    <3>3. QED  BY <3>1, <3>2
  <2>6. QED  BY <2>1, <2>4, <2>5 DEF PanelOK
<1>5. QED
  BY <1>1, <1>2, <1>3, <1>4
     DEF Next, Daemon, Handler, Tab, Publish, Close, Restart, Subscribe, HangUpLagging,
         HangUpDone, Cut, Leave, vars

\* Whichever of the backlog, the stream and a replay brought it, and whatever
\* restarts gave two commands one number, no number is drawn twice.
THEOREM DrawnOnce == Spec => []PanelDrawsOnce
<1>1. Init => PanelOK
  BY EmptySeq DEF Init, PanelOK, Distinct
<1>2. IInv /\ PanelOK => PanelDrawsOnce
  <2> SUFFICES ASSUME IInv, PanelOK, NEW c \in Clients
               PROVE  \A i, j \in DOMAIN Shown(c) :
                         Shown(c)[i].id = Shown(c)[j].id => i = j
    BY DEF PanelDrawsOnce
  <2>1. Shown(c) \in Seq(Event) /\ Distinct(Shown(c))  BY ShownIsDistinct
  <2>2. DOMAIN Shown(c) = 1..Len(Shown(c))  BY <2>1, LenProperties
  <2>3. QED  BY <2>1, <2>2 DEF Distinct
<1>3. QED  BY <1>1, <1>2, InitIInv, NextIInv, NextPanelOK, PTL DEF Spec

-----------------------------------------------------------------------------
(***************************************************************************)
(* The event stream implements OrderedFeed, and no tab hears an event of   *)
(* one daemon twice or after a later one, for every number of tabs, every  *)
(* capacity and every bound.  Above is what is owed to a tab that keeps    *)
(* up; here is what is owed to one that fell behind: not all of it, and    *)
(* still in order.                                                         *)
(***************************************************************************)

\* The events of a sequence come after `low`, one after the other, up to `high`.
Ascends(events, low, high) ==
    \A i \in 1..Len(events) :
        /\ low < events[i].id /\ events[i].id <= high
        /\ \A j \in 1..Len(events) : i < j => events[i].id < events[j].id

\* What is owed to a tab comes after what it was written last.
InOrder(k, last) ==
    k.up => k.cursor <= last /\ Ascends(k.missed \o k.chan, k.cursor, last)

OwedInOrder == \A c \in Clients : InOrder(conn[c], nextID)

RInv == IInv /\ OwedInOrder

-----------------------------------------------------------------------------
(* Sequences of events. *)

\* The events of a sequence are numbered.
LEMMA Numbered ==
    ASSUME NEW s \in Seq(Event)
    PROVE  Len(s) \in Nat /\ \A i \in 1..Len(s) : s[i].id \in Nat
<1>1. Len(s) \in Nat  BY LenProperties
<1>2. ASSUME NEW i \in 1..Len(s)  PROVE s[i].id \in Nat
  <2>1. s[i] \in Event  BY ElementOfSeq
  <2>2. QED  BY <2>1 DEF Event
<1>3. QED  BY <1>1, <1>2

\* The newest event is put behind the others.
LEMMA AscendsAppend ==
    ASSUME NEW s \in Seq(Event), NEW low \in Nat, NEW n \in Nat, low <= n,
           NEW event \in Event, event.id = n + 1, Ascends(s, low, n)
    PROVE  Ascends(Append(s, event), low, n + 1)
<1> DEFINE longer == Append(s, event)
<1>1. /\ Len(longer) = Len(s) + 1
      /\ \A i \in 1..Len(s) : longer[i] = s[i]
      /\ longer[Len(s) + 1] = event
  BY AppendProperties
<1>2. Len(s) \in Nat /\ \A i \in 1..Len(s) : s[i].id \in Nat  BY Numbered
<1> HIDE DEF longer
<1>3. ASSUME NEW i \in 1..Len(longer)
      PROVE  /\ low < longer[i].id /\ longer[i].id <= n + 1
             /\ \A j \in 1..Len(longer) : i < j => longer[i].id < longer[j].id
  <2>1. CASE i \in 1..Len(s)
    <3>1. longer[i] = s[i] /\ low < s[i].id /\ s[i].id <= n
      BY <1>1, <2>1 DEF Ascends
    <3>2. ASSUME NEW j \in 1..Len(longer), i < j  PROVE longer[i].id < longer[j].id
      <4>1. CASE j \in 1..Len(s)
        <5>1. longer[j] = s[j]  BY <1>1, <4>1
        <5>2. s[i].id < s[j].id  BY <2>1, <3>2, <4>1 DEF Ascends
        <5>3. QED  BY <3>1, <5>1, <5>2
      <4>2. CASE j = Len(s) + 1
        <5>1. longer[j] = event  BY <1>1, <4>2
        <5>2. QED  BY <1>2, <2>1, <3>1, <5>1
      <4>3. QED  BY <1>1, <1>2, <4>1, <4>2
    <3>3. QED  BY <1>2, <2>1, <3>1, <3>2
  <2>2. CASE i = Len(s) + 1
    <3>1. longer[i] = event  BY <1>1, <2>2
    <3>2. \A j \in 1..Len(longer) : ~(i < j)  BY <1>1, <1>2, <2>2
    <3>3. QED  BY <3>1, <3>2
  <2>3. QED  BY <1>1, <1>2, <2>1, <2>2
<1>4. QED  BY <1>3 DEF Ascends, longer

\* Once the first is written, the others come after it.
LEMMA AscendsTail ==
    ASSUME NEW s \in Seq(Event), NEW r \in Seq(Event), NEW low \in Nat, NEW n \in Nat,
           Len(s) # 0, Len(r) = Len(s) - 1, \A i \in 1..Len(r) : r[i] = s[i + 1],
           Ascends(s, low, n)
    PROVE  Ascends(r, s[1].id, n)
<1>1. Len(s) \in Nat \ {0} /\ Len(r) \in Nat  BY LenProperties
<1>2. ASSUME NEW i \in 1..Len(r)
      PROVE  /\ s[1].id < r[i].id /\ r[i].id <= n
             /\ \A j \in 1..Len(r) : i < j => r[i].id < r[j].id
  <2>1. 1 \in 1..Len(s) /\ i + 1 \in 1..Len(s) /\ 1 < i + 1  BY <1>1
  <2>2. s[1].id < s[i + 1].id /\ s[i + 1].id <= n  BY <2>1 DEF Ascends
  <2>3. ASSUME NEW j \in 1..Len(r), i < j  PROVE r[i].id < r[j].id
    <3>1. j + 1 \in 1..Len(s) /\ i + 1 < j + 1  BY <1>1, <2>3
    <3>2. s[i + 1].id < s[j + 1].id  BY <2>1, <3>1 DEF Ascends
    <3>3. QED  BY <3>2
  <2>4. QED  BY <2>2, <2>3
<1>3. QED  BY <1>2 DEF Ascends

-----------------------------------------------------------------------------
(* One connection. *)

\* publish puts an event behind all that is owed, or drops it.
LEMMA OfferIsInOrder ==
    ASSUME NEW k \in ConnType, NEW n \in Nat, NEW event \in Event, event.id = n + 1,
           InOrder(k, n)
    PROVE  /\ InOrder(Offer(k, event), n + 1)
           /\ Offer(k, event).up = k.up /\ Offer(k, event).cursor = k.cursor
           /\ k.lagging => Offer(k, event).lagging
           /\ Offer(k, event).lagging => k.lagging \/ k.up
<1> DEFINE next == Offer(k, event)
<1>1. /\ next.up = k.up /\ next.cursor = k.cursor /\ next.missed = k.missed
      /\ next.chan = k.chan \/ next.chan = Append(k.chan, event)
      /\ k.lagging => next.lagging
      /\ next.lagging => k.lagging \/ k.up
  <2>1. CASE ~k.up  BY <2>1 DEF Offer
  <2>2. CASE k.up /\ Len(k.chan) < SubscriberBuffer
    <3>1. next = [k EXCEPT !.chan = Append(k.chan, event)]  BY <2>2 DEF Offer, ConnType
    <3>2. QED  BY <3>1 DEF ConnType
  <2>3. CASE k.up /\ ~(Len(k.chan) < SubscriberBuffer)
    <3>1. next = [k EXCEPT !.lagging = TRUE]  BY <2>3 DEF Offer
    <3>2. QED  BY <2>3, <3>1 DEF ConnType
  <2>4. QED  BY <2>1, <2>2, <2>3
<1> HIDE DEF next
<1>2. ASSUME k.up  PROVE k.cursor <= n + 1 /\ Ascends(next.missed \o next.chan, k.cursor, n + 1)
  <2> DEFINE owed == k.missed \o k.chan
  <2>1. k.missed \in Seq(Event) /\ k.chan \in Seq(Event) /\ k.cursor \in Nat  BY DEF ConnType
  <2>2. owed \in Seq(Event)  BY <2>1, ConcatProperties
  <2>3. k.cursor <= n /\ Ascends(owed, k.cursor, n)  BY <1>2 DEF InOrder
  <2>4. CASE next.chan = k.chan
    <3>1. next.missed \o next.chan = owed  BY <1>1, <2>4
    <3>2. \A i \in 1..Len(owed) : owed[i].id \in Nat  BY <2>2, Numbered
    <3> HIDE DEF owed
    <3>3. Ascends(owed, k.cursor, n + 1)  BY <2>3, <3>2 DEF Ascends
    <3>4. QED  BY <2>1, <2>3, <3>1, <3>3
  <2>5. CASE next.chan = Append(k.chan, event)
    <3>1. next.missed \o next.chan = Append(owed, event)
      <4>1. \A s, t \in Seq(Event) : s \o Append(t, event) = Append(s \o t, event)
        BY AppendBehind
      <4>2. QED  BY <1>1, <2>1, <2>5, <4>1
    <3> HIDE DEF owed
    <3>2. Ascends(Append(owed, event), k.cursor, n + 1)  BY <2>1, <2>2, <2>3, AscendsAppend
    <3>3. QED  BY <2>1, <2>3, <3>1, <3>2
  <2>6. QED  BY <1>1, <2>4, <2>5
<1>3. QED  BY <1>1, <1>2 DEF InOrder, next

\* What is written is the first of what is owed: from the replay, ...
LEMMA MissedComesFirst ==
    ASSUME NEW k \in ConnType, k.missed # <<>>
    PROVE  LET owed == k.missed \o k.chan
               rest == Tail(k.missed) \o k.chan
           IN /\ owed \in Seq(Event) /\ rest \in Seq(Event)
              /\ Head(k.missed) = owed[1]
              /\ Len(owed) # 0 /\ Len(rest) = Len(owed) - 1
              /\ \A i \in 1..Len(rest) : rest[i] = owed[i + 1]
<1> DEFINE owed == k.missed \o k.chan
           rest == Tail(k.missed) \o k.chan
<1>1. k.missed \in Seq(Event) /\ k.chan \in Seq(Event)  BY DEF ConnType
<1>2. Tail(k.missed) \in Seq(Event)  BY <1>1, HeadTailProperties
<1>3. owed \in Seq(Event) /\ rest \in Seq(Event)  BY <1>1, <1>2, ConcatProperties
<1>4. \A s, t \in Seq(Event) : s # <<>> =>
         /\ Head(s) = (s \o t)[1]
         /\ Len(Tail(s) \o t) = Len(s \o t) - 1
         /\ \A i \in 1..Len(Tail(s) \o t) : (Tail(s) \o t)[i] = (s \o t)[i + 1]
  BY TailInFront
<1>5. Len(owed) # 0
  <2>1. Len(owed) = Len(k.missed) + Len(k.chan)  BY <1>1, ConcatProperties
  <2>2. Len(k.missed) \in Nat \ {0}  BY <1>1, EmptySeq
  <2>3. Len(k.chan) \in Nat  BY <1>1, LenProperties
  <2>4. ASSUME NEW m \in Nat \ {0}, NEW n \in Nat  PROVE m + n # 0  OBVIOUS
  <2> HIDE DEF owed
  <2>5. QED  BY <2>1, <2>2, <2>3, <2>4
<1>6. QED  BY <1>1, <1>3, <1>4, <1>5

\* ... and once that is out from the channel.
LEMMA ChannelComesNext ==
    ASSUME NEW k \in ConnType, k.missed = <<>>, k.chan # <<>>
    PROVE  LET owed == k.missed \o k.chan
               rest == k.missed \o Tail(k.chan)
           IN /\ owed \in Seq(Event) /\ rest \in Seq(Event)
              /\ Head(k.chan) = owed[1]
              /\ Len(owed) # 0 /\ Len(rest) = Len(owed) - 1
              /\ \A i \in 1..Len(rest) : rest[i] = owed[i + 1]
<1>1. k.chan \in Seq(Event)  BY DEF ConnType
<1>2. /\ Tail(k.chan) \in Seq(Event)
      /\ Head(k.chan) = k.chan[1]
      /\ Len(Tail(k.chan)) = Len(k.chan) - 1
      /\ \A i \in 1..Len(Tail(k.chan)) : Tail(k.chan)[i] = k.chan[i + 1]
  BY <1>1, HeadTailProperties
<1>3. k.missed \o k.chan = k.chan /\ k.missed \o Tail(k.chan) = Tail(k.chan)
  BY <1>1, <1>2, ConcatEmptySeq
<1>4. Len(k.chan) # 0  BY <1>1, EmptySeq
<1>5. QED  BY <1>1, <1>2, <1>3, <1>4

\* A write moves the cursor forward, by one unless the tab fell behind.
LEMMA WrittenInOrder ==
    ASSUME NEW k \in ConnType, k.up, NEW n \in Nat, InOrder(k, n), GapFree(k, n),
           NEW rest \in Seq(Event), NEW next,
           k.missed \o k.chan \in Seq(Event),
           Len(k.missed \o k.chan) # 0, Len(rest) = Len(k.missed \o k.chan) - 1,
           \A i \in 1..Len(rest) : rest[i] = (k.missed \o k.chan)[i + 1],
           next.missed \o next.chan = rest,
           next.cursor = (k.missed \o k.chan)[1].id
    PROVE  /\ InOrder(next, n)
           /\ next.cursor \in (k.cursor + 1)..n
           /\ ~k.lagging => next.cursor = k.cursor + 1
<1> DEFINE owed == k.missed \o k.chan
<1>1. k.cursor \in Nat /\ k.cursor <= n /\ Ascends(owed, k.cursor, n)
  BY DEF InOrder, ConnType
<1>2. Len(owed) \in Nat \ {0}  BY LenProperties
<1>3. owed[1].id \in Nat
  <2>1. owed \in Seq(Event)  OBVIOUS
  <2>2. 1 \in 1..Len(owed)
    <3> HIDE DEF owed
    <3>1. QED  BY <1>2
  <2> HIDE DEF owed
  <2>3. QED  BY <2>1, <2>2, Numbered
<1>4. next.cursor = owed[1].id /\ next.missed \o next.chan = rest  OBVIOUS
<1>5. ~k.lagging => \A i \in 1..Len(owed) : owed[i].id = k.cursor + i  BY DEF GapFree
<1>6. Ascends(rest, owed[1].id, n)  BY <1>1, AscendsTail
<1> HIDE DEF owed
<1>7. 1 \in 1..Len(owed)  BY <1>2
<1>8. k.cursor < owed[1].id /\ owed[1].id <= n  BY <1>1, <1>7 DEF Ascends
<1>9. InOrder(next, n)  BY <1>4, <1>6, <1>8 DEF InOrder
<1>10. next.cursor \in (k.cursor + 1)..n  BY <1>1, <1>3, <1>4, <1>8
<1>11. ~k.lagging => next.cursor = k.cursor + 1  BY <1>4, <1>5, <1>7
<1>12. QED  BY <1>9, <1>10, <1>11

-----------------------------------------------------------------------------
(* The steps, and what each of them is to the feed. *)

\* A tab that is not connected is owed nothing.
LEMMA NoConnectionInOrder == \A n : InOrder(NoConnection, n)
BY DEF InOrder, NoConnection

\* Nothing is published, and nobody is connected.
LEMMA InitRefines == Init => OwedInOrder /\ Feed!Init
BY NoConnectionInOrder DEF Init, OwedInOrder, Feed!Init, NoConnection

\* One connection changes, and the others are left in order.
LEMMA OneInOrder ==
    ASSUME RInv, nextID' = nextID, NEW c \in Clients, NEW k, InOrder(k, nextID),
           conn' = [conn EXCEPT ![c] = k]
    PROVE  OwedInOrder'
BY DEF RInv, IInv, ConnsOK, OwedInOrder, InOrder

\* A tab never hears an event of one daemon twice or after a later one, in one step.
Forward == \A c \in Clients : lastSeen'[c] # lastSeen[c] => conn[c].cursor < lastSeen'[c]

\* publish: the feed has one more event, and some tabs may have fallen behind.
LEMMA PublishRefines ==
    ASSUME RInv, NEW kind \in Kinds, Publish(kind)
    PROVE  OwedInOrder' /\ Forward /\ Feed!Publish
<1> DEFINE event == [id |-> nextID + 1, kind |-> kind, era |-> era]
<1>1. event \in Event /\ event.id = nextID + 1 /\ nextID' = nextID + 1 /\ nextID \in Nat
  BY DEF RInv, IInv, DaemonOK, Event, Publish
<1>2. conn' = [c \in Clients |-> Offer(conn[c], event)] /\ UNCHANGED tabs
  BY DEF Publish
<1> HIDE DEF event
<1>3. ASSUME NEW c \in Clients
      PROVE  /\ InOrder(conn'[c], nextID')
             /\ conn'[c].up = conn[c].up /\ conn'[c].cursor = conn[c].cursor
             /\ conn[c].lagging => conn'[c].lagging
             /\ conn'[c].lagging => conn[c].lagging \/ conn[c].up
  <2>1. conn[c] \in ConnType /\ InOrder(conn[c], nextID)
    BY DEF RInv, IInv, ConnsOK, OwedInOrder
  <2>2. conn'[c] = Offer(conn[c], event)  BY <1>2
  <2>3. QED  BY <1>1, <2>1, <2>2, OfferIsInOrder
<1>4. OwedInOrder'  BY <1>3 DEF OwedInOrder
<1>5. Forward  BY <1>2 DEF Forward, tabs
<1>6. Feed!Publish
  <2> DEFINE behind == {c \in Clients : conn'[c].lagging /\ ~conn[c].lagging}
  <2>1. behind \subseteq {c \in Clients : conn[c].up}  BY <1>3
  <2>2. {c \in Clients : conn'[c].lagging} = {c \in Clients : conn[c].lagging} \cup behind
    BY <1>3
  <2>3. {c \in Clients : conn'[c].up} = {c \in Clients : conn[c].up}  BY <1>3
  <2>4. [c \in Clients |-> conn'[c].cursor] = [c \in Clients |-> conn[c].cursor]  BY <1>3
  <2> HIDE DEF behind
  <2>5. QED  BY <1>1, <2>1, <2>2, <2>3, <2>4 DEF Feed!Publish
<1>7. QED  BY <1>4, <1>5, <1>6

\* subscribe: a tab takes up somewhere in what there is.
LEMMA SubscribeRefines ==
    ASSUME RInv, NEW c \in Clients, Subscribe(c)
    PROVE  OwedInOrder' /\ Forward /\ Feed!Attach(c)
<1> DEFINE after == lastSeen[c]
           n == ResumePoint(after)
           k == [up |-> TRUE, chan |-> <<>>, missed |-> Missed(after),
                 lagging |-> FALSE, cursor |-> n]
<1>1. after \in Nat \cup {None} /\ nextID \in Nat  BY DEF RInv, IInv, TabsOK, DaemonOK
<1>2. /\ Missed(after) \in Seq(Event)
      /\ n \in Nat
      /\ n + Len(Missed(after)) = nextID
      /\ \A i \in 1..Len(Missed(after)) : Missed(after)[i].id = n + i
  BY <1>1, ReplayIsWhatWasMissed DEF RInv, IInv, DaemonOK
<1>3. conn' = [conn EXCEPT ![c] = k] /\ UNCHANGED daemon /\ UNCHANGED tabs
  BY DEF Subscribe
<1>4. k.missed \o k.chan = Missed(after) /\ k.cursor = n /\ k.up /\ ~k.lagging
  BY <1>2, ConcatEmptySeq
<1>5. Len(Missed(after)) \in Nat  BY <1>2, LenProperties
<1> HIDE DEF n, k, after
<1>6. n <= nextID  BY <1>1, <1>2, <1>5
<1>7. Ascends(Missed(after), n, nextID)  BY <1>1, <1>2, <1>5 DEF Ascends
<1>8. InOrder(k, nextID)  BY <1>4, <1>6, <1>7 DEF InOrder
<1>9. OwedInOrder'  BY <1>3, <1>8, OneInOrder DEF daemon
<1>10. Forward  BY <1>3 DEF Forward, tabs
<1>11. Feed!Attach(c)
  <2>1. conn \in [Clients -> ConnType] /\ ~conn[c].up /\ ~conn[c].lagging
    BY DEF RInv, IInv, ConnsOK, ConnOK, NoConnection, Subscribe
  <2>2. conn'[c] = k /\ \A d \in Clients \ {c} : conn'[d] = conn[d]  BY <1>3, <2>1
  <2>3. c \notin {d \in Clients : conn[d].up}  BY <2>1
  <2>4. {d \in Clients : conn'[d].up} = {d \in Clients : conn[d].up} \cup {c}
    BY <1>4, <2>2
  <2>5. {d \in Clients : conn'[d].lagging} = {d \in Clients : conn[d].lagging}
    BY <1>4, <2>1, <2>2
  <2>6. [d \in Clients |-> conn'[d].cursor]
           = [[d \in Clients |-> conn[d].cursor] EXCEPT ![c] = n]
    BY <1>4, <2>2
  <2>7. n \in 0..nextID  BY <1>1, <1>2, <1>6
  <2>8. nextID' = nextID  BY <1>3 DEF daemon
  <2>9. QED  BY <2>3, <2>4, <2>5, <2>6, <2>7, <2>8 DEF Feed!Attach
<1>12. QED  BY <1>9, <1>10, <1>11

\* A write, from the replay or from the channel, is a write of the feed.
LEMMA WritingRefines ==
    ASSUME RInv, NEW c \in Clients, conn[c].up, NEW k, NEW event \in Event,
           InOrder(k, nextID), k.cursor = event.id,
           k.cursor \in (conn[c].cursor + 1)..nextID,
           ~conn[c].lagging => k.cursor = conn[c].cursor + 1,
           k.up = conn[c].up, k.lagging = conn[c].lagging,
           conn' = [conn EXCEPT ![c] = k], Receive(c, event), UNCHANGED daemon
    PROVE  OwedInOrder' /\ Forward /\ Feed!Write(c)
<1>1. conn \in [Clients -> ConnType] /\ nextID' = nextID /\ nextID \in Nat
  BY DEF RInv, IInv, ConnsOK, DaemonOK, daemon
<1>2. conn'[c] = k /\ \A d \in Clients \ {c} : conn'[d] = conn[d]  BY <1>1
<1>3. OwedInOrder'  BY <1>1, OneInOrder
<1>4. conn[c].cursor \in Nat  BY <1>1 DEF ConnType
<1>5. Forward
  <2>1. lastSeen' = [lastSeen EXCEPT ![c] = event.id] /\ lastSeen \in [Clients -> Nat \cup {None}]
    BY DEF Receive, RInv, IInv, TabsOK
  <2>2. conn[c].cursor < event.id  BY <1>1, <1>4
  <2>3. QED  BY <2>1, <2>2 DEF Forward
<1>6. Feed!Write(c)
  <2>1. {d \in Clients : conn'[d].up} = {d \in Clients : conn[d].up}  BY <1>2
  <2>2. {d \in Clients : conn'[d].lagging} = {d \in Clients : conn[d].lagging}  BY <1>2
  <2>3. [d \in Clients |-> conn'[d].cursor]
           = [[d \in Clients |-> conn[d].cursor] EXCEPT ![c] = k.cursor]
    <3>1. conn'[c].cursor = k.cursor /\ \A d \in Clients \ {c} : conn'[d].cursor = conn[d].cursor
      BY <1>2
    <3>2. QED  BY <3>1
  <2>4. [d \in Clients |-> conn[d].cursor][c] = conn[c].cursor  OBVIOUS
  <2>5. c \in {d \in Clients : conn[d].up}  OBVIOUS
  <2>6. c \notin {d \in Clients : conn[d].lagging} => k.cursor = conn[c].cursor + 1  OBVIOUS
  <2>7. QED  BY <1>1, <2>1, <2>2, <2>3, <2>4, <2>5, <2>6 DEF Feed!Write
<1>7. QED  BY <1>3, <1>5, <1>6

\* The replay is written oldest first.
LEMMA WriteMissedRefines ==
    ASSUME RInv, NEW c \in Clients, WriteMissed(c)
    PROVE  OwedInOrder' /\ Forward /\ Feed!Write(c)
<1> DEFINE event == Head(conn[c].missed)
           k == [conn[c] EXCEPT !.missed = Tail(conn[c].missed), !.cursor = event.id]
<1>1. /\ conn[c] \in ConnType /\ conn[c].up /\ conn[c].missed # <<>>
      /\ InOrder(conn[c], nextID) /\ GapFree(conn[c], nextID) /\ nextID \in Nat
  BY DEF RInv, IInv, ConnsOK, ConnOK, OwedInOrder, DaemonOK, WriteMissed
<1>2. event \in Event  BY <1>1, HeadTailProperties DEF ConnType
<1>3. /\ k.missed \o k.chan = Tail(conn[c].missed) \o conn[c].chan
      /\ k.cursor = event.id /\ k.up = conn[c].up /\ k.lagging = conn[c].lagging
  BY <1>1 DEF ConnType
<1>4. /\ InOrder(k, nextID)
      /\ k.cursor \in (conn[c].cursor + 1)..nextID
      /\ ~conn[c].lagging => k.cursor = conn[c].cursor + 1
  <2> DEFINE owed == conn[c].missed \o conn[c].chan
             rest == Tail(conn[c].missed) \o conn[c].chan
  <2>1. /\ owed \in Seq(Event) /\ rest \in Seq(Event)
        /\ event = owed[1] /\ Len(owed) # 0 /\ Len(rest) = Len(owed) - 1
        /\ \A i \in 1..Len(rest) : rest[i] = owed[i + 1]
    BY <1>1, MissedComesFirst
  <2> HIDE DEF k, event
  <2>2. QED  BY <1>1, <1>3, <2>1, WrittenInOrder
<1>5. conn' = [conn EXCEPT ![c] = k] /\ Receive(c, event) /\ UNCHANGED daemon
  BY DEF WriteMissed, RInv, IInv, ConnsOK
<1> HIDE DEF event, k
<1>6. QED  BY <1>1, <1>2, <1>3, <1>4, <1>5, WritingRefines

\* The channel is written in the order it was filled.
LEMMA WriteEventRefines ==
    ASSUME RInv, NEW c \in Clients, WriteEvent(c)
    PROVE  OwedInOrder' /\ Forward /\ Feed!Write(c)
<1> DEFINE event == Head(conn[c].chan)
           k == [conn[c] EXCEPT !.chan = Tail(conn[c].chan), !.cursor = event.id]
<1>1. /\ conn[c] \in ConnType /\ conn[c].up /\ conn[c].missed = <<>> /\ conn[c].chan # <<>>
      /\ InOrder(conn[c], nextID) /\ GapFree(conn[c], nextID) /\ nextID \in Nat
  BY DEF RInv, IInv, ConnsOK, ConnOK, OwedInOrder, DaemonOK, WriteEvent, Looping
<1>2. event \in Event  BY <1>1, HeadTailProperties DEF ConnType
<1>3. /\ k.missed \o k.chan = conn[c].missed \o Tail(conn[c].chan)
      /\ k.cursor = event.id /\ k.up = conn[c].up /\ k.lagging = conn[c].lagging
  BY <1>1 DEF ConnType
<1>4. /\ InOrder(k, nextID)
      /\ k.cursor \in (conn[c].cursor + 1)..nextID
      /\ ~conn[c].lagging => k.cursor = conn[c].cursor + 1
  <2> DEFINE owed == conn[c].missed \o conn[c].chan
             rest == conn[c].missed \o Tail(conn[c].chan)
  <2>1. /\ owed \in Seq(Event) /\ rest \in Seq(Event)
        /\ event = owed[1] /\ Len(owed) # 0 /\ Len(rest) = Len(owed) - 1
        /\ \A i \in 1..Len(rest) : rest[i] = owed[i + 1]
    BY <1>1, ChannelComesNext
  <2> HIDE DEF k, event
  <2>2. QED  BY <1>1, <1>3, <2>1, WrittenInOrder
<1>5. conn' = [conn EXCEPT ![c] = k] /\ Receive(c, event) /\ UNCHANGED daemon
  BY DEF WriteEvent, RInv, IInv, ConnsOK
<1> HIDE DEF event, k
<1>6. QED  BY <1>1, <1>2, <1>3, <1>4, <1>5, WritingRefines

\* However a connection ends, the tab is detached.
LEMMA LeaveRefines ==
    ASSUME RInv, NEW c \in Clients, conn[c].up, Leave(c)
    PROVE  OwedInOrder' /\ Forward /\ Feed!Detach(c)
<1>1. conn \in [Clients -> ConnType] /\ nextID' = nextID /\ UNCHANGED tabs
  BY DEF RInv, IInv, ConnsOK, Leave, daemon
<1>2. conn'[c] = NoConnection /\ \A d \in Clients \ {c} : conn'[d] = conn[d]
  BY <1>1 DEF Leave
<1>3. OwedInOrder'  BY <1>1, NoConnectionInOrder, OneInOrder DEF Leave
<1>4. Forward  BY <1>1 DEF Forward, tabs
<1>5. Feed!Detach(c)
  <2>1. {d \in Clients : conn'[d].up} = {d \in Clients : conn[d].up} \ {c}
    BY <1>2 DEF NoConnection
  <2>2. {d \in Clients : conn'[d].lagging} = {d \in Clients : conn[d].lagging} \ {c}
    BY <1>2 DEF NoConnection
  <2>3. [d \in Clients |-> conn'[d].cursor]
           = [[d \in Clients |-> conn[d].cursor] EXCEPT ![c] = 0]
    <3>1. conn'[c].cursor = 0 /\ \A d \in Clients \ {c} : conn'[d].cursor = conn[d].cursor
      BY <1>2 DEF NoConnection
    <3>2. QED  BY <3>1
  <2>4. c \in {d \in Clients : conn[d].up}  OBVIOUS
  <2>5. QED  BY <1>1, <2>1, <2>2, <2>3, <2>4 DEF Feed!Detach
<1>6. QED  BY <1>3, <1>4, <1>5

\* A new daemon is a feed that starts again.
LEMMA RestartRefines ==
    ASSUME RInv, Restart
    PROVE  OwedInOrder' /\ Forward /\ Feed!Renew
<1>1. \A c \in Clients : conn'[c] = NoConnection  BY DEF Restart
<1>2. OwedInOrder'  BY <1>1, NoConnectionInOrder DEF OwedInOrder
<1>3. Forward  BY DEF Restart, Forward, tabs
<1>4. Feed!Renew
  <2>1. {c \in Clients : conn'[c].up} = {}  BY <1>1 DEF NoConnection
  <2>2. {c \in Clients : conn'[c].lagging} = {}  BY <1>1 DEF NoConnection
  <2>3. [c \in Clients |-> conn'[c].cursor] = [c \in Clients |-> 0]  BY <1>1 DEF NoConnection
  <2>4. nextID' = 0  BY DEF Restart
  <2>5. QED  BY <2>1, <2>2, <2>3, <2>4 DEF Feed!Renew
<1>5. QED  BY <1>2, <1>3, <1>4

\* What moves none of the stream's numbers and connections is nothing to the feed.
LEMMA StutterRefines ==
    ASSUME RInv, UNCHANGED <<nextID, conn, lastSeen>>
    PROVE  OwedInOrder' /\ Forward /\ UNCHANGED Feed!vars
BY DEF RInv, OwedInOrder, Forward, Feed!vars

\* Every step of the stream is a step of the feed, or nothing to it.
LEMMA NextRefines ==
    RInv /\ [Next]_vars => OwedInOrder' /\ Forward /\ [Feed!Next]_(Feed!vars)
<1> SUFFICES ASSUME RInv, [Next]_vars
             PROVE  OwedInOrder' /\ Forward /\ [Feed!Next]_(Feed!vars)
  OBVIOUS
<1> USE DEF Feed!Next
<1>1. ASSUME NEW kind \in Kinds, Publish(kind)
      PROVE  OwedInOrder' /\ Forward /\ Feed!Next
  BY <1>1, PublishRefines
<1>2. ASSUME NEW c \in Clients, Subscribe(c)
      PROVE  OwedInOrder' /\ Forward /\ Feed!Next
  BY <1>2, SubscribeRefines
<1>3. ASSUME NEW c \in Clients, WriteMissed(c) \/ WriteEvent(c)
      PROVE  OwedInOrder' /\ Forward /\ Feed!Next
  BY <1>3, WriteMissedRefines, WriteEventRefines
<1>4. ASSUME NEW c \in Clients, HangUpLagging(c) \/ HangUpDone(c) \/ Cut(c)
      PROVE  OwedInOrder' /\ Forward /\ Feed!Next
  BY <1>4, LeaveRefines DEF HangUpLagging, HangUpDone, Cut, Looping
<1>5. CASE Restart  BY <1>5, RestartRefines
<1>6. CASE Close \/ \E c \in Clients : ReadBacklog(c)
  BY <1>6, StutterRefines DEF Close, ReadBacklog, tabs, daemon
<1>7. CASE UNCHANGED vars
  BY <1>7, StutterRefines DEF vars, daemon, tabs
<1>8. QED
  BY <1>1, <1>2, <1>3, <1>4, <1>5, <1>6, <1>7 DEF Next, Daemon, Handler, Tab

\* EventStream is an OrderedFeed: ring, replays, channels and reconnections are
\* invisible to a tab that keeps up, one that does not still hears in order, and
\* no reconnection makes it hear an event of one daemon twice or go back.
THEOREM HeardInOrder == Spec => TabsHearInOrder
<1>1. Init => RInv /\ Feed!Init  BY InitIInv, InitRefines DEF RInv
<1>2. RInv /\ [Next]_vars => RInv' /\ Forward /\ [Feed!Next]_(Feed!vars)
  BY NextIInv, NextRefines DEF RInv
<1>3. RInv /\ [Next]_vars => [Forward]_vars  BY <1>2
<1>4. Spec => [][Feed!Next]_(Feed!vars) /\ Feed!Init  BY <1>1, <1>2, PTL DEF Spec
<1>5. Spec => [][Forward]_vars  BY <1>1, <1>2, <1>3, PTL DEF Spec
<1>6. QED
  BY <1>4, <1>5 DEF TabsHearInOrder, ImplementsFeed, Feed!Spec, NeverTwiceNorBackwards, Forward
=============================================================================
