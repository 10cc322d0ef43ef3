------------------------------ MODULE UndoProofs ------------------------------
(***************************************************************************)
(* Proofs about Undo, for every set of branches and of handlers, and every *)
(* bound.  What is done when a plan is confirmed is what was shown, and    *)
(* what is reversed is the last move of HEAD; for that a request is        *)
(* followed from the reflog it read to the command it runs, and the reflog *)
(* is known to say where HEAD was.                                         *)
(***************************************************************************)
EXTENDS Undo, SequenceTheorems, TLAPS

Kinds == {"initial", "commit", "checkout", "reset", "other"}
Entries == [kind : Kinds, at : 1..made, from : Branches \cup {None} \cup 1..made]
Heads == [on : Branches \cup {None}, at : 1..made]
Deletions ==
    [name : Branches, sha : 1..made, head : 0..made, by : Handlers, nth : Nat]
Requests ==
    [at : States \cup AtEnd, want : {"nothing", "plan", "undo"},
     record : Deletions \cup {None}, entries : Seq(Entries), plan : Plans,
     branch : Branches \cup {None}]

\* What the two newest entries of a reflog are, whenever it is read: only the
\* first commit has nothing before it, and a checkout left something.
Log(entries) ==
    /\ entries \in Seq(Entries)
    /\ Len(entries) \in {1, 2}
    /\ \A i \in 1..Len(entries) : entries[i].at \in kept
    /\ entries[1].kind # "initial" => Len(entries) = 2
    /\ entries[1].kind = "checkout" => entries[1].from # None

\* HEAD and the branches, and what a branch or the reflog names is not collected.
DiskOK ==
    /\ refs \in [Branches -> 0..made] /\ made \in 2..MaxCommits
    /\ head \in Heads
    /\ head.on # None => refs[head.on] = head.at
    /\ head.at = reflog[1].at
    /\ gone \subseteq 1..made /\ kept \cap gone = {} /\ kept \subseteq 1..made
    /\ \A b \in Branches : refs[b] \notin gone
    /\ Log(reflog)

Remembered == {d \in Deletions : d.head # 0}

\* The reflog says where HEAD was before it last moved.
PastOK ==
    /\ past \in Heads
    /\ Len(reflog) = 2 => reflog[2].at = past.at
    /\ reflog[1].kind \in {"commit", "reset", "other"} => head.on = past.on
    /\ reflog[1].kind = "checkout" =>
          reflog[1].from = IF past.on = None THEN past.at ELSE past.on

\* A plan reverses the newest of the entries it was made from.
Reverses(plan, entries) ==
    /\ plan.kind \in {"commit", "reset", "checkout"} =>
          Log(entries) /\ entries[1].kind = plan.kind
    /\ plan.kind \in {"commit", "reset"} => plan.to = entries[2].at
    /\ plan.kind = "checkout" => plan.ref = entries[1].from
                                 /\ plan.ref \in Branches \cup 1..made

\* A plan that can be run.
Ready(plan) ==
    /\ plan.kind # "none"
    /\ plan.kind \in {"commit", "reset"} => plan.to \in kept
    /\ plan.kind = "checkout" => plan.detach \/ plan.ref \in Branches
    /\ plan.kind = "branch-delete" => plan.branch \in Branches /\ plan.to \in 1..made

Previewing == {"lookup", "record head", "record branch", "record tip", "spent", "reflog",
               "reflog head", "came from", "came from commit"}

\* What a request holds, by where it is; `shown` is the plan its tab shows.
Holds(r, shown) ==
    /\ r \in Requests /\ shown \in Plans
    /\ r.at \in AtEnd => r.want = "nothing"
    /\ r.at \in Previewing => r.want # "nothing"
    /\ r.at \in {"record head", "record branch", "record tip", "record"} => r.record \in Remembered
    /\ r.at = "reflog head" => Log(r.entries)
    /\ r.at \in {"came from", "came from commit"} =>
          Reverses(r.plan, r.entries) /\ r.plan.kind = "checkout" /\ ~r.plan.detach
    /\ r.at \in {"check head", "check target", "check branch", "act"} =>
          /\ r.want = "undo" /\ Agrees(r.plan, shown)
          /\ Reverses(r.plan, r.entries) /\ Ready(r.plan)
    /\ r.at = "check branch" => r.plan.kind = "branch-delete"
    /\ r.at \in {"read tip", "read head", "delete"} => r.branch \in Branches
    /\ r.at = "read tip" => r.record = None
    /\ r.at = "read head" => r.record \in Deletions
    /\ r.at = "delete" => r.record \in Remembered \cup {None}

RequestsOK ==
    /\ request \in [Handlers -> Requests]
    /\ approved \in [Handlers -> Plans]
    /\ \A h \in Handlers : Holds(request[h], approved[h])

IInv ==
    /\ DiskOK
    /\ deleted \in Remembered \cup {None}
    /\ requests \in Nat
    /\ RequestsOK
    /\ PastOK

-----------------------------------------------------------------------------
(* What git does. *)

Grows == made' \in Nat /\ made <= made' /\ kept \subseteq kept'

\* A type that holds the commits made so far holds those to come.
LEMMA TypesGrow ==
    ASSUME made \in Nat, Grows
    PROVE  /\ Entries \subseteq Entries' /\ Plans \subseteq Plans'
           /\ Deletions \subseteq Deletions' /\ Remembered \subseteq Remembered'
           /\ Seq(Entries) \subseteq Seq(Entries')
           /\ Heads \subseteq Heads'
<1>1. 1..made \subseteq 1..made' /\ 0..made \subseteq 0..made'  BY DEF Grows
<1>2. Entries \subseteq Entries'  BY <1>1 DEF Entries
<1>3. Plans \subseteq Plans'  BY <1>1 DEF Plans
<1>4. Deletions \subseteq Deletions'  BY <1>1 DEF Deletions
<1>5. Remembered \subseteq Remembered'  BY <1>4 DEF Remembered
<1>6. Seq(Entries) \subseteq Seq(Entries')  BY <1>2
<1>7. Heads \subseteq Heads'  BY <1>1 DEF Heads
<1>8. QED  BY <1>2, <1>3, <1>4, <1>5, <1>6, <1>7

\* So does what a request holds.
LEMMA HoldsGrows ==
    ASSUME made \in Nat, Grows, NEW r, NEW shown, Holds(r, shown)
    PROVE  Holds(r, shown)'
<1>1. /\ Entries \subseteq Entries' /\ Plans \subseteq Plans'
      /\ Deletions \subseteq Deletions' /\ Remembered \subseteq Remembered'
      /\ Seq(Entries) \subseteq Seq(Entries')
  BY TypesGrow
<1>2. r \in Requests'  BY <1>1 DEF Requests, Holds
<1>3. ASSUME NEW entries, Log(entries)  PROVE Log(entries)'
  BY <1>1, <1>3 DEF Log, Grows
<1>4. ASSUME NEW plan, NEW entries, Reverses(plan, entries)  PROVE Reverses(plan, entries)'
  <2>1. 1..made \subseteq 1..made'  BY DEF Grows
  <2>2. QED  BY <1>3, <1>4, <2>1 DEF Reverses
<1>5. ASSUME NEW plan, Ready(plan)  PROVE Ready(plan)'
  <2>1. 1..made \subseteq 1..made'  BY DEF Grows
  <2>2. QED  BY <1>5, <2>1 DEF Ready, Grows
<1>6. QED  BY <1>1, <1>2, <1>3, <1>4, <1>5 DEF Holds, Agrees

\* The reflog gets an entry.
LEMMA LogOfLogged ==
    ASSUME DiskOK, Grows, NEW kind \in Kinds \ {"initial"}, NEW commit \in 1..made',
           NEW from \in Branches \cup {None} \cup 1..made',
           kind = "checkout" => from # None,
           Logged(kind, commit, from)
    PROVE  /\ Log(reflog)' /\ reflog'[1].at = commit /\ reflog'[1].kind = kind
           /\ reflog'[1].from = from /\ Len(reflog') = 2 /\ reflog'[2] = reflog[1]
           /\ kept' = kept \cup {commit}
<1> DEFINE new == [kind |-> kind, at |-> commit, from |-> from]
<1>1. new \in Entries'  BY DEF Entries
<1>2. reflog[1] \in Entries /\ reflog[1].at \in kept
  BY DEF DiskOK, Log
<1>3. reflog[1] \in Entries'  BY <1>2, TypesGrow DEF DiskOK
<1>4. reflog' = <<new, reflog[1]>> /\ kept' = kept \cup {commit}  BY DEF Logged
<1>5. reflog' \in Seq(Entries')  BY <1>1, <1>3, <1>4
<1>6. Len(reflog') = 2 /\ reflog'[1] = new /\ reflog'[2] = reflog[1]  BY <1>4
<1>7. \A i \in 1..Len(reflog') : reflog'[i].at \in kept'
  BY <1>2, <1>4, <1>6
<1>8. Log(reflog)'  BY <1>5, <1>6, <1>7 DEF Log
<1>9. QED  BY <1>4, <1>6, <1>8

\* A commit, a reset or a merge.
LEMMA DiskOfAdvance ==
    ASSUME DiskOK, NEW kind \in {"commit", "reset", "other"}, NEW commit \in 1..made',
           commit \notin gone, Advance(kind, commit),
           made' \in made..MaxCommits, gone' = gone
    PROVE  DiskOK' /\ Grows
<1>1. made \in Nat /\ made >= 2 /\ made' \in Nat /\ made <= made' /\ made' \in 2..MaxCommits
  BY UndoAssumption DEF DiskOK
<1>2. Grows  BY <1>1 DEF Grows, Advance, Logged
<1>3. /\ Log(reflog)' /\ reflog'[1].at = commit /\ kept' = kept \cup {commit}
  BY <1>2, LogOfLogged DEF Advance, Kinds
<1>4. refs' \in [Branches -> 0..made']
  BY <1>1 DEF Advance, DiskOK, Heads
<1>5. head' \in Heads' /\ head'.at = reflog'[1].at /\ head'.on = head.on
  BY <1>1, <1>3 DEF Advance, DiskOK, Heads
<1>6. head'.on # None => refs'[head'.on] = head'.at
  BY <1>3, <1>5 DEF Advance, DiskOK, Heads
<1>7. \A b \in Branches : refs'[b] \notin gone'
  BY DEF Advance, DiskOK, Heads
<1>8. gone' \subseteq 1..made' /\ kept' \cap gone' = {} /\ kept' \subseteq 1..made'
  BY <1>1, <1>3 DEF DiskOK
<1>9. QED  BY <1>1, <1>2, <1>3, <1>4, <1>5, <1>6, <1>7, <1>8 DEF DiskOK

\* A checkout.
LEMMA DiskOfLeave ==
    ASSUME DiskOK, NEW on \in Branches \cup {None}, NEW commit \in 1..made,
           commit \notin gone, on # None => refs[on] = commit, Leave(on, commit),
           made' = made, gone' = gone
    PROVE  DiskOK' /\ Grows
<1>1. made \in Nat  BY UndoAssumption DEF DiskOK
<1>2. Grows  BY <1>1 DEF Grows, Leave, Logged
<1> DEFINE from == IF head.on = None THEN head.at ELSE head.on
<1>3. from \in Branches \cup {None} \cup 1..made' /\ from # None
  BY UndoAssumption DEF DiskOK, Heads
<1>4. PICK f : f = from  OBVIOUS
<1>5. Logged("checkout", commit, f)  BY <1>4 DEF Leave
<1> HIDE DEF from
<1>6. /\ Log(reflog)' /\ reflog'[1].at = commit /\ kept' = kept \cup {commit}
  BY <1>2, <1>3, <1>4, <1>5, LogOfLogged DEF Kinds
<1>7. head' \in Heads' /\ head' = [on |-> on, at |-> commit]
  BY DEF Leave, DiskOK, Heads
<1>8. refs' = refs  BY DEF Leave
<1>9. QED  BY <1>2, <1>6, <1>7, <1>8 DEF DiskOK

\* A branch HEAD is not on, moved, made or deleted.
LEMMA DiskOfPoint ==
    ASSUME DiskOK, NEW b \in Branches, NEW commit \in 0..made, commit \notin gone,
           head.on # b, PointBranch(b, commit)
    PROVE  DiskOK' /\ Grows
<1>1. made \in Nat  BY UndoAssumption DEF DiskOK
<1>2. Grows  BY <1>1 DEF Grows, PointBranch
<1>3. refs' \in [Branches -> 0..made] /\ \A c \in Branches : refs'[c] \in {refs[c], commit}
  BY DEF PointBranch, DiskOK
<1>4. head.on # None => refs'[head.on] = head.at
  BY DEF PointBranch, DiskOK, Heads
<1>5. Log(reflog)'  BY DEF PointBranch, DiskOK, Log, Entries
<1>6. Heads' = Heads  BY DEF PointBranch, Heads
<1>7. QED  BY <1>2, <1>3, <1>4, <1>5, <1>6 DEF DiskOK, PointBranch

\* Nothing but what is left unnamed is collected.
LEMMA DiskOfCollect ==
    ASSUME DiskOK, Collect
    PROVE  DiskOK' /\ Grows
<1>1. made \in Nat  BY UndoAssumption DEF DiskOK
<1>2. Grows  BY <1>1 DEF Grows, Collect
<1>3. PICK c \in Standing \ kept :
         /\ \A b \in Branches : refs[b] # c
         /\ gone' = gone \cup {c}
  BY DEF Collect
<1>4. gone' \subseteq 1..made /\ kept \cap gone' = {} /\ \A b \in Branches : refs[b] \notin gone'
  BY <1>3 DEF DiskOK, Standing
<1>5. Log(reflog)'  BY DEF Collect, DiskOK, Log, Entries
<1>6. Heads' = Heads  BY DEF Collect, Heads
<1>7. QED  BY <1>2, <1>4, <1>5, <1>6 DEF DiskOK, Collect

-----------------------------------------------------------------------------
(* The reflog and where HEAD was. *)

Moves ==
    \/ \E kind \in {"commit", "reset", "other"}, c \in 1..made' : Advance(kind, c)
    \/ \E on \in Branches \cup {None}, c \in 1..made' : Leave(on, c)
    \/ UNCHANGED <<head, reflog>>

LEMMA PastFollows ==
    ASSUME DiskOK, PastOK, Grows, Moves, Note
    PROVE  PastOK'
<1>1. past' \in Heads'
  <2>1. Heads \subseteq Heads'  BY TypesGrow, UndoAssumption DEF DiskOK
  <2>2. QED  BY <2>1 DEF Note, DiskOK, PastOK
<1>2. CASE UNCHANGED <<head, reflog>>
  BY <1>1, <1>2 DEF PastOK, Note
<1>3. CASE \E kind \in {"commit", "reset", "other"}, c \in 1..made' : Advance(kind, c)
  <2>1. PICK kind \in {"commit", "reset", "other"}, c \in 1..made' : Advance(kind, c)
    BY <1>3
  <2>2. /\ reflog'[1].kind = kind /\ Len(reflog') = 2 /\ reflog'[2] = reflog[1]
    BY <2>1, LogOfLogged DEF Advance, Kinds
  <2>3. head'.on = head.on  BY <2>1 DEF Advance, DiskOK, Heads
  <2>4. CASE reflog' = reflog
    BY <1>1, <2>2, <2>3, <2>4 DEF PastOK, Note
  <2>5. CASE reflog' # reflog
    BY <1>1, <2>2, <2>3, <2>5 DEF PastOK, Note, DiskOK
  <2>6. QED  BY <2>4, <2>5
<1>4. CASE \E on \in Branches \cup {None}, c \in 1..made' : Leave(on, c)
  <2>1. PICK on \in Branches \cup {None}, c \in 1..made' : Leave(on, c)
    BY <1>4
  <2>2. PICK f : f = IF head.on = None THEN head.at ELSE head.on  OBVIOUS
  <2>3. f \in Branches \cup {None} \cup 1..made' /\ f # None
    BY <2>2, UndoAssumption DEF DiskOK, Heads, Grows
  <2>4. /\ reflog'[1].kind = "checkout" /\ Len(reflog') = 2 /\ reflog'[2] = reflog[1]
        /\ reflog'[1].from = f
    BY <2>1, <2>2, <2>3, LogOfLogged DEF Leave, Kinds
  <2>5. CASE reflog' = reflog
    BY <1>1, <2>4, <2>5 DEF PastOK, Note
  <2>6. CASE reflog' # reflog
    BY <1>1, <2>2, <2>4, <2>6 DEF PastOK, Note, DiskOK
  <2>7. QED  BY <2>5, <2>6
<1>5. QED  BY <1>2, <1>3, <1>4 DEF Moves

-----------------------------------------------------------------------------
(* The turn of one handler. *)

Turn(h) ==
    /\ request' = [request EXCEPT ![h] = request'[h]]
    /\ approved' = [approved EXCEPT ![h] = approved'[h]]

\* The request whose turn it is holds what it should.
TurnHolds(h) == Turn(h) /\ Holds(request'[h], approved'[h])

LEMMA RequestsAfterTurn ==
    ASSUME RequestsOK, made \in Nat, Grows, NEW h \in Handlers, TurnHolds(h)
    PROVE  RequestsOK'
<1>1. PICK r, shown : r = request'[h] /\ shown = approved'[h]  OBVIOUS
<1>2. Holds(r, shown)'  BY <1>1, HoldsGrows DEF TurnHolds
<1>3. ASSUME NEW k \in Handlers  PROVE Holds(request[k], approved[k])'
  <2>1. CASE k = h  BY <1>1, <1>2, <2>1 DEF Holds
  <2>2. CASE k # h
    <3>1. PICK r1, shown1 : r1 = request[k] /\ shown1 = approved[k]  OBVIOUS
    <3>2. Holds(r1, shown1)'  BY <3>1, HoldsGrows DEF RequestsOK
    <3>3. request'[k] = r1 /\ approved'[k] = shown1
      BY <2>2, <3>1 DEF TurnHolds, Turn, RequestsOK
    <3>4. QED  BY <3>2, <3>3 DEF Holds
  <2>3. QED  BY <2>1, <2>2
<1>4. \A k \in Handlers : request'[k] \in Requests' /\ approved'[k] \in Plans'
  BY <1>3 DEF Holds
<1>5. /\ request' \in [Handlers -> Requests'] /\ approved' \in [Handlers -> Plans']
  BY <1>4 DEF TurnHolds, Turn, RequestsOK
<1>6. QED  BY <1>3, <1>5 DEF RequestsOK

LEMMA RequestsUntouched ==
    ASSUME RequestsOK, made \in Nat, Grows, UNCHANGED <<request, approved>>
    PROVE  RequestsOK'
<1>1. ASSUME NEW k \in Handlers  PROVE Holds(request[k], approved[k])'
  <2>1. PICK r1, shown1 : r1 = request[k] /\ shown1 = approved[k]  OBVIOUS
  <2>2. Holds(r1, shown1)'  BY <2>1, HoldsGrows DEF RequestsOK
  <2>3. QED  BY <2>1, <2>2 DEF Holds
<1>2. \A k \in Handlers : request'[k] \in Requests' /\ approved'[k] \in Plans'
  BY <1>1 DEF Holds
<1>3. /\ request' \in [Handlers -> Requests'] /\ approved' \in [Handlers -> Plans']
  BY <1>2 DEF RequestsOK
<1>4. QED  BY <1>1, <1>3 DEF RequestsOK

LEMMA NoPlanIsAPlan == ASSUME made \in Nat PROVE NoPlan \in Plans
BY DEF NoPlan, Plans

\* A request that is over, or that starts, holds nothing.
Blank(at, want, b) ==
    [at |-> at, want |-> want, record |-> None, entries |-> <<>>, plan |-> NoPlan, branch |-> b]

BlankFor(at, want, b) ==
    /\ want \in {"nothing", "plan", "undo"} /\ b \in Branches \cup {None}
    /\ \/ at \in AtEnd /\ want = "nothing"
       \/ at = "lookup" /\ want # "nothing"
       \/ at = "read tip" /\ b \in Branches

LEMMA BlankHolds ==
    ASSUME made \in Nat, NEW at, NEW want, NEW b, BlankFor(at, want, b), NEW shown \in Plans
    PROVE  Holds(Blank(at, want, b), shown)
<1>1. NoPlan \in Plans  BY NoPlanIsAPlan
<1>2. <<>> \in Seq(Entries)  BY EmptySeq
<1>3. Blank(at, want, b) \in Requests
  BY <1>1, <1>2 DEF Requests, States, Blank, BlankFor
<1>4. Blank(at, want, b).at = at /\ Blank(at, want, b).want = want
      /\ Blank(at, want, b).branch = b /\ Blank(at, want, b).record = None
  BY DEF Blank
<1>5. QED  BY <1>3, <1>4 DEF Holds, AtEnd, Previewing, BlankFor

LEMMA EndHolds ==
    ASSUME RequestsOK, made \in Nat, NEW h \in Handlers, NEW at \in AtEnd, End(h, at)
    PROVE  TurnHolds(h)
<1>1. Ended(at) = Blank(at, "nothing", None)  BY DEF Ended, Blank
<1>2. BlankFor(at, "nothing", None)  BY DEF BlankFor
<1>3. Holds(Ended(at), NoPlan)  BY <1>1, <1>2, BlankHolds, NoPlanIsAPlan
<1>4. request'[h] = Ended(at) /\ approved'[h] = NoPlan
  BY DEF End, Shows, RequestsOK
<1>5. Turn(h)  BY <1>4 DEF End, Shows, Turn
<1>6. QED  BY <1>3, <1>4, <1>5 DEF TurnHolds

\* A request that goes on shows what it showed.
LEMMA GoesHolds ==
    ASSUME RequestsOK, NEW h \in Handlers, NEW now, Goes(h, now), Holds(now, approved[h])
    PROVE  TurnHolds(h)
<1>1. request'[h] = now /\ approved' = approved
  BY DEF Goes, RequestsOK
<1>2. Turn(h)  BY <1>1 DEF Goes, Turn, RequestsOK
<1>3. QED  BY <1>1, <1>2 DEF TurnHolds

\* A plan that was made is shown, or agrees with what is shown, or is refused.
LEMMA DecideHolds ==
    ASSUME RequestsOK, made \in Nat, NEW h \in Handlers, request[h].want # "nothing",
           NEW plan \in Plans, Ready(plan), Reverses(plan, request[h].entries),
           Decide(h, plan)
    PROVE  TurnHolds(h)
<1> USE DEF RequestsOK
<1>1. request[h] \in Requests /\ approved[h] \in Plans  OBVIOUS
<1>2. CASE request[h].want = "plan"
  <2>1. Ended("idle") = Blank("idle", "nothing", None)  BY DEF Ended, Blank
  <2>2. Holds(Ended("idle"), plan)
    <3>1. PICK at, want : at = "idle" /\ want = "nothing"  OBVIOUS
    <3>2. BlankFor(at, want, None)  BY <3>1 DEF BlankFor, AtEnd
    <3>3. Holds(Blank(at, want, None), plan)  BY <3>2, BlankHolds
    <3>4. QED  BY <2>1, <3>1, <3>3
  <2>3. request' = [request EXCEPT ![h] = Ended("idle")]
        /\ approved' = [approved EXCEPT ![h] = plan]
    BY <1>2 DEF Decide, Shows
  <2>4. request'[h] = Ended("idle") /\ approved'[h] = plan  BY <2>3
  <2>5. QED  BY <2>2, <2>3, <2>4 DEF TurnHolds, Turn
<1>3. CASE request[h].want = "undo" /\ Agrees(plan, approved[h])
  <2>1. PICK now : now = [request[h] EXCEPT !.at = "check head", !.plan = plan]  OBVIOUS
  <2>2. now \in Requests  BY <1>1, <2>1 DEF Requests, States
  <2>3. /\ now.at = "check head" /\ now.plan = plan /\ now.want = "undo"
        /\ now.entries = request[h].entries
    BY <1>1, <1>3, <2>1 DEF Requests
  <2>4. Holds(now, approved[h])  BY <1>1, <1>3, <2>2, <2>3 DEF Holds, Previewing, AtEnd
  <2>5. Goes(h, now)  BY <1>3, <2>1 DEF Decide
  <2>6. QED  BY <2>4, <2>5, GoesHolds
<1>4. CASE request[h].want = "undo" /\ ~Agrees(plan, approved[h])
  <2>1. End(h, "refused")  BY <1>4 DEF Decide
  <2>2. QED  BY <2>1, EndHolds DEF AtEnd
<1>5. QED  BY <1>1, <1>2, <1>3, <1>4 DEF Requests

LEMMA NothingHolds ==
    ASSUME RequestsOK, made \in Nat, NEW h \in Handlers, Nothing(h)
    PROVE  TurnHolds(h)
<1>1. PICK at \in AtEnd : End(h, at)  BY DEF Nothing, AtEnd
<1>2. QED  BY <1>1, EndHolds

LEMMA FailsHolds ==
    ASSUME RequestsOK, made \in Nat, NEW h \in Handlers, Fails(h)
    PROVE  TurnHolds(h)
BY EndHolds DEF Fails, AtEnd

\* The same request, at another place.
LEMMA ToHolds ==
    ASSUME RequestsOK, NEW h \in Handlers, NEW at \in States, To(h, at),
           LET r == request[h]
           IN /\ at \in Previewing => r.want # "nothing"
              /\ at \in {"record head", "record branch", "record tip", "record"} =>
                    r.record \in Remembered
              /\ at # "reflog head"
              /\ at \in {"came from", "came from commit"} =>
                    Reverses(r.plan, r.entries) /\ r.plan.kind = "checkout" /\ ~r.plan.detach
              /\ at \in {"check head", "check target", "check branch", "act"} =>
                    /\ r.want = "undo" /\ Agrees(r.plan, approved[h])
                    /\ Reverses(r.plan, r.entries) /\ Ready(r.plan)
              /\ at = "check branch" => r.plan.kind = "branch-delete"
              /\ at \notin {"read tip", "read head"}
              /\ at = "delete" => r.branch \in Branches /\ r.record \in Remembered \cup {None}
    PROVE  TurnHolds(h)
<1>1. request[h] \in Requests /\ approved[h] \in Plans  BY DEF RequestsOK
<1>2. PICK now : now = [request[h] EXCEPT !.at = at]  OBVIOUS
<1>3. /\ now.at = at /\ now.plan = request[h].plan /\ now.want = request[h].want
      /\ now.entries = request[h].entries /\ now.record = request[h].record
      /\ now.branch = request[h].branch
  BY <1>1, <1>2 DEF Requests
<1>4. now \in Requests  BY <1>1, <1>2 DEF Requests
<1>5. Holds(now, approved[h])  BY <1>1, <1>3, <1>4 DEF Holds, States, AtEnd
<1>6. Goes(h, now)  BY <1>2 DEF To
<1>7. QED  BY <1>5, <1>6, GoesHolds

-----------------------------------------------------------------------------
(* Each step of a handler. *)

LEMMA AskHolds ==
    ASSUME IInv, made \in Nat, NEW h \in Handlers, AskPlan(h) \/ AskUndo(h) \/ AskDelete(h)
    PROVE  TurnHolds(h)
<1>1. RequestsOK  BY DEF IInv
<1>2. CASE AskPlan(h)
  <2>1. PICK at, want, now : /\ at = "lookup" /\ want = "plan"
                             /\ now = [Ended("lookup") EXCEPT !.want = "plan"]
    OBVIOUS
  <2>2. now = Blank(at, want, None)  BY <2>1 DEF Ended, Blank
  <2>3. request' = [request EXCEPT ![h] = now] /\ approved' = [approved EXCEPT ![h] = NoPlan]
    BY <1>2, <2>1 DEF AskPlan, Begin, Shows
  <2>4. BlankFor(at, want, None)  BY <2>1 DEF BlankFor
  <2>5. Holds(now, NoPlan)  BY <2>2, <2>4, BlankHolds, NoPlanIsAPlan
  <2>6. QED  BY <1>1, <2>3, <2>5 DEF TurnHolds, Turn, RequestsOK
<1>3. CASE AskUndo(h)
  <2>1. PICK at, want, now : /\ at = "lookup" /\ want = "undo"
                             /\ now = [Ended("lookup") EXCEPT !.want = "undo"]
    OBVIOUS
  <2>2. now = Blank(at, want, None)  BY <2>1 DEF Ended, Blank
  <2>3. request' = [request EXCEPT ![h] = now] /\ approved' = approved
    BY <1>3, <2>1 DEF AskUndo, Begin
  <2>4. approved[h] \in Plans  BY <1>1 DEF RequestsOK
  <2>5. BlankFor(at, want, None)  BY <2>1 DEF BlankFor
  <2>6. Holds(now, approved[h])  BY <2>2, <2>4, <2>5, BlankHolds
  <2>7. QED  BY <1>1, <2>3, <2>6 DEF TurnHolds, Turn, RequestsOK
<1>4. CASE AskDelete(h)
  <2>1. PICK b \in Branches : /\ Shows(h, NoPlan)
                              /\ Begin(h, [Ended("read tip") EXCEPT !.branch = b])
    BY <1>4 DEF AskDelete
  <2>2. PICK at, want, now : /\ at = "read tip" /\ want = "nothing"
                             /\ now = [Ended("read tip") EXCEPT !.branch = b]
    OBVIOUS
  <2>3. now = Blank(at, want, b)  BY <2>2 DEF Ended, Blank
  <2>4. request' = [request EXCEPT ![h] = now] /\ approved' = [approved EXCEPT ![h] = NoPlan]
    BY <2>1, <2>2 DEF Begin, Shows
  <2>5. BlankFor(at, want, b)  BY <2>2 DEF BlankFor
  <2>6. Holds(now, NoPlan)  BY <2>3, <2>5, BlankHolds, NoPlanIsAPlan
  <2>7. QED  BY <1>1, <2>4, <2>6 DEF TurnHolds, Turn, RequestsOK
<1>5. QED  BY <1>2, <1>3, <1>4

\* The remembered deletion: what is looked up is what was recorded.
LEMMA LookUpHolds ==
    ASSUME IInv, NEW h \in Handlers, LookUp(h)
    PROVE  TurnHolds(h)
<1>1. RequestsOK /\ deleted \in Remembered \cup {None}  BY DEF IInv
<1>2. request[h] \in Requests /\ request[h].at = "lookup" /\ request[h].want # "nothing"
      /\ approved[h] \in Plans
  BY <1>1 DEF LookUp, RequestsOK, Holds, Previewing
<1> DEFINE at == IF deleted = None THEN "reflog" ELSE "record head"
<1>3. PICK now : now = [request[h] EXCEPT !.record = deleted, !.at = at]  OBVIOUS
<1>4. /\ now.at = at /\ now.record = deleted /\ now.want = request[h].want
      /\ now \in Requests
  BY <1>1, <1>2, <1>3 DEF Requests, Remembered, States
<1>5. Holds(now, approved[h])  BY <1>1, <1>2, <1>4 DEF Holds, AtEnd
<1>6. Goes(h, now)  BY <1>3 DEF LookUp
<1>7. QED  BY <1>1, <1>5, <1>6, GoesHolds

LEMMA RecordReadHolds ==
    ASSUME IInv, made \in Nat, NEW h \in Handlers, RecordHead(h) \/ RecordBranch(h) \/ Spent(h)
    PROVE  TurnHolds(h)
<1>1. RequestsOK  BY DEF IInv
<1>2. Holds(request[h], approved[h])  BY <1>1 DEF RequestsOK
<1>3. CASE RecordHead(h)
  <2>1. CASE Fails(h)  BY <1>1, <2>1, FailsHolds
  <2>2. CASE To(h, IF head.at = request[h].record.head THEN "record branch" ELSE "spent")
    <3>1. PICK at \in {"record branch", "spent"} : To(h, at)  BY <2>2
    <3>2. QED  BY <1>1, <1>2, <1>3, <3>1, ToHolds DEF Holds, RecordHead, Previewing, States
  <2>3. QED  BY <1>3, <2>1, <2>2 DEF RecordHead
<1>4. CASE RecordBranch(h)
  <2>1. PICK at \in {"record tip", "spent"} : To(h, at)  BY <1>4 DEF RecordBranch
  <2>2. QED  BY <1>1, <1>2, <1>4, <2>1, ToHolds DEF Holds, RecordBranch, Previewing, States
<1>5. CASE Spent(h)
  BY <1>1, <1>2, <1>5, ToHolds DEF Holds, Spent, Previewing, States
<1>6. QED  BY <1>3, <1>4, <1>5

LEMMA RecordTipHolds ==
    ASSUME IInv, made \in Nat, NEW h \in Handlers, RecordTip(h)
    PROVE  TurnHolds(h)
<1>1. RequestsOK  BY DEF IInv
<1>2. Holds(request[h], approved[h]) /\ request[h].at = "record tip"
  BY <1>1 DEF RequestsOK, RecordTip
<1>3. request[h].record \in Remembered /\ request[h].want # "nothing"
  BY <1>2 DEF Holds, Previewing
<1>4. CASE To(h, "spent")
  BY <1>1, <1>2, <1>3, <1>4, ToHolds DEF States
<1>5. CASE Fails(h)  BY <1>1, <1>5, FailsHolds
<1>6. CASE ~To(h, "spent") /\ ~Fails(h)
  <2>1. PICK record : record = request[h].record  OBVIOUS
  <2>2. PICK plan : plan = [NoPlan EXCEPT !.kind = "branch-delete", !.head = record.head,
                                 !.to = record.sha, !.ref = record.sha, !.branch = record.name]
    OBVIOUS
  <2>3. Decide(h, plan)  BY <1>6, <2>1, <2>2 DEF RecordTip
  <2>4. plan = [kind |-> "branch-delete", into |-> None, head |-> record.head,
                to |-> record.sha, ref |-> record.sha, detach |-> FALSE, branch |-> record.name]
    BY <2>2 DEF NoPlan
  <2>5. plan \in Plans /\ Ready(plan) /\ plan.kind = "branch-delete"
    BY <1>3, <2>1, <2>4 DEF Plans, Ready, Remembered, Deletions
  <2>6. Reverses(plan, request[h].entries)  BY <2>5 DEF Reverses
  <2>7. QED  BY <1>1, <1>3, <2>3, <2>5, <2>6, DecideHolds
<1>7. QED  BY <1>4, <1>5, <1>6

\* The reflog: what was read of it is what the plan reverses.
LEMMA ReadReflogHolds ==
    ASSUME IInv, made \in Nat, NEW h \in Handlers, ReadReflog(h)
    PROVE  TurnHolds(h)
<1>1. RequestsOK /\ Log(reflog)  BY DEF IInv, DiskOK
<1>2. Holds(request[h], approved[h]) /\ request[h].at = "reflog"
  BY <1>1 DEF RequestsOK, ReadReflog
<1>3. CASE Fails(h)  BY <1>1, <1>3, FailsHolds
<1>4. CASE ~Fails(h)
  <2>1. PICK now : now = [request[h] EXCEPT !.at = "reflog head", !.entries = reflog]
    OBVIOUS
  <2>2. Goes(h, now)  BY <1>4, <2>1 DEF ReadReflog
  <2>3. now.at = "reflog head" /\ now.entries = reflog /\ now.want = request[h].want
        /\ now \in Requests
    BY <1>1, <1>2, <2>1 DEF Requests, Holds, States, Log
  <2>4. Holds(now, approved[h])  BY <1>1, <1>2, <2>3 DEF Holds, Previewing, AtEnd
  <2>5. QED  BY <1>1, <2>2, <2>4, GoesHolds
<1>5. QED  BY <1>3, <1>4

Drafted(kind, on, at, to, ref) ==
    [kind |-> kind, into |-> on, head |-> at, to |-> to, ref |-> ref, detach |-> FALSE,
     branch |-> None]

LEMMA DraftedIsAPlan ==
    ASSUME made \in Nat, NEW kind \in {"commit", "checkout", "reset"},
           NEW on \in Branches \cup {None}, NEW at \in 0..made, NEW to \in 0..made,
           NEW ref \in Branches \cup {None} \cup 1..made
    PROVE  /\ Drafted(kind, on, at, to, ref) \in Plans
           /\ Drafted(kind, on, at, to, ref).kind = kind
           /\ Drafted(kind, on, at, to, ref).to = to
           /\ Drafted(kind, on, at, to, ref).ref = ref
           /\ ~Drafted(kind, on, at, to, ref).detach
BY DEF Plans, Drafted

LEMMA ReadHeadHolds ==
    ASSUME IInv, made \in Nat, NEW h \in Handlers, ReadHead(h)
    PROVE  TurnHolds(h)
<1>1. RequestsOK /\ DiskOK  BY DEF IInv
<1>2. Holds(request[h], approved[h]) /\ request[h].at = "reflog head"
  BY <1>1 DEF RequestsOK, ReadHead
<1>3. PICK entries : entries = request[h].entries  OBVIOUS
<1>4. Log(entries) /\ request[h].want # "nothing"  BY <1>2, <1>3 DEF Holds, Previewing
<1>5. PICK top : top = entries[1]  OBVIOUS
<1>6. top \in Entries  BY <1>4, <1>5, ElementOfSeq DEF Log
<1>7. CASE Fails(h)  BY <1>1, <1>7, FailsHolds
<1>8. CASE Nothing(h)  BY <1>1, <1>8, NothingHolds
<1>9. PICK kind, on, at : kind = top.kind /\ on = head.on /\ at = head.at  OBVIOUS
<1>10. on \in Branches \cup {None} /\ at \in 0..made  BY <1>1, <1>9 DEF DiskOK, Heads
<1>11. CASE ~Fails(h) /\ ~Nothing(h) /\ kind = "checkout"
  <2>1. PICK to, ref : to = 0 /\ ref = top.from  OBVIOUS
  <2>2. PICK plan :
           plan = [NoPlan EXCEPT !.kind = kind, !.into = on, !.head = at, !.to = to, !.ref = ref]
    OBVIOUS
  <2>3. plan = Drafted(kind, on, at, to, ref)  BY <2>2 DEF NoPlan, Drafted
  <2>4. ref \in Branches \cup 1..made
    <3>1. ref \in Branches \cup {None} \cup 1..made  BY <1>6, <2>1 DEF Entries
    <3>2. entries[1].kind = "checkout" /\ ref = entries[1].from
      BY <1>5, <1>9, <1>11, <2>1
    <3>3. entries[1].kind = "checkout" => entries[1].from # None  BY <1>4 DEF Log
    <3>4. QED  BY <3>1, <3>2, <3>3
  <2>5. to \in 0..made  BY <2>1
  <2>6. plan \in Plans /\ plan.kind = "checkout" /\ plan.ref = ref /\ ~plan.detach
    <3>1. kind \in {"commit", "checkout", "reset"}  BY <1>11
    <3>2. ref \in Branches \cup {None} \cup 1..made  BY <2>4
    <3>3. QED  BY <1>10, <1>11, <2>3, <2>5, <3>1, <3>2, DraftedIsAPlan
  <2>7. Reverses(plan, entries)  BY <1>4, <1>5, <1>9, <1>11, <2>1, <2>4, <2>6 DEF Reverses
  <2>8. PICK now : now = [request[h] EXCEPT !.at = "came from", !.plan = plan]  OBVIOUS
  <2>9. Goes(h, now)
    BY <1>3, <1>5, <1>9, <1>11, <2>1, <2>2, <2>8 DEF ReadHead, Classify
  <2>10. now.at = "came from" /\ now.entries = entries /\ now.want = request[h].want
         /\ now.plan = plan /\ now \in Requests
    BY <1>2, <1>3, <2>6, <2>8 DEF Requests, Holds, States
  <2>11. Holds(now, approved[h])  BY <1>2, <1>4, <2>6, <2>7, <2>10 DEF Holds, Previewing, AtEnd
  <2>12. QED  BY <1>1, <2>9, <2>11, GoesHolds
<1>12. CASE ~Fails(h) /\ ~Nothing(h) /\ kind # "checkout"
  <2>1. PICK to : to = Before(entries)  OBVIOUS
  <2>2. PICK plan :
           plan = [NoPlan EXCEPT !.kind = kind, !.into = on, !.head = at, !.to = to, !.ref = to]
    OBVIOUS
  <2>3. plan = Drafted(kind, on, at, to, to)  BY <2>2 DEF NoPlan, Drafted
  <2>4. kind \in {"commit", "reset"} /\ Decide(h, plan)
    BY <1>3, <1>5, <1>9, <1>12, <2>1, <2>2 DEF ReadHead, Classify
  <2>5. Len(entries) = 2 /\ to = entries[2].at
    BY <1>4, <1>5, <1>9, <2>1, <2>4 DEF Log, Before
  <2>6. to \in kept /\ to \in 1..made
    <3>1. 2 \in 1..Len(entries)  BY <2>5
    <3>2. to \in kept  BY <1>4, <2>5, <3>1 DEF Log
    <3>3. QED  BY <1>1, <3>2 DEF DiskOK
  <2>7. plan \in Plans /\ plan.kind = kind /\ plan.to = to
    BY <1>10, <2>3, <2>4, <2>6, DraftedIsAPlan
  <2>8. Ready(plan)  BY <2>4, <2>6, <2>7 DEF Ready
  <2>9. Reverses(plan, entries)  BY <1>4, <1>5, <1>9, <2>4, <2>5, <2>7 DEF Reverses
  <2>10. QED  BY <1>1, <1>3, <1>4, <2>4, <2>7, <2>8, <2>9, DecideHolds
<1>13. QED  BY <1>7, <1>8, <1>11, <1>12

LEMMA CameFromHolds ==
    ASSUME IInv, made \in Nat, NEW h \in Handlers, CameFromBranch(h) \/ CameFromCommit(h)
    PROVE  TurnHolds(h)
<1>1. RequestsOK /\ DiskOK  BY DEF IInv
<1>2. Holds(request[h], approved[h]) /\ request[h].at \in {"came from", "came from commit"}
  BY <1>1 DEF RequestsOK, CameFromBranch, CameFromCommit
<1>3. PICK drafted : drafted = request[h].plan  OBVIOUS
<1>4. /\ Reverses(drafted, request[h].entries) /\ drafted.kind = "checkout" /\ ~drafted.detach
      /\ drafted \in Plans /\ request[h].want # "nothing"
  BY <1>2, <1>3 DEF Holds, Previewing, Requests
<1>5. drafted.ref \in Branches \cup 1..made  BY <1>4 DEF Reverses
<1>6. ASSUME NEW commit \in 0..made, NEW detach \in BOOLEAN, detach \/ drafted.ref \in Branches,
             NEW plan, plan = [drafted EXCEPT !.to = commit, !.detach = detach], Decide(h, plan)
      PROVE  TurnHolds(h)
  <2>1. plan \in Plans /\ plan.kind = "checkout" /\ plan.ref = drafted.ref
        /\ plan.detach = detach
    BY <1>4, <1>6 DEF Plans
  <2>2. Ready(plan)  BY <1>6, <2>1 DEF Ready
  <2>3. Reverses(plan, request[h].entries)  BY <1>4, <2>1 DEF Reverses
  <2>4. QED  BY <1>1, <1>4, <1>6, <2>1, <2>2, <2>3, DecideHolds
<1>7. CASE CameFromBranch(h)
  <2>1. CASE To(h, "came from commit")
    BY <1>1, <1>3, <1>4, <2>1, ToHolds DEF States, Previewing
  <2>2. CASE ~To(h, "came from commit")
    <3>1. PICK commit : commit = refs[drafted.ref]  OBVIOUS
    <3>2. PICK plan : plan = [drafted EXCEPT !.to = commit]  OBVIOUS
    <3>3. drafted.ref \in Branches /\ Decide(h, plan)
      BY <1>3, <1>7, <2>2, <3>1, <3>2 DEF CameFromBranch
    <3>4. commit \in 0..made  BY <1>1, <3>1, <3>3 DEF DiskOK
    <3>5. plan = [drafted EXCEPT !.to = commit, !.detach = FALSE]
      BY <1>4, <3>2 DEF Plans
    <3>6. QED  BY <1>6, <3>3, <3>4, <3>5
  <2>3. QED  BY <2>1, <2>2
<1>8. CASE CameFromCommit(h)
  <2>1. CASE Nothing(h)  BY <1>1, <2>1, NothingHolds
  <2>2. CASE ~Nothing(h)
    <3>1. PICK commit : commit = Resolved(drafted.ref)  OBVIOUS
    <3>2. PICK plan : plan = [drafted EXCEPT !.to = commit, !.detach = TRUE]  OBVIOUS
    <3>3. Decide(h, plan)  BY <1>3, <1>8, <2>2, <3>1, <3>2 DEF CameFromCommit
    <3>4. commit \in 0..made  BY <1>1, <1>5, <3>1 DEF DiskOK, Resolved
    <3>5. QED  BY <1>6, <3>2, <3>3, <3>4
  <2>3. QED  BY <2>1, <2>2
<1>9. QED  BY <1>7, <1>8

\* The lease: what is confirmed is kept as it is.
LEMMA CheckHolds ==
    ASSUME IInv, made \in Nat, NEW h \in Handlers,
           CheckHead(h) \/ CheckTarget(h) \/ CheckBranch(h)
    PROVE  TurnHolds(h)
<1>1. RequestsOK  BY DEF IInv
<1>2. /\ request[h].at \in {"check head", "check target", "check branch"}
      /\ Holds(request[h], approved[h])
  BY <1>1 DEF RequestsOK, CheckHead, CheckTarget, CheckBranch
<1>3. CASE Fails(h)  BY <1>1, <1>3, FailsHolds
<1>4. CASE End(h, "refused")  BY <1>1, <1>4, EndHolds DEF AtEnd
<1>5. CASE ~Fails(h) /\ ~End(h, "refused")
  <2>1. PICK at \in {"check target", "check branch", "act"} :
           To(h, at) /\ (at = "check branch" => request[h].plan.kind = "branch-delete")
    BY <1>5 DEF CheckHead, CheckTarget, CheckBranch
  <2>2. at \in States  BY DEF States
  <2>3. at \notin Previewing  BY DEF Previewing
  <2>4. QED  BY <1>1, <1>2, <2>1, <2>2, <2>3, ToHolds DEF Holds
<1>6. QED  BY <1>3, <1>4, <1>5

LEMMA ActHolds ==
    ASSUME IInv, made \in Nat, NEW h \in Handlers, Act(h) \/ Forget(h)
    PROVE  TurnHolds(h)
<1>1. RequestsOK  BY DEF IInv
<1>2. CASE To(h, "forget")
  BY <1>1, <1>2, ToHolds DEF States, Previewing
<1>3. CASE \E at \in AtEnd : End(h, at)
  BY <1>1, <1>3, EndHolds
<1>4. QED  BY <1>2, <1>3 DEF Act, Forget, AtEnd

\* What is read of a branch before it is deleted.
LEMMA ReadTipHolds ==
    ASSUME IInv, made \in Nat, NEW h \in Handlers, ReadTip(h), requests \in Nat
    PROVE  TurnHolds(h)
<1>1. RequestsOK /\ DiskOK  BY DEF IInv
<1>2. request[h].at = "read tip" /\ Holds(request[h], approved[h])
  BY <1>1 DEF RequestsOK, ReadTip
<1>3. PICK b \in Branches : b = request[h].branch  BY <1>2 DEF Holds
<1>4. CASE To(h, "delete")
  <2>1. request[h].record = None \/ request[h].record \in Remembered
    BY <1>2 DEF Holds
  <2>2. QED  BY <1>1, <1>2, <1>3, <1>4, <2>1, ToHolds DEF States, Previewing
<1>5. CASE ~To(h, "delete")
  <2>1. PICK record : record = [name |-> b, sha |-> refs[b], head |-> 0,
                                by |-> h, nth |-> requests]
    OBVIOUS
  <2>2. PICK now : now = [request[h] EXCEPT !.at = "read head", !.record = record]  OBVIOUS
  <2>3. Exists(b) /\ Goes(h, now)  BY <1>3, <1>5, <2>1, <2>2 DEF ReadTip
  <2>4. record \in Deletions
    BY <1>1, <2>1, <2>3 DEF DiskOK, Exists, Deletions
  <2>5. now.at = "read head" /\ now.record = record /\ now.branch = b /\ now \in Requests
    BY <1>2, <1>3, <2>2, <2>4 DEF Requests, Holds, States
  <2>6. Holds(now, approved[h])  BY <1>2, <2>4, <2>5 DEF Holds, Previewing, AtEnd
  <2>7. QED  BY <1>1, <2>3, <2>6, GoesHolds
<1>6. QED  BY <1>4, <1>5

LEMMA ReadHeadBeforeHolds ==
    ASSUME IInv, made \in Nat, NEW h \in Handlers, ReadHeadBefore(h)
    PROVE  TurnHolds(h)
<1>1. RequestsOK /\ DiskOK  BY DEF IInv
<1>2. /\ request[h].at = "read head" /\ Holds(request[h], approved[h])
      /\ request[h] \in Requests /\ request[h].record \in Deletions
      /\ request[h].branch \in Branches
  BY <1>1 DEF RequestsOK, ReadHeadBefore, Holds
<1>3. ASSUME NEW record \in Remembered \cup {None}, NEW now,
             now.at = "delete", now.record = record, now.branch = request[h].branch,
             now \in Requests, Goes(h, now)
      PROVE  TurnHolds(h)
  <2>1. Holds(now, approved[h])  BY <1>2, <1>3 DEF Holds, Previewing, AtEnd
  <2>2. QED  BY <1>1, <1>3, <2>1, GoesHolds
<1>4. CASE Goes(h, [request[h] EXCEPT !.at = "delete", !.record = None])
  <2>1. PICK now : now = [request[h] EXCEPT !.at = "delete", !.record = None]  OBVIOUS
  <2>2. now.at = "delete" /\ now.record = None /\ now.branch = request[h].branch
        /\ now \in Requests
    BY <1>2, <2>1 DEF Requests, States
  <2>3. QED  BY <1>3, <1>4, <2>1, <2>2
<1>5. CASE Goes(h, [request[h] EXCEPT !.at = "delete", !.record.head = head.at])
  <2>1. PICK commit : commit = head.at  OBVIOUS
  <2>2. commit \in 1..made  BY <1>1, <2>1 DEF DiskOK, Heads
  <2>3. PICK record : record = [request[h].record EXCEPT !.head = commit]  OBVIOUS
  <2>4. record \in Remembered
    <3>1. commit \in 0..made /\ commit # 0  BY <2>2
    <3>2. record \in Deletions  BY <1>2, <2>3, <3>1 DEF Deletions
    <3>3. record.head = commit  BY <1>2, <2>3 DEF Deletions
    <3>4. QED  BY <3>1, <3>2, <3>3 DEF Remembered
  <2>5. PICK now : now = [request[h] EXCEPT !.at = "delete", !.record.head = commit]  OBVIOUS
  <2>6. now.at = "delete" /\ now.record = record /\ now.branch = request[h].branch
    <3>1. now.at = "delete"  BY <1>2, <2>5 DEF Requests
    <3>2. now.branch = request[h].branch  BY <1>2, <2>5 DEF Requests
    <3>3. now.record = record  BY <1>2, <2>3, <2>5 DEF Requests
    <3>4. QED  BY <3>1, <3>2, <3>3
  <2>7. now \in Requests
    BY <1>2, <2>3, <2>4, <2>5 DEF Requests, States, Remembered
  <2>8. QED  BY <1>3, <1>5, <2>1, <2>4, <2>5, <2>6, <2>7
<1>6. QED  BY <1>4, <1>5 DEF ReadHeadBefore

LEMMA DeleteHolds ==
    ASSUME IInv, made \in Nat, NEW h \in Handlers, Delete(h) \/ Record(h)
    PROVE  TurnHolds(h)
<1>1. RequestsOK  BY DEF IInv
<1>2. /\ request[h].at \in {"delete", "record"} /\ Holds(request[h], approved[h])
  BY <1>1 DEF RequestsOK, Delete, Record
<1>3. CASE request[h].at = "delete" /\ request[h].record # None /\ To(h, "record")
  <2>1. request[h].record \in Remembered  BY <1>2, <1>3 DEF Holds
  <2>2. QED  BY <1>1, <1>3, <2>1, ToHolds DEF States, Previewing
<1>4. CASE \E at \in AtEnd : End(h, at)
  BY <1>1, <1>4, EndHolds
<1>5. QED  BY <1>3, <1>4 DEF Delete, Record, AtEnd

-----------------------------------------------------------------------------
(* The invariant. *)

LEMMA InvInit == Init => IInv
<1> SUFFICES ASSUME Init PROVE IInv
  OBVIOUS
<1>1. made = 2 /\ made \in Nat /\ made \in 2..MaxCommits
  BY UndoAssumption DEF Init
<1>2. Log(reflog)
  <2>1. PICK entry : entry = [kind |-> "initial", at |-> 1, from |-> None]  OBVIOUS
  <2>2. entry \in Entries /\ entry.at = 1 /\ entry.kind = "initial"
    BY <1>1, <2>1 DEF Entries, Kinds
  <2>3. reflog = <<entry>>  BY <2>1 DEF Init
  <2>4. reflog \in Seq(Entries) /\ Len(reflog) = 1 /\ reflog[1] = entry  BY <2>2, <2>3
  <2>5. 1 \in kept  BY DEF Init
  <2>6. QED  BY <2>2, <2>4, <2>5 DEF Log
<1>3. reflog[1].at = 1 /\ reflog[1].kind = "initial" /\ Len(reflog) = 1
  <2>1. reflog = <<[kind |-> "initial", at |-> 1, from |-> None]>>  BY DEF Init
  <2>2. QED  BY <2>1
<1>4. DiskOK
  <2>1. head \in Heads /\ head.on = Main /\ head.at = 1
    BY <1>1, UndoAssumption DEF Init, Heads
  <2>2. refs \in [Branches -> 0..made] /\ refs[Main] = 1
    BY <1>1 DEF Init
  <2>3. gone = {} /\ kept = {1}  BY DEF Init
  <2>4. QED  BY <1>1, <1>2, <1>3, <2>1, <2>2, <2>3 DEF DiskOK
<1>5. PastOK
  <2>1. past = head  BY DEF Init
  <2>2. QED  BY <1>3, <1>4, <2>1 DEF PastOK, DiskOK
<1>6. RequestsOK
  <2>1. request = [h \in Handlers |-> Ended("idle")] /\ approved = [h \in Handlers |-> NoPlan]
    BY DEF Init
  <2>2. PICK at : at = "idle"  OBVIOUS
  <2>3. Ended(at) = Blank(at, "nothing", None)  BY DEF Ended, Blank
  <2>4. BlankFor(at, "nothing", None)  BY <2>2 DEF BlankFor, AtEnd
  <2>5. NoPlan \in Plans  BY <1>1, NoPlanIsAPlan
  <2>6. Holds(Ended(at), NoPlan)  BY <1>1, <2>3, <2>4, <2>5, BlankHolds
  <2>7. Ended(at) \in Requests  BY <2>6 DEF Holds
  <2>8. QED  BY <2>1, <2>2, <2>5, <2>6, <2>7 DEF RequestsOK
<1>7. deleted = None /\ requests \in Nat  BY DEF Init
<1>8. QED  BY <1>4, <1>5, <1>6, <1>7 DEF IInv

LEMMA MadeIsANumber == ASSUME IInv PROVE made \in Nat
BY UndoAssumption DEF IInv, DiskOK

\* The disk as it was.
LEMMA DiskUnchanged ==
    ASSUME IInv, UNCHANGED disk
    PROVE  DiskOK' /\ Grows /\ Moves
<1>1. Entries' = Entries /\ Heads' = Heads  BY DEF disk, Entries, Heads
<1>2. Log(reflog)'  BY <1>1 DEF IInv, DiskOK, Log, disk
<1>3. DiskOK'  BY <1>1, <1>2 DEF IInv, DiskOK, disk
<1>4. Grows  BY MadeIsANumber DEF Grows, disk
<1>5. Moves  BY DEF Moves, disk
<1>6. QED  BY <1>3, <1>4, <1>5

\* In a terminal.
LEMMA TerminalDisk ==
    ASSUME IInv, MakeCommit \/ Reset \/ Checkout \/ Rewrite \/ Collect
    PROVE  DiskOK' /\ Grows /\ Moves
<1>1. DiskOK /\ made \in Nat  BY MadeIsANumber DEF IInv
<1>2. CASE MakeCommit
  <2>1. PICK kind \in {"commit", "other"} : Advance(kind, made + 1)
    BY <1>2 DEF MakeCommit
  <2>2. made' = made + 1 /\ made' \in made..MaxCommits /\ gone' = gone /\ made + 1 \in 1..made'
    BY <1>1, <1>2, UndoAssumption DEF MakeCommit
  <2>3. made + 1 \notin gone  BY <1>1 DEF DiskOK
  <2>4. PICK commit : commit = made + 1  OBVIOUS
  <2>5. DiskOK' /\ Grows  BY <1>1, <2>1, <2>2, <2>3, <2>4, DiskOfAdvance
  <2>6. Moves  BY <2>1, <2>2 DEF Moves
  <2>7. QED  BY <2>5, <2>6
<1>3. CASE Reset
  <2>1. PICK c \in Standing : Advance("reset", c) /\ UNCHANGED <<made, gone>>
    BY <1>3 DEF Reset, ResetSoft
  <2>2. c \in 1..made' /\ c \notin gone /\ made' \in made..MaxCommits
    BY <1>1, <2>1, UndoAssumption DEF Standing, DiskOK
  <2>3. DiskOK' /\ Grows  BY <1>1, <2>1, <2>2, DiskOfAdvance
  <2>4. Moves  BY <2>1, <2>2 DEF Moves
  <2>5. QED  BY <2>3, <2>4
<1>4. CASE Checkout
  <2>1. PICK on \in Branches \cup {None}, c \in 1..made :
           /\ Leave(on, c) /\ UNCHANGED <<made, gone>>
           /\ c \notin gone
           /\ on # None => refs[on] = c
    <3>1. CASE \E b \in Branches : head.on # b /\ Switch(b)
      <4>1. PICK b \in Branches : Switch(b)  BY <3>1
      <4>2. refs[b] \in 1..made /\ refs[b] \notin gone  BY <1>1, <4>1 DEF DiskOK, Switch, Exists
      <4>3. QED  BY <4>1, <4>2 DEF Switch
    <3>2. CASE \E c \in Standing : Detach(c)
      BY <3>2 DEF Detach, Standing
    <3>3. QED  BY <1>4, <3>1, <3>2 DEF Checkout
  <2>2. DiskOK' /\ Grows  BY <1>1, <2>1, DiskOfLeave
  <2>3. Moves  BY <2>1 DEF Moves
  <2>4. QED  BY <2>2, <2>3
<1>5. CASE Rewrite
  <2>1. PICK b \in Branches, c \in 0..made :
           head.on # b /\ PointBranch(b, c) /\ c \notin gone
    <3>1. 0 \in 0..made /\ 0 \notin gone  BY <1>1 DEF DiskOK
    <3>2. \A c \in Standing : c \in 0..made /\ c \notin gone  BY <1>1 DEF Standing
    <3>3. QED  BY <1>5, <3>1, <3>2 DEF Rewrite, DeleteBranch
  <2>2. DiskOK' /\ Grows  BY <1>1, <2>1, DiskOfPoint
  <2>3. Moves  BY <2>1 DEF Moves, PointBranch
  <2>4. QED  BY <2>2, <2>3
<1>6. CASE Collect
  <2>1. Moves  BY <1>6 DEF Moves, Collect
  <2>2. QED  BY <1>1, <1>6, <2>1, DiskOfCollect
<1>7. QED  BY <1>2, <1>3, <1>4, <1>5, <1>6

\* What an undo that is run does.
LEMMA ActDisk ==
    ASSUME IInv, NEW h \in Handlers, Act(h)
    PROVE  DiskOK' /\ Grows /\ Moves
<1>1. DiskOK /\ made \in Nat /\ RequestsOK  BY MadeIsANumber DEF IInv
<1>2. PICK plan : plan = request[h].plan  OBVIOUS
<1>3. /\ Ready(plan) /\ Reverses(plan, request[h].entries) /\ plan \in Plans
  BY <1>1, <1>2 DEF RequestsOK, Holds, Act, Requests
<1>4. CASE plan.kind \in {"commit", "reset"} /\ ResetSoft(plan.to)
  <2>1. PICK c : c = plan.to  OBVIOUS
  <2>2. c \in kept  BY <1>3, <1>4, <2>1 DEF Ready
  <2>3. Advance("reset", c) /\ made' = made /\ gone' = gone
    BY <1>4, <2>1 DEF ResetSoft
  <2>4. c \in 1..made' /\ c \notin gone /\ made' \in made..MaxCommits
    BY <1>1, <2>2, <2>3, UndoAssumption DEF DiskOK
  <2>5. DiskOK' /\ Grows  BY <1>1, <2>3, <2>4, DiskOfAdvance
  <2>6. Moves  BY <2>3, <2>4 DEF Moves
  <2>7. QED  BY <2>5, <2>6
<1>5. CASE /\ plan.kind = "checkout"
           /\ \/ ~plan.detach /\ Switch(plan.ref)
              \/ plan.detach /\ Resolved(plan.ref) # 0 /\ Detach(Resolved(plan.ref))
  <2>1. PICK on \in Branches \cup {None}, c \in 1..made :
           /\ Leave(on, c) /\ UNCHANGED <<made, gone>>
           /\ c \notin gone
           /\ on # None => refs[on] = c
    <3>1. CASE ~plan.detach
      <4>1. PICK b \in Branches : b = plan.ref  BY <1>3, <1>5, <3>1 DEF Ready
      <4>2. Switch(b)  BY <1>5, <3>1, <4>1
      <4>3. refs[b] \in 1..made /\ refs[b] \notin gone  BY <1>1, <4>2 DEF DiskOK, Switch, Exists
      <4>4. QED  BY <4>2, <4>3 DEF Switch
    <3>2. CASE plan.detach
      <4>1. PICK c : c = Resolved(plan.ref)  OBVIOUS
      <4>2. c # 0 /\ Detach(c)  BY <1>5, <3>2, <4>1
      <4>3. plan.ref \in Branches \cup 1..made  BY <1>3, <1>5 DEF Reverses
      <4>4. c \in 1..made /\ c \notin gone
        BY <1>1, <4>1, <4>2, <4>3 DEF Resolved, DiskOK
      <4>5. QED  BY <4>2, <4>4 DEF Detach
    <3>3. QED  BY <3>1, <3>2
  <2>2. DiskOK' /\ Grows  BY <1>1, <2>1, DiskOfLeave
  <2>3. Moves  BY <2>1 DEF Moves
  <2>4. QED  BY <2>2, <2>3
<1>6. CASE plan.kind = "branch-delete" /\ CreateBranch(plan.branch, plan.to)
  <2>1. PICK b \in Branches, c \in 1..made : b = plan.branch /\ c = plan.to
    BY <1>3, <1>6 DEF Ready
  <2>2. PointBranch(b, c) /\ c \notin gone /\ refs[b] = 0
    BY <1>6, <2>1 DEF CreateBranch, Exists
  <2>3. head.on # b  BY <1>1, <2>2, UndoAssumption DEF DiskOK, Heads
  <2>4. DiskOK' /\ Grows  BY <1>1, <2>1, <2>2, <2>3, DiskOfPoint
  <2>5. Moves  BY <2>2 DEF Moves, PointBranch
  <2>6. QED  BY <2>4, <2>5
<1>7. CASE UNCHANGED disk  BY <1>7, DiskUnchanged
<1>8. QED  BY <1>2, <1>4, <1>5, <1>6, <1>7 DEF Act

\* What a handler reads leaves the disk as it was.
Reads(h) ==
    \/ AskPlan(h) \/ AskUndo(h) \/ AskDelete(h)
    \/ Preview(h)
    \/ CheckHead(h) \/ CheckTarget(h) \/ CheckBranch(h) \/ Forget(h)
    \/ ReadTip(h) \/ ReadHeadBefore(h) \/ Record(h)

HandlerStep(h) == Reads(h) \/ Act(h) \/ Delete(h)

LEMMA ReadsChangeNothing ==
    ASSUME NEW h \in Handlers, Reads(h)
    PROVE  UNCHANGED disk
BY DEF Reads, AskPlan, AskUndo, AskDelete, Begin, Preview, LookUp, RecordHead, RecordBranch,
       RecordTip, Spent, ReadReflog, ReadHead, CameFromBranch, CameFromCommit, CheckHead,
       CheckTarget, CheckBranch, Forget, ReadTip, ReadHeadBefore, Record, Reading

LEMMA HandlerDisk ==
    ASSUME IInv, NEW h \in Handlers, HandlerStep(h)
    PROVE  DiskOK' /\ Grows /\ Moves
<1>1. CASE Reads(h)  BY <1>1, ReadsChangeNothing, DiskUnchanged
<1>2. CASE Act(h)  BY <1>2, ActDisk
<1>3. CASE Delete(h)
  <2>1. CASE UNCHANGED disk  BY <2>1, DiskUnchanged
  <2>2. CASE DeleteBranch(request[h].branch)
    <3>1. PICK b \in Branches : b = request[h].branch
      BY <1>3 DEF IInv, RequestsOK, Holds, Delete
    <3>2. head.on # b /\ PointBranch(b, 0)  BY <2>2, <3>1 DEF DeleteBranch
    <3>3. DiskOK /\ made \in Nat  BY MadeIsANumber DEF IInv
    <3>4. PICK c : c = 0  OBVIOUS
    <3>5. c \in 0..made /\ c \notin gone  BY <3>3, <3>4 DEF DiskOK
    <3>6. DiskOK' /\ Grows  BY <3>2, <3>3, <3>4, <3>5, DiskOfPoint
    <3>7. Moves  BY <3>2 DEF Moves, PointBranch
    <3>8. QED  BY <3>6, <3>7
  <2>3. QED  BY <1>3, <2>1, <2>2 DEF Delete
<1>4. QED  BY <1>1, <1>2, <1>3 DEF HandlerStep

LEMMA HandlerHolds ==
    ASSUME IInv, NEW h \in Handlers, HandlerStep(h)
    PROVE  TurnHolds(h)
<1>1. made \in Nat /\ requests \in Nat  BY MadeIsANumber DEF IInv
<1>2. CASE AskPlan(h) \/ AskUndo(h) \/ AskDelete(h)  BY <1>1, <1>2, AskHolds
<1>3. CASE Preview(h)
  BY <1>1, <1>3, LookUpHolds, RecordReadHolds, RecordTipHolds, ReadReflogHolds, ReadHeadHolds,
     CameFromHolds DEF Preview
<1>4. CASE CheckHead(h) \/ CheckTarget(h) \/ CheckBranch(h)  BY <1>1, <1>4, CheckHolds
<1>5. CASE Act(h) \/ Forget(h)  BY <1>1, <1>5, ActHolds
<1>6. CASE ReadTip(h)  BY <1>1, <1>6, ReadTipHolds
<1>7. CASE ReadHeadBefore(h)  BY <1>1, <1>7, ReadHeadBeforeHolds
<1>8. CASE Delete(h) \/ Record(h)  BY <1>1, <1>8, DeleteHolds
<1>9. QED  BY <1>2, <1>3, <1>4, <1>5, <1>6, <1>7, <1>8 DEF HandlerStep, Reads

\* What is remembered has both its commits.
LEMMA HandlerRemembers ==
    ASSUME IInv, NEW h \in Handlers, HandlerStep(h)
    PROVE  deleted' \in Remembered \cup {None} /\ requests' \in Nat
<1>1. CASE Spent(h) \/ Forget(h)  BY <1>1 DEF IInv, Spent, Forget
<1>2. CASE Record(h)
  BY <1>2 DEF IInv, Record, RequestsOK, Holds
<1>3. CASE ~Spent(h) /\ ~Forget(h) /\ ~Record(h)
  <2>1. deleted' = deleted /\ requests' \in {requests, requests + 1}
    BY <1>3 DEF HandlerStep, Reads, AskPlan, AskUndo, AskDelete, Begin, Preview, LookUp,
       RecordHead, RecordBranch, RecordTip, ReadReflog, ReadHead, CameFromBranch,
       CameFromCommit, CheckHead, CheckTarget, CheckBranch, ReadTip, ReadHeadBefore, Reading,
       Act, Delete
  <2>2. QED  BY <2>1 DEF IInv
<1>4. QED  BY <1>1, <1>2, <1>3

\* A step that changes the disk or a request notes it.
LEMMA StepsNote ==
    ASSUME Next
    PROVE  Note
<1>1. CASE MakeCommit \/ Reset \/ Checkout \/ Rewrite \/ Collect
  BY <1>1 DEF MakeCommit, Reset, Checkout, Rewrite, Collect
<1>2. ASSUME NEW h \in Handlers, HandlerStep(h)  PROVE Note
  BY <1>2 DEF HandlerStep, Reads, AskPlan, AskUndo, AskDelete, Begin, Preview, LookUp,
     RecordHead, RecordBranch, RecordTip, Spent, ReadReflog, ReadHead, CameFromBranch,
     CameFromCommit, CheckHead, CheckTarget, CheckBranch, Forget, ReadTip, ReadHeadBefore,
     Record, Reading, Act, Delete
<1>3. QED  BY <1>1, <1>2 DEF Next, HandlerStep, Reads

LEMMA InvStep == IInv /\ [Next]_vars => IInv'
<1> SUFFICES ASSUME IInv, [Next]_vars PROVE IInv'
  OBVIOUS
<1>1. made \in Nat /\ DiskOK /\ RequestsOK /\ PastOK /\ requests \in Nat
  BY MadeIsANumber DEF IInv
<1>2. CASE MakeCommit \/ Reset \/ Checkout \/ Rewrite \/ Collect
  <2>1. DiskOK' /\ Grows /\ Moves  BY <1>2, TerminalDisk
  <2>2. UNCHANGED <<deleted, request, approved, requests>>
    BY <1>2 DEF MakeCommit, Reset, Checkout, Rewrite, Collect, AtTerminal
  <2>3. RequestsOK'  BY <1>1, <2>1, <2>2, RequestsUntouched
  <2>4. deleted' \in Remembered' \cup {None}
    BY <1>1, <2>1, <2>2, TypesGrow DEF IInv
  <2>5. Note  BY <1>2, StepsNote DEF Next
  <2>6. PastOK'  BY <1>1, <2>1, <2>5, PastFollows
  <2>7. QED  BY <1>1, <2>1, <2>2, <2>3, <2>4, <2>6 DEF IInv
<1>3. ASSUME NEW h \in Handlers, HandlerStep(h)  PROVE IInv'
  <2>1. DiskOK' /\ Grows /\ Moves  BY <1>3, HandlerDisk
  <2>2. RequestsOK'  BY <1>1, <1>3, <2>1, HandlerHolds, RequestsAfterTurn
  <2>3. deleted' \in Remembered' \cup {None} /\ requests' \in Nat
    BY <1>1, <1>3, <2>1, HandlerRemembers, TypesGrow
  <2>4. Note  BY <1>3, StepsNote DEF Next, HandlerStep, Reads
  <2>5. PastOK'  BY <1>1, <2>1, <2>4, PastFollows
  <2>6. QED  BY <2>1, <2>2, <2>3, <2>5 DEF IInv
<1>4. CASE UNCHANGED vars
  <2>1. UNCHANGED disk  BY <1>4 DEF vars
  <2>2. DiskOK' /\ Grows  BY <2>1, DiskUnchanged
  <2>3. UNCHANGED <<request, approved, deleted, requests, head, reflog, past>>
    BY <1>4 DEF vars, history, disk
  <2>4. RequestsOK'  BY <1>1, <2>2, <2>3, RequestsUntouched
  <2>5. deleted' \in Remembered' \cup {None}  BY <1>1, <2>2, <2>3, TypesGrow DEF IInv
  <2>6. past' \in Heads'  BY <1>1, <2>2, <2>3, TypesGrow DEF PastOK
  <2>7. PastOK'  BY <1>1, <2>3, <2>6 DEF PastOK
  <2>8. QED  BY <1>1, <2>2, <2>3, <2>4, <2>5, <2>7 DEF IInv
<1>5. QED  BY <1>2, <1>3, <1>4 DEF Next, HandlerStep, Reads

LEMMA Invariance == Spec => []IInv
BY InvInit, InvStep, PTL DEF Spec

LEMMA InvIsTyped == IInv => TypeOK
<1> SUFFICES ASSUME IInv PROVE TypeOK
  OBVIOUS
<1>1. \A h \in Handlers : /\ request[h].at \in States \cup AtEnd
                          /\ request[h].plan \in Plans /\ approved[h] \in Plans
  BY DEF IInv, RequestsOK, Requests
<1>2. deleted # None =>
         deleted.name \in Branches /\ {deleted.sha, deleted.head} \subseteq 1..made
  <2>1. CASE deleted \in Remembered
    <3>1. /\ deleted.name \in Branches /\ deleted.sha \in 1..made
          /\ deleted.head \in 0..made /\ deleted.head # 0
      BY <2>1 DEF Remembered, Deletions
    <3>2. deleted.head \in 1..made  BY <3>1, MadeIsANumber
    <3>3. QED  BY <3>1, <3>2
  <2>2. QED  BY <2>1 DEF IInv
<1>3. QED  BY <1>1, <1>2 DEF IInv, DiskOK, TypeOK, Heads

\* The types of the state: HEAD is at the commit of its branch, and no command
\* leaves a branch, the reflog or the record of a deletion at nothing.
THEOREM Types == Spec => []TypeOK
BY Invariance, InvIsTyped, PTL

-----------------------------------------------------------------------------
(* What an undo does. *)

\* A request that runs its command and is over is the one whose turn it is, and
\* git did what it was told.
LEMMA WhoActs ==
    ASSUME IInv, [Next]_vars, NEW h \in Handlers, Acts(h)
    PROVE  Act(h)
<1>1. request'[h] # request[h] /\ request[h].at = "act"  BY DEF Acts
<1>2. ~UNCHANGED vars  BY <1>1 DEF vars
<1>3. ~(MakeCommit \/ Reset \/ Checkout \/ Rewrite \/ Collect)
  BY <1>1 DEF MakeCommit, Reset, Checkout, Rewrite, Collect, AtTerminal
<1>4. PICK k \in Handlers : HandlerStep(k)  BY <1>2, <1>3 DEF Next, HandlerStep, Reads
<1>5. k = h
  <2>1. Turn(k)  BY <1>4, HandlerHolds DEF TurnHolds
  <2>2. k # h => request'[h] = request[h]  BY <2>1 DEF Turn, IInv, RequestsOK
  <2>3. QED  BY <1>1, <2>2
<1>6. QED
  BY <1>1, <1>4, <1>5 DEF HandlerStep, Reads, AskPlan, AskUndo, AskDelete, Begin, AtEnd,
     Preview, LookUp, RecordHead, RecordBranch, RecordTip, Spent, ReadReflog, ReadHead,
     CameFromBranch, CameFromCommit, CheckHead, CheckTarget, CheckBranch, Forget, ReadTip,
     ReadHeadBefore, Record, Delete

LEMMA WhatActs ==
    ASSUME IInv, NEW h \in Handlers, Acts(h), Act(h)
    PROVE  LET plan == request[h].plan
           IN \/ plan.kind \in {"commit", "reset"} /\ ResetSoft(plan.to)
              \/ plan.kind = "checkout" /\ ~plan.detach /\ Switch(plan.ref)
              \/ /\ plan.kind = "checkout" /\ plan.detach
                 /\ Resolved(plan.ref) # 0 /\ Detach(Resolved(plan.ref))
              \/ plan.kind = "branch-delete" /\ CreateBranch(plan.branch, plan.to)
<1>1. ~End(h, "failed")
  <2>1. End(h, "failed") => request'[h].at = "failed"
    BY DEF End, Ended, IInv, RequestsOK
  <2>2. QED  BY <2>1 DEF Acts
<1>2. QED  BY <1>1 DEF Act

LEMMA ActHeld ==
    ASSUME IInv, NEW h \in Handlers, Act(h)
    PROVE  /\ Agrees(request[h].plan, approved[h]) /\ Ready(request[h].plan)
           /\ Reverses(request[h].plan, request[h].entries)
           /\ request[h].plan \in Plans /\ approved[h] \in Plans
BY DEF IInv, RequestsOK, Holds, Act, Requests

LEMMA StepReverses ==
    ASSUME IInv, [Next]_vars, NEW h \in Handlers, Acts(h), request[h].plan.kind # "branch-delete",
           request[h].entries = reflog, head.on = request[h].plan.into
    PROVE  /\ head'.on = past.on \/ request[h].plan.detach
           /\ request[h].plan.kind \in {"commit", "reset"} => head'.at = past.at
<1>1. Act(h)  BY WhoActs
<1>2. PICK plan : plan = request[h].plan  OBVIOUS
<1>3. /\ Ready(plan) /\ Reverses(plan, reflog)  BY <1>1, <1>2, ActHeld
<1>4. DiskOK /\ PastOK  BY DEF IInv
<1>5. CASE plan.kind \in {"commit", "reset"} /\ ResetSoft(plan.to)
  <2>1. reflog[1].kind = plan.kind /\ plan.to = reflog[2].at /\ Len(reflog) = 2
    BY <1>3, <1>5 DEF Reverses, Log
  <2>2. head.on = past.on /\ reflog[2].at = past.at  BY <1>4, <1>5, <2>1 DEF PastOK
  <2>3. head'.on = head.on /\ head'.at = plan.to
    BY <1>4, <1>5 DEF ResetSoft, Advance, DiskOK, Heads
  <2>4. QED  BY <1>2, <2>1, <2>2, <2>3
<1>6. CASE plan.kind = "checkout" /\ ~plan.detach /\ Switch(plan.ref)
  <2>1. plan.ref \in Branches /\ plan.ref = reflog[1].from /\ reflog[1].kind = "checkout"
    BY <1>3, <1>6 DEF Ready, Reverses
  <2>2. past.at \in Nat  BY <1>4 DEF PastOK, Heads
  <2>3. plan.ref # past.at  BY <2>1, <2>2, UndoAssumption
  <2>4. plan.ref = past.on  BY <1>4, <2>1, <2>3 DEF PastOK
  <2>5. head'.on = plan.ref  BY <1>6 DEF Switch, Leave
  <2>6. QED  BY <1>2, <1>6, <2>4, <2>5
<1>7. CASE plan.kind = "checkout" /\ plan.detach
  BY <1>2, <1>7
<1>8. QED  BY <1>1, <1>2, <1>5, <1>6, <1>7, WhatActs

\* What is reversed is the last move of HEAD: the branch it was on and, unless
\* that branch has moved since, the commit.
THEOREM Reversal == Spec => ReversesTheLastMove
<1>1. ASSUME IInv, [Next]_vars
      PROVE  \A h \in Handlers :
                LET plan == request[h].plan
                IN Acts(h) /\ plan.kind # "branch-delete"
                   /\ request[h].entries = reflog /\ head.on = plan.into
                   => /\ head'.on = past.on \/ plan.detach
                      /\ plan.kind \in {"commit", "reset"} => head'.at = past.at
  BY <1>1, StepReverses
<1>2. QED  BY <1>1, Invariance, PTL DEF Spec, ReversesTheLastMove

LEMMA StepDoes ==
    ASSUME IInv, [Next]_vars, NEW h \in Handlers, Acts(h)
    PROVE  LET shown == approved[h]
               plan == request[h].plan
           IN CASE shown.kind \in {"commit", "reset"} ->
                      head.on = plan.into =>
                         head'.at = shown.to /\ head'.on \in {shown.into, None}
                [] shown.kind = "checkout" ->
                      Resolved(plan.ref) = plan.to =>
                         head' = [on |-> IF shown.detach THEN None ELSE shown.ref, at |-> shown.to]
                [] shown.kind = "branch-delete" ->
                      refs'[shown.branch] = shown.to /\ head' = head
                [] OTHER -> FALSE
<1>1. Act(h)  BY WhoActs
<1>2. PICK plan, shown : plan = request[h].plan /\ shown = approved[h]  OBVIOUS
<1>3. /\ Ready(plan) /\ Agrees(plan, shown) /\ plan \in Plans /\ shown \in Plans
  BY <1>1, <1>2, ActHeld
<1>4. /\ plan.kind = shown.kind /\ plan.to = shown.to /\ plan.ref = shown.ref
      /\ plan.detach = shown.detach /\ plan.branch = shown.branch
  <2>1. PICK one, other : /\ one = [plan EXCEPT !.into = None]
                          /\ other = [shown EXCEPT !.into = None]
    OBVIOUS
  <2>2. /\ one.kind = plan.kind /\ one.to = plan.to /\ one.ref = plan.ref
        /\ one.detach = plan.detach /\ one.branch = plan.branch
    BY <1>3, <2>1 DEF Plans
  <2>3. /\ other.kind = shown.kind /\ other.to = shown.to /\ other.ref = shown.ref
        /\ other.detach = shown.detach /\ other.branch = shown.branch
    BY <1>3, <2>1 DEF Plans
  <2>4. one = other  BY <1>3, <2>1 DEF Agrees
  <2>5. QED  BY <2>2, <2>3, <2>4
<1>5. DiskOK  BY DEF IInv
<1>6. CASE plan.kind \in {"commit", "reset"} /\ ResetSoft(plan.to)
  <2>1. head'.on = head.on /\ head'.at = plan.to
    BY <1>5, <1>6 DEF ResetSoft, Advance, DiskOK, Heads
  <2>2. plan.into # None => plan.into = shown.into  BY <1>3, <1>6 DEF Agrees
  <2>3. head.on = plan.into => head'.at = shown.to /\ head'.on \in {shown.into, None}
    BY <1>4, <2>1, <2>2
  <2>4. QED  BY <1>2, <1>4, <1>6, <2>3
<1>7. CASE plan.kind = "checkout" /\ ~plan.detach /\ Switch(plan.ref)
  <2>1. plan.ref \in Branches  BY <1>3, <1>7 DEF Ready
  <2>2. Resolved(plan.ref) = refs[plan.ref]  BY <2>1 DEF Resolved
  <2>3. head' = [on |-> plan.ref, at |-> refs[plan.ref]]  BY <1>7 DEF Switch, Leave
  <2>4. QED  BY <1>2, <1>4, <1>7, <2>2, <2>3
<1>8. CASE plan.kind = "checkout" /\ plan.detach /\ Detach(Resolved(plan.ref))
  <2>1. head' = [on |-> None, at |-> Resolved(plan.ref)]  BY <1>8 DEF Detach, Leave
  <2>2. QED  BY <1>2, <1>4, <1>8, <2>1
<1>9. CASE plan.kind = "branch-delete" /\ CreateBranch(plan.branch, plan.to)
  <2>1. plan.branch \in Branches  BY <1>3, <1>9 DEF Ready
  <2>2. refs'[plan.branch] = plan.to /\ head' = head
    BY <1>5, <1>9, <2>1 DEF CreateBranch, PointBranch, DiskOK
  <2>3. QED  BY <1>2, <1>4, <1>9, <2>2
<1>10. QED  BY <1>1, <1>2, <1>6, <1>7, <1>8, <1>9, WhatActs

\* The command undo runs does what the tab showed, whatever was done meanwhile.
THEOREM Promise == Spec => DoesWhatWasApproved
<1>1. ASSUME IInv, [Next]_vars
      PROVE  \A h \in Handlers : Acts(h) =>
          LET shown == approved[h]
              plan == request[h].plan
          IN CASE shown.kind \in {"commit", "reset"} ->
                     head.on = plan.into =>
                        head'.at = shown.to /\ head'.on \in {shown.into, None}
               [] shown.kind = "checkout" ->
                     Resolved(plan.ref) = plan.to =>
                        head' = [on |-> IF shown.detach THEN None ELSE shown.ref, at |-> shown.to]
               [] shown.kind = "branch-delete" ->
                     refs'[shown.branch] = shown.to /\ head' = head
               [] OTHER -> FALSE
  BY <1>1, StepDoes
<1>2. QED  BY <1>1, Invariance, PTL DEF Spec, DoesWhatWasApproved

-----------------------------------------------------------------------------
(* Why an undo is refused.  While nothing has moved, what a request read so *)
(* far is still so, and the plan it will come to is the one its tab shows.  *)

OfRecord ==
    [kind |-> "branch-delete", into |-> None, head |-> deleted.head, to |-> deleted.sha,
     ref |-> deleted.sha, detach |-> FALSE, branch |-> deleted.name]
OfCommit == Drafted(reflog[1].kind, head.on, head.at, reflog[2].at, reflog[2].at)
OfCheckout(to, detach) ==
    [kind |-> "checkout", into |-> head.on, head |-> head.at, to |-> to,
     ref |-> reflog[1].from, detach |-> detach, branch |-> None]

RecordStands ==
    /\ deleted # None
    /\ head.at = deleted.head /\ ~Exists(deleted.name) /\ deleted.sha \notin gone

OfReflog ==
    LET kind == reflog[1].kind
        from == reflog[1].from
    IN IF kind = "commit" \/ (kind = "reset" /\ reflog[2].at # head.at) THEN OfCommit
       ELSE IF kind # "checkout" THEN NoPlan
       ELSE IF from \in Branches /\ Exists(from) THEN OfCheckout(refs[from], FALSE)
       ELSE IF Resolved(from) = 0 THEN NoPlan
       ELSE OfCheckout(Resolved(from), TRUE)

\* The plan that is made of what is there now.
PlanNow == IF RecordStands THEN OfRecord ELSE OfReflog

\* What a request on its way to a plan, or to the command, has found.
Knows(r) ==
    /\ r.at \in {"record head", "record branch", "record tip", "spent"} =>
          deleted # None /\ r.record = deleted
    /\ r.at \in {"record branch", "record tip"} => head.at = deleted.head
    /\ r.at = "record tip" => ~Exists(deleted.name)
    /\ r.at \in {"spent", "reflog", "reflog head", "came from", "came from commit"} =>
          ~RecordStands
    /\ r.at \in {"reflog head", "came from", "came from commit"} => r.entries = reflog
    /\ r.at \in {"came from", "came from commit"} =>
          r.plan = OfCheckout(0, FALSE) /\ reflog[1].kind = "checkout"
    /\ r.at = "came from commit" /\ reflog[1].from \in Branches => ~Exists(reflog[1].from)
    /\ r.at \in {"check head", "check target", "check branch", "act"} => r.plan = PlanNow

UpToDate(h) ==
    ~moved[h] =>
        /\ approved[h] # NoPlan => approved[h] = PlanNow
        /\ request[h].want \in {"plan", "undo"} => Knows(request[h])
        /\ request[h].want = "undo" => approved[h] # NoPlan

AllUpToDate == moved \in [Handlers -> BOOLEAN] /\ \A h \in Handlers : UpToDate(h)

\* A plan made now passes the checks that are made before it is run.
LEMMA PlanNowFits ==
    ASSUME IInv, PlanNow # NoPlan
    PROVE  /\ PlanNow.head = head.at
           /\ Resolved(PlanNow.ref) = PlanNow.to
           /\ PlanNow.kind = "branch-delete" => ~Exists(PlanNow.branch)
<1>1. DiskOK /\ made \in Nat  BY MadeIsANumber DEF IInv
<1>2. ASSUME NEW c \in 1..made, c \notin gone  PROVE Resolved(c) = c
  BY <1>1, <1>2, UndoAssumption DEF Resolved
<1>3. CASE RecordStands
  <2>1. PlanNow = OfRecord  BY <1>3 DEF PlanNow
  <2>2. deleted \in Deletions  BY <1>3 DEF IInv, RecordStands, Remembered
  <2>3. Resolved(deleted.sha) = deleted.sha
    BY <1>2, <1>3, <2>2 DEF RecordStands, Deletions
  <2>4. QED  BY <1>3, <2>1, <2>3 DEF OfRecord, RecordStands
<1>4. CASE ~RecordStands
  <2>1. PlanNow = OfReflog  BY <1>4 DEF PlanNow
  <2>2. Log(reflog) /\ kept \subseteq 1..made /\ kept \cap gone = {}  BY <1>1 DEF DiskOK
  <2>3. CASE PlanNow = OfCommit /\ reflog[1].kind \in {"commit", "reset"}
    <3>1. reflog[2].at \in kept  BY <2>2, <2>3 DEF Log
    <3>2. Resolved(reflog[2].at) = reflog[2].at  BY <1>2, <2>2, <3>1
    <3>3. QED  BY <2>3, <3>2 DEF OfCommit, Drafted
  <2>4. CASE /\ PlanNow = OfCheckout(refs[reflog[1].from], FALSE)
             /\ reflog[1].from \in Branches
    BY <2>4 DEF OfCheckout, Resolved
  <2>5. CASE PlanNow = OfCheckout(Resolved(reflog[1].from), TRUE)
    BY <2>5 DEF OfCheckout
  <2>6. QED  BY <2>1, <2>3, <2>4, <2>5 DEF OfReflog
<1>5. QED  BY <1>3, <1>4

LEMMA SamePlanNow ==
    ASSUME UNCHANGED <<disk, deleted>>
    PROVE  PlanNow' = PlanNow /\ \A r : Knows(r)' <=> Knows(r)
<1>1. UNCHANGED <<refs, head, reflog, gone, deleted>>  BY DEF disk
<1>2. RecordStands' <=> RecordStands  BY <1>1 DEF RecordStands, Exists
<1>3. OfRecord' = OfRecord /\ OfCommit' = OfCommit  BY <1>1 DEF OfRecord, OfCommit, Drafted
<1>4. OfReflog' = OfReflog
  BY <1>1, <1>3 DEF OfReflog, OfCheckout, Exists, Resolved
<1>5. PlanNow' = PlanNow  BY <1>2, <1>3, <1>4 DEF PlanNow
<1>6. \A r : Knows(r)' <=> Knows(r)
  <2>1. OfCheckout(0, FALSE)' = OfCheckout(0, FALSE)  BY <1>1 DEF OfCheckout
  <2>2. ASSUME NEW r  PROVE Knows(r)' <=> Knows(r)
    BY <1>1, <1>2, <1>5, <2>1 DEF Knows, Exists
  <2>3. QED  BY <2>2
<1>7. QED  BY <1>5, <1>6

\* A handler whose turn it is not.
LEMMA StaysUpToDate ==
    ASSUME IInv, NEW h \in Handlers, UpToDate(h), Note,
           request'[h] = request[h], approved'[h] = approved[h]
    PROVE  UpToDate(h)'
<1> SUFFICES ASSUME ~moved'[h] PROVE UpToDate(h)'
  BY DEF UpToDate
<1>1. ~(request[h].at \in AtEnd /\ request'[h].want = "plan")
  BY DEF IInv, RequestsOK, Holds
<1>2. ~moved[h] /\ UNCHANGED <<disk, deleted>>  BY <1>1 DEF Note
<1>3. PICK r : r = request[h]  OBVIOUS
<1>4. PlanNow' = PlanNow /\ (Knows(r)' <=> Knows(r))  BY <1>2, SamePlanNow
<1>5. request[h].want \in {"plan", "undo"} => Knows(r)'
  BY <1>2, <1>3, <1>4 DEF UpToDate
<1>6. request'[h].want \in {"plan", "undo"} => Knows(request[h])'
  BY <1>3, <1>5 DEF Knows
<1>7. QED  BY <1>2, <1>4, <1>6 DEF UpToDate

\* What holds of a handler after a turn of its own that leaves the disk and the
\* record of the deletion alone: it has found what is there, and did not refuse.
Fresh(h) ==
    /\ approved'[h] # NoPlan => approved'[h] = PlanNow
    /\ request'[h].want \in {"plan", "undo"} => Knows(request'[h])
    /\ request'[h].want = "undo" => approved'[h] # NoPlan
    /\ request[h].want = "undo" => request'[h].at # "refused"

\* A handler to which this can happen.
Following(h) == IInv /\ UpToDate(h) /\ ~moved[h]

LEMMA EndFresh ==
    ASSUME NEW h \in Handlers, Following(h), NEW at, End(h, at),
           request[h].want = "undo" => at # "refused"
    PROVE  Fresh(h)
<1>1. request'[h] = Ended(at) /\ approved'[h] = NoPlan
  BY DEF End, Shows, Following, IInv, RequestsOK
<1>2. Ended(at).want = "nothing" /\ Ended(at).at = at  BY DEF Ended
<1>3. QED  BY <1>1, <1>2 DEF Fresh

LEMMA GoesFresh ==
    ASSUME NEW h \in Handlers, Following(h), NEW now, Goes(h, now), Knows(now),
           now.want = request[h].want, now.at # "refused"
    PROVE  Fresh(h)
<1>1. request'[h] = now /\ approved'[h] = approved[h]
  BY DEF Goes, Following, IInv, RequestsOK
<1>2. QED  BY <1>1 DEF Fresh, Following, UpToDate

LEMMA ToFresh ==
    ASSUME NEW h \in Handlers, Following(h), NEW at, To(h, at), at # "refused",
           NEW r, r = [request[h] EXCEPT !.at = at], Knows(r)
    PROVE  Fresh(h)
<1>1. request[h] \in Requests  BY DEF Following, IInv, RequestsOK
<1>2. r.want = request[h].want /\ r.at = at  BY <1>1 DEF Requests
<1>3. Goes(h, r)  BY DEF To
<1>4. QED  BY <1>2, <1>3, GoesFresh

\* A request that arrives at what is there now shows it, or agrees with it.
LEMMA DecideFresh ==
    ASSUME NEW h \in Handlers, Following(h), request[h].want # "nothing",
           NEW plan, plan = PlanNow, Decide(h, plan)
    PROVE  Fresh(h)
<1>1. request[h] \in Requests /\ RequestsOK  BY DEF Following, IInv, RequestsOK
<1>2. CASE request[h].want = "plan"
  <2>1. request'[h] = Ended("idle") /\ approved'[h] = plan
    BY <1>1, <1>2 DEF Decide, Shows, RequestsOK
  <2>2. Ended("idle").want = "nothing"  BY DEF Ended
  <2>3. QED  BY <1>2, <2>1, <2>2 DEF Fresh
<1>3. CASE request[h].want = "undo"
  <2>1. approved[h] = plan  BY <1>3 DEF Following, UpToDate
  <2>2. Agrees(plan, approved[h])  BY <2>1 DEF Agrees
  <2>3. PICK now : now = [request[h] EXCEPT !.at = "check head", !.plan = plan]  OBVIOUS
  <2>4. Goes(h, now)  BY <1>3, <2>2, <2>3 DEF Decide
  <2>5. now.at = "check head" /\ now.plan = plan /\ now.want = request[h].want
    BY <1>1, <2>3 DEF Requests
  <2>6. Knows(now)  BY <2>5 DEF Knows
  <2>7. now.at # "refused"  BY <2>5
  <2>8. QED  BY <2>4, <2>5, <2>6, <2>7, GoesFresh
<1>4. QED  BY <1>1, <1>2, <1>3 DEF Requests

LEMMA NothingFresh ==
    ASSUME NEW h \in Handlers, Following(h), request[h].want # "nothing",
           PlanNow = NoPlan, Nothing(h)
    PROVE  Fresh(h)
<1>1. request[h].want = "plan"
  BY DEF Following, IInv, RequestsOK, Requests, UpToDate
<1>2. End(h, "idle")  BY <1>1 DEF Nothing
<1>3. QED  BY <1>1, <1>2, EndFresh

LEMMA FailsFresh ==
    ASSUME NEW h \in Handlers, Following(h), Fails(h)
    PROVE  Fresh(h)
BY EndFresh DEF Fails

\* What a request that previews knows.
LEMMA PreviewKnows ==
    ASSUME NEW h \in Handlers, Following(h), request[h].at \in Previewing
    PROVE  /\ request[h].want # "nothing" /\ Knows(request[h]) /\ request[h] \in Requests
           /\ request[h].plan \in Plans
BY DEF Following, IInv, RequestsOK, Holds, Requests, UpToDate

LEMMA LookUpFresh ==
    ASSUME NEW h \in Handlers, Following(h), LookUp(h)
    PROVE  Fresh(h)
<1>1. request[h] \in Requests  BY DEF Following, IInv, RequestsOK
<1> DEFINE at == IF deleted = None THEN "reflog" ELSE "record head"
<1>2. PICK now : now = [request[h] EXCEPT !.record = deleted, !.at = at]  OBVIOUS
<1>3. /\ now.at = at /\ now.record = deleted /\ now.want = request[h].want
  BY <1>1, <1>2 DEF Requests
<1>4. Knows(now)  BY <1>3 DEF Knows, RecordStands
<1>5. Goes(h, now)  BY <1>2 DEF LookUp
<1>6. now.at # "refused"  BY <1>3
<1>7. QED  BY <1>3, <1>4, <1>5, <1>6, GoesFresh

LEMMA RecordFresh ==
    ASSUME NEW h \in Handlers, Following(h), "rev-parse" \notin MayFail,
           RecordHead(h) \/ RecordBranch(h) \/ RecordTip(h)
    PROVE  Fresh(h)
<1>1. request[h].at \in Previewing  BY DEF RecordHead, RecordBranch, RecordTip, Previewing
<1>2. /\ request[h].want # "nothing" /\ Knows(request[h]) /\ request[h] \in Requests
  BY <1>1, PreviewKnows
<1>3. deleted # None /\ request[h].record = deleted
  BY <1>2 DEF Knows, RecordHead, RecordBranch, RecordTip
<1>4. ASSUME NEW at \in {"record branch", "record tip", "spent"}, To(h, at),
             at \in {"record branch", "record tip"} => head.at = deleted.head,
             at = "record tip" => ~Exists(deleted.name),
             at = "spent" => ~RecordStands
      PROVE  Fresh(h)
  <2>1. PICK r : r = [request[h] EXCEPT !.at = at]  OBVIOUS
  <2>2. r.at = at /\ r.record = deleted  BY <1>2, <1>3, <2>1 DEF Requests
  <2>3. Knows(r)  BY <1>3, <1>4, <2>2 DEF Knows
  <2>4. at # "refused"  OBVIOUS
  <2>5. QED  BY <1>4, <2>1, <2>3, <2>4, ToFresh
<1>5. CASE RecordHead(h)
  <2>1. CASE Fails(h)  BY <2>1, FailsFresh
  <2>2. CASE head.at = deleted.head /\ To(h, "record branch")
    BY <1>4, <2>2
  <2>3. CASE head.at # deleted.head /\ To(h, "spent")
    BY <1>4, <2>3 DEF RecordStands
  <2>4. QED  BY <1>3, <1>5, <2>1, <2>2, <2>3 DEF RecordHead
<1>6. CASE RecordBranch(h)
  <2>1. head.at = deleted.head  BY <1>2, <1>6 DEF Knows, RecordBranch
  <2>2. CASE Exists(deleted.name) /\ To(h, "spent")
    BY <1>4, <2>2 DEF RecordStands
  <2>3. CASE ~Exists(deleted.name) /\ To(h, "record tip")
    BY <1>4, <2>1, <2>3
  <2>4. QED  BY <1>3, <1>6, <2>2, <2>3 DEF RecordBranch, Swallowed
<1>7. CASE RecordTip(h)
  <2>1. head.at = deleted.head /\ ~Exists(deleted.name)
    BY <1>2, <1>7 DEF Knows, RecordTip
  <2>2. CASE Fails(h)  BY <2>2, FailsFresh
  <2>3. CASE deleted.sha \in gone /\ To(h, "spent")
    BY <1>4, <2>3 DEF RecordStands
  <2>4. CASE ~Fails(h) /\ deleted.sha \notin gone
    <3>1. PICK record : record = request[h].record  OBVIOUS
    <3>2. PICK plan : plan = [NoPlan EXCEPT !.kind = "branch-delete", !.head = record.head,
                                 !.to = record.sha, !.ref = record.sha, !.branch = record.name]
      OBVIOUS
    <3>3. Decide(h, plan)  BY <1>3, <1>7, <2>4, <3>1, <3>2 DEF RecordTip, Swallowed
    <3>4. plan = [kind |-> "branch-delete", into |-> None, head |-> record.head,
                  to |-> record.sha, ref |-> record.sha, detach |-> FALSE,
                  branch |-> record.name]
      BY <3>2 DEF NoPlan
    <3>5. plan = OfRecord  BY <1>3, <3>1, <3>4 DEF OfRecord
    <3>6. plan = PlanNow  BY <1>3, <2>1, <2>4, <3>5 DEF PlanNow, RecordStands
    <3>7. QED  BY <1>2, <3>3, <3>6, DecideFresh
  <2>5. QED  BY <1>3, <1>7, <2>2, <2>3, <2>4 DEF RecordTip, Swallowed
<1>8. QED  BY <1>5, <1>6, <1>7

LEMMA ReadReflogFresh ==
    ASSUME NEW h \in Handlers, Following(h), ReadReflog(h)
    PROVE  Fresh(h)
<1>1. /\ request[h].want # "nothing" /\ Knows(request[h]) /\ request[h] \in Requests
  BY PreviewKnows DEF ReadReflog, Previewing
<1>2. ~RecordStands  BY <1>1 DEF Knows, ReadReflog
<1>3. CASE Fails(h)  BY <1>3, FailsFresh
<1>4. CASE ~Fails(h)
  <2>1. PICK now : now = [request[h] EXCEPT !.at = "reflog head", !.entries = reflog]
    OBVIOUS
  <2>2. Goes(h, now)  BY <1>4, <2>1 DEF ReadReflog
  <2>3. now.at = "reflog head" /\ now.entries = reflog /\ now.want = request[h].want
    BY <1>1, <2>1 DEF Requests
  <2>4. Knows(now)  BY <1>2, <2>3 DEF Knows
  <2>5. now.at # "refused"  BY <2>3
  <2>6. QED  BY <2>2, <2>3, <2>4, <2>5, GoesFresh
<1>5. QED  BY <1>3, <1>4

LEMMA ReadHeadFresh ==
    ASSUME NEW h \in Handlers, Following(h), ReadHead(h)
    PROVE  Fresh(h)
<1>1. /\ request[h].want # "nothing" /\ Knows(request[h]) /\ request[h] \in Requests
  BY PreviewKnows DEF ReadHead, Previewing
<1>2. ~RecordStands /\ request[h].entries = reflog  BY <1>1 DEF Knows, ReadHead
<1>3. Log(reflog) /\ head.at = reflog[1].at /\ reflog[1].kind \in Kinds
  <2>1. DiskOK  BY DEF Following, IInv
  <2>2. reflog[1] \in Entries  BY <2>1, ElementOfSeq DEF DiskOK, Log
  <2>3. QED  BY <2>1, <2>2 DEF DiskOK, Entries
<1>4. PlanNow = OfReflog  BY <1>2 DEF PlanNow
<1>5. PICK kind, on, at : kind = reflog[1].kind /\ on = head.on /\ at = head.at  OBVIOUS
<1>6. CASE Fails(h)  BY <1>6, FailsFresh
<1>7. CASE Nothing(h) /\ (kind \in {"initial", "other"} \/ (kind = "reset" /\ reflog[2].at = head.at))
  <2>1. PlanNow = NoPlan  BY <1>4, <1>5, <1>7 DEF OfReflog
  <2>2. QED  BY <1>1, <1>7, <2>1, NothingFresh
<1>8. CASE ~Fails(h) /\ kind = "checkout"
  <2>1. PICK to, ref : to = 0 /\ ref = reflog[1].from  OBVIOUS
  <2>2. PICK plan :
           plan = [NoPlan EXCEPT !.kind = kind, !.into = on, !.head = at, !.to = to, !.ref = ref]
    OBVIOUS
  <2>3. plan = Drafted(kind, on, at, to, ref)  BY <2>2 DEF NoPlan, Drafted
  <2>4. plan = OfCheckout(0, FALSE)
    BY <1>5, <1>8, <2>1, <2>3 DEF Drafted, OfCheckout
  <2>5. PICK now : now = [request[h] EXCEPT !.at = "came from", !.plan = plan]  OBVIOUS
  <2>6. Goes(h, now)
    BY <1>2, <1>3, <1>5, <1>8, <2>1, <2>2, <2>5 DEF ReadHead, Classify
  <2>7. now.at = "came from" /\ now.entries = reflog /\ now.want = request[h].want
        /\ now.plan = plan
    BY <1>1, <1>2, <2>5 DEF Requests
  <2>8. Knows(now)  BY <1>2, <1>5, <1>8, <2>4, <2>7 DEF Knows
  <2>9. now.at # "refused"  BY <2>7
  <2>10. QED  BY <2>6, <2>7, <2>8, <2>9, GoesFresh
<1>9. CASE kind = "commit" \/ (kind = "reset" /\ reflog[2].at # head.at)
  <2>1. PICK to : to = Before(reflog)  OBVIOUS
  <2>2. PICK plan :
           plan = [NoPlan EXCEPT !.kind = kind, !.into = on, !.head = at, !.to = to, !.ref = to]
    OBVIOUS
  <2>3. plan = Drafted(kind, on, at, to, to)  BY <2>2 DEF NoPlan, Drafted
  <2>4. CASE ~Fails(h)
    <3>1. Len(reflog) = 2  BY <1>3, <1>5, <1>9 DEF Log
    <3>2. PICK top : top = reflog[1]  OBVIOUS
    <3>3. kind = "commit" \/ (kind = "reset" /\ Before(reflog) # head.at)
      BY <1>9 DEF Before
    <3>4. Classify(h) /\ kind = top.kind /\ head.at = top.at
      BY <1>3, <1>5, <2>4, <3>2 DEF ReadHead
    <3>5. Decide(h, plan)
      BY <1>2, <1>5, <2>1, <2>2, <3>1, <3>2, <3>3, <3>4 DEF Classify
    <3>6. plan = PlanNow
      BY <1>4, <1>5, <1>9, <2>1, <2>3 DEF OfReflog, OfCommit, Before
    <3>7. QED  BY <1>1, <3>5, <3>6, DecideFresh
  <2>5. QED  BY <1>6, <2>4
<1>10. kind \in {"initial", "other"} \/ (kind = "reset" /\ reflog[2].at = head.at)
       => Fails(h) \/ Nothing(h)
  BY <1>2, <1>3, <1>5 DEF ReadHead, Classify, Before
<1>11. QED  BY <1>3, <1>5, <1>6, <1>7, <1>8, <1>9, <1>10 DEF Kinds

LEMMA CameFromFresh ==
    ASSUME NEW h \in Handlers, Following(h), "rev-parse" \notin MayFail,
           CameFromBranch(h) \/ CameFromCommit(h)
    PROVE  Fresh(h)
<1>1. /\ request[h].want # "nothing" /\ Knows(request[h]) /\ request[h] \in Requests
  BY PreviewKnows DEF CameFromBranch, CameFromCommit, Previewing
<1>2. /\ ~RecordStands /\ reflog[1].kind = "checkout" /\ request[h].entries = reflog
      /\ request[h].plan = OfCheckout(0, FALSE)
  BY <1>1 DEF Knows, CameFromBranch, CameFromCommit
<1>3. PICK from, on, at : from = reflog[1].from /\ on = head.on /\ at = head.at  OBVIOUS
<1>4. PICK drafted : drafted = request[h].plan  OBVIOUS
<1>5. drafted = [kind |-> "checkout", into |-> on, head |-> at, to |-> 0, ref |-> from,
                 detach |-> FALSE, branch |-> None]
  BY <1>2, <1>3, <1>4 DEF OfCheckout
<1>6. PlanNow = OfReflog  BY <1>2 DEF PlanNow
<1>7. drafted.ref = from  BY <1>5
<1>8. CASE CameFromBranch(h)
  <2>1. CASE from \in Branches /\ Exists(from)
    <3>1. PICK commit : commit = refs[from]  OBVIOUS
    <3>2. PICK plan : plan = [drafted EXCEPT !.to = commit]  OBVIOUS
    <3>3. Decide(h, plan)
      BY <1>4, <1>7, <1>8, <2>1, <3>1, <3>2 DEF CameFromBranch, Swallowed
    <3>4. plan = [kind |-> "checkout", into |-> on, head |-> at, to |-> commit, ref |-> from,
                  detach |-> FALSE, branch |-> None]
      BY <1>5, <3>2
    <3>5. plan = OfCheckout(refs[from], FALSE)  BY <1>3, <3>1, <3>4 DEF OfCheckout
    <3>6. plan = PlanNow  BY <1>2, <1>3, <1>6, <2>1, <3>5 DEF OfReflog
    <3>7. QED  BY <1>1, <3>3, <3>6, DecideFresh
  <2>2. CASE ~(from \in Branches /\ Exists(from))
    <3>1. To(h, "came from commit")  BY <1>4, <1>7, <1>8, <2>2 DEF CameFromBranch
    <3>2. PICK r : r = [request[h] EXCEPT !.at = "came from commit"]  OBVIOUS
    <3>3. r.at = "came from commit" /\ r.entries = request[h].entries /\ r.plan = request[h].plan
      BY <1>1, <3>2 DEF Requests
    <3>4. Knows(r)  BY <1>2, <1>3, <2>2, <3>3 DEF Knows
    <3>5. PICK to : to = "came from commit"  OBVIOUS
    <3>6. to # "refused"  BY <3>5
    <3>7. QED  BY <3>1, <3>2, <3>4, <3>5, <3>6, ToFresh
  <2>3. QED  BY <2>1, <2>2
<1>9. CASE CameFromCommit(h)
  <2>1. ~(from \in Branches /\ Exists(from))  BY <1>1, <1>3, <1>9 DEF Knows, CameFromCommit
  <2>2. CASE Resolved(from) = 0
    <3>1. PlanNow = NoPlan  BY <1>2, <1>3, <1>6, <2>1, <2>2 DEF OfReflog
    <3>2. Nothing(h)  BY <1>4, <1>7, <1>9, <2>2 DEF CameFromCommit
    <3>3. QED  BY <1>1, <3>1, <3>2, NothingFresh
  <2>3. CASE Resolved(from) # 0
    <3>1. PICK commit : commit = Resolved(from)  OBVIOUS
    <3>2. PICK plan : plan = [drafted EXCEPT !.to = commit, !.detach = TRUE]  OBVIOUS
    <3>3. Decide(h, plan)
      BY <1>4, <1>7, <1>9, <2>3, <3>1, <3>2 DEF CameFromCommit, Swallowed
    <3>4. plan = [kind |-> "checkout", into |-> on, head |-> at, to |-> commit, ref |-> from,
                  detach |-> TRUE, branch |-> None]
      BY <1>5, <3>2
    <3>5. plan = OfCheckout(Resolved(from), TRUE)  BY <1>3, <3>1, <3>4 DEF OfCheckout
    <3>6. plan = PlanNow  BY <1>2, <1>3, <1>6, <2>1, <2>3, <3>5 DEF OfReflog
    <3>7. QED  BY <1>1, <3>3, <3>6, DecideFresh
  <2>4. QED  BY <2>2, <2>3
<1>10. QED  BY <1>8, <1>9

\* The checks before the command refuse nothing.
LEMMA CheckFresh ==
    ASSUME NEW h \in Handlers, Following(h), CheckHead(h) \/ CheckTarget(h) \/ CheckBranch(h)
    PROVE  Fresh(h)
<1>1. /\ request[h] \in Requests /\ request[h].want = "undo"
      /\ request[h].at \in {"check head", "check target", "check branch"}
      /\ request[h].at = "check branch" => request[h].plan.kind = "branch-delete"
  BY DEF Following, IInv, RequestsOK, Holds, CheckHead, CheckTarget, CheckBranch
<1>2. Knows(request[h]) /\ PlanNow # NoPlan  BY <1>1 DEF Following, UpToDate
<1>3. request[h].plan = PlanNow  BY <1>1, <1>2 DEF Knows
<1>4. PICK plan : plan = request[h].plan  OBVIOUS
<1>5. /\ plan.head = head.at /\ Resolved(plan.ref) = plan.to
      /\ plan.kind = "branch-delete" => ~Exists(plan.branch)
  BY <1>2, <1>3, <1>4, PlanNowFits DEF Following
<1>6. CASE Fails(h)  BY <1>6, FailsFresh
<1>7. CASE ~Fails(h)
  <2>1. PICK at \in {"check target", "check branch", "act"} : To(h, at)
    BY <1>1, <1>4, <1>5, <1>7 DEF CheckHead, CheckTarget, CheckBranch
  <2>2. PICK r : r = [request[h] EXCEPT !.at = at]  OBVIOUS
  <2>3. r.at = at /\ r.plan = PlanNow  BY <1>1, <1>3, <2>2 DEF Requests
  <2>4. Knows(r)  BY <2>1, <2>3 DEF Knows
  <2>5. at # "refused"  OBVIOUS
  <2>6. QED  BY <2>1, <2>2, <2>4, <2>5, ToFresh
<1>8. QED  BY <1>6, <1>7

\* A deletion knows nothing of plans.
LEMMA DeletingFresh ==
    ASSUME NEW h \in Handlers, Following(h), ReadTip(h) \/ ReadHeadBefore(h)
    PROVE  Fresh(h)
<1>1. request[h] \in Requests  BY DEF Following, IInv, RequestsOK
<1>2. ASSUME NEW now, Goes(h, now), now.at \in {"read head", "delete"},
             now.want = request[h].want
      PROVE  Fresh(h)
  <2>1. Knows(now)  BY <1>2 DEF Knows
  <2>2. now.at # "refused"  BY <1>2
  <2>3. QED  BY <1>2, <2>1, <2>2, GoesFresh
<1>3. CASE ReadTip(h)
  <2>1. CASE To(h, "delete")
    <3>1. PICK now : now = [request[h] EXCEPT !.at = "delete"]  OBVIOUS
    <3>2. now.at = "delete" /\ now.want = request[h].want  BY <1>1, <3>1 DEF Requests
    <3>3. Goes(h, now)  BY <2>1, <3>1 DEF To
    <3>4. QED  BY <1>2, <3>2, <3>3
  <2>2. CASE ~To(h, "delete")
    <3>1. PICK b : b = request[h].branch  OBVIOUS
    <3>2. PICK record : record = [name |-> b, sha |-> refs[b], head |-> 0,
                                  by |-> h, nth |-> requests]
      OBVIOUS
    <3>3. PICK now : now = [request[h] EXCEPT !.at = "read head", !.record = record]  OBVIOUS
    <3>4. now.at = "read head" /\ now.want = request[h].want  BY <1>1, <3>3 DEF Requests
    <3>5. Goes(h, now)  BY <1>3, <2>2, <3>1, <3>2, <3>3 DEF ReadTip
    <3>6. QED  BY <1>2, <3>4, <3>5
  <2>3. QED  BY <2>1, <2>2
<1>4. CASE ReadHeadBefore(h)
  <2>1. CASE Goes(h, [request[h] EXCEPT !.at = "delete", !.record = None])
    <3>1. PICK now : now = [request[h] EXCEPT !.at = "delete", !.record = None]  OBVIOUS
    <3>2. now.at = "delete" /\ now.want = request[h].want  BY <1>1, <3>1 DEF Requests
    <3>3. QED  BY <1>2, <2>1, <3>1, <3>2
  <2>2. CASE Goes(h, [request[h] EXCEPT !.at = "delete", !.record.head = head.at])
    <3>1. PICK commit : commit = head.at  OBVIOUS
    <3>2. PICK now : now = [request[h] EXCEPT !.at = "delete", !.record.head = commit]  OBVIOUS
    <3>3. now.at = "delete" /\ now.want = request[h].want
      <4>1. now.at = "delete"  BY <1>1, <3>2 DEF Requests
      <4>2. now.want = request[h].want  BY <1>1, <3>2 DEF Requests
      <4>3. QED  BY <4>1, <4>2
    <3>4. QED  BY <1>2, <2>2, <3>1, <3>2, <3>3
  <2>3. QED  BY <1>4, <2>1, <2>2 DEF ReadHeadBefore
<1>5. QED  BY <1>3, <1>4

\* The steps that ask for nothing, find nothing out of date and change nothing.
Finds(h) ==
    \/ LookUp(h) \/ RecordHead(h) \/ RecordBranch(h) \/ RecordTip(h)
    \/ ReadReflog(h) \/ ReadHead(h) \/ CameFromBranch(h) \/ CameFromCommit(h)
    \/ CheckHead(h) \/ CheckTarget(h) \/ CheckBranch(h)
    \/ ReadTip(h) \/ ReadHeadBefore(h)

LEMMA FindsFresh ==
    ASSUME NEW h \in Handlers, Following(h), "rev-parse" \notin MayFail, Finds(h)
    PROVE  Fresh(h)
BY LookUpFresh, RecordFresh, ReadReflogFresh, ReadHeadFresh, CameFromFresh, CheckFresh,
   DeletingFresh DEF Finds

\* A request that is over shows nothing.
LEMMA OverIsUpToDate ==
    ASSUME IInv, NEW h \in Handlers, NEW at, End(h, at)
    PROVE  UpToDate(h)'
<1>1. request'[h] = Ended(at) /\ approved'[h] = NoPlan
  BY DEF End, Shows, IInv, RequestsOK
<1>2. Ended(at).want = "nothing"  BY DEF Ended
<1>3. NoPlan' = NoPlan  BY DEF NoPlan
<1>4. QED  BY <1>1, <1>2, <1>3 DEF UpToDate

LEMMA FindsUpToDate ==
    ASSUME IInv, NEW h \in Handlers, UpToDate(h), "rev-parse" \notin MayFail, Finds(h), Note
    PROVE  UpToDate(h)'
<1> SUFFICES ASSUME ~moved'[h] PROVE UpToDate(h)'
  BY DEF UpToDate
<1>1. UNCHANGED <<disk, deleted>> /\ request[h].at \notin AtEnd
  BY DEF Finds, LookUp, RecordHead, RecordBranch, RecordTip, ReadReflog, ReadHead,
     CameFromBranch, CameFromCommit, CheckHead, CheckTarget, CheckBranch, ReadTip,
     ReadHeadBefore, Reading, AtEnd
<1>2. ~moved[h]  BY <1>1 DEF Note
<1>3. Fresh(h)  BY <1>2, FindsFresh DEF Following
<1>4. PICK r, shown : r = request'[h] /\ shown = approved'[h]  OBVIOUS
<1>5. /\ shown # NoPlan => shown = PlanNow
      /\ r.want \in {"plan", "undo"} => Knows(r)
      /\ r.want = "undo" => shown # NoPlan
  BY <1>3, <1>4 DEF Fresh
<1>6. PlanNow' = PlanNow /\ (Knows(r)' <=> Knows(r))  BY <1>1, SamePlanNow
<1>7. /\ shown # NoPlan => shown = PlanNow'
      /\ r.want \in {"plan", "undo"} => Knows(r)'
  BY <1>5, <1>6
<1>8. r.want \in {"plan", "undo"} => Knows(request[h])'
  BY <1>4, <1>7 DEF Knows
<1>9. QED  BY <1>4, <1>5, <1>7, <1>8 DEF UpToDate

LEMMA AskUpToDate ==
    ASSUME IInv, NEW h \in Handlers, UpToDate(h), AskPlan(h) \/ AskUndo(h) \/ AskDelete(h)
    PROVE  UpToDate(h)'
<1>1. RequestsOK  BY DEF IInv
<1>2. NoPlan' = NoPlan  BY DEF NoPlan
<1>3. CASE AskPlan(h)
  <2>1. PICK now : now = [Ended("lookup") EXCEPT !.want = "plan"]  OBVIOUS
  <2>2. request'[h] = now /\ approved'[h] = NoPlan
    BY <1>1, <1>3, <2>1 DEF AskPlan, Begin, Shows, RequestsOK
  <2>3. now.at = "lookup" /\ now.want = "plan"  BY <2>1 DEF Ended
  <2>4. Knows(request[h])'  BY <2>2, <2>3 DEF Knows
  <2>5. QED  BY <1>2, <2>2, <2>3, <2>4 DEF UpToDate
<1>4. CASE AskUndo(h)
  <2>1. PICK now : now = [Ended("lookup") EXCEPT !.want = "undo"]  OBVIOUS
  <2>2. request'[h] = now /\ approved' = approved /\ approved[h] # NoPlan
        /\ UNCHANGED <<disk, deleted>> /\ Note
    BY <1>1, <1>4, <2>1 DEF AskUndo, Begin, RequestsOK
  <2>3. now.at = "lookup" /\ now.want = "undo"  BY <2>1 DEF Ended
  <2>4. Knows(request[h])'  BY <2>2, <2>3 DEF Knows
  <2>5. ~moved'[h] => ~moved[h]  BY <2>2, <2>3 DEF Note
  <2>6. PlanNow' = PlanNow  BY <2>2, SamePlanNow
  <2>7. QED  BY <1>2, <2>2, <2>4, <2>5, <2>6 DEF UpToDate
<1>5. CASE AskDelete(h)
  <2>1. PICK b \in Branches :
           Shows(h, NoPlan) /\ Begin(h, [Ended("read tip") EXCEPT !.branch = b])
    BY <1>5 DEF AskDelete
  <2>2. PICK now : now = [Ended("read tip") EXCEPT !.branch = b]  OBVIOUS
  <2>3. request'[h] = now /\ approved'[h] = NoPlan
    BY <1>1, <2>1, <2>2 DEF Begin, Shows, RequestsOK
  <2>4. now.want = "nothing"  BY <2>2 DEF Ended
  <2>5. QED  BY <1>2, <2>3, <2>4 DEF UpToDate
<1>6. QED  BY <1>3, <1>4, <1>5

LEMMA SpentUpToDate ==
    ASSUME IInv, NEW h \in Handlers, UpToDate(h), Spent(h)
    PROVE  UpToDate(h)'
<1> SUFFICES ASSUME ~moved'[h] PROVE UpToDate(h)'
  BY DEF UpToDate
<1>1. /\ RequestsOK /\ request[h] \in Requests /\ request[h].at = "spent"
      /\ request[h].want # "nothing" /\ deleted' = None /\ UNCHANGED disk
  BY DEF IInv, RequestsOK, Holds, Previewing, Spent
<1>2. ~moved[h]  BY <1>1 DEF Note, Spent, AtEnd
<1>3. Following(h)  BY <1>2 DEF Following
<1>4. Knows(request[h])
  <2>1. request[h].at \in Previewing  BY <1>1 DEF Previewing
  <2>2. QED  BY <1>3, <2>1, PreviewKnows
<1>5. ~RecordStands  BY <1>1, <1>4 DEF Knows
<1>6. ~RecordStands'  BY <1>1 DEF RecordStands
<1>7. OfReflog' = OfReflog
  <2>1. UNCHANGED <<refs, head, reflog, gone>>  BY <1>1 DEF disk
  <2>2. OfCommit' = OfCommit  BY <2>1 DEF OfCommit, Drafted
  <2>3. QED  BY <2>1, <2>2 DEF OfReflog, OfCheckout, Exists, Resolved
<1>8. PlanNow' = PlanNow  BY <1>5, <1>6, <1>7 DEF PlanNow
<1>9. PICK now : now = [request[h] EXCEPT !.at = "reflog"]  OBVIOUS
<1>10. request'[h] = now /\ approved' = approved
  BY <1>1, <1>9 DEF Spent, To, Goes, RequestsOK
<1>11. now.at = "reflog" /\ now.want = request[h].want  BY <1>1, <1>9 DEF Requests
<1>12. Knows(request[h])'  BY <1>6, <1>10, <1>11 DEF Knows
<1>13. NoPlan' = NoPlan  BY DEF NoPlan
<1>14. QED  BY <1>2, <1>8, <1>10, <1>11, <1>12, <1>13 DEF UpToDate

\* A branch comes back or goes: something has moved.
LEMMA ActUpToDate ==
    ASSUME IInv, NEW h \in Handlers, Act(h) \/ Delete(h)
    PROVE  UpToDate(h)'
<1>1. /\ RequestsOK /\ DiskOK /\ Holds(request[h], approved[h])
      /\ request[h].at \in {"act", "delete"} /\ Note
  BY DEF IInv, RequestsOK, Act, Delete
<1>2. CASE \E at \in AtEnd : End(h, at)
  BY <1>2, OverIsUpToDate
<1>3. ASSUME NEW b \in Branches, refs'[b] # refs[b]  PROVE UpToDate(h)'
  <2>1. disk' # disk  BY <1>3 DEF disk
  <2>2. moved'[h]  BY <1>1, <2>1 DEF Note, AtEnd
  <2>3. QED  BY <2>2 DEF UpToDate
<1>4. CASE Act(h) /\ To(h, "forget")
  <2>1. PICK plan : plan = request[h].plan  OBVIOUS
  <2>2. CASE plan.kind = "branch-delete" /\ CreateBranch(plan.branch, plan.to)
    <3>1. plan.branch \in Branches /\ plan.to \in 1..made
      BY <2>1, <2>2, <1>4, ActHeld DEF Ready
    <3>2. refs'[plan.branch] = plan.to /\ refs[plan.branch] = 0
      BY <1>1, <2>2, <3>1 DEF CreateBranch, PointBranch, Exists, DiskOK
    <3>3. refs'[plan.branch] # refs[plan.branch]  BY <3>1, <3>2, MadeIsANumber
    <3>4. QED  BY <1>3, <3>1, <3>3
  <2>3. QED  BY <1>2, <1>4, <2>1, <2>2 DEF Act, AtEnd
<1>5. CASE Delete(h) /\ To(h, "record")
  <2>1. PICK b \in Branches : b = request[h].branch  BY <1>1, <1>5 DEF Holds, Delete
  <2>2. CASE DeleteBranch(b)
    <3>1. refs'[b] = 0 /\ refs[b] # 0
      BY <1>1, <2>2 DEF DeleteBranch, PointBranch, Exists, DiskOK
    <3>2. QED  BY <1>3, <3>1
  <2>3. QED  BY <1>2, <1>5, <2>1, <2>2 DEF Delete, AtEnd
<1>6. QED  BY <1>2, <1>4, <1>5 DEF Act, Delete, AtEnd

LEMMA TurnUpToDate ==
    ASSUME IInv, NEW h \in Handlers, UpToDate(h), HandlerStep(h), "rev-parse" \notin MayFail
    PROVE  UpToDate(h)'
<1>1. Note  BY StepsNote DEF Next, HandlerStep, Reads
<1>2. CASE Finds(h)  BY <1>1, <1>2, FindsUpToDate
<1>3. CASE AskPlan(h) \/ AskUndo(h) \/ AskDelete(h)  BY <1>3, AskUpToDate
<1>4. CASE Spent(h)  BY <1>4, SpentUpToDate
<1>5. CASE Act(h) \/ Delete(h)  BY <1>5, ActUpToDate
<1>6. CASE Forget(h) \/ Record(h)
  <2>1. End(h, "done")  BY <1>6 DEF Forget, Record
  <2>2. QED  BY <2>1, OverIsUpToDate
<1>7. QED  BY <1>2, <1>3, <1>4, <1>5, <1>6 DEF HandlerStep, Reads, Preview, Finds

LEMMA UpToDateStep ==
    ASSUME IInv, AllUpToDate, [Next]_vars, "rev-parse" \notin MayFail
    PROVE  AllUpToDate'
<1>1. CASE UNCHANGED vars
  <2>1. UNCHANGED <<disk, deleted, request, approved, moved>>  BY <1>1 DEF vars, history
  <2>2. ASSUME NEW h \in Handlers  PROVE UpToDate(h)'
    <3>1. PICK r : r = request[h]  OBVIOUS
    <3>2. PlanNow' = PlanNow /\ (Knows(r)' <=> Knows(r))  BY <2>1, SamePlanNow
    <3>3. request[h].want \in {"plan", "undo"} /\ ~moved[h] => Knows(r)'
      BY <3>1, <3>2 DEF AllUpToDate, UpToDate
    <3>4. request'[h].want \in {"plan", "undo"} /\ ~moved[h] => Knows(request[h])'
      BY <2>1, <3>1, <3>3 DEF Knows
    <3>5. NoPlan' = NoPlan  BY DEF NoPlan
    <3>6. QED  BY <2>1, <3>2, <3>4, <3>5 DEF AllUpToDate, UpToDate
  <2>3. QED  BY <2>1, <2>2 DEF AllUpToDate
<1>2. CASE Next
  <2>1. Note  BY <1>2, StepsNote
  <2>2. moved' \in [Handlers -> BOOLEAN]  BY <2>1 DEF Note, AllUpToDate
  <2>3. CASE UNCHANGED <<request, approved>>
    BY <2>1, <2>2, <2>3, StaysUpToDate DEF AllUpToDate
  <2>4. ASSUME NEW k \in Handlers, HandlerStep(k), NEW h \in Handlers  PROVE UpToDate(h)'
    <3>1. CASE h = k  BY <2>4, <3>1, TurnUpToDate DEF AllUpToDate
    <3>2. CASE h # k
      <4>1. Turn(k)  BY <2>4, HandlerHolds DEF TurnHolds
      <4>2. request'[h] = request[h] /\ approved'[h] = approved[h]
        BY <3>2, <4>1 DEF Turn, IInv, RequestsOK
      <4>3. QED  BY <2>1, <4>2, StaysUpToDate DEF AllUpToDate
    <3>3. QED  BY <3>1, <3>2
  <2>5. CASE \E k \in Handlers : HandlerStep(k)
    BY <2>2, <2>4, <2>5 DEF AllUpToDate
  <2>6. CASE MakeCommit \/ Reset \/ Checkout \/ Rewrite \/ Collect
    <3>1. UNCHANGED <<request, approved>>
      BY <2>6 DEF MakeCommit, Reset, Checkout, Rewrite, Collect, AtTerminal
    <3>2. QED  BY <2>3, <3>1
  <2>7. QED  BY <1>2, <2>5, <2>6 DEF Next, HandlerStep, Reads
<1>3. QED  BY <1>1, <1>2

LEMMA UpToDateInit == Init => AllUpToDate
<1> SUFFICES ASSUME Init PROVE AllUpToDate
  OBVIOUS
<1>1. moved = [h \in Handlers |-> FALSE] /\ approved = [h \in Handlers |-> NoPlan]
      /\ request = [h \in Handlers |-> Ended("idle")]
  BY DEF Init
<1>2. Ended("idle").want = "nothing"  BY DEF Ended
<1>3. QED  BY <1>1, <1>2 DEF AllUpToDate, UpToDate

\* A request to undo is refused only by the handler that serves it.
LEMMA RefusalMeansMoved ==
    ASSUME IInv, AllUpToDate, [Next]_vars, "rev-parse" \notin MayFail,
           NEW h \in Handlers, request[h].want = "undo", request'[h].at = "refused"
    PROVE  moved[h]
<1>1. request[h].at \notin AtEnd  BY DEF IInv, RequestsOK, Holds
<1>2. request'[h] # request[h]  BY <1>1 DEF AtEnd
<1>3. PICK k \in Handlers : HandlerStep(k)
  <2>1. ~UNCHANGED vars  BY <1>2 DEF vars
  <2>2. ~(MakeCommit \/ Reset \/ Checkout \/ Rewrite \/ Collect)
    BY <1>2 DEF MakeCommit, Reset, Checkout, Rewrite, Collect, AtTerminal
  <2>3. QED  BY <2>1, <2>2 DEF Next, HandlerStep, Reads
<1>4. k = h
  <2>1. Turn(k)  BY <1>3, HandlerHolds DEF TurnHolds
  <2>2. k # h => request'[h] = request[h]  BY <2>1 DEF Turn, IInv, RequestsOK
  <2>3. QED  BY <1>2, <2>2
<1>5. CASE Finds(h)
  <2>1. ~moved[h] => Fresh(h)  BY <1>5, FindsFresh DEF Following, AllUpToDate
  <2>2. QED  BY <2>1 DEF Fresh, AllUpToDate
<1>6. ASSUME NEW at \in {"done", "failed", "reflog", "forget", "record"},
             End(h, at) \/ To(h, at)
      PROVE  FALSE
  <2>1. request'[h].at = at
    BY <1>6 DEF End, Ended, To, Goes, IInv, RequestsOK, Requests
  <2>2. QED  BY <2>1
<1>7. CASE Spent(h) \/ Act(h) \/ Delete(h) \/ Forget(h) \/ Record(h)
  <2>1. \E at \in {"done", "failed", "reflog", "forget", "record"} : End(h, at) \/ To(h, at)
    BY <1>7 DEF Spent, Act, Delete, Forget, Record
  <2>2. QED  BY <1>6, <2>1
<1>8. CASE AskPlan(h) \/ AskUndo(h) \/ AskDelete(h)
  BY <1>1, <1>8 DEF AskPlan, AskUndo, AskDelete, Begin
<1>9. QED  BY <1>3, <1>4, <1>5, <1>7, <1>8 DEF HandlerStep, Reads, Preview, Finds

\* When no read through revParse fails for a reason of its own, undo refuses a
\* plan only if something moved after it was asked for, and does what it said.
THEOREM Agreement ==
    ASSUME "rev-parse" \notin MayFail
    PROVE  Spec => AgreementIsKept
<1>1. Spec => [](IInv /\ AllUpToDate)
  <2>1. Init => IInv /\ AllUpToDate  BY InvInit, UpToDateInit
  <2>2. (IInv /\ AllUpToDate) /\ [Next]_vars => (IInv /\ AllUpToDate)'
    BY InvStep, UpToDateStep
  <2>3. QED  BY <2>1, <2>2, PTL DEF Spec
<1>2. ASSUME IInv, AllUpToDate, [Next]_vars
      PROVE  \A h \in Handlers :
                request[h].want = "undo" /\ request'[h].at = "refused" => moved[h]
  BY <1>2, RefusalMeansMoved
<1>3. Spec => RefusedOnlyIfMoved  BY <1>1, <1>2, PTL DEF Spec, RefusedOnlyIfMoved
<1>4. QED  BY <1>3, Types, Promise, PTL DEF AgreementIsKept

-----------------------------------------------------------------------------
(* The record of a deleted branch.  Each is told from the others by who     *)
(* made it and in which request; so one that was replaced, or dropped, is   *)
(* never what is remembered again, and what a handler found of the record   *)
(* it looked up is still so of what is remembered, if that is the same.     *)

\* A record that k made is of an earlier request than n.
Earlier(d, k, n) == d # None /\ d.by = k => d.nth < n

\* So is every one that is remembered, or that another handler holds.
AllEarlier(k, n) ==
    /\ Earlier(deleted, k, n)
    /\ \A h \in Handlers \ {k} : Earlier(request[h].record, k, n)

Deleting == {"read tip", "read head", "delete", "record"}
Looking == {"record head", "record branch", "record tip", "record"}
Running == {"check head", "check target", "check branch", "act", "forget"}

\* The record k is making is the newest that is by k.
Newest(k, d) == d.by = k /\ d.nth <= requests /\ AllEarlier(k, d.nth)
Making(k, r) ==
    /\ r.at = "read tip" => AllEarlier(k, requests)
    /\ r.at = "read head" => Newest(k, r.record)
    /\ r.at \in {"delete", "record"} /\ r.record # None => Newest(k, r.record)

\* A handler that drops what is remembered has seen that it cannot be used, or
\* has used it.
Knowing(r) ==
    /\ r.at \in {"spent", "forget"} /\ deleted # None /\ r.record = deleted => lapsed
    /\ r.at \in Running /\ r.plan.kind = "branch-delete" =>
          r.record # None /\ r.plan.branch = r.record.name
    /\ r.at \in Looking => r.record # None

NoneLater(d) == d # None => d.nth <= requests

RecordsOK ==
    /\ NoneLater(deleted)
    /\ \A h \in Handlers :
          /\ NoneLater(request[h].record)
          /\ Making(h, request[h])
          /\ Knowing(request[h])

LEMMA RecordsInit == Init => RecordsOK
<1> SUFFICES ASSUME Init PROVE RecordsOK
  OBVIOUS
<1>1. deleted = None /\ request = [h \in Handlers |-> Ended("idle")]  BY DEF Init
<1>2. Ended("idle").at = "idle" /\ Ended("idle").record = None  BY DEF Ended
<1>3. \A h \in Handlers : request[h].at = "idle" /\ request[h].record = None
  BY <1>1, <1>2
<1>4. QED
  BY <1>1, <1>3 DEF RecordsOK, NoneLater, Making, Knowing, Looking, Running

\* Everything a handler holds of records has its type.
LEMMA RecordTypes ==
    ASSUME IInv
    PROVE  /\ deleted \in Remembered \cup {None} /\ requests \in Nat
           /\ \A d \in Remembered : d \in Deletions
           /\ \A d \in Deletions : d.nth \in Nat /\ d.by \in Handlers
           /\ \A h \in Handlers : /\ request[h] \in Requests
                                  /\ request[h].record \in Deletions \cup {None}
BY DEF IInv, RequestsOK, Requests, Remembered, Deletions

\* The turn of a handler that drops no record and makes none: what may be said
\* of its request afterwards, r.
Quiet(h, r) ==
    /\ r.record \in {request[h].record, deleted, None}
    /\ r.at \notin Deleting \cup {"forget"}
    /\ r.at = "spent" => r.record = request[h].record /\ (r.record = deleted => lapsed')
    /\ r.at \in Running /\ r.plan.kind = "branch-delete" =>
          r.record # None /\ r.plan.branch = r.record.name
    /\ r.at \in Looking => r.record # None

LEMMA EndQuiet ==
    ASSUME IInv, NEW h \in Handlers, NEW at \in AtEnd, End(h, at)
    PROVE  Quiet(h, request'[h])
<1>1. request'[h] = Ended(at)  BY DEF End, IInv, RequestsOK
<1>2. Ended(at).at = at /\ Ended(at).record = None  BY DEF Ended
<1>3. QED  BY <1>1, <1>2 DEF Quiet, AtEnd, Deleting, Running, Looking

LEMMA ToQuiet ==
    ASSUME IInv, NEW h \in Handlers, NEW at, To(h, at),
           at \notin Deleting \cup {"forget"},
           at \in Looking => request[h].at \in Looking,
           at = "spent" /\ request[h].record = deleted => lapsed',
           at \in Running => request[h].at \in Running, RecordsOK
    PROVE  Quiet(h, request'[h])
<1>1. request[h] \in Requests  BY DEF IInv, RequestsOK
<1>2. PICK now : now = [request[h] EXCEPT !.at = at]  OBVIOUS
<1>3. now.at = at /\ now.plan = request[h].plan /\ now.record = request[h].record
  BY <1>1, <1>2 DEF Requests
<1>4. request'[h] = now  BY <1>2 DEF To, Goes, IInv, RequestsOK
<1>5. Knowing(request[h])  BY DEF RecordsOK
<1>6. at \in Running /\ now.plan.kind = "branch-delete" =>
         now.record # None /\ now.plan.branch = now.record.name
  BY <1>3, <1>5 DEF Knowing
<1>7. at \in Looking => now.record # None  BY <1>3, <1>5 DEF Knowing
<1>8. QED  BY <1>3, <1>4, <1>6, <1>7 DEF Quiet

LEMMA DecideQuiet ==
    ASSUME IInv, NEW h \in Handlers, NEW plan, Decide(h, plan),
           plan.kind = "branch-delete" =>
              request[h].record # None /\ plan.branch = request[h].record.name
    PROVE  Quiet(h, request'[h])
<1>1. request[h] \in Requests /\ RequestsOK  BY DEF IInv, RequestsOK
<1>2. CASE request[h].want = "plan"
  <2>1. request'[h] = Ended("idle")  BY <1>1, <1>2 DEF Decide, RequestsOK
  <2>2. Ended("idle").at = "idle" /\ Ended("idle").record = None  BY DEF Ended
  <2>3. QED  BY <2>1, <2>2 DEF Quiet, Deleting, Running, Looking
<1>3. CASE request[h].want # "plan" /\ Agrees(plan, approved[h])
  <2>1. PICK now : now = [request[h] EXCEPT !.at = "check head", !.plan = plan]  OBVIOUS
  <2>2. request'[h] = now  BY <1>1, <1>3, <2>1 DEF Decide, Goes, RequestsOK
  <2>3. now.at = "check head" /\ now.plan = plan /\ now.record = request[h].record
    BY <1>1, <2>1 DEF Requests
  <2>4. QED  BY <2>2, <2>3 DEF Quiet, Deleting, Looking
<1>4. CASE request[h].want # "plan" /\ ~Agrees(plan, approved[h])
  <2>1. End(h, "refused")  BY <1>4 DEF Decide
  <2>2. QED  BY <2>1, EndQuiet DEF AtEnd
<1>5. QED  BY <1>2, <1>3, <1>4

LEMMA NothingQuiet ==
    ASSUME IInv, NEW h \in Handlers, Nothing(h)
    PROVE  Quiet(h, request'[h])
<1>1. PICK at \in AtEnd : End(h, at)  BY DEF Nothing, AtEnd
<1>2. QED  BY <1>1, EndQuiet

LEMMA FailsQuiet ==
    ASSUME IInv, NEW h \in Handlers, Fails(h)
    PROVE  Quiet(h, request'[h])
BY EndQuiet DEF Fails, AtEnd

\* What cannot be brought back any more is known to be so.
LEMMA Lapses ==
    ASSUME Note, deleted # None, deleted' = deleted,
           \/ head'.at # deleted.head
           \/ refs'[deleted.name] # 0
           \/ deleted.sha \in gone'
    PROVE  lapsed'
BY DEF Note

\* The turns that are quiet: those of undo, but where the record is dropped or
\* a command is run.
QuietTurn(h) ==
    \/ AskPlan(h) \/ AskUndo(h)
    \/ LookUp(h) \/ RecordHead(h) \/ RecordBranch(h) \/ RecordTip(h)
    \/ ReadReflog(h) \/ ReadHead(h) \/ CameFromBranch(h) \/ CameFromCommit(h)
    \/ CheckHead(h) \/ CheckTarget(h) \/ CheckBranch(h)

LEMMA AskQuiet ==
    ASSUME IInv, NEW h \in Handlers, AskPlan(h) \/ AskUndo(h)
    PROVE  Quiet(h, request'[h])
<1>1. PICK want : Begin(h, [Ended("lookup") EXCEPT !.want = want])
  BY DEF AskPlan, AskUndo
<1>2. PICK now : now = [Ended("lookup") EXCEPT !.want = want]  OBVIOUS
<1>3. request'[h] = now  BY <1>1, <1>2 DEF Begin, IInv, RequestsOK
<1>4. now.at = "lookup" /\ now.record = None  BY <1>2 DEF Ended
<1>5. QED  BY <1>3, <1>4 DEF Quiet, Deleting, Running, Looking

LEMMA LookUpQuiet ==
    ASSUME IInv, NEW h \in Handlers, LookUp(h)
    PROVE  Quiet(h, request'[h])
<1>1. request[h] \in Requests  BY RecordTypes
<1>2. PICK at : at = IF deleted = None THEN "reflog" ELSE "record head"  OBVIOUS
<1>3. PICK now : now = [request[h] EXCEPT !.record = deleted, !.at = at]  OBVIOUS
<1>4. now.at = at /\ now.record = deleted  BY <1>1, <1>3 DEF Requests
<1>5. request'[h] = now  BY <1>2, <1>3 DEF LookUp, Goes, IInv, RequestsOK
<1>6. at \in {"reflog", "record head"} /\ (at = "record head" => deleted # None)  BY <1>2
<1>7. QED  BY <1>4, <1>5, <1>6 DEF Quiet, Deleting, Running, Looking

\* The record is found past restoring only when it is.
LEMMA RecordReadQuiet ==
    ASSUME IInv, RecordsOK, "rev-parse" \notin MayFail, NEW h \in Handlers,
           RecordHead(h) \/ RecordBranch(h) \/ RecordTip(h)
    PROVE  Quiet(h, request'[h])
<1>1. UNCHANGED <<disk, deleted>> /\ Note
  BY DEF RecordHead, RecordBranch, RecordTip, Reading
<1>2. UNCHANGED <<head, refs, gone>>  BY <1>1 DEF disk
<1>3. request[h].at \in {"record head", "record branch", "record tip"}
  BY DEF RecordHead, RecordBranch, RecordTip
<1>4. PICK record : record = request[h].record  OBVIOUS
<1>5. record # None  BY <1>3, <1>4 DEF RecordsOK, Knowing, Looking
<1>6. ASSUME NEW at \in {"record branch", "record tip", "spent"}, To(h, at),
             at = "spent" => \/ head.at # record.head
                             \/ refs[record.name] # 0
                             \/ record.sha \in gone
      PROVE  Quiet(h, request'[h])
  <2>1. at = "spent" /\ record = deleted => lapsed'
    BY <1>1, <1>2, <1>5, <1>6, Lapses
  <2>2. at \in Looking => request[h].at \in Looking  BY <1>3 DEF Looking
  <2>3. at \notin Deleting \cup {"forget"} /\ at \notin Running  BY DEF Deleting, Running
  <2>4. QED  BY <1>4, <1>6, <2>1, <2>2, <2>3, ToQuiet
<1>7. CASE Fails(h)  BY <1>7, FailsQuiet
<1>8. CASE RecordHead(h) /\ ~Fails(h)
  <2>1. CASE head.at = record.head  BY <1>4, <1>6, <1>8, <2>1 DEF RecordHead
  <2>2. CASE head.at # record.head  BY <1>4, <1>6, <1>8, <2>2 DEF RecordHead
  <2>3. QED  BY <2>1, <2>2
<1>9. CASE RecordBranch(h)
  <2>1. CASE Exists(record.name) /\ To(h, "spent")  BY <1>6, <2>1 DEF Exists
  <2>2. CASE To(h, "record tip")  BY <1>6, <2>2
  <2>3. QED  BY <1>4, <1>9, <2>1, <2>2 DEF RecordBranch
<1>10. CASE RecordTip(h) /\ ~Fails(h)
  <2>1. CASE record.sha \in gone
    <3>1. To(h, "spent")  BY <1>4, <1>10, <2>1 DEF RecordTip
    <3>2. QED  BY <1>6, <2>1, <3>1
  <2>2. CASE record.sha \notin gone
    <3>1. PICK plan : plan = [NoPlan EXCEPT !.kind = "branch-delete", !.head = record.head,
                                 !.to = record.sha, !.ref = record.sha, !.branch = record.name]
      OBVIOUS
    <3>2. Decide(h, plan)  BY <1>4, <1>10, <2>2, <3>1 DEF RecordTip, Swallowed
    <3>3. plan.branch = record.name  BY <3>1 DEF NoPlan
    <3>4. QED  BY <1>4, <1>5, <3>2, <3>3, DecideQuiet
  <2>3. QED  BY <2>1, <2>2
<1>11. QED  BY <1>7, <1>8, <1>9, <1>10

LEMMA ReflogQuiet ==
    ASSUME IInv, RecordsOK, NEW h \in Handlers, ReadReflog(h) \/ ReadHead(h)
    PROVE  Quiet(h, request'[h])
<1>1. request[h] \in Requests /\ RequestsOK  BY RecordTypes DEF IInv
<1>2. CASE Fails(h)  BY <1>2, FailsQuiet
<1>3. CASE ReadReflog(h) /\ ~Fails(h)
  <2>1. PICK now : now = [request[h] EXCEPT !.at = "reflog head", !.entries = reflog]
    OBVIOUS
  <2>2. request'[h] = now  BY <1>1, <1>3, <2>1 DEF ReadReflog, Goes, RequestsOK
  <2>3. now.at = "reflog head" /\ now.record = request[h].record
    BY <1>1, <2>1, SMTT(30) DEF Requests
  <2>4. QED  BY <2>2, <2>3 DEF Quiet, Deleting, Running, Looking
<1>4. CASE Classify(h)
  <2>1. PICK top : top = request[h].entries[1]  OBVIOUS
  <2>2. PICK back : back = [NoPlan EXCEPT !.kind = top.kind, !.into = head.on, !.head = head.at,
                               !.to = Before(request[h].entries),
                               !.ref = Before(request[h].entries)]
    OBVIOUS
  <2>3. back.kind = top.kind  BY <2>2 DEF NoPlan
  <2>4. CASE Nothing(h)  BY <2>4, NothingQuiet
  <2>5. CASE top.kind \in {"commit", "reset"} /\ Decide(h, back)
    BY <2>3, <2>5, DecideQuiet
  <2>6. CASE \E plan : Goes(h, [request[h] EXCEPT !.at = "came from", !.plan = plan])
    <3>1. PICK plan, now : /\ Goes(h, now)
                           /\ now = [request[h] EXCEPT !.at = "came from", !.plan = plan]
      BY <2>6
    <3>2. request'[h] = now  BY <1>1, <3>1 DEF Goes, RequestsOK
    <3>3. now.at = "came from" /\ now.record = request[h].record  BY <1>1, <3>1, SMTT(30) DEF Requests
    <3>4. QED  BY <3>2, <3>3 DEF Quiet, Deleting, Running, Looking
  <2>7. QED  BY <1>4, <2>1, <2>2, <2>4, <2>5, <2>6 DEF Classify
<1>5. QED  BY <1>2, <1>3, <1>4 DEF ReadReflog, ReadHead

LEMMA CameFromQuiet ==
    ASSUME IInv, RecordsOK, NEW h \in Handlers, CameFromBranch(h) \/ CameFromCommit(h)
    PROVE  Quiet(h, request'[h])
<1>1. /\ request[h].plan \in Plans /\ request[h].plan.kind = "checkout"
  BY DEF IInv, RequestsOK, Holds, Requests, CameFromBranch, CameFromCommit
<1>2. CASE To(h, "came from commit")
  BY <1>2, ToQuiet DEF Deleting, Running, Looking
<1>3. CASE Nothing(h)  BY <1>3, NothingQuiet
<1>4. CASE \E to : Decide(h, [request[h].plan EXCEPT !.to = to])
  <2>1. PICK to, plan : Decide(h, plan) /\ plan = [request[h].plan EXCEPT !.to = to]  BY <1>4
  <2>2. plan.kind = "checkout"  BY <1>1, <2>1 DEF Plans
  <2>3. QED  BY <2>1, <2>2, DecideQuiet
<1>5. CASE \E to : Decide(h, [request[h].plan EXCEPT !.to = to, !.detach = TRUE])
  <2>1. PICK to, plan : /\ Decide(h, plan)
                        /\ plan = [request[h].plan EXCEPT !.to = to, !.detach = TRUE]
    BY <1>5
  <2>2. plan.kind = "checkout"  BY <1>1, <2>1 DEF Plans
  <2>3. QED  BY <2>1, <2>2, DecideQuiet
<1>6. QED  BY <1>2, <1>3, <1>4, <1>5 DEF CameFromBranch, CameFromCommit

LEMMA CheckQuiet ==
    ASSUME IInv, RecordsOK, NEW h \in Handlers, CheckHead(h) \/ CheckTarget(h) \/ CheckBranch(h)
    PROVE  Quiet(h, request'[h])
<1>1. CASE \E at \in AtEnd : End(h, at)  BY <1>1, EndQuiet
<1>2. CASE \E at \in {"check target", "check branch", "act"} : To(h, at)
  <2>1. request[h].at \in Running  BY DEF CheckHead, CheckTarget, CheckBranch, Running
  <2>2. QED  BY <1>2, <2>1, ToQuiet DEF Deleting, Running, Looking
<1>3. QED  BY <1>1, <1>2 DEF CheckHead, CheckTarget, CheckBranch, Fails, AtEnd

LEMMA TurnsAreQuiet ==
    ASSUME IInv, RecordsOK, "rev-parse" \notin MayFail, NEW h \in Handlers, QuietTurn(h)
    PROVE  Quiet(h, request'[h]) /\ deleted' = deleted
<1>1. Quiet(h, request'[h])
  BY AskQuiet, LookUpQuiet, RecordReadQuiet, ReflogQuiet, CameFromQuiet, CheckQuiet
     DEF QuietTurn
<1>2. deleted' = deleted
  BY DEF QuietTurn, AskPlan, AskUndo, Begin, LookUp, RecordHead, RecordBranch, RecordTip,
     ReadReflog, ReadHead, CameFromBranch, CameFromCommit, CheckHead, CheckTarget,
     CheckBranch, Reading
<1>3. QED  BY <1>1, <1>2

\* What the turn of a handler may do to the records.
Modest(h) ==
    /\ deleted' # deleted /\ deleted' # None =>
          deleted' = request[h].record /\ request[h].at = "record"
    /\ \/ request'[h].record \in {request[h].record, deleted, None}
       \/ request'[h].record.by = h /\ request'[h].record.nth <= requests
    /\ requests' \in {requests, requests + 1}
    /\ \A k \in Handlers \ {h} : request'[k] = request[k]

\* The records of the others stay of earlier requests.
LEMMA EarlierElsewhere ==
    ASSUME IInv, NEW h \in Handlers, Modest(h), NEW k \in Handlers \ {h}, NEW n \in Nat,
           AllEarlier(k, n)
    PROVE  AllEarlier(k, n)'
<1>1. Earlier(deleted, k, n) /\ Earlier(request[h].record, k, n)  BY DEF AllEarlier
<1>2. Earlier(deleted', k, n)  BY <1>1 DEF Modest, Earlier
<1>3. Earlier(request'[h].record, k, n)  BY <1>1 DEF Modest, Earlier
<1>4. \A j \in Handlers \ {k} : Earlier(request'[j].record, k, n)
  BY <1>3 DEF Modest, AllEarlier
<1>5. QED  BY <1>2, <1>4 DEF AllEarlier, Earlier

\* A bound that grows stays one.
LEMMA EarlierGrows ==
    ASSUME IInv, NEW k \in Handlers, NEW n \in Nat, NEW m \in Nat, n <= m, AllEarlier(k, n)
    PROVE  AllEarlier(k, m)
<1>1. ASSUME NEW d \in Deletions \cup {None}, Earlier(d, k, n)  PROVE Earlier(d, k, m)
  <2>1. d # None => d.nth \in Nat  BY RecordTypes
  <2>2. QED  BY <1>1, <2>1 DEF Earlier
<1>2. deleted \in Deletions \cup {None}  BY RecordTypes
<1>3. QED  BY <1>1, <1>2, RecordTypes DEF AllEarlier

\* The others, when h has its turn.
LEMMA OthersKeep ==
    ASSUME IInv, RecordsOK, Note, NEW h \in Handlers, Modest(h),
           NEW k \in Handlers \ {h}
    PROVE  NoneLater(request[k].record)' /\ Making(k, request[k])' /\ Knowing(request[k])'
<1>1. PICK r : r = request[k]  OBVIOUS
<1>2. request'[k] = r /\ r \in Requests /\ r.record \in Deletions \cup {None}
  BY <1>1, RecordTypes DEF Modest
<1>3. requests \in Nat /\ requests' \in Nat /\ requests <= requests'
  BY RecordTypes DEF Modest
<1>4. NoneLater(r.record) /\ Making(k, r) /\ Knowing(r)  BY <1>1 DEF RecordsOK
<1>5. r.record # None => r.record.nth \in Nat  BY <1>2, RecordTypes
<1>6. NoneLater(r.record)'  BY <1>3, <1>4, <1>5 DEF NoneLater
<1>7. PICK n \in Nat, m \in Nat : n = requests /\ m = requests'  BY <1>3
<1>8. ASSUME AllEarlier(k, n)  PROVE AllEarlier(k, requests)'
  <2>1. AllEarlier(k, n)'  BY <1>8, EarlierElsewhere
  <2>2. AllEarlier(k, m)'
    <3>1. AllEarlier(k, m)  BY <1>3, <1>7, <1>8, EarlierGrows
    <3>2. QED  BY <3>1, EarlierElsewhere
  <2>3. QED  BY <1>7, <2>2 DEF AllEarlier
<1>9. ASSUME NEW d \in Deletions, Newest(k, d)  PROVE Newest(k, d)'
  <2>1. d.nth \in Nat  BY RecordTypes
  <2>2. PICK i \in Nat : i = d.nth  BY <2>1
  <2>3. AllEarlier(k, i)'  BY <1>9, <2>2, EarlierElsewhere DEF Newest
  <2>4. QED  BY <1>3, <1>9, <2>1, <2>2, <2>3 DEF Newest
<1>10. Making(k, r)'
  <2>1. r.at = "read tip" => AllEarlier(k, requests)'  BY <1>4, <1>7, <1>8 DEF Making
  <2>2. r.at = "read head" => r.record \in Deletions  BY <1>1 DEF IInv, RequestsOK, Holds
  <2>3. r.at = "read head" => Newest(k, r.record)'  BY <1>4, <1>9, <2>2 DEF Making
  <2>4. r.at \in {"delete", "record"} /\ r.record # None => Newest(k, r.record)'
    BY <1>2, <1>4, <1>9 DEF Making
  <2>5. QED  BY <2>1, <2>3, <2>4 DEF Making
<1>11. Knowing(r)'
  <2>1. ASSUME r.at \in {"spent", "forget"}, deleted' # None, r.record = deleted'
        PROVE  lapsed'
    <3>1. CASE deleted' = deleted  BY <1>4, <2>1, <3>1 DEF Knowing, Note
    <3>2. CASE deleted' # deleted
      <4>1. deleted' = request[h].record /\ request[h].at = "record"
        BY <2>1, <3>2 DEF Modest
      <4>2. Newest(h, request[h].record)  BY <2>1, <4>1 DEF RecordsOK, Making
      <4>3. request[k].record = request[h].record  BY <1>1, <2>1, <4>1
      <4>4. Earlier(request[k].record, h, request[h].record.nth)
        BY <4>2 DEF Newest, AllEarlier
      <4>5. request[h].record.nth < request[h].record.nth
        BY <2>1, <4>1, <4>2, <4>3, <4>4 DEF Earlier, Newest
      <4>6. request[h].record.nth \in Nat  BY <2>1, <4>1, RecordTypes
      <4>7. QED  BY <4>5, <4>6
    <3>3. QED  BY <3>1, <3>2
  <2>2. QED  BY <1>4, <2>1 DEF Knowing
<1>12. QED  BY <1>2, <1>6, <1>10, <1>11 DEF NoneLater, Making, Newest, AllEarlier, Knowing

\* What a turn leaves its own handler with.
OwnOK(h) ==
    /\ Modest(h)
    /\ NoneLater(request[h].record)'
    /\ Making(h, request[h])'
    /\ Knowing(request[h])'

LEMMA QuietOwn ==
    ASSUME IInv, RecordsOK, "rev-parse" \notin MayFail, NEW h \in Handlers, QuietTurn(h)
    PROVE  OwnOK(h)
<1>1. Quiet(h, request'[h]) /\ deleted' = deleted  BY TurnsAreQuiet
<1>2. requests' \in {requests, requests + 1}
  BY DEF QuietTurn, AskPlan, AskUndo, Begin, LookUp, RecordHead, RecordBranch, RecordTip,
     ReadReflog, ReadHead, CameFromBranch, CameFromCommit, CheckHead, CheckTarget,
     CheckBranch, Reading
<1>3. Turn(h)  BY HandlerHolds DEF QuietTurn, HandlerStep, Reads, Preview, TurnHolds
<1>4. \A k \in Handlers \ {h} : request'[k] = request[k]
  BY <1>3 DEF Turn, IInv, RequestsOK
<1>5. Modest(h)  BY <1>1, <1>2, <1>4 DEF Modest, Quiet
<1>6. NoneLater(request'[h].record)
  <2>1. NoneLater(request[h].record) /\ NoneLater(deleted) /\ NoneLater(None)
    BY DEF RecordsOK, NoneLater
  <2>2. QED  BY <1>1, <2>1 DEF Quiet
<1>7. NoneLater(request[h].record)'
  <2>1. PICK d \in Deletions \cup {None} : d = request'[h].record
    BY <1>1, RecordTypes DEF Quiet
  <2>2. d # None => d.nth \in Nat /\ d.nth <= requests  BY <1>6, <2>1, RecordTypes DEF NoneLater
  <2>3. requests \in Nat  BY RecordTypes
  <2>4. d # None => d.nth <= requests'  BY <1>2, <2>2, <2>3
  <2>5. QED  BY <2>1, <2>4 DEF NoneLater
<1>8. Making(h, request[h])'  BY <1>1 DEF Quiet, Making, Deleting
<1>9. Knowing(request[h])'
  <2>1. request'[h].at # "forget"  BY <1>1 DEF Quiet
  <2>2. request'[h].at = "spent" /\ request'[h].record = deleted => lapsed'
    BY <1>1 DEF Quiet
  <2>3. QED  BY <1>1, <2>1, <2>2 DEF Quiet, Knowing
<1>10. QED  BY <1>5, <1>7, <1>8, <1>9 DEF OwnOK

\* A turn that ends the request, or goes on with what it holds.
LEMMA EndOwn ==
    ASSUME IInv, NEW h \in Handlers, NEW at \in AtEnd, End(h, at), requests' = requests,
           deleted' # deleted /\ deleted' # None =>
              deleted' = request[h].record /\ request[h].at = "record"
    PROVE  OwnOK(h)
<1>1. request'[h] = Ended(at) /\ \A k \in Handlers \ {h} : request'[k] = request[k]
  BY DEF End, IInv, RequestsOK
<1>2. Ended(at).at = at /\ Ended(at).record = None  BY DEF Ended
<1>3. request'[h].at \in AtEnd /\ request'[h].record = None  BY <1>1, <1>2
<1>4. Modest(h)  BY <1>1, <1>3 DEF Modest
<1>5. NoneLater(request[h].record)'  BY <1>3 DEF NoneLater
<1>6. Making(h, request[h])'  BY <1>3 DEF Making, AtEnd
<1>7. Knowing(request[h])'  BY <1>3 DEF Knowing, AtEnd, Running, Looking
<1>8. QED  BY <1>4, <1>5, <1>6, <1>7 DEF OwnOK

LEMMA ToOwn ==
    ASSUME IInv, RecordsOK, NEW h \in Handlers, NEW at \in {"reflog", "forget", "delete", "record"},
           To(h, at), requests' = requests, deleted' \in {deleted, None},
           at = "forget" /\ deleted' # None /\ request[h].record = deleted' => lapsed',
           at = "forget" /\ request[h].plan.kind = "branch-delete" =>
              request[h].record # None /\ request[h].plan.branch = request[h].record.name,
           at = "record" => request[h].record # None,
           at \in {"delete", "record"} /\ request[h].record # None =>
              Newest(h, request[h].record) /\ deleted' = deleted
    PROVE  OwnOK(h)
<1>1. request[h] \in Requests  BY RecordTypes
<1>2. PICK now : now = [request[h] EXCEPT !.at = at]  OBVIOUS
<1>3. now.at = at /\ now.plan = request[h].plan /\ now.record = request[h].record
  BY <1>1, <1>2 DEF Requests
<1>4. request'[h] = now /\ \A k \in Handlers \ {h} : request'[k] = request[k]
  BY <1>2 DEF To, Goes, IInv, RequestsOK
<1>5. Modest(h)  BY <1>3, <1>4 DEF Modest
<1>6. NoneLater(request[h].record)'
  BY <1>3, <1>4 DEF RecordsOK, NoneLater
<1>7. Making(h, request[h])'
  <2>1. ASSUME at \in {"delete", "record"}, now.record # None
        PROVE  Newest(h, request[h].record)'
    <3>1. PICK d : d = now.record  OBVIOUS
    <3>2. Newest(h, d) /\ deleted' = deleted  BY <1>3, <2>1, <3>1
    <3>3. Newest(h, d)'  BY <1>4, <3>2 DEF Newest, AllEarlier
    <3>4. QED  BY <1>4, <3>1, <3>3 DEF Newest, AllEarlier
  <2>2. QED  BY <1>3, <1>4, <2>1 DEF Making
<1>8. Knowing(request[h])'
  BY <1>3, <1>4 DEF Knowing, Running, Looking
<1>9. QED  BY <1>5, <1>6, <1>7, <1>8 DEF OwnOK

LEMMA SpentOwn ==
    ASSUME IInv, RecordsOK, NEW h \in Handlers, Spent(h)
    PROVE  OwnOK(h)
BY ToOwn DEF Spent

\* A branch that is brought back is there.
LEMMA ActOwn ==
    ASSUME IInv, RecordsOK, NEW h \in Handlers, Act(h)
    PROVE  OwnOK(h)
<1>1. deleted' = deleted /\ requests' = requests /\ Note  BY DEF Act
<1>2. CASE \E at \in AtEnd : End(h, at)  BY <1>1, <1>2, EndOwn
<1>3. CASE ~\E at \in AtEnd : End(h, at)
  <2>1. PICK plan : plan = request[h].plan  OBVIOUS
  <2>2. plan.kind = "branch-delete" /\ CreateBranch(plan.branch, plan.to) /\ To(h, "forget")
    BY <1>3, <2>1 DEF Act, AtEnd
  <2>3. plan.branch \in Branches /\ plan.to \in 1..made
    BY <2>1, <2>2, ActHeld DEF Ready
  <2>4. refs'[plan.branch] = plan.to /\ plan.to # 0
    BY <2>2, <2>3, MadeIsANumber DEF CreateBranch, PointBranch, IInv, DiskOK
  <2>5. request[h].record # None /\ plan.branch = request[h].record.name
    BY <2>1, <2>2 DEF RecordsOK, Knowing, Running, Act
  <2>6. request[h].record = deleted => lapsed'
    BY <1>1, <2>4, <2>5, Lapses
  <2>7. PICK at \in {"forget"} : To(h, at)  BY <2>2
  <2>8. QED  BY <1>1, <2>1, <2>5, <2>6, <2>7, ToOwn
<1>4. QED  BY <1>2, <1>3

LEMMA OverOwn ==
    ASSUME IInv, RecordsOK, NEW h \in Handlers, Forget(h) \/ Record(h)
    PROVE  OwnOK(h)
<1>1. PICK at \in AtEnd : End(h, at)  BY DEF Forget, Record, AtEnd
<1>2. requests' = requests  BY DEF Forget, Record
<1>3. deleted' # deleted /\ deleted' # None =>
         deleted' = request[h].record /\ request[h].at = "record"
  BY DEF Forget, Record
<1>4. QED  BY <1>1, <1>2, <1>3, EndOwn

\* A deletion that is asked for is later than all that is remembered.
LEMMA AskDeleteOwn ==
    ASSUME IInv, RecordsOK, NEW h \in Handlers, AskDelete(h)
    PROVE  OwnOK(h)
<1>1. PICK b \in Branches : Begin(h, [Ended("read tip") EXCEPT !.branch = b])
  BY DEF AskDelete
<1>2. PICK now : now = [Ended("read tip") EXCEPT !.branch = b]  OBVIOUS
<1>3. now.at = "read tip" /\ now.record = None  BY <1>2 DEF Ended
<1>4. /\ request'[h] = now /\ deleted' = deleted /\ requests' = requests + 1
      /\ \A k \in Handlers \ {h} : request'[k] = request[k]
  BY <1>1, <1>2 DEF Begin, IInv, RequestsOK
<1>5. Modest(h)  BY <1>3, <1>4 DEF Modest
<1>6. PICK n \in Nat : n = requests + 1  BY RecordTypes
<1>7. ASSUME NEW d \in Deletions \cup {None}, NoneLater(d)  PROVE Earlier(d, h, n)
  <2>1. d # None => d.nth \in Nat  BY RecordTypes
  <2>2. QED  BY <1>6, <1>7, <2>1, RecordTypes DEF NoneLater, Earlier
<1>8. deleted \in Deletions \cup {None} /\ NoneLater(deleted)
  BY RecordTypes DEF RecordsOK
<1>9. \A k \in Handlers : Earlier(request[k].record, h, n)
  BY <1>7, RecordTypes DEF RecordsOK
<1>10. AllEarlier(h, n)'  BY <1>4, <1>7, <1>8, <1>9 DEF AllEarlier, Earlier
<1>11. Making(h, request[h])'
  BY <1>3, <1>4, <1>6, <1>10 DEF Making, AllEarlier
<1>12. NoneLater(request[h].record)'  BY <1>3, <1>4 DEF NoneLater
<1>13. Knowing(request[h])'  BY <1>3, <1>4 DEF Knowing, Running, Looking
<1>14. QED  BY <1>5, <1>11, <1>12, <1>13 DEF OwnOK

\* A record that is being made.
LEMMA MakingOwn ==
    ASSUME IInv, RecordsOK, NEW h \in Handlers, NEW now \in Requests, Goes(h, now),
           now.at \in {"read head", "delete"}, UNCHANGED <<deleted, requests>>,
           now.record \in Deletions \cup {None},
           now.at = "read head" \/ now.record # None => Newest(h, now.record)
    PROVE  OwnOK(h)
<1>1. request'[h] = now /\ \A k \in Handlers \ {h} : request'[k] = request[k]
  BY DEF Goes, IInv, RequestsOK
<1>2. now.record # None => now.record.by = h /\ now.record.nth <= requests
  BY DEF Newest
<1>3. Modest(h)  BY <1>1, <1>2 DEF Modest
<1>4. NoneLater(request[h].record)'  BY <1>1, <1>2 DEF NoneLater
<1>5. Making(h, request[h])'
  <2>1. ASSUME now.at = "read head" \/ now.record # None  PROVE Newest(h, request[h].record)'
    <3>1. PICK d : d = now.record  OBVIOUS
    <3>2. Newest(h, d)  BY <2>1, <3>1
    <3>3. Newest(h, d)'  BY <1>1, <3>2 DEF Newest, AllEarlier
    <3>4. QED  BY <1>1, <3>1, <3>3 DEF Newest, AllEarlier
  <2>2. QED  BY <1>1, <2>1 DEF Making
<1>6. Knowing(request[h])'  BY <1>1 DEF Knowing, Running, Looking
<1>7. QED  BY <1>3, <1>4, <1>5, <1>6 DEF OwnOK

LEMMA ReadTipOwn ==
    ASSUME IInv, RecordsOK, NEW h \in Handlers, ReadTip(h)
    PROVE  OwnOK(h)
<1>1. /\ request[h].at = "read tip" /\ request[h] \in Requests
      /\ UNCHANGED <<deleted, requests>> /\ DiskOK /\ requests \in Nat
  BY RecordTypes DEF ReadTip, Reading, IInv
<1>2. request[h].record = None /\ request[h].branch \in Branches
  BY <1>1 DEF IInv, RequestsOK, Holds
<1>3. CASE To(h, "delete")
  <2>1. PICK at \in {"delete"} : To(h, at)  BY <1>3
  <2>2. QED  BY <1>1, <1>2, <2>1, ToOwn
<1>4. CASE ~To(h, "delete")
  <2>1. PICK b \in Branches : b = request[h].branch  BY <1>2
  <2>2. PICK record : record = [name |-> b, sha |-> refs[b], head |-> 0,
                                by |-> h, nth |-> requests]
    OBVIOUS
  <2>3. PICK now : now = [request[h] EXCEPT !.at = "read head", !.record = record]  OBVIOUS
  <2>4. Exists(b) /\ Goes(h, now)  BY <1>4, <2>1, <2>2, <2>3 DEF ReadTip
  <2>5. record \in Deletions /\ record.by = h /\ record.nth = requests
    <3>1. DiskOK /\ requests \in Nat  BY <1>1
    <3>2. refs[b] \in 1..made /\ 0 \in 0..made  BY <2>4, <3>1 DEF DiskOK, Exists
    <3>3. QED  BY <2>2, <3>1, <3>2 DEF Deletions
  <2>6. now.at = "read head" /\ now.record = record /\ now \in Requests
    BY <1>1, <2>3, <2>5 DEF Requests, States
  <2>7. AllEarlier(h, requests)  BY <1>1 DEF RecordsOK, Making
  <2>8. Newest(h, record)
    <3>1. record.nth = requests /\ record.by = h  BY <2>5
    <3>2. requests \in Nat  BY <1>1
    <3>3. record.nth <= requests  BY <3>1, <3>2
    <3>4. AllEarlier(h, record.nth)  BY <2>7, <3>1 DEF AllEarlier, Earlier
    <3>5. QED  BY <3>1, <3>3, <3>4 DEF Newest
  <2>9. QED  BY <1>1, <2>4, <2>5, <2>6, <2>8, MakingOwn
<1>5. QED  BY <1>3, <1>4

LEMMA ReadHeadBeforeOwn ==
    ASSUME IInv, RecordsOK, NEW h \in Handlers, ReadHeadBefore(h)
    PROVE  OwnOK(h)
<1>1. /\ request[h].at = "read head" /\ request[h] \in Requests
      /\ UNCHANGED <<deleted, requests>> /\ DiskOK /\ made \in Nat
  BY RecordTypes, MadeIsANumber DEF ReadHeadBefore, Reading, IInv
<1>2. request[h].record \in Deletions  BY <1>1 DEF IInv, RequestsOK, Holds
<1>3. Newest(h, request[h].record)  BY <1>1 DEF RecordsOK, Making
<1>4. CASE Goes(h, [request[h] EXCEPT !.at = "delete", !.record = None])
  <2>1. PICK now : now = [request[h] EXCEPT !.at = "delete", !.record = None]  OBVIOUS
  <2>2. now.at = "delete" /\ now.record = None /\ now \in Requests
    BY <1>1, <2>1 DEF Requests, States
  <2>3. QED  BY <1>1, <1>4, <2>1, <2>2, MakingOwn
<1>5. CASE Goes(h, [request[h] EXCEPT !.at = "delete", !.record.head = head.at])
  <2>1. PICK commit \in 0..made : commit = head.at
    <3>1. DiskOK /\ made \in Nat  BY <1>1
    <3>2. head.at \in 1..made  BY <3>1 DEF DiskOK, Heads
    <3>3. QED  BY <3>1, <3>2
  <2>2. PICK record : record = [request[h].record EXCEPT !.head = commit]  OBVIOUS
  <2>3. /\ record \in Deletions /\ record.by = request[h].record.by
        /\ record.nth = request[h].record.nth
    BY <1>2, <2>2 DEF Deletions
  <2>4. PICK now : now = [request[h] EXCEPT !.at = "delete", !.record.head = commit]  OBVIOUS
  <2>5. now.at = "delete"  BY <1>1, <2>4 DEF Requests
  <2>6. now.record = record  BY <1>1, <2>2, <2>4 DEF Requests
  <2>7. now \in Requests  BY <1>1, <2>2, <2>3, <2>4 DEF Requests, States
  <2>8. Newest(h, record)  BY <1>3, <2>3 DEF Newest
  <2>9. Goes(h, now)  BY <1>5, <2>1, <2>4
  <2>10. QED  BY <1>1, <2>3, <2>5, <2>6, <2>7, <2>8, <2>9, MakingOwn
<1>6. QED  BY <1>4, <1>5 DEF ReadHeadBefore

LEMMA DeleteOwn ==
    ASSUME IInv, RecordsOK, NEW h \in Handlers, Delete(h)
    PROVE  OwnOK(h)
<1>1. request[h].at = "delete" /\ UNCHANGED <<deleted, requests>>  BY DEF Delete
<1>2. request[h].record # None => Newest(h, request[h].record)
  BY <1>1 DEF RecordsOK, Making
<1>3. CASE \E at \in AtEnd : End(h, at)  BY <1>1, <1>3, EndOwn
<1>4. CASE request[h].record # None /\ To(h, "record")
  <2>1. PICK at \in {"record"} : To(h, at)  BY <1>4
  <2>2. QED  BY <1>1, <1>2, <1>4, <2>1, ToOwn
<1>5. QED  BY <1>3, <1>4 DEF Delete, AtEnd

LEMMA TurnOwn ==
    ASSUME IInv, RecordsOK, "rev-parse" \notin MayFail, NEW h \in Handlers, HandlerStep(h)
    PROVE  OwnOK(h)
<1>1. CASE QuietTurn(h)  BY <1>1, QuietOwn
<1>2. CASE Spent(h) \/ Act(h) \/ Forget(h) \/ Record(h)
  BY <1>2, SpentOwn, ActOwn, OverOwn
<1>3. CASE AskDelete(h) \/ ReadTip(h) \/ ReadHeadBefore(h) \/ Delete(h)
  BY <1>3, AskDeleteOwn, ReadTipOwn, ReadHeadBeforeOwn, DeleteOwn
<1>4. QED  BY <1>1, <1>2, <1>3 DEF HandlerStep, Reads, Preview, QuietTurn

LEMMA RecordsStep ==
    ASSUME IInv, RecordsOK, [Next]_vars, "rev-parse" \notin MayFail
    PROVE  RecordsOK'
<1>1. ASSUME NEW h \in Handlers, HandlerStep(h)  PROVE RecordsOK'
  <2>1. Note  BY <1>1, StepsNote DEF Next, HandlerStep, Reads
  <2>2. OwnOK(h)  BY <1>1, TurnOwn
  <2>3. Modest(h)  BY <2>2 DEF OwnOK
  <2>4. NoneLater(deleted)'
    <3>1. PICK d \in Deletions \cup {None} : d = deleted'
      BY <2>3, RecordTypes DEF Modest, Remembered
    <3>2. NoneLater(d)  BY <2>3, <3>1 DEF RecordsOK, Modest, NoneLater
    <3>3. d # None => d.nth \in Nat  BY RecordTypes
    <3>4. QED  BY <2>3, <3>1, <3>2, <3>3, RecordTypes DEF NoneLater, Modest
  <2>5. QED  BY <2>1, <2>2, <2>3, <2>4, OthersKeep DEF RecordsOK, OwnOK
<1>2. CASE UNCHANGED <<request, deleted, requests>> /\ (lapsed => lapsed' \/ deleted' = None)
  <2>1. ASSUME NEW h \in Handlers
        PROVE  /\ NoneLater(request[h].record)' /\ Making(h, request[h])'
               /\ Knowing(request[h])'
    <3>1. PICK r : r = request[h]  OBVIOUS
    <3>2. NoneLater(r.record) /\ Making(h, r) /\ Knowing(r)  BY <3>1 DEF RecordsOK
    <3>3. NoneLater(r.record)'  BY <1>2, <3>2 DEF NoneLater
    <3>4. Making(h, r)'  BY <1>2, <3>2 DEF Making, Newest, AllEarlier
    <3>5. Knowing(r)'  BY <1>2, <3>2 DEF Knowing
    <3>6. QED
      BY <1>2, <3>1, <3>3, <3>4, <3>5 DEF NoneLater, Making, Newest, AllEarlier, Knowing
  <2>2. NoneLater(deleted)'  BY <1>2 DEF RecordsOK, NoneLater
  <2>3. QED  BY <2>1, <2>2 DEF RecordsOK
<1>3. CASE MakeCommit \/ Reset \/ Checkout \/ Rewrite \/ Collect
  <2>1. Note  BY <1>3, StepsNote DEF Next
  <2>2. UNCHANGED <<request, deleted, requests>>
    BY <1>3 DEF MakeCommit, Reset, Checkout, Rewrite, Collect, AtTerminal
  <2>3. lapsed => lapsed' \/ deleted' = None  BY <2>1, <2>2 DEF Note
  <2>4. QED  BY <1>2, <2>2, <2>3
<1>4. CASE UNCHANGED vars
  <2>1. UNCHANGED <<request, deleted, requests, lapsed>>  BY <1>4 DEF vars, history
  <2>2. QED  BY <1>2, <2>1
<1>5. QED  BY <1>1, <1>3, <1>4 DEF Next, HandlerStep, Reads

\* What is remembered is dropped by a handler that has seen it cannot be used,
\* by one that used it, or by one that looked up another.
LEMMA StepOffers ==
    ASSUME IInv, RecordsOK, [Next]_vars, "rev-parse" \notin MayFail,
           deleted # None, deleted' = None
    PROVE  \/ lapsed
           \/ \E h \in Handlers : request[h].at \in {"spent", "forget"}
                                  /\ request[h].record # deleted
<1>1. ~UNCHANGED vars  BY DEF vars
<1>2. ~(MakeCommit \/ Reset \/ Checkout \/ Rewrite \/ Collect)
  BY DEF MakeCommit, Reset, Checkout, Rewrite, Collect, AtTerminal
<1>3. PICK h \in Handlers : HandlerStep(h)  BY <1>1, <1>2 DEF Next, HandlerStep, Reads
<1>4. Spent(h) \/ Forget(h)
  <2>1. CASE QuietTurn(h)  BY <2>1, TurnsAreQuiet
  <2>2. CASE Record(h)
    BY <2>2 DEF Record, RecordsOK, Knowing, Looking
  <2>3. CASE Act(h) \/ Delete(h) \/ AskDelete(h) \/ ReadTip(h) \/ ReadHeadBefore(h)
    BY <2>3 DEF Act, Delete, AskDelete, Begin, ReadTip, ReadHeadBefore, Reading
  <2>4. QED
    BY <1>3, <2>1, <2>2, <2>3 DEF HandlerStep, Reads, Preview, QuietTurn
<1>5. request[h].at \in {"spent", "forget"}  BY <1>4 DEF Spent, Forget
<1>6. request[h].record = deleted => lapsed  BY <1>5 DEF RecordsOK, Knowing
<1>7. QED  BY <1>5, <1>6

\* When no read through revParse fails for a reason of its own, the only record
\* of a deleted branch is dropped once it is of no more use, or by a handler
\* that had looked up another, and for nothing else.
THEOREM Offer ==
    ASSUME "rev-parse" \notin MayFail
    PROVE  Spec => RestoreStaysOffered
<1>1. Spec => [](IInv /\ RecordsOK)
  <2>1. Init => IInv /\ RecordsOK  BY InvInit, RecordsInit
  <2>2. (IInv /\ RecordsOK) /\ [Next]_vars => (IInv /\ RecordsOK)'
    BY InvStep, RecordsStep
  <2>3. QED  BY <2>1, <2>2, PTL DEF Spec
<1>2. ASSUME IInv, RecordsOK, [Next]_vars
      PROVE  deleted # None /\ deleted' = None =>
                \/ lapsed
                \/ \E h \in Handlers : request[h].at \in {"spent", "forget"}
                                       /\ request[h].record # deleted
  BY <1>2, StepOffers
<1>3. QED  BY <1>1, <1>2, PTL DEF Spec, RestoreStaysOffered
=============================================================================
