------------------------------ MODULE Conflict ------------------------------
(***************************************************************************)
(* A file that a merge could not decide: git writes both versions of each  *)
(* conflict between markers, and the resolver reads them back from the     *)
(* text, draws each with the lines around it, and rewrites one when a side *)
(* is chosen.  app/conflict.ts and app/ConflictResolver.tsx.               *)
(*                                                                         *)
(* A text is the sequence of its lines.  A line is one of the four markers *)
(* or something else; what follows a marker is left out.  A text that ends *)
(* in a newline has an empty line after it, as split gives it.             *)
(***************************************************************************)
EXTENDS Integers, FiniteSets, SequencesExt

CONSTANTS
    Merges,         \* what git may have written: sequences of chunks
    Context,        \* CONTEXT_LINES
    MaxEdits,       \* bound on the lines edited by hand
    Empty           \* the line of no characters

VARIABLES
    text,           \* the buffer
    chunks,         \* history: what the text stands for
    edits           \* lines deleted by hand so far

vars == <<text, chunks, edits>>

Ours == "<<<"
Base == "|||"
Separator == "==="
Theirs == ">>>"

-----------------------------------------------------------------------------
(* What git writes: a chunk is lines of both sides, or a conflict.  The    *)
(* version both started from, when it is there, is under its marker.       *)

Common(lines) == [conflict |-> FALSE, lines |-> lines]
Conflicting(ours, base, theirs) ==
    [conflict |-> TRUE, ours |-> ours, base |-> base, theirs |-> theirs]

Written(chunk) ==
    IF chunk.conflict
    THEN <<Ours>> \o chunk.ours \o chunk.base \o <<Separator>> \o chunk.theirs \o <<Theirs>>
    ELSE chunk.lines

File(merge) == FlattenSeq([i \in DOMAIN merge |-> Written(merge[i])])

Undecided(merge) == SelectSeq(merge, LAMBDA chunk : chunk.conflict)

-----------------------------------------------------------------------------
(* What the resolver reads.                                                *)

First(from, marker) ==
    CHOOSE i \in from + 1..Len(text) :
        text[i] = marker /\ \A j \in from + 1..i - 1 : text[j] # marker

Holds(from, to, marker) == \E i \in from + 1..to - 1 : text[i] = marker

\* readRegion: the separator, then the closing marker, and before neither the
\* marker of another region.
Opens(i) ==
    /\ text[i] = Ours
    /\ Holds(i, Len(text) + 1, Separator)
    /\ LET middle == First(i, Separator)
       IN  /\ ~Holds(i, middle, Ours) /\ ~Holds(i, middle, Theirs)
           /\ Holds(middle, Len(text) + 1, Theirs)
           /\ ~Holds(middle, First(middle, Theirs), Ours)

Region(i) ==
    LET middle == First(i, Separator)
        end == First(middle, Theirs)
        origin == IF Holds(i, middle, Base) THEN First(i, Base) ELSE middle
    IN  [start |-> i,
         end |-> end,
         ours |-> SubSeq(text, i + 1, origin - 1),
         base |-> SubSeq(text, origin, middle - 1),
         theirs |-> SubSeq(text, middle + 1, end - 1)]

\* findConflicts.  No region holds the opening of another.
Regions ==
    LET starts == SetToSortSeq({i \in DOMAIN text : Opens(i)}, <)
    IN  [k \in DOMAIN starts |-> Region(starts[k])]

HasConflictMarkers == \E i \in DOMAIN text : text[i] \in {Ours, Base, Theirs}

-----------------------------------------------------------------------------
(* What the resolver draws.                                                *)

\* fileLines: the line a last newline invents is not counted.
FileLines == IF text # <<>> /\ Last(text) = Empty THEN Len(text) - 1 ELSE Len(text)

\* Where the k-th block stops drawing.
DrawnTo(k) == IF k = 0 THEN 0 ELSE Min({FileLines, Regions[k].end + Context})

Before(k) == Max({DrawnTo(k - 1), Regions[k].start - 1 - Context}) + 1..Regions[k].start - 1
After(k) == Regions[k].end + 1..DrawnTo(k)
SkippedBeforeMutant(k) == Max({0, Regions[k].start - 1 - Context})
SkippedBefore(k) == Max({0, Regions[k].start - 1 - Context - DrawnTo(k - 1)})
SkippedAfter == IF Regions = <<>> THEN 0 ELSE FileLines - DrawnTo(Len(Regions))

Inside(k) == Regions[k].start..Regions[k].end

-----------------------------------------------------------------------------

Verdicts == {"ours", "theirs", "both"}

Kept(region, choice) ==
    CASE choice = "ours" -> region.ours
      [] choice = "theirs" -> region.theirs
      [] choice = "both" -> region.ours \o region.theirs

\* applyChoice.
Applied(region, choice) ==
    SubSeq(text, 1, region.start - 1) \o Kept(region, choice)
    \o SubSeq(text, region.end + 1, Len(text))

\* The k-th conflict that is left is decided.
Decided(k, choice) ==
    LET left == SetToSortSeq({i \in DOMAIN chunks : chunks[i].conflict}, <)
    IN  [chunks EXCEPT ![left[k]] = Common(Kept(chunks[left[k]], choice))]

\* One of the three buttons of the k-th region.
Choose(k, choice) ==
    /\ k \in DOMAIN Regions
    /\ text' = Applied(Regions[k], choice)
    /\ chunks' = IF edits = 0 THEN Decided(k, choice) ELSE chunks
    /\ UNCHANGED edits

\* In the text view anything can be changed: a line goes.
DeleteLine(i) ==
    /\ edits < MaxEdits
    /\ text' = RemoveAt(text, i)
    /\ edits' = edits + 1
    /\ chunks' = <<>>

Init ==
    /\ \E merge \in Merges : chunks = merge /\ text = File(merge)
    /\ edits = 0

Next ==
    \/ \E k \in DOMAIN text, choice \in Verdicts : Choose(k, choice)
    \/ \E i \in DOMAIN text : DeleteLine(i)

Spec == Init /\ [][Next]_vars

-----------------------------------------------------------------------------

\* The text stands for the merge in which the sides chosen so far are taken:
\* each conflict that is left is found with its sides, in order, whatever the
\* separators among the other lines, and the rest of the file is as git wrote
\* it.  A file in which no conflict is left holds no marker.
ReadsWhatGitWrote ==
    edits = 0 =>
        /\ text = File(chunks)
        /\ [k \in DOMAIN Regions |-> Conflicting(Regions[k].ours, Regions[k].base, Regions[k].theirs)]
             = Undecided(chunks)
        /\ Regions = <<>> => ~HasConflictMarkers

\* "Every line left out is counted" (layOutConflicts), on every text.
SkippedAreCounted ==
    LET blocks == DOMAIN Regions
        drawn == UNION {Before(k) \cup Inside(k) \cup After(k) : k \in blocks}
    IN  blocks # {} =>
            Cardinality((1..FileLines) \ drawn)
              = MapThenSumSet(SkippedBefore, blocks) + SkippedAfter

\* "No line is drawn twice" (layOutConflicts).  False: the lines after a
\* region run into the next one when fewer than Context lines are between.
NoLineIsDrawnTwice ==
    \A k \in DOMAIN Regions :
        /\ \A l \in DOMAIN Regions : (Before(k) \cup After(k)) \cap Inside(l) = {}
        /\ Before(k) \cap UNION {Before(l) \cup After(l) : l \in DOMAIN Regions \ {k}} = {}
        /\ After(k) \cap UNION {Before(l) \cup After(l) : l \in DOMAIN Regions \ {k}} = {}
=============================================================================
