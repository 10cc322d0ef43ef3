----------------------------- MODULE ListsProofs ----------------------------
(***************************************************************************)
(* What is proved of the lists the user chooses and arranges in.  Of       *)
(* choosing what to keep: that the lines the daemon changes are those the  *)
(* user chose, and that the list of files keeps the keyboard and takes it  *)
(* from nothing else, for any files, any number of gestures and whatever   *)
(* is edited meanwhile.  Of the plan of a rebase: that it does to the      *)
(* branch what the dialog said of it, and only that, for any branch and    *)
(* any plan.                                                               *)
(*                                                                         *)
(* A line is chosen by its position in a diff.  `Drawn` says which diff    *)
(* the choice was made in, that of the row on screen as it was last read,  *)
(* and `Meanings` that the positions stand for the lines that were meant,  *)
(* and no position is out of that diff.                                    *)
(*                                                                         *)
(* Of a plan, `Rebased` says at each of its lines what git has made so far *)
(* of the rows that are done: how many commits, what they hold, what is    *)
(* still where it was at the bottom and what has been written again above  *)
(* it.  The rest of `PlansInv` is what brings git a plan that has each of  *)
(* the commits of the branch once: from the dialog, through a request that *)
(* the daemon has compared with the branch.                                *)
(***************************************************************************)
EXTENDS Changes, Rewrite, FiniteSetTheorems, SequenceTheorems, TLAPS

-----------------------------------------------------------------------------
(* The inductive invariant. *)

RowsAt == [path : Paths, row : Rows]
Presses == [path : Paths, at : Nat \ {0}]

Data ==
    /\ DOMAIN work = Paths
    /\ \A path \in Paths : work[path] \in [Lines[path] -> {"clean", "changed", "staged"}]
    /\ status \in [Rows -> SUBSET Paths]
    /\ DOMAIN diffs = Keys
    /\ \A key \in Keys : diffs[key] = None \/ diffs[key] \in SUBSET Lines[key[1]]
    /\ selected \in RowsAt \cup {None}
    /\ filter \in SUBSET Paths

\* What is chosen is chosen in the diff on screen.
Drawn == seenDiff = IF Diff = None \/ Diff = {} THEN None ELSE <<Key(Current), Diff>>

\* What a choice says, of the diff on screen.
Good(choice) ==
    /\ choice.meant = At(Diff, choice.chosen)
    /\ choice.chosen \subseteq ChangedLines(Diff)
    /\ choice.anchor # None => choice.anchor \in ChangedLines(Diff)

Meanings ==
    /\ seenDiff = None => chosen = {} /\ anchor = None /\ meant = {}
    /\ seenDiff # None => Good(Choice)

\* What is asked of lines names the lines that were meant.
Meant(wanted) ==
    wanted # None =>
        /\ wanted \in Requests
        /\ wanted.lines # None => wanted.meant = At(wanted.lines.diff, wanted.lines.indices)

Asking == Meant(operation) /\ Meant(pendingDiscard)

\* A press lasts as long as what it asked and its row, and a question on screen
\* has the keyboard.
Keyboard ==
    /\ acted \in [Rows -> Presses \cup {None}]
    /\ focusedPath \in [Rows -> Paths \cup {None}]
    /\ focus \in RowsAt \cup {None, Elsewhere}
    /\ \A row \in Rows : acted[row] # None => Busy /\ acted[row].path \in Listed(row)
    /\ pendingDiscard # None => focus = Elsewhere

ChangesInv == Data /\ Drawn /\ Meanings /\ Asking /\ Keyboard

-----------------------------------------------------------------------------
(* Of positions. *)

LEMMA PathsAreNumbers == Paths \in SUBSET Nat /\ \A files \in SUBSET Paths : IsFiniteSet(files)
<1>1. Lines \in Seq(SUBSET Nat)
  BY ChangesAssumption
<1>2. Paths = 1..Len(Lines) /\ Len(Lines) \in Nat
  BY <1>1 DEF Paths
<1>3. IsFiniteSet(1..Len(Lines))
  BY <1>2, FS_Interval
<1>4. Paths \in SUBSET Nat
  BY <1>2
<1>5. ASSUME NEW files \in SUBSET Paths PROVE IsFiniteSet(files)
  BY <1>2, <1>3, FS_Subset
<1> QED BY <1>4, <1>5

LEMMA LinesAreNumbers == \A path \in Paths : Lines[path] \in SUBSET Nat /\ IsFiniteSet(Lines[path])
BY ChangesAssumption DEF Paths

\* Of finitely many numbers one is the largest.
LEMMA MaxIsOne ==
    ASSUME NEW S \in SUBSET Int, IsFiniteSet(S), S # {}
    PROVE  Max(S) \in S
<1> PICK size, at : size = Cardinality(S) /\ at = Place(S)
  OBVIOUS
<1>1. /\ size \in Nat /\ at \in [1..size -> S]
      /\ \A m, n \in 1..size : m < n => at[m] < at[n]
      /\ \A i \in S : \E n \in 1..size : at[n] = i
  BY PlacesAreInOrder
<1>2. size \in 1..size /\ \A n \in 1..size : n \in Int /\ (n = size \/ n < size)
  <2>1. PICK i : i \in S
    OBVIOUS
  <2>2. \E n \in 1..size : at[n] = i
    BY <1>1, <2>1
  <2> QED BY <1>1, <2>2
<1>3. at[size] \in S /\ at[size] \in Int
  BY <1>1, <1>2
<1>4. \A i \in S : at[size] >= i
  <2> SUFFICES ASSUME NEW i \in S PROVE at[size] >= i
    OBVIOUS
  <2>1. PICK n \in 1..size : at[n] = i
    BY <1>1
  <2>2. at[n] \in Int /\ (n = size \/ at[n] < at[size])
    BY <1>1, <1>2, <1>3, <2>1
  <2> QED BY <1>3, <2>1, <2>2
<1> QED BY <1>3, <1>4 DEF Max

\* There is one at each position.
LEMMA OneAtEach ==
    ASSUME NEW S \in SUBSET Int, IsFiniteSet(S), NEW n \in 1..Cardinality(S)
    PROVE  At(S, {n}) # {}
<1> PICK i : i = Place(S)[n]
  OBVIOUS
<1>1. Cardinality(S) \in Nat /\ i \in S /\ Cardinality({j \in S : j < i}) = n - 1
  BY PlacesAreInOrder
<1> PICK less, upto : less = {j \in S : j < i} /\ upto = {j \in S : j <= i}
  OBVIOUS
<1>2. upto = less \cup {i} /\ i \notin less /\ less \subseteq S
  <2>1. i \in Int /\ \A j \in S : j \in Int
    BY <1>1
  <2>2. \A j \in S : (j <= i <=> j < i \/ j = i) /\ ~(i < i)
    BY <2>1
  <2>3. i \notin less
    BY <1>1, <2>2
  <2>4. upto = less \cup {i}
    BY <1>1, <2>2
  <2> QED BY <2>3, <2>4
<1>3. IsFiniteSet(less)
  BY <1>2, FS_Subset
<1>4. Cardinality(upto) = Cardinality(less) + 1
  BY <1>2, <1>3, FS_AddElement
<1>5. Cardinality(upto) = n
  BY <1>1, <1>4
<1>6. Cardinality({j \in S : j <= i}) = n
  BY <1>5
<1> QED BY <1>1, <1>6 DEF At

\* The row that takes the place of the one that left is one of those there are.
LEMMA HeirIsThere ==
    ASSUME NEW pressed \in Presses, NEW files \in SUBSET Paths, files # {}
    PROVE  Heir(pressed, files) \in files
<1>1. files \in SUBSET Int /\ IsFiniteSet(files) /\ Cardinality(files) \in Nat
  BY PathsAreNumbers, FS_CardinalityType
<1>2. pressed.at \in Nat \ {0}
  BY DEF Presses
<1>3. CASE pressed.at < Cardinality(files)
  <2>1. pressed.at \in 1..Cardinality(files)
    BY <1>1, <1>2, <1>3
  <2>2. At(files, {pressed.at}) # {} /\ At(files, {pressed.at}) \subseteq files
    BY <1>1, <2>1, OneAtEach DEF At
  <2>3. IsFiniteSet(At(files, {pressed.at})) /\ At(files, {pressed.at}) \in SUBSET Int
    BY <1>1, <2>2, FS_Subset
  <2>4. Max(At(files, {pressed.at})) \in At(files, {pressed.at})
    BY <2>2, <2>3, MaxIsOne
  <2> QED BY <1>3, <2>2, <2>4 DEF Heir
<1>4. CASE ~(pressed.at < Cardinality(files))
  <2>1. Max(files) \in files
    BY <1>1, MaxIsOne
  <2> QED BY <1>4, <2>1 DEF Heir
<1> QED BY <1>3, <1>4

\* Positions in, positions out.
LEMMA AtOthers ==
    ASSUME NEW diff, NEW was, NEW is
    PROVE  (At(diff, was) \ At(diff, was \ is)) \cup At(diff, is \ was) = At(diff, is)
BY DEF At

LEMMA ChangedAre ==
    ASSUME NEW diff, IsFiniteSet(diff)
    PROVE  \E n \in Nat : ChangedLines(diff) = 1..n
BY FS_CardinalityType, ChangesAssumption DEF ChangedLines

-----------------------------------------------------------------------------
(* Of what is drawn. *)

\* The row on screen is a row, and its diff is of lines.
LEMMA CurrentIs ==
    ASSUME Data
    PROVE  /\ Current \in RowsAt \cup {None}
           /\ Current = None => Diff = None
           /\ Current # None => /\ Current.path \in Paths /\ Current.row \in Rows
                                /\ Key(Current) \in Keys /\ Key(Current)[1] = Current.path
                                /\ Diff = None \/ Diff \in SUBSET Lines[Current.path]
           /\ Diff # None => Diff \in SUBSET Nat /\ IsFiniteSet(Diff)
<1>1. Current \in RowsAt \cup {None}
  <2>1. CASE selected = None
    BY <2>1 DEF Current
  <2>2. CASE selected # None
    <3>1. selected \in RowsAt /\ Other(selected.row) \in Rows
      BY <2>2 DEF Data, Other, Rows
    <3>2. [selected EXCEPT !.row = Other(@)] \in RowsAt
      BY <3>1 DEF RowsAt
    <3> QED BY <3>1, <3>2 DEF Current
  <2> QED BY <2>1, <2>2
<1>2. Current = None => Diff = None
  BY DEF Diff
<1>3. ASSUME Current # None
      PROVE  /\ Current.path \in Paths /\ Current.row \in Rows
             /\ Key(Current) \in Keys /\ Key(Current)[1] = Current.path
             /\ Diff = None \/ Diff \in SUBSET Lines[Current.path]
  <2>1. Current.path \in Paths /\ Current.row \in Rows
    BY <1>1, <1>3 DEF RowsAt
  <2>2. Key(Current) \in Keys /\ Key(Current)[1] = Current.path
    BY <2>1 DEF Key, Keys
  <2>3. Diff = diffs[Key(Current)]
    BY <1>3 DEF Diff
  <2> QED BY <2>1, <2>2, <2>3 DEF Data
<1>4. Diff # None => Diff \in SUBSET Nat /\ IsFiniteSet(Diff)
  <2> SUFFICES ASSUME Diff # None PROVE Diff \in SUBSET Nat /\ IsFiniteSet(Diff)
    OBVIOUS
  <2>1. Current.path \in Paths /\ Diff \in SUBSET Lines[Current.path]
    BY <1>2, <1>3
  <2> PICK lines : lines = Lines[Current.path]
    OBVIOUS
  <2>2. lines \in SUBSET Nat /\ IsFiniteSet(lines)
    BY <2>1, LinesAreNumbers
  <2> QED BY <2>1, <2>2, FS_Subset
<1> QED BY <1>1, <1>2, <1>3, <1>4

LEMMA NothingIsGood == Good(Nowhere)
BY DEF Good, Nowhere, At

LEMMA ChoiceIsGood == ASSUME Meanings, seenDiff # None PROVE Good(Choice)
BY DEF Meanings

\* A choice that is changed still stands for the lines that are meant.
LEMMA ChosenIsGood ==
    ASSUME Meanings, seenDiff # None, NEW indices \in SUBSET ChangedLines(Diff), NEW from \in ChangedLines(Diff)
    PROVE  Good(Chosen(indices, from))
<1>1. meant = At(Diff, chosen)
  BY DEF Meanings, Good, Choice
<1>2. Chosen(indices, from).meant = At(Diff, indices)
  BY <1>1, AtOthers DEF Chosen
<1>3. Chosen(indices, from).chosen = indices /\ Chosen(indices, from).anchor = from
  BY DEF Chosen
<1> QED BY <1>2, <1>3 DEF Good

\* What is drawn again keeps what was chosen as long as its diff is the same.
LEMMA ShownKeeps ==
    ASSUME Drawn, NEW choice, seenDiff # None => Good(choice), Shown(choice)
    PROVE  Drawn' /\ Meanings'
<1> PICK id : id = IF Diff' = None \/ Diff' = {} THEN None ELSE <<Key(Current'), Diff'>>
  OBVIOUS
<1> PICK kept : kept = IF id = None \/ id # seenDiff THEN Nowhere ELSE choice
  OBVIOUS
<1>1. seenDiff' = id /\ chosen' = kept.chosen /\ anchor' = kept.anchor /\ meant' = kept.meant
  BY DEF Shown
<1>2. Key(Current)' = Key(Current')
  BY DEF Key
<1>3. Drawn'
  BY <1>1, <1>2 DEF Drawn
<1>4. CASE id = None \/ id # seenDiff
  <2>1. chosen' = {} /\ anchor' = None /\ meant' = {}
    BY <1>1, <1>4 DEF Nowhere
  <2>2. Meanings'
    BY <2>1 DEF Meanings, Good, Choice, At
  <2> QED BY <1>3, <2>2
<1>5. CASE id # None /\ id = seenDiff
  <2>1. seenDiff = <<Key(Current), Diff>> /\ id = <<Key(Current'), Diff'>>
    BY <1>5 DEF Drawn
  <2>2. Diff' = Diff
    BY <1>5, <2>1
  <2>3. chosen' = choice.chosen /\ anchor' = choice.anchor /\ meant' = choice.meant
    BY <1>1, <1>5
  <2>4. Good(choice) /\ seenDiff' # None
    BY <1>1, <1>5
  <2>5. Meanings'
    BY <2>2, <2>3, <2>4 DEF Meanings, Good, Choice
  <2> QED BY <1>3, <2>5
<1> QED BY <1>4, <1>5

-----------------------------------------------------------------------------
(* Of the keyboard. *)

\* Presses on their way, and one of a row that is drawn.
Pressing(pressed) ==
    /\ pressed \in [Rows -> Presses \cup {None}]
    /\ \A row \in Rows : pressed[row] # None => Gone(row) \/ pressed[row].path \in ListedNow(row)

\* The row that takes the keyboard is one that is listed; nothing takes it from
\* what has it and is still there.
LEMMA HandsTake ==
    ASSUME Keyboard, Data', NEW at \in RowsAt \cup {None, Elsewhere}, NEW pressed, Hands(at, pressed)
    PROVE  \/ /\ focus' = at /\ at # None
              /\ at # Elsewhere => at.path \in ListedNow(at.row)
              /\ focusedPath' = focusedPath
           \/ /\ focus' = None /\ focusedPath' = focusedPath /\ at # Elsewhere
              /\ at # None => at.path \notin ListedNow(at.row)
              /\ \A row \in Rows : Gone(row) => ListedNow(row) = {}
           \/ /\ at # Elsewhere
              /\ at # None => at.path \notin ListedNow(at.row)
              /\ \E row \in Rows, path \in Paths :
                    /\ Gone(row) /\ path \in ListedNow(row)
                    /\ focus' = [row |-> row, path |-> path]
                    /\ focusedPath' = [focusedPath EXCEPT ![row] = path]
<1> PICK heirs : heirs = {row \in Rows : Gone(row) /\ ListedNow(row) # {}}
  OBVIOUS
<1> PICK kept : kept = IF at \notin {None, Elsewhere} /\ at.path \notin ListedNow(at.row) THEN None ELSE at
  OBVIOUS
<1> PICK taker : taker = IF kept = None /\ heirs # {} THEN CHOOSE row \in heirs : TRUE ELSE None
  OBVIOUS
<1> PICK heir : heir = Heir(acted[taker], ListedNow(taker))
  OBVIOUS
<1>1. /\ focus' = IF taker = None THEN kept ELSE [row |-> taker, path |-> heir]
      /\ focusedPath' = IF taker = None THEN focusedPath ELSE [focusedPath EXCEPT ![taker] = heir]
  BY DEF Hands
<1>2. None \notin Rows /\ Elsewhere # None
  <2>1. Elsewhere \in [row : Rows \cup {None}, path : Paths \cup {None}]
    BY DEF Elsewhere
  <2> QED BY <2>1, ChangesAssumption
<1>3. CASE kept # None
  <2>1. taker = None /\ kept = at
    BY <1>3
  <2> QED BY <1>1, <1>3, <2>1
<1>4. CASE kept = None /\ heirs = {}
  <2>1. taker = None /\ focus' = None /\ focusedPath' = focusedPath
    BY <1>1, <1>4
  <2>2. \A row \in Rows : Gone(row) => ListedNow(row) = {}
    BY <1>4
  <2>3. at # Elsewhere /\ (at # None => at.path \notin ListedNow(at.row))
    BY <1>2, <1>4, SMTT(30)
  <2> QED BY <2>1, <2>2, <2>3
<1>5. CASE kept = None /\ heirs # {}
  <2>1. taker \in heirs
    BY <1>5
  <2>2. taker \in Rows /\ Gone(taker) /\ ListedNow(taker) # {} /\ taker # None
    BY <1>2, <2>1, SMTT(30)
  <2>3. ListedNow(taker) \in SUBSET Paths
    BY <2>2, SMTT(30) DEF ListedNow, Data
  <2>4. acted[taker] \in Presses
    BY <2>2 DEF Gone, Keyboard
  <2>5. heir \in ListedNow(taker)
    BY <2>2, <2>3, <2>4, HeirIsThere
  <2>6. focus' = [row |-> taker, path |-> heir] /\ focusedPath' = [focusedPath EXCEPT ![taker] = heir]
    BY <1>1, <2>2
  <2>7. at # Elsewhere /\ (at # None => at.path \notin ListedNow(at.row))
    BY <1>2, <1>5
  <2> QED BY <2>2, <2>3, <2>5, <2>6, <2>7
<1> QED BY <1>3, <1>4, <1>5

LEMMA HandsKeeps ==
    ASSUME Keyboard, Data', NEW at \in RowsAt \cup {None, Elsewhere}, NEW pressed, Pressing(pressed),
           Hands(at, pressed), pendingDiscard' # None => at = Elsewhere
    PROVE  Keyboard'
<1>1. acted' = [row \in Rows |-> IF Gone(row) \/ ~Busy' THEN None ELSE pressed[row]]
  BY DEF Hands
<1>2. acted' \in [Rows -> Presses \cup {None}]
  BY <1>1 DEF Pressing
<1>3. \A row \in Rows : acted'[row] # None =>
         Busy' /\ ~Gone(row) /\ acted'[row] = pressed[row]
  BY <1>1
<1>4. \A row \in Rows : Listed(row)' = ListedNow(row)
  BY DEF Listed, ListedNow
<1>5. \A row \in Rows : acted'[row] # None => Busy' /\ acted'[row].path \in Listed(row)'
  BY <1>3, <1>4 DEF Pressing
<1>6. focus' \in RowsAt \cup {None, Elsewhere} /\ focusedPath' \in [Rows -> Paths \cup {None}]
  <2>1. focusedPath \in [Rows -> Paths \cup {None}]
    BY DEF Keyboard
  <2>2. CASE focus' \in {at, None} /\ focusedPath' = focusedPath
    BY <2>1, <2>2
  <2>3. ASSUME NEW row \in Rows, NEW path \in Paths, focus' = [row |-> row, path |-> path],
               focusedPath' = [focusedPath EXCEPT ![row] = path]
        PROVE  focus' \in RowsAt /\ focusedPath' \in [Rows -> Paths \cup {None}]
    BY <2>1, <2>3 DEF RowsAt
  <2> QED BY <2>2, <2>3, HandsTake
<1>7. pendingDiscard' # None => focus' = Elsewhere
  <2>1. Elsewhere # None
    <3>1. Elsewhere \in [row : Rows \cup {None}, path : Paths \cup {None}]
      BY DEF Elsewhere
    <3> QED BY <3>1, ChangesAssumption
  <2> SUFFICES ASSUME pendingDiscard' # None PROVE focus' = Elsewhere
    OBVIOUS
  <2>2. at = Elsewhere
    OBVIOUS
  <2> QED BY <2>1, <2>2, HandsTake
<1> QED BY <1>2, <1>5, <1>6, <1>7 DEF Keyboard

-----------------------------------------------------------------------------
(* What a step that draws again keeps. *)

LEMMA ElsewhereIs == Elsewhere # None
<1>1. Elsewhere \in [row : Rows \cup {None}, path : Paths \cup {None}]
  BY DEF Elsewhere
<1> QED BY <1>1, ChangesAssumption

LEMMA ActedPress == Keyboard => Pressing(acted)
BY DEF Keyboard, Pressing, Gone

LEMMA Redrawn ==
    ASSUME ChangesInv, Data', Asking', NEW choice, seenDiff # None => Good(choice), Shown(choice),
           NEW at \in RowsAt \cup {None, Elsewhere}, NEW pressed, Pressing(pressed), Hands(at, pressed),
           pendingDiscard' # None => at = Elsewhere
    PROVE  ChangesInv'
<1>1. Drawn' /\ Meanings'
  BY ShownKeeps DEF ChangesInv
<1>2. Keyboard'
  BY HandsKeeps DEF ChangesInv
<1> QED BY <1>1, <1>2 DEF ChangesInv

LEMMA DrawnAgain ==
    ASSUME ChangesInv, Data', Asking', Shown(Choice),
           NEW at \in RowsAt \cup {None, Elsewhere}, Hands(at, acted),
           pendingDiscard' # None => at = Elsewhere
    PROVE  ChangesInv'
<1>1. seenDiff # None => Good(Choice)
  BY ChoiceIsGood DEF ChangesInv
<1>2. Pressing(acted)
  BY ActedPress DEF ChangesInv
<1> QED BY <1>1, <1>2, Redrawn

LEMMA ReadingData ==
    ASSUME Data, UNCHANGED <<work, status, diffs>>, selected' \in RowsAt \cup {None}, filter' \in SUBSET Paths
    PROVE  Data'
BY DEF Data

\* The row of a list that Tab reaches, or that is clicked.
LEMMA FocusedKeeps ==
    ASSUME ChangesInv, Data', NEW row \in Rows, NEW path \in Listed(row), pendingDiscard = None,
           UNCHANGED <<status, filter, operation, pendingDiscard, acted>>, Shown(Choice),
           focus' = [row |-> row, path |-> path], focusedPath' = [focusedPath EXCEPT ![row] = path]
    PROVE  ChangesInv'
<1>1. Drawn' /\ Meanings'
  BY ChoiceIsGood, ShownKeeps DEF ChangesInv
<1>2. path \in Paths
  BY DEF ChangesInv, Data, Listed
<1>3. focus' \in RowsAt
  BY <1>2 DEF RowsAt
<1>4. focusedPath' \in [Rows -> Paths \cup {None}]
  BY <1>2 DEF ChangesInv, Keyboard
<1>5. Busy' = Busy /\ \A r \in Rows : Listed(r)' = Listed(r)
  BY DEF Busy, Listed
<1>6. Keyboard'
  BY <1>3, <1>4, <1>5 DEF ChangesInv, Keyboard
<1>7. Asking'
  BY DEF ChangesInv, Asking, Meant
<1> QED BY <1>1, <1>6, <1>7 DEF ChangesInv

\* Of a list of paths one is the first.
LEMMA MinIsOne ==
    ASSUME NEW S \in SUBSET Int, IsFiniteSet(S), S # {}
    PROVE  Min(S) \in S
<1> PICK size, at : size = Cardinality(S) /\ at = Place(S)
  OBVIOUS
<1>1. /\ size \in Nat /\ at \in [1..size -> S]
      /\ \A m, n \in 1..size : m < n => at[m] < at[n]
      /\ \A i \in S : \E n \in 1..size : at[n] = i
  BY PlacesAreInOrder
<1>2. 1 \in 1..size /\ \A n \in 1..size : n \in Int /\ (n = 1 \/ 1 < n)
  <2>1. PICK i : i \in S
    OBVIOUS
  <2>2. \E n \in 1..size : at[n] = i
    BY <1>1, <2>1
  <2> QED BY <1>1, <2>2
<1>3. at[1] \in S /\ at[1] \in Int
  BY <1>1, <1>2
<1>4. \A i \in S : at[1] =< i
  <2> SUFFICES ASSUME NEW i \in S PROVE at[1] =< i
    OBVIOUS
  <2>1. PICK n \in 1..size : at[n] = i
    BY <1>1
  <2>2. at[n] \in Int /\ (n = 1 \/ at[1] < at[n])
    BY <1>1, <1>2, <1>3, <2>1
  <2> QED BY <1>3, <2>1, <2>2
<1> QED BY <1>3, <1>4 DEF Min

LEMMA FirstIs ==
    ASSUME NEW lists \in [Rows -> SUBSET Paths]
    PROVE  FirstToShow(lists) \in RowsAt \cup {None}
<1>1. {"unstaged", "staged"} \subseteq Rows
  BY DEF Rows
<1>2. ASSUME NEW row \in Rows
      PROVE  lists[row] \in SUBSET Int /\ IsFiniteSet(lists[row]) /\ lists[row] \in SUBSET Paths
  <2> PICK list : list = lists[row]
    OBVIOUS
  <2>1. list \in SUBSET Paths
    OBVIOUS
  <2>2. IsFiniteSet(list)
    BY <2>1, PathsAreNumbers
  <2>3. list \in SUBSET Int
    <3>1. \A path \in Paths : path \in Int
      BY PathsAreNumbers
    <3> QED BY <2>1, <3>1
  <2> QED BY <2>1, <2>2, <2>3
<1>3. \A row \in Rows : lists[row] # {} => Min(lists[row]) \in Paths
  BY <1>2, MinIsOne
<1>4. CASE lists["unstaged"] # {}
  <2>1. FirstToShow(lists) = [path |-> Min(lists["unstaged"]), row |-> "unstaged"]
    BY <1>4 DEF FirstToShow
  <2> QED BY <1>1, <1>3, <1>4, <2>1 DEF RowsAt
<1>5. CASE lists["unstaged"] = {} /\ lists["staged"] # {}
  <2>1. FirstToShow(lists) = [path |-> Min(lists["staged"]), row |-> "staged"]
    BY <1>5 DEF FirstToShow
  <2> QED BY <1>1, <1>3, <1>5, <2>1 DEF RowsAt
<1>6. CASE lists["unstaged"] = {} /\ lists["staged"] = {}
  BY <1>6 DEF FirstToShow
<1> QED BY <1>4, <1>5, <1>6

LEMMA StatusIs == StatusNow \in [Rows -> SUBSET Paths]
BY DEF StatusNow

\* The lists are read again, and a file is opened if none was.
LEMMA OpeningData ==
    ASSUME Data, UNCHANGED <<work, diffs, filter>>, status' \in [Rows -> SUBSET Paths], Opening
    PROVE  Data'
<1>1. selected' \in RowsAt \cup {None}
  BY FirstIs DEF Opening, Data
<1> QED BY <1>1 DEF Data

-----------------------------------------------------------------------------
(* Choosing. *)

LEMMA SelectKeeps ==
    ASSUME ChangesInv, NEW row \in Rows, NEW path \in Paths, Select(row, path)
    PROVE  ChangesInv'
<1>1. /\ path \in Listed(row) /\ pendingDiscard = None
      /\ UNCHANGED <<work, status, diffs, filter, operation, pendingDiscard, acted>> /\ Shown(Choice)
      /\ focus' = [row |-> row, path |-> path] /\ focusedPath' = [focusedPath EXCEPT ![row] = path]
      /\ selected' = [path |-> path, row |-> row]
  BY DEF Select, Reading
<1>2. selected' \in RowsAt
  BY <1>1 DEF RowsAt
<1>3. Data'
  BY <1>1, <1>2, ReadingData DEF ChangesInv, Data
<1> QED BY <1>1, <1>3, FocusedKeeps

LEMMA MoveFocusKeeps ==
    ASSUME ChangesInv, NEW row \in Rows, NEW path \in Paths, MoveFocus(row, path)
    PROVE  ChangesInv'
<1>1. /\ path \in Listed(row) /\ pendingDiscard = None
      /\ UNCHANGED <<work, status, diffs, selected, filter, operation, pendingDiscard, acted>> /\ Shown(Choice)
      /\ focus' = [row |-> row, path |-> path] /\ focusedPath' = [focusedPath EXCEPT ![row] = path]
  BY DEF MoveFocus, Reading
<1>2. Data'
  BY <1>1, ReadingData DEF ChangesInv, Data
<1> QED BY <1>1, <1>2, FocusedKeeps

LEMMA FilterKeeps ==
    ASSUME ChangesInv, NEW paths \in SUBSET Paths, Filter(paths)
    PROVE  ChangesInv'
<1>1. /\ UNCHANGED <<work, status, diffs, selected, operation, pendingDiscard>> /\ filter' = paths
      /\ Shown(Choice) /\ Hands(Elsewhere, acted)
  BY DEF Filter, Reading
<1>2. Data'
  BY <1>1, ReadingData DEF ChangesInv, Data
<1>3. Asking'
  BY <1>1 DEF ChangesInv, Asking, Meant
<1> QED BY <1>1, <1>2, <1>3, DrawnAgain

LEMMA ToggleKeeps ==
    ASSUME ChangesInv, NEW index \in 1..MaxDrawn, NEW extend \in BOOLEAN, Toggle(index, extend)
    PROVE  ChangesInv'
<1> PICK indices : indices =
        IF extend /\ anchor # None
        THEN chosen \cup (IF anchor < index THEN anchor..index ELSE index..anchor)
        ELSE IF index \in chosen THEN chosen \ {index} ELSE chosen \cup {index}
  OBVIOUS
<1>1. /\ UNCHANGED <<work, status, diffs, selected, filter, operation, pendingDiscard>>
      /\ seenDiff # None /\ index \in ChangedLines(Diff) /\ pendingDiscard = None
      /\ Shown(Chosen(indices, index)) /\ Hands(Elsewhere, acted)
  BY DEF Toggle, Reading
<1>2. chosen \subseteq ChangedLines(Diff) /\ (anchor # None => anchor \in ChangedLines(Diff))
  BY <1>1 DEF ChangesInv, Meanings, Good, Choice
<1>3. PICK n \in Nat : ChangedLines(Diff) = 1..n
  <2>1. Diff # None
    BY <1>1 DEF ChangesInv, Drawn
  <2> QED BY <2>1, CurrentIs, ChangedAre DEF ChangesInv
<1>4. indices \in SUBSET ChangedLines(Diff)
  <2>1. CASE extend /\ anchor # None
    <3>1. anchor \in 1..n /\ index \in 1..n
      BY <1>1, <1>2, <1>3, <2>1
    <3>2. anchor..index \subseteq 1..n /\ index..anchor \subseteq 1..n
      BY <1>3, <3>1
    <3> QED BY <1>2, <1>3, <2>1, <3>2
  <2>2. CASE ~(extend /\ anchor # None)
    BY <1>1, <1>2, <2>2
  <2> QED BY <2>1, <2>2
<1>5. Good(Chosen(indices, index))
  BY <1>1, <1>4, ChosenIsGood DEF ChangesInv
<1>6. Data' /\ Asking'
  BY <1>1, ReadingData DEF ChangesInv, Data, Asking, Meant
<1>7. Pressing(acted)
  BY ActedPress DEF ChangesInv
<1> QED BY <1>1, <1>5, <1>6, <1>7, Redrawn

LEMMA MoveAnchorKeeps ==
    ASSUME ChangesInv, NEW index \in 1..MaxDrawn, MoveAnchor(index)
    PROVE  ChangesInv'
<1>1. /\ UNCHANGED <<work, status, diffs, selected, filter, operation, pendingDiscard>>
      /\ seenDiff # None /\ index \in ChangedLines(Diff)
      /\ Shown(Chosen(chosen, index)) /\ Hands(Elsewhere, acted)
  BY DEF MoveAnchor, Reading
<1>2. chosen \in SUBSET ChangedLines(Diff)
  BY <1>1 DEF ChangesInv, Meanings, Good, Choice
<1>3. Good(Chosen(chosen, index))
  BY <1>1, <1>2, ChosenIsGood DEF ChangesInv
<1>4. Data' /\ Asking'
  BY <1>1, ReadingData DEF ChangesInv, Data, Asking, Meant
<1>5. Pressing(acted)
  BY ActedPress DEF ChangesInv
<1> QED BY <1>1, <1>3, <1>4, <1>5, Redrawn

LEMMA ClearKeeps ==
    ASSUME ChangesInv, Clear
    PROVE  ChangesInv'
<1>1. /\ UNCHANGED <<work, status, diffs, selected, filter, operation, pendingDiscard>>
      /\ Shown(Nowhere) /\ Hands(Elsewhere, acted)
  BY DEF Clear, Reading
<1>2. Data' /\ Asking'
  BY <1>1, ReadingData DEF ChangesInv, Data, Asking, Meant
<1>3. Pressing(acted)
  BY ActedPress DEF ChangesInv
<1> QED BY <1>1, <1>2, <1>3, NothingIsGood, Redrawn

LEMMA LeaveKeeps ==
    ASSUME ChangesInv, Leave
    PROVE  ChangesInv'
<1>1. /\ UNCHANGED <<work, status, diffs, selected, filter, operation, pendingDiscard>>
      /\ Shown(Choice) /\ Hands(Elsewhere, acted)
  BY DEF Leave, Reading
<1>2. Data' /\ Asking'
  BY <1>1, ReadingData DEF ChangesInv, Data, Asking, Meant
<1> QED BY <1>1, <1>2, DrawnAgain

-----------------------------------------------------------------------------
(* Acting on it. *)

\* What is asked, of whole files.
LEMMA RequestIs ==
    ASSUME NEW kind \in {"stage", "unstage", "discard"}, NEW paths \in SUBSET Paths
    PROVE  Meant(Request(kind, paths, None, {}))
<1>1. (kind = "discard") \in BOOLEAN
  OBVIOUS
<1>2. Request(kind, paths, None, {}) \in Requests /\ Request(kind, paths, None, {}).lines = None
  BY <1>1 DEF Request, Requests
<1> QED BY <1>2 DEF Meant

LEMMA AskKeeps ==
    ASSUME ChangesInv, NEW wanted, Meant(wanted), NEW choice, seenDiff # None => Good(choice),
           NEW at \in RowsAt \cup {None, Elsewhere}, NEW pressed, Pressing(pressed),
           Ask(wanted, choice, at, pressed)
    PROVE  ChangesInv'
<1>1. /\ UNCHANGED <<work, status, diffs, selected, filter, pendingDiscard>> /\ operation' = wanted
      /\ operation = None /\ pendingDiscard = None
      /\ Shown(choice) /\ Hands(at, pressed)
  BY DEF Ask, Reading, Busy
<1>2. Data' /\ Asking'
  BY <1>1, ReadingData DEF ChangesInv, Data, Asking, Meant
<1> QED BY <1>1, <1>2, Redrawn

LEMMA ActOnRowKeeps ==
    ASSUME ChangesInv, NEW row \in Rows, NEW path \in Paths, NEW kind \in {"stage", "unstage", "discard"},
           ActOnRow(row, path, kind)
    PROVE  ChangesInv'
<1> PICK above : above = {p \in Listed(row) : p <= path}
  OBVIOUS
<1> PICK pressed : pressed = [acted EXCEPT ![row] = [path |-> path, at |-> Cardinality(above)]]
  OBVIOUS
<1>1. path \in Listed(row) /\ Ask(Request(kind, {path}, None, {}), Choice, None, pressed)
  BY DEF ActOnRow
<1>2. Cardinality(above) \in Nat \ {0}
  <2>1. Listed(row) \in SUBSET Paths
    BY DEF Listed, ChangesInv, Data
  <2>2. above \in SUBSET Paths /\ path \in above
    <3>1. path \in Int
      BY PathsAreNumbers
    <3> QED BY <1>1, <2>1, <3>1
  <2>3. IsFiniteSet(above)
    BY <2>2, PathsAreNumbers
  <2> QED BY <2>2, <2>3, FS_CardinalityType, FS_EmptySet
<1>3. [path |-> path, at |-> Cardinality(above)] \in Presses
  BY <1>2 DEF Presses
<1>4. UNCHANGED <<status, filter>>
  BY <1>1 DEF Ask, Reading
<1>5. pressed \in [Rows -> Presses \cup {None}]
  BY <1>3 DEF ChangesInv, Keyboard
<1>6. pressed[row].path = path /\ \A r \in Rows : r # row => pressed[r] = acted[r]
  BY DEF ChangesInv, Keyboard
<1>7. ListedNow(row) = Listed(row)
  BY <1>4 DEF ListedNow, Listed
<1>8. Pressing(pressed)
  BY <1>1, <1>5, <1>6, <1>7 DEF Pressing, Gone
<1>9. seenDiff # None => Good(Choice)
  BY ChoiceIsGood DEF ChangesInv
<1>10. Meant(Request(kind, {path}, None, {}))
  BY RequestIs
<1> QED BY <1>1, <1>8, <1>9, <1>10, AskKeeps

LEMMA ActOnAllKeeps ==
    ASSUME ChangesInv, NEW row \in Rows, NEW kind \in {"stage", "unstage", "discard"}, ActOnAll(row, kind)
    PROVE  ChangesInv'
<1>1. Listed(row) \in SUBSET Paths
  BY DEF Listed, ChangesInv, Data
<1>2. Meant(Request(kind, Listed(row), None, {}))
  BY <1>1, RequestIs
<1>3. seenDiff # None => Good(Choice)
  BY ChoiceIsGood DEF ChangesInv
<1>4. Pressing(acted)
  BY ActedPress DEF ChangesInv
<1> QED BY <1>2, <1>3, <1>4, AskKeeps DEF ActOnAll

\* Of lines: what is chosen is what is meant.
LEMMA ActOnLinesKeeps ==
    ASSUME ChangesInv, NEW indices \in SUBSET ChangedLines(Diff), NEW kind \in {"stage", "unstage", "discard"},
           seenDiff # None, ActOnLines(indices, kind)
    PROVE  ChangesInv'
<1> PICK choice : choice = IF kind = "discard" THEN Choice ELSE Nowhere
  OBVIOUS
<1> PICK lost : lost = IF indices = chosen THEN meant ELSE At(Diff, indices)
  OBVIOUS
<1> PICK lines : lines = [diff |-> Diff, indices |-> indices]
  OBVIOUS
<1>1. /\ Current # None
      /\ Ask(Request(kind, {Current.path}, lines, lost), choice, Elsewhere, acted)
  BY DEF ActOnLines
<1>2. lost = At(Diff, indices) /\ Good(Choice)
  <2>1. Good(Choice)
    BY ChoiceIsGood DEF ChangesInv
  <2>2. meant = At(Diff, chosen)
    BY <2>1 DEF Good, Choice
  <2> QED BY <2>1, <2>2
<1>3. Diff # None
  BY DEF ChangesInv, Drawn
<1>4. Diff \in SUBSET Nat /\ IsFiniteSet(Diff) /\ Current.path \in Paths
  BY <1>1, <1>3, CurrentIs DEF ChangesInv
<1>5. indices \in SUBSET Nat /\ lost \in SUBSET Nat
  <2>1. PICK n \in Nat : ChangedLines(Diff) = 1..n
    BY <1>4, ChangedAre
  <2>2. indices \in SUBSET Nat
    BY <2>1
  <2>3. At(Diff, indices) \subseteq Diff
    BY DEF At
  <2>4. lost \in SUBSET Nat
    BY <1>2, <1>4, <2>3
  <2> QED BY <2>2, <2>4
<1> PICK wanted : wanted = Request(kind, {Current.path}, lines, lost)
  OBVIOUS
<1>6. /\ wanted \in Requests
      /\ wanted.lines = lines /\ wanted.meant = lost
  <2>1. (kind = "discard") \in BOOLEAN /\ {Current.path} \in SUBSET Paths
    BY <1>4
  <2>2. lines \in [diff : SUBSET Nat, indices : SUBSET Nat]
    BY <1>4, <1>5
  <2> QED BY <1>5, <2>1, <2>2 DEF Request, Requests
<1>7. Meant(wanted)
  BY <1>2, <1>6 DEF Meant
<1>8. Good(choice) /\ Pressing(acted)
  BY <1>2, NothingIsGood, ActedPress DEF ChangesInv
<1> QED BY <1>1, <1>7, <1>8, AskKeeps

LEMMA ActOnChosenKeeps ==
    ASSUME ChangesInv, ActOnChosen
    PROVE  ChangesInv'
<1>1. seenDiff # None /\ \E kind \in {"stage", "unstage", "discard"} : ActOnLines(chosen, kind)
  BY DEF ActOnChosen
<1>2. chosen \in SUBSET ChangedLines(Diff)
  BY <1>1, ChoiceIsGood DEF ChangesInv, Good, Choice
<1> QED BY <1>1, <1>2, ActOnLinesKeeps

LEMMA ActOnHunkKeeps ==
    ASSUME ChangesInv, ActOnHunk
    PROVE  ChangesInv'
<1>1. PICK index \in ChangedLines(Diff), kind \in {"stage", "unstage", "discard"} :
         ActOnLines(Hunk(Diff, index), kind)
  BY DEF ActOnHunk
<1>2. Hunk(Diff, index) \in SUBSET ChangedLines(Diff)
  BY DEF Hunk
<1>3. seenDiff # None
  BY DEF ActOnHunk
<1> QED BY <1>1, <1>2, <1>3, ActOnLinesKeeps

\* The question is put in place of the request, with what it asked about.
LEMMA ProposeKeeps ==
    ASSUME ChangesInv, Propose
    PROVE  ChangesInv'
<1>1. /\ UNCHANGED <<work, status, diffs, selected, filter>> /\ operation' = None
      /\ operation # None /\ pendingDiscard' = [operation EXCEPT !.plan = FALSE]
      /\ Shown(Choice) /\ Hands(Elsewhere, acted)
  BY DEF Propose, Reading
<1>2. Meant(pendingDiscard')
  <2>1. operation \in Requests
    BY <1>1 DEF ChangesInv, Asking, Meant
  <2>2. /\ pendingDiscard' \in Requests
        /\ pendingDiscard'.lines = operation.lines /\ pendingDiscard'.meant = operation.meant
    BY <1>1, <2>1 DEF Requests
  <2> QED BY <1>1, <2>2 DEF ChangesInv, Asking, Meant
<1>3. Asking'
  BY <1>1, <1>2 DEF Asking, Meant
<1>4. Data'
  BY <1>1, ReadingData DEF ChangesInv, Data
<1> QED BY <1>1, <1>3, <1>4, DrawnAgain

LEMMA ConfirmDiscardKeeps ==
    ASSUME ChangesInv, ConfirmDiscard
    PROVE  ChangesInv'
<1>1. /\ UNCHANGED <<work, status, diffs, selected, filter, pendingDiscard>> /\ operation' = pendingDiscard
      /\ pendingDiscard # None /\ Shown(Choice) /\ Hands(focus, acted)
  BY DEF ConfirmDiscard, Reading, Draw
<1>2. Data' /\ Asking'
  BY <1>1, ReadingData DEF ChangesInv, Data, Asking, Meant
<1>3. focus = Elsewhere
  BY <1>1 DEF ChangesInv, Keyboard
<1> QED BY <1>1, <1>2, <1>3, DrawnAgain

LEMMA CancelDiscardKeeps ==
    ASSUME ChangesInv, CancelDiscard
    PROVE  ChangesInv'
<1>1. /\ UNCHANGED <<work, status, diffs, selected, filter, operation>> /\ pendingDiscard' = None
      /\ Shown(Choice) /\ Hands(None, acted)
  BY DEF CancelDiscard, Reading
<1>2. Data' /\ Asking'
  BY <1>1, ReadingData DEF ChangesInv, Data, Asking, Meant
<1> QED BY <1>1, <1>2, DrawnAgain

-----------------------------------------------------------------------------
(* The daemon, and what is read of it. *)

LEMMA RunKeeps ==
    ASSUME ChangesInv, Run
    PROVE  ChangesInv'
<1>1. /\ operation # None
      /\ work' = [path \in Paths |-> [line \in Lines[path] |->
                    IF path \in operation.paths /\ line \in Named(operation, path)
                    THEN Result(operation.kind) ELSE work[path][line]]]
      /\ operation' = [operation EXCEPT !.answer = StatusNow']
      /\ UNCHANGED <<status, diffs, selected, filter, pane, pendingDiscard, keyboard>>
  BY DEF Run
<1>2. operation \in Requests /\ (operation.lines # None =>
         operation.meant = At(operation.lines.diff, operation.lines.indices))
  BY <1>1 DEF ChangesInv, Asking, Meant
<1>3. Result(operation.kind) \in {"clean", "changed", "staged"}
  <2>1. operation.kind \in {"stage", "unstage", "discard"}
    BY <1>2 DEF Requests
  <2> QED BY <2>1 DEF Result
<1>4. Data'
  <2>1. DOMAIN work' = Paths
    BY <1>1
  <2>2. ASSUME NEW path \in Paths PROVE work'[path] \in [Lines[path] -> {"clean", "changed", "staged"}]
    <3>1. work[path] \in [Lines[path] -> {"clean", "changed", "staged"}]
      BY DEF ChangesInv, Data
    <3> QED BY <1>1, <1>3, <3>1
  <2> QED BY <1>1, <2>1, <2>2 DEF ChangesInv, Data
<1>5. StatusNow' \in [Rows -> SUBSET Paths]
  BY DEF StatusNow
<1>6. /\ operation' \in Requests
      /\ operation'.lines = operation.lines /\ operation'.meant = operation.meant
  <2> PICK now : now = StatusNow'
    OBVIOUS
  <2>1. operation' = [operation EXCEPT !.answer = now] /\ now \in [Rows -> SUBSET Paths]
    BY <1>1, <1>5
  <2> QED BY <1>2, <2>1 DEF Requests
<1>7. operation' # None
  BY <1>6, ChangesAssumption
<1>8. Asking'
  BY <1>1, <1>2, <1>6 DEF ChangesInv, Asking, Meant
<1>9. Current' = Current /\ Diff' = Diff /\ Key(Current)' = Key(Current)
  BY <1>1 DEF Current, Diff, Key
<1>10. Drawn' /\ Meanings'
  BY <1>1, <1>9 DEF ChangesInv, Drawn, Meanings, Good, Choice, pane
<1>11. Busy' /\ \A row \in Rows : Listed(row)' = Listed(row)
  BY <1>1, <1>7 DEF Busy, Listed
<1>12. Keyboard'
  BY <1>1, <1>11 DEF ChangesInv, Keyboard, keyboard
<1> QED BY <1>4, <1>8, <1>10, <1>12 DEF ChangesInv

LEMMA SettleKeeps ==
    ASSUME ChangesInv, Settle
    PROVE  ChangesInv'
<1> PICK at : at = IF pendingDiscard # None THEN None ELSE focus
  OBVIOUS
<1>1. /\ operation # None /\ operation.answer # Asked /\ status' = operation.answer
      /\ operation' = None /\ pendingDiscard' = None /\ Opening
      /\ UNCHANGED <<work, diffs, filter>> /\ Shown(Choice) /\ Hands(at, acted)
  BY DEF Settle
<1>2. operation.answer \in [Rows -> SUBSET Paths]
  <2>1. operation \in Requests
    BY <1>1 DEF ChangesInv, Asking, Meant
  <2> QED BY <1>1, <2>1 DEF Requests
<1>3. Data'
  BY <1>1, <1>2, OpeningData DEF ChangesInv
<1>4. Asking' /\ at \in RowsAt \cup {None, Elsewhere}
  BY <1>1 DEF ChangesInv, Asking, Meant, Keyboard
<1> QED BY <1>1, <1>3, <1>4, DrawnAgain

LEMMA RefuseKeeps ==
    ASSUME ChangesInv, Refuse
    PROVE  ChangesInv'
<1> PICK at : at = IF pendingDiscard # None THEN None ELSE focus
  OBVIOUS
<1>1. /\ operation' = None /\ pendingDiscard' = None
      /\ UNCHANGED <<work, status, diffs, selected, filter>> /\ Shown(Choice) /\ Hands(at, acted)
  BY DEF Refuse, Reading
<1>2. Data'
  BY <1>1, ReadingData DEF ChangesInv, Data
<1>3. Asking' /\ at \in RowsAt \cup {None, Elsewhere}
  BY <1>1 DEF ChangesInv, Asking, Meant, Keyboard
<1> QED BY <1>1, <1>2, <1>3, DrawnAgain

LEMMA ReadStatusKeeps ==
    ASSUME ChangesInv, ReadStatus
    PROVE  ChangesInv'
<1>1. /\ status' = StatusNow /\ Opening
      /\ UNCHANGED <<work, diffs, filter, operation, pendingDiscard>> /\ Shown(Choice) /\ Hands(focus, acted)
  BY DEF ReadStatus, Draw
<1>2. Data'
  BY <1>1, StatusIs, OpeningData DEF ChangesInv
<1>3. /\ Asking' /\ focus \in RowsAt \cup {None, Elsewhere}
      /\ pendingDiscard' # None => focus = Elsewhere
  BY <1>1 DEF ChangesInv, Asking, Meant, Keyboard
<1> QED BY <1>1, <1>2, <1>3, DrawnAgain

LEMMA ReadDiffKeeps ==
    ASSUME ChangesInv, ReadDiff
    PROVE  ChangesInv'
<1>1. /\ Current # None /\ diffs' = [diffs EXCEPT ![Key(Current)] = DiffNow(Key(Current))]
      /\ UNCHANGED <<work, status, selected, filter, operation, pendingDiscard>>
      /\ Shown(Choice) /\ Hands(focus, acted)
  BY DEF ReadDiff, Draw
<1>2. Data'
  <2>1. Key(Current) \in Keys
    BY <1>1, CurrentIs DEF ChangesInv
  <2>2. \A key \in Keys : DiffNow(key) \in SUBSET Lines[key[1]]
    BY DEF DiffNow, LinesOn
  <2> QED BY <1>1, <2>1, <2>2 DEF ChangesInv, Data
<1>3. /\ Asking' /\ focus \in RowsAt \cup {None, Elsewhere}
      /\ pendingDiscard' # None => focus = Elsewhere
  BY <1>1 DEF ChangesInv, Asking, Meant, Keyboard
<1> QED BY <1>1, <1>2, <1>3, DrawnAgain

LEMMA EditKeeps ==
    ASSUME ChangesInv, NEW path \in Paths, NEW line \in Lines[path], NEW as \in {"clean", "changed"},
           Edit(path, line, as)
    PROVE  ChangesInv'
<1>1. /\ work' = [work EXCEPT ![path][line] = as]
      /\ UNCHANGED <<status, diffs, selected, filter, operation, pendingDiscard, pane, keyboard>>
  BY DEF Edit
<1>2. Data'
  <2>1. DOMAIN work' = Paths
    BY <1>1 DEF ChangesInv, Data
  <2>2. ASSUME NEW p \in Paths PROVE work'[p] \in [Lines[p] -> {"clean", "changed", "staged"}]
    <3>1. work[p] \in [Lines[p] -> {"clean", "changed", "staged"}] /\ DOMAIN work = Paths
      BY DEF ChangesInv, Data
    <3>2. work'[p] = IF p = path THEN [work[p] EXCEPT ![line] = as] ELSE work[p]
      BY <1>1, <3>1
    <3> QED BY <3>1, <3>2
  <2> QED BY <1>1, <2>1, <2>2 DEF ChangesInv, Data
<1>3. Current' = Current /\ Diff' = Diff /\ Key(Current)' = Key(Current)
  BY <1>1 DEF Current, Diff, Key
<1>4. Drawn' /\ Meanings'
  BY <1>1, <1>3 DEF ChangesInv, Drawn, Meanings, Good, Choice, pane
<1>5. Busy' = Busy /\ \A row \in Rows : Listed(row)' = Listed(row)
  BY <1>1 DEF Busy, Listed
<1>6. Keyboard' /\ Asking'
  BY <1>1, <1>5 DEF ChangesInv, Keyboard, keyboard, Asking, Meant
<1> QED BY <1>2, <1>4, <1>6 DEF ChangesInv

-----------------------------------------------------------------------------
(* All of it. *)

LEMMA ChangesInit == Init => ChangesInv
<1> SUFFICES ASSUME Init PROVE ChangesInv
  OBVIOUS
<1>1. status \in [Rows -> SUBSET Paths]
  BY StatusIs DEF Init
<1>2. Data
  <2>1. PICK as \in [Paths -> {"changed", "staged"}] : work = [p \in Paths |-> [line \in Lines[p] |-> as[p]]]
    BY DEF Init
  <2>2. DOMAIN work = Paths
    BY <2>1
  <2>3. ASSUME NEW p \in Paths PROVE work[p] \in [Lines[p] -> {"clean", "changed", "staged"}]
    BY <2>1
  <2>4. DOMAIN diffs = Keys /\ \A key \in Keys : diffs[key] = None
    BY DEF Init
  <2>5. selected \in RowsAt \cup {None} /\ filter \in SUBSET Paths
    BY <1>1, FirstIs DEF Init
  <2> QED BY <1>1, <2>2, <2>3, <2>4, <2>5 DEF Data
<1>3. Diff = None
  <2>1. Current # None => Key(Current) \in Keys
    BY <1>2, CurrentIs
  <2> QED BY <2>1 DEF Diff, Init
<1>4. Drawn /\ Meanings
  BY <1>3, NothingIsGood DEF Init, Drawn, Meanings, Good, Choice, Nowhere
<1>5. Asking
  BY DEF Init, Asking, Meant
<1>6. Keyboard
  BY DEF Init, Keyboard
<1> QED BY <1>2, <1>4, <1>5, <1>6 DEF ChangesInv

LEMMA ChangesNext == ChangesInv /\ [Next]_vars => ChangesInv'
<1> SUFFICES ASSUME ChangesInv, [Next]_vars PROVE ChangesInv'
  OBVIOUS
<1>1. CASE Clear \/ Leave
  BY <1>1, ClearKeeps, LeaveKeeps
<1>2. CASE \E row \in Rows, path \in Paths : Select(row, path) \/ MoveFocus(row, path)
  BY <1>2, SelectKeeps, MoveFocusKeeps
<1>3. CASE \E paths \in {Paths} \cup {{path} : path \in Paths} : Filter(paths)
  <2>1. PICK paths \in SUBSET Paths : Filter(paths)
    BY <1>3
  <2> QED BY <2>1, FilterKeeps
<1>4. CASE \E index \in 1..MaxDrawn, extend \in BOOLEAN : Toggle(index, extend)
  BY <1>4, ToggleKeeps
<1>5. CASE \E index \in 1..MaxDrawn : MoveAnchor(index)
  BY <1>5, MoveAnchorKeeps
<1>6. CASE \E row \in Rows, path \in Paths, kind \in {"stage", "unstage", "discard"} : ActOnRow(row, path, kind)
  BY <1>6, ActOnRowKeeps
<1>7. CASE \E row \in Rows, kind \in {"stage", "unstage", "discard"} : ActOnAll(row, kind)
  BY <1>7, ActOnAllKeeps
<1>8. CASE ActOnChosen \/ ActOnHunk
  BY <1>8, ActOnChosenKeeps, ActOnHunkKeeps
<1>9. CASE Propose \/ ConfirmDiscard \/ CancelDiscard
  BY <1>9, ProposeKeeps, ConfirmDiscardKeeps, CancelDiscardKeeps
<1>10. CASE Run \/ Settle \/ Refuse
  BY <1>10, RunKeeps, SettleKeeps, RefuseKeeps
<1>11. CASE ReadStatus \/ ReadDiff
  BY <1>11, ReadStatusKeeps, ReadDiffKeeps
<1>12. CASE \E path \in Paths : \E line \in Lines[path], as \in {"clean", "changed"} : Edit(path, line, as)
  BY <1>12, EditKeeps
<1>13. CASE UNCHANGED vars
  <2>1. /\ UNCHANGED <<work, status, diffs, selected, filter, seenDiff, chosen, anchor, meant, operation,
                       pendingDiscard, acted, focusedPath, focus>>
    BY <1>13 DEF vars, pane, keyboard
  <2>2. Current' = Current /\ Diff' = Diff /\ Key(Current)' = Key(Current)
    BY <2>1 DEF Current, Diff, Key
  <2>3. Busy' = Busy /\ \A row \in Rows : Listed(row)' = Listed(row)
    BY <2>1 DEF Busy, Listed
  <2> QED BY <2>1, <2>2, <2>3 DEF ChangesInv, Data, Drawn, Meanings, Good, Choice, Asking, Meant, Keyboard
<1> QED BY <1>1, <1>2, <1>3, <1>4, <1>5, <1>6, <1>7, <1>8, <1>9, <1>10, <1>11, <1>12, <1>13 DEF Next

\* Only what the daemon is asked, and who edits, change the work tree.
LEMMA WhatChanges ==
    ASSUME [Next]_vars
    PROVE  \/ Run
           \/ \E path \in Paths : \E line \in Lines[path], as \in {"clean", "changed"} : Edit(path, line, as)
           \/ UNCHANGED <<work, moves>>
<1>1. CASE Clear \/ Leave
  BY <1>1 DEF Clear, Leave, Reading
<1>2. CASE \E row \in Rows, path \in Paths : Select(row, path) \/ MoveFocus(row, path)
  BY <1>2 DEF Select, MoveFocus, Reading
<1>3. CASE \E paths \in {Paths} \cup {{path} : path \in Paths} : Filter(paths)
  BY <1>3 DEF Filter, Reading
<1>4. CASE \E index \in 1..MaxDrawn, extend \in BOOLEAN : Toggle(index, extend)
  BY <1>4 DEF Toggle, Reading
<1>5. CASE \E index \in 1..MaxDrawn : MoveAnchor(index)
  BY <1>5 DEF MoveAnchor, Reading
<1>6. CASE \E row \in Rows, path \in Paths, kind \in {"stage", "unstage", "discard"} : ActOnRow(row, path, kind)
  BY <1>6 DEF ActOnRow, Ask, Reading
<1>7. CASE \E row \in Rows, kind \in {"stage", "unstage", "discard"} : ActOnAll(row, kind)
  BY <1>7 DEF ActOnAll, Ask, Reading
<1>8. CASE ActOnChosen \/ ActOnHunk
  BY <1>8 DEF ActOnChosen, ActOnHunk, ActOnLines, Ask, Reading
<1>9. CASE Propose \/ ConfirmDiscard \/ CancelDiscard
  BY <1>9 DEF Propose, ConfirmDiscard, CancelDiscard, Reading
<1>10. CASE Settle \/ Refuse \/ ReadStatus \/ ReadDiff
  BY <1>10 DEF Settle, Refuse, ReadStatus, ReadDiff, Reading
<1>11. CASE UNCHANGED vars
  BY <1>11 DEF vars
<1> QED BY <1>1, <1>2, <1>3, <1>4, <1>5, <1>6, <1>7, <1>8, <1>9, <1>10, <1>11 DEF Next

LEMMA Counting == moves \in Nat /\ [Next]_vars => moves' \in Nat
<1>1. ASSUME NEW path \in Paths, NEW line \in Lines[path], NEW as \in {"clean", "changed"}, Edit(path, line, as),
             moves \in Nat
      PROVE  moves' \in Nat
  BY <1>1 DEF Edit
<1> QED BY <1>1, WhatChanges DEF Run

\* A request of lines is granted over the diff they were chosen in, and changes
\* those lines, each of which is on the side it is taken from.
LEMMA LinesAreMeant ==
    ASSUME ChangesInv, moves \in Nat, [Next]_vars,
           operation # None, operation.lines # None, work' # work, moves' = moves, NEW path \in Paths
    PROVE  {line \in Lines[path] : work'[path][line] # work[path][line]}
             = IF path \in operation.paths THEN operation.meant ELSE {}
<1>1. Run
  <2>1. ASSUME NEW p \in Paths, NEW line \in Lines[p], NEW as \in {"clean", "changed"}, Edit(p, line, as)
        PROVE  FALSE
    <3>1. moves' = moves + 1
      BY <2>1 DEF Edit
    <3> QED BY <3>1
  <2> QED BY <2>1, WhatChanges
<1>2. /\ work' = [p \in Paths |-> [line \in Lines[p] |->
                    IF p \in operation.paths /\ line \in Named(operation, p)
                    THEN Result(operation.kind) ELSE work[p][line]]]
      /\ Accepted(operation)
  BY <1>1 DEF Run
<1>3. /\ operation.kind \in {"stage", "unstage", "discard"} /\ operation.paths \in SUBSET Paths
      /\ operation.meant = At(operation.lines.diff, operation.lines.indices)
  BY DEF ChangesInv, Asking, Meant, Requests
<1>4. \A line \in Lines[path] : work'[path][line] =
         IF path \in operation.paths /\ line \in Named(operation, path)
         THEN Result(operation.kind) ELSE work[path][line]
  BY <1>2
<1>5. CASE path \notin operation.paths
  BY <1>4, <1>5
<1>6. CASE path \in operation.paths
  <2> PICK side : side = IF operation.kind = "unstage" THEN "staged" ELSE "changed"
    OBVIOUS
  <2>1. LinesOn(Side(operation.kind), path) = operation.lines.diff
    BY <1>2, <1>6 DEF Accepted
  <2>2. LinesOn(Side(operation.kind), path) = {line \in Lines[path] : work[path][line] = side}
    BY <1>3 DEF LinesOn, Side
  <2>3. Named(operation, path) = operation.meant
    BY <1>3 DEF Named
  <2>4. Result(operation.kind) # side
    BY <1>3 DEF Result
  <2>5. \A line \in operation.meant : line \in Lines[path] /\ work[path][line] = side
    <3>1. operation.meant \subseteq operation.lines.diff
      BY <1>3 DEF At
    <3> QED BY <2>1, <2>2, <3>1
  <2>6. ASSUME NEW line \in Lines[path]
        PROVE  work'[path][line] # work[path][line] <=> line \in operation.meant
    <3>1. CASE line \in operation.meant
      <4>1. work'[path][line] = Result(operation.kind) /\ work[path][line] = side
        BY <1>4, <1>6, <2>3, <2>5, <3>1
      <4> QED BY <2>4, <3>1, <4>1
    <3>2. CASE line \notin operation.meant
      <4>1. work'[path][line] = work[path][line]
        BY <1>4, <2>3, <3>2
      <4> QED BY <3>2, <4>1
    <3> QED BY <3>1, <3>2
  <2> QED BY <1>6, <2>5, <2>6
<1> QED BY <1>5, <1>6

-----------------------------------------------------------------------------
(* The keyboard. *)

LEMMA InTypes == ASSUME ChangesInv PROVE TypeOK
<1>1. \A row \in Rows : status[row] \subseteq Paths
  BY DEF ChangesInv, Data
<1>2. ASSUME NEW row \in Rows, acted[row] # None PROVE acted[row].path \in Paths
  <2>1. acted[row] \in Presses
    BY <1>2 DEF ChangesInv, Keyboard
  <2> QED BY <2>1 DEF Presses
<1>3. seenDiff = None => chosen = {} /\ anchor = None
  BY DEF ChangesInv, Meanings
<1>4. ASSUME seenDiff # None
      PROVE  /\ chosen \subseteq ChangedLines(seenDiff[2])
             /\ anchor # None => anchor \in ChangedLines(seenDiff[2])
  <2>1. seenDiff[2] = Diff
    BY <1>4 DEF ChangesInv, Drawn
  <2>2. Good(Choice)
    BY <1>4, ChoiceIsGood DEF ChangesInv
  <2> QED BY <2>1, <2>2 DEF Good, Choice
<1> QED BY <1>1, <1>2, <1>3, <1>4 DEF TypeOK, ChangesInv, Data

\* A row of a list and nothing are told apart, and so are it and the rest of the
\* page.
LEMMA RowIs ==
    ASSUME NEW row \in Rows, NEW path \in Paths, NEW at, at = [row |-> row, path |-> path]
    PROVE  at # None /\ at.path = path /\ at.row = row
<1>1. at \in [row : Rows \cup {None}, path : Paths \cup {None}]
  OBVIOUS
<1> QED BY <1>1, ChangesAssumption

\* What a step does to the keyboard that is not a gesture.
NotTaken ==
    focus' # focus /\ focus' \notin {None, Elsewhere}
        => /\ Busy
           /\ focus = Elsewhere => pendingDiscard # None
           /\ focus \notin {None, Elsewhere} => focus.path \notin ListedNow(focus.row)

Stays ==
    \A row \in Rows :
        acted[row] # None /\ focus = None /\ pendingDiscard = None
          /\ acted[row].path \notin ListedNow(row) /\ ListedNow(row) # {}
        => focus' # None /\ focus'.path \in ListedNow(focus'.row)

\* The rows are those that were.
LEMMA SameRows == ASSUME ChangesInv, UNCHANGED <<status, filter>> PROVE Stays
<1>1. \A row \in Rows : ListedNow(row) = Listed(row)
  BY DEF ListedNow, Listed
<1> QED BY <1>1 DEF Stays, ChangesInv, Keyboard

\* The keyboard stays where it is, or on what the rest of the page had of it.
LEMMA HandsHold ==
    ASSUME ChangesInv, Data', Hands(focus, acted)
    PROVE  NotTaken /\ Stays
<1>1. focus \in RowsAt \cup {None, Elsewhere}
  BY DEF ChangesInv, Keyboard
<1>2. \/ /\ focus' = focus /\ focus # None
      \/ /\ focus' = None /\ focus # Elsewhere
         /\ \A row \in Rows : Gone(row) => ListedNow(row) = {}
      \/ /\ focus # Elsewhere
         /\ focus # None => focus.path \notin ListedNow(focus.row)
         /\ \E row \in Rows, path \in Paths :
               /\ Gone(row) /\ path \in ListedNow(row)
               /\ focus' = [row |-> row, path |-> path]
  BY <1>1, HandsTake DEF ChangesInv
<1>3. CASE focus' = focus /\ focus # None
  BY <1>3 DEF NotTaken, Stays
<1>4. CASE focus' = None /\ \A row \in Rows : Gone(row) => ListedNow(row) = {}
  BY <1>4 DEF NotTaken, Stays, Gone
<1>5. CASE /\ focus # Elsewhere
           /\ focus # None => focus.path \notin ListedNow(focus.row)
           /\ \E row \in Rows, path \in Paths :
                 /\ Gone(row) /\ path \in ListedNow(row)
                 /\ focus' = [row |-> row, path |-> path]
  <2>1. PICK row \in Rows, path \in Paths :
           Gone(row) /\ path \in ListedNow(row) /\ focus' = [row |-> row, path |-> path]
    BY <1>5
  <2>2. Busy
    BY <2>1 DEF Gone, ChangesInv, Keyboard
  <2>3. focus' # None /\ focus'.path \in ListedNow(focus'.row)
    BY <2>1, RowIs
  <2> QED BY <1>5, <2>2, <2>3 DEF NotTaken, Stays
<1> QED BY <1>2, <1>3, <1>4, <1>5

\* The dialog that closes gives the keyboard back to nothing, which a list whose
\* button it was may take.
LEMMA ClosingHolds ==
    ASSUME ChangesInv, Data', pendingDiscard # None, Hands(None, acted)
    PROVE  NotTaken /\ Stays
<1>1. Busy /\ focus = Elsewhere
  BY DEF ChangesInv, Keyboard, Busy
<1> QED BY <1>1, ElsewhereIs DEF NotTaken, Stays

LEMMA ProposeHolds == ASSUME ChangesInv, Propose PROVE NotTaken /\ Stays
<1>1. UNCHANGED <<work, status, diffs, selected, filter>> /\ Hands(Elsewhere, acted)
  BY DEF Propose, Reading
<1>2. Data'
  BY <1>1, ReadingData DEF ChangesInv, Data
<1>3. focus' = Elsewhere
  BY <1>1, <1>2, HandsTake DEF ChangesInv
<1> QED BY <1>1, <1>3, SameRows DEF NotTaken

LEMMA ConfirmDiscardHolds == ASSUME ChangesInv, ConfirmDiscard PROVE NotTaken /\ Stays
<1>1. UNCHANGED <<work, status, diffs, selected, filter>> /\ Hands(focus, acted)
  BY DEF ConfirmDiscard, Reading, Draw
<1>2. Data'
  BY <1>1, ReadingData DEF ChangesInv, Data
<1> QED BY <1>1, <1>2, HandsHold

LEMMA CancelDiscardHolds == ASSUME ChangesInv, CancelDiscard PROVE NotTaken /\ Stays
<1>1. UNCHANGED <<work, status, diffs, selected, filter>> /\ pendingDiscard # None /\ Hands(None, acted)
  BY DEF CancelDiscard, Reading
<1>2. Data'
  BY <1>1, ReadingData DEF ChangesInv, Data
<1> QED BY <1>1, <1>2, ClosingHolds

LEMMA SettleHolds == ASSUME ChangesInv, Settle PROVE NotTaken /\ Stays
<1>1. /\ operation # None /\ operation.answer # Asked /\ status' = operation.answer /\ Opening
      /\ UNCHANGED <<work, diffs, filter>> /\ Hands(IF pendingDiscard # None THEN None ELSE focus, acted)
  BY DEF Settle
<1>2. operation.answer \in [Rows -> SUBSET Paths]
  <2>1. operation \in Requests
    BY <1>1 DEF ChangesInv, Asking, Meant
  <2> QED BY <1>1, <2>1 DEF Requests
<1>3. Data'
  BY <1>1, <1>2, OpeningData DEF ChangesInv
<1> QED BY <1>1, <1>3, ClosingHolds, HandsHold

LEMMA RefuseHolds == ASSUME ChangesInv, Refuse PROVE NotTaken /\ Stays
<1>1. /\ UNCHANGED <<work, status, diffs, selected, filter>>
      /\ Hands(IF pendingDiscard # None THEN None ELSE focus, acted)
  BY DEF Refuse, Reading
<1>2. Data'
  BY <1>1, ReadingData DEF ChangesInv, Data
<1> QED BY <1>1, <1>2, ClosingHolds, HandsHold

LEMMA ReadStatusHolds == ASSUME ChangesInv, ReadStatus PROVE NotTaken /\ Stays
<1>1. status' = StatusNow /\ Opening /\ UNCHANGED <<work, diffs, filter>> /\ Hands(focus, acted)
  BY DEF ReadStatus, Draw
<1>2. Data'
  BY <1>1, StatusIs, OpeningData DEF ChangesInv
<1> QED BY <1>1, <1>2, HandsHold

LEMMA ReadDiffHolds == ASSUME ChangesInv, ReadDiff PROVE NotTaken /\ Stays
<1>1. Data'
  BY ReadDiffKeeps DEF ChangesInv
<1> QED BY <1>1, HandsHold DEF ReadDiff, Draw

LEMMA StillHolds ==
    ASSUME ChangesInv, UNCHANGED <<status, filter, keyboard>>
    PROVE  NotTaken /\ Stays
BY SameRows DEF NotTaken, keyboard

\* What is not a gesture.
LEMMA WithoutGesture ==
    ASSUME gestures \in Nat, gestures' = gestures, [Next]_vars
    PROVE  \/ Propose \/ ConfirmDiscard \/ CancelDiscard \/ Settle \/ Refuse \/ ReadStatus \/ ReadDiff
           \/ UNCHANGED <<status, filter, keyboard>>
<1> USE DEF Gesture
<1>1. gestures' # gestures + 1
  OBVIOUS
<1>2. CASE Clear \/ Leave
  BY <1>1, <1>2 DEF Clear, Leave
<1>3. CASE \E row \in Rows, path \in Paths : Select(row, path) \/ MoveFocus(row, path)
  BY <1>1, <1>3 DEF Select, MoveFocus
<1>4. CASE \E paths \in {Paths} \cup {{path} : path \in Paths} : Filter(paths)
  BY <1>1, <1>4 DEF Filter
<1>5. CASE \E index \in 1..MaxDrawn, extend \in BOOLEAN : Toggle(index, extend)
  BY <1>1, <1>5 DEF Toggle
<1>6. CASE \E index \in 1..MaxDrawn : MoveAnchor(index)
  BY <1>1, <1>6 DEF MoveAnchor
<1>7. CASE \E row \in Rows, path \in Paths, kind \in {"stage", "unstage", "discard"} : ActOnRow(row, path, kind)
  BY <1>1, <1>7 DEF ActOnRow, Ask
<1>8. CASE \E row \in Rows, kind \in {"stage", "unstage", "discard"} : ActOnAll(row, kind)
  BY <1>1, <1>8 DEF ActOnAll, Ask
<1>9. CASE ActOnChosen \/ ActOnHunk
  BY <1>1, <1>9 DEF ActOnChosen, ActOnHunk, ActOnLines, Ask
<1>10. CASE \E path \in Paths : \E line \in Lines[path], as \in {"clean", "changed"} : Edit(path, line, as)
  BY <1>10 DEF Edit
<1>11. CASE Run
  BY <1>11 DEF Run
<1>12. CASE UNCHANGED vars
  BY <1>12 DEF vars
<1> QED BY <1>2, <1>3, <1>4, <1>5, <1>6, <1>7, <1>8, <1>9, <1>10, <1>11, <1>12 DEF Next

LEMMA KeyboardHolds ==
    ASSUME ChangesInv, gestures \in Nat, gestures' = gestures, [Next]_vars
    PROVE  NotTaken /\ Stays
BY WithoutGesture, ProposeHolds, ConfirmDiscardHolds, CancelDiscardHolds, SettleHolds, RefuseHolds,
   ReadStatusHolds, ReadDiffHolds, StillHolds

LEMMA GesturesCount == gestures \in Nat /\ [Next]_vars => gestures' \in Nat
<1> SUFFICES ASSUME gestures \in Nat, [Next]_vars PROVE gestures' \in Nat
  OBVIOUS
<1> USE DEF Gesture
<1>1. gestures + 1 \in Nat
  OBVIOUS
<1>2. CASE Clear \/ Leave
  BY <1>1, <1>2 DEF Clear, Leave
<1>3. CASE \E row \in Rows, path \in Paths : Select(row, path) \/ MoveFocus(row, path)
  BY <1>1, <1>3 DEF Select, MoveFocus
<1>4. CASE \E paths \in {Paths} \cup {{path} : path \in Paths} : Filter(paths)
  BY <1>1, <1>4 DEF Filter
<1>5. CASE \E index \in 1..MaxDrawn, extend \in BOOLEAN : Toggle(index, extend)
  BY <1>1, <1>5 DEF Toggle
<1>6. CASE \E index \in 1..MaxDrawn : MoveAnchor(index)
  BY <1>1, <1>6 DEF MoveAnchor
<1>7. CASE \E row \in Rows, path \in Paths, kind \in {"stage", "unstage", "discard"} : ActOnRow(row, path, kind)
  BY <1>1, <1>7 DEF ActOnRow, Ask
<1>8. CASE \E row \in Rows, kind \in {"stage", "unstage", "discard"} : ActOnAll(row, kind)
  BY <1>1, <1>8 DEF ActOnAll, Ask
<1>9. CASE ActOnChosen \/ ActOnHunk
  BY <1>1, <1>9 DEF ActOnChosen, ActOnHunk, ActOnLines, Ask
<1>10. CASE \E path \in Paths : \E line \in Lines[path], as \in {"clean", "changed"} : Edit(path, line, as)
  BY <1>10 DEF Edit
<1>11. CASE Propose \/ ConfirmDiscard \/ CancelDiscard \/ Run \/ Settle \/ Refuse \/ ReadStatus \/ ReadDiff
  BY <1>11 DEF Propose, ConfirmDiscard, CancelDiscard, Run, Settle, Refuse, ReadStatus, ReadDiff
<1>12. CASE UNCHANGED vars
  BY <1>12 DEF vars
<1> QED BY <1>2, <1>3, <1>4, <1>5, <1>6, <1>7, <1>8, <1>9, <1>10, <1>11, <1>12 DEF Next

-----------------------------------------------------------------------------
(* The theorems. *)

Counted == moves \in Nat /\ gestures \in Nat

LEMMA ChangesHold ==
    /\ Init => ChangesInv /\ Counted
    /\ ChangesInv /\ Counted /\ [Next]_vars => ChangesInv' /\ Counted'
<1>1. Init => Counted
  BY DEF Init, Counted
<1>2. Counted /\ [Next]_vars => Counted'
  BY Counting, GesturesCount DEF Counted
<1> QED BY <1>1, <1>2, ChangesInit, ChangesNext

\* The lines that are staged, unstaged or discarded are those the user chose as
\* they were drawn.
THEOREM LinesStand == Spec => LinesAreTheOnesChosen
<1>1. ChangesInv /\ Counted /\ [Next]_vars =>
        [operation # None /\ operation.lines # None /\ work' # work /\ moves' = moves
          => \A path \in Paths :
                {line \in Lines[path] : work'[path][line] # work[path][line]}
                  = IF path \in operation.paths THEN operation.meant ELSE {}]_vars
  BY LinesAreMeant DEF Counted
<1> QED BY <1>1, ChangesHold, PTL DEF Spec, LinesAreTheOnesChosen

\* The list gives the keyboard to the heir of a row that left, and takes it from
\* nothing else.
THEOREM KeyboardStays == Spec => FilesKeepTheKeyboard
<1>1. ChangesInv => TypeOK
  BY InTypes
<1>2. ChangesInv /\ Counted /\ [Next]_vars =>
        [focus' # focus /\ gestures' = gestures /\ focus' \notin {None, Elsewhere}
          => /\ Busy
             /\ focus = Elsewhere => pendingDiscard # None
             /\ focus \notin {None, Elsewhere} => focus.path \notin ListedNow(focus.row)]_vars
  BY KeyboardHolds DEF NotTaken, Counted
<1>3. ChangesInv /\ Counted /\ [Next]_vars =>
        [\A row \in Rows :
          acted[row] # None /\ gestures' = gestures /\ focus = None /\ pendingDiscard = None
            /\ acted[row].path \notin ListedNow(row) /\ ListedNow(row) # {}
          => focus' # None /\ focus'.path \in ListedNow(focus'.row)]_vars
  BY KeyboardHolds DEF Stays, Counted
<1>4. Spec => []TypeOK
  BY <1>1, ChangesHold, PTL DEF Spec
<1>5. Spec => KeyboardIsNotTaken
  BY <1>2, ChangesHold, PTL DEF Spec, KeyboardIsNotTaken
<1>6. Spec => KeyboardStaysInTheList
  BY <1>3, ChangesHold, PTL DEF Spec, KeyboardStaysInTheList
<1> QED BY <1>4, <1>5, <1>6 DEF FilesKeepTheKeyboard

-----------------------------------------------------------------------------
(* The plan of a rebase: the inductive invariant. *)

Commits == [holds : SUBSET Nat, says : Nat, again : BOOLEAN]

\* Commits as they are before a plan is run, none of them twice.
Plain(commits) ==
    /\ commits \in Seq(Commits)
    /\ \A i \in DOMAIN commits : commits[i] = Commit(commits[i].says)
    /\ \A i, j \in DOMAIN commits : i # j => commits[i] # commits[j]

\* None of them is one that somebody else has yet to make.
Made(commits) == \A i \in DOMAIN commits : commits[i].says <= Length + landed

\* The rows of a plan: each of the commits once, whatever is to be done with it.
Rearranged(steps, commits) ==
    /\ steps \in Seq([commit : ToSet(commits), instruction : Instructions]) /\ Len(steps) = Len(commits)
    /\ \A k \in DOMAIN commits : \E i \in DOMAIN steps : steps[i].commit = commits[k]

Approved(steps, commits) ==
    /\ Plain(commits) /\ Rearranged(steps, commits)
    /\ steps # <<>> /\ ~FirstKeptCombines(steps)

Shapes ==
    /\ landed \in Nat
    /\ dialog = [open |-> dialog.open, commits |-> dialog.commits, steps |-> dialog.steps]
    /\ request = [phase |-> request.phase, steps |-> request.steps]
    /\ git = [phase |-> git.phase, todo |-> git.todo, done |-> git.done, made |-> git.made,
              was |-> git.was, stops |-> git.stops, amended |-> git.amended]
    /\ dialog.open \in BOOLEAN /\ (dialog.open \/ dialog = NoDialog)
    /\ request.phase \in {"none", "sent", "checked", "running"}
    /\ git.phase \in {"idle", "running", "stopped", "conflict", "done"}
    /\ git.phase = "idle" => git = Idle

\* Until a plan is done the branch has the commits there were.
OfBranch ==
    /\ git.phase # "done" => Plain(history) /\ Made(history)
    /\ Made(git.was)
    /\ git.phase = "done" => history = git.made

\* The plan on the screen is of the branch, unless somebody else has moved it.
OnScreen ==
    dialog.open =>
        /\ Plain(dialog.commits) /\ Rearranged(dialog.steps, dialog.commits)
        /\ request.phase # "running" => git.phase = "idle"
        /\ request.phase \in {"none", "sent"} /\ landed = 0 => history = dialog.commits

\* What the daemon has let through is of the branch.
InFlight ==
    /\ request.phase # "none" => dialog.open
    /\ request.phase = "sent" => request.steps = dialog.steps /\ ~PlanRefused(dialog.steps, dialog.commits)
    /\ request.phase = "checked" => Approved(request.steps, history)
    /\ request.phase = "running" => git.phase # "idle"

\* What git has done of the plan, line by line.
Kept == Instructions \ {"drop"}
Single == {"pick", "edit"}
Folds == {"fixup", "fixup -C"}
Of(g, which) == {i \in 1..g.done : g.todo[i].instruction \in which}
Lowest(g) == Untouched(g.todo, g.was)
OnTop(g, which) == {i \in (Lowest(g) + 1)..g.done : g.todo[i].instruction \in which}

Given(g) ==
    /\ Approved(g.todo, g.was)
    /\ g.done \in 0..Len(g.todo) /\ (g.phase = "done" => g.done = Len(g.todo))
    /\ g.made \in Seq(Commits) /\ g.amended \in BOOLEAN
    /\ \A k \in DOMAIN g.made : g.made[k].says \in g.made[k].holds

\* One commit for each that is kept as one, and one stop for each that asks.
Counts(g) ==
    /\ Len(g.made) = Cardinality(Of(g, Single))
    /\ g.stops = Cardinality(Of(g, {"edit"}))

\* The changes of all that is not dropped, and of nothing else.
Holding(g) ==
    /\ \A k \in DOMAIN g.made : \A c \in g.made[k].holds :
          \E i \in Of(g, Kept) : c \in g.todo[i].commit.holds
    /\ \A i \in Of(g, Kept) : \A c \in g.todo[i].commit.holds :
          \E k \in DOMAIN g.made : c \in g.made[k].holds

\* The first row above the untouched ones that is not dropped is combined.
Capped(g) ==
    \E j \in OnTop(g, Folds) : \A l \in (Lowest(g) + 1)..(j - 1) : g.todo[l].instruction = "drop"

\* The untouched rows are where they were; but into the last of them may have
\* been combined what comes first above it.
Bottom(g) ==
    /\ g.done <= Lowest(g) => g.made = SubSeq(g.was, 1, g.done)
    /\ g.done > Lowest(g) =>
          /\ Len(g.made) >= Lowest(g)
          /\ \A i \in 1..Lowest(g) : g.made[i] = g.was[i] \/ (i = Lowest(g) /\ Capped(g))
          /\ Len(g.made) = Lowest(g) => OnTop(g, Single) = {}
    /\ g.phase = "stopped" => g.done > Lowest(g) /\ Len(g.made) > Lowest(g)

\* What is above them is written again, but for the commit that git has stopped
\* at for the user to amend.
NothingDropped(g) == \A i \in DOMAIN g.todo : g.todo[i].instruction # "drop"
Top(g) ==
    g.amended /\ NothingDropped(g) =>
        /\ \A k \in (Lowest(g) + 1)..Len(g.made) :
              g.made[k].again \/ (g.phase = "stopped" /\ k = Len(g.made))
        /\ g.done > Lowest(g) /\ g.phase # "stopped" => \E k \in DOMAIN g.made : g.made[k].again

Rebased(g) == Given(g) /\ Counts(g) /\ Holding(g) /\ Bottom(g) /\ Top(g)

Told == toast.tone \in {"none", "refused", "failed", "stopped", "rewrote"}

InGit == git.phase # "idle" => Rebased(git)
PlansInv == Shapes /\ OfBranch /\ OnScreen /\ InFlight /\ InGit /\ Told

-----------------------------------------------------------------------------
(* Of commits and of plans. *)

LEMMA OneCommit ==
    ASSUME NEW c \in Nat
    PROVE  /\ Commit(c) \in Commits /\ Commit(c).holds = {c} /\ Commit(c).says = c /\ Commit(c).again = FALSE
BY DEF Commit, Commits

LEMMA PlainIs ==
    ASSUME NEW commits, Plain(commits)
    PROVE  /\ Len(commits) \in Nat /\ DOMAIN commits = 1..Len(commits)
           /\ \A i \in DOMAIN commits :
                 /\ commits[i] \in Commits /\ commits[i].says \in Nat
                 /\ commits[i] = Commit(commits[i].says)
                 /\ commits[i].again = FALSE /\ commits[i].holds = {commits[i].says}
           /\ \A i, j \in DOMAIN commits : i # j => commits[i].holds \cap commits[j].holds = {}
<1>1. commits \in Seq(Commits)
  BY DEF Plain
<1>2. Len(commits) \in Nat /\ DOMAIN commits = 1..Len(commits)
  BY <1>1
<1>3. \A i \in DOMAIN commits : commits[i] \in Commits
  BY <1>1, <1>2, ElementOfSeq
<1>4. \A i \in DOMAIN commits : commits[i].says \in Nat
  BY <1>3 DEF Commits
<1>5. ASSUME NEW i \in DOMAIN commits
      PROVE  /\ commits[i] = Commit(commits[i].says)
             /\ commits[i].again = FALSE /\ commits[i].holds = {commits[i].says}
  <2>1. commits[i] = Commit(commits[i].says)
    BY DEF Plain
  <2> PICK c : c = commits[i].says
    OBVIOUS
  <2>2. Commit(c).again = FALSE /\ Commit(c).holds = {c}
    BY DEF Commit
  <2> QED BY <2>1, <2>2
<1>6. ASSUME NEW i \in DOMAIN commits, NEW j \in DOMAIN commits, i # j
      PROVE  commits[i].holds \cap commits[j].holds = {}
  <2>1. commits[i] # commits[j]
    BY <1>6 DEF Plain
  <2>2. commits[i].says # commits[j].says
    BY <1>5, <2>1
  <2>3. commits[i].holds = {commits[i].says} /\ commits[j].holds = {commits[j].says}
    BY <1>5
  <2> PICK one : one = commits[i].holds
    OBVIOUS
  <2> PICK other : other = commits[j].holds
    OBVIOUS
  <2>4. one \cap other = {}
    BY <2>2, <2>3
  <2> QED BY <2>4
<1> QED BY <1>2, <1>3, <1>4, <1>5, <1>6

LEMMA RowsAre ==
    ASSUME NEW steps, NEW commits, Rearranged(steps, commits)
    PROVE  /\ Len(steps) \in Nat /\ DOMAIN steps = 1..Len(steps)
           /\ \A i \in DOMAIN steps :
                 /\ steps[i] = [commit |-> steps[i].commit, instruction |-> steps[i].instruction]
                 /\ steps[i].instruction \in Instructions
                 /\ \E k \in DOMAIN commits : steps[i].commit = commits[k]
<1> PICK all : all = ToSet(commits)
  OBVIOUS
<1> PICK rows : rows = [commit : all, instruction : Instructions]
  OBVIOUS
<1>1. steps \in Seq(rows)
  BY DEF Rearranged
<1>2. Len(steps) \in Nat /\ DOMAIN steps = 1..Len(steps)
  BY <1>1
<1>3. \A i \in DOMAIN steps : steps[i] \in rows
  BY <1>1, <1>2, ElementOfSeq
<1>4. \A x \in all : \E k \in DOMAIN commits : x = commits[k]
  BY DEF ToSet
<1> QED BY <1>2, <1>3, <1>4

\* A plan has each of the commits once.
LEMMA RowsDiffer ==
    ASSUME NEW steps, NEW commits, Plain(commits), Rearranged(steps, commits),
           NEW i \in DOMAIN steps, NEW j \in DOMAIN steps, i # j
    PROVE  steps[i].commit # steps[j].commit
<1> PICK n : n = Len(commits)
  OBVIOUS
<1> PICK all : all = ToSet(commits)
  OBVIOUS
<1> PICK f : f = [k \in 1..n |-> steps[k].commit]
  OBVIOUS
<1> PICK g : g = [k \in 1..n |-> commits[k]]
  OBVIOUS
<1>1. n \in Nat /\ DOMAIN commits = 1..n
  BY DEF Plain
<1>2. DOMAIN steps = 1..n /\ \A k \in 1..n : steps[k].commit \in all
  <2>1. Len(steps) = n
    BY DEF Rearranged
  <2>2. DOMAIN steps = 1..n
    BY <2>1, RowsAre
  <2>3. ASSUME NEW k \in 1..n PROVE steps[k].commit \in all
    <3>1. k \in DOMAIN steps
      BY <2>2
    <3>2. \A m \in DOMAIN steps : \E l \in DOMAIN commits : steps[m].commit = commits[l]
      <4>1. Rearranged(steps, commits)
        OBVIOUS
      <4> QED BY ONLY <4>1, RowsAre
    <3>3. PICK l \in DOMAIN commits : steps[k].commit = commits[l]
      BY <3>1, <3>2
    <3> QED BY <3>3 DEF ToSet
  <2> QED BY <2>2, <2>3
<1>3. f \in Surjection(1..n, all)
  <2>1. \A x \in all : \E k \in 1..n : f[k] = x
    <3> SUFFICES ASSUME NEW x \in all PROVE \E k \in 1..n : f[k] = x
      OBVIOUS
    <3>1. PICK k \in DOMAIN commits : x = commits[k]
      BY DEF ToSet
    <3>2. PICK l \in DOMAIN steps : steps[l].commit = commits[k]
      BY DEF Rearranged
    <3> QED BY <1>2, <3>1, <3>2
  <2> QED BY <1>2, <2>1 DEF Surjection
<1>4. g \in Surjection(1..n, all) /\ g \in Injection(1..n, all)
  <2>1. \A k \in 1..n : g[k] \in all
    BY <1>1 DEF ToSet
  <2>2. \A x \in all : \E k \in 1..n : g[k] = x
    BY <1>1 DEF ToSet
  <2>3. \A k, l \in 1..n : g[k] = g[l] => k = l
    BY <1>1 DEF Plain
  <2> QED BY <2>1, <2>2, <2>3 DEF Surjection, Injection, IsInjective
<1>5. IsFiniteSet(1..n)
  BY <1>1, FS_Interval
<1>6. Cardinality(all) = Cardinality(1..n)
  BY <1>4, <1>5, FS_Surjection
<1>7. f \in Injection(1..n, all)
  BY <1>3, <1>5, <1>6, FS_Surjection
<1> QED BY <1>2, <1>7 DEF Injection, IsInjective

\* What goes down to the first is a range.
LEMMA DownToTheFirst ==
    ASSUME NEW n \in Nat, NEW S \in SUBSET (1..n), \A i \in S : \A j \in 1..i : j \in S
    PROVE  Cardinality(S) \in 0..n /\ S = 1..Cardinality(S)
<1> PICK size : size = Cardinality(S)
  OBVIOUS
<1> PICK at : at = Place(S)
  OBVIOUS
<1>1. IsFiniteSet(1..n) /\ Cardinality(1..n) = n
  BY FS_Interval
<1>2. IsFiniteSet(S) /\ size <= n
  <2>1. IsFiniteSet(S) /\ Cardinality(S) <= Cardinality(1..n)
    BY <1>1, FS_Subset
  <2> QED BY <1>1, <2>1
<1>3. S \in SUBSET Int
  <2>1. \A i \in S : i \in Int
    OBVIOUS
  <2> QED BY <2>1
<1>4. /\ size \in Nat /\ at \in [1..size -> S]
      /\ \A i \in S : \E m \in 1..size : at[m] = i
      /\ \A m \in 1..size : Cardinality({j \in S : j < at[m]}) = m - 1
  BY <1>2, <1>3, PlacesAreInOrder
<1>5. ASSUME NEW m \in 1..size PROVE at[m] = m
  <2> PICK i \in S : i = at[m]
    BY <1>4
  <2>1. i \in Int /\ i >= 1
    OBVIOUS
  <2>2. {j \in S : j < i} = 1..(i - 1)
    <3>1. \A j \in S : j \in Int /\ j >= 1
      OBVIOUS
    <3>2. \A j \in 1..i : j \in S
      OBVIOUS
    <3>3. \A j \in 1..(i - 1) : j \in S /\ j < i
      BY <2>1, <3>2
    <3>4. \A j \in S : j < i => j \in 1..(i - 1)
      BY <2>1, <3>1
    <3> QED BY <3>3, <3>4
  <2>3. Cardinality(1..(i - 1)) = i - 1
    <3> PICK b \in Int : b = i - 1
      BY <2>1
    <3>1. 1 \in Int
      OBVIOUS
    <3>2. Cardinality(1..b) = IF 1 > b THEN 0 ELSE b - 1 + 1
      BY <3>1, FS_Interval
    <3> QED BY <2>1, <3>2
  <2>4. i - 1 = m - 1
    BY <1>4, <2>2, <2>3
  <2>5. m \in Int
    OBVIOUS
  <2> QED BY <2>1, <2>4, <2>5
<1>6. S = 1..size
  <2>1. \A i \in S : i \in 1..size
    BY <1>4, <1>5
  <2>2. \A m \in 1..size : m \in S
    BY <1>4, <1>5
  <2> QED BY <2>1, <2>2
<1> QED BY <1>2, <1>4, <1>6

\* Up to which row a plan is what was there.
Same(steps, commits, j) == j \in DOMAIN commits /\ steps[j] = [commit |-> commits[j], instruction |-> "pick"]

LEMMA UntouchedAre ==
    ASSUME NEW steps, NEW commits, Len(steps) \in Nat, DOMAIN steps = 1..Len(steps)
    PROVE  /\ Untouched(steps, commits) \in 0..Len(steps)
           /\ \A i \in DOMAIN steps : i <= Untouched(steps, commits) <=> \A j \in 1..i : Same(steps, commits, j)
<1> PICK n : n = Len(steps)
  OBVIOUS
<1> PICK S : S = {i \in DOMAIN steps : \A j \in 1..i : Same(steps, commits, j)}
  OBVIOUS
<1>1. Untouched(steps, commits) = Cardinality(S)
  BY DEF Untouched, Same
<1>2. S \in SUBSET (1..n) /\ \A i \in S : \A j \in 1..i : j \in S
  <2>1. \A i \in S : i \in 1..n
    OBVIOUS
  <2>2. ASSUME NEW i \in S, NEW j \in 1..i PROVE j \in S
    <3>1. i \in 1..n
      OBVIOUS
    <3>2. j \in 1..n
      BY <3>1
    <3>3. \A l \in 1..j : l \in 1..i
      BY <3>1
    <3> QED BY <3>2, <3>3
  <2> QED BY <2>1, <2>2
<1>3. Cardinality(S) \in 0..n /\ S = 1..Cardinality(S)
  BY <1>2, DownToTheFirst
<1>4. \A i \in 1..n : i <= Cardinality(S) <=> i \in S
  BY <1>3
<1> QED BY <1>1, <1>3, <1>4

\* All that one list has, but for a place of it, is in the other.
Among(e, w) == \E k \in 1..Len(w) : w[k] = e
Each(s, w) == \A j \in 1..Len(s) : Among(s[j], w)
EachBut(s, i, w) == \A j \in 1..Len(s) : j # i => Among(s[j], w)

LEMMA Glued ==
    ASSUME NEW R, NEW front \in Seq(R), NEW back \in Seq(R), NEW a \in Nat, NEW b \in Nat, NEW n \in Nat,
           Len(front) = a, Len(back) = b, n = a + b
    PROVE  /\ front \o back \in Seq(R) /\ Len(front \o back) = n
           /\ Each(front, front \o back) /\ Each(back, front \o back)
<1> PICK whole : whole = front \o back
  OBVIOUS
<1>1. /\ whole \in Seq(R) /\ Len(whole) = n
      /\ \A j \in 1..n : whole[j] = IF j <= a THEN front[j] ELSE back[j - a]
  BY ConcatProperties
<1>2. ASSUME NEW j \in 1..a PROVE \E k \in 1..n : whole[k] = front[j]
  <2>1. j \in 1..n /\ j <= a
    OBVIOUS
  <2> QED BY <1>1, <2>1
<1>3. ASSUME NEW j \in 1..b PROVE \E k \in 1..n : whole[k] = back[j]
  <2>1. a + j \in 1..n /\ ~(a + j <= a) /\ (a + j) - a = j
    OBVIOUS
  <2> QED BY <1>1, <2>1
<1>4. Each(front, whole) /\ Each(back, whole)
  BY <1>1, <1>2, <1>3 DEF Each, Among
<1> QED BY <1>1, <1>4

\* A row is taken out of a plan, and put in.
LEMMA TakenOut ==
    ASSUME NEW R, NEW s \in Seq(R), NEW n \in Nat, NEW m \in Nat, n = m + 1, Len(s) = n, NEW i \in 1..n
    PROVE  /\ RemoveAt(s, i) \in Seq(R) /\ Len(RemoveAt(s, i)) = m
           /\ EachBut(s, i, RemoveAt(s, i))
<1> PICK a \in Nat : a = i - 1
  OBVIOUS
<1> PICK b \in Nat : b = n - i
  OBVIOUS
<1>0. i \in Int /\ a + b = m /\ i = a + 1
  OBVIOUS
<1> PICK front : front = SubSeq(s, 1, i - 1)
  OBVIOUS
<1> PICK back : back = SubSeq(s, i + 1, n)
  OBVIOUS
<1>1. RemoveAt(s, i) = front \o back
  BY DEF RemoveAt
<1>2. front \in Seq(R) /\ Len(front) = a /\ \A j \in 1..a : front[j] = s[j]
  OBVIOUS
<1>3. back \in Seq(R) /\ Len(back) = b /\ \A j \in 1..b : back[j] = s[i + j]
  OBVIOUS
<1> PICK whole : whole = front \o back
  OBVIOUS
<1>4. /\ whole \in Seq(R) /\ Len(whole) = m
      /\ Each(front, whole) /\ Each(back, whole)
  <2>1. /\ front \in Seq(R) /\ back \in Seq(R) /\ Len(front) = a /\ Len(back) = b
        /\ a \in Nat /\ b \in Nat /\ m \in Nat /\ m = a + b
    BY <1>0, <1>2, <1>3
  <2>2. /\ front \o back \in Seq(R) /\ Len(front \o back) = m
        /\ Each(front, front \o back) /\ Each(back, front \o back)
    BY ONLY <2>1, Glued
  <2> QED BY <2>2
<1>5. ASSUME NEW k \in 1..n, k # i PROVE Among(s[k], whole)
  <2>1. CASE k < i
    <3>1. k \in 1..a
      BY <1>0, <2>1
    <3>2. Among(front[k], whole)
      BY <1>2, <1>4, <3>1 DEF Each
    <3> QED BY <1>2, <3>1, <3>2
  <2>2. CASE ~(k < i)
    <3>1. k - i \in 1..b /\ i + (k - i) = k
      BY <1>0, <1>5, <2>2
    <3>2. Among(back[k - i], whole)
      BY <1>3, <1>4, <3>1 DEF Each
    <3> QED BY <1>3, <3>1, <3>2
  <2> QED BY <2>1, <2>2
<1>6. EachBut(s, i, whole)
  BY <1>5 DEF EachBut
<1> QED BY <1>1, <1>4, <1>6

LEMMA PutIn ==
    ASSUME NEW R, NEW s \in Seq(R), NEW n \in Nat, NEW m \in Nat, n = m + 1, Len(s) = m, NEW i \in 1..n, NEW e \in R
    PROVE  /\ InsertAt(s, i, e) \in Seq(R) /\ Len(InsertAt(s, i, e)) = n
           /\ Each(s, InsertAt(s, i, e)) /\ Among(e, InsertAt(s, i, e))
<1> PICK a \in Nat : a = i - 1
  OBVIOUS
<1> PICK b \in Nat : b = m + 1 - i
  OBVIOUS
<1> PICK c \in Nat : c = a + 1
  OBVIOUS
<1>0. i \in Int /\ c + b = n /\ i = a + 1 /\ 1 \in Nat /\ a + b = m
  OBVIOUS
<1> PICK below : below = SubSeq(s, 1, i - 1)
  OBVIOUS
<1> PICK one : one = <<e>>
  OBVIOUS
<1> PICK front : front = below \o one
  OBVIOUS
<1> PICK back : back = SubSeq(s, i, m)
  OBVIOUS
<1>1. InsertAt(s, i, e) = front \o back
  BY DEF InsertAt
<1>2. below \in Seq(R) /\ Len(below) = a /\ \A j \in 1..a : below[j] = s[j]
  OBVIOUS
<1>3. one \in Seq(R) /\ Len(one) = 1 /\ one[1] = e
  OBVIOUS
<1>4. /\ front \in Seq(R) /\ Len(front) = c
      /\ Each(below, front) /\ Each(one, front)
  <2> PICK u \in Nat : u = 1
    OBVIOUS
  <2>1. /\ below \in Seq(R) /\ one \in Seq(R) /\ Len(below) = a /\ Len(one) = u
        /\ a \in Nat /\ u \in Nat /\ c \in Nat /\ c = a + u
    BY <1>2, <1>3
  <2>2. /\ below \o one \in Seq(R) /\ Len(below \o one) = c
        /\ Each(below, below \o one) /\ Each(one, below \o one)
    BY ONLY <2>1, Glued
  <2> QED BY <2>2
<1>5. back \in Seq(R) /\ Len(back) = b /\ \A j \in 1..b : back[j] = s[a + j]
  <2>1. back = SubSeq(s, a + 1, m)
    BY <1>0
  <2>2. m - a = b /\ m = Len(s) /\ a + 1 \in 1..(m + 1) /\ m \in Nat /\ a \in Nat
    BY <1>0
  <2>3. s \in Seq(R)
    OBVIOUS
  <2>4. SubSeq(s, a + 1, m) \in Seq(R) /\ Len(SubSeq(s, a + 1, m)) = b
        /\ \A j \in 1..b : SubSeq(s, a + 1, m)[j] = s[a + j]
    BY ONLY <2>2, <2>3
  <2> QED BY <2>1, <2>4
<1> PICK whole : whole = front \o back
  OBVIOUS
<1>6. /\ whole \in Seq(R) /\ Len(whole) = n
      /\ Each(front, whole) /\ Each(back, whole)
  <2>1. /\ front \in Seq(R) /\ back \in Seq(R) /\ Len(front) = c /\ Len(back) = b
        /\ c \in Nat /\ b \in Nat /\ n \in Nat /\ n = c + b
    BY <1>0, <1>4, <1>5
  <2>2. /\ front \o back \in Seq(R) /\ Len(front \o back) = n
        /\ Each(front, front \o back) /\ Each(back, front \o back)
    BY ONLY <2>1, Glued
  <2> QED BY <2>2
<1>7. ASSUME NEW k \in 1..m PROVE Among(s[k], whole)
  <2>1. CASE k < i
    <3>1. k \in 1..a
      BY <1>0, <2>1
    <3>2. Among(s[k], front)
      BY <1>2, <1>4, <3>1 DEF Each
    <3>3. PICK j \in 1..c : front[j] = s[k]
      BY <1>4, <3>2 DEF Among
    <3>4. Among(front[j], whole)
      BY <1>4, <1>6 DEF Each
    <3> QED BY <3>3, <3>4
  <2>2. CASE ~(k < i)
    <3>1. k - a \in 1..b /\ a + (k - a) = k
      BY <1>0, <2>2
    <3>2. Among(back[k - a], whole)
      BY <1>5, <1>6, <3>1 DEF Each
    <3> QED BY <1>5, <3>1, <3>2
  <2> QED BY <2>1, <2>2
<1>8. Each(s, whole)
  BY <1>7 DEF Each
<1>9. Among(e, whole)
  <2>1. 1 \in 1..1
    OBVIOUS
  <2>2. Among(e, front)
    BY <1>3, <1>4, <2>1 DEF Each
  <2>3. PICK j \in 1..c : front[j] = e
    BY <1>4, <2>2 DEF Among
  <2>4. Among(front[j], whole)
    BY <1>4, <1>6 DEF Each
  <2> QED BY <2>3, <2>4
<1> QED BY <1>1, <1>6, <1>8, <1>9

\* A row that is moved leaves the others in the plan.
LEMMA MovedAre ==
    ASSUME NEW steps, NEW commits, Rearranged(steps, commits),
           NEW from \in DOMAIN steps, NEW to \in DOMAIN steps, from # to
    PROVE  Rearranged(MoveStep(steps, from, to), commits)
<1> PICK R : R = [commit : ToSet(commits), instruction : Instructions]
  OBVIOUS
<1> PICK n : n = Len(steps)
  OBVIOUS
<1>1. steps \in Seq(R) /\ n \in Nat /\ DOMAIN steps = 1..n /\ Len(commits) = n
  <2>1. n \in Nat /\ DOMAIN steps = 1..n
    BY RowsAre
  <2> QED BY <2>1 DEF Rearranged
<1>2. from \in 1..n /\ to \in 1..n /\ steps[from] \in R
  BY <1>1, ElementOfSeq
<1> PICK m \in Nat : n = m + 1
  <2>1. n - 1 \in Nat /\ n = (n - 1) + 1
    BY <1>1, <1>2
  <2> QED BY <2>1
<1> PICK e \in R : e = steps[from]
  BY <1>2
<1> PICK rest : rest = RemoveAt(steps, from)
  OBVIOUS
<1>3. /\ rest \in Seq(R) /\ Len(rest) = m
      /\ EachBut(steps, from, rest)
  <2>1. steps \in Seq(R) /\ n \in Nat /\ m \in Nat /\ n = m + 1 /\ Len(steps) = n /\ from \in 1..n
    BY <1>1, <1>2
  <2>2. /\ RemoveAt(steps, from) \in Seq(R) /\ Len(RemoveAt(steps, from)) = m
        /\ EachBut(steps, from, RemoveAt(steps, from))
    BY ONLY <2>1, TakenOut
  <2> QED BY <2>2
<1> PICK moved : moved = InsertAt(rest, to, e)
  OBVIOUS
<1>4. MoveStep(steps, from, to) = moved
  BY DEF MoveStep
<1>5. /\ moved \in Seq(R) /\ Len(moved) = n
      /\ Each(rest, moved) /\ Among(e, moved)
  <2>1. e \in R /\ rest \in Seq(R) /\ n \in Nat /\ m \in Nat /\ n = m + 1 /\ Len(rest) = m /\ to \in 1..n
    BY <1>1, <1>2, <1>3
  <2>2. /\ InsertAt(rest, to, e) \in Seq(R) /\ Len(InsertAt(rest, to, e)) = n
        /\ Each(rest, InsertAt(rest, to, e)) /\ Among(e, InsertAt(rest, to, e))
    BY ONLY <2>1, PutIn
  <2> QED BY <2>2
<1>6. ASSUME NEW i \in 1..n PROVE \E j \in 1..n : moved[j] = steps[i]
  <2>1. CASE i = from
    BY <1>5, <2>1 DEF Among
  <2>2. CASE i # from
    <3>1. Among(steps[i], rest)
      BY <1>3, <2>2 DEF EachBut
    <3>2. PICK k \in 1..m : rest[k] = steps[i]
      BY <1>3, <3>1 DEF Among
    <3>3. Among(rest[k], moved)
      BY <1>3, <1>5 DEF Each
    <3> QED BY <1>5, <3>2, <3>3 DEF Among
  <2> QED BY <2>1, <2>2
<1>7. DOMAIN moved = 1..n
  BY <1>1, <1>5
<1>8. ASSUME NEW k \in DOMAIN commits PROVE \E j \in DOMAIN moved : moved[j].commit = commits[k]
  <2>1. PICK i \in DOMAIN steps : steps[i].commit = commits[k]
    BY DEF Rearranged
  <2>2. PICK j \in 1..n : moved[j] = steps[i]
    BY <1>1, <1>6
  <2> QED BY <1>7, <2>1, <2>2
<1> QED BY <1>1, <1>4, <1>5, <1>8 DEF Rearranged

\* Another instruction leaves its commit where it is.
LEMMA InstructedAre ==
    ASSUME NEW steps, NEW commits, Rearranged(steps, commits), NEW at \in DOMAIN steps, NEW instruction \in Instructions
    PROVE  Rearranged([steps EXCEPT ![at].instruction = instruction], commits)
<1> PICK R : R = [commit : ToSet(commits), instruction : Instructions]
  OBVIOUS
<1> PICK told : told = [steps EXCEPT ![at].instruction = instruction]
  OBVIOUS
<1>1. steps \in Seq(R) /\ Len(steps) = Len(commits) /\ Len(steps) \in Nat /\ DOMAIN steps = 1..Len(steps)
  BY RowsAre DEF Rearranged
<1> PICK n : n = Len(steps)
  OBVIOUS
<1>2. steps \in [1..n -> R]
  <2>0. steps \in Seq(R)
    BY <1>1
  <2>1. PICK m \in Nat : steps \in [1..m -> R]
    BY ONLY <2>0, SeqDef
  <2>2. m = n
    BY <1>1, <2>1
  <2> QED BY <2>1, <2>2
<1>3. told \in [1..n -> R] /\ \A i \in 1..n : told[i].commit = steps[i].commit
  BY <1>2
<1>4. told \in Seq(R) /\ Len(told) = n
  BY <1>1, <1>3
<1>5. \A k \in DOMAIN commits : \E i \in DOMAIN told : told[i].commit = commits[k]
  BY <1>1, <1>3 DEF Rearranged
<1> QED BY <1>1, <1>4, <1>5 DEF Rearranged

-----------------------------------------------------------------------------
(* Of the page and the daemon. *)

LEMMA GitStays == ASSUME InGit, git' = git PROVE InGit'
BY DEF InGit

LEMMA PickIsOne == "pick" \in Instructions
BY DEF Instructions

LEMMA InitialAre ==
    ASSUME NEW commits, Plain(commits)
    PROVE  Rearranged(InitialSteps(commits), commits)
<1> PICK n : n = Len(commits)
  OBVIOUS
<1> PICK R : R = [commit : ToSet(commits), instruction : Instructions]
  OBVIOUS
<1> PICK steps : steps = [i \in DOMAIN commits |-> [commit |-> commits[i], instruction |-> "pick"]]
  OBVIOUS
<1>1. n \in Nat /\ DOMAIN commits = 1..n
  BY PlainIs
<1>2. ASSUME NEW i \in 1..n PROVE steps[i] \in R /\ steps[i].commit = commits[i]
  <2>1. commits[i] \in ToSet(commits)
    BY <1>1 DEF ToSet
  <2> QED BY <1>1, <2>1, PickIsOne
<1>3. steps \in [1..n -> R]
  BY <1>1, <1>2
<1>4. steps \in Seq(R) /\ Len(steps) = n /\ DOMAIN steps = 1..n
  BY <1>1, <1>3
<1>5. \A k \in DOMAIN commits : \E i \in DOMAIN steps : steps[i].commit = commits[k]
  BY <1>1, <1>2, <1>4
<1> QED BY <1>4, <1>5 DEF Rearranged, InitialSteps

\* The dialog opens over the branch as it is.
LEMMA PlanKeeps == ASSUME PlansInv, Plan PROVE PlansInv'
<1>1. /\ ~dialog.open /\ request.phase = "none" /\ git.phase = "idle" /\ toast = Silent
      /\ dialog' = [open |-> TRUE, commits |-> history, steps |-> InitialSteps(history)]
      /\ UNCHANGED <<history, request, git, toast, rewrites, landed>>
  BY DEF Plan
<1>2. Plain(history) /\ Made(history)
  BY <1>1 DEF PlansInv, OfBranch
<1>3. Rearranged(InitialSteps(history), history)
  BY <1>2, InitialAre
<1>4. Shapes'
  BY <1>1 DEF PlansInv, Shapes
<1>5. OfBranch'
  BY <1>1 DEF PlansInv, OfBranch, Made
<1>6. OnScreen'
  BY <1>1, <1>2, <1>3 DEF OnScreen
<1>7. InFlight'
  BY <1>1 DEF InFlight
<1>8. InGit' /\ Told'
  BY <1>1, GitStays DEF PlansInv, Told
<1> QED BY <1>4, <1>5, <1>6, <1>7, <1>8 DEF PlansInv

LEMMA CancelKeeps == ASSUME PlansInv, Cancel PROVE PlansInv'
<1>1. /\ request.phase = "none" /\ dialog' = NoDialog
      /\ UNCHANGED <<history, request, git, toast, rewrites, landed>>
  BY DEF Cancel
<1>2. ~dialog'.open
  BY <1>1 DEF NoDialog
<1>3. Shapes'
  BY <1>1 DEF PlansInv, Shapes, NoDialog
<1>4. OfBranch'
  BY <1>1 DEF PlansInv, OfBranch, Made
<1>5. OnScreen' /\ InFlight'
  BY <1>1, <1>2 DEF OnScreen, InFlight
<1>6. InGit' /\ Told'
  BY <1>1, GitStays DEF PlansInv, Told
<1> QED BY <1>3, <1>4, <1>5, <1>6 DEF PlansInv

\* The plan is written: rows are moved, and told another thing.
LEMMA Written ==
    ASSUME PlansInv, NEW steps, Writing, dialog' = [dialog EXCEPT !.steps = steps],
           Rearranged(dialog.steps, dialog.commits) => Rearranged(steps, dialog.commits),
           UNCHANGED <<history, request, git, toast, landed>>
    PROVE  PlansInv'
<1>1. dialog.open /\ request.phase = "none"
  BY DEF Writing
<1>2. dialog' = [open |-> dialog.open, commits |-> dialog.commits, steps |-> steps]
  BY DEF PlansInv, Shapes
<1>3. Shapes'
  BY <1>1, <1>2 DEF PlansInv, Shapes
<1>4. OfBranch'
  BY DEF PlansInv, OfBranch, Made
<1>5. OnScreen'
  BY <1>1, <1>2 DEF PlansInv, OnScreen
<1>6. InFlight'
  BY <1>1 DEF InFlight
<1>7. InGit' /\ Told'
  BY GitStays DEF PlansInv, Told
<1> QED BY <1>3, <1>4, <1>5, <1>6, <1>7 DEF PlansInv

LEMMA MoveKeeps ==
    ASSUME PlansInv, NEW at \in DOMAIN dialog.steps, NEW by \in {-1, 1}, Move(at, by)
    PROVE  PlansInv'
<1> PICK to : to = at + by
  OBVIOUS
<1>1. /\ Writing /\ to \in DOMAIN dialog.steps
      /\ dialog' = [dialog EXCEPT !.steps = MoveStep(dialog.steps, at, to)]
      /\ UNCHANGED <<history, request, git, toast, landed>>
  BY DEF Move
<1>2. Rearranged(dialog.steps, dialog.commits)
  BY <1>1 DEF PlansInv, OnScreen, Writing
<1>3. at # to
  <2>1. DOMAIN dialog.steps = 1..Len(dialog.steps)
    BY <1>2, RowsAre
  <2>2. at \in Int
    BY <2>1
  <2> QED BY <2>2
<1>4. Rearranged(MoveStep(dialog.steps, at, to), dialog.commits)
  BY <1>1, <1>2, <1>3, MovedAre
<1> QED BY <1>1, <1>4, Written

LEMMA InstructionKeeps ==
    ASSUME PlansInv, NEW at \in DOMAIN dialog.steps, NEW instruction \in Instructions, WithInstruction(at, instruction)
    PROVE  PlansInv'
<1> PICK steps : steps = dialog.steps
  OBVIOUS
<1>1. /\ Writing
      /\ dialog' = [dialog EXCEPT !.steps = [steps EXCEPT ![at].instruction = instruction]]
      /\ UNCHANGED <<history, request, git, toast, landed>>
  BY DEF WithInstruction, PlansInv, Shapes
<1>2. Rearranged(steps, dialog.commits)
  BY <1>1 DEF PlansInv, OnScreen, Writing
<1>3. Rearranged([steps EXCEPT ![at].instruction = instruction], dialog.commits)
  BY <1>2, InstructedAre
<1> QED BY <1>1, <1>3, Written

LEMMA ConfirmKeeps == ASSUME PlansInv, Confirm PROVE PlansInv'
<1>1. /\ dialog.open /\ request.phase = "none" /\ ~PlanRefused(dialog.steps, dialog.commits)
      /\ request' = [phase |-> "sent", steps |-> dialog.steps]
      /\ UNCHANGED <<history, dialog, git, toast, landed>>
  BY DEF Confirm
<1>2. Shapes'
  BY <1>1 DEF PlansInv, Shapes
<1>3. OfBranch'
  BY <1>1 DEF PlansInv, OfBranch, Made
<1>4. OnScreen'
  BY <1>1 DEF PlansInv, OnScreen
<1>5. InFlight'
  BY <1>1 DEF InFlight
<1>6. InGit' /\ Told'
  BY <1>1, GitStays DEF PlansInv, Told
<1> QED BY <1>2, <1>3, <1>4, <1>5, <1>6 DEF PlansInv

\* The request is answered, and the dialog closes.
LEMMA AnswerKeeps ==
    ASSUME PlansInv, NEW answer, Answered(answer), UNCHANGED <<history, git, landed>>,
           answer.tone \in {"refused", "failed", "stopped", "rewrote"}
    PROVE  PlansInv'
<1>1. request' = NoRequest /\ dialog' = NoDialog /\ toast' = answer
  BY DEF Answered
<1>2. request'.phase = "none" /\ ~dialog'.open
  BY <1>1 DEF NoRequest, NoDialog
<1>3. Shapes'
  BY <1>1 DEF PlansInv, Shapes, NoRequest, NoDialog
<1>4. OfBranch'
  BY DEF PlansInv, OfBranch, Made
<1>5. OnScreen' /\ InFlight'
  BY <1>2 DEF OnScreen, InFlight
<1>6. InGit' /\ Told'
  BY <1>1, GitStays DEF PlansInv, Told
<1> QED BY <1>3, <1>4, <1>5, <1>6 DEF PlansInv

\* What is told to be of a range has its commits, each once.
LEMMA CheckedIs ==
    ASSUME NEW steps, NEW commits, NEW range, Rearranged(steps, commits), Plain(range), CheckPlan(steps, range)
    PROVE  Approved(steps, range)
<1> PICK n : n = Len(steps)
  OBVIOUS
<1> PICK R : R = [commit : ToSet(range), instruction : Instructions]
  OBVIOUS
<1>1. steps # <<>> /\ n = Len(range) /\ {step.commit : step \in ToSet(steps)} = ToSet(range) /\ ~FirstKeptCombines(steps)
  BY DEF CheckPlan
<1>2. n \in Nat /\ DOMAIN steps = 1..n
  BY RowsAre
<1>3. \A i \in 1..n : steps[i] = [commit |-> steps[i].commit, instruction |-> steps[i].instruction]
                      /\ steps[i].instruction \in Instructions
  BY <1>2, RowsAre
<1>4. ASSUME NEW i \in 1..n PROVE steps[i] \in R
  <2>1. steps[i] \in ToSet(steps)
    BY <1>2 DEF ToSet
  <2>2. steps[i].commit \in ToSet(range)
    BY <1>1, <2>1
  <2>3. PICK c \in ToSet(range), instruction \in Instructions : steps[i] = [commit |-> c, instruction |-> instruction]
    BY <1>3, <2>2
  <2>4. [commit |-> c, instruction |-> instruction] \in [commit : ToSet(range), instruction : Instructions]
    OBVIOUS
  <2> QED BY <2>3, <2>4
<1>5. steps \in Seq(R)
  <2>1. \E X : steps \in Seq(X)
    BY DEF Rearranged
  <2>2. steps \in [1..n -> R]
    BY <1>2, <1>4, <2>1
  <2> QED BY <1>2, <2>2, SeqDef, ZenonT(40)
<1>6. ASSUME NEW k \in DOMAIN range PROVE \E i \in DOMAIN steps : steps[i].commit = range[k]
  <2>1. range[k] \in ToSet(range)
    BY DEF ToSet
  <2>2. PICK step \in ToSet(steps) : step.commit = range[k]
    BY <1>1, <2>1
  <2> QED BY <2>2 DEF ToSet
<1>7. Rearranged(steps, range)
  BY <1>1, <1>5, <1>6 DEF Rearranged
<1> QED BY <1>1, <1>7 DEF Approved

\* And what is of it, and asks nothing that cannot be done, passes.
LEMMA OwnPlanPasses ==
    ASSUME NEW steps, NEW range, Rearranged(steps, range), ~PlanRefused(steps, range)
    PROVE  CheckPlan(steps, range) /\ range # <<>>
<1>1. steps # <<>> /\ ~FirstKeptCombines(steps)
  BY DEF PlanRefused
<1>2. Len(steps) = Len(range) /\ \A k \in DOMAIN range : \E i \in DOMAIN steps : steps[i].commit = range[k]
  BY DEF Rearranged
<1>3. \A i \in DOMAIN steps : \E k \in DOMAIN range : steps[i].commit = range[k]
  BY RowsAre
<1>4. {step.commit : step \in ToSet(steps)} = ToSet(range)
  <2>1. ASSUME NEW step \in ToSet(steps) PROVE step.commit \in ToSet(range)
    BY <1>3 DEF ToSet
  <2>2. ASSUME NEW c \in ToSet(range) PROVE \E step \in ToSet(steps) : step.commit = c
    BY <1>2 DEF ToSet
  <2> QED BY <2>1, <2>2
<1>5. range # <<>>
  <2>1. Len(steps) \in Nat /\ DOMAIN steps = 1..Len(steps)
    BY RowsAre
  <2>2. \E X : steps \in Seq(X)
    BY DEF Rearranged
  <2>3. Len(steps) # 0
    BY <1>1, <2>2
  <2> QED BY <1>2, <2>3
<1> QED BY <1>1, <1>2, <1>4, <1>5 DEF CheckPlan

LEMMA HandleKeeps == ASSUME PlansInv, Handle PROVE PlansInv'
<1>1. request.phase = "sent" /\ UNCHANGED <<history, git, landed>>
  BY DEF Handle
<1>2. dialog.open /\ request.steps = dialog.steps /\ ~PlanRefused(dialog.steps, dialog.commits)
  BY <1>1 DEF PlansInv, InFlight
<1>3. /\ Rearranged(dialog.steps, dialog.commits) /\ git.phase = "idle"
      /\ landed = 0 => history = dialog.commits
  BY <1>1, <1>2 DEF PlansInv, OnScreen
<1>4. CASE history # <<>> /\ CheckPlan(request.steps, history)
  <2>1. request' = [request EXCEPT !.phase = "checked"] /\ UNCHANGED <<dialog, toast>>
    BY <1>4 DEF Handle
  <2>2. Plain(history)
    BY <1>3 DEF PlansInv, OfBranch
  <2>3. Approved(request.steps, history)
    BY <1>2, <1>3, <1>4, <2>2, CheckedIs
  <2>4. request' = [phase |-> "checked", steps |-> request.steps]
    BY <2>1 DEF PlansInv, Shapes
  <2>5. Shapes'
    BY <1>1, <2>1, <2>4 DEF PlansInv, Shapes
  <2>6. OfBranch'
    BY <1>1 DEF PlansInv, OfBranch, Made
  <2>7. OnScreen'
    BY <1>1, <1>3, <2>1, <2>4 DEF PlansInv, OnScreen
  <2>8. InFlight'
    BY <1>1, <1>2, <2>1, <2>3, <2>4 DEF InFlight
  <2>9. InGit' /\ Told'
    BY <1>1, <2>1, GitStays DEF PlansInv, Told
  <2> QED BY <2>5, <2>6, <2>7, <2>8, <2>9 DEF PlansInv
<1>5. CASE ~(history # <<>> /\ CheckPlan(request.steps, history))
  <2>1. Answered([Silent EXCEPT !.tone = "refused"])
    BY <1>5 DEF Handle
  <2> QED BY <1>1, <2>1, AnswerKeeps DEF Silent
<1> QED BY <1>4, <1>5

LEMMA RefusedKeeps == ASSUME PlansInv, RebaseRefused PROVE PlansInv'
<1>1. Answered([Silent EXCEPT !.tone = "failed"]) /\ UNCHANGED <<history, git, landed>>
  BY DEF RebaseRefused
<1> QED BY <1>1, AnswerKeeps DEF Silent

\* Git is started over what was checked.
LEMMA NothingDoneYet ==
    ASSUME NEW g, Approved(g.todo, g.was), g.phase = "running", g.done = 0, g.made = <<>>, g.stops = 0, g.amended = TRUE
    PROVE  Rebased(g)
<1>1. \A which : Of(g, which) = {}
  BY DEF Of
<1>2. Lowest(g) \in Nat
  <2>1. Len(g.todo) \in Nat /\ DOMAIN g.todo = 1..Len(g.todo)
    BY RowsAre DEF Approved
  <2> QED BY <2>1, UntouchedAre DEF Lowest
<1>3. <<>> \in Seq(Commits) /\ DOMAIN (<<>>) = {} /\ Len(<<>>) = 0
  OBVIOUS
<1>4. Given(g)
  <2>1. 0 \in 0..Len(g.todo)
    BY RowsAre DEF Approved
  <2> QED BY <1>3, <2>1 DEF Given
<1>5. Counts(g)
  BY <1>1, <1>3, FS_EmptySet DEF Counts
<1>6. Holding(g)
  BY <1>1, <1>3 DEF Holding
<1>7. Bottom(g)
  <2>1. SubSeq(g.was, 1, 0) = <<>>
    <3>1. g.was \in Seq(Commits)
      BY DEF Approved, Plain
    <3> QED BY <3>1
  <2> QED BY <1>2, <2>1 DEF Bottom
<1>8. Top(g)
  BY <1>2, <1>3 DEF Top
<1> QED BY <1>4, <1>5, <1>6, <1>7, <1>8 DEF Rebased

LEMMA StartKeeps == ASSUME PlansInv, RebaseInteractive PROVE PlansInv'
<1>1. /\ request.phase = "checked"
      /\ request' = [request EXCEPT !.phase = "running"]
      /\ git' = [Idle EXCEPT !.phase = "running", !.todo = request.steps, !.was = history]
      /\ UNCHANGED <<history, dialog, toast, landed>>
  BY DEF RebaseInteractive
<1>2. dialog.open /\ Approved(request.steps, history) /\ git.phase = "idle"
  BY <1>1 DEF PlansInv, InFlight, OnScreen
<1>3. request' = [phase |-> "running", steps |-> request.steps]
  BY <1>1 DEF PlansInv, Shapes
<1>4. git' = [phase |-> "running", todo |-> request.steps, done |-> 0, made |-> <<>>, was |-> history,
              stops |-> 0, amended |-> TRUE]
  BY <1>1 DEF Idle
<1>5. Shapes'
  BY <1>1, <1>3, <1>4 DEF PlansInv, Shapes
<1>6. OfBranch'
  BY <1>1, <1>2, <1>4 DEF PlansInv, OfBranch, Made
<1>7. OnScreen'
  BY <1>1, <1>3 DEF PlansInv, OnScreen
<1>8. InFlight'
  BY <1>1, <1>2, <1>3, <1>4 DEF InFlight
<1>9. InGit'
  <2> PICK h : h = git'
    OBVIOUS
  <2>1. /\ h.todo = request.steps /\ h.was = history /\ h.phase = "running" /\ h.done = 0 /\ h.made = <<>>
        /\ h.stops = 0 /\ h.amended = TRUE
    BY <1>4
  <2>2. Approved(h.todo, h.was)
    BY <1>2, <2>1
  <2>3. Rebased(h)
    BY <2>1, <2>2, NothingDoneYet
  <2> QED BY <2>3 DEF InGit
<1>10. Told'
  BY <1>1, <1>2 DEF PlansInv, Told
<1> QED BY <1>5, <1>6, <1>7, <1>8, <1>9, <1>10 DEF PlansInv

\* What is told once git has exited.
LEMMA OutcomeIs ==
    ASSUME git.phase \in {"stopped", "conflict", "done"}, NEW refs \in BOOLEAN, NEW state \in BOOLEAN
    PROVE  LET answer == PlanOutcome(refs, state)
           IN  /\ answer.tone \in {"failed", "stopped", "rewrote"}
               /\ answer.tone = "failed" => git.phase = "conflict" \/ answer.unread
               /\ answer.tone = "stopped" => git.phase = "stopped" /\ git.done = answer.step
               /\ answer.tone = "rewrote" => git.phase = "done" \/ (git.phase = "stopped" /\ answer.unread)
<1>1. CASE git.phase = "conflict"
  BY <1>1 DEF PlanOutcome
<1>2. CASE git.phase = "stopped"
  BY <1>2 DEF PlanOutcome
<1>3. CASE git.phase = "done"
  BY <1>3 DEF PlanOutcome
<1> QED BY <1>1, <1>2, <1>3

LEMMA Exited == ASSUME PlansInv, AnswerWithPlanOutcome PROVE git.phase \in {"stopped", "conflict", "done"}
BY DEF AnswerWithPlanOutcome, PlansInv, Shapes, InFlight

LEMMA OutcomeKeeps == ASSUME PlansInv, AnswerWithPlanOutcome PROVE PlansInv'
<1>1. PICK refs \in BOOLEAN, state \in BOOLEAN : Answered(PlanOutcome(refs, state))
  BY DEF AnswerWithPlanOutcome
<1>2. UNCHANGED <<history, git, landed>> /\ PlanOutcome(refs, state).tone \in {"failed", "stopped", "rewrote"}
  BY Exited, OutcomeIs DEF AnswerWithPlanOutcome
<1> QED BY <1>1, <1>2, AnswerKeeps

-----------------------------------------------------------------------------
(* Of git. *)

LEMMA Grown ==
    ASSUME NEW S, NEW s \in Seq(S), NEW x \in S, NEW n \in Nat, Len(s) = n
    PROVE  /\ Append(s, x) \in Seq(S) /\ Len(Append(s, x)) = n + 1
           /\ \A i \in 1..n : Append(s, x)[i] = s[i]
           /\ Append(s, x)[n + 1] = x
OBVIOUS

LEMMA Topped ==
    ASSUME NEW S, NEW s \in Seq(S), NEW x \in S, NEW n \in Nat, Len(s) = n, n # 0
    PROVE  /\ Append(Front(s), x) \in Seq(S) /\ Len(Append(Front(s), x)) = n
           /\ \A i \in 1..n : i # n => Append(Front(s), x)[i] = s[i]
           /\ Append(Front(s), x)[n] = x
<1> PICK m \in Nat : n = m + 1
  <2>1. n - 1 \in Nat /\ n = (n - 1) + 1
    OBVIOUS
  <2> QED BY <2>1
<1> PICK front : front = SubSeq(s, 1, m)
  OBVIOUS
<1>1. Front(s) = front
  <2>1. Len(s) - 1 = m
    OBVIOUS
  <2> QED BY <2>1 DEF Front
<1>2. front \in Seq(S) /\ Len(front) = m /\ \A i \in 1..m : front[i] = s[i]
  OBVIOUS
<1> PICK t : t = Append(front, x)
  OBVIOUS
<1>3. t \in Seq(S) /\ Len(t) = m + 1 /\ (\A i \in 1..m : t[i] = front[i]) /\ t[m + 1] = x
  BY <1>2
<1>4. ASSUME NEW i \in 1..n, i # n PROVE t[i] = s[i]
  <2>1. i \in 1..m
    BY <1>4
  <2> QED BY <1>2, <1>3, <2>1
<1> QED BY <1>1, <1>3, <1>4

\* Some position of a set is the first.
LEMMA First ==
    ASSUME NEW n \in Nat, NEW S \in SUBSET (1..n), S # {}
    PROVE  \E i \in S : \A j \in S : i <= j
<1> PICK size : size = Cardinality(S)
  OBVIOUS
<1> PICK at : at = Place(S)
  OBVIOUS
<1>1. IsFiniteSet(S)
  <2>1. 1 \in Int /\ n \in Int
    OBVIOUS
  <2>2. IsFiniteSet(1..n)
    BY <2>1, FS_Interval
  <2>3. S \subseteq 1..n
    OBVIOUS
  <2> QED BY <2>2, <2>3, FS_Subset
<1>2. S \in SUBSET Int
  <2>1. \A i \in S : i \in Int
    OBVIOUS
  <2> QED BY <2>1
<1>3. /\ size \in Nat /\ at \in [1..size -> S]
      /\ \A m, k \in 1..size : m < k => at[m] < at[k]
      /\ \A i \in S : \E m \in 1..size : at[m] = i
  BY <1>1, <1>2, PlacesAreInOrder
<1>4. 1 \in 1..size
  <2>1. PICK i \in S : TRUE
    OBVIOUS
  <2>2. PICK m \in 1..size : at[m] = i
    BY <1>3
  <2> QED BY <1>3, <2>2
<1>5. ASSUME NEW j \in S PROVE at[1] <= j
  <2>1. PICK m \in 1..size : at[m] = j
    BY <1>3
  <2>2. at[1] \in Int /\ j \in Int
    <3>1. at[1] \in S
      BY <1>3, <1>4
    <3>2. \A i \in S : i \in Int
      OBVIOUS
    <3> QED BY <3>1, <3>2
  <2>3. CASE m = 1
    BY <2>1, <2>2, <2>3
  <2>4. CASE m # 1
    <3>1. 1 < m
      BY <1>3, <2>4
    <3> QED BY <1>3, <1>4, <2>1, <2>2, <3>1
  <2> QED BY <2>3, <2>4
<1> QED BY <1>3, <1>4, <1>5

LEMMA GitIs ==
    ASSUME NEW g, Given(g)
    PROVE  /\ Len(g.todo) \in Nat /\ Len(g.was) = Len(g.todo) /\ DOMAIN g.todo = 1..Len(g.todo)
           /\ DOMAIN g.was = 1..Len(g.todo) /\ g.was \in Seq(Commits)
           /\ g.done \in Nat /\ g.done <= Len(g.todo)
           /\ \A i \in 1..Len(g.todo) :
                 /\ g.todo[i].instruction \in Instructions
                 /\ \E k \in 1..Len(g.todo) : g.todo[i].commit = g.was[k]
           /\ \A i \in 1..Len(g.todo) :
                 g.was[i] \in Commits /\ g.was[i].again = FALSE /\ g.was[i].holds = {g.was[i].says}
           /\ \A i \in 1..Len(g.todo) :
                 /\ g.todo[i].commit \in Commits /\ g.todo[i].commit.again = FALSE
                 /\ g.todo[i].commit.holds = {g.todo[i].commit.says}
           /\ g.made \in Seq(Commits) /\ Len(g.made) \in Nat /\ DOMAIN g.made = 1..Len(g.made)
           /\ \A k \in 1..Len(g.made) : g.made[k] \in Commits /\ g.made[k].says \in g.made[k].holds
<1>1. Plain(g.was) /\ Rearranged(g.todo, g.was)
  BY DEF Given, Approved
<1>2. /\ Len(g.todo) \in Nat /\ DOMAIN g.todo = 1..Len(g.todo)
      /\ \A i \in DOMAIN g.todo :
            g.todo[i].instruction \in Instructions /\ \E k \in DOMAIN g.was : g.todo[i].commit = g.was[k]
  BY <1>1, RowsAre
<1>3. Len(g.was) = Len(g.todo) /\ DOMAIN g.was = 1..Len(g.was) /\ g.was \in Seq(Commits)
  BY <1>1, PlainIs DEF Rearranged, Plain
<1>4. \A i \in DOMAIN g.was :
          g.was[i] \in Commits /\ g.was[i].again = FALSE /\ g.was[i].holds = {g.was[i].says}
  BY <1>1, PlainIs
<1>5. ASSUME NEW i \in 1..Len(g.todo)
      PROVE  /\ g.todo[i].commit \in Commits /\ g.todo[i].commit.again = FALSE
             /\ g.todo[i].commit.holds = {g.todo[i].commit.says}
  <2>1. PICK k \in DOMAIN g.was : g.todo[i].commit = g.was[k]
    BY <1>2
  <2>2. g.was[k] \in Commits /\ g.was[k].again = FALSE /\ g.was[k].holds = {g.was[k].says}
    BY <1>4
  <2> QED BY <2>1, <2>2
<1>6. g.made \in Seq(Commits)
  BY DEF Given
<1>7. Len(g.made) \in Nat /\ DOMAIN g.made = 1..Len(g.made)
  BY <1>6
<1>8. \A k \in 1..Len(g.made) : g.made[k] \in Commits /\ g.made[k].says \in g.made[k].holds
  <2>1. \A k \in 1..Len(g.made) : g.made[k] \in Commits
    BY <1>6, <1>7, ElementOfSeq
  <2> QED BY <1>7, <2>1 DEF Given
<1>9. g.done \in Nat /\ g.done <= Len(g.todo)
  BY <1>2 DEF Given
<1> QED BY <1>2, <1>3, <1>4, <1>5, <1>6, <1>7, <1>8, <1>9

LEMMA LowestIs ==
    ASSUME NEW g, Given(g)
    PROVE  /\ Lowest(g) \in Nat /\ Lowest(g) <= Len(g.todo)
           /\ \A i \in 1..Lowest(g) : g.todo[i].commit = g.was[i] /\ g.todo[i].instruction = "pick"
           /\ \A i \in 1..Len(g.todo) : i = Lowest(g) + 1 =>
                 g.todo[i].commit # g.was[i] \/ g.todo[i].instruction # "pick"
<1> PICK n : n = Len(g.todo)
  OBVIOUS
<1> PICK low : low = Lowest(g)
  OBVIOUS
<1>1. n \in Nat /\ DOMAIN g.todo = 1..n /\ DOMAIN g.was = 1..n
  BY GitIs
<1>2. low \in 0..n /\ \A i \in 1..n : i <= low <=> \A j \in 1..i : Same(g.todo, g.was, j)
  BY <1>1, UntouchedAre DEF Lowest
<1>3. ASSUME NEW i \in 1..low PROVE g.todo[i].commit = g.was[i] /\ g.todo[i].instruction = "pick"
  <2>1. i \in 1..n /\ i <= low /\ i \in 1..i
    BY <1>1, <1>2
  <2>2. Same(g.todo, g.was, i)
    BY <1>2, <2>1
  <2> QED BY <2>2 DEF Same
<1>4. ASSUME NEW i \in 1..n, i = low + 1, g.todo[i].commit = g.was[i], g.todo[i].instruction = "pick"
      PROVE  FALSE
  <2>1. ~(i <= low)
    BY <1>2, <1>4
  <2>2. PICK j \in 1..i : ~Same(g.todo, g.was, j)
    BY <1>2, <2>1
  <2>3. CASE j = i
    <3>1. g.todo[i] = [commit |-> g.todo[i].commit, instruction |-> g.todo[i].instruction]
      BY <1>1, RowsAre DEF Given, Approved
    <3> QED BY <1>1, <1>4, <2>2, <2>3, <3>1 DEF Same
  <2>4. CASE j # i
    <3>1. j \in 1..n /\ j <= low /\ j \in 1..j
      BY <1>2, <1>4, <2>4
    <3> QED BY <1>2, <2>2, <3>1
  <2> QED BY <2>3, <2>4
<1> QED BY <1>1, <1>2, <1>3, <1>4

\* One more row is done.
LEMMA OfGrows ==
    ASSUME NEW g, NEW h, h.todo = g.todo, g.done \in Nat, h.done = g.done + 1, NEW which
    PROVE  /\ IsFiniteSet(Of(g, which)) /\ IsFiniteSet(Of(h, which))
           /\ g.todo[g.done + 1].instruction \in which =>
                 Of(h, which) = Of(g, which) \cup {g.done + 1}
                 /\ Cardinality(Of(h, which)) = Cardinality(Of(g, which)) + 1
           /\ g.todo[g.done + 1].instruction \notin which => Of(h, which) = Of(g, which)
<1> PICK d \in Nat : d = g.done
  OBVIOUS
<1> PICK S : S = Of(g, which)
  OBVIOUS
<1> PICK T : T = Of(h, which)
  OBVIOUS
<1>1. S = {i \in 1..d : g.todo[i].instruction \in which} /\ T = {i \in 1..(d + 1) : g.todo[i].instruction \in which}
  BY DEF Of
<1>2. IsFiniteSet(S) /\ d + 1 \notin S
  <2>0. 1 \in Int /\ d \in Int
    OBVIOUS
  <2>1. IsFiniteSet(1..d) /\ S \subseteq 1..d
    BY <1>1, <2>0, FS_Interval
  <2>2. d + 1 \notin 1..d
    OBVIOUS
  <2> QED BY <2>1, <2>2, FS_Subset
<1>3. \A i : i \in 1..(d + 1) <=> i \in 1..d \/ i = d + 1
  OBVIOUS
<1>4. g.todo[d + 1].instruction \in which => T = S \cup {d + 1}
  BY <1>1, <1>3
<1>5. g.todo[d + 1].instruction \notin which => T = S
  BY <1>1, <1>3
<1>6. IsFiniteSet(S \cup {d + 1}) /\ Cardinality(S \cup {d + 1}) = Cardinality(S) + 1
  BY <1>2, FS_AddElement
<1> QED BY <1>2, <1>4, <1>5, <1>6

\* One line of the list, from what git had to what it has.
Row(g) == g.todo[g.done + 1]
Forwards(g) == /\ g.made = SubSeq(g.was, 1, Len(g.made)) /\ Len(g.made) < Len(g.was)
               /\ g.was[Len(g.made) + 1] = Row(g).commit
Picked(g) == [holds |-> Row(g).commit.holds, says |-> Row(g).commit.says, again |-> ~Forwards(g)]

LineOf(g, h) ==
    /\ Rebased(g) /\ g.phase = "running" /\ g.done < Len(g.todo)
    /\ h.todo = g.todo /\ h.was = g.was /\ h.amended = g.amended /\ h.done = g.done + 1
    /\ h.phase \in {"running", "conflict", "stopped"}
    /\ h.phase = "conflict" => ~Forwards(g)
    /\ h.phase = "stopped" => Row(g).instruction = "edit"
    /\ Row(g).instruction = "edit" => h.phase # "running"
    /\ h.stops = IF Row(g).instruction = "edit" THEN g.stops + 1 ELSE g.stops
    /\ Row(g).instruction = "drop" => h.made = g.made
    /\ Row(g).instruction \in Folds => h.made = Amended(g.made, Row(g))
    /\ Row(g).instruction \in Single => h.made = Append(g.made, Picked(g))

LEMMA LineRowIs ==
    ASSUME NEW g, Given(g), g.done < Len(g.todo)
    PROVE  /\ g.done + 1 \in 1..Len(g.todo)
           /\ Row(g).instruction \in {"drop"} \cup Folds \cup Single
           /\ Row(g).commit \in Commits /\ Row(g).commit.again = FALSE
           /\ Row(g).commit.holds = {Row(g).commit.says}
<1> PICK d : d = g.done + 1
  OBVIOUS
<1>1. d \in 1..Len(g.todo)
  <2>1. g.done \in Nat /\ g.done < Len(g.todo) /\ Len(g.todo) \in Nat
    BY GitIs
  <2> QED BY <2>1
<1>2. /\ g.todo[d].instruction \in Instructions
      /\ g.todo[d].commit \in Commits /\ g.todo[d].commit.again = FALSE
      /\ g.todo[d].commit.holds = {g.todo[d].commit.says}
  BY <1>1, GitIs
<1>3. Instructions = {"drop"} \cup Folds \cup Single
  BY DEF Instructions, Folds, Single
<1> QED BY <1>1, <1>2, <1>3 DEF Row

\* What is combined has something to be combined into.
LEMMA HasATarget ==
    ASSUME NEW g, Given(g), Holding(g), g.done < Len(g.todo), Row(g).instruction \in Folds
    PROVE  Len(g.made) # 0
<1> PICK d \in Nat : d = g.done
  BY GitIs
<1>1. d + 1 \in DOMAIN g.todo /\ DOMAIN g.todo = 1..Len(g.todo)
  BY GitIs, LineRowIs
<1>2. PICK j \in 1..((d + 1) - 1) : g.todo[j].instruction # "drop"
  <2>1. ~FirstKeptCombines(g.todo)
    BY DEF Given, Approved
  <2>2. Combines(g.todo[d + 1].instruction)
    BY Zenon DEF Folds, Combines, Row
  <2> QED BY <1>1, <2>1, <2>2 DEF FirstKeptCombines
<1>3. j \in 1..d /\ j \in 1..Len(g.todo)
  BY <1>1, <1>2
<1>4. j \in Of(g, Kept)
  <2>1. g.todo[j].instruction \in Instructions
    BY <1>3, GitIs
  <2> QED BY <1>2, <1>3, <2>1 DEF Of, Kept
<1>5. g.todo[j].commit.holds = {g.todo[j].commit.says}
  BY <1>3, GitIs
<1>6. PICK k \in DOMAIN g.made : g.todo[j].commit.says \in g.made[k].holds
  <2> PICK c : c = g.todo[j].commit.says
    OBVIOUS
  <2>1. c \in g.todo[j].commit.holds
    BY <1>5
  <2> QED BY <1>4, <2>1 DEF Holding
<1> QED BY <1>6, GitIs

\* What a line makes.
Worded(c, above, row) == IF row.instruction = "fixup -C" THEN c.says ELSE above.says

LEMMA PickedIs ==
    ASSUME NEW g, NEW h, LineOf(g, h), Row(g).instruction \in Single, NEW m \in Nat, m = Len(g.made)
    PROVE  /\ Picked(g) \in Commits /\ Picked(g).says \in Picked(g).holds
           /\ Picked(g).holds = Row(g).commit.holds /\ Picked(g).again = ~Forwards(g)
           /\ h.made \in Seq(Commits) /\ Len(h.made) = m + 1 /\ DOMAIN h.made = 1..(m + 1)
           /\ \A i \in 1..m : h.made[i] = g.made[i]
           /\ h.made[m + 1] = Picked(g)
<1>1. Given(g) /\ g.done < Len(g.todo)
  BY DEF LineOf, Rebased
<1>2. Row(g).commit \in Commits /\ Row(g).commit.holds = {Row(g).commit.says}
  BY <1>1, LineRowIs
<1> PICK c : c = Row(g).commit
  OBVIOUS
<1>3. c.holds \in SUBSET Nat /\ c.says \in Nat /\ c.says \in c.holds
  BY <1>2 DEF Commits
<1> PICK p : p = Picked(g)
  OBVIOUS
<1>4. p \in Commits /\ p.says \in p.holds /\ p.holds = c.holds /\ p.again = ~Forwards(g)
  <2> PICK f \in BOOLEAN : f = ~Forwards(g)
    OBVIOUS
  <2>1. p = [holds |-> c.holds, says |-> c.says, again |-> f]
    BY DEF Picked
  <2> QED BY <1>3, <2>1 DEF Commits
<1>5. h.made = Append(g.made, p) /\ g.made \in Seq(Commits)
  BY <1>1, GitIs DEF LineOf
<1>6. /\ Append(g.made, p) \in Seq(Commits) /\ Len(Append(g.made, p)) = m + 1
      /\ \A i \in 1..m : Append(g.made, p)[i] = g.made[i]
      /\ Append(g.made, p)[m + 1] = p
  <2>1. g.made \in Seq(Commits) /\ p \in Commits /\ m \in Nat /\ Len(g.made) = m
    BY <1>4, <1>5
  <2> QED BY ONLY <2>1, Grown
<1>7. DOMAIN h.made = 1..(m + 1)
  BY <1>5, <1>6
<1> QED BY <1>4, <1>5, <1>6, <1>7

Heaped(g, h, m) ==
    /\ m # 0
    /\ h.made \in Seq(Commits) /\ Len(h.made) = m /\ DOMAIN h.made = 1..m
    /\ \A i \in 1..m : i # m => h.made[i] = g.made[i]
    /\ h.made[m].again = TRUE /\ h.made[m].says \in h.made[m].holds
    /\ h.made[m].holds = g.made[m].holds \cup Row(g).commit.holds

LEMMA FoldedIs ==
    ASSUME NEW g, NEW h, LineOf(g, h), Row(g).instruction \in Folds, NEW m \in Nat, m = Len(g.made)
    PROVE  Heaped(g, h, m)
<1>1. Given(g) /\ g.done < Len(g.todo) /\ Holding(g)
  BY DEF LineOf, Rebased
<1>2. m # 0
  BY <1>1, HasATarget
<1>3. g.made \in Seq(Commits) /\ m \in 1..m /\ g.made[m] \in Commits /\ g.made[m].says \in g.made[m].holds
  <2>1. m \in 1..m
    BY <1>2
  <2>2. g.made \in Seq(Commits) /\ \A k \in 1..m : g.made[k] \in Commits /\ g.made[k].says \in g.made[k].holds
    BY <1>1, GitIs
  <2> QED BY <2>1, <2>2
<1>4. Row(g).commit \in Commits /\ Row(g).commit.holds = {Row(g).commit.says}
  BY <1>1, LineRowIs
<1> PICK c : c = Row(g).commit
  OBVIOUS
<1> PICK above : above = g.made[m]
  OBVIOUS
<1> PICK word : word = Worded(c, above, Row(g))
  OBVIOUS
<1> PICK held : held = above.holds \cup c.holds
  OBVIOUS
<1>5. held \in SUBSET Nat /\ word \in Nat /\ word \in held
  <2>1. above.holds \in SUBSET Nat /\ above.says \in Nat /\ c.holds \in SUBSET Nat /\ c.says \in Nat
    BY <1>3, <1>4 DEF Commits
  <2>2. above.says \in above.holds /\ c.says \in c.holds
    BY <1>3, <1>4
  <2>3. word = c.says \/ word = above.says
    BY Zenon DEF Worded
  <2> QED BY <2>1, <2>2, <2>3
<1> PICK p : p = [holds |-> held, again |-> TRUE, says |-> word]
  OBVIOUS
<1>6. p \in Commits /\ p.again = TRUE /\ p.says \in p.holds /\ p.holds = held
  BY <1>5 DEF Commits
<1>7. h.made = Append(Front(g.made), p)
  <2>1. Last(g.made) = above
    BY DEF Last
  <2>2. h.made = Amended(g.made, Row(g))
    BY DEF LineOf
  <2> QED BY <2>1, <2>2, Zenon DEF Amended, Worded
<1>8. /\ Append(Front(g.made), p) \in Seq(Commits) /\ Len(Append(Front(g.made), p)) = m
      /\ \A i \in 1..m : i # m => Append(Front(g.made), p)[i] = g.made[i]
      /\ Append(Front(g.made), p)[m] = p
  <2>1. g.made \in Seq(Commits) /\ p \in Commits /\ m \in Nat /\ Len(g.made) = m /\ m # 0
    BY <1>2, <1>3, <1>6
  <2> QED BY ONLY <2>1, Topped
<1>9. DOMAIN h.made = 1..m
  BY <1>7, <1>8
<1> QED BY <1>2, <1>6, <1>7, <1>8, <1>9 DEF Heaped

\* The plan goes on being the plan.
LEMMA LineGiven == ASSUME NEW g, NEW h, LineOf(g, h) PROVE Given(h)
<1>1. Given(g) /\ g.done < Len(g.todo) /\ g.phase = "running"
  BY DEF LineOf, Rebased
<1>2. Approved(h.todo, h.was) /\ h.amended \in BOOLEAN
  BY <1>1 DEF LineOf, Given
<1>3. h.done \in 0..Len(h.todo) /\ h.phase # "done"
  <2>1. g.done \in Nat /\ Len(g.todo) \in Nat
    BY <1>1, GitIs
  <2> QED BY <1>1, <2>1 DEF LineOf
<1> PICK m \in Nat : m = Len(g.made)
  BY <1>1, GitIs
<1>4. h.made \in Seq(Commits) /\ \A k \in DOMAIN h.made : h.made[k].says \in h.made[k].holds
  <2>1. \A k \in 1..m : g.made[k].says \in g.made[k].holds
    BY <1>1, GitIs
  <2>2. CASE Row(g).instruction = "drop"
    <3>1. h.made = g.made
      BY <2>2 DEF LineOf
    <3> QED BY <1>1, <2>1, <3>1, GitIs
  <2>3. CASE Row(g).instruction \in Folds
    <3>0. LineOf(g, h) /\ Row(g).instruction \in Folds /\ m \in Nat /\ m = Len(g.made)
      BY <2>3
    <3>1. /\ h.made \in Seq(Commits) /\ DOMAIN h.made = 1..m
          /\ \A i \in 1..m : i # m => h.made[i] = g.made[i]
          /\ h.made[m].says \in h.made[m].holds
      <4>1. Heaped(g, h, m)
        BY ONLY <3>0, FoldedIs
      <4> QED BY <4>1 DEF Heaped
    <3> QED BY <2>1, <3>1
  <2>4. CASE Row(g).instruction \in Single
    <3>1. /\ h.made \in Seq(Commits) /\ DOMAIN h.made = 1..(m + 1)
          /\ \A i \in 1..m : h.made[i] = g.made[i]
          /\ h.made[m + 1].says \in h.made[m + 1].holds
      BY <2>4, PickedIs
    <3>2. \A k \in 1..(m + 1) : k \in 1..m \/ k = m + 1
      OBVIOUS
    <3> QED BY <2>1, <3>1, <3>2
  <2> QED BY <1>1, <2>2, <2>3, <2>4, LineRowIs
<1> QED BY <1>2, <1>3, <1>4 DEF Given

LEMMA OfStays ==
    ASSUME NEW g, NEW h, h.todo = g.todo, g.done \in Nat, h.done = g.done + 1, NEW which,
           Row(g).instruction \notin which
    PROVE  Of(h, which) = Of(g, which)
BY OfGrows DEF Row

LEMMA LineCounts == ASSUME NEW g, NEW h, LineOf(g, h) PROVE Counts(h)
<1>1. Given(g) /\ Counts(g) /\ g.done < Len(g.todo) /\ g.done \in Nat
  BY GitIs DEF LineOf, Rebased
<1>2. h.todo = g.todo /\ h.done = g.done + 1
  BY DEF LineOf
<1> PICK m \in Nat : m = Len(g.made)
  BY <1>1, GitIs
<1>3. m = Cardinality(Of(g, Single)) /\ g.stops = Cardinality(Of(g, {"edit"}))
  BY <1>1 DEF Counts
<1>4. CASE Row(g).instruction \notin Single
  <2>1. Row(g).instruction # "edit" /\ h.stops = g.stops
    BY <1>4 DEF LineOf, Single
  <2>2. Of(h, Single) = Of(g, Single) /\ Of(h, {"edit"}) = Of(g, {"edit"})
    BY <1>1, <1>2, <1>4, <2>1, OfStays
  <2>3. Len(h.made) = m
    <3>1. CASE Row(g).instruction = "drop"
      BY <3>1 DEF LineOf
    <3>2. CASE Row(g).instruction \in Folds
      BY <3>2, FoldedIs DEF Heaped
    <3> QED BY <1>1, <1>4, <3>1, <3>2, LineRowIs
  <2> QED BY <1>3, <2>1, <2>2, <2>3 DEF Counts
<1>5. CASE Row(g).instruction \in Single
  <2>1. Len(h.made) = m + 1
    BY <1>5, PickedIs
  <2>2. Cardinality(Of(h, Single)) = m + 1
    BY <1>1, <1>2, <1>3, <1>5, OfGrows DEF Row
  <2>3. h.stops = Cardinality(Of(h, {"edit"}))
    <3>1. CASE Row(g).instruction = "edit"
      <4>1. Row(g).instruction \in {"edit"} /\ h.stops = g.stops + 1
        BY <3>1 DEF LineOf
      <4>2. Cardinality(Of(h, {"edit"})) = Cardinality(Of(g, {"edit"})) + 1
        BY <1>1, <1>2, <4>1, OfGrows, SMTT(30) DEF Row
      <4> QED BY <1>3, <4>1, <4>2
    <3>2. CASE Row(g).instruction # "edit"
      <4>1. Row(g).instruction \notin {"edit"} /\ h.stops = g.stops
        BY <3>2 DEF LineOf
      <4>2. Of(h, {"edit"}) = Of(g, {"edit"})
        BY <1>1, <1>2, <4>1, OfStays
      <4> QED BY <1>3, <4>1, <4>2
    <3> QED BY <3>1, <3>2
  <2> QED BY <2>1, <2>2, <2>3 DEF Counts
<1> QED BY <1>4, <1>5

\* What is kept of a row is in what is made.
LEMMA LineHolding == ASSUME NEW g, NEW h, LineOf(g, h) PROVE Holding(h)
<1>1. Given(g) /\ Holding(g) /\ g.done < Len(g.todo) /\ g.done \in Nat
  BY GitIs DEF LineOf, Rebased
<1>2. h.todo = g.todo /\ h.done = g.done + 1
  BY DEF LineOf
<1> PICK m \in Nat : m = Len(g.made)
  BY <1>1, GitIs
<1> PICK d \in Nat : d = g.done + 1
  BY <1>1
<1> PICK held : held = Row(g).commit.holds
  OBVIOUS
<1>3. g.todo[d].commit.holds = held /\ h.todo[d].commit.holds = held
  BY <1>2 DEF Row
<1>4. /\ \A k \in 1..m : \A c \in g.made[k].holds : \E i \in Of(g, Kept) : c \in g.todo[i].commit.holds
      /\ \A i \in Of(g, Kept) : \A c \in g.todo[i].commit.holds : \E k \in 1..m : c \in g.made[k].holds
  <2>1. DOMAIN g.made = 1..m
    BY <1>1, GitIs
  <2> QED BY <1>1, <2>1 DEF Holding
<1>5. CASE Row(g).instruction = "drop"
  <2>1. Row(g).instruction \notin Kept
    BY <1>5 DEF Kept
  <2>2. Of(h, Kept) = Of(g, Kept) /\ h.made = g.made
    BY <1>1, <1>2, <1>5, <2>1, OfGrows DEF Row, LineOf
  <2> QED BY <1>1, <1>2, <2>2 DEF Holding
<1>6. CASE Row(g).instruction \in Folds \cup Single
  <2>1. Row(g).instruction \in Kept
    BY <1>6, Zenon DEF Kept, Folds, Single, Instructions
  <2>2. Of(h, Kept) = Of(g, Kept) \cup {d}
    BY <1>1, <1>2, <2>1, OfGrows DEF Row
  <2>3. CASE Row(g).instruction \in Folds
    <3>1. /\ m # 0 /\ DOMAIN h.made = 1..m
          /\ \A i \in 1..m : i # m => h.made[i] = g.made[i]
          /\ h.made[m].holds = g.made[m].holds \cup held
      <4>0. LineOf(g, h) /\ Row(g).instruction \in Folds /\ m \in Nat /\ m = Len(g.made)
        BY <2>3
      <4>1. /\ m # 0 /\ DOMAIN h.made = 1..m
            /\ \A i \in 1..m : i # m => h.made[i] = g.made[i]
            /\ h.made[m].holds = g.made[m].holds \cup Row(g).commit.holds
        <5>1. Heaped(g, h, m)
          BY ONLY <4>0, FoldedIs
        <5> QED BY <5>1 DEF Heaped
      <4> QED BY <4>1
    <3>2. m \in 1..m
      BY <3>1
    <3>3. \A k \in 1..m : \A c : c \in h.made[k].holds <=> c \in g.made[k].holds \/ (k = m /\ c \in held)
      BY <3>1, <3>2
    <3> QED BY <1>2, <1>3, <1>4, <2>2, <3>1, <3>2, <3>3, SMTT(30) DEF Holding
  <2>4. CASE Row(g).instruction \in Single
    <3>1. /\ DOMAIN h.made = 1..(m + 1)
          /\ \A i \in 1..m : h.made[i] = g.made[i]
          /\ h.made[m + 1].holds = held
      BY <2>4, PickedIs
    <3>2. \A k : k \in 1..(m + 1) <=> k \in 1..m \/ k = m + 1
      OBVIOUS
    <3>3. ASSUME NEW k \in DOMAIN h.made, NEW c \in h.made[k].holds
          PROVE  \E i \in Of(h, Kept) : c \in h.todo[i].commit.holds
      <4>1. CASE k = m + 1
        BY <1>3, <2>2, <3>1, <3>3, <4>1
      <4>2. CASE k \in 1..m
        <5>1. PICK i \in Of(g, Kept) : c \in g.todo[i].commit.holds
          BY <1>4, <3>1, <3>3, <4>2
        <5> QED BY <1>2, <2>2, <5>1
      <4> QED BY <3>1, <3>2, <4>1, <4>2
    <3>4. ASSUME NEW i \in Of(h, Kept), NEW c \in h.todo[i].commit.holds
          PROVE  \E k \in DOMAIN h.made : c \in h.made[k].holds
      <4>1. CASE i = d
        <5>1. c \in h.made[m + 1].holds
          BY <1>3, <3>1, <3>4, <4>1
        <5> QED BY <3>1, <3>2, <5>1
      <4>2. CASE i \in Of(g, Kept)
        <5>1. PICK k \in 1..m : c \in g.made[k].holds
          BY <1>2, <1>4, <3>4, <4>2
        <5> QED BY <3>1, <3>2, <5>1
      <4> QED BY <2>2, <4>1, <4>2
    <3> QED BY <3>3, <3>4 DEF Holding
  <2> QED BY <1>6, <2>3, <2>4
<1> QED BY <1>1, <1>5, <1>6, LineRowIs

-----------------------------------------------------------------------------
(* The bottom of a plan, and what is above it. *)

LEMMA OneMore ==
    ASSUME NEW S, NEW s \in Seq(S), NEW d \in Nat, d < Len(s)
    PROVE  Append(SubSeq(s, 1, d), s[d + 1]) = SubSeq(s, 1, d + 1)
<1> PICK n \in Nat : n = Len(s)
  OBVIOUS
<1>1. \A i \in 1..n : s[i] \in S
  OBVIOUS
<1>2. d + 1 \in 1..n
  OBVIOUS
<1> PICK front : front = SubSeq(s, 1, d)
  OBVIOUS
<1>3. front \in Seq(S) /\ Len(front) = d /\ \A i \in 1..d : front[i] = s[i]
  OBVIOUS
<1> PICK longer : longer = SubSeq(s, 1, d + 1)
  OBVIOUS
<1>4. longer \in Seq(S) /\ Len(longer) = d + 1 /\ \A i \in 1..(d + 1) : longer[i] = s[i]
  BY <1>2
<1> PICK t : t = Append(front, s[d + 1])
  OBVIOUS
<1>5. t \in Seq(S) /\ Len(t) = d + 1 /\ (\A i \in 1..d : t[i] = front[i]) /\ t[d + 1] = s[d + 1]
  BY <1>1, <1>2, <1>3
<1>6. \A i \in 1..(d + 1) : t[i] = longer[i]
  <2>1. \A i \in 1..(d + 1) : i \in 1..d \/ i = d + 1
    OBVIOUS
  <2> QED BY <1>3, <1>4, <1>5, <2>1
<1>7. t = longer
  BY <1>4, <1>5, <1>6, SeqEqual
<1> QED BY <1>7

\* As long as the plan is the branch, git goes over it.
LEMMA LineBelow ==
    ASSUME NEW g, NEW h, LineOf(g, h), g.done < Lowest(g)
    PROVE  /\ h.made = SubSeq(g.was, 1, g.done + 1) /\ h.phase # "stopped"
<1>1. Given(g) /\ Bottom(g) /\ g.done < Len(g.todo)
  BY DEF LineOf, Rebased
<1> PICK d \in Nat : d = g.done
  BY <1>1, GitIs
<1> PICK n \in Nat : n = Len(g.todo)
  BY <1>1, GitIs
<1> PICK was : was = g.was
  OBVIOUS
<1>2. was \in Seq(Commits) /\ Len(was) = n /\ d < n
  BY <1>1, GitIs
<1>3. Lowest(g) \in Nat /\ d + 1 \in 1..Lowest(g) /\ d + 1 \in 1..n
  <2>1. Lowest(g) \in Nat
    BY <1>1, LowestIs
  <2> QED BY <1>2, <2>1
<1>4. Row(g).commit = was[d + 1] /\ Row(g).instruction = "pick"
  <2>1. g.todo[d + 1].commit = was[d + 1] /\ g.todo[d + 1].instruction = "pick"
    BY <1>1, <1>3, LowestIs
  <2> QED BY <2>1 DEF Row
<1>5. g.made = SubSeq(was, 1, d)
  <2>1. g.done <= Lowest(g)
    BY <1>3
  <2> QED BY <1>1, <2>1 DEF Bottom
<1>6. Len(g.made) = d
  BY <1>2, <1>5
<1>7. Forwards(g)
  BY <1>2, <1>4, <1>5, <1>6 DEF Forwards
<1>8. Picked(g) = was[d + 1]
  <2> PICK c : c = was[d + 1]
    OBVIOUS
  <2>1. c \in Commits /\ c.again = FALSE
    BY <1>1, <1>3, GitIs
  <2>2. c = [holds |-> c.holds, says |-> c.says, again |-> FALSE]
    BY <2>1 DEF Commits
  <2>3. Picked(g) = [holds |-> c.holds, says |-> c.says, again |-> FALSE]
    BY <1>4, <1>7 DEF Picked
  <2> QED BY <2>2, <2>3
<1>9. h.made = Append(SubSeq(was, 1, d), was[d + 1]) /\ h.phase # "stopped"
  <2>1. Row(g).instruction \in Single /\ Row(g).instruction # "edit"
    BY <1>4 DEF Single
  <2> QED BY <1>5, <1>8, <2>1 DEF LineOf
<1>10. Append(SubSeq(was, 1, d), was[d + 1]) = SubSeq(was, 1, d + 1)
  BY <1>2, OneMore
<1> QED BY <1>9, <1>10

Base(g) ==
    /\ Len(g.made) >= Lowest(g)
    /\ \A i \in 1..Lowest(g) : g.made[i] = g.was[i] \/ (i = Lowest(g) /\ Capped(g))
    /\ Len(g.made) = Lowest(g) => OnTop(g, Single) = {}

LEMMA OnTopGrows ==
    ASSUME NEW g, NEW h, LineOf(g, h), g.done >= Lowest(g), NEW which
    PROVE  /\ Lowest(h) = Lowest(g)
           /\ Row(g).instruction \in which => OnTop(h, which) = OnTop(g, which) \cup {g.done + 1}
           /\ Row(g).instruction \notin which => OnTop(h, which) = OnTop(g, which)
<1>1. Given(g) /\ h.todo = g.todo /\ h.was = g.was /\ h.done = g.done + 1
  BY DEF LineOf, Rebased
<1> PICK low \in Nat : low = Lowest(g)
  BY <1>1, LowestIs
<1> PICK d \in Nat : d = g.done
  BY <1>1, GitIs
<1>2. Lowest(h) = low
  BY <1>1 DEF Lowest
<1>3. \A i : i \in (low + 1)..(d + 1) <=> i \in (low + 1)..d \/ i = d + 1
  OBVIOUS
<1>4. /\ OnTop(g, which) = {i \in (low + 1)..d : g.todo[i].instruction \in which}
      /\ OnTop(h, which) = {i \in (low + 1)..(d + 1) : g.todo[i].instruction \in which}
  BY <1>1, <1>2 DEF OnTop
<1>5. Row(g) = g.todo[d + 1]
  BY DEF Row
<1> QED BY <1>2, <1>3, <1>4, <1>5

LEMMA CappedStays ==
    ASSUME NEW g, NEW h, LineOf(g, h), g.done >= Lowest(g), Capped(g)
    PROVE  Capped(h)
<1>1. PICK j \in OnTop(g, Folds) : \A l \in (Lowest(g) + 1)..(j - 1) : g.todo[l].instruction = "drop"
  BY DEF Capped
<1>2. Lowest(h) = Lowest(g) /\ h.todo = g.todo
  BY OnTopGrows DEF LineOf
<1>3. j \in OnTop(h, Folds)
  <2>1. Row(g).instruction \in Folds \/ Row(g).instruction \notin Folds
    OBVIOUS
  <2> QED BY <2>1, OnTopGrows
<1> QED BY <1>1, <1>2, <1>3 DEF Capped

\* What is combined into the untouched rows is the first above them.
LEMMA CapsIt ==
    ASSUME NEW g, NEW h, LineOf(g, h), g.done >= Lowest(g), OnTop(g, Single) = {}, Row(g).instruction \in Folds
    PROVE  Capped(h)
<1>1. Given(g) /\ h.todo = g.todo
  BY DEF LineOf, Rebased
<1> PICK low \in Nat : low = Lowest(g)
  BY <1>1, LowestIs
<1> PICK d \in Nat : d = g.done
  BY <1>1, GitIs
<1> PICK n \in Nat : n = Len(g.todo)
  BY <1>1, GitIs
<1> PICK S : S = OnTop(h, Folds)
  OBVIOUS
<1>2. Lowest(h) = low /\ S = OnTop(g, Folds) \cup {d + 1}
  BY OnTopGrows
<1>3. d + 1 <= n /\ low <= d
  BY <1>1, LineRowIs DEF LineOf
<1>4. \A i \in OnTop(g, Folds) : i \in (low + 1)..d
  BY DEF OnTop
<1>5. S \in SUBSET (1..n) /\ S # {} /\ \A i \in S : i \in (low + 1)..(d + 1)
  <2>1. \A i \in S : i \in (low + 1)..(d + 1)
    BY <1>2, <1>3, <1>4
  <2>2. \A i \in (low + 1)..(d + 1) : i \in 1..n
    BY <1>3
  <2> QED BY <1>2, <2>1, <2>2
<1>6. PICK j \in S : \A i \in S : j <= i
  BY <1>5, First
<1>7. ASSUME NEW l \in (low + 1)..(j - 1) PROVE g.todo[l].instruction = "drop"
  <2>1. j \in (low + 1)..(d + 1)
    BY <1>5
  <2>2. l \in Int /\ l < j /\ l \in (low + 1)..d /\ l \in 1..n
    <3> PICK e \in Int : e = j
      BY <2>1
    <3>1. e <= d + 1 /\ l \in (low + 1)..(e - 1)
      BY <2>1
    <3>2. l \in Int /\ l >= low + 1 /\ l <= e - 1
      BY <3>1
    <3> QED BY <1>3, <3>1, <3>2
  <2>3. l \notin S
    BY <1>6, <2>1, <2>2
  <2>4. g.todo[l].instruction \notin Folds
    <3>1. l \notin OnTop(g, Folds)
      BY <1>2, <2>3
    <3> QED BY <2>2, <3>1 DEF OnTop
  <2>5. g.todo[l].instruction \notin Single
    BY <2>2 DEF OnTop
  <2>6. g.todo[l].instruction \in Instructions
    BY <1>1, <2>2, GitIs
  <2> QED BY <2>4, <2>5, <2>6, Zenon DEF Instructions, Folds, Single
<1> QED BY <1>1, <1>2, <1>6, <1>7 DEF Capped

LEMMA LineBase ==
    ASSUME NEW g, NEW h, LineOf(g, h), g.done >= Lowest(g), Base(g)
    PROVE  /\ Base(h)
           /\ Row(g).instruction \in Single => Len(h.made) > Lowest(g)
<1>1. Given(g) /\ g.done < Len(g.todo) /\ h.was = g.was
  BY DEF LineOf, Rebased
<1> PICK low \in Nat : low = Lowest(g)
  BY <1>1, LowestIs
<1> PICK m \in Nat : m = Len(g.made)
  BY <1>1, GitIs
<1>2. Lowest(h) = low /\ (Capped(g) => Capped(h))
  BY OnTopGrows, CappedStays
<1>3. m >= low /\ (\A i \in 1..low : g.made[i] = g.was[i] \/ (i = low /\ Capped(g)))
      /\ (m = low => OnTop(g, Single) = {})
  BY DEF Base
<1>4. CASE Row(g).instruction = "drop"
  <2>1. Row(g).instruction \notin Single
    BY <1>4 DEF Single
  <2>2. OnTop(h, Single) = OnTop(g, Single)
    BY <2>1, OnTopGrows
  <2>3. h.made = g.made
    BY <1>4 DEF LineOf
  <2> QED BY <1>1, <1>2, <1>3, <2>1, <2>2, <2>3 DEF Base
<1>5. CASE Row(g).instruction \in Folds
  <2>1. Row(g).instruction \notin Single
    BY <1>5, Zenon DEF Single, Folds
  <2>2. OnTop(h, Single) = OnTop(g, Single)
    BY <2>1, OnTopGrows
  <2>3. Heaped(g, h, m)
    <3>1. LineOf(g, h) /\ Row(g).instruction \in Folds /\ m \in Nat /\ m = Len(g.made)
      BY <1>5
    <3> QED BY ONLY <3>1, FoldedIs
  <2>4. Len(h.made) = m /\ \A i \in 1..m : i # m => h.made[i] = g.made[i]
    BY <2>3 DEF Heaped
  <2>5. ASSUME NEW i \in 1..low PROVE h.made[i] = g.was[i] \/ (i = low /\ Capped(h))
    <3>1. CASE i = m
      <4>1. m = low /\ i = low
        BY <1>3, <3>1
      <4>2. Capped(h)
        BY <1>3, <1>5, <4>1, CapsIt
      <4> QED BY <4>1, <4>2
    <3>2. CASE i # m
      <4>1. i \in 1..m
        BY <1>3
      <4> QED BY <1>2, <1>3, <2>4, <3>2, <4>1
    <3> QED BY <3>1, <3>2
  <2> QED BY <1>1, <1>2, <1>3, <2>1, <2>2, <2>4, <2>5 DEF Base
<1>6. CASE Row(g).instruction \in Single
  <2>1. Len(h.made) = m + 1 /\ \A i \in 1..m : h.made[i] = g.made[i]
    BY <1>6, PickedIs
  <2>2. Len(h.made) > low /\ Len(h.made) # low /\ Len(h.made) >= low
    BY <1>3, <2>1
  <2>3. \A i \in 1..low : i \in 1..m
    BY <1>3
  <2> QED BY <1>1, <1>2, <1>3, <2>1, <2>2, <2>3 DEF Base
<1> QED BY <1>1, <1>4, <1>5, <1>6, LineRowIs


LEMMA LineBottom == ASSUME NEW g, NEW h, LineOf(g, h) PROVE Bottom(h)
<1>1. Given(g) /\ Bottom(g) /\ g.phase = "running" /\ g.done < Len(g.todo)
  BY DEF LineOf, Rebased
<1>2. h.todo = g.todo /\ h.was = g.was /\ h.done = g.done + 1
  BY DEF LineOf
<1> PICK low \in Nat : low = Lowest(g)
  BY <1>1, LowestIs
<1> PICK d \in Nat : d = g.done
  BY <1>1, GitIs
<1>3. Lowest(h) = low
  BY <1>2 DEF Lowest
<1>4. CASE d < low
  <2>1. h.made = SubSeq(h.was, 1, h.done) /\ h.phase # "stopped"
    BY <1>2, <1>4, LineBelow
  <2>2. h.done <= low /\ ~(h.done > low)
    BY <1>2, <1>4
  <2> QED BY <1>3, <2>1, <2>2 DEF Bottom
<1>5. CASE ~(d < low)
  <2>1. Base(g)
    <3>1. CASE d > low
      BY <1>1, <3>1 DEF Bottom, Base
    <3>2. CASE d = low
      <4>1. g.made = SubSeq(g.was, 1, low)
        BY <1>1, <3>2 DEF Bottom
      <4>2. g.was \in Seq(Commits) /\ low <= Len(g.was)
        BY <1>1, GitIs, LowestIs
      <4>3. Len(g.made) = low /\ \A i \in 1..low : g.made[i] = g.was[i]
        <5> PICK was : was = g.was
          OBVIOUS
        <5> QED BY <4>1, <4>2
      <4>4. OnTop(g, Single) = {}
        <5>1. (low + 1)..low = {}
          OBVIOUS
        <5> QED BY <3>2, <5>1 DEF OnTop
      <4> QED BY <4>3, <4>4 DEF Base
    <3> QED BY <1>5, <3>1, <3>2
  <2>2. Base(h) /\ (Row(g).instruction \in Single => Len(h.made) > low)
    BY <1>5, <2>1, LineBase
  <2>3. h.done > low /\ ~(h.done <= low)
    BY <1>2, <1>5
  <2>4. h.phase = "stopped" => Len(h.made) > low
    BY <2>2 DEF LineOf, Single
  <2> QED BY <1>3, <2>2, <2>3, <2>4 DEF Bottom, Base
<1> QED BY <1>4, <1>5

\* Above the untouched rows everything is written again.
LEMMA NotForwards ==
    ASSUME NEW g, Given(g), NEW k \in DOMAIN g.made, g.made[k].again
    PROVE  ~Forwards(g)
<1> SUFFICES ASSUME Forwards(g) PROVE FALSE
  OBVIOUS
<1> PICK m \in Nat : m = Len(g.made)
  BY GitIs
<1> PICK n \in Nat : n = Len(g.todo)
  BY GitIs
<1> PICK was : was = g.was
  OBVIOUS
<1>1. was \in Seq(Commits) /\ Len(was) = n /\ k \in 1..m
  BY GitIs
<1>2. g.made = SubSeq(was, 1, m) /\ m < n
  BY <1>1 DEF Forwards
<1>3. SubSeq(was, 1, m)[k] = was[k] /\ k \in 1..n
  BY <1>1, <1>2
<1>4. was[k].again = FALSE
  BY <1>3, GitIs
<1> QED BY <1>2, <1>3, <1>4

LEMMA LineTop == ASSUME NEW g, NEW h, LineOf(g, h) PROVE Top(h)
<1> SUFFICES ASSUME h.amended, NothingDropped(h)
             PROVE  /\ \A k \in (Lowest(h) + 1)..Len(h.made) :
                          h.made[k].again \/ (h.phase = "stopped" /\ k = Len(h.made))
                    /\ h.done > Lowest(h) /\ h.phase # "stopped" => \E k \in DOMAIN h.made : h.made[k].again
  BY DEF Top
<1>1. Given(g) /\ Bottom(g) /\ Top(g) /\ g.phase = "running" /\ g.done < Len(g.todo)
  BY DEF LineOf, Rebased
<1>2. h.todo = g.todo /\ h.was = g.was /\ h.done = g.done + 1 /\ g.amended /\ NothingDropped(g)
  BY DEF LineOf, NothingDropped
<1> PICK low \in Nat : low = Lowest(g)
  BY <1>1, LowestIs
<1> PICK d \in Nat : d = g.done
  BY <1>1, GitIs
<1> PICK m \in Nat : m = Len(g.made)
  BY <1>1, GitIs
<1>3. Lowest(h) = low /\ h.done = d + 1
  BY <1>2 DEF Lowest
<1>4. DOMAIN g.made = 1..m
  BY <1>1, GitIs
<1>5. Row(g).instruction \in Folds \cup Single
  <2>1. d + 1 \in DOMAIN g.todo
    BY <1>1, LineRowIs, GitIs
  <2>2. Row(g).instruction # "drop"
    BY <1>2, <2>1 DEF NothingDropped, Row
  <2> QED BY <1>1, <2>2, LineRowIs
<1>6. CASE d < low
  <2>1. h.made = SubSeq(g.was, 1, d + 1)
    BY <1>6, LineBelow
  <2>2. g.was \in Seq(Commits) /\ low <= Len(g.was)
    BY <1>1, GitIs, LowestIs
  <2>3. Len(h.made) = d + 1
    <3> PICK was : was = g.was
      OBVIOUS
    <3> QED BY <1>6, <2>1, <2>2
  <2>4. (low + 1)..(d + 1) = {} /\ ~(d + 1 > low)
    BY <1>6
  <2> QED BY <1>3, <2>3, <2>4
<1>7. CASE ~(d < low)
  <2>1. /\ d > low => \E k \in 1..m : g.made[k].again
        /\ \A k \in (low + 1)..m : g.made[k].again
        /\ d = low => g.made = SubSeq(g.was, 1, low) /\ m = low
    <3>1. g.phase # "stopped"
      BY <1>1
    <3>2. /\ \A k \in (low + 1)..m : g.made[k].again
          /\ d > low => \E k \in 1..m : g.made[k].again
      BY <1>1, <1>2, <1>4, <3>1 DEF Top
    <3>3. ASSUME d = low PROVE g.made = SubSeq(g.was, 1, low) /\ m = low
      <4>1. g.made = SubSeq(g.was, 1, low)
        BY <1>1, <3>3 DEF Bottom
      <4>2. g.was \in Seq(Commits) /\ low <= Len(g.was)
        BY <1>1, GitIs, LowestIs
      <4> PICK was : was = g.was
        OBVIOUS
      <4> QED BY <4>1, <4>2
    <3> QED BY <3>2, <3>3
  <2>2. CASE Row(g).instruction \in Folds
    <3>1. Heaped(g, h, m)
      <4>1. LineOf(g, h) /\ Row(g).instruction \in Folds /\ m \in Nat /\ m = Len(g.made)
        BY <2>2
      <4> QED BY ONLY <4>1, FoldedIs
    <3>2. /\ m # 0 /\ Len(h.made) = m /\ DOMAIN h.made = 1..m
          /\ \A i \in 1..m : i # m => h.made[i] = g.made[i]
          /\ h.made[m].again = TRUE
      BY <3>1 DEF Heaped
    <3>3. m \in 1..m /\ \A k \in (low + 1)..m : k \in 1..m
      BY <3>2
    <3> QED BY <1>3, <2>1, <3>2, <3>3
  <2>3. CASE Row(g).instruction \in Single
    <3>1. /\ Len(h.made) = m + 1 /\ DOMAIN h.made = 1..(m + 1)
          /\ \A i \in 1..m : h.made[i] = g.made[i]
          /\ h.made[m + 1].again = ~Forwards(g)
      BY <2>3, PickedIs
    <3>2. h.phase # "stopped" => ~Forwards(g)
      <4>1. CASE d > low
        BY <1>1, <1>4, <2>1, <4>1, NotForwards
      <4>2. CASE d = low
        <5> SUFFICES ASSUME Forwards(g), h.phase # "stopped" PROVE FALSE
          OBVIOUS
        <5>1. g.was[m + 1] = Row(g).commit
          BY DEF Forwards
        <5>2. Row(g).instruction = "pick"
          <6>1. h.phase = "running"
            BY DEF LineOf
          <6>2. Row(g).instruction # "edit"
            BY <6>1 DEF LineOf
          <6> QED BY <2>3, <6>2 DEF Single
        <5>3. d + 1 \in 1..Len(g.todo) /\ d + 1 = low + 1
          BY <1>1, <4>2, LineRowIs
        <5>4. g.todo[d + 1].commit # g.was[d + 1] \/ g.todo[d + 1].instruction # "pick"
          BY <1>1, <5>3, LowestIs
        <5> QED BY <2>1, <4>2, <5>1, <5>2, <5>4 DEF Row
      <4> QED BY <1>7, <4>1, <4>2
    <3>3. \A k \in (low + 1)..(m + 1) : (k \in (low + 1)..m /\ k \in 1..m) \/ k = m + 1
      OBVIOUS
    <3>4. m + 1 \in 1..(m + 1)
      OBVIOUS
    <3>5. h.phase # "stopped" => h.made[m + 1].again
      BY <3>1, <3>2
    <3> QED BY <1>3, <2>1, <3>1, <3>3, <3>4, <3>5
  <2> QED BY <1>5, <2>2, <2>3
<1> QED BY <1>6, <1>7

LEMMA LineRebases == ASSUME NEW g, NEW h, LineOf(g, h) PROVE Rebased(h)
BY LineGiven, LineCounts, LineHolding, LineBottom, LineTop DEF Rebased

LEMMA LineIs ==
    ASSUME PlansInv, Line
    PROVE  LineOf(git, git')
<1> PICK g : g = git
  OBVIOUS
<1> PICK h : h = git'
  OBVIOUS
<1> PICK row : row = g.todo[g.done + 1]
  OBVIOUS
<1> PICK ff \in BOOLEAN : ff = FastForwards(row.commit)
  BY Zenon DEF FastForwards
<1> PICK made : made = Applied(row)
  OBVIOUS
<1>1. /\ g.phase = "running" /\ g.done < Len(g.todo) /\ row = Row(g)
      /\ g = [phase |-> g.phase, todo |-> g.todo, done |-> g.done, made |-> g.made,
              was |-> g.was, stops |-> g.stops, amended |-> g.amended]
  BY DEF Line, Row, PlansInv, Shapes
<1>2. Rebased(g) /\ Given(g)
  BY <1>1 DEF PlansInv, InGit, Rebased
<1>3. ff <=> Forwards(g)
  BY <1>1 DEF FastForwards, Forwards
<1>4. PICK conflict \in BOOLEAN :
          /\ conflict => ~ff
          /\ h = [g EXCEPT !.done = @ + 1, !.made = made,
                     !.stops = IF row.instruction = "edit" THEN @ + 1 ELSE @,
                     !.phase = IF conflict THEN "conflict" ELSE IF row.instruction = "edit" THEN "stopped" ELSE @]
  <2>1. PICK conflict \in (IF row.instruction # "drop" /\ ~ff THEN BOOLEAN ELSE {FALSE}) :
            h = [g EXCEPT !.done = @ + 1, !.made = made,
                     !.stops = IF row.instruction = "edit" THEN @ + 1 ELSE @,
                     !.phase = IF conflict THEN "conflict" ELSE IF row.instruction = "edit" THEN "stopped" ELSE @]
    BY Zenon DEF Line
  <2>2. conflict \in BOOLEAN /\ (conflict => ~ff)
    <3>1. CASE row.instruction # "drop" /\ ~ff
      BY <3>1
    <3>2. CASE ~(row.instruction # "drop" /\ ~ff)
      BY <3>2
    <3> QED BY <3>1, <3>2
  <2> QED BY <2>1, <2>2, Zenon
<1> PICK stops : stops = IF row.instruction = "edit" THEN g.stops + 1 ELSE g.stops
  OBVIOUS
<1> PICK phase : phase = IF conflict THEN "conflict" ELSE IF row.instruction = "edit" THEN "stopped" ELSE g.phase
  OBVIOUS
<1> PICK done : done = g.done + 1
  OBVIOUS
<1>5. h = [phase |-> phase, todo |-> g.todo, done |-> done, made |-> made, was |-> g.was,
           stops |-> stops, amended |-> g.amended]
  <2>1. h = [g EXCEPT !.done = done, !.made = made, !.stops = stops, !.phase = phase]
    BY <1>4
  <2> QED BY <1>1, <2>1
<1>6. row.instruction = "drop" => made = g.made
  <2>1. row.instruction = "drop" => ~Combines(row.instruction)
    BY Zenon DEF Combines
  <2> QED BY <2>1, Zenon DEF Applied
<1>7. row.instruction \in Folds => made = Amended(g.made, row)
  <2>1. row.instruction \in Folds => Combines(row.instruction) /\ row.instruction # "drop"
    BY Zenon DEF Folds, Combines
  <2> QED BY <2>1, Zenon DEF Applied
<1>8. row.instruction \in Single => made = Append(g.made, Picked(g))
  <2> PICK c : c = row.commit
    OBVIOUS
  <2>1. c \in Commits /\ c.again = FALSE
    BY <1>1, <1>2, LineRowIs
  <2>2. c = [holds |-> c.holds, says |-> c.says, again |-> FALSE]
    BY <2>1 DEF Commits
  <2>3. row.instruction \in Single => ~Combines(row.instruction) /\ row.instruction # "drop"
    BY Zenon DEF Single, Combines
  <2>4. row.instruction \in Single => made = Append(g.made, [c EXCEPT !.again = @ \/ ~ff])
    BY <2>3, Zenon DEF Applied
  <2>5. [c EXCEPT !.again = @ \/ ~ff] = [holds |-> c.holds, says |-> c.says, again |-> ~ff]
    BY <2>2
  <2>6. Picked(g) = [holds |-> c.holds, says |-> c.says, again |-> ~ff]
    BY <1>1, <1>3, SMTT(30) DEF Picked
  <2>7. [c EXCEPT !.again = @ \/ ~ff] = Picked(g)
    BY <2>5, <2>6
  <2> QED BY <2>4, <2>7, Zenon
<1>9. LineOf(g, h)
  <2>1. h.todo = g.todo /\ h.was = g.was /\ h.amended = g.amended /\ h.done = g.done + 1 /\ h.made = made
    BY <1>5
  <2>2. /\ h.phase \in {"running", "conflict", "stopped"}
        /\ h.phase = "conflict" => ~ff
        /\ h.phase = "stopped" => row.instruction = "edit"
        /\ row.instruction = "edit" => h.phase # "running"
        /\ h.stops = IF row.instruction = "edit" THEN g.stops + 1 ELSE g.stops
    BY <1>1, <1>4, <1>5
  <2> QED BY <1>1, <1>2, <1>3, <1>6, <1>7, <1>8, <2>1, <2>2 DEF LineOf
<1> QED BY <1>9

LEMMA LineKeeps == ASSUME PlansInv, Line PROVE PlansInv'
<1>1. LineOf(git, git')
  BY LineIs
<1>2. git.phase = "running" /\ UNCHANGED <<history, dialog, request, toast, landed>>
  BY DEF Line
<1>3. git'.phase \in {"running", "conflict", "stopped"} /\ git'.was = git.was
  BY <1>1 DEF LineOf
<1>4. git' = [phase |-> git'.phase, todo |-> git'.todo, done |-> git'.done, made |-> git'.made,
              was |-> git'.was, stops |-> git'.stops, amended |-> git'.amended]
  BY DEF Line, PlansInv, Shapes
<1>5. Shapes'
  BY <1>2, <1>3, <1>4 DEF PlansInv, Shapes
<1>6. OfBranch'
  BY <1>2, <1>3 DEF PlansInv, OfBranch, Made
<1>7. OnScreen' /\ InFlight'
  BY <1>2, <1>3 DEF PlansInv, OnScreen, InFlight
<1>8. InGit'
  <2> PICK g : g = git
    OBVIOUS
  <2> PICK h : h = git'
    OBVIOUS
  <2>1. Rebased(h)
    BY <1>1, LineRebases
  <2> QED BY <2>1 DEF InGit
<1>9. Told'
  BY <1>2 DEF PlansInv, Told
<1> QED BY <1>5, <1>6, <1>7, <1>8, <1>9 DEF PlansInv

\* What changes nothing of what was made leaves it as it was.
LEMMA SameMade ==
    ASSUME NEW g, NEW h, Rebased(g), h.todo = g.todo, h.was = g.was, h.done = g.done, h.stops = g.stops,
           h.amended \in BOOLEAN, h.amended => g.amended,
           h.made = g.made, h.phase # "stopped", h.phase = "done" => g.done = Len(g.todo),
           g.phase = "stopped" => ~h.amended
    PROVE  Rebased(h)
<1>1. Given(h)
  BY DEF Rebased, Given
<1>2. \A which : Of(h, which) = Of(g, which) /\ OnTop(h, which) = OnTop(g, which)
  BY DEF Of, OnTop, Lowest
<1>3. Lowest(h) = Lowest(g) /\ (Capped(g) <=> Capped(h)) /\ (NothingDropped(g) <=> NothingDropped(h))
  BY <1>2 DEF Lowest, Capped, NothingDropped
<1>4. Counts(h) /\ Holding(h)
  BY <1>2 DEF Rebased, Counts, Holding
<1>5. Bottom(h)
  BY <1>2, <1>3 DEF Rebased, Bottom
<1>6. Top(h)
  BY <1>3 DEF Rebased, Top
<1> QED BY <1>1, <1>4, <1>5, <1>6 DEF Rebased

LEMMA FinishKeeps == ASSUME PlansInv, Finish PROVE PlansInv'
<1>1. /\ git.phase = "running" /\ git.done = Len(git.todo)
      /\ git' = [git EXCEPT !.phase = "done"] /\ history' = git.made
      /\ UNCHANGED <<dialog, request, toast, landed>>
  BY DEF Finish
<1>2. git' = [phase |-> "done", todo |-> git.todo, done |-> git.done, made |-> git.made,
              was |-> git.was, stops |-> git.stops, amended |-> git.amended]
  BY <1>1 DEF PlansInv, Shapes
<1>3. Shapes'
  BY <1>1, <1>2 DEF PlansInv, Shapes
<1>4. OfBranch'
  BY <1>1, <1>2 DEF PlansInv, OfBranch, Made
<1>5. OnScreen' /\ InFlight'
  BY <1>1, <1>2 DEF PlansInv, OnScreen, InFlight
<1>6. InGit'
  <2> PICK g : g = git
    OBVIOUS
  <2> PICK h : h = git'
    OBVIOUS
  <2>1. Rebased(g) /\ g.amended \in BOOLEAN
    BY <1>1 DEF PlansInv, InGit, Rebased, Given
  <2>2. /\ h.todo = g.todo /\ h.was = g.was /\ h.done = g.done /\ h.stops = g.stops /\ h.amended = g.amended
        /\ h.made = g.made /\ h.phase = "done" /\ g.phase = "running" /\ g.done = Len(g.todo)
    BY <1>1, <1>2
  <2>3. Rebased(h)
    BY <2>1, <2>2, SameMade
  <2> QED BY <2>3 DEF InGit
<1>7. Told'
  BY <1>1, <1>2 DEF PlansInv, Told
<1> QED BY <1>3, <1>4, <1>5, <1>6, <1>7 DEF PlansInv

\* The user amends the commit git has stopped at, or does not, and carries on.
LEMMA AmendedIs ==
    ASSUME NEW g, NEW h, Rebased(g), g.phase = "stopped", h.phase = "running",
           h.todo = g.todo, h.was = g.was, h.done = g.done, h.stops = g.stops, h.amended = g.amended,
           h.made = Append(Front(g.made), [Last(g.made) EXCEPT !.again = TRUE])
    PROVE  Rebased(h)
<1>1. Given(g) /\ Bottom(g) /\ Top(g) /\ Counts(g) /\ Holding(g)
  BY DEF Rebased
<1> PICK low \in Nat : low = Lowest(g)
  BY <1>1, LowestIs
<1> PICK m \in Nat : m = Len(g.made)
  BY <1>1, GitIs
<1>2. g.done > low /\ m > low
  BY <1>1 DEF Bottom
<1> PICK above : above = g.made[m]
  OBVIOUS
<1>3. /\ g.made \in Seq(Commits) /\ DOMAIN g.made = 1..m /\ m \in 1..m /\ m # 0
      /\ above \in Commits /\ above.says \in above.holds
  <2>1. g.made \in Seq(Commits) /\ DOMAIN g.made = 1..m
        /\ \A k \in 1..m : g.made[k] \in Commits /\ g.made[k].says \in g.made[k].holds
    BY <1>1, GitIs
  <2>2. m \in 1..m /\ m # 0
    BY <1>2
  <2> QED BY <2>1, <2>2
<1> PICK p : p = [above EXCEPT !.again = TRUE]
  OBVIOUS
<1>4. p \in Commits /\ p.holds = above.holds /\ p.says = above.says /\ p.again = TRUE
  BY <1>3 DEF Commits
<1>5. h.made = Append(Front(g.made), p)
  BY DEF Last
<1>6. /\ h.made \in Seq(Commits) /\ Len(h.made) = m /\ h.made[m] = p
      /\ \A i \in 1..m : i # m => h.made[i] = g.made[i]
  <2>1. g.made \in Seq(Commits) /\ p \in Commits /\ m \in Nat /\ Len(g.made) = m /\ m # 0
    BY <1>3, <1>4
  <2>2. /\ Append(Front(g.made), p) \in Seq(Commits) /\ Len(Append(Front(g.made), p)) = m
        /\ Append(Front(g.made), p)[m] = p
        /\ \A i \in 1..m : i # m => Append(Front(g.made), p)[i] = g.made[i]
    BY ONLY <2>1, Topped
  <2> QED BY <1>5, <2>2
<1>7. DOMAIN h.made = 1..m
  BY <1>6
<1>8. \A k \in 1..m : h.made[k].holds = g.made[k].holds /\ h.made[k].says = g.made[k].says
  <2> SUFFICES ASSUME NEW k \in 1..m
               PROVE  h.made[k].holds = g.made[k].holds /\ h.made[k].says = g.made[k].says
    OBVIOUS
  <2>1. CASE k = m
    BY <1>4, <1>6, <2>1
  <2>2. CASE k # m
    BY <1>6, <2>2
  <2> QED BY <2>1, <2>2
<1>9. /\ \A which : Of(h, which) = Of(g, which) /\ OnTop(h, which) = OnTop(g, which)
      /\ Lowest(h) = low
  BY DEF Of, OnTop, Lowest
<1>10. Capped(g) <=> Capped(h)
  BY <1>9 DEF Capped
<1>11. Given(h)
  BY <1>1, <1>3, <1>6, <1>7, <1>8 DEF Given
<1>12. Counts(h)
  BY <1>1, <1>6, <1>9 DEF Counts
<1>13. Holding(h)
  BY <1>1, <1>3, <1>7, <1>8, <1>9, SMTT(30) DEF Holding
<1>14. Bottom(h)
  <2>1. \A i \in 1..low : i \in 1..m /\ i # m
    BY <1>2
  <2>2. \A i \in 1..low : g.made[i] = g.was[i] \/ (i = low /\ Capped(g))
    BY <1>1, <1>2 DEF Bottom
  <2>3. \A i \in 1..low : h.made[i] = h.was[i] \/ (i = low /\ Capped(h))
    BY <1>6, <1>10, <2>1, <2>2
  <2>4. h.done > low /\ ~(h.done <= low) /\ m >= low /\ m # low
    <3>1. g.done \in Nat
      BY <1>1, GitIs
    <3> QED BY <1>2, <3>1
  <2> QED BY <1>6, <1>9, <2>3, <2>4 DEF Bottom
<1>15. Top(h)
  <2>1. NothingDropped(h) <=> NothingDropped(g)
    BY DEF NothingDropped
  <2>2. \A k \in (low + 1)..m : k \in 1..m
    OBVIOUS
  <2>3. h.made[m].again
    BY <1>4, <1>6
  <2>4. h.amended /\ NothingDropped(h) => \A k \in (low + 1)..m : k # m => g.made[k].again
    BY <1>1, <2>1 DEF Top
  <2>5. h.amended /\ NothingDropped(h) => \A k \in (low + 1)..m : h.made[k].again
    BY <1>6, <2>2, <2>3, <2>4
  <2>6. \E k \in DOMAIN h.made : h.made[k].again
    BY <1>3, <1>7, <2>3
  <2> QED BY <1>6, <1>9, <2>5, <2>6 DEF Top
<1> QED BY <1>11, <1>12, <1>13, <1>14, <1>15 DEF Rebased

LEMMA ContinueKeeps == ASSUME PlansInv, NEW amends \in BOOLEAN, Continue(amends) PROVE PlansInv'
<1> PICK g : g = git
  OBVIOUS
<1> PICK h : h = git'
  OBVIOUS
<1> PICK amended : amended = (g.amended /\ (amends \/ g.phase = "conflict"))
  OBVIOUS
<1> PICK made : made = IF amends /\ g.phase = "stopped"
                       THEN Append(Front(g.made), [Last(g.made) EXCEPT !.again = TRUE]) ELSE g.made
  OBVIOUS
<1>1. /\ g.phase \in {"stopped", "conflict"} /\ request.phase = "none"
      /\ UNCHANGED <<history, dialog, request, toast, landed>>
  BY DEF Continue
<1>2. h = [g EXCEPT !.phase = "running", !.amended = amended, !.made = made]
  BY Zenon DEF Continue
<1>3. h = [phase |-> "running", todo |-> g.todo, done |-> g.done, made |-> made,
           was |-> g.was, stops |-> g.stops, amended |-> amended]
  BY <1>2 DEF PlansInv, Shapes
<1>4. Rebased(g) /\ g.amended \in BOOLEAN
  BY <1>1 DEF PlansInv, InGit, Rebased, Given
<1>5. /\ h.todo = g.todo /\ h.was = g.was /\ h.done = g.done /\ h.stops = g.stops /\ h.amended = amended
      /\ h.made = made /\ h.phase = "running" /\ amended \in BOOLEAN
  BY <1>3, <1>4
<1>6. Rebased(h)
  <2>1. CASE amends /\ g.phase = "stopped"
    <3>1. made = Append(Front(g.made), [Last(g.made) EXCEPT !.again = TRUE])
      BY <2>1
    <3>2. amended = g.amended
      BY <1>4, <2>1
    <3> QED BY <1>4, <1>5, <2>1, <3>1, <3>2, AmendedIs
  <2>2. CASE ~(amends /\ g.phase = "stopped")
    <3>1. made = g.made
      BY <2>2
    <3>2. (amended => g.amended) /\ (g.phase = "stopped" => ~amended)
      BY <2>2
    <3> QED BY <1>4, <1>5, <3>1, <3>2, SameMade
  <2> QED BY <2>1, <2>2
<1>7. InGit'
  BY <1>6 DEF InGit
<1>8. Shapes'
  BY <1>1, <1>3 DEF PlansInv, Shapes
<1>9. OfBranch'
  BY <1>1, <1>5 DEF PlansInv, OfBranch, Made
<1>10. OnScreen' /\ InFlight'
  BY <1>1, <1>5 DEF PlansInv, OnScreen, InFlight
<1>11. Told'
  BY <1>1 DEF PlansInv, Told
<1> QED BY <1>7, <1>8, <1>9, <1>10, <1>11 DEF PlansInv

LEMMA AbortKeeps == ASSUME PlansInv, Abort PROVE PlansInv'
<1>1. /\ git.phase \in {"stopped", "conflict"} /\ request.phase = "none"
      /\ git' = Idle /\ history' = git.was
      /\ UNCHANGED <<dialog, request, toast, landed>>
  BY DEF Abort
<1>2. Plain(git.was) /\ Made(git.was)
  BY <1>1 DEF PlansInv, OfBranch, InGit, Rebased, Given, Approved
<1>3. git'.phase = "idle" /\ git'.was = <<>> /\ git' = [phase |-> "idle", todo |-> git'.todo, done |-> git'.done,
              made |-> git'.made, was |-> git'.was, stops |-> git'.stops, amended |-> git'.amended]
  BY <1>1 DEF Idle
<1>4. ~dialog.open
  BY <1>1 DEF PlansInv, OnScreen
<1>5. Shapes'
  BY <1>1, <1>3 DEF PlansInv, Shapes
<1>6. OfBranch'
  BY <1>1, <1>2, <1>3 DEF PlansInv, OfBranch, Made
<1>7. OnScreen' /\ InFlight' /\ InGit'
  BY <1>1, <1>3, <1>4 DEF PlansInv, OnScreen, InFlight, InGit
<1>8. Told'
  BY <1>1 DEF PlansInv, Told
<1> QED BY <1>5, <1>6, <1>7, <1>8 DEF PlansInv

\* Somebody else moves the branch: what they add is new to it.
LEMMA Moved ==
    ASSUME NEW commits, Plain(commits), NEW c \in Nat, \A i \in DOMAIN commits : commits[i].says < c
    PROVE  /\ Plain(Append(commits, Commit(c)))
           /\ \A i \in DOMAIN Append(commits, Commit(c)) : Append(commits, Commit(c))[i].says <= c
<1> PICK n \in Nat : n = Len(commits)
  BY PlainIs
<1> PICK x : x = Commit(c)
  OBVIOUS
<1>1. x \in Commits /\ x.says = c /\ x = Commit(x.says)
  BY OneCommit
<1>2. commits \in Seq(Commits) /\ DOMAIN commits = 1..n
  BY PlainIs DEF Plain
<1> PICK t : t = Append(commits, x)
  OBVIOUS
<1>3. t \in Seq(Commits) /\ Len(t) = n + 1 /\ (\A i \in 1..n : t[i] = commits[i]) /\ t[n + 1] = x
  BY <1>1, <1>2
<1>4. DOMAIN t = 1..(n + 1) /\ \A i : i \in 1..(n + 1) <=> i \in 1..n \/ i = n + 1
  BY <1>3
<1>5. \A i \in 1..n : commits[i].says \in Nat /\ commits[i].says < c /\ commits[i] = Commit(commits[i].says)
  BY <1>2, PlainIs
<1>6. \A i \in DOMAIN t : t[i] = Commit(t[i].says)
  BY <1>1, <1>3, <1>4, <1>5
<1>7. \A i \in DOMAIN t : t[i].says <= c
  BY <1>1, <1>3, <1>4, <1>5
<1>8. \A i, j \in DOMAIN t : i # j => t[i] # t[j]
  <2> SUFFICES ASSUME NEW i \in DOMAIN t, NEW j \in DOMAIN t, i # j, t[i] = t[j] PROVE FALSE
    OBVIOUS
  <2>1. \A k \in 1..n : commits[k].says # c
    BY <1>5
  <2>2. CASE i \in 1..n /\ j \in 1..n
    BY <1>2, <1>3, <2>2 DEF Plain
  <2>3. CASE i \in 1..n /\ j = n + 1
    BY <1>1, <1>3, <2>1, <2>3
  <2>4. CASE i = n + 1 /\ j \in 1..n
    BY <1>1, <1>3, <2>1, <2>4
  <2> QED BY <1>4, <2>2, <2>3, <2>4
<1>9. Plain(t)
  BY <1>3, <1>6, <1>8 DEF Plain
<1> QED BY <1>7, <1>9

LEMMA TakenOff ==
    ASSUME NEW commits, Plain(commits), commits # <<>>
    PROVE  Plain(Front(commits)) /\ \A i \in DOMAIN Front(commits) :
               i \in DOMAIN commits /\ Front(commits)[i] = commits[i]
<1>1. commits \in Seq(Commits)
  BY DEF Plain
<1> PICK n \in Nat : n = Len(commits)
  BY <1>1
<1>2. DOMAIN commits = 1..n /\ n # 0
  BY <1>1
<1> PICK m \in Nat : n = m + 1
  <2>1. n - 1 \in Nat /\ n = (n - 1) + 1
    BY <1>2
  <2> QED BY <2>1
<1> PICK front : front = Front(commits)
  OBVIOUS
<1>3. front = SubSeq(commits, 1, m)
  <2>1. Len(commits) - 1 = m
    OBVIOUS
  <2> QED BY <2>1 DEF Front
<1>4. front \in Seq(Commits) /\ DOMAIN front = 1..m /\ \A i \in 1..m : front[i] = commits[i]
  <2>1. commits \in Seq(Commits) /\ Len(commits) = m + 1 /\ m \in Nat /\ front = SubSeq(commits, 1, m)
    BY <1>1, <1>3
  <2>2. front \in Seq(Commits) /\ Len(front) = m /\ \A i \in 1..m : front[i] = commits[i]
    BY ONLY <2>1
  <2> QED BY <2>2
<1>5. \A i \in 1..m : i \in DOMAIN commits
  BY <1>2
<1>6. Plain(front)
  BY <1>4, <1>5 DEF Plain
<1> QED BY <1>4, <1>5, <1>6

LEMMA MovesElsewhereKeeps ==
    ASSUME RewriteAssumption, "between" \notin MayHappen, PlansInv, MovesElsewhere
    PROVE  PlansInv'
<1> PICK c : c = Length + landed + 1
  OBVIOUS
<1>1. /\ git.phase = "idle" /\ request.phase # "checked"
      /\ history' = Append(history, Commit(c)) \/ (history # <<>> /\ history' = Front(history))
      /\ landed' = landed + 1
      /\ UNCHANGED <<dialog, request, git, toast>>
  BY DEF MovesElsewhere
<1>2. landed \in Nat /\ landed' \in Nat /\ landed' # 0 /\ landed' > 0 /\ c \in Nat /\ Length + landed' = c
      /\ Length \in Nat
  BY <1>1 DEF RewriteAssumption, PlansInv, Shapes
<1>3. Plain(history) /\ \A i \in DOMAIN history : history[i].says <= Length + landed
  BY <1>1 DEF PlansInv, OfBranch, Made
<1>4. \A i \in DOMAIN history : history[i].says < c
  <2>1. \A i \in DOMAIN history : history[i].says \in Nat
    BY <1>3, PlainIs
  <2> QED BY <1>2, <1>3, <2>1
<1>5. Plain(history') /\ \A i \in DOMAIN history' : history'[i].says <= c
  <2>1. CASE history' = Append(history, Commit(c))
    BY <1>2, <1>3, <1>4, <2>1, Moved
  <2>2. CASE history # <<>> /\ history' = Front(history)
    <3>1. /\ Plain(Front(history))
          /\ \A i \in DOMAIN Front(history) : i \in DOMAIN history /\ Front(history)[i] = history[i]
      BY <1>3, <2>2, TakenOff
    <3>2. \A i \in DOMAIN history : history[i].says \in Nat
      BY <1>3, PlainIs
    <3>3. \A i \in DOMAIN history : history[i].says <= c
      BY <1>2, <1>4, <3>2
    <3> QED BY <2>2, <3>1, <3>3
  <2> QED BY <1>1, <2>1, <2>2
<1>6. Shapes'
  BY <1>1, <1>2 DEF PlansInv, Shapes
<1>7. OfBranch'
  <2>1. Made(history)'
    BY <1>2, <1>5 DEF Made
  <2>2. Made(git.was)'
    <3>1. git.was = <<>>
      BY <1>1 DEF PlansInv, Shapes, Idle
    <3> QED BY <1>1, <3>1 DEF Made
  <2> QED BY <1>1, <1>5, <2>1, <2>2 DEF OfBranch
<1>8. OnScreen'
  BY <1>1, <1>2 DEF PlansInv, OnScreen
<1>9. InFlight'
  BY <1>1 DEF PlansInv, InFlight
<1>10. InGit' /\ Told'
  BY <1>1, <1>2, GitStays DEF PlansInv, Told
<1> QED BY <1>6, <1>7, <1>8, <1>9, <1>10 DEF PlansInv

LEMMA PlansStay == ASSUME PlansInv, UNCHANGED rewriteVars PROVE PlansInv'
<1>1. UNCHANGED <<history, dialog, request, git, toast, landed>>
  BY DEF rewriteVars
<1>2. Shapes' /\ OfBranch' /\ OnScreen' /\ InFlight'
  BY <1>1 DEF PlansInv, Shapes, OfBranch, Made, OnScreen, InFlight
<1>3. InGit' /\ Told'
  BY <1>1, GitStays DEF PlansInv, Told
<1> QED BY <1>2, <1>3 DEF PlansInv

LEMMA PlansBegin == ASSUME RewriteAssumption, RewriteInit PROVE PlansInv
<1>1. /\ history = [i \in 1..Length |-> Commit(i)]
      /\ dialog = NoDialog /\ request = NoRequest /\ git = Idle /\ toast = Silent /\ landed = 0
  BY DEF RewriteInit
<1>2. Length \in Nat
  BY DEF RewriteAssumption
<1>3. \A i \in 1..Length : i \in Nat /\ history[i] = Commit(i)
  BY <1>1, <1>2
<1>4. \A i \in 1..Length : history[i] \in Commits /\ history[i].says = i
  BY <1>3, OneCommit, ZenonT(40)
<1>5. history \in Seq(Commits) /\ DOMAIN history = 1..Length
  <2>1. history \in [1..Length -> Commits]
    BY <1>1, <1>4
  <2> QED BY <1>2, <2>1
<1>6. Plain(history)
  BY <1>3, <1>4, <1>5 DEF Plain
<1>7. Made(history) /\ Made(git.was)
  <2>1. git.was = <<>>
    BY <1>1 DEF Idle
  <2> QED BY <1>1, <1>2, <1>4, <1>5, <2>1 DEF Made
<1>8. Shapes
  BY <1>1 DEF Shapes, NoDialog, NoRequest, Idle
<1>9. git.phase = "idle" /\ ~dialog.open /\ request.phase = "none" /\ toast.tone = "none"
  BY <1>1 DEF NoDialog, NoRequest, Idle, Silent
<1> QED BY <1>6, <1>7, <1>8, <1>9 DEF PlansInv, OfBranch, OnScreen, InFlight, InGit, Told

LEMMA PlansGoOn ==
    ASSUME RewriteAssumption, "between" \notin MayHappen, PlansInv, [RewriteNext]_rewriteVars
    PROVE  PlansInv'
<1>1. ASSUME NEW at \in DOMAIN dialog.steps, NEW by \in {-1, 1}, Move(at, by) PROVE PlansInv'
  BY <1>1, MoveKeeps
<1>2. ASSUME NEW at \in DOMAIN dialog.steps, NEW instruction \in Instructions, WithInstruction(at, instruction)
      PROVE  PlansInv'
  BY <1>2, InstructionKeeps
<1>3. ASSUME NEW amends \in BOOLEAN, Continue(amends) PROVE PlansInv'
  BY <1>3, ContinueKeeps
<1>4. Plan \/ Confirm \/ Cancel => PlansInv'
  BY PlanKeeps, ConfirmKeeps, CancelKeeps
<1>5. Handle \/ RebaseRefused \/ RebaseInteractive \/ AnswerWithPlanOutcome => PlansInv'
  BY HandleKeeps, RefusedKeeps, StartKeeps, OutcomeKeeps
<1>6. Line \/ Finish \/ Abort \/ MovesElsewhere => PlansInv'
  BY LineKeeps, FinishKeeps, AbortKeeps, MovesElsewhereKeeps
<1> QED BY <1>1, <1>2, <1>3, <1>4, <1>5, <1>6, PlansStay DEF RewriteNext

-----------------------------------------------------------------------------
(* What the plan did to the branch. *)

\* The rows of a plan that is done are those that are kept as one, those that
\* are combined, and those that are dropped.
LEMMA RowsAddUp ==
    ASSUME NEW g, Given(g), g.done = Len(g.todo)
    PROVE  /\ Cardinality(Of(g, Single)) = Len(g.todo) - Dropped(g.todo) - Combined(g.todo)
           /\ Cardinality(Of(g, {"edit"})) = Stops(g.todo)
           /\ Dropped(g.todo) = 0 => NothingDropped(g)
<1> PICK n \in Nat : n = Len(g.todo)
  BY GitIs
<1>1. DOMAIN g.todo = 1..n /\ \A i \in 1..n : g.todo[i].instruction \in Instructions
  BY GitIs
<1>2. \A which : Count(g.todo, which) = Cardinality(Of(g, which))
  BY <1>1 DEF Count, Of
<1> PICK D : D = Of(g, {"drop"})
  OBVIOUS
<1> PICK F : F = Of(g, Folds)
  OBVIOUS
<1> PICK S : S = Of(g, Single)
  OBVIOUS
<1>3. Dropped(g.todo) = Cardinality(D) /\ Combined(g.todo) = Cardinality(F) /\ Stops(g.todo) = Cardinality(Of(g, {"edit"}))
  <2>1. Dropped(g.todo) = Cardinality(D)
    BY <1>2 DEF Dropped
  <2>2. Combined(g.todo) = Cardinality(F)
    BY <1>2, Zenon DEF Combined, Folds
  <2>3. Stops(g.todo) = Cardinality(Of(g, {"edit"}))
    BY <1>2 DEF Stops
  <2> QED BY <2>1, <2>2, <2>3
<1>4. /\ \A i : i \in D <=> i \in 1..n /\ g.todo[i].instruction \in {"drop"}
      /\ \A i : i \in F <=> i \in 1..n /\ g.todo[i].instruction \in Folds
      /\ \A i : i \in S <=> i \in 1..n /\ g.todo[i].instruction \in Single
  BY DEF Of
<1>5. /\ \A x : x \in Instructions <=> x \in {"drop"} \/ x \in Folds \/ x \in Single
      /\ \A x : x \in Folds => x \notin {"drop"} /\ x \notin Single
      /\ \A x : x \in {"drop"} => x \notin Single
  BY Zenon DEF Instructions, Folds, Single
<1>6. IsFiniteSet(D) /\ IsFiniteSet(F) /\ IsFiniteSet(S)
  <2>1. 1 \in Int /\ n \in Int
    OBVIOUS
  <2>2. IsFiniteSet(1..n)
    BY <2>1, FS_Interval
  <2>3. D \subseteq 1..n /\ F \subseteq 1..n /\ S \subseteq 1..n
    BY <1>4
  <2> QED BY <2>2, <2>3, FS_Subset
<1> PICK both : both = D \cup F
  OBVIOUS
<1>7. D \cap F = {} /\ both \cap S = {} /\ both \cup S = 1..n
  <2>1. D \cap F = {}
    BY <1>4, <1>5
  <2>2. both \cap S = {}
    BY <1>4, <1>5
  <2>3. \A i : i \in both \cup S <=> i \in 1..n
    BY <1>1, <1>4, <1>5
  <2> QED BY <2>1, <2>2, <2>3
<1>8. IsFiniteSet(both) /\ Cardinality(both) = Cardinality(D) + Cardinality(F)
  <2>1. Cardinality(D \cap F) = 0
    BY <1>7, FS_EmptySet
  <2>2. /\ IsFiniteSet(D \cup F)
        /\ Cardinality(D \cup F) = Cardinality(D) + Cardinality(F) - Cardinality(D \cap F)
    BY <1>6, FS_Union
  <2>3. Cardinality(D) \in Nat /\ Cardinality(F) \in Nat
    BY <1>6, FS_CardinalityType
  <2> QED BY <2>1, <2>2, <2>3
<1>9. Cardinality(1..n) = Cardinality(both) + Cardinality(S)
  <2>1. Cardinality(both \cap S) = 0
    BY <1>7, FS_EmptySet
  <2>2. Cardinality(both \cup S) = Cardinality(both) + Cardinality(S) - Cardinality(both \cap S)
    BY <1>6, <1>8, FS_Union
  <2>3. Cardinality(both) \in Nat /\ Cardinality(S) \in Nat
    BY <1>6, <1>8, FS_CardinalityType
  <2>4. Cardinality(both \cup S) = Cardinality(1..n)
    BY <1>7
  <2> QED BY <2>1, <2>2, <2>3, <2>4
<1>10. Cardinality(1..n) = n
  <2>1. 1 \in Int /\ n \in Int
    OBVIOUS
  <2>2. Cardinality(1..n) = IF 1 > n THEN 0 ELSE n - 1 + 1
    BY <2>1, FS_Interval
  <2> QED BY <2>2
<1>11. Cardinality(S) = n - Cardinality(D) - Cardinality(F)
  <2>1. Cardinality(D) \in Nat /\ Cardinality(F) \in Nat /\ Cardinality(S) \in Nat
    BY <1>6, FS_CardinalityType
  <2> QED BY <1>8, <1>9, <1>10, <2>1
<1>12. Dropped(g.todo) = 0 => NothingDropped(g)
  <2>1. Cardinality(D) = 0 => D = {}
    BY <1>6, FS_EmptySet
  <2>2. D = {} => \A i \in 1..n : g.todo[i].instruction # "drop"
    BY <1>4
  <2> QED BY <1>1, <1>3, <2>1, <2>2 DEF NothingDropped
<1> QED BY <1>3, <1>11, <1>12

\* A row that is combined into the untouched ones is the first that is kept of
\* those above them.
LEMMA CappedCombines ==
    ASSUME NEW g, Given(g), Capped(g)
    PROVE  FirstKeptCombines(SubSeq(g.todo, Lowest(g) + 1, Len(g.todo)))
<1> PICK n \in Nat : n = Len(g.todo)
  BY GitIs
<1> PICK low \in Nat : low = Lowest(g)
  BY LowestIs
<1> PICK todo : todo = g.todo
  OBVIOUS
<1>1. \E R : todo \in Seq(R)
  BY DEF Given, Approved, Rearranged
<1> PICK R : todo \in Seq(R)
  BY <1>1
<1>2. low <= n /\ Len(todo) = n
  BY LowestIs
<1>3. PICK j \in OnTop(g, Folds) : \A l \in (low + 1)..(j - 1) : todo[l].instruction = "drop"
  BY DEF Capped
<1>4. j \in (low + 1)..g.done /\ todo[j].instruction \in Folds
  BY <1>3 DEF OnTop
<1>5. j \in Int /\ j >= low + 1 /\ j <= n
  <2>1. g.done \in Nat /\ g.done <= n
    BY GitIs
  <2> QED BY <1>4, <2>1
<1> PICK above : above = SubSeq(todo, low + 1, n)
  OBVIOUS
<1> PICK b \in Nat : n = low + b
  <2>1. n - low \in Nat /\ n = low + (n - low)
    BY <1>2
  <2> QED BY <2>1
<1>6. Len(above) = b /\ DOMAIN above = 1..b /\ \A q \in 1..b : above[q] = todo[low + q]
  <2>1. /\ todo \in Seq(R) /\ low \in Nat /\ b \in Nat /\ n = low + b /\ n = Len(todo)
        /\ above = SubSeq(todo, low + 1, n)
    BY <1>2
  <2> QED BY ONLY <2>1
<1> PICK i \in 1..b : j = low + i
  <2> PICK e \in Int : e = j
    BY <1>5
  <2> PICK x \in Int : x = e - low
    OBVIOUS
  <2>1. x = e - low /\ e >= low + 1 /\ e <= low + b
    BY <1>5
  <2>2. x >= 1 /\ x <= b /\ e = low + x
    BY ONLY <2>1
  <2>3. x \in 1..b
    BY <2>2
  <2> QED BY <2>2, <2>3
<1>7. Combines(above[i].instruction)
  BY <1>4, <1>6, Zenon DEF Folds, Combines
<1>8. \A q \in 1..(i - 1) : above[q].instruction = "drop"
  <2> SUFFICES ASSUME NEW q \in 1..(i - 1) PROVE above[q].instruction = "drop"
    OBVIOUS
  <2> PICK e \in Int : e = i
    OBVIOUS
  <2>1. e \in 1..b /\ q \in 1..(e - 1) /\ j = low + e
    OBVIOUS
  <2>2. q \in Int /\ q >= 1 /\ q <= e - 1
    BY <2>1
  <2>3. q \in 1..b /\ low + q \in (low + 1)..((low + e) - 1)
    <3>1. e <= b /\ e \in Int /\ b \in Int /\ low \in Int
      BY <2>1
    <3>2. q \in 1..b
      BY <2>2, <3>1
    <3> PICK f \in Int : f = q
      BY <2>2
    <3> PICK x \in Int : x = low + f
      BY <3>1
    <3>0. x = low + f /\ f >= 1 /\ f <= e - 1
      BY <2>2
    <3>3. x >= low + 1 /\ x <= (low + e) - 1
      BY ONLY <3>0
    <3>4. x \in (low + 1)..((low + e) - 1)
      BY <3>1, <3>3
    <3> QED BY <3>2, <3>4
  <2>4. low + q \in (low + 1)..(j - 1)
    BY <2>1, <2>3
  <2> QED BY <1>3, <1>6, <2>3, <2>4
<1>9. FirstKeptCombines(above)
  BY <1>6, <1>7, <1>8 DEF FirstKeptCombines
<1> QED BY <1>9

LEMMA DoneTells == ASSUME NEW g, Rebased(g), g.phase = "done"
    PROVE  LET told == Summary(g.todo, g.was)
               above == SubSeq(g.todo, told.untouched + 1, Len(g.todo))
           IN  /\ Len(g.made) = told.surviving
               /\ g.stops = told.stops
               /\ \A i \in 1..told.untouched :
                      g.made[i] = g.was[i] \/ (i = told.untouched /\ FirstKeptCombines(above))
               /\ g.amended /\ told.dropped = 0 =>
                      \A i \in (told.untouched + 1)..Len(g.made) : g.made[i].again
<1> PICK told : told = Summary(g.todo, g.was)
  OBVIOUS
<1> PICK above : above = SubSeq(g.todo, told.untouched + 1, Len(g.todo))
  OBVIOUS
<1> PICK low : low = Lowest(g)
  OBVIOUS
<1>1. Given(g) /\ Counts(g) /\ Bottom(g) /\ Top(g) /\ g.done = Len(g.todo)
  BY DEF Rebased, Given
<1>2. /\ told.surviving = Len(g.todo) - Dropped(g.todo) - Combined(g.todo)
      /\ told.stops = Stops(g.todo) /\ told.dropped = Dropped(g.todo) /\ told.untouched = low
  BY DEF Summary, Lowest
<1>3. Len(g.made) = told.surviving /\ g.stops = told.stops
  BY <1>1, <1>2, RowsAddUp DEF Counts
<1>4. ASSUME NEW i \in 1..low PROVE g.made[i] = g.was[i] \/ (i = low /\ FirstKeptCombines(above))
  <2>1. low \in Nat /\ g.done \in Nat
    BY <1>1, LowestIs, GitIs
  <2>2. CASE g.done <= low
    <3> PICK was : was = g.was
      OBVIOUS
    <3> PICK n \in Nat : n = g.done
      BY <2>1
    <3>1. was \in Seq(Commits) /\ Len(was) = n /\ low <= n
      BY <1>1, GitIs, LowestIs
    <3>2. g.made = SubSeq(was, 1, n)
      BY <1>1, <2>2 DEF Bottom
    <3>3. i \in 1..n
      BY <2>1, <3>1
    <3>4. SubSeq(was, 1, n)[i] = was[i]
      BY <3>1, <3>3
    <3> QED BY <3>2, <3>4
  <2>3. CASE g.done > low
    <3>1. g.made[i] = g.was[i] \/ (i = low /\ Capped(g))
      BY <1>1, <2>3 DEF Bottom
    <3>2. Capped(g) => FirstKeptCombines(above)
      BY <1>1, <1>2, CappedCombines
    <3> QED BY <3>1, <3>2
  <2> QED BY <2>1, <2>2, <2>3
<1>5. ASSUME g.amended, told.dropped = 0 PROVE \A i \in (low + 1)..Len(g.made) : g.made[i].again
  <2>1. NothingDropped(g)
    BY <1>1, <1>2, <1>5, RowsAddUp
  <2> QED BY <1>1, <1>5, <2>1 DEF Top
<1> QED BY <1>2, <1>3, <1>4, <1>5

LEMMA AllHeld ==
    ASSUME NEW commits
    PROVE  \A c : c \in UNION {commit.holds : commit \in ToSet(commits)} <=>
                    \E k \in DOMAIN commits : c \in commits[k].holds
<1> SUFFICES ASSUME NEW c
             PROVE  c \in UNION {commit.holds : commit \in ToSet(commits)} <=>
                        \E k \in DOMAIN commits : c \in commits[k].holds
  OBVIOUS
<1>1. ASSUME c \in UNION {commit.holds : commit \in ToSet(commits)}
      PROVE  \E k \in DOMAIN commits : c \in commits[k].holds
  <2>1. PICK commit \in ToSet(commits) : c \in commit.holds
    BY <1>1
  <2>2. PICK k \in DOMAIN commits : commit = commits[k]
    BY <2>1 DEF ToSet
  <2> QED BY <2>1, <2>2
<1>2. ASSUME NEW k \in DOMAIN commits, c \in commits[k].holds
      PROVE  c \in UNION {commit.holds : commit \in ToSet(commits)}
  <2>1. commits[k] \in ToSet(commits)
    BY DEF ToSet
  <2> QED BY <1>2, <2>1
<1> QED BY <1>1, <1>2

LEMMA AllDropped ==
    ASSUME NEW steps
    PROVE  \A c : c \in UNION {step.commit.holds : step \in {step \in ToSet(steps) : step.instruction = "drop"}} <=>
                    \E i \in DOMAIN steps : steps[i].instruction = "drop" /\ c \in steps[i].commit.holds
<1> PICK gone : gone = {step \in ToSet(steps) : step.instruction = "drop"}
  OBVIOUS
<1> SUFFICES ASSUME NEW c
             PROVE  c \in UNION {step.commit.holds : step \in gone} <=>
                        \E i \in DOMAIN steps : steps[i].instruction = "drop" /\ c \in steps[i].commit.holds
  OBVIOUS
<1>1. ASSUME c \in UNION {step.commit.holds : step \in gone}
      PROVE  \E i \in DOMAIN steps : steps[i].instruction = "drop" /\ c \in steps[i].commit.holds
  <2>1. PICK step \in gone : c \in step.commit.holds
    BY <1>1
  <2>2. PICK i \in DOMAIN steps : step = steps[i]
    BY <2>1 DEF ToSet
  <2> QED BY <2>1, <2>2
<1>2. ASSUME NEW i \in DOMAIN steps, steps[i].instruction = "drop", c \in steps[i].commit.holds
      PROVE  c \in UNION {step.commit.holds : step \in gone}
  <2>1. steps[i] \in gone
    BY <1>2 DEF ToSet
  <2> QED BY <1>2, <2>1
<1> QED BY <1>1, <1>2

\* What a plan that is done takes off the branch is what its rows said.
LEMMA DoneKeeps == ASSUME NEW g, Rebased(g), g.phase = "done"
    PROVE  UNION {commit.holds : commit \in ToSet(g.made)}
            = (UNION {commit.holds : commit \in ToSet(g.was)})
              \ (UNION {step.commit.holds :
                            step \in {step \in ToSet(g.todo) : step.instruction = "drop"}})
<1> PICK n \in Nat : n = Len(g.todo)
  BY GitIs DEF Rebased
<1>1. Given(g) /\ Holding(g) /\ g.done = n /\ Plain(g.was) /\ Rearranged(g.todo, g.was)
  BY DEF Rebased, Given, Approved
<1>2. /\ DOMAIN g.todo = 1..n /\ DOMAIN g.was = 1..n
      /\ \A i \in 1..n : /\ g.todo[i].instruction \in Instructions
                        /\ \E k \in 1..n : g.todo[i].commit = g.was[k]
  <2>1. DOMAIN g.todo = 1..n /\ DOMAIN g.was = 1..n
    BY <1>1, GitIs
  <2>2. \A i \in DOMAIN g.todo : g.todo[i].instruction \in Instructions /\ \E k \in DOMAIN g.was : g.todo[i].commit = g.was[k]
    <3>1. Rearranged(g.todo, g.was)
      BY <1>1
    <3> QED BY ONLY <3>1, RowsAre
  <2> QED BY <2>1, <2>2
<1>3. \A i \in 1..n : i \in Of(g, Kept) <=> g.todo[i].instruction # "drop"
  BY <1>1, <1>2 DEF Of, Kept
<1>4. \A i \in Of(g, Kept) : i \in 1..n
  BY <1>1 DEF Of
<1> PICK made : made = UNION {commit.holds : commit \in ToSet(g.made)}
  OBVIOUS
<1> PICK was : was = UNION {commit.holds : commit \in ToSet(g.was)}
  OBVIOUS
<1> PICK dropped : dropped = UNION {step.commit.holds : step \in {step \in ToSet(g.todo) : step.instruction = "drop"}}
  OBVIOUS
<1>5. \A c : c \in made <=> \E k \in DOMAIN g.made : c \in g.made[k].holds
  BY AllHeld
<1>6. \A c : c \in was <=> \E k \in 1..n : c \in g.was[k].holds
  BY <1>2, AllHeld
<1>7. \A c : c \in dropped <=> \E i \in 1..n : g.todo[i].instruction = "drop" /\ c \in g.todo[i].commit.holds
  BY <1>2, AllDropped
<1>8. ASSUME NEW c \in made PROVE c \in was /\ c \notin dropped
  <2>1. PICK k \in DOMAIN g.made : c \in g.made[k].holds
    BY <1>5
  <2>2. PICK i \in Of(g, Kept) : c \in g.todo[i].commit.holds
    BY <1>1, <2>1 DEF Holding
  <2>3. i \in 1..n /\ g.todo[i].instruction # "drop"
    BY <1>3, <1>4
  <2>4. PICK p \in 1..n : g.todo[i].commit = g.was[p]
    BY <1>2, <2>3
  <2>5. c \in was
    BY <1>6, <2>2, <2>4
  <2>6. ASSUME NEW j \in 1..n, g.todo[j].instruction = "drop", c \in g.todo[j].commit.holds PROVE FALSE
    <3>1. PICK q \in 1..n : g.todo[j].commit = g.was[q]
      BY <1>2
    <3>2. i # j
      BY <2>3, <2>6
    <3>3. g.todo[i].commit # g.todo[j].commit
      BY <1>1, <1>2, <2>3, <3>2, RowsDiffer, ZenonT(40)
    <3>4. p # q
      BY <2>4, <3>1, <3>3
    <3>5. g.was[p].holds \cap g.was[q].holds = {}
      BY <1>1, <1>2, <3>4, PlainIs
    <3> QED BY <2>2, <2>4, <2>6, <3>1, <3>5
  <2> QED BY <1>7, <2>5, <2>6
<1>9. ASSUME NEW c, c \in was, c \notin dropped PROVE c \in made
  <2>1. PICK k \in 1..n : c \in g.was[k].holds
    BY <1>6, <1>9
  <2>2. PICK i \in 1..n : g.todo[i].commit = g.was[k]
    BY <1>1, <1>2 DEF Rearranged
  <2>3. g.todo[i].instruction # "drop"
    BY <1>7, <1>9, <2>1, <2>2
  <2>4. i \in Of(g, Kept) /\ c \in g.todo[i].commit.holds
    BY <1>3, <2>1, <2>2, <2>3
  <2>5. \E l \in DOMAIN g.made : c \in g.made[l].holds
    BY <1>1, <2>4 DEF Holding
  <2> QED BY <1>5, <2>5
<1>10. made = was \ dropped
  BY <1>8, <1>9
<1> QED BY <1>10

LEMMA PlansType == ASSUME PlansInv PROVE RewriteTypeOK
<1>1. \A commits : Plain(commits) => \A i \in DOMAIN commits : commits[i].says \in commits[i].holds
  <2> SUFFICES ASSUME NEW commits, Plain(commits), NEW i \in DOMAIN commits PROVE commits[i].says \in commits[i].holds
    OBVIOUS
  <2>1. commits[i].holds = {commits[i].says}
    BY PlainIs
  <2> QED BY <2>1
<1>2. \A i \in DOMAIN git.made : git.made[i].says \in git.made[i].holds
  <2>1. git.phase # "idle" => \A i \in DOMAIN git.made : git.made[i].says \in git.made[i].holds
    BY DEF PlansInv, InGit, Rebased, Given
  <2>2. git.phase = "idle" => git.made = <<>>
    BY DEF PlansInv, Shapes, Idle
  <2> QED BY <2>1, <2>2
<1>3. \A i \in DOMAIN git.was : git.was[i].says \in git.was[i].holds
  <2>1. git.phase # "idle" => Plain(git.was)
    BY DEF PlansInv, InGit, Rebased, Given, Approved
  <2>2. git.phase = "idle" => git.was = <<>>
    BY DEF PlansInv, Shapes, Idle
  <2> QED BY <1>1, <2>1, <2>2
<1>4. \A i \in DOMAIN history : history[i].says \in history[i].holds
  <2>1. git.phase # "done" => Plain(history)
    BY DEF PlansInv, OfBranch
  <2>2. git.phase = "done" => history = git.made
    BY DEF PlansInv, OfBranch
  <2> QED BY <1>1, <1>2, <2>1, <2>2
<1>5. \A i \in DOMAIN dialog.commits : dialog.commits[i].says \in dialog.commits[i].holds
  <2>1. dialog.open => Plain(dialog.commits)
    BY DEF PlansInv, OnScreen
  <2>2. ~dialog.open => dialog.commits = <<>>
    BY DEF PlansInv, Shapes, NoDialog
  <2> QED BY <1>1, <2>1, <2>2
<1>6. git.done \in 0..Len(git.todo)
  <2>1. git.phase # "idle" => git.done \in 0..Len(git.todo)
    BY DEF PlansInv, InGit, Rebased, Given
  <2>2. git.phase = "idle" => git.done = 0 /\ git.todo = <<>>
    BY DEF PlansInv, Shapes, Idle
  <2> QED BY <2>1, <2>2
<1> QED BY <1>2, <1>3, <1>4, <1>5, <1>6 DEF RewriteTypeOK, PlansInv, Shapes, Told

LEMMA PlansTell == ASSUME PlansInv PROVE PlansAreKept
<1>1. RewriteTypeOK
  BY PlansType
<1>2. PlanTellsTheOutcome
  <2> SUFFICES ASSUME git.phase = "done" PROVE PlanTellsTheOutcome
    BY DEF PlanTellsTheOutcome
  <2>1. Rebased(git)
    BY DEF PlansInv, InGit
  <2> QED BY <2>1, DoneTells DEF PlanTellsTheOutcome
<1>3. OnlyDropsTakeAway
  <2>1. git.phase = "done" => Rebased(git)
    BY DEF PlansInv, InGit
  <2> QED BY <2>1, DoneKeeps DEF OnlyDropsTakeAway
<1>4. CombinesHaveATarget
  <2> SUFFICES ASSUME git.phase = "running", git.done < Len(git.todo), Combines(git.todo[git.done + 1].instruction),
                      git.made = <<>>
               PROVE  FALSE
    BY DEF CombinesHaveATarget
  <2>1. Given(git) /\ Holding(git)
    BY DEF PlansInv, InGit, Rebased
  <2>2. Row(git).instruction \in Folds
    BY Zenon DEF Row, Combines, Folds
  <2>3. Len(git.made) # 0
    BY <2>1, <2>2, HasATarget
  <2> QED BY <2>3
<1> QED BY <1>1, <1>2, <1>3, <1>4 DEF PlansAreKept

\* What is told when an answer comes.
Answering ==
    toast' # toast =>
        /\ toast'.tone = "refused" => landed > 0 /\ git.phase = "idle"
        /\ toast'.tone = "failed" => git.phase \in {"idle", "conflict"} \/ toast'.unread
        /\ toast'.tone = "stopped" => git.phase = "stopped" /\ git.done = toast'.step
        /\ toast'.tone = "rewrote" => git.phase = "done" \/ (git.phase = "stopped" /\ toast'.unread)

\* A plan of the dialog is refused only when the branch has moved.
LEMMA RefusalsAreTrue == ASSUME PlansInv, Handle PROVE Answering
<1>1. request.phase = "sent" /\ dialog.open /\ git.phase = "idle"
  BY DEF Handle, PlansInv, InFlight, OnScreen
<1>2. CASE history # <<>> /\ CheckPlan(request.steps, history)
  BY <1>2 DEF Handle, Answering
<1>3. CASE ~(history # <<>> /\ CheckPlan(request.steps, history))
  <2>1. toast' = [Silent EXCEPT !.tone = "refused"]
    BY <1>3 DEF Handle, Answered
  <2>2. landed # 0
    <3>1. /\ request.steps = dialog.steps /\ ~PlanRefused(dialog.steps, dialog.commits)
          /\ Rearranged(dialog.steps, dialog.commits) /\ (landed = 0 => history = dialog.commits)
      BY <1>1 DEF PlansInv, InFlight, OnScreen
    <3> QED BY <1>3, <3>1, OwnPlanPasses
  <2>3. landed > 0
    BY <2>2 DEF PlansInv, Shapes
  <2> QED BY <1>1, <2>1, <2>3 DEF Answering, Silent
<1> QED BY <1>2, <1>3

LEMMA OutcomesAreTrue == ASSUME PlansInv, AnswerWithPlanOutcome PROVE Answering
<1>1. PICK refs \in BOOLEAN, state \in BOOLEAN : toast' = PlanOutcome(refs, state)
  BY DEF AnswerWithPlanOutcome, Answered
<1>2. git.phase \in {"stopped", "conflict", "done"}
  BY Exited
<1>3. /\ toast'.tone \in {"failed", "stopped", "rewrote"}
      /\ toast'.tone = "failed" => git.phase = "conflict" \/ toast'.unread
      /\ toast'.tone = "stopped" => git.phase = "stopped" /\ git.done = toast'.step
      /\ toast'.tone = "rewrote" => git.phase = "done" \/ (git.phase = "stopped" /\ toast'.unread)
  BY <1>1, <1>2, OutcomeIs
<1> QED BY <1>3 DEF Answering

LEMMA AnswersTell == ASSUME PlansInv, [RewriteNext]_rewriteVars PROVE Answering
<1>1. CASE Handle
  BY <1>1, RefusalsAreTrue
<1>2. CASE AnswerWithPlanOutcome
  BY <1>2, OutcomesAreTrue
<1>3. CASE RebaseRefused
  <2>1. toast' = [Silent EXCEPT !.tone = "failed"]
    BY <1>3 DEF RebaseRefused, Answered
  <2>2. git.phase = "idle"
    BY <1>3 DEF RebaseRefused, PlansInv, InFlight, OnScreen
  <2> QED BY <2>1, <2>2 DEF Answering, Silent
<1>4. CASE UNCHANGED toast
  BY <1>4 DEF Answering
<1>5. CASE ~Handle /\ ~AnswerWithPlanOutcome /\ ~RebaseRefused
  <2>1. ASSUME NEW at, NEW by, Move(at, by) PROVE UNCHANGED toast
    BY <2>1 DEF Move
  <2>2. ASSUME NEW at, NEW instruction, WithInstruction(at, instruction) PROVE UNCHANGED toast
    BY <2>2 DEF WithInstruction
  <2>3. ASSUME NEW amends, Continue(amends) PROVE UNCHANGED toast
    BY <2>3 DEF Continue
  <2>4. Plan \/ Confirm \/ Cancel \/ RebaseInteractive => UNCHANGED toast
    BY DEF Plan, Confirm, Cancel, RebaseInteractive
  <2>5. Line \/ Finish \/ Abort \/ MovesElsewhere \/ UNCHANGED rewriteVars => UNCHANGED toast
    BY DEF Line, Finish, Abort, MovesElsewhere, rewriteVars
  <2>6. UNCHANGED toast
    BY <1>5, <2>1, <2>2, <2>3, <2>4, <2>5 DEF RewriteNext
  <2> QED BY <1>4, <2>6
<1> QED BY <1>1, <1>2, <1>3, <1>5

\* A plan does to the branch what the dialog said of it, and only that, unless
\* the branch moves between the check of a plan and git
\* (interactiveRebase.ts, planSummary; git/interactive.go, ErrPlanNotTheRange;
\* api/interactive.go, answerWithPlanOutcome).
THEOREM PlansAreTold ==
    ASSUME "between" \notin MayHappen
    PROVE  RewriteSpec => RewritesAreTold
<1>1. RewriteInit => PlansInv
  BY RewriteAssumption, PlansBegin
<1>2. PlansInv /\ [RewriteNext]_rewriteVars => PlansInv'
  BY RewriteAssumption, PlansGoOn
<1>3. PlansInv => PlansAreKept
  BY PlansTell
<1>4. PlansInv /\ [RewriteNext]_rewriteVars => Answering
  BY AnswersTell
<1>5. RewriteSpec => []PlansInv /\ [][PlansInv /\ [RewriteNext]_rewriteVars]_rewriteVars
  BY <1>1, <1>2, PTL DEF RewriteSpec
<1>6. RewriteSpec => [][Answering]_rewriteVars
  BY <1>4, <1>5, PTL
<1>7. RewriteSpec => AnswersAreTrue
  BY <1>6 DEF AnswersAreTrue, Answering
<1>8. RewriteSpec => []PlansAreKept
  BY <1>3, <1>5, PTL
<1> QED BY <1>7, <1>8 DEF RewritesAreTold
=============================================================================
