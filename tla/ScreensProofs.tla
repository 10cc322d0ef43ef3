---------------------------- MODULE ScreensProofs ---------------------------
(***************************************************************************)
(* What is proved of the parts of the page that the user is faced with one *)
(* at a time: of the buffers and the messages being typed, for any files,  *)
(* any texts and any number of gestures; of a transfer and the progress it *)
(* shows; of the tabs; and of the dialogs of the workbench.                *)
(***************************************************************************)
EXTENDS Drafts, Transfer, Session, Dialogs, SequenceTheorems, TLAPS

-----------------------------------------------------------------------------
(* The inductive invariant of the buffer, on whatever happens. *)

FilesTypes ==
    /\ disk \in [Files -> Texts] /\ unmerged \subseteq Files
    /\ cache \in [Files -> Texts \cup {None}]
    /\ open \in Files \cup {None}
    /\ view \in {"changes", "history"}
    /\ stale = {}
    /\ draft \in Texts \cup {None}
    /\ over \in Texts \cup {None}
    /\ keeping \in BOOLEAN
    /\ operation \in Operations \cup {None}
    /\ texts \in Texts
    /\ strokes \in Nat

\* A buffer is laid over the file as it is held, and was typed over that.
Laid ==
    /\ draft # None => open # None /\ view = "changes" /\ seen # None /\ over = seen
    /\ open # None /\ view = "changes" => seen = cache[open]
    /\ keeping => view = "changes" /\ open # None

\* A side is taken of the file that is drawn, and a save names what it was
\* typed over.
InOperation ==
    operation # None =>
        /\ operation.kind = "resolve" => keeping /\ operation.path = open
        /\ operation.kind = "save" =>
               /\ operation.text # None /\ operation.over = operation.base
               /\ operation.found # None => operation.found = operation.base

FilesInv == FilesTypes /\ Laid /\ InOperation

BoxTypes ==
    /\ head \in {0} \cup Texts /\ stopMessage \in {0} \cup Texts
    /\ stop \in Stops /\ shownStop \in Stops
    /\ staged \in BOOLEAN
    /\ message \in (0..texts) \cup {None}
    /\ amend \in BOOLEAN /\ confirming \in BOOLEAN
    /\ prepared \in [MessageKeys -> {0} \cup Texts \cup {None}]
    /\ staleMessage \subseteq {k \in MessageKeys : prepared[k] # None}
    /\ commit \in Commits \cup {None}
    /\ recorded \subseteq 1..texts
    /\ confirming => message # Empty
    /\ commit # None /\ commit.typed => commit.text \in 1..texts
    /\ commit # None /\ commit.typed /\ commit.done /\ commit.asking => commit.text \in recorded

BoxInv == BoxTypes

\* What is recorded is not in the box, unless its answer is still to come.
ReadIsFresh ==
    /\ message \in recorded =>
           commit # None /\ commit.done /\ commit.asking /\ commit.typed /\ message = commit.text
    /\ commit # None /\ ~commit.done /\ commit.typed => commit.text \notin recorded
    /\ commit # None /\ ~commit.asking /\ commit.typed => commit.text \notin recorded

\* No message is empty, and only an amend is confirmed.
Worded ==
    /\ commit # None => commit.text # Empty
    /\ confirming => amend
    /\ head # Empty

\* What is held of what git would start from is that.
OfferedIsRead ==
    /\ commit = None \/ ~commit.done =>
           \A k \in MessageKeys \ staleMessage : prepared[k] # None => prepared[k] = Prepares(k[1])
    /\ commit # None /\ ~commit.done /\ ~commit.typed => commit.text = Prepares(commit.amend)

-----------------------------------------------------------------------------
(* Every action keeps it. *)

LEMMA Apartness ==
    /\ \A t \in Texts : t # None /\ t # 0 /\ t \in Nat
    /\ 0 # None /\ MaxTexts \in Nat
    /\ \A p \in Files : p # None /\ p \in Texts
    /\ \A o \in Operations : o # None
    /\ \A c \in Commits : c # None
<1>1. \A t \in Nat : t # None
  BY PageAssumption
<1>2. MaxTexts \in Nat /\ \A p \in Files : p \in Texts
  BY DraftsAssumption DEF Texts
<1>3. \A t \in Texts : t # None /\ t # 0 /\ t \in Nat
  BY <1>1 DEF Texts
<1>4. (\A o \in Operations : o # None) /\ (\A c \in Commits : c # None)
  BY DraftsAssumption
<1> QED BY <1>1, <1>2, <1>3, <1>4

LEMMA Another == ASSUME texts \in Texts, texts < MaxTexts PROVE texts + 1 \in Texts /\ texts + 1 \notin 0..texts
BY Apartness DEF Texts

LEMMA FilesSteps ==
    ASSUME FilesInv, [DraftsNext]_draftsVars
    PROVE  FilesInv'
<1> USE DEF FilesInv, FilesTypes, Laid, InOperation
<1>1. ASSUME NEW path \in Files \cup {None}, OpenFile(path) PROVE FilesInv'
  BY <1>1 DEF OpenFile, Stroke, Editing, Lone, Buffer, box, repository
<1>2. ASSUME NEW path \in Files, ReadFile(path) PROVE FilesInv'
  BY <1>2 DEF ReadFile, Drawn, Lone, Buffer, box, repository
<1>3. ASSUME NEW path \in Files, Forget(path) PROVE FilesInv'
  BY <1>3 DEF Forget, Drawn, Lone, box, repository
<1>4. ASSUME NEW path \in Files, Rewrite(path) PROVE FilesInv'
  <2>1. FilesTypes'
    BY <1>4, Apartness, Another DEF Rewrite, Written, New, box, repository
  <2>2. Laid'
    BY <1>4, Apartness DEF Rewrite, Written, New, box, repository
  <2>3. InOperation'
    BY <1>4, Apartness DEF Rewrite, Written, New, box, repository
  <2> QED BY <2>1, <2>2, <2>3
<1>5. ASSUME TypeText PROVE FilesInv'
  <2>1. FilesTypes'
    BY <1>5, Apartness, Another DEF TypeText, Stroke, Written, New, Editing, Content, Lone, Buffer, box, repository
  <2>2. Laid'
    BY <1>5, Apartness DEF TypeText, Stroke, Written, New, Editing, Content, Lone, Buffer, box, repository
  <2>3. InOperation'
    BY <1>5, Apartness DEF TypeText, Stroke, Written, New, Editing, Content, Lone, Buffer, box, repository
  <2> QED BY <2>1, <2>2, <2>3
<1>6. ASSUME Revert PROVE FilesInv'
  BY <1>6 DEF Revert, Stroke, Editing, Lone, Buffer, box, repository
<1>7. ASSUME Save PROVE FilesInv'
  <2>0. operation' \in Operations
    <3>1. open \in Files /\ cache[open] \in Texts \cup {None} /\ over \in Texts \cup {None} /\ draft \in Texts \cup {None}
      BY <1>7, Apartness DEF Save, Ask, Operation, Stroke, Editing, Content, Dirty, OperationBusy, Lone, box, repository
    <3> HIDE DEF FilesInv, FilesTypes, Laid, InOperation
    <3> QED BY <1>7, <3>1 DEF Save, Ask, Operation, Stroke, Editing, Content, Dirty, OperationBusy, Lone, box, repository, Operations
  <2>1. FilesTypes'
    BY <1>7, <2>0 DEF Save, Ask, Operation, Stroke, Editing, Content, Dirty, OperationBusy, Lone, box, repository
  <2>2. Laid'
    BY <1>7, Apartness DEF Save, Ask, Operation, Stroke, Editing, Content, Dirty, OperationBusy, Lone, box, repository
  <2>3. InOperation'
    BY <1>7, Apartness DEF Save, Ask, Operation, Stroke, Editing, Content, Dirty, OperationBusy, Lone, box, repository
  <2> QED BY <2>1, <2>2, <2>3
<1>8. ASSUME MarkResolved PROVE FilesInv'
  <2>0. operation' \in Operations
    <3>1. open \in Files /\ cache[open] \in Texts \cup {None} /\ over \in Texts \cup {None} /\ draft \in Texts \cup {None}
      BY <1>8, Apartness DEF MarkResolved, Ask, Operation, Stroke, Editing, OperationBusy, Lone, box, repository
    <3> HIDE DEF FilesInv, FilesTypes, Laid, InOperation
    <3> QED BY <1>8, <3>1 DEF MarkResolved, Ask, Operation, Stroke, Editing, OperationBusy, Lone, box, repository, Operations
  <2>1. FilesTypes'
    BY <1>8, <2>0 DEF MarkResolved, Ask, Operation, Stroke, Editing, OperationBusy, Lone, box, repository
  <2>2. Laid'
    BY <1>8, Apartness DEF MarkResolved, Ask, Operation, Stroke, Editing, OperationBusy, Lone, box, repository
  <2>3. InOperation'
    BY <1>8, Apartness DEF MarkResolved, Ask, Operation, Stroke, Editing, OperationBusy, Lone, box, repository
  <2> QED BY <2>1, <2>2, <2>3
<1>9. ASSUME AskKeep PROVE FilesInv'
  <2>1. FilesTypes'
    BY <1>9, Apartness, Another DEF AskKeep, Stroke, Editing, OperationBusy, Lone, box, repository
  <2>2. Laid'
    BY <1>9, Apartness DEF AskKeep, Stroke, Editing, OperationBusy, Lone, box, repository
  <2>3. InOperation'
    BY <1>9, Apartness DEF AskKeep, Stroke, Editing, OperationBusy, Lone, box, repository
  <2> QED BY <2>1, <2>2, <2>3
<1>10. ASSUME CancelKeep PROVE FilesInv'
  BY <1>10 DEF CancelKeep, OperationBusy, Lone, box, repository
<1>11. ASSUME ConfirmKeep PROVE FilesInv'
  <2>0. operation' \in Operations
    <3>1. open \in Files /\ cache[open] \in Texts \cup {None} /\ over \in Texts \cup {None} /\ draft \in Texts \cup {None}
      BY <1>11, Apartness DEF ConfirmKeep, Ask, Operation, OperationBusy, Lone, box, repository
    <3> HIDE DEF FilesInv, FilesTypes, Laid, InOperation
    <3> QED BY <1>11, <3>1 DEF ConfirmKeep, Ask, Operation, OperationBusy, Lone, box, repository, Operations
  <2>1. FilesTypes'
    BY <1>11, <2>0 DEF ConfirmKeep, Ask, Operation, OperationBusy, Lone, box, repository
  <2>2. Laid'
    BY <1>11, Apartness DEF ConfirmKeep, Ask, Operation, OperationBusy, Lone, box, repository
  <2>3. InOperation'
    BY <1>11, Apartness DEF ConfirmKeep, Ask, Operation, OperationBusy, Lone, box, repository
  <2> QED BY <2>1, <2>2, <2>3
<1>12. ASSUME RunOperation PROVE FilesInv'
  <2>1. FilesTypes'
    <3>1. /\ operation \in Operations /\ operation' = [operation EXCEPT !.done = TRUE]
          /\ UNCHANGED <<open, cache, stale, draft, over, keeping, view, strokes>>
      BY <1>12 DEF RunOperation, OperationBusy, Written, New, box
    <3>2. operation' \in Operations
      BY <3>1 DEF Operations
    <3>3. operation.path \in Files /\ (operation.kind = "save" => operation.text \in Texts)
      BY <3>1, Apartness DEF Operations
    <3>4. disk' \in [Files -> Texts] /\ unmerged' \subseteq Files /\ texts' \in Texts
      BY <1>12, <3>1, <3>3, Another, ZenonT(40) DEF RunOperation, OperationBusy, Written, New, box, Operations
    <3> QED BY <3>1, <3>2, <3>4
  <2>2. Laid'
    BY <1>12, Apartness DEF RunOperation, OperationBusy, Written, New, box
  <2>3. InOperation'
    BY <1>12, Apartness DEF RunOperation, OperationBusy, Written, New, box
  <2> QED BY <2>1, <2>2, <2>3
<1>13. ASSUME AnswerOperation PROVE FilesInv'
  <2>1. FilesTypes'
    <3>1. operation \in Operations
      BY <1>13 DEF AnswerOperation, OperationBusy, Drawn, Mounted, Lone, Buffer, box, repository
    <3>2. operation.path \in Files /\ (operation.kind = "save" => operation.text \in Texts)
      BY <3>1, Apartness DEF Operations
    <3>3. cache' \in [Files -> Texts \cup {None}] /\ stale' = {}
      BY <1>13, <3>1, <3>2 DEF AnswerOperation, OperationBusy, Drawn, Mounted, Lone, Buffer, box, repository, Operations
    <3>4. draft' \in Texts \cup {None}
      BY <1>13 DEF AnswerOperation, OperationBusy, Drawn, Mounted, Lone, Buffer, box, repository
    <3>5. over' \in Texts \cup {None}
      <4>1. seen' = IF open = None THEN None ELSE cache'[open]
        BY <1>13 DEF AnswerOperation, OperationBusy, Drawn, Mounted, Lone, Buffer, box, repository
      <4>2. seen' \in Texts \cup {None}
        BY <3>3, <4>1
      <4>3. over' = None \/ over' = seen' \/ over' = over
        BY <1>13 DEF AnswerOperation, OperationBusy, Drawn, Mounted, Lone, Buffer, box, repository
      <4> QED BY <4>2, <4>3
    <3> QED BY <1>13, <3>3, <3>4, <3>5 DEF AnswerOperation, OperationBusy, Drawn, Mounted, Lone, Buffer, box, repository
  <2>2. Laid'
    BY <1>13, Apartness DEF AnswerOperation, OperationBusy, Drawn, Mounted, Lone, Buffer, box, repository
  <2>3. InOperation'
    BY <1>13, Apartness DEF AnswerOperation, OperationBusy, Drawn, Mounted, Lone, Buffer, box, repository
  <2> QED BY <2>1, <2>2, <2>3
<1>14. ASSUME RefuseOperation PROVE FilesInv'
  BY <1>14 DEF RefuseOperation, OperationBusy, Lone, box, repository
<1>15. ASSUME TypeMessage PROVE FilesInv'
  <2>1. FilesTypes'
    BY <1>15, Apartness, Another DEF TypeMessage, Stroke, Editing, Written, New, Apart, files, repository
  <2>2. Laid'
    BY <1>15, Apartness DEF TypeMessage, Stroke, Editing, Written, New, Apart, files, repository
  <2>3. InOperation'
    BY <1>15, Apartness DEF TypeMessage, Stroke, Editing, Written, New, Apart, files, repository
  <2> QED BY <2>1, <2>2, <2>3
<1>16. ASSUME NEW yes \in BOOLEAN, Amend(yes) PROVE FilesInv'
  BY <1>16 DEF Amend, Stroke, Editing, Apart, files, repository
<1>17. ASSUME NEW yes \in BOOLEAN, AddCoAuthor(yes) PROVE FilesInv'
  BY <1>17 DEF AddCoAuthor, Stroke, Editing, Apart, files, repository
<1>18. ASSUME ReadPrepared PROVE FilesInv'
  BY <1>18 DEF ReadPrepared, Key, Prepares, Apart, files, repository
<1>19. ASSUME Submit PROVE FilesInv'
  BY <1>19 DEF Submit, Send, Stroke, Editing, Current, CanCommit, CommitBusy, Message, PreparedText, Key, Apart, files, repository
<1>20. ASSUME ConfirmAmend PROVE FilesInv'
  BY <1>20 DEF ConfirmAmend, Send, Current, Message, PreparedText, Key, Apart, files, repository
<1>21. ASSUME CancelAmend PROVE FilesInv'
  BY <1>21 DEF CancelAmend, Apart, files, repository
<1>22. ASSUME RunCommit PROVE FilesInv'
  BY <1>22 DEF RunCommit, files
<1>23. ASSUME AnswerCommit PROVE FilesInv'
  BY <1>23 DEF AnswerCommit, AfterCommit, Apart, files, repository
<1>24. ASSUME RefuseCommit PROVE FilesInv'
  BY <1>24 DEF RefuseCommit, Apart, files, repository
<1>25. ASSUME Leave PROVE FilesInv'
  <2>1. FilesTypes'
    <3>1. /\ UNCHANGED <<disk, unmerged, open, cache, stale, operation, texts>>
          /\ view' = "history" /\ draft' = None /\ over' = None /\ keeping' = FALSE /\ strokes' = strokes + 1
      BY <1>25 DEF Leave, Stroke, Editing, repository
    <3>2. view' \in {"changes", "history"} /\ draft' \in Texts \cup {None} /\ over' \in Texts \cup {None}
      BY <3>1
    <3>3. strokes' \in Nat
      BY <3>1
    <3>4. keeping' \in BOOLEAN
      BY <3>1, Zenon
    <3> QED BY <3>1, <3>2, <3>3, <3>4
  <2>2. Laid'
    BY <1>25, Apartness DEF Leave, Stroke, Editing, repository
  <2>3. InOperation'
    BY <1>25, Apartness DEF Leave, Stroke, Editing, repository
  <2> QED BY <2>1, <2>2, <2>3
<1>26. ASSUME Return PROVE FilesInv'
  BY <1>26 DEF Return, Stroke, box, repository
<1>27. ASSUME Stage PROVE FilesInv'
  BY <1>27 DEF Stage, files, box
<1>28. ASSUME NEW next \in {0, stop + 1} \cap Stops, NEW here \in {TRUE} \cup {x \in {FALSE} : "elsewhere" \in MayHappen}, Operate(next, here) PROVE FilesInv'
  <2>1. FilesTypes'
    BY <1>28, Apartness, Another DEF Operate, Moves, Written, New, files
  <2>2. Laid'
    BY <1>28, Apartness DEF Operate, Moves, Written, New, files
  <2>3. InOperation'
    BY <1>28, Apartness DEF Operate, Moves, Written, New, files
  <2> QED BY <2>1, <2>2, <2>3
<1>29. ASSUME ReadStatus PROVE FilesInv'
  BY <1>29 DEF ReadStatus, files, box
<1>31. ASSUME CheckSave PROVE FilesInv'
  <2>1. /\ operation \in Operations /\ operation # None /\ operation.kind = "save"
        /\ disk[operation.path] = operation.base
        /\ operation' = [operation EXCEPT !.found = disk[operation.path]]
        /\ UNCHANGED <<disk, unmerged, open, cache, stale, seen, draft, keeping, over, view, texts, strokes>>
    BY <1>31 DEF CheckSave, OperationBusy, Lone, box
  <2>2. disk[operation.path] \in Texts
    BY <2>1 DEF Operations
  <2>3. /\ operation' \in Operations /\ operation'.kind = "save" /\ operation'.found = operation'.base
        /\ operation'.text = operation.text /\ operation'.over = operation.over /\ operation'.base = operation.base
    BY <2>1, <2>2 DEF Operations
  <2>4. FilesTypes' /\ Laid'
    BY <2>1, <2>3
  <2>5. InOperation'
    BY <2>1, <2>3
  <2> QED BY <2>4, <2>5
<1>30. ASSUME UNCHANGED draftsVars PROVE FilesInv'
  BY <1>30 DEF draftsVars, files, box, repository
<1> HIDE DEF FilesInv, FilesTypes, Laid, InOperation
<1> QED
  BY <1>1, <1>2, <1>3, <1>4, <1>5, <1>6, <1>7, <1>8, <1>9, <1>10, <1>11, <1>12, <1>13, <1>14, <1>15, <1>16, <1>17, <1>18, <1>19, <1>20, <1>21, <1>22, <1>23, <1>24, <1>25, <1>26, <1>27, <1>28, <1>29, <1>30, <1>31 DEF DraftsNext

LEMMA SaveStep ==
    ASSUME FilesInv, [DraftsNext]_draftsVars, Saves
    PROVE  operation.found = operation.over
<1>1. /\ operation # None /\ operation.kind = "save" /\ ~operation.done /\ operation' # None /\ operation'.done
      /\ operation' # operation
  BY DEF Saves, OperationBusy
<1>2. CASE RunOperation
  BY <1>1, <1>2 DEF RunOperation, FilesInv, InOperation
<1>3. CASE CheckSave
  <2>1. operation \in Operations /\ operation' = [operation EXCEPT !.found = disk[operation.path]]
    BY <1>1, <1>3 DEF CheckSave, FilesInv, FilesTypes
  <2>2. operation'.done = operation.done
    BY <2>1 DEF Operations
  <2> QED BY <1>1, <2>2
<1>4. CASE ~RunOperation /\ ~CheckSave
  <2>1. ASSUME NEW path \in Files \cup {None}, OpenFile(path) \/ ReadFile(path) \/ Forget(path) \/ Rewrite(path)
        PROVE  FALSE
    BY <1>1, <2>1 DEF OpenFile, ReadFile, Forget, Rewrite
  <2>2. ASSUME TypeText \/ Revert \/ Save \/ MarkResolved \/ AskKeep \/ CancelKeep \/ ConfirmKeep PROVE FALSE
    BY <1>1, <2>2 DEF TypeText, Revert, Save, MarkResolved, AskKeep, CancelKeep, ConfirmKeep, OperationBusy
  <2>3. ASSUME AnswerOperation \/ RefuseOperation \/ Leave \/ Return PROVE FALSE
    BY <1>1, <2>3 DEF AnswerOperation, RefuseOperation, Leave, Return
  <2>4. ASSUME TypeMessage \/ ReadPrepared \/ Submit \/ ConfirmAmend \/ CancelAmend \/ AnswerCommit \/ RefuseCommit
        PROVE  FALSE
    BY <1>1, <2>4 DEF TypeMessage, ReadPrepared, Submit, ConfirmAmend, CancelAmend, AnswerCommit, RefuseCommit, Apart, files
  <2>5. ASSUME NEW yes \in BOOLEAN, Amend(yes) \/ AddCoAuthor(yes) PROVE FALSE
    BY <1>1, <2>5 DEF Amend, AddCoAuthor, Apart, files
  <2>6. ASSUME RunCommit \/ Stage \/ ReadStatus \/ UNCHANGED draftsVars PROVE FALSE
    BY <1>1, <2>6 DEF RunCommit, Stage, ReadStatus, draftsVars, files
  <2>7. ASSUME NEW next, NEW here, Operate(next, here) PROVE FALSE
    BY <1>1, <2>7 DEF Operate, Moves, files
  <2> QED BY <1>4, <2>1, <2>2, <2>3, <2>4, <2>5, <2>6, <2>7 DEF DraftsNext
<1> QED BY <1>2, <1>3, <1>4

LEMMA Grown ==
    ASSUME FilesTypes, Written
    PROVE  /\ texts' = texts + 1 /\ texts' \in Texts /\ texts' \notin 0..texts
           /\ 0..texts \subseteq 0..texts' /\ 1..texts \subseteq 1..texts' /\ texts' \in 1..texts'
BY Apartness DEF FilesTypes, Written, New, Texts

LEMMA InTheBox ==
    ASSUME FilesTypes, BoxTypes
    PROVE  /\ 0..texts \subseteq {0} \cup Texts
           /\ Key \in MessageKeys /\ prepared[Key] \in {0} \cup Texts \cup {None}
           /\ Message \in {0} \cup Texts
           /\ message # None => Message = message
           /\ message = None => Message = PreparedText
<1>1. 0..texts \subseteq {0} \cup Texts
  BY Apartness DEF FilesTypes, Texts
<1>2. Key \in MessageKeys /\ prepared[Key] \in {0} \cup Texts \cup {None}
  BY DEF BoxTypes, Key, MessageKeys
<1>3. PreparedText \in {0} \cup Texts
  BY <1>2 DEF PreparedText, Empty
<1> QED BY <1>1, <1>2, <1>3 DEF Message, BoxTypes

LEMMA BoxSteps ==
    ASSUME FilesTypes, BoxInv, [DraftsNext]_draftsVars
    PROVE  BoxInv'
<1> USE DEF BoxInv, BoxTypes
<1>1. ASSUME NEW path \in Files \cup {None}, OpenFile(path) PROVE BoxInv'
  <2>1. UNCHANGED <<message, amend, confirming, prepared, staleMessage, commit, recorded, head, stop, stopMessage, shownStop>>
    BY <1>1 DEF OpenFile, Stroke, Editing, Lone, Buffer, box, repository
  <2>2. staged' \in BOOLEAN /\ 1..texts \subseteq 1..texts' /\ 0..texts \subseteq 0..texts'
    BY <1>1, Grown DEF OpenFile, Stroke, Editing, Lone, Buffer, box, repository
  <2> QED BY <2>1, <2>2
<1>2. ASSUME NEW path \in Files, ReadFile(path) PROVE BoxInv'
  <2>1. UNCHANGED <<message, amend, confirming, prepared, staleMessage, commit, recorded, head, stop, stopMessage, shownStop>>
    BY <1>2 DEF ReadFile, Drawn, Lone, Buffer, box, repository
  <2>2. staged' \in BOOLEAN /\ 1..texts \subseteq 1..texts' /\ 0..texts \subseteq 0..texts'
    BY <1>2, Grown DEF ReadFile, Drawn, Lone, Buffer, box, repository
  <2> QED BY <2>1, <2>2
<1>3. ASSUME NEW path \in Files, Forget(path) PROVE BoxInv'
  <2>1. UNCHANGED <<message, amend, confirming, prepared, staleMessage, commit, recorded, head, stop, stopMessage, shownStop>>
    BY <1>3 DEF Forget, Drawn, Lone, box, repository
  <2>2. staged' \in BOOLEAN /\ 1..texts \subseteq 1..texts' /\ 0..texts \subseteq 0..texts'
    BY <1>3, Grown DEF Forget, Drawn, Lone, box, repository
  <2> QED BY <2>1, <2>2
<1>4. ASSUME NEW path \in Files, Rewrite(path) PROVE BoxInv'
  <2>1. UNCHANGED <<message, amend, confirming, prepared, staleMessage, commit, recorded, head, stop, stopMessage, shownStop>>
    BY <1>4 DEF Rewrite, Written, New, box, repository
  <2>2. staged' \in BOOLEAN /\ 1..texts \subseteq 1..texts' /\ 0..texts \subseteq 0..texts'
    BY <1>4, Grown DEF Rewrite, Written, New, box, repository
  <2> QED BY <2>1, <2>2
<1>5. ASSUME TypeText PROVE BoxInv'
  <2>1. UNCHANGED <<message, amend, confirming, prepared, staleMessage, commit, recorded, head, stop, stopMessage, shownStop>>
    BY <1>5 DEF TypeText, Stroke, Written, New, Editing, Content, Lone, Buffer, box, repository
  <2>2. staged' \in BOOLEAN /\ 1..texts \subseteq 1..texts' /\ 0..texts \subseteq 0..texts'
    BY <1>5, Grown DEF TypeText, Stroke, Written, New, Editing, Content, Lone, Buffer, box, repository
  <2> QED BY <2>1, <2>2
<1>6. ASSUME Revert PROVE BoxInv'
  <2>1. UNCHANGED <<message, amend, confirming, prepared, staleMessage, commit, recorded, head, stop, stopMessage, shownStop>>
    BY <1>6 DEF Revert, Stroke, Editing, Lone, Buffer, box, repository
  <2>2. staged' \in BOOLEAN /\ 1..texts \subseteq 1..texts' /\ 0..texts \subseteq 0..texts'
    BY <1>6, Grown DEF Revert, Stroke, Editing, Lone, Buffer, box, repository
  <2> QED BY <2>1, <2>2
<1>7. ASSUME Save PROVE BoxInv'
  <2>1. UNCHANGED <<message, amend, confirming, prepared, staleMessage, commit, recorded, head, stop, stopMessage, shownStop>>
    BY <1>7 DEF Save, Ask, Operation, Stroke, Editing, Content, Dirty, OperationBusy, Lone, box, repository
  <2>2. staged' \in BOOLEAN /\ 1..texts \subseteq 1..texts' /\ 0..texts \subseteq 0..texts'
    BY <1>7, Grown DEF Save, Ask, Operation, Stroke, Editing, Content, Dirty, OperationBusy, Lone, box, repository
  <2> QED BY <2>1, <2>2
<1>8. ASSUME MarkResolved PROVE BoxInv'
  <2>1. UNCHANGED <<message, amend, confirming, prepared, staleMessage, commit, recorded, head, stop, stopMessage, shownStop>>
    BY <1>8 DEF MarkResolved, Ask, Operation, Stroke, Editing, OperationBusy, Lone, box, repository
  <2>2. staged' \in BOOLEAN /\ 1..texts \subseteq 1..texts' /\ 0..texts \subseteq 0..texts'
    BY <1>8, Grown DEF MarkResolved, Ask, Operation, Stroke, Editing, OperationBusy, Lone, box, repository
  <2> QED BY <2>1, <2>2
<1>9. ASSUME AskKeep PROVE BoxInv'
  <2>1. UNCHANGED <<message, amend, confirming, prepared, staleMessage, commit, recorded, head, stop, stopMessage, shownStop>>
    BY <1>9 DEF AskKeep, Stroke, Editing, OperationBusy, Lone, box, repository
  <2>2. staged' \in BOOLEAN /\ 1..texts \subseteq 1..texts' /\ 0..texts \subseteq 0..texts'
    BY <1>9, Grown DEF AskKeep, Stroke, Editing, OperationBusy, Lone, box, repository
  <2> QED BY <2>1, <2>2
<1>10. ASSUME CancelKeep PROVE BoxInv'
  <2>1. UNCHANGED <<message, amend, confirming, prepared, staleMessage, commit, recorded, head, stop, stopMessage, shownStop>>
    BY <1>10 DEF CancelKeep, OperationBusy, Lone, box, repository
  <2>2. staged' \in BOOLEAN /\ 1..texts \subseteq 1..texts' /\ 0..texts \subseteq 0..texts'
    BY <1>10, Grown DEF CancelKeep, OperationBusy, Lone, box, repository
  <2> QED BY <2>1, <2>2
<1>11. ASSUME ConfirmKeep PROVE BoxInv'
  <2>1. UNCHANGED <<message, amend, confirming, prepared, staleMessage, commit, recorded, head, stop, stopMessage, shownStop>>
    BY <1>11 DEF ConfirmKeep, Ask, Operation, OperationBusy, Lone, box, repository
  <2>2. staged' \in BOOLEAN /\ 1..texts \subseteq 1..texts' /\ 0..texts \subseteq 0..texts'
    BY <1>11, Grown DEF ConfirmKeep, Ask, Operation, OperationBusy, Lone, box, repository
  <2> QED BY <2>1, <2>2
<1>12. ASSUME RunOperation PROVE BoxInv'
  <2>1. UNCHANGED <<message, amend, confirming, prepared, staleMessage, commit, recorded, head, stop, stopMessage, shownStop>>
    BY <1>12 DEF RunOperation, OperationBusy, Written, New, box
  <2>2. operation \in Operations
    BY <1>12 DEF OperationBusy, RunOperation, FilesTypes
  <2>3. operation.kind \in {"save", "stage", "resolve"}
    BY <2>2 DEF Operations
  <2>4. staged' \in BOOLEAN /\ (texts' = texts \/ Written)
    BY <1>12, <2>3 DEF RunOperation
  <2>5. 1..texts \subseteq 1..texts' /\ 0..texts \subseteq 0..texts'
    BY <2>4, Grown
  <2> QED BY <2>1, <2>4, <2>5
<1>13. ASSUME AnswerOperation PROVE BoxInv'
  <2>1. UNCHANGED <<message, amend, confirming, prepared, staleMessage, commit, recorded, head, stop, stopMessage, shownStop>>
    BY <1>13 DEF AnswerOperation, OperationBusy, Drawn, Mounted, Lone, Buffer, box, repository
  <2>2. staged' \in BOOLEAN /\ 1..texts \subseteq 1..texts' /\ 0..texts \subseteq 0..texts'
    BY <1>13, Grown DEF AnswerOperation, OperationBusy, Drawn, Mounted, Lone, Buffer, box, repository
  <2> QED BY <2>1, <2>2
<1>14. ASSUME RefuseOperation PROVE BoxInv'
  <2>1. UNCHANGED <<message, amend, confirming, prepared, staleMessage, commit, recorded, head, stop, stopMessage, shownStop>>
    BY <1>14 DEF RefuseOperation, OperationBusy, Lone, box, repository
  <2>2. staged' \in BOOLEAN /\ 1..texts \subseteq 1..texts' /\ 0..texts \subseteq 0..texts'
    BY <1>14, Grown DEF RefuseOperation, OperationBusy, Lone, box, repository
  <2> QED BY <2>1, <2>2
<1>15. ASSUME TypeMessage PROVE BoxInv'
  <2>1. UNCHANGED <<amend, confirming, prepared, staleMessage, commit, recorded, head, staged, stop, stopMessage, shownStop>>
    BY <1>15 DEF TypeMessage, Apart, repository
  <2>2. 1..texts \subseteq 1..texts' /\ 0..texts \subseteq 0..texts'
    BY <1>15, Grown DEF TypeMessage
  <2>3. message' \in (0..texts') \cup {None} /\ ~confirming
    <3>1. 0 \in 0..texts /\ (Written => texts' \in 0..texts')
      BY Grown, Apartness DEF FilesTypes, Texts
    <3> QED BY <1>15, <2>2, <3>1 DEF TypeMessage, Editing, Written, New, Empty
  <2> QED BY <2>1, <2>2, <2>3
<1>16. ASSUME NEW yes \in BOOLEAN, Amend(yes) PROVE BoxInv'
  BY <1>16 DEF Amend, Stroke, Editing, Apart, files, repository
<1>17. ASSUME NEW yes \in BOOLEAN, AddCoAuthor(yes) PROVE BoxInv'
  BY <1>17 DEF AddCoAuthor, Stroke, Editing, Apart, files, repository
<1>18. ASSUME ReadPrepared PROVE BoxInv'
  BY <1>18 DEF ReadPrepared, Key, Prepares, Apart, files, repository
<1>19. ASSUME Submit PROVE BoxInv'
  <2>1. UNCHANGED <<message, amend, prepared, staleMessage, recorded, texts, head, staged, stop, stopMessage, shownStop>>
    BY <1>19 DEF Submit, Send, Apart, repository
  <2>2. Message # Empty /\ Message \in {0} \cup Texts
    BY <1>19, InTheBox DEF Submit, CanCommit, BoxInv
  <2>3. message # Empty /\ (message # None => Message \in 1..texts)
    <3>1. message # None => Message = message
      BY InTheBox DEF BoxInv
    <3> QED BY <2>2, <3>1, Apartness DEF Empty
  <2>4. CASE amend
    BY <1>19, <2>1, <2>3, <2>4 DEF Submit
  <2>5. CASE ~amend
    <3>1. /\ commit' = [text |-> Message, typed |-> message # None, amend |-> amend, asking |-> TRUE, done |-> FALSE]
          /\ UNCHANGED confirming
      BY <1>19, <2>5 DEF Submit, Send
    <3>2. commit' \in Commits
      BY <2>2, <3>1 DEF Commits
    <3>3. commit'.typed => commit'.text \in 1..texts
      BY <2>3, <3>1
    <3> QED BY <2>1, <3>1, <3>2, <3>3
  <2> QED BY <2>4, <2>5
<1>20. ASSUME ConfirmAmend PROVE BoxInv'
  <2>1. /\ UNCHANGED <<message, amend, prepared, staleMessage, recorded, texts, head, staged, stop, stopMessage, shownStop>>
        /\ confirming' = FALSE /\ confirming
        /\ commit' = [text |-> Message, typed |-> message # None, amend |-> amend, asking |-> TRUE, done |-> FALSE]
    BY <1>20 DEF ConfirmAmend, Send, Apart, repository
  <2>2. Message \in {0} \cup Texts /\ (message # None => Message = message)
    BY InTheBox DEF BoxInv
  <2>3. message # None => Message \in 1..texts
    BY <2>1, <2>2, Apartness DEF Empty
  <2>4. commit' \in Commits
    BY <2>1, <2>2 DEF Commits
  <2>5. commit'.typed => commit'.text \in 1..texts
    BY <2>1, <2>3
  <2> QED BY <2>1, <2>4, <2>5
<1>21. ASSUME CancelAmend PROVE BoxInv'
  BY <1>21 DEF CancelAmend, Apart, files, repository
<1>22. ASSUME RunCommit PROVE BoxInv'
  <2>1. /\ commit \in Commits /\ commit # None /\ commit' = [commit EXCEPT !.done = TRUE]
        /\ head' = commit.text /\ staged' = FALSE
        /\ recorded' = IF commit.typed /\ commit.asking THEN recorded \cup {commit.text} ELSE recorded
        /\ UNCHANGED <<message, amend, confirming, prepared, staleMessage, stop, stopMessage, shownStop, texts>>
    BY <1>22 DEF RunCommit
  <2>2. /\ commit' \in Commits /\ commit'.typed = commit.typed /\ commit'.text = commit.text
        /\ commit'.asking = commit.asking
    BY <2>1 DEF Commits
  <2>3. head' \in {0} \cup Texts
    BY <2>1 DEF Commits
  <2>4. recorded' \subseteq 1..texts
    BY <2>1, Apartness
  <2>5. commit'.typed => commit'.text \in 1..texts
    BY <2>1, <2>2, Apartness
  <2>6. commit'.typed /\ commit'.asking => commit'.text \in recorded'
    BY <2>1, <2>2
  <2>7. staged' \in BOOLEAN
    BY <2>1
  <2> QED BY <2>1, <2>2, <2>3, <2>4, <2>5, <2>6, <2>7
<1>23. ASSUME AnswerCommit PROVE BoxInv'
  <2>1. /\ UNCHANGED <<amend, confirming, prepared, recorded, texts, head, staged, stop, stopMessage, shownStop>>
        /\ commit' = None /\ staleMessage' = {k \in MessageKeys : prepared[k] # None}
        /\ message' = None \/ message' = message
    BY <1>23 DEF AnswerCommit, AfterCommit, Apart, repository
  <2> QED BY <2>1, Apartness DEF Empty
<1>24. ASSUME RefuseCommit PROVE BoxInv'
  BY <1>24 DEF RefuseCommit, Apart, files, repository
<1>25. ASSUME Leave PROVE BoxInv'
  <2>1. /\ UNCHANGED <<message, prepared, staleMessage, texts, head, staged, stop, stopMessage, shownStop>>
        /\ amend' = FALSE /\ confirming' = FALSE
        /\ IF commit = None THEN UNCHANGED <<commit, recorded>>
           ELSE commit' = [commit EXCEPT !.asking = FALSE] /\ recorded' = recorded \ {commit.text}
    BY <1>25 DEF Leave, repository
  <2>2. /\ commit' \in Commits \cup {None} /\ recorded' \subseteq 1..texts
        /\ commit' # None =>
             commit # None /\ commit'.typed = commit.typed /\ commit'.text = commit.text /\ ~commit'.asking
    BY <2>1 DEF Commits
  <2> QED BY <2>1, <2>2
<1>26. ASSUME Return PROVE BoxInv'
  <2>1. UNCHANGED <<message, amend, confirming, prepared, staleMessage, commit, recorded, head, stop, stopMessage, shownStop>>
    BY <1>26 DEF Return, Stroke, box, repository
  <2>2. staged' \in BOOLEAN /\ 1..texts \subseteq 1..texts' /\ 0..texts \subseteq 0..texts'
    BY <1>26, Grown DEF Return, Stroke, box, repository
  <2> QED BY <2>1, <2>2
<1>27. ASSUME Stage PROVE BoxInv'
  <2>1. UNCHANGED <<message, amend, confirming, prepared, staleMessage, commit, recorded, head, stop, stopMessage, shownStop>>
    BY <1>27 DEF Stage, files, box
  <2>2. staged' \in BOOLEAN /\ 1..texts \subseteq 1..texts' /\ 0..texts \subseteq 0..texts'
    BY <1>27, Grown DEF Stage, files, box
  <2> QED BY <2>1, <2>2
<1>28. ASSUME NEW next \in {0, stop + 1} \cap Stops, NEW here \in {TRUE} \cup {x \in {FALSE} : "elsewhere" \in MayHappen}, Operate(next, here) PROVE BoxInv'
  <2>1. /\ UNCHANGED <<staged, message, amend, confirming, prepared, commit, recorded, shownStop>>
        /\ stop' = next /\ stopMessage' = IF next = 0 THEN Empty ELSE New
        /\ head' = IF next = 0 THEN New ELSE head
        /\ staleMessage' = {k \in MessageKeys : prepared[k] # None} \/ staleMessage' = staleMessage
        /\ Written
    BY <1>28 DEF Operate, Moves, files
  <2>2. New \in Texts /\ 1..texts \subseteq 1..texts' /\ 0..texts \subseteq 0..texts'
    BY <2>1, Grown DEF Written
  <2> QED BY <2>1, <2>2 DEF Empty
<1>29. ASSUME ReadStatus PROVE BoxInv'
  BY <1>29 DEF ReadStatus, files, box
<1>31. ASSUME CheckSave PROVE BoxInv'
  <2>1. UNCHANGED <<message, amend, confirming, prepared, staleMessage, commit, recorded, head, stop, stopMessage, shownStop>>
    BY <1>31 DEF CheckSave, Lone, box, repository
  <2>2. staged' \in BOOLEAN /\ 1..texts \subseteq 1..texts' /\ 0..texts \subseteq 0..texts'
    BY <1>31 DEF CheckSave, Lone, repository
  <2> QED BY <2>1, <2>2
<1>30. ASSUME UNCHANGED draftsVars PROVE BoxInv'
  BY <1>30 DEF draftsVars, files, box, repository
<1> HIDE DEF BoxInv, BoxTypes
<1> QED
  BY <1>1, <1>2, <1>3, <1>4, <1>5, <1>6, <1>7, <1>8, <1>9, <1>10, <1>11, <1>12, <1>13, <1>14, <1>15, <1>16, <1>17, <1>18, <1>19, <1>20, <1>21, <1>22, <1>23, <1>24, <1>25, <1>26, <1>27, <1>28, <1>29, <1>30, <1>31 DEF DraftsNext

LEMMA FreshSteps ==
    ASSUME FilesTypes, BoxInv, ReadIsFresh, [DraftsNext]_draftsVars
    PROVE  ReadIsFresh'
<1> USE DEF ReadIsFresh
<1>1. ASSUME NEW path \in Files \cup {None}, OpenFile(path) PROVE ReadIsFresh'
  <2>1. UNCHANGED <<message, commit, recorded>>
    BY <1>1 DEF OpenFile, Stroke, Editing, Lone, Buffer, box, repository
  <2> QED BY <2>1
<1>2. ASSUME NEW path \in Files, ReadFile(path) PROVE ReadIsFresh'
  <2>1. UNCHANGED <<message, commit, recorded>>
    BY <1>2 DEF ReadFile, Drawn, Lone, Buffer, box, repository
  <2> QED BY <2>1
<1>3. ASSUME NEW path \in Files, Forget(path) PROVE ReadIsFresh'
  <2>1. UNCHANGED <<message, commit, recorded>>
    BY <1>3 DEF Forget, Drawn, Lone, box, repository
  <2> QED BY <2>1
<1>4. ASSUME NEW path \in Files, Rewrite(path) PROVE ReadIsFresh'
  <2>1. UNCHANGED <<message, commit, recorded>>
    BY <1>4 DEF Rewrite, Written, New, box, repository
  <2> QED BY <2>1
<1>5. ASSUME TypeText PROVE ReadIsFresh'
  <2>1. UNCHANGED <<message, commit, recorded>>
    BY <1>5 DEF TypeText, Stroke, Written, New, Editing, Content, Lone, Buffer, box, repository
  <2> QED BY <2>1
<1>6. ASSUME Revert PROVE ReadIsFresh'
  <2>1. UNCHANGED <<message, commit, recorded>>
    BY <1>6 DEF Revert, Stroke, Editing, Lone, Buffer, box, repository
  <2> QED BY <2>1
<1>7. ASSUME Save PROVE ReadIsFresh'
  <2>1. UNCHANGED <<message, commit, recorded>>
    BY <1>7 DEF Save, Ask, Operation, Stroke, Editing, Content, Dirty, OperationBusy, Lone, box, repository
  <2> QED BY <2>1
<1>8. ASSUME MarkResolved PROVE ReadIsFresh'
  <2>1. UNCHANGED <<message, commit, recorded>>
    BY <1>8 DEF MarkResolved, Ask, Operation, Stroke, Editing, OperationBusy, Lone, box, repository
  <2> QED BY <2>1
<1>9. ASSUME AskKeep PROVE ReadIsFresh'
  <2>1. UNCHANGED <<message, commit, recorded>>
    BY <1>9 DEF AskKeep, Stroke, Editing, OperationBusy, Lone, box, repository
  <2> QED BY <2>1
<1>10. ASSUME CancelKeep PROVE ReadIsFresh'
  <2>1. UNCHANGED <<message, commit, recorded>>
    BY <1>10 DEF CancelKeep, OperationBusy, Lone, box, repository
  <2> QED BY <2>1
<1>11. ASSUME ConfirmKeep PROVE ReadIsFresh'
  <2>1. UNCHANGED <<message, commit, recorded>>
    BY <1>11 DEF ConfirmKeep, Ask, Operation, OperationBusy, Lone, box, repository
  <2> QED BY <2>1
<1>12. ASSUME RunOperation PROVE ReadIsFresh'
  <2>1. UNCHANGED <<message, commit, recorded>>
    BY <1>12 DEF RunOperation, OperationBusy, Written, New, box
  <2> QED BY <2>1
<1>13. ASSUME AnswerOperation PROVE ReadIsFresh'
  <2>1. UNCHANGED <<message, commit, recorded>>
    BY <1>13 DEF AnswerOperation, OperationBusy, Drawn, Mounted, Lone, Buffer, box, repository
  <2> QED BY <2>1
<1>14. ASSUME RefuseOperation PROVE ReadIsFresh'
  <2>1. UNCHANGED <<message, commit, recorded>>
    BY <1>14 DEF RefuseOperation, OperationBusy, Lone, box, repository
  <2> QED BY <2>1
<1>15. ASSUME TypeMessage PROVE ReadIsFresh'
  <2>1. UNCHANGED <<commit, recorded>>
    BY <1>15 DEF TypeMessage
  <2>2. message' \notin recorded
    <3>1. (message' = texts' /\ Written) \/ message' = 0
      BY <1>15 DEF TypeMessage, Written, New, Empty
    <3>2. recorded \subseteq 0..texts /\ 0 \notin recorded
      BY Apartness DEF BoxInv, BoxTypes, FilesTypes, Texts
    <3> QED BY <3>1, <3>2, Grown
  <2> QED BY <2>1, <2>2
<1>16. ASSUME NEW yes \in BOOLEAN, Amend(yes) PROVE ReadIsFresh'
  <2>1. UNCHANGED <<message, commit, recorded>>
    BY <1>16 DEF Amend, Stroke, Editing, Apart, files, repository
  <2> QED BY <2>1
<1>17. ASSUME NEW yes \in BOOLEAN, AddCoAuthor(yes) PROVE ReadIsFresh'
  <2>1. UNCHANGED <<message, commit, recorded>>
    BY <1>17 DEF AddCoAuthor, Stroke, Editing, Apart, files, repository
  <2> QED BY <2>1
<1>18. ASSUME ReadPrepared PROVE ReadIsFresh'
  <2>1. UNCHANGED <<message, commit, recorded>>
    BY <1>18 DEF ReadPrepared, Key, Prepares, Apart, files, repository
  <2> QED BY <2>1
<1>19. ASSUME Submit PROVE ReadIsFresh'
  <2>1. /\ UNCHANGED <<message, recorded>> /\ commit = None
        /\ \/ UNCHANGED commit
           \/ commit' = [text |-> Message, typed |-> message # None, amend |-> amend, asking |-> TRUE, done |-> FALSE]
    BY <1>19 DEF Submit, Send
  <2>2. message # None => Message = message
    BY InTheBox DEF BoxInv
  <2>3. CASE UNCHANGED commit
    BY <2>1, <2>3
  <2>4. CASE commit' = [text |-> Message, typed |-> message # None, amend |-> amend, asking |-> TRUE, done |-> FALSE]
    BY <2>1, <2>2, <2>4
  <2> QED BY <2>1, <2>3, <2>4
<1>20. ASSUME ConfirmAmend PROVE ReadIsFresh'
  <2>1. /\ UNCHANGED <<message, recorded>> /\ commit = None
        /\ commit' = [text |-> Message, typed |-> message # None, amend |-> amend, asking |-> TRUE, done |-> FALSE]
    BY <1>20 DEF ConfirmAmend, Send
  <2>2. message # None => Message = message
    BY InTheBox DEF BoxInv
  <2> QED BY <2>1, <2>2
<1>21. ASSUME CancelAmend PROVE ReadIsFresh'
  <2>1. UNCHANGED <<message, commit, recorded>>
    BY <1>21 DEF CancelAmend, Apart, files, repository
  <2> QED BY <2>1
<1>22. ASSUME RunCommit PROVE ReadIsFresh'
  <2>1. /\ commit \in Commits /\ commit # None /\ ~commit.done
        /\ commit' = [commit EXCEPT !.done = TRUE] /\ message' = message
        /\ recorded' = IF commit.typed /\ commit.asking THEN recorded \cup {commit.text} ELSE recorded
    BY <1>22 DEF RunCommit, BoxInv, BoxTypes
  <2>2. /\ commit' \in Commits /\ commit'.done /\ commit'.asking = commit.asking
        /\ commit'.typed = commit.typed /\ commit'.text = commit.text
    BY <2>1 DEF Commits
  <2>3. commit' # None
    BY <2>2, Apartness
  <2> QED BY <2>1, <2>2, <2>3
<1>23. ASSUME AnswerCommit PROVE ReadIsFresh'
  <2>1. /\ commit # None /\ commit.done /\ commit' = None /\ recorded' = recorded
        /\ IF commit.asking THEN message' = None ELSE message' = message
    BY <1>23 DEF AnswerCommit, AfterCommit
  <2>2. None \notin recorded
    <3>1. recorded \subseteq 1..texts /\ texts \in Nat
      BY Apartness DEF BoxInv, BoxTypes, FilesTypes
    <3>2. 1..texts \subseteq Nat
      BY <3>1
    <3> QED BY <3>1, <3>2, PageAssumption
  <2> QED BY <2>1, <2>2
<1>24. ASSUME RefuseCommit PROVE ReadIsFresh'
  BY <1>24 DEF RefuseCommit, Apart, files, repository
<1>25. ASSUME Leave PROVE ReadIsFresh'
  <2>1. message' = message
    BY <1>25 DEF Leave
  <2>2. CASE commit = None
    BY <1>25, <2>1, <2>2 DEF Leave
  <2>3. CASE commit # None
    <3>1. /\ commit \in Commits /\ commit' = [commit EXCEPT !.asking = FALSE]
          /\ recorded' = recorded \ {commit.text}
      BY <1>25, <2>3 DEF Leave, BoxInv, BoxTypes
    <3>2. commit'.text = commit.text
      BY <3>1 DEF Commits
    <3> QED BY <2>1, <2>3, <3>1, <3>2
  <2> QED BY <2>2, <2>3
<1>26. ASSUME Return PROVE ReadIsFresh'
  <2>1. UNCHANGED <<message, commit, recorded>>
    BY <1>26 DEF Return, Stroke, box, repository
  <2> QED BY <2>1
<1>27. ASSUME Stage PROVE ReadIsFresh'
  <2>1. UNCHANGED <<message, commit, recorded>>
    BY <1>27 DEF Stage, files, box
  <2> QED BY <2>1
<1>28. ASSUME NEW next \in {0, stop + 1} \cap Stops, NEW here \in {TRUE} \cup {x \in {FALSE} : "elsewhere" \in MayHappen}, Operate(next, here) PROVE ReadIsFresh'
  <2>1. UNCHANGED <<message, commit, recorded>>
    BY <1>28 DEF Operate, Moves, Written, New, files
  <2> QED BY <2>1
<1>29. ASSUME ReadStatus PROVE ReadIsFresh'
  <2>1. UNCHANGED <<message, commit, recorded>>
    BY <1>29 DEF ReadStatus, files, box
  <2> QED BY <2>1
<1>31. ASSUME CheckSave PROVE ReadIsFresh'
  <2>1. UNCHANGED <<message, commit, recorded>>
    BY <1>31 DEF CheckSave, Lone, box
  <2> QED BY <2>1
<1>30. ASSUME UNCHANGED draftsVars PROVE ReadIsFresh'
  BY <1>30 DEF draftsVars, files, box, repository
<1> HIDE DEF ReadIsFresh
<1> QED
  BY <1>1, <1>2, <1>3, <1>4, <1>5, <1>6, <1>7, <1>8, <1>9, <1>10, <1>11, <1>12, <1>13, <1>14, <1>15, <1>16, <1>17, <1>18, <1>19, <1>20, <1>21, <1>22, <1>23, <1>24, <1>25, <1>26, <1>27, <1>28, <1>29, <1>30, <1>31 DEF DraftsNext

\* What is offered in an empty box is what git would start from.
LEMMA OfferedInTheBox ==
    ASSUME "quick" \notin MayHappen, FilesTypes, BoxInv, OfferedIsRead, commit = None, Current, message = None
    PROVE  Message = Prepares(amend)
<1>1. Key \in MessageKeys \ staleMessage /\ prepared[Key] # None
  BY InTheBox DEF BoxInv, Current
<1>2. prepared[Key] = Prepares(Key[1]) /\ Key[1] = amend
  BY <1>1 DEF OfferedIsRead, Key
<1>3. Message = prepared[Key]
  BY <1>1, InTheBox DEF BoxInv, PreparedText
<1>4. PICK k : k = Key
  OBVIOUS
<1> QED BY <1>1, <1>2, <1>3, <1>4 DEF Prepares

LEMMA WordedSteps ==
    ASSUME "quick" \notin MayHappen, FilesInv, BoxInv, Worded, OfferedIsRead, [DraftsNext]_draftsVars
    PROVE  Worded'
<1> USE DEF Worded
<1>1. ASSUME NEW path \in Files \cup {None}, OpenFile(path) PROVE Worded'
  <2>1. UNCHANGED <<commit, confirming, amend, head>>
    BY <1>1 DEF OpenFile, Stroke, Editing, Lone, Buffer, box, repository
  <2> QED BY <2>1
<1>2. ASSUME NEW path \in Files, ReadFile(path) PROVE Worded'
  <2>1. UNCHANGED <<commit, confirming, amend, head>>
    BY <1>2 DEF ReadFile, Drawn, Lone, Buffer, box, repository
  <2> QED BY <2>1
<1>3. ASSUME NEW path \in Files, Forget(path) PROVE Worded'
  <2>1. UNCHANGED <<commit, confirming, amend, head>>
    BY <1>3 DEF Forget, Drawn, Lone, box, repository
  <2> QED BY <2>1
<1>4. ASSUME NEW path \in Files, Rewrite(path) PROVE Worded'
  <2>1. UNCHANGED <<commit, confirming, amend, head>>
    BY <1>4 DEF Rewrite, Written, New, box, repository
  <2> QED BY <2>1
<1>5. ASSUME TypeText PROVE Worded'
  <2>1. UNCHANGED <<commit, confirming, amend, head>>
    BY <1>5 DEF TypeText, Stroke, Written, New, Editing, Content, Lone, Buffer, box, repository
  <2> QED BY <2>1
<1>6. ASSUME Revert PROVE Worded'
  <2>1. UNCHANGED <<commit, confirming, amend, head>>
    BY <1>6 DEF Revert, Stroke, Editing, Lone, Buffer, box, repository
  <2> QED BY <2>1
<1>7. ASSUME Save PROVE Worded'
  <2>1. UNCHANGED <<commit, confirming, amend, head>>
    BY <1>7 DEF Save, Ask, Operation, Stroke, Editing, Content, Dirty, OperationBusy, Lone, box, repository
  <2> QED BY <2>1
<1>8. ASSUME MarkResolved PROVE Worded'
  <2>1. UNCHANGED <<commit, confirming, amend, head>>
    BY <1>8 DEF MarkResolved, Ask, Operation, Stroke, Editing, OperationBusy, Lone, box, repository
  <2> QED BY <2>1
<1>9. ASSUME AskKeep PROVE Worded'
  <2>1. UNCHANGED <<commit, confirming, amend, head>>
    BY <1>9 DEF AskKeep, Stroke, Editing, OperationBusy, Lone, box, repository
  <2> QED BY <2>1
<1>10. ASSUME CancelKeep PROVE Worded'
  <2>1. UNCHANGED <<commit, confirming, amend, head>>
    BY <1>10 DEF CancelKeep, OperationBusy, Lone, box, repository
  <2> QED BY <2>1
<1>11. ASSUME ConfirmKeep PROVE Worded'
  <2>1. UNCHANGED <<commit, confirming, amend, head>>
    BY <1>11 DEF ConfirmKeep, Ask, Operation, OperationBusy, Lone, box, repository
  <2> QED BY <2>1
<1>12. ASSUME RunOperation PROVE Worded'
  <2>1. UNCHANGED <<commit, confirming, amend, head>>
    BY <1>12 DEF RunOperation, OperationBusy, Written, New, box
  <2> QED BY <2>1
<1>13. ASSUME AnswerOperation PROVE Worded'
  <2>1. UNCHANGED <<commit, confirming, amend, head>>
    BY <1>13 DEF AnswerOperation, OperationBusy, Drawn, Mounted, Lone, Buffer, box, repository
  <2> QED BY <2>1
<1>14. ASSUME RefuseOperation PROVE Worded'
  <2>1. UNCHANGED <<commit, confirming, amend, head>>
    BY <1>14 DEF RefuseOperation, OperationBusy, Lone, box, repository
  <2> QED BY <2>1
<1>15. ASSUME TypeMessage PROVE Worded'
  <2>1. UNCHANGED <<commit, confirming, amend, head>>
    BY <1>15 DEF TypeMessage, Apart, repository
  <2> QED BY <2>1
<1>16. ASSUME NEW yes \in BOOLEAN, Amend(yes) PROVE Worded'
  BY <1>16 DEF Amend, Stroke, Editing, Apart, files, repository
<1>17. ASSUME NEW yes \in BOOLEAN, AddCoAuthor(yes) PROVE Worded'
  <2>1. UNCHANGED <<commit, confirming, amend, head>>
    BY <1>17 DEF AddCoAuthor, Stroke, Editing, Apart, files, repository
  <2> QED BY <2>1
<1>18. ASSUME ReadPrepared PROVE Worded'
  <2>1. UNCHANGED <<commit, confirming, amend, head>>
    BY <1>18 DEF ReadPrepared, Key, Prepares, Apart, files, repository
  <2> QED BY <2>1
<1>19. ASSUME Submit PROVE Worded'
  <2>1. /\ UNCHANGED <<message, amend, head>> /\ commit = None
        /\ \/ UNCHANGED commit /\ amend
           \/ /\ commit' = [text |-> Message, typed |-> message # None, amend |-> amend, asking |-> TRUE, done |-> FALSE]
              /\ UNCHANGED confirming
    BY <1>19 DEF Submit, Send, Apart, files, repository
  <2>2. Message # Empty /\ (message # None => Message = message)
    BY <1>19, InTheBox DEF BoxInv, Submit, CanCommit, FilesInv
  <2>3. CASE UNCHANGED commit /\ amend
    BY <2>1, <2>3
  <2>4. CASE /\ commit' = [text |-> Message, typed |-> message # None, amend |-> amend, asking |-> TRUE, done |-> FALSE]
             /\ UNCHANGED confirming
    BY <2>1, <2>2, <2>4
  <2> QED BY <2>1, <2>3, <2>4
<1>20. ASSUME ConfirmAmend PROVE Worded'
  <2>1. /\ UNCHANGED <<message, amend, head>> /\ commit = None /\ Current /\ confirming
        /\ commit' = [text |-> Message, typed |-> message # None, amend |-> amend, asking |-> TRUE, done |-> FALSE]
        /\ confirming' = FALSE
    BY <1>20 DEF ConfirmAmend, Send, Apart, files, repository
  <2>2. message # None => Message = message /\ message # Empty
    BY <2>1, InTheBox DEF BoxInv, FilesInv, BoxTypes
  <2>3. message = None => Message = head
    <3>1. amend
      BY <2>1
    <3> QED BY <2>1, <3>1, OfferedInTheBox DEF FilesInv, Prepares
  <2>4. Message # Empty
    BY <2>2, <2>3
  <2> QED BY <2>1, <2>2, <2>4
<1>21. ASSUME CancelAmend PROVE Worded'
  BY <1>21 DEF CancelAmend, Apart, files, repository
<1>22. ASSUME RunCommit PROVE Worded'
  <2>1. /\ commit \in Commits /\ commit # None /\ commit' = [commit EXCEPT !.done = TRUE]
        /\ head' = commit.text /\ UNCHANGED <<confirming, amend>>
    BY <1>22 DEF RunCommit, BoxInv, BoxTypes
  <2>2. commit'.text = commit.text
    BY <2>1 DEF Commits
  <2> QED BY <2>1, <2>2
<1>23. ASSUME AnswerCommit PROVE Worded'
  BY <1>23 DEF AnswerCommit, AfterCommit, Apart, files, repository
<1>24. ASSUME RefuseCommit PROVE Worded'
  BY <1>24 DEF RefuseCommit, Apart, files, repository
<1>25. ASSUME Leave PROVE Worded'
  <2>1. /\ confirming' = FALSE /\ UNCHANGED head
        /\ commit' = commit \/ (commit # None /\ commit' = [commit EXCEPT !.asking = FALSE])
    BY <1>25 DEF Leave, repository
  <2>2. commit # None => commit \in Commits
    BY DEF BoxInv, BoxTypes
  <2>3. commit' # None => commit # None /\ commit'.text = commit.text
    BY <2>1, <2>2 DEF Commits
  <2> QED BY <2>1, <2>3
<1>26. ASSUME Return PROVE Worded'
  <2>1. UNCHANGED <<commit, confirming, amend, head>>
    BY <1>26 DEF Return, Stroke, box, repository
  <2> QED BY <2>1
<1>27. ASSUME Stage PROVE Worded'
  <2>1. UNCHANGED <<commit, confirming, amend, head>>
    BY <1>27 DEF Stage, files, box
  <2> QED BY <2>1
<1>28. ASSUME NEW next \in {0, stop + 1} \cap Stops, NEW here \in {TRUE} \cup {x \in {FALSE} : "elsewhere" \in MayHappen}, Operate(next, here) PROVE Worded'
  <2>1. /\ UNCHANGED <<commit, confirming, amend>>
        /\ head' = New \/ head' = head
        /\ Written
    BY <1>28 DEF Operate, Moves, files
  <2>2. New # Empty
    BY <2>1, Grown, Apartness DEF Written, FilesInv, Empty
  <2> QED BY <2>1, <2>2
<1>29. ASSUME ReadStatus PROVE Worded'
  <2>1. UNCHANGED <<commit, confirming, amend, head>>
    BY <1>29 DEF ReadStatus, files, box
  <2> QED BY <2>1
<1>30. ASSUME UNCHANGED draftsVars PROVE Worded'
  BY <1>30 DEF draftsVars, files, box, repository
<1>31. ASSUME CheckSave PROVE Worded'
  <2>1. UNCHANGED <<commit, confirming, amend, head>>
    BY <1>31 DEF CheckSave, Lone, box, repository
  <2> QED BY <2>1
<1> HIDE DEF Worded
<1> QED
  BY <1>1, <1>2, <1>3, <1>4, <1>5, <1>6, <1>7, <1>8, <1>9, <1>10, <1>11, <1>12, <1>13, <1>14, <1>15, <1>16, <1>17, <1>18, <1>19, <1>20, <1>21, <1>22, <1>23, <1>24, <1>25, <1>26, <1>27, <1>28, <1>29, <1>30, <1>31 DEF DraftsNext

LEMMA OfferedSteps ==
    ASSUME "quick" \notin MayHappen, "elsewhere" \notin MayHappen, FilesTypes, BoxInv, OfferedIsRead,
           [DraftsNext]_draftsVars
    PROVE  OfferedIsRead'
<1> USE DEF OfferedIsRead, Prepares
<1>1. ASSUME NEW path \in Files \cup {None}, OpenFile(path) PROVE OfferedIsRead'
  <2>1. UNCHANGED <<commit, prepared, staleMessage, head, stopMessage>>
    BY <1>1 DEF OpenFile, Stroke, Editing, Lone, Buffer, box, repository
  <2> QED BY <2>1
<1>2. ASSUME NEW path \in Files, ReadFile(path) PROVE OfferedIsRead'
  <2>1. UNCHANGED <<commit, prepared, staleMessage, head, stopMessage>>
    BY <1>2 DEF ReadFile, Drawn, Lone, Buffer, box, repository
  <2> QED BY <2>1
<1>3. ASSUME NEW path \in Files, Forget(path) PROVE OfferedIsRead'
  <2>1. UNCHANGED <<commit, prepared, staleMessage, head, stopMessage>>
    BY <1>3 DEF Forget, Drawn, Lone, box, repository
  <2> QED BY <2>1
<1>4. ASSUME NEW path \in Files, Rewrite(path) PROVE OfferedIsRead'
  <2>1. UNCHANGED <<commit, prepared, staleMessage, head, stopMessage>>
    BY <1>4 DEF Rewrite, Written, New, box, repository
  <2> QED BY <2>1
<1>5. ASSUME TypeText PROVE OfferedIsRead'
  <2>1. UNCHANGED <<commit, prepared, staleMessage, head, stopMessage>>
    BY <1>5 DEF TypeText, Stroke, Written, New, Editing, Content, Lone, Buffer, box, repository
  <2> QED BY <2>1
<1>6. ASSUME Revert PROVE OfferedIsRead'
  <2>1. UNCHANGED <<commit, prepared, staleMessage, head, stopMessage>>
    BY <1>6 DEF Revert, Stroke, Editing, Lone, Buffer, box, repository
  <2> QED BY <2>1
<1>7. ASSUME Save PROVE OfferedIsRead'
  <2>1. UNCHANGED <<commit, prepared, staleMessage, head, stopMessage>>
    BY <1>7 DEF Save, Ask, Operation, Stroke, Editing, Content, Dirty, OperationBusy, Lone, box, repository
  <2> QED BY <2>1
<1>8. ASSUME MarkResolved PROVE OfferedIsRead'
  <2>1. UNCHANGED <<commit, prepared, staleMessage, head, stopMessage>>
    BY <1>8 DEF MarkResolved, Ask, Operation, Stroke, Editing, OperationBusy, Lone, box, repository
  <2> QED BY <2>1
<1>9. ASSUME AskKeep PROVE OfferedIsRead'
  <2>1. UNCHANGED <<commit, prepared, staleMessage, head, stopMessage>>
    BY <1>9 DEF AskKeep, Stroke, Editing, OperationBusy, Lone, box, repository
  <2> QED BY <2>1
<1>10. ASSUME CancelKeep PROVE OfferedIsRead'
  <2>1. UNCHANGED <<commit, prepared, staleMessage, head, stopMessage>>
    BY <1>10 DEF CancelKeep, OperationBusy, Lone, box, repository
  <2> QED BY <2>1
<1>11. ASSUME ConfirmKeep PROVE OfferedIsRead'
  <2>1. UNCHANGED <<commit, prepared, staleMessage, head, stopMessage>>
    BY <1>11 DEF ConfirmKeep, Ask, Operation, OperationBusy, Lone, box, repository
  <2> QED BY <2>1
<1>12. ASSUME RunOperation PROVE OfferedIsRead'
  <2>1. UNCHANGED <<commit, prepared, staleMessage, head, stopMessage>>
    BY <1>12 DEF RunOperation, OperationBusy, Written, New, box
  <2> QED BY <2>1
<1>13. ASSUME AnswerOperation PROVE OfferedIsRead'
  <2>1. UNCHANGED <<commit, prepared, staleMessage, head, stopMessage>>
    BY <1>13 DEF AnswerOperation, OperationBusy, Drawn, Mounted, Lone, Buffer, box, repository
  <2> QED BY <2>1
<1>14. ASSUME RefuseOperation PROVE OfferedIsRead'
  <2>1. UNCHANGED <<commit, prepared, staleMessage, head, stopMessage>>
    BY <1>14 DEF RefuseOperation, OperationBusy, Lone, box, repository
  <2> QED BY <2>1
<1>15. ASSUME TypeMessage PROVE OfferedIsRead'
  <2>1. UNCHANGED <<commit, prepared, staleMessage, head, stopMessage>>
    BY <1>15 DEF TypeMessage, Stroke, Editing, Written, New, Apart, files, repository
  <2> QED BY <2>1
<1>16. ASSUME NEW yes \in BOOLEAN, Amend(yes) PROVE OfferedIsRead'
  <2>1. UNCHANGED <<commit, prepared, staleMessage, head, stopMessage>>
    BY <1>16 DEF Amend, Stroke, Editing, Apart, files, repository
  <2> QED BY <2>1
<1>17. ASSUME NEW yes \in BOOLEAN, AddCoAuthor(yes) PROVE OfferedIsRead'
  <2>1. UNCHANGED <<commit, prepared, staleMessage, head, stopMessage>>
    BY <1>17 DEF AddCoAuthor, Stroke, Editing, Apart, files, repository
  <2> QED BY <2>1
<1>18. ASSUME ReadPrepared PROVE OfferedIsRead'
  <2>1. /\ UNCHANGED <<commit, amend, head, stopMessage>>
        /\ prepared' = [prepared EXCEPT ![Key] = IF amend THEN head ELSE stopMessage]
        /\ staleMessage' = staleMessage \ {Key}
    BY <1>18 DEF ReadPrepared, Prepares, Apart, repository
  <2>2. Key \in MessageKeys /\ Key[1] = amend /\ prepared \in [MessageKeys -> {0} \cup Texts \cup {None}]
    BY InTheBox DEF Key, BoxInv, BoxTypes
  <2>3. PICK k : k = Key
    OBVIOUS
  <2> QED BY <2>1, <2>2, <2>3
<1>19. ASSUME Submit PROVE OfferedIsRead'
  <2>1. /\ UNCHANGED <<prepared, staleMessage, amend, head, stopMessage>> /\ commit = None /\ Current
        /\ \/ UNCHANGED commit
           \/ commit' = [text |-> Message, typed |-> message # None, amend |-> amend, asking |-> TRUE, done |-> FALSE]
    BY <1>19 DEF Submit, Send, Apart, repository
  <2>2. message = None => Message = IF amend THEN head ELSE stopMessage
    BY <2>1, OfferedInTheBox DEF Prepares
  <2>3. CASE UNCHANGED commit
    BY <2>1, <2>3
  <2>4. CASE commit' = [text |-> Message, typed |-> message # None, amend |-> amend, asking |-> TRUE, done |-> FALSE]
    BY <2>1, <2>2, <2>4
  <2> QED BY <2>1, <2>3, <2>4
<1>20. ASSUME ConfirmAmend PROVE OfferedIsRead'
  <2>1. /\ UNCHANGED <<prepared, staleMessage, amend, head, stopMessage>> /\ commit = None /\ Current
        /\ commit' = [text |-> Message, typed |-> message # None, amend |-> amend, asking |-> TRUE, done |-> FALSE]
    BY <1>20 DEF ConfirmAmend, Send, Apart, repository
  <2>2. message = None => Message = IF amend THEN head ELSE stopMessage
    BY <2>1, OfferedInTheBox DEF Prepares
  <2> QED BY <2>1, <2>2
<1>21. ASSUME CancelAmend PROVE OfferedIsRead'
  <2>1. UNCHANGED <<commit, prepared, staleMessage, head, stopMessage>>
    BY <1>21 DEF CancelAmend, Apart, files, repository
  <2> QED BY <2>1
<1>22. ASSUME RunCommit PROVE OfferedIsRead'
  <2>1. /\ commit \in Commits /\ commit' = [commit EXCEPT !.done = TRUE] /\ commit # None
    BY <1>22 DEF RunCommit, BoxInv, BoxTypes
  <2>2. commit' \in Commits /\ commit'.done
    BY <2>1 DEF Commits
  <2>3. commit' # None
    BY <2>2, Apartness
  <2> QED BY <2>2, <2>3
<1>23. ASSUME AnswerCommit PROVE OfferedIsRead'
  BY <1>23 DEF AnswerCommit, AfterCommit, Apart, files, repository
<1>24. ASSUME RefuseCommit PROVE OfferedIsRead'
  BY <1>24 DEF RefuseCommit, Apart, files, repository
<1>25. ASSUME Leave PROVE OfferedIsRead'
  <2>1. /\ UNCHANGED <<prepared, staleMessage, head, stopMessage>>
        /\ commit' = commit \/ (commit # None /\ commit' = [commit EXCEPT !.asking = FALSE])
    BY <1>25 DEF Leave, repository
  <2>2. commit # None => commit \in Commits
    BY DEF BoxInv, BoxTypes
  <2>3. commit # None => commit' # None /\ commit'.text = commit.text /\ commit'.done = commit.done
                         /\ commit'.typed = commit.typed /\ commit'.amend = commit.amend
    BY <2>1, <2>2, Apartness DEF Commits
  <2>4. commit = None => commit' = None
    BY <2>1
  <2> QED BY <2>1, <2>3, <2>4
<1>26. ASSUME Return PROVE OfferedIsRead'
  <2>1. UNCHANGED <<commit, prepared, staleMessage, head, stopMessage>>
    BY <1>26 DEF Return, Stroke, box, repository
  <2> QED BY <2>1
<1>27. ASSUME Stage PROVE OfferedIsRead'
  <2>1. UNCHANGED <<commit, prepared, staleMessage, head, stopMessage>>
    BY <1>27 DEF Stage, files, box
  <2> QED BY <2>1
<1>28. ASSUME NEW next \in {0, stop + 1} \cap Stops, NEW here \in {TRUE} \cup {x \in {FALSE} : "elsewhere" \in MayHappen}, Operate(next, here) PROVE OfferedIsRead'
  <2>1. here = TRUE
    BY <1>28
  <2>2. commit = None /\ UNCHANGED <<commit, prepared>> /\ staleMessage' = {k \in MessageKeys : prepared[k] # None}
    BY <1>28, <2>1 DEF Operate, Moves
  <2> QED BY <2>2
<1>29. ASSUME ReadStatus PROVE OfferedIsRead'
  <2>1. UNCHANGED <<commit, prepared, staleMessage, head, stopMessage>>
    BY <1>29 DEF ReadStatus, files, box
  <2> QED BY <2>1
<1>31. ASSUME CheckSave PROVE OfferedIsRead'
  <2>1. UNCHANGED <<commit, prepared, staleMessage, head, stopMessage>>
    BY <1>31 DEF CheckSave, Lone, box, repository
  <2> QED BY <2>1
<1>30. ASSUME UNCHANGED draftsVars PROVE OfferedIsRead'
  BY <1>30 DEF draftsVars, files, box, repository
<1> HIDE DEF OfferedIsRead, Prepares
<1> QED
  BY <1>1, <1>2, <1>3, <1>4, <1>5, <1>6, <1>7, <1>8, <1>9, <1>10, <1>11, <1>12, <1>13, <1>14, <1>15, <1>16, <1>17, <1>18, <1>19, <1>20, <1>21, <1>22, <1>23, <1>24, <1>25, <1>26, <1>27, <1>28, <1>29, <1>30, <1>31 DEF DraftsNext

\* What was typed leaves the screen in no other way.
Kept ==
    /\ message \notin {None, Empty} /\ message' = None => message \in recorded \/ MessageSince
    /\ draft # None /\ draft' # draft /\ strokes' = strokes => draft = cache'[open] \/ keeping \/ TextSince

LEMMA KeptSteps ==
    ASSUME FilesInv, BoxInv, [DraftsNext]_draftsVars
    PROVE  Kept
<1> USE DEF Kept
<1>1. ASSUME NEW path \in Files \cup {None}, OpenFile(path) PROVE Kept
  <2>1. UNCHANGED <<message>> /\ strokes' = strokes + 1
    BY <1>1 DEF OpenFile, Stroke, Editing, Lone, Buffer, box, repository
  <2>2. strokes' # strokes
    BY <2>1 DEF FilesInv, FilesTypes
  <2> QED BY <2>1, <2>2
<1>2. ASSUME NEW path \in Files, ReadFile(path) PROVE Kept
  <2>1. message' = message /\ open = path /\ view = "changes" /\ cache[path] = None
    BY <1>2 DEF ReadFile, Drawn, Lone, box, FilesInv, FilesTypes
  <2>2. draft = None
    BY <2>1, Apartness DEF FilesInv, Laid
  <2> QED BY <2>1, <2>2
<1>3. ASSUME NEW path \in Files, Forget(path) PROVE Kept
  <2>1. UNCHANGED <<message, draft>>
    BY <1>3 DEF Forget, Drawn, Lone, box, repository
  <2> QED BY <2>1
<1>4. ASSUME NEW path \in Files, Rewrite(path) PROVE Kept
  <2>1. UNCHANGED <<message, draft>>
    BY <1>4 DEF Rewrite, Written, New, box, repository
  <2> QED BY <2>1
<1>5. ASSUME TypeText PROVE Kept
  <2>1. UNCHANGED <<message>> /\ strokes' = strokes + 1
    BY <1>5 DEF TypeText, Stroke, Written, New, Editing, Content, Lone, Buffer, box, repository
  <2>2. strokes' # strokes
    BY <2>1 DEF FilesInv, FilesTypes
  <2> QED BY <2>1, <2>2
<1>6. ASSUME Revert PROVE Kept
  <2>1. UNCHANGED <<message>> /\ strokes' = strokes + 1
    BY <1>6 DEF Revert, Stroke, Editing, Lone, Buffer, box, repository
  <2>2. strokes' # strokes
    BY <2>1 DEF FilesInv, FilesTypes
  <2> QED BY <2>1, <2>2
<1>7. ASSUME Save PROVE Kept
  <2>1. UNCHANGED <<message, draft>>
    BY <1>7 DEF Save, Ask, Operation, Stroke, Editing, Content, Dirty, OperationBusy, Lone, box, repository
  <2> QED BY <2>1
<1>8. ASSUME MarkResolved PROVE Kept
  <2>1. UNCHANGED <<message, draft>>
    BY <1>8 DEF MarkResolved, Ask, Operation, Stroke, Editing, OperationBusy, Lone, box, repository
  <2> QED BY <2>1
<1>9. ASSUME AskKeep PROVE Kept
  <2>1. UNCHANGED <<message, draft>>
    BY <1>9 DEF AskKeep, Stroke, Editing, OperationBusy, Lone, box, repository
  <2> QED BY <2>1
<1>10. ASSUME CancelKeep PROVE Kept
  <2>1. UNCHANGED <<message, draft>>
    BY <1>10 DEF CancelKeep, OperationBusy, Lone, box, repository
  <2> QED BY <2>1
<1>11. ASSUME ConfirmKeep PROVE Kept
  <2>1. UNCHANGED <<message, draft>>
    BY <1>11 DEF ConfirmKeep, Ask, Operation, OperationBusy, Lone, box, repository
  <2> QED BY <2>1
<1>12. ASSUME RunOperation PROVE Kept
  <2>1. UNCHANGED <<message, draft>>
    BY <1>12 DEF RunOperation, OperationBusy, Written, New, box
  <2> QED BY <2>1
<1>13. ASSUME AnswerOperation PROVE Kept
  <2>1. message' = message /\ open' = open
    BY <1>13 DEF AnswerOperation, Lone, box
  <2>2. operation # None /\ operation \in Operations /\ operation.path \in Files /\ stale = {}
    BY <1>13 DEF AnswerOperation, OperationBusy, FilesInv, FilesTypes, Operations
  <2>3. ASSUME draft # None, draft' # draft PROVE draft = cache'[open] \/ keeping \/ TextSince
    <3>1. open \in Files /\ view = "changes" /\ seen = cache[open]
      BY <2>3 DEF FilesInv, FilesTypes, Laid
    <3>2. CASE operation.kind = "save"
      <4>1. CASE draft # operation.text
        BY <2>2, <3>2, <4>1 DEF TextSince
      <4>2. cache' = [cache EXCEPT ![operation.path] = operation.text] /\ cache \in [Files -> Texts \cup {None}]
        BY <1>13, <3>2 DEF AnswerOperation, FilesInv, FilesTypes
      <4>3. CASE operation.path = open /\ draft = operation.text
        BY <3>1, <4>2, <4>3
      <4>4. CASE operation.path # open
        <5>1. cache'[open] = cache[open] /\ ~Mounted
          BY <2>2, <3>1, <4>2, <4>4 DEF Mounted
        <5>2. Buffer(draft)
          BY <1>13, <5>1 DEF AnswerOperation
        <5>3. draft' = draft
          BY <2>1, <3>1, <5>1, <5>2, Apartness DEF Buffer
        <5> QED BY <2>3, <5>3
      <4> QED BY <4>1, <4>3, <4>4
    <3>3. CASE operation.kind = "resolve"
      BY <2>2, <3>3 DEF FilesInv, InOperation
    <3>4. CASE operation.kind = "stage"
      <4>1. cache' = cache /\ Buffer(draft)
        BY <1>13, <3>4 DEF AnswerOperation
      <4>2. draft' = draft
        BY <2>1, <3>1, <4>1, Apartness DEF Buffer
      <4> QED BY <2>3, <4>2
    <3> QED BY <2>2, <3>2, <3>3, <3>4 DEF Operations
  <2> QED BY <2>1, <2>3
<1>14. ASSUME RefuseOperation PROVE Kept
  <2>1. UNCHANGED <<message, draft>>
    BY <1>14 DEF RefuseOperation, OperationBusy, Lone, box, repository
  <2> QED BY <2>1
<1>15. ASSUME TypeMessage PROVE Kept
  <2>1. draft' = draft /\ ((message' = texts' /\ Written) \/ message' = 0)
    BY <1>15 DEF TypeMessage, Written, New, Empty, Apart, files
  <2>2. message' # None
    BY <2>1, Grown, Apartness DEF FilesInv
  <2> QED BY <2>1, <2>2
<1>16. ASSUME NEW yes \in BOOLEAN, Amend(yes) PROVE Kept
  <2>1. UNCHANGED <<message, draft>>
    BY <1>16 DEF Amend, Stroke, Editing, Apart, files, repository
  <2> QED BY <2>1
<1>17. ASSUME NEW yes \in BOOLEAN, AddCoAuthor(yes) PROVE Kept
  <2>1. UNCHANGED <<message, draft>>
    BY <1>17 DEF AddCoAuthor, Stroke, Editing, Apart, files, repository
  <2> QED BY <2>1
<1>18. ASSUME ReadPrepared PROVE Kept
  <2>1. UNCHANGED <<message, draft>>
    BY <1>18 DEF ReadPrepared, Key, Prepares, Apart, files, repository
  <2> QED BY <2>1
<1>19. ASSUME Submit PROVE Kept
  <2>1. UNCHANGED <<message, draft>>
    BY <1>19 DEF Submit, Send, Stroke, Editing, Current, CanCommit, CommitBusy, Message, PreparedText, Key, Apart, files, repository
  <2> QED BY <2>1
<1>20. ASSUME ConfirmAmend PROVE Kept
  <2>1. UNCHANGED <<message, draft>>
    BY <1>20 DEF ConfirmAmend, Send, Current, Message, PreparedText, Key, Apart, files, repository
  <2> QED BY <2>1
<1>21. ASSUME CancelAmend PROVE Kept
  <2>1. UNCHANGED <<message, draft>>
    BY <1>21 DEF CancelAmend, Apart, files, repository
  <2> QED BY <2>1
<1>22. ASSUME RunCommit PROVE Kept
  <2>1. UNCHANGED <<message, draft>>
    BY <1>22 DEF RunCommit, files
  <2> QED BY <2>1
<1>23. ASSUME AnswerCommit PROVE Kept
  <2>1. /\ draft' = draft /\ commit # None /\ commit.done
        /\ ~commit.asking => message' = message
    BY <1>23 DEF AnswerCommit, AfterCommit, Apart, files
  <2>2. commit.asking => message \in recorded \/ MessageSince
    BY <2>1 DEF BoxInv, BoxTypes, MessageSince
  <2> QED BY <2>1, <2>2
<1>24. ASSUME RefuseCommit PROVE Kept
  <2>1. UNCHANGED <<message, draft>>
    BY <1>24 DEF RefuseCommit, Apart, files, repository
  <2> QED BY <2>1
<1>25. ASSUME Leave PROVE Kept
  <2>1. UNCHANGED <<message>> /\ strokes' = strokes + 1
    BY <1>25 DEF Leave, Stroke, Editing, repository
  <2>2. strokes' # strokes
    BY <2>1 DEF FilesInv, FilesTypes
  <2> QED BY <2>1, <2>2
<1>26. ASSUME Return PROVE Kept
  <2>1. UNCHANGED <<message, draft>>
    BY <1>26 DEF Return, Stroke, box, repository
  <2> QED BY <2>1
<1>27. ASSUME Stage PROVE Kept
  <2>1. UNCHANGED <<message, draft>>
    BY <1>27 DEF Stage, files, box
  <2> QED BY <2>1
<1>28. ASSUME NEW next \in {0, stop + 1} \cap Stops, NEW here \in {TRUE} \cup {x \in {FALSE} : "elsewhere" \in MayHappen}, Operate(next, here) PROVE Kept
  <2>1. UNCHANGED <<message, draft>>
    BY <1>28 DEF Operate, Moves, Written, New, files
  <2> QED BY <2>1
<1>29. ASSUME ReadStatus PROVE Kept
  <2>1. UNCHANGED <<message, draft>>
    BY <1>29 DEF ReadStatus, files, box
  <2> QED BY <2>1
<1>31. ASSUME CheckSave PROVE Kept
  <2>1. UNCHANGED <<message, draft>>
    BY <1>31 DEF CheckSave, Lone, box
  <2> QED BY <2>1
<1>30. ASSUME UNCHANGED draftsVars PROVE Kept
  BY <1>30 DEF draftsVars, files, box, repository
<1> HIDE DEF Kept
<1> QED
  BY <1>1, <1>2, <1>3, <1>4, <1>5, <1>6, <1>7, <1>8, <1>9, <1>10, <1>11, <1>12, <1>13, <1>14, <1>15, <1>16, <1>17, <1>18, <1>19, <1>20, <1>21, <1>22, <1>23, <1>24, <1>25, <1>26, <1>27, <1>28, <1>29, <1>30, <1>31 DEF DraftsNext

-----------------------------------------------------------------------------
(* The beginning, and what the invariants say. *)

LEMMA DraftsStarts ==
    ASSUME DraftsInit
    PROVE  FilesInv /\ BoxInv /\ ReadIsFresh /\ Worded /\ OfferedIsRead
<1>1. /\ disk = [p \in Files |-> p] /\ unmerged \in {{}, Conflicted}
      /\ staged \in BOOLEAN /\ stop = 0 /\ stopMessage = 0
      /\ view = "changes" /\ open = None
      /\ cache = [p \in Files |-> None] /\ stale = {}
      /\ seen = None /\ draft = None /\ keeping = FALSE /\ operation = None
      /\ message = None /\ amend = FALSE /\ confirming = FALSE /\ shownStop = 0
      /\ prepared = [k \in MessageKeys |-> None] /\ staleMessage = {} /\ commit = None
      /\ texts = head /\ strokes = 0 /\ over = None /\ recorded = {}
  BY DEF DraftsInit, Empty
<1>2. head \in Texts
  <2>1. PICK last \in Files : last < MaxTexts /\ \A p \in Files : p \in 1..last
    BY DraftsAssumption
  <2>2. last \in Texts /\ last + 1 \in Texts /\ \A q \in Files : q <= last
    BY <2>1, Apartness DEF Texts
  <2>3. ASSUME NEW q \in Files, \A p \in Files : p <= q PROVE q = last
    BY <2>1, <2>2, <2>3, Apartness DEF Texts
  <2>4. (CHOOSE p \in Files : \A q \in Files : q <= p) = last
    BY <2>2, <2>3
  <2>5. head = 1 + last
    BY <2>4 DEF DraftsInit
  <2> QED BY <2>2, <2>5 DEF Texts
<1>3. FilesInv
  <2>1. unmerged \subseteq Files
    BY <1>1, DraftsAssumption
  <2>2. disk \in [Files -> Texts]
    BY <1>1, Apartness
  <2>3. keeping \in BOOLEAN
    BY <1>1, Zenon
  <2> QED BY <1>1, <1>2, <2>1, <2>2, <2>3 DEF FilesInv, FilesTypes, Laid, InOperation
<1>4. BoxInv
  <2>1. amend \in BOOLEAN /\ confirming \in BOOLEAN
    BY <1>1, Zenon
  <2>2. staged \in BOOLEAN
    BY <1>1
  <2> QED BY <1>1, <1>2, <2>1, <2>2, Apartness DEF BoxInv, BoxTypes, Stops, Empty
<1>5. ReadIsFresh
  BY <1>1 DEF ReadIsFresh
<1>6. Worded
  BY <1>1, <1>2, Apartness DEF Worded, Empty
<1>7. OfferedIsRead
  BY <1>1 DEF OfferedIsRead
<1> QED BY <1>3, <1>4, <1>5, <1>6, <1>7

LEMMA DraftsWellTyped == ASSUME FilesInv, BoxInv PROVE DraftsTypeOK
<1>1. \A p \in Files : disk[p] \in 1..MaxTexts /\ (cache[p] = None \/ cache[p] \in 1..MaxTexts)
  BY DEF FilesInv, FilesTypes, Texts
<1>2. draft # None => open # None /\ seen # None /\ draft \in 1..MaxTexts
  BY DEF FilesInv, FilesTypes, Laid, Texts
<1>3. open # None /\ view = "changes" => seen = cache[open]
  BY DEF FilesInv, Laid
<1>4. stale \subseteq {p \in Files : cache[p] # None}
  BY DEF FilesInv, FilesTypes
<1>5. staleMessage \subseteq {k \in MessageKeys : prepared[k] # None}
  BY DEF BoxInv, BoxTypes
<1>6. keeping => view = "changes" /\ open # None
  BY DEF FilesInv, Laid
<1> QED BY <1>1, <1>2, <1>3, <1>4, <1>5, <1>6 DEF DraftsTypeOK

LEMMA RecordedOnce == ASSUME ReadIsFresh, Records, commit.typed PROVE commit.text \notin recorded
BY DEF ReadIsFresh, Records

LEMMA OfferedAsItIs ==
    ASSUME OfferedIsRead, Worded, Records
    PROVE  commit.text # Empty /\ (~commit.typed => commit.text = Prepares(commit.amend))
BY DEF OfferedIsRead, Worded, Records

-----------------------------------------------------------------------------
(* The theorems. *)

\* Whatever happens while a file is saved, a save is written only when the file
\* the daemon read for it is the text its buffer was typed over (FileEditor.tsx,
\* with the hash that internal/edit compares).
THEOREM SavesKeepOthers == DraftsSpec => SavesOverWhatWasRead
<1>1. DraftsInit => FilesInv
  BY DraftsStarts
<1>2. FilesInv /\ [DraftsNext]_draftsVars => FilesInv'
  BY FilesSteps
<1>3. FilesInv /\ [DraftsNext]_draftsVars => (Saves => operation.found = operation.over)
  BY SaveStep
<1> QED BY <1>1, <1>2, <1>3, PTL DEF DraftsSpec, SavesOverWhatWasRead

\* Whatever happens meanwhile, a message that was typed is recorded by one commit,
\* but for a commit whose view was left: the box that asked empties itself
\* (CommitBox.tsx).
THEOREM RecordsOnce == DraftsSpec => OneMessageOneCommit
<1>1. DraftsInit => FilesInv /\ BoxInv /\ ReadIsFresh
  BY DraftsStarts
<1>2. FilesInv /\ BoxInv /\ ReadIsFresh /\ [DraftsNext]_draftsVars => FilesInv' /\ BoxInv' /\ ReadIsFresh'
  BY FilesSteps, BoxSteps, FreshSteps DEF FilesInv
<1>3. FilesInv /\ BoxInv /\ ReadIsFresh /\ [DraftsNext]_draftsVars
      => (Records /\ commit.typed => commit.text \notin recorded)
  BY RecordedOnce
<1> QED BY <1>1, <1>2, <1>3, PTL DEF DraftsSpec, OneMessageOneCommit

\* Whatever happens meanwhile, what is typed in a buffer and in the box stays there
\* until it is on disk, recorded or given up, but for what is typed over a text
\* being saved or a message being committed (FileEditor.tsx, CommitBox.tsx).
THEOREM NothingTypedLost == DraftsSpec => []DraftsTypeOK /\ NothingTypedIsLost
<1> DEFINE Inv == FilesInv /\ BoxInv
<1>1. DraftsInit => Inv
  BY DraftsStarts
<1>2. Inv /\ [DraftsNext]_draftsVars => Inv'
  BY FilesSteps, BoxSteps DEF FilesInv
<1>3. Inv => DraftsTypeOK
  BY DraftsWellTyped
<1>4. Inv /\ [DraftsNext]_draftsVars => Kept
  BY KeptSteps
<1> HIDE DEF Inv
<1>5. DraftsSpec => []Inv /\ [][Inv /\ [DraftsNext]_draftsVars]_draftsVars
  BY <1>1, <1>2, PTL DEF DraftsSpec
<1>6. DraftsSpec => [][Kept]_draftsVars
  BY <1>4, <1>5, PTL
<1>7. DraftsSpec => NothingTypedIsLost
  BY <1>6 DEF NothingTypedIsLost, Kept
<1>8. DraftsSpec => []DraftsTypeOK
  BY <1>3, <1>5, PTL
<1> QED BY <1>7, <1>8

\* An untouched message is the one git would start that commit from, and what was
\* typed is kept, when a commit waits for the message to be read again and HEAD is
\* moved by the application alone: the view may be left, and the user may type,
\* while git is asked (CommitBox.tsx, useWorkingDirectory.ts).
THEOREM BoxesKeep ==
    ASSUME "quick" \notin MayHappen, "elsewhere" \notin MayHappen
    PROVE  DraftsSpec => BoxesKeepWhatIsTyped
<1> DEFINE Inv == FilesInv /\ BoxInv /\ Worded /\ OfferedIsRead
<1>1. DraftsInit => Inv
  BY DraftsStarts
<1>2. Inv /\ [DraftsNext]_draftsVars => Inv'
  BY FilesSteps, BoxSteps, WordedSteps, OfferedSteps DEF FilesInv
<1>3. Inv /\ [DraftsNext]_draftsVars
      => (Records => commit.text # Empty /\ (~commit.typed => commit.text = Prepares(commit.amend)))
  BY OfferedAsItIs
<1> HIDE DEF Inv
<1>4. DraftsSpec => OfferedIsCurrent
  BY <1>1, <1>2, <1>3, PTL DEF DraftsSpec, OfferedIsCurrent
<1>5. DraftsSpec => []DraftsTypeOK /\ NothingTypedIsLost
  BY NothingTypedLost
<1> QED BY <1>4, <1>5 DEF BoxesKeepWhatIsTyped


-----------------------------------------------------------------------------
(***************************************************************************)
(* What is proved of a transfer, for any requests, any capacity of the     *)
(* pump and of the connection, any number of lines and any deadlines.      *)
(*                                                                         *)
(* While the connection holds, what the pump took of a request is, in      *)
(* order, what the page was given, what is on the wire, the line in hand   *)
(* and what waits in the pump: that is `Flow`.  `AnswerComesLast` says     *)
(* that nothing follows the end of an answer, and `Answered` that a page   *)
(* that has read it has read all the lines before it.                      *)
(*                                                                         *)
(* `Punctual` compares the clocks of the two sides: as long as the         *)
(* connection holds and the page runs, a page that is told of git, or asked *)
(* for what begins with it, has waited for no longer than git has been     *)
(* silent and its pipes have been held.                                    *)
(***************************************************************************)

-----------------------------------------------------------------------------
(* The inductive invariant of a transfer. *)

Lines == 1..MaxLines
Events == [type : {"progress"}, line : Lines] \cup [type : Terminal, line : {None}]

TransferTypes ==
    /\ phase \in [Requests -> {"none", "asked", "running", "leaving", "stopping", "refs", "ended"}]
    /\ git \in [Requests -> {"none", "running", "ok", "failed"}]
    /\ said \in [Requests -> 0..MaxLines]
    /\ quiet \in [Requests -> Nat]
    /\ lines \in [Requests -> Seq(Lines)] /\ \A r \in Requests : Len(lines[r]) <= ProgressBuffer
    /\ hand \in [Requests -> Lines \cup {None}]
    /\ streaming \in [Requests -> BOOLEAN]
    /\ kept \in [Requests -> Seq(Lines)]
    /\ wire \in [Requests -> Seq(Events)] /\ \A r \in Requests : Len(wire[r]) <= Wire
    /\ link \in [Requests -> {"up", "cut", "closed"}]
    /\ verb \in [Requests -> Verbs \cup {None}]
    /\ client \in [Requests -> {"idle", "fetching", "reading", "settled"}]
    /\ awake \in BOOLEAN /\ slept \in BOOLEAN
    /\ torn \in [Requests -> BOOLEAN]
    /\ answer \in [Requests -> BOOLEAN]
    /\ waited \in [Requests -> 0..BrowserIdle]
    /\ outcome \in [Requests -> Outcomes \cup {None}]
    /\ heard \in [Requests -> Seq(Lines)]

\* The two ends go through their phases together.
InStep(r) ==
    /\ phase[r] = "none" <=> client[r] = "idle"
    /\ phase[r] \in {"none", "asked"} => git[r] = "none"
    /\ phase[r] = "running" <=> git[r] = "running"
    /\ phase[r] \in {"leaving", "stopping"} => git[r] \in {"ok", "failed"}
    /\ phase[r] = "refs" => git[r] = "ok"
    /\ client[r] = "reading" => git[r] # "none"
    /\ client[r] \in {"idle", "fetching"} => heard[r] = <<>>
    /\ client[r] = "settled" <=> outcome[r] # None
    /\ link[r] = "closed" => client[r] = "settled"
    /\ link[r] = "up" => streaming[r]

\* Nothing is on its way before git runs, nor with the pump after it.
NothingYet(r) ==
    /\ git[r] = "none" => wire[r] = <<>> /\ kept[r] = <<>> /\ heard[r] = <<>>
    /\ git[r] = "none" \/ phase[r] \in {"refs", "ended"} => lines[r] = <<>> /\ hand[r] = None

\* The answer is the last thing written.
Told(w) == IF w # <<>> /\ w[Len(w)].type \in Terminal THEN Len(w) - 1 ELSE Len(w)
AnswerComesLast(r) ==
    \A i \in 1..Len(wire[r]) : wire[r][i].type \in Terminal =>
        /\ i = Len(wire[r])
        /\ phase[r] = "ended"
        /\ wire[r][i].type = "done" => git[r] = "ok"

\* What the pump took is with the browser, on the wire, in hand or in the pump.
LinesOf(w) == [i \in 1..Told(w) |-> w[i].line]
InHand(h) == IF h = None THEN <<>> ELSE <<h>>
Way(front, within, held, queue) == front \o within \o InHand(held) \o queue
Flow(r) == link[r] = "up" => kept[r] = Way(heard[r], LinesOf(wire[r]), hand[r], lines[r])

Answered(r) ==
    /\ answer[r] \/ outcome[r] \in Terminal =>
           phase[r] = "ended" /\ git[r] # "none" /\ wire[r] = <<>> /\ heard[r] = kept[r]
    /\ answer[r] \/ outcome[r] = "done" => git[r] = "ok"
    /\ phase[r] = "ended" /\ git[r] # "none" /\ link[r] = "up" /\ client[r] # "settled" =>
           answer[r] \/ (wire[r] # <<>> /\ wire[r][Len(wire[r])].type \in Terminal)
    /\ outcome[r] # "ended"

OfRequest(r) == InStep(r) /\ NothingYet(r) /\ AnswerComesLast(r) /\ Flow(r) /\ Answered(r)

LineIsOfAReader == progress # None => \E r \in Requests : client[r] = "reading"

\* Nothing the browser waits for comes before git, or it has heard from git.
Timely(r) == verb[r] = "fetch" \/ heard[r] # <<>>

\* How long the browser has heard nothing, by what the daemon is at.
Punctual(r) ==
    /\ client[r] = "idle" => waited[r] = 0
    /\ git[r] = "running" => quiet[r] <= DaemonIdle
    /\ phase[r] = "leaving" => quiet[r] <= WaitDelay
    /\ link[r] = "up" /\ ~slept /\ Timely(r) /\ client[r] = "fetching" => waited[r] = 0
    /\ link[r] = "up" /\ ~slept /\ Timely(r) /\ client[r] = "reading" =>
           /\ phase[r] = "running" => waited[r] <= DaemonIdle
           /\ phase[r] = "running" =>
                  waited[r] <= quiet[r] \/ lines[r] # <<>> \/ hand[r] # None \/ wire[r] # <<>>
           /\ phase[r] = "leaving" => waited[r] <= DaemonIdle + quiet[r]
           /\ phase[r] \in {"stopping", "ended"} /\ git[r] = "failed" => waited[r] <= DaemonIdle + WaitDelay

TransferInv ==
    /\ TransferTypes
    /\ \A r \in Requests : OfRequest(r)
    /\ LineIsOfAReader
    /\ slept \/ awake

TransferPunctual == \A r \in Requests : Punctual(r)

-----------------------------------------------------------------------------
(* What a chunk of the stream says. *)

WellTold(w) == \A i \in 1..Len(w) : w[i].type \in Terminal => i = Len(w)

LEMMA Types == \A e \in Events :
    /\ e.type \in Terminal <=> e.type # "progress"
    /\ e.type = "progress" => e.line \in Lines
BY DEF Events, Terminal

\* Sifting the first positions cuts the sequence.
LEMMA SiftedFront ==
    ASSUME NEW s, NEW m \in Nat
    PROVE  Sifted(s, 1..m) = [n \in 1..m |-> s[n]]
<1>1. IsFiniteSet(1..m) /\ Cardinality(1..m) = m
  BY FS_Interval
<1>2. ASSUME NEW i \in 1..m PROVE Cardinality({j \in 1..m : j < i}) = i - 1
  <2>1. {j \in 1..m : j < i} = 1..(i - 1)
    OBVIOUS
  <2>2. i - 1 \in Nat
    OBVIOUS
  <2>3. Cardinality(1..(i - 1)) = i - 1
    BY <2>2, FS_Interval
  <2> QED BY <2>1, <2>3
<1> DEFINE at == Place(1..m)
<1>3. ASSUME NEW n \in 1..m PROVE at[n] = n
  <2>1. Cardinality({j \in 1..m : j < n}) = n - 1
    BY <1>2
  <2>2. at[n] = CHOOSE i \in 1..m : Cardinality({j \in 1..m : j < i}) = n - 1
    BY <1>1 DEF Place
  <2> HIDE DEF at
  <2>3. at[n] \in 1..m /\ Cardinality({j \in 1..m : j < at[n]}) = n - 1
    BY <2>1, <2>2
  <2>4. at[n] - 1 = n - 1
    BY <1>2, <2>3
  <2> QED BY <2>3, <2>4
<1>4. Sifted(s, 1..m) = [n \in 1..m |-> s[at[n]]]
  BY <1>1 DEF Sifted, Place
<1> HIDE DEF at
<1> QED BY <1>3, <1>4

LEMMA Tells ==
    ASSUME NEW w \in Seq(Events), WellTold(w)
    PROVE  /\ Told(w) \in Nat /\ Told(w) <= Len(w) /\ Len(w) <= Told(w) + 1
           /\ \A i \in 1..Len(w) : w[i] \in Events /\ (w[i].type = "progress" <=> i <= Told(w))
           /\ LinesOf(w) \in Seq(Lines) /\ Len(LinesOf(w)) = Told(w)
           /\ \A i \in 1..Told(w) : LinesOf(w)[i] = w[i].line
<1>1. Len(w) \in Nat /\ \A i \in 1..Len(w) : w[i] \in Events
  OBVIOUS
<1>2. w # <<>> => Len(w) > 0
  OBVIOUS
<1>3. Told(w) \in Nat /\ Told(w) <= Len(w) /\ Len(w) <= Told(w) + 1
  BY <1>1, <1>2 DEF Told
<1>4. ASSUME NEW i \in 1..Len(w) PROVE w[i].type = "progress" <=> i <= Told(w)
  <2>1. w # <<>>
    BY <1>1
  <2>2. CASE w[Len(w)].type \in Terminal
    BY <1>1, <2>1, <2>2, Types DEF Told, WellTold
  <2>3. CASE w[Len(w)].type \notin Terminal
    BY <1>1, <2>1, <2>3, Types DEF Told, WellTold
  <2> QED BY <2>2, <2>3
<1>5. \A i \in 1..Told(w) : w[i].line \in Lines
  BY <1>1, <1>3, <1>4, Types
<1>6. LinesOf(w) = [i \in 1..Told(w) |-> w[i].line]
  BY DEF LinesOf
<1>7. LinesOf(w) \in Seq(Lines) /\ Len(LinesOf(w)) = Told(w)
  <2>1. [i \in 1..Told(w) |-> w[i].line] \in Seq(Lines)
    BY <1>3, <1>5
  <2> QED BY <1>3, <1>6, <2>1
<1>8. \A i \in 1..Told(w) : LinesOf(w)[i] = w[i].line
  BY <1>6
<1> QED BY <1>1, <1>3, <1>4, <1>7, <1>8

LEMMA ShownIsLines ==
    ASSUME NEW w \in Seq(Events), WellTold(w)
    PROVE  Shown(w) = LinesOf(w)
<1> DEFINE m == Told(w)
<1>1. m \in Nat /\ m <= Len(w) /\ Len(w) \in Nat
  BY Tells
<1>2. {i \in DOMAIN w : w[i].type = "progress"} = 1..m
  <2>1. DOMAIN w = 1..Len(w)
    OBVIOUS
  <2>2. \A i \in 1..Len(w) : w[i].type = "progress" <=> i <= m
    BY Tells
  <2> HIDE DEF m
  <2> QED BY <1>1, <2>1, <2>2
<1> HIDE DEF m
<1>3. Sifted(w, 1..m) = [n \in 1..m |-> w[n]]
  BY <1>1, SiftedFront
<1>4. Shown(w) = [i \in 1..m |-> w[i].line]
  BY <1>2, <1>3 DEF Shown
<1> QED BY <1>4 DEF LinesOf, m

\* Two halves make the whole.
LEMMA Glued ==
    ASSUME NEW S, NEW a \in Seq(S), NEW b \in Seq(S), NEW c \in Seq(S),
           Len(a) = Len(b) + Len(c),
           \A i \in 1..Len(b) : a[i] = b[i],
           \A i \in 1..Len(c) : a[i + Len(b)] = c[i]
    PROVE  a = b \o c
<1>1. b \o c \in Seq(S) /\ Len(b \o c) = Len(b) + Len(c) /\ Len(b) \in Nat /\ Len(c) \in Nat
  OBVIOUS
<1>2. ASSUME NEW i \in 1..Len(a) PROVE a[i] = (b \o c)[i]
  <2>1. CASE i <= Len(b)
    <3>1. i \in 1..Len(b)
      BY <1>1, <2>1
    <3> QED BY <3>1
  <2>2. CASE i > Len(b)
    <3>1. PICK j \in 1..Len(c) : i = j + Len(b)
      <4>1. i - Len(b) \in 1..Len(c) /\ i = (i - Len(b)) + Len(b)
        BY <1>1, <2>2
      <4> QED BY <4>1
    <3>2. (b \o c)[i] = c[i - Len(b)]
      BY <1>1, <2>2
    <3>3. i - Len(b) = j
      BY <1>1, <3>1
    <3> QED BY <3>1, <3>2, <3>3
  <2> QED BY <1>1, <2>1, <2>2
<1> QED BY <1>1, <1>2, SeqEqual

\* What is written joins what was, an answer adds no line to it, and what is
\* read comes off the front.
LEMMA LineWritten ==
    ASSUME NEW w \in Seq(Events), WellTold(w), Told(w) = Len(w), NEW x \in Lines,
           NEW e, e = [type |-> "progress", line |-> x]
    PROVE  /\ Append(w, e) \in Seq(Events)
           /\ WellTold(Append(w, e))
           /\ LinesOf(Append(w, e)) = LinesOf(w) \o <<x>>
<1> DEFINE v == Append(w, e)
<1>1. e \in Events /\ e.type = "progress" /\ e.type \notin Terminal /\ e.line = x
  BY DEF Events, Terminal
<1>2. v \in Seq(Events) /\ Len(v) = Len(w) + 1 /\ v[Len(w) + 1] = e /\ Len(w) \in Nat
      /\ \A i \in 1..Len(w) : v[i] = w[i]
  BY <1>1
<1>3. \A i \in 1..Len(w) : w[i].type = "progress" /\ w[i].type \notin Terminal
  BY Tells, <1>2, Types
<1>4. WellTold(v)
  BY <1>1, <1>2, <1>3 DEF WellTold
<1>5. Told(v) = Len(w) + 1
  <2>1. v[Len(v)].type \notin Terminal
    BY <1>1, <1>2
  <2> HIDE DEF v
  <2> QED BY <1>2, <2>1 DEF Told
<1> HIDE DEF v
<1>6. /\ LinesOf(v) \in Seq(Lines) /\ Len(LinesOf(v)) = Len(w) + 1
      /\ \A i \in 1..(Len(w) + 1) : LinesOf(v)[i] = v[i].line
  BY <1>2, <1>4, <1>5, Tells
<1>7. /\ LinesOf(w) \in Seq(Lines) /\ Len(LinesOf(w)) = Len(w)
      /\ \A i \in 1..Len(w) : LinesOf(w)[i] = w[i].line
  BY Tells
<1>8. LinesOf(v) = LinesOf(w) \o <<x>>
  <2> DEFINE a == LinesOf(v)
             b == LinesOf(w)
  <2>1. \A i \in 1..Len(w) : a[i] = b[i]
    BY <1>2, <1>6, <1>7
  <2>2. a[Len(w) + 1] = x
    BY <1>1, <1>2, <1>6
  <2> HIDE DEF a, b
  <2>3. b \in Seq(Lines) /\ Len(b) = Len(w) /\ a \in Seq(Lines) /\ Len(a) = Len(w) + 1 /\ Len(w) \in Nat
    BY <1>2, <1>6, <1>7 DEF a, b
  <2>4. a = b \o <<x>>
    BY <2>1, <2>2, <2>3
  <2> QED BY <2>4 DEF a, b
<1> QED BY <1>2, <1>4, <1>8 DEF v

LEMMA AnswerWritten ==
    ASSUME NEW w \in Seq(Events), WellTold(w), Told(w) = Len(w), NEW type \in Terminal,
           NEW e, e = [type |-> type, line |-> None]
    PROVE  /\ Append(w, e) \in Seq(Events)
           /\ WellTold(Append(w, e))
           /\ LinesOf(Append(w, e)) = LinesOf(w)
<1> DEFINE v == Append(w, e)
<1>1. e \in Events /\ e.type = type
  BY DEF Events
<1>2. v \in Seq(Events) /\ Len(v) = Len(w) + 1 /\ v[Len(w) + 1] = e /\ Len(w) \in Nat
      /\ \A i \in 1..Len(w) : v[i] = w[i]
  BY <1>1
<1>3. \A i \in 1..Len(w) : w[i].type = "progress" /\ w[i].type \notin Terminal
  BY Tells, <1>2, Types
<1>4. WellTold(v)
  BY <1>1, <1>2, <1>3 DEF WellTold
<1>5. Told(v) = Len(w)
  <2>1. v[Len(v)].type \in Terminal /\ v # <<>>
    BY <1>1, <1>2
  <2> HIDE DEF v
  <2> QED BY <1>2, <2>1 DEF Told
<1>6. LinesOf(v) = LinesOf(w)
  BY <1>2, <1>5 DEF LinesOf
<1> QED BY <1>2, <1>4, <1>6

LEMMA ChunkRead ==
    ASSUME NEW w \in Seq(Events), WellTold(w), NEW n \in 0..Len(w)
    PROVE  LET chunk == SubSeq(w, 1, n)
               rest == SubSeq(w, n + 1, Len(w))
           IN  /\ chunk \in Seq(Events) /\ WellTold(chunk) /\ Len(chunk) = n
               /\ rest \in Seq(Events) /\ WellTold(rest) /\ Len(rest) = Len(w) - n
               /\ LinesOf(w) = LinesOf(chunk) \o LinesOf(rest)
               /\ Has(chunk, "progress") \/ Has(chunk, "done") \/ Has(chunk, "error") <=> n > 0
               /\ \A type \in Terminal : Has(chunk, type) =>
                      n = Len(w) /\ rest = <<>> /\ w # <<>> /\ w[Len(w)].type = type
               /\ rest # <<>> => rest[Len(rest)] = w[Len(w)] /\ w # <<>>
               /\ rest = <<>> => n = Len(w)
               /\ rest = <<>> /\ w # <<>> => Has(chunk, w[Len(w)].type)
<1> DEFINE chunk == SubSeq(w, 1, n)
           rest == SubSeq(w, n + 1, Len(w))
<1>1. Len(w) \in Nat /\ n \in Nat /\ n <= Len(w) /\ \A i \in 1..Len(w) : w[i] \in Events
  OBVIOUS
<1>2. chunk \in Seq(Events) /\ Len(chunk) = n /\ \A i \in 1..n : chunk[i] = w[i]
  BY <1>1
<1>3. rest \in Seq(Events) /\ Len(rest) = Len(w) - n /\ \A i \in 1..(Len(w) - n) : rest[i] = w[i + n]
  BY <1>1
<1> HIDE DEF chunk, rest
<1>4. WellTold(chunk)
  BY <1>1, <1>2 DEF WellTold
<1>5. WellTold(rest)
  BY <1>1, <1>3 DEF WellTold
<1>6. DOMAIN chunk = 1..n
  BY <1>2
<1>7. ASSUME NEW type \in Terminal, Has(chunk, type)
      PROVE  n = Len(w) /\ rest = <<>> /\ w # <<>> /\ w[Len(w)].type = type
  <2>1. PICK i \in 1..n : chunk[i].type = type
    BY <1>6, <1>7 DEF Has
  <2>2. w[i].type = type /\ i \in 1..Len(w)
    BY <1>1, <1>2, <2>1
  <2>3. i = Len(w)
    BY <1>7, <2>2 DEF WellTold
  <2>4. n = Len(w)
    BY <1>1, <2>1, <2>3
  <2>5. Len(rest) = 0
    BY <1>1, <1>3, <2>4
  <2>6. rest = <<>>
    BY <1>3, <2>5
  <2>7. w # <<>>
    BY <2>2
  <2> QED BY <2>2, <2>3, <2>4, <2>6, <2>7
<1>8. Has(chunk, "progress") \/ Has(chunk, "done") \/ Has(chunk, "error") <=> n > 0
  <2>1. \A i \in 1..n : chunk[i].type \in {"progress", "done", "error"}
    BY <1>1, <1>2 DEF Events, Terminal
  <2>2. n > 0 => 1 \in 1..n
    BY <1>1
  <2>3. \A i \in 1..n : n > 0
    BY <1>1
  <2> QED BY <1>6, <2>1, <2>2, <2>3 DEF Has
<1>9. rest # <<>> => rest[Len(rest)] = w[Len(w)] /\ w # <<>>
  BY <1>1, <1>3
<1>10. rest = <<>> => n = Len(w)
  BY <1>1, <1>3
<1>12. rest = <<>> /\ w # <<>> => Has(chunk, w[Len(w)].type)
  <2>1. rest = <<>> /\ w # <<>> => n \in 1..n /\ n = Len(w)
    BY <1>1, <1>10
  <2> QED BY <1>2, <1>6, <2>1 DEF Has
<1>11. LinesOf(w) = LinesOf(chunk) \o LinesOf(rest)
  <2> DEFINE a == LinesOf(w)
             b == LinesOf(chunk)
             c == LinesOf(rest)
  <2>1. a \in Seq(Lines) /\ Len(a) = Told(w) /\ \A i \in 1..Told(w) : a[i] = w[i].line
    BY Tells
  <2>2. b \in Seq(Lines) /\ Len(b) = Told(chunk) /\ \A i \in 1..Told(chunk) : b[i] = chunk[i].line
    BY <1>2, <1>4, Tells
  <2>3. c \in Seq(Lines) /\ Len(c) = Told(rest) /\ \A i \in 1..Told(rest) : c[i] = rest[i].line
    BY <1>3, <1>5, Tells
  <2>4. Told(w) \in Nat /\ Told(chunk) \in Nat /\ Told(rest) \in Nat
    BY <1>2, <1>3, <1>4, <1>5, Tells
  <2>5. CASE n = Len(w)
    <3>1. rest = <<>>
      <4>1. Len(rest) = 0
        BY <1>1, <1>3, <2>5
      <4> QED BY <1>3, <4>1
    <3>2. chunk = w
      BY <2>5, SubSeqFull DEF chunk
    <3>3. Told(rest) = 0
      BY <3>1 DEF Told
    <3>4. a = b
      BY <3>2
    <3> HIDE DEF a, b, c
    <3>5. c = <<>>
      BY <2>3, <3>3
    <3>6. b \o c = b
      BY <2>2, <3>5
    <3>7. a = b \o c
      BY <3>4, <3>6
    <3> QED BY <3>7 DEF a, b, c
  <2>6. CASE n < Len(w)
    <3>1. rest # <<>>
      BY <1>1, <1>3, <2>6
    <3>2. \A i \in 1..n : chunk[i].type \notin Terminal
      BY <1>1, <1>2, <2>6 DEF WellTold
    <3>3. Told(chunk) = n
      BY <1>1, <1>2, <3>2 DEF Told
    <3>4. Told(rest) = Told(w) - n
      <4>1. rest[Len(rest)] = w[Len(w)] /\ w # <<>>
        BY <1>9, <3>1
      <4> QED BY <1>1, <1>3, <3>1, <4>1 DEF Told
    <3>5. \A i \in 1..n : a[i] = b[i]
      BY <1>1, <1>2, <2>1, <2>2, <2>4, <3>3, <3>4
    <3>6. n \in Nat /\ Told(w) \in Nat /\ Told(w) <= Len(w) /\ Told(w) - n \in Nat
      BY <1>1, <2>4, <3>4, Tells
    <3>7. ASSUME NEW i \in 1..(Told(w) - n) PROVE a[i + n] = c[i]
      <4>1. i \in 1..(Len(w) - n) /\ i + n \in 1..Told(w) /\ i \in 1..Told(rest)
        BY <1>1, <3>4, <3>6
      <4>2. c[i] = rest[i].line
        BY <2>3, <4>1
      <4>3. a[i + n] = w[i + n].line
        BY <2>1, <4>1
      <4>4. rest[i] = w[i + n]
        BY <1>3, <4>1
      <4> QED BY <4>2, <4>3, <4>4
    <3> HIDE DEF a, b, c
    <3>8. Len(a) = Told(w) /\ Len(b) = n /\ Len(c) = Told(w) - n
      BY <2>1, <2>2, <2>3, <3>3, <3>4
    <3>9. a \in Seq(Lines) /\ b \in Seq(Lines) /\ c \in Seq(Lines)
      BY <2>1, <2>2, <2>3
    <3>10. a = b \o c
      <4>1. Len(a) = Len(b) + Len(c)
        BY <3>6, <3>8
      <4>2. \A i \in 1..Len(b) : a[i] = b[i]
        BY <3>5, <3>8
      <4>3. \A i \in 1..Len(c) : a[i + Len(b)] = c[i]
        BY <3>7, <3>8
      <4> QED BY <3>9, <4>1, <4>2, <4>3, Glued
    <3> QED BY <3>10 DEF a, b, c
  <2>7. n = Len(w) \/ n < Len(w)
    BY <1>1
  <2> QED BY <2>5, <2>6, <2>7, Zenon
<1> QED BY <1>2, <1>3, <1>4, <1>5, <1>7, <1>8, <1>9, <1>10, <1>11, <1>12 DEF chunk, rest

-----------------------------------------------------------------------------
(* The way of a line, from the pump to the ear. *)

LEMMA Joined == \A a, b, c \in Seq(Lines) : (a \o b) \o c = a \o (b \o c)
<1> SUFFICES ASSUME NEW a \in Seq(Lines), NEW b \in Seq(Lines), NEW c \in Seq(Lines)
             PROVE  (a \o b) \o c = a \o (b \o c)
  OBVIOUS
<1> QED BY ConcatAssociative

LEMMA WayWithin ==
    ASSUME NEW a \in Seq(Lines), NEW b \in Seq(Lines), NEW x \in Lines \cup {None}, NEW q \in Seq(Lines)
    PROVE  Way(a, b, x, q) \in Seq(Lines) /\ InHand(x) \in Seq(Lines)
BY DEF Way, InHand

LEMMA WayTaken ==
    ASSUME NEW a \in Seq(Lines), NEW b \in Seq(Lines), NEW q \in Seq(Lines), NEW x, NEW y \in Lines,
           InHand(x) \in Seq(Lines)
    PROVE  Append(Way(a, b, x, q), y) = Way(a, b, x, Append(q, y))
<1> DEFINE c == a \o b \o InHand(x)
<1>1. c \in Seq(Lines)
  OBVIOUS
<1> HIDE DEF c
<1>2. c \o q \in Seq(Lines) /\ <<y>> \in Seq(Lines)
  BY <1>1, ConcatProperties
<1>3. \A t \in Seq(Lines) : Append(t, y) = t \o <<y>>
  BY AppendIsConcat
<1>4. (c \o q) \o <<y>> = c \o (q \o <<y>>)
  BY <1>1, <1>2, Joined, SMTT(30)
<1>5. Append(c \o q, y) = c \o Append(q, y)
  BY <1>2, <1>3, <1>4
<1> QED BY <1>5 DEF Way, c

LEMMA WayInHand ==
    ASSUME NEW a \in Seq(Lines), NEW b \in Seq(Lines), NEW q \in Seq(Lines), q # <<>>
    PROVE  Way(a, b, None, q) = Way(a, b, Head(q), Tail(q))
<1> DEFINE c == a \o b
<1>1. c \in Seq(Lines) /\ Head(q) \in Lines /\ Tail(q) \in Seq(Lines) /\ <<Head(q)>> \in Seq(Lines)
  OBVIOUS
<1>2. Head(q) # None
  BY <1>1, PageAssumption DEF Lines
<1>3. q = <<Head(q)>> \o Tail(q)
  BY <1>1
<1> HIDE DEF c
<1>4. c \o <<>> = c
  BY <1>1
<1>5. c \o q = (c \o <<Head(q)>>) \o Tail(q)
  BY <1>1, <1>3, ConcatAssociative, SMTT(30)
<1>6. InHand(None) = <<>> /\ InHand(Head(q)) = <<Head(q)>>
  BY <1>2 DEF InHand
<1>7. Way(a, b, None, q) = (c \o <<>>) \o q
  BY <1>6 DEF Way, c
<1>8. Way(a, b, Head(q), Tail(q)) = (c \o <<Head(q)>>) \o Tail(q)
  BY <1>6 DEF Way, c
<1> QED BY <1>4, <1>5, <1>7, <1>8

LEMMA WayWritten ==
    ASSUME NEW a \in Seq(Lines), NEW b \in Seq(Lines), NEW x \in Lines, NEW q \in Seq(Lines)
    PROVE  Way(a, b, x, q) = Way(a, b \o <<x>>, None, q)
<1>1. x # None
  BY PageAssumption DEF Lines
<1>2. <<x>> \in Seq(Lines) /\ b \o <<x>> \in Seq(Lines) /\ a \o (b \o <<x>>) \in Seq(Lines)
  OBVIOUS
<1>3. InHand(None) = <<>> /\ InHand(x) = <<x>>
  BY <1>1 DEF InHand
<1>4. (a \o b) \o <<x>> = a \o (b \o <<x>>)
  BY <1>2, ConcatAssociative
<1>5. (a \o (b \o <<x>>)) \o <<>> = a \o (b \o <<x>>)
  BY <1>2, ConcatEmptySeq
<1> QED BY <1>3, <1>4, <1>5 DEF Way

LEMMA WayRead ==
    ASSUME NEW a \in Seq(Lines), NEW b \in Seq(Lines), NEW c \in Seq(Lines), NEW x, NEW q
    PROVE  Way(a, b \o c, x, q) = Way(a \o b, c, x, q)
<1>1. a \o (b \o c) = (a \o b) \o c
  BY Joined, Zenon
<1> QED BY <1>1 DEF Way

LEMMA WayEnds ==
    ASSUME NEW a \in Seq(Lines)
    PROVE  Way(a, <<>>, None, <<>>) = a
<1>1. a \o <<>> = a
  BY ConcatEmptySeq
<1> QED BY <1>1 DEF Way, InHand

-----------------------------------------------------------------------------
(* What an action leaves alone. *)

OneOf(r) == <<phase[r], git[r], lines[r], hand[r], streaming[r], kept[r], wire[r], link[r], client[r],
              answer[r], outcome[r], heard[r]>>

LEMMA Unmoved ==
    ASSUME NEW r \in Requests, OfRequest(r), OneOf(r)' = OneOf(r)
    PROVE  OfRequest(r)'
BY DEF OfRequest, OneOf, InStep, NothingYet, AnswerComesLast, Flow, Answered

-----------------------------------------------------------------------------
(* Every action keeps the invariant. *)

LEMMA Bounds ==
    /\ 0 \in 0..BrowserIdle /\ ProgressBuffer \in Nat \ {0} /\ Wire \in Nat \ {0}
    /\ {MaxLines, DaemonIdle, BrowserIdle, AskTime, WaitDelay, RefsTime} \subseteq Nat
    /\ \A how \in Outcomes : how # None
    /\ {"done", "error", "refused", "silence", "idle", "ended"} = Outcomes
    /\ \A x \in Lines : x # None
<1>1. {MaxLines, DaemonIdle, BrowserIdle, AskTime, WaitDelay, RefsTime} \subseteq Nat /\ {ProgressBuffer, Wire} \subseteq Nat \ {0}
  BY TransferAssumption
<1>2. 0 \in 0..BrowserIdle /\ ProgressBuffer \in Nat \ {0} /\ Wire \in Nat \ {0}
  BY <1>1
<1>3. \A x \in Lines : x # None
  BY PageAssumption DEF Lines
<1>4. {"done", "error", "refused", "silence", "idle", "ended"} = Outcomes
  BY DEF Outcomes, Terminal
<1>5. \A how \in Outcomes : how # None
  BY TransferAssumption
<1> QED BY <1>1, <1>2, <1>3, <1>4, <1>5, Zenon

LEMMA PressKeeps ==
    ASSUME TransferInv, NEW r \in Requests, NEW v \in Verbs, PressButton(r, v)
    PROVE  TransferInv'
<1>1. TransferTypes'
  BY Bounds DEF TransferInv, TransferTypes, PressButton, daemon, browser
<1>2. ASSUME NEW q \in Requests, q # r PROVE OfRequest(q)'
  <2>1. OneOf(q)' = OneOf(q)
    BY <1>2 DEF TransferInv, TransferTypes, OneOf, PressButton, daemon, browser
  <2> QED BY <2>1, Unmoved DEF TransferInv
<1>3. OfRequest(r)'
  <2> USE DEF TransferInv, TransferTypes, OfRequest, PressButton, daemon, browser
  <2>1. InStep(r)'
    BY Bounds DEF InStep
  <2>2. NothingYet(r)'
    BY DEF NothingYet, InStep
  <2>3. AnswerComesLast(r)'
    BY DEF AnswerComesLast, NothingYet, InStep
  <2>4. Flow(r)'
    BY DEF Flow
  <2>5. Answered(r)'
    BY DEF Answered, NothingYet, InStep, Terminal
  <2> QED BY <2>1, <2>2, <2>3, <2>4, <2>5
<1>4. LineIsOfAReader'
  BY DEF TransferInv, TransferTypes, LineIsOfAReader, InStep, OfRequest, PressButton, daemon, browser
<1>5. slept' \/ awake'
  BY DEF TransferInv, PressButton, daemon, browser
<1> QED BY <1>1, <1>2, <1>3, <1>4, <1>5 DEF TransferInv

LEMMA RefusedKeeps ==
    ASSUME TransferInv, NEW r \in Requests, Refuse(r)
    PROVE  TransferInv'
<1>1. TransferTypes'
  BY Bounds DEF TransferInv, TransferTypes, Refuse, daemon, browser
<1>2. ASSUME NEW q \in Requests, q # r PROVE OfRequest(q)'
  <2>1. OneOf(q)' = OneOf(q)
    BY <1>2 DEF TransferInv, TransferTypes, OneOf, Refuse, daemon, browser
  <2> QED BY <2>1, Unmoved DEF TransferInv
<1>3. OfRequest(r)'
  <2> USE DEF TransferInv, TransferTypes, OfRequest, Refuse, daemon, browser
  <2>1. InStep(r)'
    BY Bounds DEF InStep
  <2>2. NothingYet(r)'
    BY DEF NothingYet, InStep
  <2>3. AnswerComesLast(r)'
    BY DEF AnswerComesLast, NothingYet, InStep
  <2>4. Flow(r)'
    BY DEF Flow
  <2>5. Answered(r)'
    BY DEF Answered, NothingYet, InStep, Terminal
  <2> QED BY <2>1, <2>2, <2>3, <2>4, <2>5
<1>4. LineIsOfAReader'
  BY DEF TransferInv, TransferTypes, LineIsOfAReader, InStep, OfRequest, Refuse, daemon, browser
<1>5. slept' \/ awake'
  BY DEF TransferInv, Refuse, daemon, browser
<1> QED BY <1>1, <1>2, <1>3, <1>4, <1>5 DEF TransferInv

LEMMA AcceptedKeeps ==
    ASSUME TransferInv, NEW r \in Requests, Accept(r)
    PROVE  TransferInv'
<1>1. TransferTypes'
  BY Bounds DEF TransferInv, TransferTypes, Accept, daemon, browser
<1>2. ASSUME NEW q \in Requests, q # r PROVE OfRequest(q)'
  <2>1. OneOf(q)' = OneOf(q)
    BY <1>2 DEF TransferInv, TransferTypes, OneOf, Accept, daemon, browser
  <2> QED BY <2>1, Unmoved DEF TransferInv
<1>3. OfRequest(r)'
  <2> USE DEF TransferInv, TransferTypes, OfRequest, Accept, daemon, browser
  <2>1. InStep(r)'
    BY Bounds DEF InStep
  <2>2. NothingYet(r)'
    BY DEF NothingYet, InStep
  <2>3. AnswerComesLast(r)'
    BY DEF AnswerComesLast, NothingYet, InStep
  <2>4. Flow(r)'
    BY DEF Flow
  <2>5. Answered(r)'
    BY DEF Answered, NothingYet, InStep, Terminal
  <2> QED BY <2>1, <2>2, <2>3, <2>4, <2>5
<1>4. LineIsOfAReader'
  BY DEF TransferInv, TransferTypes, LineIsOfAReader, InStep, OfRequest, Accept, daemon, browser
<1>5. slept' \/ awake'
  BY DEF TransferInv, Accept, daemon, browser
<1> QED BY <1>1, <1>2, <1>3, <1>4, <1>5 DEF TransferInv

LEMMA SaysKeeps ==
    ASSUME TransferInv, NEW r \in Requests, Say(r)
    PROVE  TransferInv'
<1>0. r \in Requests /\ said[r] + 1 \in Lines /\ said[r] \in Nat /\ lines[r] \in Seq(Lines) /\ kept[r] \in Seq(Lines)
  BY Bounds, SMTT(30) DEF TransferInv, TransferTypes, Say, Lines
<1>1. TransferTypes'
  <2> USE DEF TransferInv, TransferTypes, Say
  <2>1. said' \in [Requests -> 0..MaxLines]
    BY <1>0 DEF Lines
  <2>2. /\ lines' \in [Requests -> Seq(Lines)] /\ \A q \in Requests : Len(lines'[q]) <= ProgressBuffer
        /\ kept' \in [Requests -> Seq(Lines)]
    <3>1. Append(lines[r], said[r] + 1) \in Seq(Lines) /\ Append(kept[r], said[r] + 1) \in Seq(Lines)
          /\ Len(Append(lines[r], said[r] + 1)) = Len(lines[r]) + 1 /\ Len(lines[r]) \in Nat
      BY <1>0
    <3>2. CASE Len(lines[r]) < ProgressBuffer
      <4>1. lines' = [lines EXCEPT ![r] = Append(lines[r], said[r] + 1)]
            /\ kept' = [kept EXCEPT ![r] = Append(kept[r], said[r] + 1)]
        BY <3>2 DEF Line
      <4>2. Len(Append(lines[r], said[r] + 1)) <= ProgressBuffer
        BY <3>1, <3>2, Bounds
      <4> QED BY <1>0, <3>1, <4>1, <4>2
    <3>3. CASE ~(Len(lines[r]) < ProgressBuffer)
      BY <3>3 DEF Line
    <3> QED BY <3>2, <3>3
  <2> QED BY <2>1, <2>2 DEF daemon, browser
<1>2. ASSUME NEW q \in Requests, q # r PROVE OfRequest(q)'
  <2>1. OneOf(q)' = OneOf(q)
    BY <1>2 DEF TransferInv, TransferTypes, OneOf, Say, Line, daemon, browser
  <2> QED BY <2>1, Unmoved DEF TransferInv
<1>3. OfRequest(r)'
  <2> USE DEF TransferInv, TransferTypes, OfRequest, Say, Line, daemon, browser
  <2>1. InStep(r)'
    BY Bounds DEF InStep
  <2>2. NothingYet(r)'
    BY DEF NothingYet, InStep
  <2>3. AnswerComesLast(r)'
    BY DEF AnswerComesLast, NothingYet, InStep
  <2>4. Flow(r)'
    <3> DEFINE a == heard[r]
               b == LinesOf(wire[r])
               y == said[r] + 1
    <3>1. /\ heard'[r] = a /\ LinesOf(wire[r])' = b /\ hand'[r] = hand[r] /\ link'[r] = link[r]
          /\ hand[r] \in Lines \cup {None}
      BY DEF LinesOf
    <3>2. link[r] = "up" => kept[r] = Way(a, b, hand[r], lines[r])
      BY DEF Flow
    <3>3. a \in Seq(Lines) /\ b \in Seq(Lines)
      BY Tells DEF AnswerComesLast, WellTold
    <3>4. CASE Len(lines[r]) < ProgressBuffer
      <4>1. lines'[r] = Append(lines[r], y) /\ kept'[r] = Append(kept[r], y)
        BY <3>4 DEF Line
      <4> HIDE DEF a, b, y, TransferInv, TransferTypes, OfRequest, Say
      <4>2. y \in Lines /\ lines[r] \in Seq(Lines)
        BY <1>0 DEF y
      <4>3. link[r] = "up" => kept'[r] = Way(a, b, hand[r], lines'[r])
        <5>1. SUFFICES ASSUME link[r] = "up" PROVE kept'[r] = Way(a, b, hand[r], lines'[r])
          OBVIOUS
        <5>2. PICK f, g, k, t, h, q, z : /\ f = a /\ g = b /\ h = hand[r] /\ q = lines[r]
                                         /\ k = kept[r] /\ t = lines'[r] /\ z = y
          OBVIOUS
        <5>3. /\ f \in Seq(Lines) /\ g \in Seq(Lines) /\ q \in Seq(Lines) /\ z \in Lines
              /\ InHand(h) \in Seq(Lines)
          BY <3>1, <3>3, <4>2, <5>2 DEF InHand
        <5>4. k = Way(f, g, h, q)
          BY <3>2, <5>1, <5>2
        <5>5. t = Append(q, z)
          BY <4>1, <5>2
        <5>6. Append(k, z) = Way(f, g, h, t)
          BY <5>3, <5>4, <5>5, WayTaken
        <5> QED BY <4>1, <5>2, <5>6
      <4>4. LinesOf(wire'[r]) = b
        BY <3>1
      <4> QED BY <3>1, <3>2, <4>1, <4>3, <4>4 DEF Flow
    <3>5. CASE ~(Len(lines[r]) < ProgressBuffer)
      <4>1. lines'[r] = lines[r] /\ kept'[r] = kept[r]
        BY <3>5 DEF Line
      <4> QED BY <3>1, <3>2, <4>1 DEF Flow
    <3> QED BY <3>4, <3>5
  <2>5. Answered(r)'
    BY DEF Answered, NothingYet, InStep, Terminal
  <2> QED BY <2>1, <2>2, <2>3, <2>4, <2>5
<1>4. LineIsOfAReader'
  BY DEF TransferInv, TransferTypes, LineIsOfAReader, InStep, OfRequest, Say, Line, daemon, browser
<1>5. slept' \/ awake'
  BY DEF TransferInv, Say, Line, daemon, browser
<1> QED BY <1>1, <1>2, <1>3, <1>4, <1>5 DEF TransferInv

LEMMA GitEndedKeeps ==
    ASSUME TransferInv, NEW r \in Requests, NEW how \in {"ok", "failed"}, GitEnds(r, how)
    PROVE  TransferInv'
<1>1. TransferTypes'
  BY Bounds DEF TransferInv, TransferTypes, GitEnds, daemon, browser
<1>2. ASSUME NEW q \in Requests, q # r PROVE OfRequest(q)'
  <2>1. OneOf(q)' = OneOf(q)
    BY <1>2 DEF TransferInv, TransferTypes, OneOf, GitEnds, daemon, browser
  <2> QED BY <2>1, Unmoved DEF TransferInv
<1>3. OfRequest(r)'
  <2> USE DEF TransferInv, TransferTypes, OfRequest, GitEnds, daemon, browser
  <2>1. InStep(r)'
    BY Bounds DEF InStep
  <2>2. NothingYet(r)'
    BY DEF NothingYet, InStep
  <2>3. AnswerComesLast(r)'
    BY DEF AnswerComesLast, NothingYet, InStep
  <2>4. Flow(r)'
    BY DEF Flow
  <2>5. Answered(r)'
    BY DEF Answered, NothingYet, InStep, Terminal
  <2> QED BY <2>1, <2>2, <2>3, <2>4, <2>5
<1>4. LineIsOfAReader'
  BY DEF TransferInv, TransferTypes, LineIsOfAReader, InStep, OfRequest, GitEnds, daemon, browser
<1>5. slept' \/ awake'
  BY DEF TransferInv, GitEnds, daemon, browser
<1> QED BY <1>1, <1>2, <1>3, <1>4, <1>5 DEF TransferInv

LEMMA LeftKeeps ==
    ASSUME TransferInv, NEW r \in Requests, PipesClose(r)
    PROVE  TransferInv'
<1>1. TransferTypes'
  BY Bounds DEF TransferInv, TransferTypes, PipesClose, daemon, browser
<1>2. ASSUME NEW q \in Requests, q # r PROVE OfRequest(q)'
  <2>1. OneOf(q)' = OneOf(q)
    BY <1>2 DEF TransferInv, TransferTypes, OneOf, PipesClose, daemon, browser
  <2> QED BY <2>1, Unmoved DEF TransferInv
<1>3. OfRequest(r)'
  <2> USE DEF TransferInv, TransferTypes, OfRequest, PipesClose, daemon, browser
  <2>1. InStep(r)'
    BY Bounds DEF InStep
  <2>2. NothingYet(r)'
    BY DEF NothingYet, InStep
  <2>3. AnswerComesLast(r)'
    BY DEF AnswerComesLast, NothingYet, InStep
  <2>4. Flow(r)'
    BY DEF Flow
  <2>5. Answered(r)'
    BY DEF Answered, NothingYet, InStep, Terminal
  <2> QED BY <2>1, <2>2, <2>3, <2>4, <2>5
<1>4. LineIsOfAReader'
  BY DEF TransferInv, TransferTypes, LineIsOfAReader, InStep, OfRequest, PipesClose, daemon, browser
<1>5. slept' \/ awake'
  BY DEF TransferInv, PipesClose, daemon, browser
<1> QED BY <1>1, <1>2, <1>3, <1>4, <1>5 DEF TransferInv

LEMMA TakenKeeps ==
    ASSUME TransferInv, NEW r \in Requests, Take(r)
    PROVE  TransferInv'
<1>0. /\ lines[r] \in Seq(Lines) /\ lines[r] # <<>>
      /\ Head(lines[r]) \in Lines /\ Tail(lines[r]) \in Seq(Lines) /\ Len(Tail(lines[r])) <= Len(lines[r])
  BY DEF TransferInv, TransferTypes, Take
<1>1. TransferTypes'
  <2> USE DEF TransferInv, TransferTypes, Take
  <2>1. hand' \in [Requests -> Lines \cup {None}]
    BY <1>0
  <2>2. lines' \in [Requests -> Seq(Lines)] /\ \A q \in Requests : Len(lines'[q]) <= ProgressBuffer
    <3>1. Len(Tail(lines[r])) <= ProgressBuffer
      <4>1. Len(Tail(lines[r])) \in Nat /\ Len(lines[r]) \in Nat
        BY <1>0
      <4> QED BY <1>0, <4>1, Bounds
    <3> QED BY <1>0, <3>1
  <2> QED BY <2>1, <2>2 DEF browser
<1>2. ASSUME NEW q \in Requests, q # r PROVE OfRequest(q)'
  <2>1. OneOf(q)' = OneOf(q)
    BY <1>2 DEF TransferInv, TransferTypes, OneOf, Take, daemon, browser
  <2> QED BY <2>1, Unmoved DEF TransferInv
<1>3. OfRequest(r)'
  <2> USE DEF TransferInv, TransferTypes, OfRequest, Take, daemon, browser
  <2>1. InStep(r)'
    BY Bounds DEF InStep
  <2>2. NothingYet(r)'
    BY DEF NothingYet, InStep
  <2>3. AnswerComesLast(r)'
    BY DEF AnswerComesLast, NothingYet, InStep
  <2>4. Flow(r)'
    <3> DEFINE a == heard[r]
               b == LinesOf(wire[r])
    <3>1. /\ heard'[r] = a /\ LinesOf(wire[r])' = b /\ link'[r] = link[r] /\ kept'[r] = kept[r]
          /\ hand[r] = None /\ hand'[r] = Head(lines[r]) /\ lines'[r] = Tail(lines[r])
      BY DEF LinesOf
    <3>2. link[r] = "up" => kept[r] = Way(a, b, hand[r], lines[r])
      BY DEF Flow
    <3>3. a \in Seq(Lines) /\ b \in Seq(Lines)
      BY Tells DEF AnswerComesLast, WellTold
    <3> HIDE DEF a, b, TransferInv, TransferTypes, OfRequest, Take
    <3>4. Way(a, b, None, lines[r]) = Way(a, b, Head(lines[r]), Tail(lines[r]))
      BY <1>0, <3>3, WayInHand
    <3>5. LinesOf(wire'[r]) = b
      BY <3>1
    <3> QED BY <3>1, <3>2, <3>4, <3>5 DEF Flow
  <2>5. Answered(r)'
    BY DEF Answered, NothingYet, InStep, Terminal
  <2> QED BY <2>1, <2>2, <2>3, <2>4, <2>5
<1>4. LineIsOfAReader'
  BY DEF TransferInv, TransferTypes, LineIsOfAReader, InStep, OfRequest, Take, daemon, browser
<1>5. slept' \/ awake'
  BY DEF TransferInv, Take, daemon, browser
<1> QED BY <1>1, <1>2, <1>3, <1>4, <1>5 DEF TransferInv

LEMMA DeliveredKeeps ==
    ASSUME TransferInv, NEW r \in Requests, Deliver(r)
    PROVE  TransferInv'
<1> DEFINE e == Event("progress", hand[r])
<1>1. /\ hand[r] \in Lines /\ wire[r] \in Seq(Events) /\ hand' = [hand EXCEPT ![r] = None]
      /\ link' = link /\ wire \in [Requests -> Seq(Events)]
      /\ link[r] = "up" => Len(wire[r]) < Wire
  BY DEF TransferInv, TransferTypes, Deliver, Emit, Room
<1>2. e = [type |-> "progress", line |-> hand[r]]
  BY DEF Event
<1>3. WellTold(wire[r]) /\ Told(wire[r]) = Len(wire[r])
  <2>1. phase[r] # "ended"
    BY <1>1, Bounds DEF TransferInv, OfRequest, NothingYet
  <2>2. \A i \in 1..Len(wire[r]) : wire[r][i].type \notin Terminal
    BY <2>1 DEF TransferInv, OfRequest, AnswerComesLast
  <2>3. wire[r] # <<>> => Len(wire[r]) \in 1..Len(wire[r])
    BY <1>1
  <2> QED BY <2>2, <2>3 DEF WellTold, Told
<1>4. PICK v : v = Append(wire[r], e)
  OBVIOUS
<1>5. /\ v \in Seq(Events) /\ WellTold(v) /\ LinesOf(v) = LinesOf(wire[r]) \o <<hand[r]>>
      /\ Len(v) = Len(wire[r]) + 1 /\ Len(wire[r]) \in Nat
      /\ \A i \in 1..Len(v) : v[i].type \notin Terminal
  <2>1. v \in Seq(Events) /\ WellTold(v) /\ LinesOf(v) = LinesOf(wire[r]) \o <<hand[r]>>
    BY <1>1, <1>2, <1>3, <1>4, LineWritten
  <2>2. e \in Events
    BY <1>1, <1>2 DEF Events
  <2> HIDE DEF e
  <2>3. Len(v) = Len(wire[r]) + 1 /\ Len(wire[r]) \in Nat /\ v[Len(v)] = e
    BY <1>1, <1>4, <2>2
  <2>4. e.type \notin Terminal
    BY <1>2 DEF Terminal
  <2>5. \A i \in 1..Len(v) : v[i].type \in Terminal => i = Len(v)
    BY <2>1 DEF WellTold
  <2> QED BY <2>1, <2>3, <2>4, <2>5
<1>6. wire' = IF link[r] = "up" /\ streaming[r] THEN [wire EXCEPT ![r] = v] ELSE wire
  BY <1>4 DEF Deliver, Emit
<1>7. streaming' = [streaming EXCEPT ![r] = @ /\ link[r] # "closed"]
  BY DEF Deliver, Emit
<1>8. UNCHANGED <<phase, git, said, quiet, lines, kept, link, browser>>
  BY DEF Deliver
<1>9. Len(v) <= Wire \/ link[r] # "up"
  <2>1. Wire \in Nat
    BY Bounds
  <2>2. Len(v) = Len(wire[r]) + 1 /\ Len(wire[r]) \in Nat
    BY <1>5
  <2>3. link[r] = "up" => Len(wire[r]) < Wire
    BY <1>1
  <2> QED BY <2>1, <2>2, <2>3
<1> HIDE DEF e
<1>10. TransferTypes'
  BY <1>1, <1>5, <1>6, <1>7, <1>8, <1>9 DEF TransferInv, TransferTypes, browser
<1>11. ASSUME NEW q \in Requests, q # r PROVE OfRequest(q)'
  <2>1. OneOf(q)' = OneOf(q)
    BY <1>11, <1>1, <1>6, <1>7, <1>8 DEF TransferInv, TransferTypes, OneOf, browser
  <2> QED BY <2>1, Unmoved DEF TransferInv
<1>12. OfRequest(r)'
  <2>0. /\ phase'[r] = phase[r] /\ git'[r] = git[r] /\ lines'[r] = lines[r] /\ hand'[r] = None
        /\ kept'[r] = kept[r] /\ link'[r] = link[r] /\ client'[r] = client[r] /\ answer'[r] = answer[r]
        /\ outcome'[r] = outcome[r] /\ heard'[r] = heard[r]
        /\ streaming'[r] = (streaming[r] /\ link[r] # "closed")
        /\ wire'[r] = IF link[r] = "up" /\ streaming[r] THEN v ELSE wire[r]
        /\ OfRequest(r) /\ hand[r] # None /\ lines[r] \in Seq(Lines) /\ heard[r] \in Seq(Lines)
    BY <1>1, <1>6, <1>7, <1>8, Bounds DEF TransferInv, TransferTypes, browser
  <2> USE DEF OfRequest
  <2>1. InStep(r)'
    BY <2>0 DEF InStep
  <2>2. NothingYet(r)'
    BY <2>0 DEF NothingYet
  <2>3. AnswerComesLast(r)'
    BY <2>0, <1>5 DEF AnswerComesLast
  <2>4. Flow(r)'
    <3>1. SUFFICES ASSUME link[r] = "up" PROVE kept[r] = Way(heard[r], LinesOf(v), None, lines[r])
      BY <2>0 DEF Flow, InStep
    <3>2. kept[r] = Way(heard[r], LinesOf(wire[r]), hand[r], lines[r])
      BY <2>0, <3>1 DEF Flow
    <3>3. LinesOf(wire[r]) \in Seq(Lines)
      BY <1>1, <1>3, Tells
    <3> QED BY <1>1, <1>5, <2>0, <3>2, <3>3, WayWritten
  <2>5. Answered(r)'
    BY <2>0 DEF Answered, NothingYet
  <2> QED BY <2>1, <2>2, <2>3, <2>4, <2>5
<1>13. LineIsOfAReader'
  BY <1>8 DEF TransferInv, LineIsOfAReader, browser
<1>14. slept' \/ awake'
  BY <1>8 DEF TransferInv, browser
<1> QED BY <1>10, <1>11, <1>12, <1>13, <1>14 DEF TransferInv

LEMMA RespondedKeeps ==
    ASSUME TransferInv, NEW r \in Requests, Responds(r)
    PROVE  TransferInv'
<1>1. TransferTypes'
  <2> USE DEF TransferInv, TransferTypes, Responds
  <2>1. CASE Settle(r, "refused")
    BY <2>1, Bounds DEF Settle, daemon
  <2>2. CASE ~Settle(r, "refused")
    BY <2>2 DEF daemon
  <2> QED BY <2>1, <2>2
<1>2. ASSUME NEW q \in Requests, q # r PROVE OfRequest(q)'
  <2>1. OneOf(q)' = OneOf(q)
    BY <1>2, SMTT(30) DEF TransferInv, TransferTypes, OneOf, Responds, Settle, daemon, browser
  <2> QED BY <2>1, Unmoved DEF TransferInv
<1>3. OfRequest(r)'
  <2> USE DEF TransferInv, TransferTypes, OfRequest, Responds, Settle, daemon, browser
  <2>1. InStep(r)'
    BY Bounds DEF InStep
  <2>2. NothingYet(r)'
    BY DEF NothingYet, InStep
  <2>3. AnswerComesLast(r)'
    BY DEF AnswerComesLast, NothingYet, InStep
  <2>4. Flow(r)'
    BY DEF Flow
  <2>5. Answered(r)'
    BY DEF Answered, NothingYet, InStep, Terminal
  <2> QED BY <2>1, <2>2, <2>3, <2>4, <2>5
<1>4. LineIsOfAReader'
  BY DEF TransferInv, TransferTypes, LineIsOfAReader, InStep, OfRequest, Responds, Settle, daemon, browser
<1>5. slept' \/ awake'
  BY DEF TransferInv, Responds, Settle, daemon, browser
<1> QED BY <1>1, <1>2, <1>3, <1>4, <1>5 DEF TransferInv

LEMMA EndedKeeps ==
    ASSUME TransferInv, NEW r \in Requests, Ends(r)
    PROVE  TransferInv'
<1>1. TransferTypes'
  BY Bounds DEF TransferInv, TransferTypes, Ends, Settle, daemon, browser
<1>2. ASSUME NEW q \in Requests, q # r PROVE OfRequest(q)'
  <2>1. OneOf(q)' = OneOf(q)
    BY <1>2 DEF TransferInv, TransferTypes, OneOf, Ends, Settle, daemon, browser
  <2> QED BY <2>1, Unmoved DEF TransferInv
<1>3. OfRequest(r)'
  <2> USE DEF TransferInv, TransferTypes, OfRequest, Ends, Settle, daemon, browser
  <2>1. InStep(r)'
    BY Bounds DEF InStep
  <2>2. NothingYet(r)'
    BY DEF NothingYet, InStep
  <2>3. AnswerComesLast(r)'
    BY DEF AnswerComesLast, NothingYet, InStep
  <2>4. Flow(r)'
    BY DEF Flow
  <2>5. Answered(r)'
    BY DEF Answered, NothingYet, InStep, Terminal
  <2> QED BY <2>1, <2>2, <2>3, <2>4, <2>5
<1>4. LineIsOfAReader'
  BY DEF TransferInv, TransferTypes, LineIsOfAReader, InStep, OfRequest, Ends, Settle, daemon, browser
<1>5. slept' \/ awake'
  BY DEF TransferInv, Ends, Settle, daemon, browser
<1> QED BY <1>1, <1>2, <1>3, <1>4, <1>5 DEF TransferInv

LEMMA GaveUpKeeps ==
    ASSUME TransferInv, NEW r \in Requests, GiveUp(r)
    PROVE  TransferInv'
<1>1. TransferTypes'
  BY Bounds DEF TransferInv, TransferTypes, GiveUp, Settle, daemon, browser
<1>2. ASSUME NEW q \in Requests, q # r PROVE OfRequest(q)'
  <2>1. OneOf(q)' = OneOf(q)
    BY <1>2 DEF TransferInv, TransferTypes, OneOf, GiveUp, Settle, daemon, browser
  <2> QED BY <2>1, Unmoved DEF TransferInv
<1>3. OfRequest(r)'
  <2> USE DEF TransferInv, TransferTypes, OfRequest, GiveUp, Settle, daemon, browser
  <2>1. InStep(r)'
    BY Bounds DEF InStep
  <2>2. NothingYet(r)'
    BY DEF NothingYet, InStep
  <2>3. AnswerComesLast(r)'
    BY DEF AnswerComesLast, NothingYet, InStep
  <2>4. Flow(r)'
    BY DEF Flow
  <2>5. Answered(r)'
    BY DEF Answered, NothingYet, InStep, Terminal
  <2> QED BY <2>1, <2>2, <2>3, <2>4, <2>5
<1>4. LineIsOfAReader'
  BY DEF TransferInv, TransferTypes, LineIsOfAReader, InStep, OfRequest, GiveUp, Settle, daemon, browser
<1>5. slept' \/ awake'
  BY DEF TransferInv, GiveUp, Settle, daemon, browser
<1> QED BY <1>1, <1>2, <1>3, <1>4, <1>5 DEF TransferInv

LEMMA CutOffKeeps ==
    ASSUME TransferInv, NEW r \in Requests, Cut(r)
    PROVE  TransferInv'
<1>1. TransferTypes'
  <2>1. link' \in [Requests -> {"up", "cut", "closed"}]
    BY DEF TransferInv, TransferTypes, Cut
  <2>2. wire' \in [Requests -> Seq(Events)] /\ \A q \in Requests : Len(wire'[q]) <= Wire
    <3>1. wire \in [Requests -> Seq(Events)] /\ \A q \in Requests : Len(wire[q]) <= Wire
      BY DEF TransferInv, TransferTypes
    <3>2. wire' = [wire EXCEPT ![r] = <<>>]
      BY DEF Cut
    <3>3. <<>> \in Seq(Events) /\ Len(<<>>) <= Wire
      BY Bounds
    <3> QED BY <3>1, <3>2, <3>3
  <2>3. UNCHANGED <<daemon, browser>>
    BY DEF Cut
  <2> QED BY <2>1, <2>2, <2>3 DEF TransferInv, TransferTypes, daemon, browser
<1>2. ASSUME NEW q \in Requests, q # r PROVE OfRequest(q)'
  <2>1. OneOf(q)' = OneOf(q)
    BY <1>2 DEF TransferInv, TransferTypes, OneOf, Cut, daemon, browser
  <2> QED BY <2>1, Unmoved DEF TransferInv
<1>3. OfRequest(r)'
  <2> USE DEF TransferInv, TransferTypes, OfRequest, Cut, daemon, browser
  <2>1. InStep(r)'
    BY Bounds DEF InStep
  <2>2. NothingYet(r)'
    BY DEF NothingYet, InStep
  <2>3. AnswerComesLast(r)'
    BY DEF AnswerComesLast, NothingYet, InStep
  <2>4. Flow(r)'
    BY DEF Flow
  <2>5. Answered(r)'
    BY DEF Answered, NothingYet, InStep, Terminal
  <2> QED BY <2>1, <2>2, <2>3, <2>4, <2>5
<1>4. LineIsOfAReader'
  BY DEF TransferInv, TransferTypes, LineIsOfAReader, InStep, OfRequest, Cut, daemon, browser
<1>5. slept' \/ awake'
  BY DEF TransferInv, Cut, daemon, browser
<1> QED BY <1>1, <1>2, <1>3, <1>4, <1>5 DEF TransferInv

LEMMA ReportKeeps ==
    ASSUME TransferInv, NEW r \in Requests, NEW type \in Terminal, Report(r, type),
           phase[r] \in {"stopping", "refs"}, Drained(r), type = "done" => git[r] = "ok"
    PROVE  TransferInv'
<1> DEFINE e == Event(type, None)
<1>1. /\ wire[r] \in Seq(Events) /\ phase' = [phase EXCEPT ![r] = "ended"]
      /\ link' = link /\ wire \in [Requests -> Seq(Events)]
      /\ link[r] = "up" => Len(wire[r]) < Wire
  BY DEF TransferInv, TransferTypes, Report, Emit, Room
<1>2. e = [type |-> type, line |-> None]
  BY DEF Event
<1>3. WellTold(wire[r]) /\ Told(wire[r]) = Len(wire[r])
  <2>1. phase[r] # "ended"
    OBVIOUS
  <2>2. \A i \in 1..Len(wire[r]) : wire[r][i].type \notin Terminal
    BY <2>1 DEF TransferInv, OfRequest, AnswerComesLast
  <2>3. wire[r] # <<>> => Len(wire[r]) \in 1..Len(wire[r])
    BY <1>1
  <2> QED BY <2>2, <2>3 DEF WellTold, Told
<1>4. PICK v : v = Append(wire[r], e)
  OBVIOUS
<1>5. /\ v \in Seq(Events) /\ WellTold(v) /\ LinesOf(v) = LinesOf(wire[r])
      /\ Len(v) = Len(wire[r]) + 1 /\ Len(wire[r]) \in Nat /\ v[Len(v)].type = type /\ v # <<>>
  <2>1. v \in Seq(Events) /\ WellTold(v) /\ LinesOf(v) = LinesOf(wire[r])
    BY <1>1, <1>2, <1>3, <1>4, AnswerWritten
  <2>2. e \in Events
    BY <1>1, <1>2 DEF Events
  <2> HIDE DEF e
  <2>3. Len(v) = Len(wire[r]) + 1 /\ Len(wire[r]) \in Nat /\ v[Len(v)] = e /\ v # <<>>
    BY <1>1, <1>4, <2>2
  <2>4. e.type = type
    BY <1>2
  <2> QED BY <2>1, <2>3, <2>4
<1>6. wire' = IF link[r] = "up" /\ streaming[r] THEN [wire EXCEPT ![r] = v] ELSE wire
  BY <1>4 DEF Report, Emit
<1>7. streaming' = [streaming EXCEPT ![r] = @ /\ link[r] # "closed"]
  BY DEF Report, Emit
<1>8. UNCHANGED <<git, said, quiet, lines, hand, kept, link, browser>>
  BY DEF Report
<1>9. Len(v) <= Wire \/ link[r] # "up"
  <2>1. Wire \in Nat
    BY Bounds
  <2>2. Len(v) = Len(wire[r]) + 1 /\ Len(wire[r]) \in Nat
    BY <1>5
  <2>3. link[r] = "up" => Len(wire[r]) < Wire
    BY <1>1
  <2> QED BY <2>1, <2>2, <2>3
<1> HIDE DEF e
<1>10. TransferTypes'
  BY <1>1, <1>5, <1>6, <1>7, <1>8, <1>9 DEF TransferInv, TransferTypes, browser
<1>11. ASSUME NEW q \in Requests, q # r PROVE OfRequest(q)'
  <2>1. OneOf(q)' = OneOf(q)
    BY <1>11, <1>1, <1>6, <1>7, <1>8 DEF TransferInv, TransferTypes, OneOf, browser
  <2> QED BY <2>1, Unmoved DEF TransferInv
<1>12. OfRequest(r)'
  <2>0. /\ phase'[r] = "ended" /\ git'[r] = git[r] /\ lines'[r] = <<>> /\ hand'[r] = None
        /\ kept'[r] = kept[r] /\ link'[r] = link[r] /\ client'[r] = client[r] /\ answer'[r] = answer[r]
        /\ outcome'[r] = outcome[r] /\ heard'[r] = heard[r]
        /\ streaming'[r] = (streaming[r] /\ link[r] # "closed")
        /\ wire'[r] = IF link[r] = "up" /\ streaming[r] THEN v ELSE wire[r]
        /\ OfRequest(r) /\ lines[r] = <<>> /\ hand[r] = None
    BY <1>1, <1>6, <1>7, <1>8, Bounds DEF TransferInv, TransferTypes, browser, Drained
  <2>9. git[r] \in {"none", "running", "ok", "failed"}
    BY DEF TransferInv, TransferTypes
  <2>10. git[r] # "none" /\ git[r] # "running"
    BY <2>0, Bounds DEF OfRequest, InStep, Answered
  <2> USE DEF OfRequest
  <2>1. InStep(r)'
    BY <2>0, <2>10 DEF InStep
  <2>2. NothingYet(r)'
    BY <2>0, <2>10 DEF NothingYet
  <2>3. AnswerComesLast(r)'
    BY <2>0, <1>5 DEF AnswerComesLast, WellTold
  <2>4. Flow(r)'
    BY <2>0, <1>5 DEF Flow, InStep
  <2>5. Answered(r)'
    BY <2>0, <1>5 DEF Answered, InStep
  <2> QED BY <2>1, <2>2, <2>3, <2>4, <2>5
<1>13. LineIsOfAReader'
  BY <1>8 DEF TransferInv, LineIsOfAReader, browser
<1>14. slept' \/ awake'
  BY <1>8 DEF TransferInv, browser
<1> QED BY <1>10, <1>11, <1>12, <1>13, <1>14 DEF TransferInv

LEMMA StoppedKeeps ==
    ASSUME TransferInv, NEW r \in Requests, Stopped(r)
    PROVE  TransferInv'
<1>1. CASE git[r] = "failed" /\ Report(r, "error")
  <2>1. phase[r] \in {"stopping", "refs"} /\ Drained(r) /\ "error" \in Terminal
    BY DEF Stopped, Terminal
  <2> QED BY <1>1, <2>1, ReportKeeps
<1>2. CASE /\ git[r] = "ok"
           /\ phase' = [phase EXCEPT ![r] = "refs"]
           /\ quiet' = [quiet EXCEPT ![r] = 0]
           /\ UNCHANGED <<git, said, lines, hand, streaming, kept, wire, link, browser>>
  <2>1. TransferTypes'
    BY <1>2 DEF TransferInv, TransferTypes, browser
  <2>2. ASSUME NEW q \in Requests, q # r PROVE OfRequest(q)'
    <3>1. OneOf(q)' = OneOf(q)
      BY <1>2, <2>2 DEF TransferInv, TransferTypes, OneOf, browser
    <3> QED BY <3>1, Unmoved DEF TransferInv
  <2>3. OfRequest(r)'
    <3>1. /\ phase[r] = "stopping" /\ phase'[r] = "refs" /\ git[r] = "ok" /\ lines[r] = <<>> /\ hand[r] = None
          /\ UNCHANGED <<git, lines, hand, streaming, kept, wire, link, client, answer, outcome, heard>>
      BY <1>2 DEF TransferInv, TransferTypes, Stopped, Drained, browser
    <3> USE DEF TransferInv, OfRequest
    <3>2. InStep(r)'
      BY <3>1 DEF InStep
    <3>3. NothingYet(r)'
      BY <3>1 DEF NothingYet
    <3>4. AnswerComesLast(r)'
      BY <3>1 DEF AnswerComesLast
    <3>5. Flow(r)'
      BY <3>1 DEF Flow
    <3>6. Answered(r)'
      BY <3>1 DEF Answered
    <3> QED BY <3>2, <3>3, <3>4, <3>5, <3>6
  <2>4. LineIsOfAReader' /\ (slept' \/ awake')
    BY <1>2 DEF TransferInv, LineIsOfAReader, browser
  <2> QED BY <2>1, <2>2, <2>3, <2>4 DEF TransferInv
<1> QED BY <1>1, <1>2 DEF Stopped

LEMMA FinishKeeps ==
    ASSUME TransferInv, NEW r \in Requests, Finish(r)
    PROVE  TransferInv'
<1>1. PICK type \in Terminal : Report(r, type)
  BY DEF Finish
<1>2. phase[r] = "refs" /\ git[r] = "ok" /\ Drained(r)
  BY DEF Finish, Drained, TransferInv, OfRequest, InStep, NothingYet
<1> QED BY <1>1, <1>2, ReportKeeps

LEMMA ReadKeeps ==
    ASSUME TransferInv, NEW r \in Requests, NEW n \in 0..Len(wire[r]), NEW half \in BOOLEAN, Read(r, n, half)
    PROVE  TransferInv'
<1>1. /\ wire \in [Requests -> Seq(Events)] /\ wire[r] \in Seq(Events) /\ WellTold(wire[r])
      /\ Len(wire[r]) <= Wire /\ Wire \in Nat
  BY Bounds DEF TransferInv, TransferTypes, OfRequest, AnswerComesLast, WellTold
<1>2. PICK w : w = wire[r]
  OBVIOUS
<1>3. PICK chunk, rest : chunk = SubSeq(w, 1, n) /\ rest = SubSeq(w, n + 1, Len(w))
  OBVIOUS
<1>4. /\ chunk \in Seq(Events) /\ WellTold(chunk) /\ Len(chunk) = n
      /\ rest \in Seq(Events) /\ WellTold(rest) /\ Len(rest) = Len(w) - n
      /\ LinesOf(w) = LinesOf(chunk) \o LinesOf(rest)
      /\ \A type \in Terminal : Has(chunk, type) => rest = <<>> /\ w # <<>> /\ w[Len(w)].type = type
      /\ rest # <<>> => rest[Len(rest)] = w[Len(w)] /\ w # <<>>
      /\ rest = <<>> => n = Len(w)
      /\ rest = <<>> /\ w # <<>> => Has(chunk, w[Len(w)].type)
  BY <1>1, <1>2, <1>3, ChunkRead
<1>5. PICK said_ : said_ = LinesOf(chunk)
  OBVIOUS
<1>6. Shown(chunk) = said_ /\ said_ \in Seq(Lines) /\ LinesOf(rest) \in Seq(Lines)
  BY <1>4, <1>5, ShownIsLines, Tells
<1>7. Whole(r, n) = chunk
  BY <1>2, <1>3 DEF Whole
<1>8. /\ client[r] = "reading" /\ link[r] = "up"
      /\ wire' = [wire EXCEPT ![r] = rest]
      /\ torn' = [torn EXCEPT ![r] = half]
      /\ UNCHANGED <<daemon, link, verb, awake, slept>>
      /\ heard' = [heard EXCEPT ![r] = heard[r] \o said_]
      /\ answer' = [answer EXCEPT ![r] = answer[r] \/ Has(chunk, "done")]
  <2>1. /\ client[r] = "reading" /\ link[r] = "up" /\ HandleLines(r, chunk)
        /\ wire' = [wire EXCEPT ![r] = SubSeq(wire[r], n + 1, Len(wire[r]))]
        /\ torn' = [torn EXCEPT ![r] = half]
        /\ UNCHANGED <<daemon, link, verb, awake, slept>>
    BY <1>7 DEF Read
  <2>2. /\ heard' = [heard EXCEPT ![r] = heard[r] \o said_]
        /\ answer' = [answer EXCEPT ![r] = answer[r] \/ Has(chunk, "done")]
    BY <2>1, <1>6 DEF HandleLines
  <2> QED BY <2>1, <2>2, <1>2, <1>3
<1>9. \/ /\ Has(chunk, "error")
         /\ outcome' = [outcome EXCEPT ![r] = "error"] /\ client' = [client EXCEPT ![r] = "settled"]
         /\ progress' = None /\ waited' = [waited EXCEPT ![r] = 0]
      \/ /\ ~Has(chunk, "error")
         /\ waited' = [waited EXCEPT ![r] = 0] /\ UNCHANGED <<client, outcome>>
  BY <1>7 DEF Read, HandleLines, Settle
<1>10. n > 0 \/ w # <<>>
  <2>1. n > 0 \/ n < Len(w)
    BY <1>2 DEF Read
  <2> QED BY <2>1, <1>1, <1>2
<1>11. TransferTypes'
  <2>1. Len(rest) <= Wire /\ Len(w) \in Nat /\ Len(rest) \in Nat
    <3>1. Len(rest) = Len(w) - n /\ Len(w) \in Nat /\ Len(rest) \in Nat /\ Len(w) <= Wire
      BY <1>1, <1>2, <1>4
    <3> QED BY <3>1, <1>1, <1>2
  <2>2. heard[r] \o said_ \in Seq(Lines)
    BY <1>6 DEF TransferInv, TransferTypes
  <2>3. wire' \in [Requests -> Seq(Events)] /\ \A q \in Requests : Len(wire'[q]) <= Wire
    BY <1>1, <1>4, <1>8, <2>1 DEF TransferInv, TransferTypes
  <2>4. heard' \in [Requests -> Seq(Lines)] /\ answer' \in [Requests -> BOOLEAN]
    BY <1>8, <2>2 DEF TransferInv, TransferTypes, Has
  <2>5. /\ outcome' \in [Requests -> Outcomes \cup {None}] /\ waited' \in [Requests -> 0..BrowserIdle]
        /\ client' \in [Requests -> {"idle", "fetching", "reading", "settled"}]
    <3>1. "error" \in Outcomes /\ 0 \in 0..BrowserIdle
      BY Bounds
    <3>2. waited' = [waited EXCEPT ![r] = 0]
      BY <1>9
    <3>3. waited' \in [Requests -> 0..BrowserIdle]
      BY <3>1, <3>2 DEF TransferInv, TransferTypes
    <3>4. outcome' \in [Requests -> Outcomes \cup {None}]
      <4>1. outcome' = outcome \/ outcome' = [outcome EXCEPT ![r] = "error"]
        BY <1>9
      <4>2. outcome \in [Requests -> Outcomes \cup {None}]
        BY DEF TransferInv, TransferTypes
      <4> QED BY <3>1, <4>1, <4>2
    <3>5. client' \in [Requests -> {"idle", "fetching", "reading", "settled"}]
      BY <1>9 DEF TransferInv, TransferTypes
    <3> QED BY <3>3, <3>4, <3>5
  <2>6. /\ torn' \in [Requests -> BOOLEAN]
        /\ UNCHANGED <<daemon, link, verb, awake, slept>>
    BY <1>8 DEF TransferInv, TransferTypes
  <2> QED BY <2>3, <2>4, <2>5, <2>6 DEF TransferInv, TransferTypes, daemon
<1>12. ASSUME NEW q \in Requests, q # r PROVE OfRequest(q)'
  <2>1. wire'[q] = wire[q] /\ heard'[q] = heard[q] /\ answer'[q] = answer[q]
    BY <1>8, <1>12 DEF TransferInv, TransferTypes
  <2>2. client'[q] = client[q] /\ outcome'[q] = outcome[q]
    BY <1>9, <1>12, SMTT(30) DEF TransferInv, TransferTypes
  <2>3. UNCHANGED <<phase, git, lines, hand, streaming, kept, link>>
    BY <1>8 DEF daemon
  <2>4. OneOf(q)' = OneOf(q)
    BY <2>1, <2>2, <2>3 DEF OneOf
  <2> QED BY <2>4, Unmoved DEF TransferInv
<1>13. OfRequest(r)'
  <2>1. /\ phase'[r] = phase[r] /\ git'[r] = git[r] /\ lines'[r] = lines[r] /\ hand'[r] = hand[r]
        /\ kept'[r] = kept[r] /\ link'[r] = link[r] /\ streaming'[r] = streaming[r]
        /\ wire'[r] = rest /\ heard'[r] = heard[r] \o said_
        /\ answer'[r] = (answer[r] \/ Has(chunk, "done"))
        /\ OfRequest(r) /\ lines[r] \in Seq(Lines) /\ heard[r] \in Seq(Lines) /\ hand[r] \in Lines \cup {None}
        /\ client[r] = "reading" /\ link[r] = "up" /\ wire[r] = w
    BY <1>2, <1>8 DEF TransferInv, TransferTypes, daemon
  <2>2. \/ Has(chunk, "error") /\ outcome'[r] = "error" /\ client'[r] = "settled"
        \/ ~Has(chunk, "error") /\ outcome'[r] = outcome[r] /\ client'[r] = client[r]
    BY <1>9 DEF TransferInv, TransferTypes
  <2>3. /\ outcome[r] = None /\ git[r] # "none" /\ phase[r] # "none" /\ ~answer[r] /\ "error" # None
        /\ outcome[r] \notin Terminal
    <3>1. outcome[r] = None /\ git[r] # "none" /\ phase[r] # "none"
      BY <2>1 DEF OfRequest, InStep
    <3>2. w # <<>>
      <4>1. n > 0 => w # <<>>
        BY <1>1, <1>2
      <4> QED BY <4>1, <1>10
    <3>3. ~answer[r]
      BY <2>1, <3>2 DEF OfRequest, Answered
    <3> QED BY <3>1, <3>3, Bounds DEF Terminal
  <2>4. Has(chunk, "done") \/ Has(chunk, "error") => phase[r] = "ended" /\ rest = <<>>
    <3>1. ASSUME NEW type \in Terminal, Has(chunk, type)
          PROVE  phase[r] = "ended" /\ rest = <<>> /\ (type = "done" => git[r] = "ok")
      <4>1. rest = <<>> /\ w # <<>> /\ w[Len(w)].type = type
        BY <1>4, <3>1
      <4>2. Len(w) \in 1..Len(w)
        BY <1>1, <1>2, <4>1
      <4> QED BY <2>1, <4>1, <4>2 DEF OfRequest, AnswerComesLast
    <3> QED BY <3>1 DEF Terminal
  <2>5. Has(chunk, "done") => git[r] = "ok"
    <3>1. ASSUME Has(chunk, "done") PROVE git[r] = "ok"
      <4>1. w # <<>> /\ w[Len(w)].type = "done" /\ "done" \in Terminal
        BY <1>4, <3>1 DEF Terminal
      <4>2. Len(w) \in 1..Len(w)
        BY <1>1, <1>2, <4>1
      <4> QED BY <2>1, <4>1, <4>2 DEF OfRequest, AnswerComesLast
    <3> QED BY <3>1
  <2>6. kept[r] = Way(heard[r] \o said_, LinesOf(rest), hand[r], lines[r])
    <3>1. kept[r] = Way(heard[r], LinesOf(w), hand[r], lines[r])
      BY <2>1 DEF OfRequest, Flow
    <3>2. LinesOf(w) = said_ \o LinesOf(rest)
      BY <1>4, <1>5
    <3> QED BY <1>6, <2>1, <3>1, <3>2, WayRead
  <2>7. phase[r] = "ended" /\ rest = <<>> => heard[r] \o said_ = kept[r]
    <3>1. SUFFICES ASSUME phase[r] = "ended", rest = <<>> PROVE heard[r] \o said_ = kept[r]
      OBVIOUS
    <3>2. lines[r] = <<>> /\ hand[r] = None
      BY <2>1, <3>1 DEF OfRequest, NothingYet
    <3>3. LinesOf(rest) = <<>>
      <4>1. Told(<<>>) = 0
        BY DEF Told
      <4> QED BY <3>1, <4>1 DEF LinesOf
    <3>4. heard[r] \o said_ \in Seq(Lines)
      BY <1>6, <2>1
    <3> QED BY <2>6, <3>2, <3>3, <3>4, WayEnds
  <2>8. InStep(r)'
    BY <2>1, <2>2, <2>3 DEF OfRequest, InStep
  <2>9. NothingYet(r)'
    BY <2>1, <2>3 DEF OfRequest, NothingYet
  <2>10. AnswerComesLast(r)'
    <3>1. ASSUME NEW i \in 1..Len(rest), rest[i].type \in Terminal
          PROVE  i = Len(rest) /\ phase[r] = "ended" /\ (rest[i].type = "done" => git[r] = "ok")
      <4>1. i = Len(rest) /\ rest # <<>>
        BY <1>4, <3>1 DEF WellTold
      <4>2. rest[i] = w[Len(w)] /\ w # <<>>
        BY <1>4, <4>1
      <4>3. Len(w) \in 1..Len(w)
        BY <1>1, <1>2, <4>2
      <4> QED BY <2>1, <3>1, <4>1, <4>2, <4>3 DEF OfRequest, AnswerComesLast
    <3> QED BY <2>1, <3>1 DEF AnswerComesLast
  <2>11. Flow(r)'
    BY <2>1, <2>6 DEF Flow
  <2>12. Answered(r)'
    <3>1. /\ answer'[r] \/ outcome'[r] \in Terminal =>
                 phase[r] = "ended" /\ git[r] # "none" /\ rest = <<>> /\ heard[r] \o said_ = kept[r]
          /\ answer'[r] \/ outcome'[r] = "done" => git[r] = "ok"
      BY <2>1, <2>2, <2>3, <2>4, <2>5, <2>7, Bounds
    <3>2. ASSUME phase[r] = "ended", client'[r] # "settled"
          PROVE  answer'[r] \/ (rest # <<>> /\ rest[Len(rest)].type \in Terminal)
      <4>1. w # <<>> /\ w[Len(w)].type \in Terminal
        BY <2>1, <2>3, <3>2 DEF OfRequest, Answered
      <4>2. CASE rest = <<>>
        BY <1>4, <2>1, <2>2, <3>2, <4>1, <4>2 DEF Terminal
      <4>3. CASE rest # <<>>
        BY <1>4, <4>1, <4>3
      <4> QED BY <4>2, <4>3
    <3>3. outcome'[r] # "ended"
      BY <2>1, <2>2 DEF OfRequest, Answered
    <3> QED BY <2>1, <3>1, <3>2, <3>3 DEF Answered
  <2> QED BY <2>8, <2>9, <2>10, <2>11, <2>12 DEF OfRequest
<1>14. LineIsOfAReader' /\ (slept' \/ awake')
  BY <1>8, <1>9 DEF TransferInv, LineIsOfAReader
<1> QED BY <1>11, <1>12, <1>13, <1>14 DEF TransferInv

LEMMA TickKeeps ==
    ASSUME TransferInv, Tick
    PROVE  TransferInv'
<1>1. TransferTypes'
  <2>1. quiet' \in [Requests -> Nat]
    <3>1. quiet \in [Requests -> Nat]
      BY DEF TransferInv, TransferTypes
    <3>2. quiet' = [r \in Requests |-> IF DaemonClock(r) THEN quiet[r] + 1 ELSE quiet[r]]
      BY DEF Tick
    <3> QED BY <3>1, <3>2
  <2>2. waited' \in [Requests -> 0..BrowserIdle]
    <3>1. BrowserIdle \in Nat
      BY Bounds
    <3>2. waited \in [Requests -> 0..BrowserIdle]
      BY DEF TransferInv, TransferTypes
    <3>3. waited' = [r \in Requests |-> IF BrowserClock(r) THEN waited[r] + 1 ELSE waited[r]]
      BY DEF Tick
    <3>4. \A r \in Requests : BrowserClock(r) => waited[r] < BrowserIdle
      BY DEF BrowserClock
    <3> QED BY <3>1, <3>2, <3>3, <3>4
  <2>3. UNCHANGED <<phase, git, said, lines, hand, streaming, kept, wire, link, verb, client, awake, slept,
                    torn, answer, outcome, heard, progress>>
    BY DEF Tick
  <2> QED BY <2>1, <2>2, <2>3 DEF TransferInv, TransferTypes
<1>2. ASSUME NEW q \in Requests PROVE OfRequest(q)'
  <2>1. OneOf(q)' = OneOf(q)
    BY DEF OneOf, Tick
  <2> QED BY <2>1, Unmoved DEF TransferInv
<1>3. LineIsOfAReader' /\ (slept' \/ awake')
  BY DEF TransferInv, LineIsOfAReader, Tick
<1> QED BY <1>1, <1>2, <1>3 DEF TransferInv

LEMMA PageKeeps ==
    ASSUME TransferInv, Sleep \/ Wake \/ UNCHANGED transferVars
    PROVE  TransferInv'
<1> USE DEF Sleep, Wake, transferVars, daemon, browser
<1>1. TransferTypes'
  <2>1. /\ UNCHANGED <<daemon, wire, link, verb, client, torn, answer, waited, outcome, heard>>
        /\ awake' \in BOOLEAN /\ slept' \in BOOLEAN
    BY DEF TransferInv, TransferTypes
  <2> QED BY <2>1 DEF TransferInv, TransferTypes
<1>2. ASSUME NEW q \in Requests PROVE OfRequest(q)'
  <2>1. OneOf(q)' = OneOf(q)
    BY DEF OneOf
  <2> QED BY <2>1, Unmoved DEF TransferInv
<1>3. LineIsOfAReader' /\ (slept' \/ awake')
  BY DEF TransferInv, LineIsOfAReader
<1> QED BY <1>1, <1>2, <1>3 DEF TransferInv

LEMMA TransferStarts == TransferInit => TransferInv
<1> SUFFICES ASSUME TransferInit PROVE TransferInv
  OBVIOUS
<1>1. <<>> \in Seq(Lines) /\ <<>> \in Seq(Events) /\ Len(<<>>) = 0
  OBVIOUS
<1>2. TransferTypes
  <2>1. ProgressBuffer \in Nat /\ Wire \in Nat /\ MaxLines \in Nat /\ 0 \in 0..MaxLines /\ 0 \in 0..BrowserIdle
    BY Bounds
  <2>2. /\ said \in [Requests -> 0..MaxLines] /\ quiet \in [Requests -> Nat]
        /\ waited \in [Requests -> 0..BrowserIdle]
    BY <2>1 DEF TransferInit
  <2>3. /\ lines \in [Requests -> Seq(Lines)] /\ \A r \in Requests : Len(lines[r]) <= ProgressBuffer
        /\ wire \in [Requests -> Seq(Events)] /\ \A r \in Requests : Len(wire[r]) <= Wire
        /\ kept \in [Requests -> Seq(Lines)] /\ heard \in [Requests -> Seq(Lines)]
    BY <1>1, <2>1 DEF TransferInit
  <2> QED BY <2>2, <2>3 DEF TransferInit, TransferTypes
<1>3. ASSUME NEW q \in Requests PROVE OfRequest(q)
  <2>1. Flow(q)
    <3>1. LinesOf(<<>>) = <<>>
      <4>1. Told(<<>>) = 0
        BY DEF Told
      <4> QED BY <4>1 DEF LinesOf
    <3>2. Way(<<>>, <<>>, None, <<>>) = <<>>
      BY <1>1, WayEnds
    <3> QED BY <3>1, <3>2 DEF TransferInit, Flow
  <2>2. InStep(q) /\ NothingYet(q)
    BY DEF TransferInit, InStep, NothingYet
  <2>3. AnswerComesLast(q)
    BY DEF TransferInit, AnswerComesLast
  <2>4. Answered(q)
    <3>1. None # "ended" /\ None # "done" /\ None \notin Terminal
      BY Bounds DEF Terminal
    <3> QED BY <3>1 DEF TransferInit, Answered
  <2> QED BY <2>1, <2>2, <2>3, <2>4 DEF OfRequest
<1>4. LineIsOfAReader /\ (slept \/ awake)
  BY DEF TransferInit, LineIsOfAReader
<1> QED BY <1>2, <1>3, <1>4 DEF TransferInv

LEMMA TransferSteps == TransferInv /\ [TransferNext]_transferVars => TransferInv'
<1> SUFFICES ASSUME TransferInv, [TransferNext]_transferVars PROVE TransferInv'
  OBVIOUS
<1>1. ASSUME NEW r \in Requests, NEW v \in Verbs, PressButton(r, v) PROVE TransferInv'
  BY <1>1, PressKeeps
<1>2. ASSUME NEW r \in Requests, Refuse(r) \/ Accept(r) \/ Say(r) \/ GoesQuiet(r) PROVE TransferInv'
  <2>1. GoesQuiet(r) => GitEnds(r, "failed") /\ "failed" \in {"ok", "failed"}
    BY DEF GoesQuiet
  <2> QED BY <1>2, <2>1, RefusedKeeps, AcceptedKeeps, SaysKeeps, GitEndedKeeps
<1>3. ASSUME NEW r \in Requests, NEW how \in {"ok", "failed"}, GitEnds(r, how) PROVE TransferInv'
  BY <1>3, GitEndedKeeps
<1>4. ASSUME NEW r \in Requests, PipesClose(r) \/ Take(r) \/ Deliver(r) \/ Stopped(r) \/ Finish(r) PROVE TransferInv'
  BY <1>4, LeftKeeps, TakenKeeps, DeliveredKeeps, StoppedKeeps, FinishKeeps
<1>5. ASSUME NEW r \in Requests, Responds(r) \/ Ends(r) \/ GiveUp(r) \/ Cut(r) PROVE TransferInv'
  BY <1>5, RespondedKeeps, EndedKeeps, GaveUpKeeps, CutOffKeeps
<1>6. ASSUME NEW r \in Requests, NEW n \in 0..Len(wire[r]), NEW half \in BOOLEAN, Read(r, n, half)
      PROVE  TransferInv'
  BY <1>6, ReadKeeps
<1>7. ASSUME Tick \/ Sleep \/ Wake \/ UNCHANGED transferVars PROVE TransferInv'
  BY <1>7, TickKeeps, PageKeeps
<1> QED BY <1>1, <1>2, <1>3, <1>4, <1>5, <1>6, <1>7 DEF TransferNext

LEMMA TransferTells == TransferInv => ProgressIsTold
<1> SUFFICES ASSUME TransferInv PROVE ProgressIsTold
  OBVIOUS
<1>1. TransferTypeOK
  BY DEF TransferInv, TransferTypes, TransferTypeOK, Lines
<1>2. ToldWhole
  <2>1. \A r \in Requests : DOMAIN wire[r] = 1..Len(wire[r])
    BY DEF TransferInv, TransferTypes
  <2> QED BY <2>1 DEF TransferInv, OfRequest, AnswerComesLast, Answered, ToldWhole
<1>3. NoLineOutlivesItsRequest
  BY DEF TransferInv, LineIsOfAReader, NoLineOutlivesItsRequest
<1> QED BY <1>1, <1>2, <1>3 DEF ProgressIsTold

\* What the browser tells of a transfer is what became of it, at every size
\* of the buffer and of the connection.
THEOREM TransferSafe == TransferSpec => []ProgressIsTold
<1>1. TransferInit => TransferInv
  BY TransferStarts
<1>2. TransferInv /\ [TransferNext]_transferVars => TransferInv'
  BY TransferSteps
<1>3. TransferInv => ProgressIsTold
  BY TransferTells
<1> QED BY <1>1, <1>2, <1>3, PTL DEF TransferSpec

-----------------------------------------------------------------------------
(* The deadlines. *)

ClockOf(r) == <<phase[r], git[r], quiet[r], lines[r], hand[r], wire[r], link[r], client[r], waited[r],
              verb[r], heard[r]>>

LEMMA Unclocked ==
    ASSUME NEW r \in Requests, Punctual(r), ClockOf(r)' = ClockOf(r), slept' = slept
    PROVE  Punctual(r)'
BY DEF Punctual, Timely, ClockOf

LEMMA PressInTime ==
    ASSUME TransferInv, TransferPunctual, NEW r \in Requests, NEW v \in Verbs, PressButton(r, v)
    PROVE  TransferPunctual'
<1> USE DEF TransferInv, TransferTypes, PressButton, daemon, browser
<1>1. ASSUME NEW q \in Requests, q # r PROVE Punctual(q)'
  <2>1. ClockOf(q)' = ClockOf(q) /\ slept' = slept
    BY <1>1 DEF ClockOf
  <2> QED BY <2>1, Unclocked DEF TransferPunctual
<1>2. Punctual(r)'
  BY DEF TransferPunctual, Punctual, Timely, OfRequest, InStep
<1> QED BY <1>1, <1>2 DEF TransferPunctual

LEMMA RefusedInTime ==
    ASSUME TransferInv, TransferPunctual, NEW r \in Requests, Refuse(r)
    PROVE  TransferPunctual'
<1> USE DEF TransferInv, TransferTypes, Refuse, daemon, browser
<1>1. ASSUME NEW q \in Requests, q # r PROVE Punctual(q)'
  <2>1. ClockOf(q)' = ClockOf(q) /\ slept' = slept
    BY <1>1 DEF ClockOf
  <2> QED BY <2>1, Unclocked DEF TransferPunctual
<1>2. Punctual(r)'
  BY DEF TransferPunctual, Punctual, Timely, OfRequest, InStep
<1> QED BY <1>1, <1>2 DEF TransferPunctual

LEMMA AcceptedInTime ==
    ASSUME TransferInv, TransferPunctual, NEW r \in Requests, Accept(r)
    PROVE  TransferPunctual'
<1> USE DEF TransferInv, TransferTypes, Accept, daemon, browser
<1>1. ASSUME NEW q \in Requests, q # r PROVE Punctual(q)'
  <2>1. ClockOf(q)' = ClockOf(q) /\ slept' = slept
    BY <1>1 DEF ClockOf
  <2> QED BY <2>1, Unclocked DEF TransferPunctual
<1>2. Punctual(r)'
  BY Bounds DEF TransferPunctual, Punctual, Timely, OfRequest, InStep
<1> QED BY <1>1, <1>2 DEF TransferPunctual

LEMMA SaysInTime ==
    ASSUME TransferInv, TransferPunctual, NEW r \in Requests, Say(r)
    PROVE  TransferPunctual'
<1> USE DEF TransferInv, TransferTypes, Say, Line, daemon, browser
<1>1. ASSUME NEW q \in Requests, q # r PROVE Punctual(q)'
  <2>1. ClockOf(q)' = ClockOf(q) /\ slept' = slept
    BY <1>1 DEF ClockOf
  <2> QED BY <2>1, Unclocked DEF TransferPunctual
<1>2. Punctual(r)'
  BY Bounds, SMTT(30) DEF TransferPunctual, Punctual, Timely, OfRequest, InStep
<1> QED BY <1>1, <1>2 DEF TransferPunctual

LEMMA GitEndedInTime ==
    ASSUME TransferInv, TransferPunctual, NEW r \in Requests, NEW how \in {"ok", "failed"}, GitEnds(r, how)
    PROVE  TransferPunctual'
<1> USE DEF TransferInv, TransferTypes, GitEnds, daemon, browser
<1>1. ASSUME NEW q \in Requests, q # r PROVE Punctual(q)'
  <2>1. ClockOf(q)' = ClockOf(q) /\ slept' = slept
    BY <1>1 DEF ClockOf
  <2> QED BY <2>1, Unclocked DEF TransferPunctual
<1>2. Punctual(r)'
  BY Bounds, SMTT(30) DEF TransferPunctual, Punctual, Timely, OfRequest, InStep
<1> QED BY <1>1, <1>2 DEF TransferPunctual

LEMMA LeftInTime ==
    ASSUME TransferInv, TransferPunctual, NEW r \in Requests, PipesClose(r)
    PROVE  TransferPunctual'
<1> USE DEF TransferInv, TransferTypes, PipesClose, daemon, browser
<1>1. ASSUME NEW q \in Requests, q # r PROVE Punctual(q)'
  <2>1. ClockOf(q)' = ClockOf(q) /\ slept' = slept
    BY <1>1 DEF ClockOf
  <2> QED BY <2>1, Unclocked DEF TransferPunctual
<1>2. Punctual(r)'
  BY Bounds, SMTT(30) DEF TransferPunctual, Punctual, Timely, OfRequest, InStep
<1> QED BY <1>1, <1>2 DEF TransferPunctual

LEMMA TakenInTime ==
    ASSUME TransferInv, TransferPunctual, NEW r \in Requests, Take(r)
    PROVE  TransferPunctual'
<1> USE DEF TransferInv, TransferTypes, Take, daemon, browser
<1>1. ASSUME NEW q \in Requests, q # r PROVE Punctual(q)'
  <2>1. ClockOf(q)' = ClockOf(q) /\ slept' = slept
    BY <1>1 DEF ClockOf
  <2> QED BY <2>1, Unclocked DEF TransferPunctual
<1>2. Punctual(r)'
  BY Bounds, SMTT(30) DEF TransferPunctual, Punctual, Timely, OfRequest, InStep
<1> QED BY <1>1, <1>2 DEF TransferPunctual

LEMMA DeliveredInTime ==
    ASSUME TransferInv, TransferPunctual, NEW r \in Requests, Deliver(r)
    PROVE  TransferPunctual'
<1> USE DEF TransferInv, TransferTypes, Deliver, Emit, Room, Event, daemon, browser
<1>1. ASSUME NEW q \in Requests, q # r PROVE Punctual(q)'
  <2>1. ClockOf(q)' = ClockOf(q) /\ slept' = slept
    BY <1>1 DEF ClockOf
  <2> QED BY <2>1, Unclocked DEF TransferPunctual
<1>2. Punctual(r)'
  <2>1. link[r] = "up" => wire'[r] # <<>>
    <3>1. ASSUME link[r] = "up" PROVE wire'[r] # <<>>
      <4>1. streaming[r]
        BY <3>1 DEF OfRequest, InStep
      <4>2. PICK e, w : e = Event("progress", hand[r]) /\ w = wire[r]
        OBVIOUS
      <4>3. e \in Events
        BY <4>2 DEF Events
      <4>4. wire'[r] = Append(w, e) /\ w \in Seq(Events)
        BY <3>1, <4>1, <4>2
      <4>5. PICK v : v = Append(w, e)
        OBVIOUS
      <4> HIDE DEF TransferInv, TransferTypes, Deliver, Emit, Room, Event, daemon, browser
      <4>6. v # <<>>
        BY <4>3, <4>4, <4>5
      <4> QED BY <4>4, <4>5, <4>6
    <3> QED BY <3>1
  <2>2. /\ phase'[r] = phase[r] /\ git'[r] = git[r] /\ quiet'[r] = quiet[r] /\ link'[r] = link[r]
        /\ client'[r] = client[r] /\ waited'[r] = waited[r] /\ slept' = slept
        /\ verb'[r] = verb[r] /\ heard'[r] = heard[r]
    OBVIOUS
  <2> QED BY <2>1, <2>2 DEF TransferPunctual, Punctual, Timely
<1> QED BY <1>1, <1>2 DEF TransferPunctual

LEMMA StoppedInTime ==
    ASSUME TransferInv, TransferPunctual, NEW r \in Requests, Stopped(r)
    PROVE  TransferPunctual'
<1> USE DEF TransferInv, TransferTypes, Stopped, Report, Emit, Room, Event, Drained, daemon, browser
<1>1. ASSUME NEW q \in Requests, q # r PROVE Punctual(q)'
  <2>1. ClockOf(q)' = ClockOf(q) /\ slept' = slept
    BY <1>1, SMTT(30) DEF ClockOf
  <2> QED BY <2>1, Unclocked DEF TransferPunctual
<1>2. Punctual(r)'
  BY Bounds, SMTT(30) DEF TransferPunctual, Punctual, Timely, OfRequest, InStep
<1> QED BY <1>1, <1>2 DEF TransferPunctual

LEMMA FinishInTime ==
    ASSUME TransferInv, TransferPunctual, NEW r \in Requests, Finish(r)
    PROVE  TransferPunctual'
<1> USE DEF TransferInv, TransferTypes, Finish, Report, Emit, Room, Event, daemon, browser
<1>1. ASSUME NEW q \in Requests, q # r PROVE Punctual(q)'
  <2>1. ClockOf(q)' = ClockOf(q) /\ slept' = slept
    BY <1>1 DEF ClockOf
  <2> QED BY <2>1, Unclocked DEF TransferPunctual
<1>2. Punctual(r)'
  BY Bounds, SMTT(30) DEF TransferPunctual, Punctual, Timely, OfRequest, InStep
<1> QED BY <1>1, <1>2 DEF TransferPunctual

LEMMA RespondedInTime ==
    ASSUME TransferInv, TransferPunctual, NEW r \in Requests, Responds(r)
    PROVE  TransferPunctual'
<1> USE DEF TransferInv, TransferTypes, Responds, Settle, daemon, browser
<1>1. ASSUME NEW q \in Requests, q # r PROVE Punctual(q)'
  <2>1. ClockOf(q)' = ClockOf(q) /\ slept' = slept
    BY <1>1, SMTT(30) DEF ClockOf
  <2> QED BY <2>1, Unclocked DEF TransferPunctual
<1>2. Punctual(r)'
  <2>1. /\ phase'[r] = phase[r] /\ git'[r] = git[r] /\ quiet'[r] = quiet[r] /\ link'[r] = link[r]
        /\ slept' = slept /\ Punctual(r) /\ client[r] = "fetching" /\ waited[r] \in Nat
        /\ verb'[r] = verb[r] /\ heard'[r] = heard[r]
        /\ quiet[r] \in Nat /\ DaemonIdle \in Nat /\ WaitDelay \in Nat
    BY Bounds DEF TransferPunctual
  <2>2. \/ client'[r] = "settled"
        \/ client'[r] = "reading" /\ waited'[r] = waited[r]
    OBVIOUS
  <2> HIDE DEF TransferInv, TransferTypes, Responds, Settle
  <2> QED BY <2>1, <2>2 DEF Punctual, Timely
<1> QED BY <1>1, <1>2 DEF TransferPunctual

LEMMA ReadInTime ==
    ASSUME TransferInv, TransferPunctual, NEW r \in Requests, NEW n \in 0..Len(wire[r]), NEW half \in BOOLEAN, Read(r, n, half)
    PROVE  TransferPunctual'
<1> USE DEF TransferInv, TransferTypes, Read, HandleLines, Settle, daemon, browser
<1>1. ASSUME NEW q \in Requests, q # r PROVE Punctual(q)'
  <2>1. wire'[q] = wire[q]
    BY <1>1
  <2>2. client'[q] = client[q] /\ waited'[q] = waited[q] /\ verb' = verb
    BY <1>1, SMTT(30)
  <2>5. heard'[q] = heard[q]
    BY <1>1
  <2>3. UNCHANGED <<phase, git, quiet, lines, hand, link, slept>>
    OBVIOUS
  <2>4. ClockOf(q)' = ClockOf(q) /\ slept' = slept
    BY <2>1, <2>2, <2>3, <2>5 DEF ClockOf
  <2> QED BY <2>4, Unclocked DEF TransferPunctual
<1>2. Punctual(r)'
  <2>1. /\ phase'[r] = phase[r] /\ git'[r] = git[r] /\ quiet'[r] = quiet[r]
        /\ Punctual(r) /\ client[r] = "reading"
        /\ quiet[r] \in Nat /\ DaemonIdle \in Nat /\ WaitDelay \in Nat
    BY Bounds DEF TransferPunctual
  <2>2. client'[r] = "settled" \/ (client'[r] = "reading" /\ waited'[r] = 0)
    OBVIOUS
  <2> HIDE DEF TransferInv, TransferTypes, Read, HandleLines, Settle
  <2> QED BY <2>1, <2>2 DEF Punctual
<1> QED BY <1>1, <1>2 DEF TransferPunctual

LEMMA EndedInTime ==
    ASSUME TransferInv, TransferPunctual, NEW r \in Requests, Ends(r)
    PROVE  TransferPunctual'
<1> USE DEF TransferInv, TransferTypes, Ends, Settle, daemon, browser
<1>1. ASSUME NEW q \in Requests, q # r PROVE Punctual(q)'
  <2>1. ClockOf(q)' = ClockOf(q) /\ slept' = slept
    BY <1>1 DEF ClockOf
  <2> QED BY <2>1, Unclocked DEF TransferPunctual
<1>2. Punctual(r)'
  BY DEF TransferPunctual, Punctual, Timely, OfRequest, InStep
<1> QED BY <1>1, <1>2 DEF TransferPunctual

LEMMA GaveUpInTime ==
    ASSUME TransferInv, TransferPunctual, NEW r \in Requests, GiveUp(r)
    PROVE  TransferPunctual'
<1> USE DEF TransferInv, TransferTypes, GiveUp, Settle, daemon, browser
<1>1. ASSUME NEW q \in Requests, q # r PROVE Punctual(q)'
  <2>1. ClockOf(q)' = ClockOf(q) /\ slept' = slept
    BY <1>1 DEF ClockOf
  <2> QED BY <2>1, Unclocked DEF TransferPunctual
<1>2. Punctual(r)'
  BY DEF TransferPunctual, Punctual, Timely, OfRequest, InStep
<1> QED BY <1>1, <1>2 DEF TransferPunctual

LEMMA CutOffInTime ==
    ASSUME TransferInv, TransferPunctual, NEW r \in Requests, Cut(r)
    PROVE  TransferPunctual'
<1> USE DEF TransferInv, TransferTypes, Cut, daemon, browser
<1>1. ASSUME NEW q \in Requests, q # r PROVE Punctual(q)'
  <2>1. ClockOf(q)' = ClockOf(q) /\ slept' = slept
    BY <1>1 DEF ClockOf
  <2> QED BY <2>1, Unclocked DEF TransferPunctual
<1>2. Punctual(r)'
  BY DEF TransferPunctual, Punctual, Timely, OfRequest, InStep
<1> QED BY <1>1, <1>2 DEF TransferPunctual

LEMMA TickInTime ==
    ASSUME TransferInv, TransferPunctual, Tick
    PROVE  TransferPunctual'
<1> SUFFICES ASSUME NEW r \in Requests PROVE Punctual(r)'
  BY DEF TransferPunctual
<1>1. /\ quiet[r] \in Nat /\ waited[r] \in Nat /\ Punctual(r) /\ OfRequest(r)
      /\ DaemonIdle \in Nat /\ WaitDelay \in Nat
      /\ slept \/ awake
      /\ wire[r] \in Seq(Events)
      /\ phase[r] \in {"none", "asked", "running", "leaving", "stopping", "refs", "ended"}
  BY Bounds DEF TransferInv, TransferTypes, TransferPunctual
<1>2. /\ UNCHANGED <<phase, git, lines, hand, wire, link, client, slept, verb, heard>>
      /\ quiet'[r] = IF DaemonClock(r) THEN quiet[r] + 1 ELSE quiet[r]
      /\ waited'[r] = IF BrowserClock(r) THEN waited[r] + 1 ELSE waited[r]
      /\ ~Working(r) /\ ~Reading(r) /\ ~Due(r)
  BY DEF Tick
<1>3. waited'[r] <= waited[r] + 1 /\ (client[r] = "idle" => waited'[r] = waited[r])
  BY <1>1, <1>2 DEF BrowserClock
<1>4. git[r] = "running" => quiet'[r] = quiet[r] + 1 /\ quiet'[r] <= DaemonIdle
  BY <1>1, <1>2 DEF DaemonClock, Due, Punctual
<1>5. phase[r] = "leaving" => quiet'[r] = quiet[r] + 1 /\ quiet'[r] <= WaitDelay
  BY <1>1, <1>2 DEF DaemonClock, Working, Punctual
<1>6. ASSUME link[r] = "up", ~slept, Timely(r) PROVE client[r] # "fetching"
  BY <1>1, <1>2, <1>6 DEF Working, Reading, OfRequest, InStep, Timely
<1>7. ASSUME link[r] = "up", ~slept, client[r] = "reading"
      PROVE  /\ wire[r] = <<>> /\ lines[r] = <<>> /\ hand[r] = None
             /\ phase[r] \in {"running", "leaving", "refs"}
  <2>1. wire[r] = <<>> /\ phase[r] # "ended"
    BY <1>1, <1>2, <1>7 DEF Reading
  <2>2. Room(r)
    <3>1. Len(wire[r]) = 0 /\ Wire \in Nat \ {0}
      BY <2>1, Bounds
    <3> QED BY <3>1 DEF Room
  <2>3. hand[r] = None /\ phase[r] # "stopping" /\ lines[r] = <<>>
    BY <1>2, <2>2 DEF Working
  <2>4. phase[r] \notin {"none", "asked"}
    BY <1>1, <1>7 DEF OfRequest, InStep
  <2> QED BY <1>1, <2>1, <2>3, <2>4
<1>8. ASSUME link[r] = "up", ~slept, Timely(r), client[r] = "reading", phase[r] = "running"
      PROVE  waited'[r] <= quiet'[r] /\ waited'[r] <= DaemonIdle
  <2>1. waited[r] <= quiet[r] /\ git[r] = "running"
    BY <1>1, <1>7, <1>8 DEF Punctual, OfRequest, InStep
  <2>2. quiet[r] \in Nat /\ waited[r] \in Nat /\ DaemonIdle \in Nat
    BY <1>1
  <2>3. waited'[r] = waited[r] \/ waited'[r] = waited[r] + 1
    BY <1>2
  <2>4. quiet'[r] = quiet[r] + 1 /\ quiet'[r] <= DaemonIdle
    BY <1>4, <2>1
  <2> QED BY <2>1, <2>2, <2>3, <2>4
<1>9. ASSUME link[r] = "up", ~slept, Timely(r), client[r] = "reading", phase[r] = "leaving"
      PROVE  waited'[r] <= DaemonIdle + quiet'[r]
  <2>1. waited[r] <= DaemonIdle + quiet[r]
    BY <1>1, <1>9 DEF Punctual
  <2>2. quiet'[r] = quiet[r] + 1
    BY <1>5, <1>9
  <2>3. quiet[r] \in Nat /\ waited[r] \in Nat /\ DaemonIdle \in Nat
    BY <1>1
  <2>4. waited'[r] = waited[r] \/ waited'[r] = waited[r] + 1
    BY <1>2
  <2> QED BY <2>1, <2>2, <2>3, <2>4
<1>10. client[r] = "idle" => waited'[r] = 0
  BY <1>1, <1>3 DEF Punctual
<1>11. Timely(r)' = Timely(r)
  BY <1>2 DEF Timely
<1> QED BY <1>2, <1>4, <1>5, <1>6, <1>7, <1>8, <1>9, <1>10, <1>11 DEF Punctual

LEMMA PageInTime ==
    ASSUME TransferInv, TransferPunctual, Sleep \/ Wake \/ UNCHANGED transferVars
    PROVE  TransferPunctual'
<1> SUFFICES ASSUME NEW r \in Requests PROVE Punctual(r)'
  BY DEF TransferPunctual
<1>1. ClockOf(r)' = ClockOf(r)
  BY DEF ClockOf, Sleep, Wake, transferVars, daemon, browser
<1>2. CASE slept' = slept
  BY <1>1, <1>2, Unclocked DEF TransferPunctual
<1>3. CASE slept' # slept
  <2>1. slept'
    BY <1>3 DEF Sleep, Wake, transferVars, daemon, browser
  <2> QED BY <1>1, <2>1 DEF TransferPunctual, Punctual, Timely, ClockOf
<1> QED BY <1>2, <1>3

LEMMA PunctualSteps == TransferInv /\ TransferPunctual /\ [TransferNext]_transferVars => TransferPunctual'
<1> SUFFICES ASSUME TransferInv, TransferPunctual, [TransferNext]_transferVars PROVE TransferPunctual'
  OBVIOUS
<1>1. ASSUME NEW r \in Requests, NEW v \in Verbs, PressButton(r, v) PROVE TransferPunctual'
  BY <1>1, PressInTime
<1>2. ASSUME NEW r \in Requests, Refuse(r) \/ Accept(r) \/ Say(r) \/ GoesQuiet(r) PROVE TransferPunctual'
  <2>1. GoesQuiet(r) => GitEnds(r, "failed") /\ "failed" \in {"ok", "failed"}
    BY DEF GoesQuiet
  <2> QED BY <1>2, <2>1, RefusedInTime, AcceptedInTime, SaysInTime, GitEndedInTime
<1>3. ASSUME NEW r \in Requests, NEW how \in {"ok", "failed"}, GitEnds(r, how) PROVE TransferPunctual'
  BY <1>3, GitEndedInTime
<1>4. ASSUME NEW r \in Requests, PipesClose(r) \/ Take(r) \/ Deliver(r) \/ Stopped(r) \/ Finish(r) PROVE TransferPunctual'
  BY <1>4, LeftInTime, TakenInTime, DeliveredInTime, StoppedInTime, FinishInTime
<1>5. ASSUME NEW r \in Requests, Responds(r) \/ Ends(r) \/ GiveUp(r) \/ Cut(r) PROVE TransferPunctual'
  BY <1>5, RespondedInTime, EndedInTime, GaveUpInTime, CutOffInTime
<1>6. ASSUME NEW r \in Requests, NEW n \in 0..Len(wire[r]), NEW half \in BOOLEAN, Read(r, n, half)
      PROVE  TransferPunctual'
  BY <1>6, ReadInTime
<1>7. ASSUME Tick \/ Sleep \/ Wake \/ UNCHANGED transferVars PROVE TransferPunctual'
  BY <1>7, TickInTime, PageInTime
<1> QED BY <1>1, <1>2, <1>3, <1>4, <1>5, <1>6, <1>7 DEF TransferNext

LEMMA OnlyGivingUp ==
    ASSUME TransferInv, [TransferNext]_transferVars, NEW r \in Requests,
           outcome[r] = None, outcome'[r] \in {"silence", "idle"}
    PROVE  GiveUp(r)
<1>1. outcome' # outcome
  BY Bounds
<1> USE DEF TransferInv, TransferTypes
<1>2. ASSUME NEW q \in Requests, Responds(q) PROVE FALSE
  <2>1. outcome' = [outcome EXCEPT ![q] = "refused"]
    BY <1>1, <1>2 DEF Responds, Settle
  <2> QED BY <2>1, Bounds
<1>3. ASSUME NEW q \in Requests, NEW n \in 0..Len(wire[q]), NEW half \in BOOLEAN, Read(q, n, half) PROVE FALSE
  <2>1. outcome' = [outcome EXCEPT ![q] = "error"]
    BY <1>1, <1>3 DEF Read, HandleLines, Settle
  <2> QED BY <2>1, Bounds
<1>4. ASSUME NEW q \in Requests, Ends(q) PROVE FALSE
  BY <1>1, <1>4, Bounds DEF Ends, Settle
<1>5. ASSUME NEW q \in Requests, GiveUp(q) PROVE q = r
  BY <1>1, <1>5, Bounds DEF GiveUp, Settle
<1>6. ASSUME NEW q \in Requests, NEW v \in Verbs, PressButton(q, v) PROVE FALSE
  BY <1>1, <1>6 DEF PressButton
<1>7. ASSUME NEW q \in Requests, Refuse(q) \/ Accept(q) \/ Say(q) \/ GoesQuiet(q) \/ PipesClose(q) \/ Take(q) \/ Deliver(q) \/ Cut(q)
      PROVE  FALSE
  BY <1>1, <1>7 DEF Refuse, Accept, Say, GoesQuiet, GitEnds, PipesClose, Take, Deliver, Cut, browser
<1>8. ASSUME NEW q \in Requests, NEW how \in {"ok", "failed"}, GitEnds(q, how) PROVE FALSE
  BY <1>1, <1>8 DEF GitEnds, browser
<1>9. ASSUME NEW q \in Requests, Stopped(q) \/ Finish(q) PROVE FALSE
  BY <1>1, <1>9 DEF Stopped, Finish, Report, browser
<1>10. ASSUME Tick \/ Sleep \/ Wake \/ UNCHANGED transferVars PROVE FALSE
  BY <1>1, <1>10 DEF Tick, Sleep, Wake, transferVars, browser
<1> QED BY <1>2, <1>3, <1>4, <1>5, <1>6, <1>7, <1>8, <1>9, <1>10 DEF TransferNext

\* Why the browser may be the one that gives up.
Excused(r) == link[r] = "cut" \/ slept \/ git[r] = "ok" \/ (verb[r] # "fetch" /\ heard[r] = <<>>)

LEMMA NeverLate ==
    ASSUME TransferInv, TransferPunctual, NEW r \in Requests, GiveUp(r)
    PROVE  Excused(r)
<1>1. /\ waited[r] = BrowserIdle /\ client[r] \in {"fetching", "reading"}
      /\ link[r] \in {"up", "cut", "closed"} /\ link[r] # "closed"
      /\ phase[r] \in {"none", "asked", "running", "leaving", "stopping", "refs", "ended"}
      /\ client[r] = "reading" => phase[r] \notin {"none", "asked"} /\ git[r] # "none"
      /\ git[r] \in {"none", "running", "ok", "failed"}
      /\ git[r] = "running" <=> phase[r] = "running"
      /\ phase[r] = "refs" => git[r] = "ok"
      /\ quiet[r] \in Nat /\ Punctual(r)
  BY DEF GiveUp, TransferInv, TransferTypes, OfRequest, InStep, TransferPunctual
<1>2. DaemonIdle \in Nat /\ WaitDelay \in Nat /\ BrowserIdle \in Nat /\ BrowserIdle > DaemonIdle + WaitDelay
  BY Bounds, DeadlineAssumption
<1>3. ASSUME link[r] = "up", ~slept, Timely(r), git[r] # "ok" PROVE FALSE
  BY <1>1, <1>2, <1>3 DEF Punctual
<1> QED BY <1>1, <1>3 DEF Excused, Timely

\* The daemon is the first to give up on a git that has fallen silent: the
\* deadline of the browser is for a dead connection, a machine that slept,
\* what follows a git that succeeded, and what precedes a pull or a push.
THEOREM DaemonFirst == TransferSpec => DaemonGivesUpFirst
<1> DEFINE Step == \A r \in Requests :
           outcome[r] = None /\ outcome'[r] \in {"silence", "idle"} => Excused(r)
<1>1. TransferInit => TransferInv /\ TransferPunctual
  <2>1. TransferInit => TransferPunctual
    <3>1. DaemonIdle \in Nat /\ WaitDelay \in Nat
      BY Bounds
    <3> QED BY <3>1 DEF TransferInit, TransferPunctual, Punctual, Timely
  <2> QED BY <2>1, TransferStarts
<1>2. TransferInv /\ TransferPunctual /\ [TransferNext]_transferVars => TransferInv' /\ TransferPunctual'
  BY TransferSteps, PunctualSteps
<1>3. TransferInv /\ TransferPunctual /\ [TransferNext]_transferVars => [Step]_transferVars
  BY OnlyGivingUp, NeverLate
<1>4. TransferSpec => [][Step]_transferVars
  BY <1>1, <1>2, <1>3, PTL DEF TransferSpec
<1>5. Step => \A r \in Requests : outcome[r] = None /\ outcome'[r] \in {"silence", "idle"} =>
          \/ link[r] = "cut" \/ slept
          \/ git[r] = "ok"
          \/ verb[r] # "fetch" /\ heard[r] = <<>>
  BY DEF Excused
<1> HIDE DEF Step
<1> QED BY <1>4, <1>5, PTL DEF DaemonGivesUpFirst

-----------------------------------------------------------------------------
(* What is left of a list without one. *)

LEMMA WhatIsLeft ==
    ASSUME NEW S, NEW s \in Seq(S), NEW e
    PROVE  Without(s, e) \in Seq(S) /\ ToSet(Without(s, e)) = ToSet(s) \ {e}
<1> DEFINE left == {i \in DOMAIN s : s[i] # e}
           t == Without(s, e)
           at == Place(left)
           size == Cardinality(left)
<1>1. DOMAIN s = 1..Len(s) /\ Len(s) \in Nat
  OBVIOUS
<1>2. left \in SUBSET (1..Len(s)) /\ \A i \in 1..Len(s) : i \in left <=> s[i] # e
  BY <1>1
<1>3. t = Sifted(s, left)
  BY DEF Without
<1> HIDE DEF left, t
<1>4. /\ t \in Seq(S) /\ Len(t) = size /\ size \in Nat
      /\ at \in [1..size -> left]
      /\ \A n \in 1..size : t[n] = s[at[n]]
      /\ \A i \in left : \E n \in 1..size : at[n] = i
  BY <1>2, <1>3, SiftedIsWhatIsKept
<1> HIDE DEF at, size
<1>5. \A n \in 1..size : at[n] \in left /\ at[n] \in 1..Len(s)
  BY <1>2, <1>4
<1>6. (\A x : x \in ToSet(t) <=> \E n \in 1..size : t[n] = x) /\ (\A x : x \in ToSet(s) <=> \E i \in 1..Len(s) : s[i] = x)
  <2>1. DOMAIN t = 1..size
    BY <1>4
  <2>2. \A x : x \in ToSet(t) <=> \E n \in 1..size : t[n] = x
    BY <2>1 DEF ToSet
  <2>3. \A x : x \in ToSet(s) <=> \E i \in 1..Len(s) : s[i] = x
    BY <1>1 DEF ToSet
  <2> QED BY <2>2, <2>3
<1>7. ASSUME NEW x \in ToSet(t) PROVE x \in ToSet(s) /\ x # e
  <2>1. PICK n \in 1..size : t[n] = x
    BY <1>6
  <2>2. s[at[n]] = x /\ at[n] \in left /\ at[n] \in 1..Len(s)
    BY <1>4, <1>5, <2>1
  <2> QED BY <1>2, <1>6, <2>2
<1>8. ASSUME NEW x \in ToSet(s), x # e PROVE x \in ToSet(t)
  <2>1. PICK i \in 1..Len(s) : s[i] = x
    BY <1>6
  <2>2. i \in left
    BY <1>2, <1>8, <2>1
  <2>3. PICK n \in 1..size : at[n] = i
    BY <1>4, <2>2
  <2>4. t[n] = x
    BY <1>4, <2>1, <2>3
  <2> QED BY <1>6, <2>4
<1> QED BY <1>4, <1>7, <1>8 DEF t

-----------------------------------------------------------------------------
(***************************************************************************)
(* What is proved of the tabs of the page, for any repositories and any    *)
(* number of requests, reloads and restarts.                               *)
(*                                                                         *)
(* What the page lists, what the daemon holds, the answer to a read on its *)
(* way and what the store names are the same set but for what is being     *)
(* opened and closed: `InLists` and `InReading`.  They are in the same     *)
(* order, and what is new comes last: `InOrder`, without which the first   *)
(* tab, shown when there is no other choice, would not stay the first.     *)
(* While the page reopens what it remembers, what was wanted is open or    *)
(* left to open: `InPass`.                                                 *)
(***************************************************************************)
-----------------------------------------------------------------------------
(* The inductive invariant of the tabs, where of the interruptions that    *)
(* Session names only a read of the list that fails occurs.                *)

OnlyFailing == TabInterruptions \cap MayHappen \subseteq {"failing", "first"}

Listed == ToSet(OpenTabs(page))
Held == ToSet(registry)
Replied == reading.at = "answered"
Standing == page.list # NoList /\ ~page.restoring

Closers(cs) == {c.path : c \in {d \in cs : d.what = "close"}}
Bringers(cs) == {c.path : c \in {d \in cs : d.what = "open" /\ d.at # "asked"}}

Pages == [list : Seq(Roots) \cup {NoList}, failed : BOOLEAN, chosen : Roots \cup {None},
          ready : BOOLEAN, restoredActive : BOOLEAN, restoring : BOOLEAN]
Stores == [paths : Seq(Roots), active : Roots \cup {None}]
Calls == [what : {"open", "close"}, path : Roots, at : {"asked", "done", "listing"}]

TabsTypes ==
    /\ onDisk \subseteq Roots
    /\ registry \in Seq(Roots) /\ IsInjective(registry)
    /\ stored \in Stores
    /\ page \in Pages /\ IsInjective(OpenTabs(page))
    /\ reading \in [at : {"none", "asked", "answered"}, list : Seq(Roots)] /\ IsInjective(reading.list)
    /\ pass \in [at : {"none", "opening", "listing", "again"}, left : Seq(Roots)]
    /\ calls \subseteq Calls
    /\ unseen \in BOOLEAN
    /\ wanted \subseteq Roots /\ closed \subseteq Roots /\ viewed \in Roots \cup {None}

\* One request is made of a path, and one opening at a time; what is asked to
\* close is on screen, and what was opened is there to be listed.
InCalls ==
    /\ \A c, d \in calls : c.path = d.path \/ (c.what = "open" /\ d.what = "open") => c = d
    /\ \A c \in calls : c.what = "close" =>
          /\ c.at # "listing" /\ c.path \in Listed
          /\ c.at = "asked" => c.path \in Held
          /\ c.at = "done" => c.path \notin Held
          /\ Replied => c.path \in ToSet(reading.list)
    /\ \A c \in calls : c.what = "open" =>
          /\ c.at # "asked" => c.path \in Held
          /\ c.at = "listing" /\ Replied => c.path \in ToSet(reading.list)
          /\ c.path \notin closed
    /\ ~Standing \/ unseen => calls = {}

\* A reopening runs over an empty list, and what was wanted is open or left to open.
InPass ==
    /\ page.restoring <=> pass.at # "none"
    /\ page.restoring => OpenTabs(page) = <<>>
    /\ pass.at = "opening" => reading.at = "none"
    /\ pass.at # "opening" => pass.left = <<>>
    /\ unseen /\ ~page.restoring => registry = <<>>
    /\ pass.at = "opening" => wanted \subseteq Held \cup ToSet(pass.left)
    /\ pass.at \in {"listing", "again"} => wanted \subseteq Held

InPage ==
    /\ Standing => stored.paths = page.list
    /\ page.list = NoList => page.chosen = None /\ ~page.restoredActive
    /\ page.list = NoList /\ ~page.restoring /\ page.failed => stored.paths = <<>>
    /\ Listed \subseteq wanted

\* What is listed and held differ by what is being opened and closed.
InLists ==
    /\ ~unseen => Listed \subseteq Held \cup Closers(calls)
    /\ ~page.restoring => wanted \ Closers(calls) \subseteq ToSet(stored.paths)
    /\ ~page.restoring /\ ~unseen => wanted \ Closers(calls) \subseteq Held
    /\ Standing => Held \subseteq Listed \cup Bringers(calls)

\* So do they and the answer to a read that is on its way.
InReading ==
    Replied =>
        /\ ToSet(reading.list) \subseteq Held \cup Closers(calls)
        /\ Held \subseteq ToSet(reading.list) \cup Bringers(calls)
        /\ unseen /\ ~page.restoring => reading.list = <<>>
        /\ ~unseen \/ page.restoring => wanted \ Closers(calls) \subseteq ToSet(reading.list)
        /\ Standing => ToSet(reading.list) \subseteq Listed \cup Bringers(calls)

\* A list goes on as another did: what they share is in the same order, and
\* what is new comes after it.
Precedes(s, p, q) == \E i, j \in DOMAIN s : i < j /\ s[i] = p /\ s[j] = q
Continues(s, t) ==
    \A p \in ToSet(s) \cap ToSet(t), q \in ToSet(t) :
        /\ q \in ToSet(s) /\ Precedes(s, p, q) => Precedes(t, p, q)
        /\ q \notin ToSet(s) => Precedes(t, p, q)

InOrder ==
    /\ Standing /\ ~unseen => Continues(page.list, registry)
    /\ Standing /\ ~unseen /\ Replied => Continues(page.list, reading.list)
    /\ Replied => Continues(reading.list, registry)

\* The repository on screen is what the user last chose, and the store names it
\* whenever the page has to bring it back.
OnScreen ==
    /\ ~page.restoring /\ OpenTabs(page) # <<>> =>
           page.restoredActive /\ viewed = Active(page) /\ stored.active = viewed
    /\ page.list = NoList /\ ~page.restoring =>
           /\ viewed = stored.active \/ stored.paths = <<>>
           /\ stored.paths = <<>> => \A p, q \in Held : p = q
    /\ page.restoring => viewed = stored.active

Gone ==
    /\ closed \cap (Held \cup ToSet(stored.paths) \cup ToSet(pass.left)) = {}
    /\ Replied => closed \cap ToSet(reading.list) = {}

TabsInv ==
    /\ TabsTypes /\ InCalls /\ InPass /\ InPage /\ InLists /\ InReading /\ InOrder /\ OnScreen /\ Gone

-----------------------------------------------------------------------------
(* Of lists. *)

LEMMA NoTwo == \A r \in Roots : r # None
BY TabsAssumption

LEMMA NoListIsNoList == \A s \in Seq(Roots) : s # NoList
<1> SUFFICES ASSUME NEW s \in Seq(Roots), s = NoList PROVE FALSE
  OBVIOUS
<1>1. Len(NoList) = 1 /\ NoList[1] = None
  BY DEF NoList
<1>2. s[1] \in Roots
  BY <1>1
<1> QED BY <1>1, <1>2, NoTwo

LEMMA SetOf ==
    ASSUME NEW S, NEW s \in Seq(S)
    PROVE  /\ ToSet(s) \subseteq S
           /\ \A e : e \in ToSet(s) <=> \E i \in 1..Len(s) : s[i] = e
           /\ s = <<>> <=> ToSet(s) = {}
           /\ s # <<>> => Head(s) = s[1] /\ Head(s) \in ToSet(s) /\ 1 \in 1..Len(s)
BY DEF ToSet

LEMMA NoneInEmpty == ToSet(<<>>) = {} /\ <<>> \in Seq(Roots) /\ IsInjective(<<>>)
BY DEF ToSet, IsInjective

LEMMA Appended ==
    ASSUME NEW S, NEW s \in Seq(S), NEW e \in S, e \notin ToSet(s), IsInjective(s)
    PROVE  /\ Append(s, e) \in Seq(S)
           /\ ToSet(Append(s, e)) = ToSet(s) \cup {e}
           /\ IsInjective(Append(s, e))
           /\ \A p, q : Precedes(s, p, q) => Precedes(Append(s, e), p, q)
           /\ \A p \in ToSet(s) : Precedes(Append(s, e), p, e)
<1> DEFINE t == Append(s, e)
<1>1. /\ t \in Seq(S) /\ Len(s) \in Nat /\ Len(t) = Len(s) + 1 /\ t[Len(s) + 1] = e
      /\ \A i \in 1..Len(s) : t[i] = s[i]
      /\ DOMAIN s = 1..Len(s) /\ DOMAIN t = 1..(Len(s) + 1)
  OBVIOUS
<1>2. \A x : x \in ToSet(s) <=> \E i \in 1..Len(s) : s[i] = x
  BY SetOf
<1> HIDE DEF t
<1>3. ToSet(t) = ToSet(s) \cup {e}
  <2>1. \A i \in 1..(Len(s) + 1) : i \in 1..Len(s) \/ i = Len(s) + 1
    BY <1>1
  <2>2. \A i \in 1..Len(s) : i \in 1..(Len(s) + 1)
    BY <1>1
  <2>3. \A x : x \in ToSet(t) <=> \E i \in 1..(Len(s) + 1) : t[i] = x
    BY <1>1 DEF ToSet
  <2>4. Len(s) + 1 \in 1..(Len(s) + 1)
    BY <1>1
  <2>5. \A x : x \in ToSet(t) <=> x \in ToSet(s) \/ x = e
    BY <1>1, <1>2, <2>1, <2>2, <2>3, <2>4
  <2> QED BY <2>5
<1>4. IsInjective(t)
  <2>1. \A i \in 1..(Len(s) + 1) : i \in 1..Len(s) \/ i = Len(s) + 1
    BY <1>1
  <2>2. \A i \in 1..Len(s) : s[i] # e
    BY <1>2
  <2> QED BY <1>1, <2>1, <2>2 DEF IsInjective
<1>5. \A p, q : Precedes(s, p, q) => Precedes(t, p, q)
  <2>1. \A i \in 1..Len(s) : i \in 1..(Len(s) + 1)
    BY <1>1
  <2> QED BY <1>1, <2>1 DEF Precedes
<1>6. \A p \in ToSet(s) : Precedes(t, p, e)
  <2>1. \A i \in 1..Len(s) : i \in 1..(Len(s) + 1) /\ i < Len(s) + 1
    BY <1>1
  <2>2. Len(s) + 1 \in 1..(Len(s) + 1)
    BY <1>1
  <2> QED BY <1>1, <1>2, <2>1, <2>2 DEF Precedes
<1> QED BY <1>1, <1>3, <1>4, <1>5, <1>6 DEF t

LEMMA LeftWithout ==
    ASSUME NEW S, NEW s \in Seq(S), NEW e, IsInjective(s)
    PROVE  /\ Without(s, e) \in Seq(S)
           /\ ToSet(Without(s, e)) = ToSet(s) \ {e}
           /\ IsInjective(Without(s, e))
           /\ \A p, q : p # e /\ q # e /\ Precedes(s, p, q) => Precedes(Without(s, e), p, q)
           /\ \A p, q : Precedes(Without(s, e), p, q) => Precedes(s, p, q)
           /\ s # <<>> /\ Head(s) # e => Without(s, e) # <<>> /\ Head(Without(s, e)) = Head(s)
<1> DEFINE remaining == {i \in DOMAIN s : s[i] # e}
           t == Without(s, e)
           at == Place(remaining)
           size == Cardinality(remaining)
<1>1. DOMAIN s = 1..Len(s) /\ Len(s) \in Nat
  OBVIOUS
<1>2. remaining \in SUBSET (1..Len(s)) /\ \A i \in 1..Len(s) : i \in remaining <=> s[i] # e
  BY <1>1
<1>3. t = Sifted(s, remaining)
  BY DEF Without
<1> HIDE DEF remaining, t
<1>4. /\ t \in Seq(S) /\ Len(t) = size /\ size \in Nat
      /\ at \in [1..size -> remaining]
      /\ \A n \in 1..size : t[n] = s[at[n]]
      /\ \A m, n \in 1..size : m < n => at[m] < at[n]
      /\ \A i \in remaining : \E n \in 1..size : at[n] = i
  BY <1>2, <1>3, SiftedIsWhatIsKept
<1> HIDE DEF at, size
<1>5. \A n \in 1..size : at[n] \in remaining /\ at[n] \in 1..Len(s) /\ at[n] \in Int /\ n \in Int
  <2>1. \A i \in 1..Len(s) : i \in Int  BY <1>1
  <2>2. \A n \in 1..size : n \in Int  BY <1>4
  <2> QED BY <1>2, <1>4, <2>1, <2>2
<1>6. DOMAIN t = 1..size
  BY <1>4
<1>7. ToSet(t) = ToSet(s) \ {e}
  BY WhatIsLeft DEF t
<1>8. ASSUME NEW m \in 1..size, NEW n \in 1..size, at[m] = at[n] PROVE m = n
  <2>1. ~(m < n) /\ ~(n < m)
    BY <1>4, <1>5, <1>8
  <2> QED BY <1>5, <2>1
<1>9. IsInjective(t)
  <2> SUFFICES ASSUME NEW m \in 1..size, NEW n \in 1..size, t[m] = t[n] PROVE m = n
    BY <1>6 DEF IsInjective
  <2>1. s[at[m]] = s[at[n]]
    BY <1>4
  <2>2. at[m] = at[n]
    BY <1>1, <1>5, <2>1 DEF IsInjective
  <2> QED BY <1>8, <2>2
<1>10. ASSUME NEW p, NEW q, p # e, q # e, Precedes(s, p, q) PROVE Precedes(t, p, q)
  <2>1. PICK i \in 1..Len(s), j \in 1..Len(s) : i < j /\ s[i] = p /\ s[j] = q
    BY <1>1, <1>10 DEF Precedes
  <2>2. i \in remaining /\ j \in remaining
    BY <1>2, <1>10, <2>1
  <2>3. PICK m \in 1..size, n \in 1..size : at[m] = i /\ at[n] = j
    BY <1>4, <2>2
  <2>4. m < n
    <3>1. m # n /\ ~(n < m)
      BY <1>1, <1>4, <2>1, <2>3
    <3> QED BY <1>5, <3>1
  <2> QED BY <1>4, <1>6, <2>1, <2>3, <2>4 DEF Precedes
<1>11. ASSUME NEW p, NEW q, Precedes(t, p, q) PROVE Precedes(s, p, q)
  <2>1. PICK m \in 1..size, n \in 1..size : m < n /\ t[m] = p /\ t[n] = q
    BY <1>6, <1>11 DEF Precedes
  <2>2. at[m] < at[n] /\ at[m] \in 1..Len(s) /\ at[n] \in 1..Len(s) /\ s[at[m]] = p /\ s[at[n]] = q
    BY <1>4, <1>5, <2>1
  <2> QED BY <1>1, <2>2 DEF Precedes
<1>12. ASSUME s # <<>>, Head(s) # e PROVE t # <<>> /\ Head(t) = Head(s)
  <2>1. Head(s) = s[1] /\ 1 \in 1..Len(s)
    BY <1>12, SetOf
  <2>2. PICK n \in 1..size : at[n] = 1
    BY <1>2, <1>4, <1>12, <2>1
  <2>3. 1 \in 1..size /\ (n = 1 \/ 1 < n)
    BY <1>4
  <2>4. n = 1
    <3>1. 1 < n => at[1] < 1 /\ at[1] \in 1..Len(s)
      BY <1>4, <1>5, <2>2, <2>3
    <3> QED BY <1>1, <2>3, <3>1
  <2>5. t # <<>> /\ t[1] = s[1]
    BY <1>4, <2>2, <2>3, <2>4
  <2>6. Head(t) = t[1]
    BY <1>4, <2>5, SetOf
  <2> QED BY <2>1, <2>5, <2>6
<1> QED BY <1>4, <1>7, <1>9, <1>10, <1>11, <1>12 DEF t

LEMMA FirstOf ==
    ASSUME NEW s \in Seq(Roots), s # <<>>, IsInjective(s)
    PROVE  /\ \A q \in ToSet(s) : q # Head(s) => Precedes(s, Head(s), q)
           /\ \A p : ~Precedes(s, p, Head(s))
           /\ \A p \in ToSet(s) : ~Precedes(s, p, p)
<1>1. Head(s) = s[1] /\ 1 \in 1..Len(s) /\ DOMAIN s = 1..Len(s) /\ Len(s) \in Nat
  BY SetOf
<1>2. \A i \in 1..Len(s) : i = 1 \/ 1 < i
  BY <1>1
<1>3. \A q : q \in ToSet(s) <=> \E i \in 1..Len(s) : s[i] = q
  BY SetOf
<1>4. \A q \in ToSet(s) : q # Head(s) => Precedes(s, Head(s), q)
  BY <1>1, <1>2, <1>3 DEF Precedes
<1>5. \A i \in 1..Len(s) : \A j \in 1..Len(s) : s[i] = s[j] => i = j
  BY <1>1 DEF IsInjective
<1>6. \A p : ~Precedes(s, p, Head(s))
  BY <1>1, <1>2, <1>5 DEF Precedes
<1>7. \A p \in ToSet(s) : ~Precedes(s, p, p)
  BY <1>1, <1>5 DEF Precedes
<1> QED BY <1>4, <1>6, <1>7

\* A list that goes on as another did begins as it does, if it has the first of it.
LEMMA SameFirst ==
    ASSUME NEW s \in Seq(Roots), NEW t \in Seq(Roots), s # <<>>, t # <<>>, IsInjective(s), IsInjective(t),
           Head(s) \in ToSet(t), Continues(s, t)
    PROVE  Head(t) = Head(s)
<1>1. Head(s) \in ToSet(s) /\ Head(t) \in ToSet(t)
  BY SetOf
<1>2. ASSUME Head(t) # Head(s) PROVE FALSE
  <2>1. Head(t) \in ToSet(s) => Precedes(s, Head(s), Head(t))
    BY <1>2, FirstOf
  <2>2. Precedes(t, Head(s), Head(t))
    BY <1>1, <2>1 DEF Continues
  <2> QED BY <2>2, FirstOf
<1> QED BY <1>2

LEMMA ContinuesItself == ASSUME NEW s PROVE Continues(s, s)
BY DEF Continues

LEMMA ContinuesAppended ==
    ASSUME NEW s \in Seq(Roots), NEW t \in Seq(Roots), NEW e \in Roots, e \notin ToSet(s), e \notin ToSet(t),
           IsInjective(t), Continues(s, t)
    PROVE  Continues(s, Append(t, e))
<1> PICK u : u = Append(t, e)
  OBVIOUS
<1>1. /\ ToSet(u) = ToSet(t) \cup {e}
      /\ \A p, q : Precedes(t, p, q) => Precedes(u, p, q)
      /\ \A p \in ToSet(t) : Precedes(u, p, e)
  BY Appended
<1>2. Continues(s, u)
  BY <1>1 DEF Continues
<1> QED BY <1>2

LEMMA ContinuesWithout ==
    ASSUME NEW s \in Seq(Roots), NEW t \in Seq(Roots), NEW e, IsInjective(t), Continues(s, t)
    PROVE  Continues(s, Without(t, e))
<1> PICK u : u = Without(t, e)
  OBVIOUS
<1>1. /\ ToSet(u) = ToSet(t) \ {e}
      /\ \A p, q : p # e /\ q # e /\ Precedes(t, p, q) => Precedes(u, p, q)
  BY LeftWithout
<1>2. Continues(s, u)
  BY <1>1 DEF Continues
<1> QED BY <1>2

LEMMA WithoutContinues ==
    ASSUME NEW s \in Seq(Roots), NEW t \in Seq(Roots), NEW e, e \notin ToSet(t), IsInjective(s), Continues(s, t)
    PROVE  Continues(Without(s, e), t)
<1> PICK u : u = Without(s, e)
  OBVIOUS
<1>1. /\ ToSet(u) = ToSet(s) \ {e}
      /\ \A p, q : Precedes(u, p, q) => Precedes(s, p, q)
  BY LeftWithout
<1>2. Continues(u, t)
  BY <1>1 DEF Continues
<1> QED BY <1>2

-----------------------------------------------------------------------------
(* Of pages and requests. *)

LEMMA Tabs ==
    ASSUME NEW p \in Pages
    PROVE  /\ OpenTabs(p) \in Seq(Roots)
           /\ p.list = NoList => OpenTabs(p) = <<>>
           /\ p.list # NoList => OpenTabs(p) = p.list /\ ~IsPending(p)
           /\ p.failed => ~IsPending(p)
BY NoListIsNoList, NoneInEmpty DEF Pages, OpenTabs, IsPending

LEMMA ActiveIs ==
    ASSUME NEW p \in Pages
    PROVE  /\ p.chosen \in ToSet(OpenTabs(p)) => Active(p) = p.chosen
           /\ p.chosen \notin ToSet(OpenTabs(p)) /\ OpenTabs(p) # <<>> => Active(p) = Head(OpenTabs(p))
           /\ OpenTabs(p) = <<>> => Active(p) = None
           /\ OpenTabs(p) # <<>> => Active(p) \in ToSet(OpenTabs(p)) /\ Active(p) # None /\ Active(p) \in Roots
<1> PICK s : s = OpenTabs(p)
  OBVIOUS
<1>1. s \in Seq(Roots) /\ ToSet(s) \subseteq Roots /\ (s # <<>> => Head(s) \in ToSet(s)) /\ ToSet(<<>>) = {}
  BY Tabs, SetOf, NoneInEmpty
<1>2. \A q \in Roots : q # None
  BY NoTwo
<1> QED BY <1>1, <1>2 DEF Active

LEMMA Asked ==
    /\ \A cs, q : q \in Closers(cs) <=> \E c \in cs : c.what = "close" /\ c.path = q
    /\ \A cs, q : q \in Bringers(cs) <=> \E c \in cs : c.what = "open" /\ c.at # "asked" /\ c.path = q
BY DEF Closers, Bringers

\* What remains of a list when its first is taken.
LEMMA Rest ==
    ASSUME NEW s \in Seq(Roots), s # <<>>
    PROVE  Tail(s) \in Seq(Roots) /\ ToSet(s) = {Head(s)} \cup ToSet(Tail(s)) /\ Head(s) \in Roots
<1>1. /\ Tail(s) \in Seq(Roots) /\ Len(s) \in Nat /\ Len(s) >= 1 /\ Len(Tail(s)) = Len(s) - 1 /\ Head(s) = s[1]
      /\ \A i \in 1..(Len(s) - 1) : Tail(s)[i] = s[i + 1]
  OBVIOUS
<1>2. \A i \in 1..Len(s) : i = 1 \/ (i - 1 \in 1..(Len(s) - 1) /\ (i - 1) + 1 = i)
  BY <1>1
<1>3. \A i \in 1..(Len(s) - 1) : i + 1 \in 1..Len(s)
  BY <1>1
<1>4. 1 \in 1..Len(s)
  BY <1>1
<1> PICK t : t = Tail(s)
  OBVIOUS
<1>5. \A x : x \in ToSet(s) <=> \E i \in 1..Len(s) : s[i] = x
  BY SetOf
<1>6. \A x : x \in ToSet(t) <=> \E i \in 1..Len(t) : t[i] = x
  BY <1>1, SetOf
<1>7. Len(t) = Len(s) - 1 /\ \A i \in 1..(Len(s) - 1) : t[i] = s[i + 1]
  BY <1>1
<1>8. \A x : x \in ToSet(t) => x \in ToSet(s)
  BY <1>3, <1>5, <1>6, <1>7
<1>9. ASSUME NEW x \in ToSet(s), x # s[1] PROVE x \in ToSet(t)
  <2>1. PICK i \in 1..Len(s) : s[i] = x
    BY <1>5
  <2>2. i - 1 \in 1..(Len(s) - 1) /\ (i - 1) + 1 = i
    BY <1>2, <1>9, <2>1
  <2>3. t[i - 1] = x
    BY <1>7, <2>1, <2>2
  <2> QED BY <1>6, <1>7, <2>2, <2>3
<1>10. s[1] \in ToSet(s) /\ s[1] \in Roots
  BY <1>4, <1>5
<1> QED BY <1>1, <1>8, <1>9, <1>10

-----------------------------------------------------------------------------
(* What a render does, of a page that is not reopening and has its list. *)

LEMMA RenderOfTheSame ==
    ASSUME NEW p \in Pages, NEW s \in Stores, Render(p, s), ~p.restoring, ~IsPending(p),
           OpenTabs(p) = OpenTabs(page), ~IsPending(page)
    PROVE  /\ page' = p /\ pass' = pass
           /\ stored' = IF Active(p) # Active(page) THEN MirrorActive(p, s) ELSE s
<1>1. ~(OpenTabs(p) # OpenTabs(page) \/ IsPending(p) # IsPending(page))
  BY DEF IsPending
<1> QED BY <1>1 DEF Render

LEMMA RenderOfNone ==
    ASSUME NEW p \in Pages, NEW s \in Stores, Render(p, s), ~p.restoring, ~IsPending(p),
           OpenTabs(p) # OpenTabs(page) \/ IsPending(page), OpenTabs(p) = <<>>
    PROVE  IF s.paths # <<>>
           THEN page' = [p EXCEPT !.restoring = TRUE] /\ pass' = [at |-> "opening", left |-> s.paths] /\ stored' = s
           ELSE page' = [p EXCEPT !.ready = TRUE] /\ pass' = pass /\ stored' = s
<1> PICK q : q = Restore(p, s)
  OBVIOUS
<1>1. q = IF s.paths # <<>> THEN [p EXCEPT !.restoring = TRUE] ELSE [p EXCEPT !.ready = TRUE]
  BY DEF Restore
<1>2. q \in Pages /\ OpenTabs(q) = <<>> /\ q.restoring = (s.paths # <<>>)
  BY <1>1 DEF Pages, OpenTabs
<1>3. RestoreActive(q, MirrorPaths(q, s)) = q
  BY <1>2 DEF RestoreActive
<1>4. Active(q) = None
  BY <1>2, ActiveIs
<1>5. MirrorPaths(q, s) = s
  BY <1>1, <1>2 DEF MirrorPaths, Stores
<1>6. MirrorActive(q, s) = s
  BY <1>4 DEF MirrorActive
<1>7. page' = q /\ stored' = s
  BY <1>3, <1>4, <1>5, <1>6 DEF Render
<1>8. pass' = IF q.restoring /\ ~p.restoring THEN [at |-> "opening", left |-> s.paths] ELSE pass
  BY DEF Render
<1> QED BY <1>1, <1>2, <1>7, <1>8

LEMMA RenderOfSome ==
    ASSUME NEW p \in Pages, NEW s \in Stores, Render(p, s), ~p.restoring, ~IsPending(p),
           OpenTabs(p) # OpenTabs(page) \/ IsPending(page), OpenTabs(p) # <<>>
    PROVE  /\ page' \in Pages /\ page'.list = p.list /\ page'.failed = p.failed
           /\ ~page'.restoring /\ page'.restoredActive
           /\ page'.chosen = IF ~p.restoredActive /\ s.active \in ToSet(OpenTabs(p)) THEN s.active ELSE p.chosen
           /\ stored' \in Stores /\ stored'.paths = OpenTabs(p) /\ stored'.active = Active(page')
           /\ pass' = pass
<1> PICK q : q = [p EXCEPT !.ready = TRUE]
  OBVIOUS
<1>1. q = Restore(p, s)
  BY DEF Restore
<1>2. /\ q \in Pages /\ q.list = p.list /\ q.failed = p.failed /\ q.chosen = p.chosen
      /\ q.ready /\ q.restoredActive = p.restoredActive /\ ~q.restoring
  BY DEF Pages
<1>3. OpenTabs(q) = OpenTabs(p) /\ ~IsPending(q)
  BY <1>2 DEF OpenTabs, IsPending
<1> PICK m : m = MirrorPaths(q, s)
  OBVIOUS
<1>4. m = [paths |-> OpenTabs(p), active |-> s.active]
  BY <1>2, <1>3 DEF MirrorPaths, Stores
<1> PICK w : w = RestoreActive(q, m)
  OBVIOUS
<1>5. /\ w.list = p.list /\ w.failed = p.failed /\ ~w.restoring /\ w.restoredActive
      /\ w.chosen = IF ~p.restoredActive /\ s.active \in ToSet(OpenTabs(p)) THEN s.active ELSE p.chosen
      /\ w \in Pages
  <2>1. CASE q.restoredActive
    BY <1>2, <2>1 DEF RestoreActive
  <2>2. CASE ~q.restoredActive
    <3>1. w = [q EXCEPT !.restoredActive = TRUE,
                        !.chosen = IF s.active \in ToSet(OpenTabs(p)) THEN s.active ELSE @]
      <4>1. ~(q.restoredActive \/ OpenTabs(q) = <<>>) /\ m.active = s.active
        BY <1>3, <1>4, <2>2
      <4> QED BY <1>3, <4>1 DEF RestoreActive
    <3>2. s.active \in Roots \cup {None}
      BY DEF Stores
    <3> QED BY <1>2, <2>2, <3>1, <3>2 DEF Pages
  <2> QED BY <2>1, <2>2
<1>6. OpenTabs(w) = OpenTabs(p)
  BY <1>5 DEF OpenTabs
<1>7. Active(w) # None
  BY <1>5, <1>6, ActiveIs
<1>8. /\ MirrorActive(w, m) \in Stores
      /\ MirrorActive(w, m).paths = OpenTabs(p) /\ MirrorActive(w, m).active = Active(w)
  <2>1. MirrorActive(w, m) = [m EXCEPT !.active = Active(w)]
    BY <1>5, <1>7 DEF MirrorActive
  <2>2. m \in Stores /\ m.paths = OpenTabs(p)
    BY <1>4, Tabs DEF Stores
  <2>3. Active(w) \in Roots
    BY <1>5, <1>6, ActiveIs
  <2> QED BY <2>1, <2>2, <2>3 DEF Stores
<1>9. page' = w /\ stored' = MirrorActive(w, m)
  BY <1>1 DEF Render
<1>10. pass' = pass
  BY <1>1, <1>2 DEF Render
<1> QED BY <1>5, <1>8, <1>9, <1>10

-----------------------------------------------------------------------------
(* The invariant through each step, of the list first. *)

LEMMA OnlyThose ==
    ASSUME OnlyFailing, TabsInv
    PROVE  /\ Undisturbed => pass.at = "none"
           /\ Unaware <=> unseen
           /\ ~("overtaken" \in MayHappen) /\ ~("together" \in MayHappen) /\ ~("unseen" \in MayHappen)
           /\ ~("unlisted" \in MayHappen) /\ ~("final" \in MayHappen)
           /\ ~Standing => calls = {}
BY DEF OnlyFailing, TabInterruptions, Undisturbed, Unaware, TabsInv, InCalls

LEMMA DaemonListsKeeps ==
    ASSUME TabsInv, OnlyFailing, DaemonLists
    PROVE  TabsInv'
<1>1. /\ reading.at = "asked" /\ ~Replied /\ reading' = [at |-> "answered", list |-> registry]
      /\ \A c \in calls : c.what = "close" => c.at # "done"
      /\ UNCHANGED <<onDisk, registry, stored, page, pass, calls, unseen, wanted, closed, viewed>>
  BY OnlyThose DEF DaemonLists, Replied
<1>2. Replied' /\ reading'.list = registry /\ reading'.at # "none"
  BY <1>1 DEF Replied
<1>3. ToSet(reading.list)' = Held
  BY <1>2 DEF Held
<1>4. /\ Listed' = Listed /\ Held' = Held /\ Standing' = Standing
      /\ Closers(calls)' = Closers(calls) /\ Bringers(calls)' = Bringers(calls)
  BY <1>1 DEF Listed, Held, Standing
<1> USE DEF TabsInv
<1>5. TabsTypes'
  BY <1>1 DEF TabsTypes
<1>6. InCalls'
  <2>1. \A c \in calls : c.at \in {"asked", "done", "listing"}
    BY DEF TabsTypes, Calls
  <2> QED BY <1>1, <1>2, <1>3, <1>4, <2>1 DEF InCalls
<1>7. InPass' /\ InPage' /\ InLists'
  BY <1>1, <1>2, <1>4 DEF InPass, InPage, InLists
<1>8. InReading'
  <2>1. ~unseen /\ ~page.restoring => wanted \ Closers(calls) \subseteq Held
    BY DEF InLists
  <2>2. page.restoring => wanted \subseteq Held
    BY <1>1 DEF InPass, TabsTypes
  <2>3. unseen /\ ~page.restoring => registry = <<>>
    BY DEF InPass
  <2>4. Standing => Held \subseteq Listed \cup Bringers(calls)
    BY DEF InLists
  <2>5. unseen' = unseen /\ page' = page /\ wanted' = wanted
    BY <1>1
  <2> QED BY <1>2, <1>3, <1>4, <2>1, <2>2, <2>3, <2>4, <2>5 DEF InReading
<1>9. InOrder'
  BY <1>1, <1>2, <1>4, ContinuesItself DEF InOrder
<1>10. OnScreen'
  BY <1>1, <1>4 DEF OnScreen
<1>11. Gone'
  BY <1>1, <1>2, <1>3, <1>4 DEF Gone
<1> QED BY <1>5, <1>6, <1>7, <1>8, <1>9, <1>10, <1>11

LEMMA RefetchKeeps ==
    ASSUME TabsInv, OnlyFailing, Refetch
    PROVE  TabsInv'
<1>1. /\ reading.at = "none" /\ pass.at = "none" /\ reading' = [at |-> "asked", list |-> <<>>]
      /\ UNCHANGED <<onDisk, registry, stored, page, pass, calls, unseen, wanted, closed, viewed>>
  BY OnlyThose DEF Refetch, NoRead, ListAsked
<1>2. /\ Listed' = Listed /\ Held' = Held /\ Standing' = Standing /\ ~Replied /\ ~Replied'
      /\ Closers(calls)' = Closers(calls) /\ Bringers(calls)' = Bringers(calls)
  BY <1>1 DEF Listed, Held, Standing, Replied
<1> USE DEF TabsInv
<1>3. TabsTypes'
  BY <1>1, NoneInEmpty DEF TabsTypes
<1>4. InCalls' /\ InPass' /\ InPage' /\ InLists' /\ InReading'
  BY <1>1, <1>2 DEF InCalls, InPass, InPage, InLists, InReading
<1>5. InOrder' /\ OnScreen' /\ Gone'
  BY <1>1, <1>2 DEF InOrder, OnScreen, Gone
<1> QED BY <1>3, <1>4, <1>5

LEMMA RereadKeeps ==
    ASSUME TabsInv, OnlyFailing, Reread
    PROVE  TabsInv'
<1>1. /\ pass.at = "opening" /\ pass.left = <<>> /\ pass' = [pass EXCEPT !.at = "listing"]
      /\ reading' = Invalidated(page)
      /\ UNCHANGED <<onDisk, registry, stored, page, calls, unseen, wanted, closed, viewed>>
  BY DEF Reread
<1> USE DEF TabsInv
<1>2. page.restoring /\ reading.at = "none"
  BY <1>1 DEF InPass
<1>3. reading' = [at |-> "asked", list |-> <<>>]
  BY <1>1, <1>2 DEF Invalidated, ListAsked
<1>4. /\ Listed' = Listed /\ Held' = Held /\ Standing' = Standing /\ ~Replied /\ ~Replied'
      /\ Closers(calls)' = Closers(calls) /\ Bringers(calls)' = Bringers(calls)
  BY <1>1, <1>2, <1>3 DEF Listed, Held, Standing, Replied
<1>5. pass'.at = "listing" /\ pass'.left = <<>>
      /\ pass' \in [at : {"none", "opening", "listing", "again"}, left : Seq(Roots)]
  BY <1>1 DEF TabsTypes
<1>6. TabsTypes'
  BY <1>1, <1>3, <1>5, NoneInEmpty DEF TabsTypes
<1>7. InPass'
  BY <1>1, <1>2, <1>4, <1>5, NoneInEmpty DEF InPass
<1>8. InCalls' /\ InPage' /\ InLists' /\ InReading'
  BY <1>1, <1>4 DEF InCalls, InPage, InLists, InReading
<1>9. InOrder' /\ OnScreen' /\ Gone'
  BY <1>1, <1>4, <1>5 DEF InOrder, OnScreen, Gone
<1> QED BY <1>6, <1>7, <1>8, <1>9

LEMMA RereadFailsKeeps ==
    ASSUME TabsInv, OnlyFailing, RereadFails
    PROVE  TabsInv'
<1>1. /\ reading.at = "asked" /\ pass.at = "listing" /\ reading' = [at |-> "asked", list |-> <<>>]
      /\ pass' = [pass EXCEPT !.at = "again"] /\ page' = [page EXCEPT !.failed = TRUE]
      /\ UNCHANGED <<onDisk, registry, stored, calls, unseen, wanted, closed, viewed>>
  BY OnlyThose DEF RereadFails, ListAsked
<1> USE DEF TabsInv
<1>2. page.restoring
  BY <1>1 DEF InPass
<1>3. /\ page' \in Pages /\ page'.list = page.list /\ page'.chosen = page.chosen /\ page'.restoring = page.restoring
      /\ page'.restoredActive = page.restoredActive /\ OpenTabs(page)' = OpenTabs(page)
  BY <1>1 DEF TabsTypes, Pages, OpenTabs
<1>4. /\ Listed' = Listed /\ Held' = Held /\ ~Standing /\ ~Standing' /\ ~Replied /\ ~Replied'
      /\ Closers(calls)' = Closers(calls) /\ Bringers(calls)' = Bringers(calls)
  BY <1>1, <1>2, <1>3 DEF Listed, Held, Standing, Replied
<1>5. pass'.at = "again" /\ pass'.left = pass.left
      /\ pass' \in [at : {"none", "opening", "listing", "again"}, left : Seq(Roots)]
  BY <1>1 DEF TabsTypes
<1>6. TabsTypes'
  BY <1>1, <1>3, <1>5, NoneInEmpty DEF TabsTypes
<1>7. InPass'
  BY <1>1, <1>2, <1>3, <1>4, <1>5 DEF InPass
<1>8. InCalls' /\ InPage' /\ InLists' /\ InReading'
  BY <1>1, <1>2, <1>3, <1>4 DEF InCalls, InPage, InLists, InReading
<1>9. InOrder' /\ OnScreen' /\ Gone'
  BY <1>1, <1>2, <1>3, <1>4, <1>5 DEF InOrder, OnScreen, Gone
<1> QED BY <1>6, <1>7, <1>8, <1>9

LEMMA MoveKeeps ==
    ASSUME TabsInv, NEW p \in Roots, Move(p)
    PROVE  TabsInv'
<1>1. /\ onDisk' \subseteq Roots \/ ~(onDisk \subseteq Roots)
      /\ UNCHANGED <<registry, stored, page, reading, pass, calls, unseen, wanted, closed, viewed>>
  BY DEF Move
<1>2. /\ Listed' = Listed /\ Held' = Held /\ Standing' = Standing /\ Replied' = Replied
      /\ Closers(calls)' = Closers(calls) /\ Bringers(calls)' = Bringers(calls)
  BY <1>1 DEF Listed, Held, Standing, Replied
<1> USE DEF TabsInv
<1>3. TabsTypes'
  BY <1>1 DEF TabsTypes
<1>4. InCalls' /\ InPass' /\ InPage' /\ InLists' /\ InReading'
  BY <1>1, <1>2 DEF InCalls, InPass, InPage, InLists, InReading
<1>5. InOrder' /\ OnScreen' /\ Gone'
  BY <1>1, <1>2 DEF InOrder, OnScreen, Gone
<1> QED BY <1>3, <1>4, <1>5

LEMMA ReopenKeeps ==
    ASSUME TabsInv, Reopen
    PROVE  TabsInv' /\ (Held' \ Held) \cap closed = {}
<1> PICK h, rest : h = Head(pass.left) /\ rest = Tail(pass.left)
  OBVIOUS
<1>1. /\ pass.at = "opening" /\ pass.left # <<>>
      /\ registry' = IF h \in onDisk THEN Opened(h) ELSE registry
      /\ wanted' = IF h \in onDisk THEN wanted ELSE wanted \ {h}
      /\ pass' = [pass EXCEPT !.left = rest]
      /\ UNCHANGED <<onDisk, stored, page, reading, calls, unseen, closed, viewed>>
  BY DEF Reopen
<1> USE DEF TabsInv
<1>2. page.restoring /\ ~Replied /\ ~Standing /\ calls = {} /\ Listed = {}
  BY <1>1, NoneInEmpty DEF InPass, InCalls, Replied, Standing, Listed
<1>3. /\ pass.left \in Seq(Roots) /\ rest \in Seq(Roots) /\ h \in Roots
      /\ ToSet(pass.left) = {h} \cup ToSet(rest)
  <2>1. pass.left \in Seq(Roots)
    BY DEF TabsTypes
  <2> QED BY <1>1, <2>1, Rest
<1>4. /\ Listed' = Listed /\ ~Standing' /\ ~Replied'
      /\ Closers(calls)' = Closers(calls) /\ Bringers(calls)' = Bringers(calls)
  BY <1>1, <1>2 DEF Listed, Standing, Replied
<1>5. /\ registry' \in Seq(Roots) /\ IsInjective(registry')
      /\ Held' = Held \/ (h \in onDisk /\ Held' = Held \cup {h})
      /\ h \in onDisk => h \in Held'
  <2>1. registry \in Seq(Roots) /\ IsInjective(registry)
    BY DEF TabsTypes
  <2>2. CASE h \in onDisk /\ h \notin Held
    <3>1. registry' = Append(registry, h)
      BY <1>1, <2>2 DEF Opened, Held
    <3> QED BY <1>3, <2>1, <2>2, <3>1, Appended DEF Held
  <2>3. CASE ~(h \in onDisk /\ h \notin Held)
    <3>1. registry' = registry
      BY <1>1, <2>3 DEF Opened, Held
    <3> QED BY <2>1, <2>3, <3>1 DEF Held
  <2> QED BY <2>2, <2>3
<1>6. pass'.at = "opening" /\ pass'.left = rest
      /\ pass' \in [at : {"none", "opening", "listing", "again"}, left : Seq(Roots)]
  BY <1>1, <1>3 DEF TabsTypes
<1>7. TabsTypes'
  BY <1>1, <1>5, <1>6 DEF TabsTypes
<1>8. InCalls'
  BY <1>1, <1>2 DEF InCalls
<1>9. InPass'
  <2>1. wanted \subseteq Held \cup ToSet(pass.left) /\ reading.at = "none" /\ OpenTabs(page) = <<>>
    BY <1>1, <1>2 DEF InPass
  <2>2. wanted' \subseteq Held' \cup ToSet(rest)
    BY <1>1, <1>3, <1>5, <2>1
  <2> QED BY <1>1, <1>2, <1>6, <2>1, <2>2 DEF InPass
<1>10. InPage' /\ InLists' /\ InReading' /\ InOrder'
  BY <1>1, <1>2, <1>4 DEF InPage, InLists, InReading, InOrder
<1>11. OnScreen'
  BY <1>1, <1>2 DEF OnScreen
<1>12. h \notin closed /\ Gone'
  BY <1>1, <1>3, <1>4, <1>5, <1>6 DEF Gone
<1> QED BY <1>5, <1>7, <1>8, <1>9, <1>10, <1>11, <1>12

LEMMA EndPassKeeps ==
    ASSUME TabsInv, EndPass
    PROVE  TabsInv'
<1> USE DEF TabsInv
<1> PICK R, S : R = reading.list /\ S = stored.active
  OBVIOUS
<1>1. /\ Replied /\ pass.at \in {"listing", "again"} /\ page.restoring /\ calls = {} /\ Waiting = {}
      /\ ~Standing
  BY DEF EndPass, Replied, InPass, InCalls, Standing, Waiting
<1>2. \E q \in IF {r \in {S} : r \in ToSet(R)} = {} THEN {page.chosen} ELSE {r \in {S} : r \in ToSet(R)} :
         page' = [list |-> R, failed |-> FALSE, chosen |-> q,
                  ready |-> TRUE, restoredActive |-> TRUE, restoring |-> FALSE]
  <2>1. {c.path : c \in Waiting} = {}
    BY <1>1
  <2> QED BY <2>1 DEF EndPass
<1>3. /\ stored' = MirrorActive(page', [stored EXCEPT !.paths = R])
      /\ viewed' = Seen /\ pass' = [at |-> "none", left |-> <<>>] /\ reading' = [at |-> "none", list |-> <<>>]
      /\ calls' = {} /\ wanted' = wanted \cup ToSet(R) /\ unseen' = FALSE
      /\ UNCHANGED <<onDisk, registry, closed>>
  BY <1>1 DEF EndPass, NoPass, NoRead
<1>4. R \in Seq(Roots) /\ IsInjective(R) /\ S \in Roots \cup {None} /\ page.chosen \in Roots \cup {None}
      /\ ToSet(R) \subseteq Roots /\ (R = <<>> <=> ToSet(R) = {})
  <2>1. R \in Seq(Roots)
    BY DEF TabsTypes
  <2>2. IsInjective(R) /\ S \in Roots \cup {None} /\ page.chosen \in Roots \cup {None}
    BY DEF TabsTypes, Stores, Pages
  <2> QED BY <2>1, <2>2, SetOf
<1>5. /\ page' \in Pages /\ page'.list = R /\ ~page'.failed /\ page'.restoredActive /\ ~page'.restoring
      /\ S \in ToSet(R) => page'.chosen = S
  BY <1>2, <1>4 DEF Pages
<1>6. R # NoList /\ OpenTabs(page') = R /\ Standing' /\ Listed' = ToSet(R)
  BY <1>4, <1>5, Tabs, NoListIsNoList DEF Standing, Listed
<1>7. /\ stored' \in Stores /\ stored'.paths = R
      /\ R # <<>> => stored'.active = Active(page')
  <2>1. /\ [stored EXCEPT !.paths = R] \in Stores
        /\ [stored EXCEPT !.paths = R].paths = R
    BY <1>4 DEF TabsTypes, Stores
  <2> PICK s : s = [stored EXCEPT !.paths = R]
    OBVIOUS
  <2>2. CASE R = <<>>
    <3>1. Active(page') = None
      BY <1>5, <1>6, <2>2, ActiveIs
    <3>2. stored' = s
      BY <1>3, <3>1 DEF MirrorActive
    <3> QED BY <2>1, <2>2, <3>2
  <2>3. CASE R # <<>>
    <3>1. Active(page') \in Roots /\ Active(page') # None
      BY <1>5, <1>6, <2>3, ActiveIs
    <3>2. stored' = [s EXCEPT !.active = Active(page')]
      BY <1>3, <1>5, <3>1 DEF MirrorActive
    <3> QED BY <2>1, <3>1, <3>2 DEF Stores
  <2> QED BY <2>2, <2>3
<1>8. viewed = S
  BY <1>1 DEF OnScreen
<1>9. R # <<>> => viewed' = Active(page')
  <2>1. viewed' = IF viewed \in ToSet(R) THEN viewed ELSE Active(page')
    BY <1>3, <1>5, <1>6 DEF Seen
  <2>2. S \in ToSet(R) => Active(page') = S
    BY <1>5, <1>6, ActiveIs
  <2> QED BY <1>8, <2>1, <2>2
<1>10. viewed' \in Roots \cup {None}
  BY <1>3, <1>4, <1>5, <1>6, <1>8, <1>9, ActiveIs DEF Seen
<1>11. /\ Closers(calls) = {} /\ Bringers(calls) = {} /\ Closers(calls)' = {} /\ Bringers(calls)' = {}
  BY <1>1, <1>3 DEF Closers, Bringers
<1>12. ToSet(R) = Held /\ wanted \subseteq ToSet(R) /\ wanted \subseteq Held /\ Held' = Held
  BY <1>1, <1>3, <1>11 DEF InReading, InPass, Held
<1>13. ~Replied'
  BY <1>3 DEF Replied
<1>14. TabsTypes'
  BY <1>3, <1>4, <1>5, <1>6, <1>7, <1>10, NoneInEmpty DEF TabsTypes
<1>15. InCalls'
  BY <1>3 DEF InCalls
<1>16. InPass'
  BY <1>3, <1>5 DEF InPass
<1>17. InPage'
  BY <1>3, <1>5, <1>6, <1>7 DEF InPage
<1>18. InLists' /\ InReading'
  BY <1>3, <1>6, <1>7, <1>11, <1>12, <1>13 DEF InLists, InReading
<1>19. InOrder'
  <2>1. Continues(R, registry)
    BY <1>1 DEF InOrder
  <2> QED BY <1>3, <1>5, <1>13, <2>1 DEF InOrder
<1>20. OnScreen'
  BY <1>5, <1>6, <1>7, <1>9 DEF OnScreen
<1>21. Gone'
  BY <1>1, <1>3, <1>7, <1>12, <1>13, NoneInEmpty DEF Gone
<1> QED BY <1>14, <1>15, <1>16, <1>17, <1>18, <1>19, <1>20, <1>21

-----------------------------------------------------------------------------
(* The requests of the user. *)

\* Of those who close and those who bring, with one request more.
LEMMA WithCall ==
    ASSUME NEW cs, NEW d
    PROVE  /\ d.what = "close" => Closers(cs \cup {d}) = Closers(cs) \cup {d.path}
           /\ d.what # "close" => Closers(cs \cup {d}) = Closers(cs)
           /\ d.what = "open" /\ d.at # "asked" => Bringers(cs \cup {d}) = Bringers(cs) \cup {d.path}
           /\ d.what # "open" \/ d.at = "asked" => Bringers(cs \cup {d}) = Bringers(cs)
<1> PICK ds : ds = cs \cup {d}
  OBVIOUS
<1>1. \A q : q \in Closers(cs) <=> \E c \in cs : c.what = "close" /\ c.path = q
  BY Asked
<1>2. \A q : q \in Closers(ds) <=> \E c \in ds : c.what = "close" /\ c.path = q
  BY Asked
<1>3. \A q : q \in Bringers(cs) <=> \E c \in cs : c.what = "open" /\ c.at # "asked" /\ c.path = q
  BY Asked
<1>4. \A q : q \in Bringers(ds) <=> \E c \in ds : c.what = "open" /\ c.at # "asked" /\ c.path = q
  BY Asked
<1>5. \A c : c \in ds <=> c \in cs \/ c = d
  OBVIOUS
<1>6. \A q : q \in Closers(ds) <=> q \in Closers(cs) \/ (d.what = "close" /\ q = d.path)
  BY <1>1, <1>2, <1>5
<1>7. \A q : q \in Bringers(ds) <=> q \in Bringers(cs) \/ (d.what = "open" /\ d.at # "asked" /\ q = d.path)
  BY <1>3, <1>4, <1>5
<1> QED BY <1>6, <1>7

\* And with one less, the only one of its path.
LEMMA WithoutCall ==
    ASSUME NEW cs, NEW c \in cs, \A e \in cs : e.path = c.path => e = c
    PROVE  /\ Closers(cs \ {c}) = Closers(cs) \ {c.path}
           /\ Bringers(cs \ {c}) = Bringers(cs) \ {c.path}
           /\ c.path \in Closers(cs) <=> c.what = "close"
           /\ c.path \in Bringers(cs) <=> c.what = "open" /\ c.at # "asked"
<1> PICK ds : ds = cs \ {c}
  OBVIOUS
<1>1. \A q : q \in Closers(cs) <=> \E e \in cs : e.what = "close" /\ e.path = q
  BY Asked
<1>2. \A q : q \in Closers(ds) <=> \E e \in ds : e.what = "close" /\ e.path = q
  BY Asked
<1>3. \A q : q \in Bringers(cs) <=> \E e \in cs : e.what = "open" /\ e.at # "asked" /\ e.path = q
  BY Asked
<1>4. \A q : q \in Bringers(ds) <=> \E e \in ds : e.what = "open" /\ e.at # "asked" /\ e.path = q
  BY Asked
<1>5. \A e : e \in ds <=> e \in cs /\ e.path # c.path
  OBVIOUS
<1>6. \A q : q \in Closers(ds) <=> q \in Closers(cs) /\ q # c.path
  BY <1>1, <1>2, <1>5
<1>7. \A q : q \in Bringers(ds) <=> q \in Bringers(cs) /\ q # c.path
  BY <1>3, <1>4, <1>5
<1>8. c.path \in Closers(cs) <=> c.what = "close"
  BY <1>1
<1>9. c.path \in Bringers(cs) <=> c.what = "open" /\ c.at # "asked"
  BY <1>3
<1> QED BY <1>6, <1>7, <1>8, <1>9

\* A request that moves on keeps what it is asked of.
LEMMA TabsMoves ==
    ASSUME NEW c \in Calls, NEW at \in {"done", "listing"}, Goes(c, at), c \in calls,
           \A e \in calls : e.path = c.path => e = c
    PROVE  \E d \in Calls :
              /\ d.what = c.what /\ d.path = c.path /\ d.at = at
              /\ calls' = (calls \ {c}) \cup {d}
              /\ Closers(calls') = Closers(calls)
              /\ c.what = "open" => Bringers(calls') = Bringers(calls) \cup {c.path}
              /\ c.what = "close" => Bringers(calls') = Bringers(calls)
<1>a. PICK d : d = [c EXCEPT !.at = at]
  OBVIOUS
<1>b. PICK ds : ds = calls \ {c}
  OBVIOUS
<1>1. d \in Calls /\ d.what = c.what /\ d.path = c.path /\ d.at = at /\ c.what \in {"open", "close"}
  BY <1>a DEF Calls
<1>2. calls' = ds \cup {d}
  BY <1>a, <1>b DEF Goes
<1>3. /\ Closers(ds) = Closers(calls) \ {c.path} /\ Bringers(ds) = Bringers(calls) \ {c.path}
      /\ c.path \in Closers(calls) <=> c.what = "close"
      /\ c.path \in Bringers(calls) <=> c.what = "open" /\ c.at # "asked"
  BY <1>b, WithoutCall
<1>4. CASE c.what = "open"
  <2>1. Closers(calls') = Closers(ds) /\ Bringers(calls') = Bringers(ds) \cup {d.path}
    <3>1. Closers(ds \cup {d}) = Closers(ds) /\ Bringers(ds \cup {d}) = Bringers(ds) \cup {d.path}
      BY <1>1, <1>4, WithCall
    <3> QED BY <1>2, <3>1
  <2>2. Closers(calls') = Closers(calls) /\ Bringers(calls') = Bringers(calls) \cup {c.path}
    BY <1>1, <1>3, <1>4, <2>1
  <2> QED BY <1>1, <1>2, <1>4, <1>b, <2>2
<1>5. CASE c.what = "close"
  <2>1. Closers(calls') = Closers(ds) \cup {d.path} /\ Bringers(calls') = Bringers(ds)
    <3>1. Closers(ds \cup {d}) = Closers(ds) \cup {d.path} /\ Bringers(ds \cup {d}) = Bringers(ds)
      BY <1>1, <1>5, WithCall
    <3> QED BY <1>2, <3>1
  <2>2. Closers(calls') = Closers(calls) /\ Bringers(calls') = Bringers(calls)
    BY <1>1, <1>3, <1>5, <2>1
  <2> QED BY <1>1, <1>2, <1>5, <1>b, <2>2
<1> QED BY <1>1, <1>4, <1>5

LEMMA AskOpenKeeps ==
    ASSUME TabsInv, OnlyFailing, NEW p \in Roots, AskOpen(p)
    PROVE  TabsInv'
<1> USE DEF TabsInv
<1> PICK d : d = [what |-> "open", path |-> p, at |-> "asked"]
  OBVIOUS
<1>1. /\ ~IsPending(page) /\ ~page.failed /\ ~unseen /\ pass.at = "none"
      /\ \A c \in calls : c.path # p /\ c.what # "open"
      /\ calls' = calls \cup {d} /\ closed' = closed \ {p}
      /\ UNCHANGED <<onDisk, registry, stored, page, reading, pass, unseen, wanted, viewed>>
  BY OnlyThose DEF AskOpen, HeaderDrawn
<1>2. d \in Calls /\ d.what = "open" /\ d.path = p /\ d.at = "asked"
  BY DEF Calls
<1>3. Standing
  BY <1>1 DEF Standing, IsPending, InPass
<1>4. /\ Listed' = Listed /\ Held' = Held /\ Standing' = Standing /\ Replied' = Replied
  BY <1>1 DEF Listed, Held, Standing, Replied
<1>5. Closers(calls)' = Closers(calls) /\ Bringers(calls)' = Bringers(calls)
  BY <1>1, <1>2, WithCall
<1>6. TabsTypes'
  BY <1>1, <1>2 DEF TabsTypes
<1>7. InCalls'
  BY <1>1, <1>2, <1>3, <1>4 DEF InCalls
<1>8. InPass' /\ InPage' /\ InLists' /\ InReading'
  BY <1>1, <1>4, <1>5 DEF InPass, InPage, InLists, InReading
<1>9. InOrder' /\ OnScreen' /\ Gone'
  BY <1>1, <1>4 DEF InOrder, OnScreen, Gone
<1> QED BY <1>6, <1>7, <1>8, <1>9

LEMMA AskCloseKeeps ==
    ASSUME TabsInv, OnlyFailing, NEW p \in Roots, AskClose(p)
    PROVE  TabsInv'
<1> USE DEF TabsInv
<1> PICK d : d = [what |-> "close", path |-> p, at |-> "asked"]
  OBVIOUS
<1>1. /\ ~IsPending(page) /\ ~unseen /\ p \in Listed
      /\ \A c \in calls : c.path # p
      /\ calls' = calls \cup {d}
      /\ UNCHANGED <<onDisk, registry, stored, page, reading, pass, unseen, wanted, closed, viewed>>
  BY OnlyThose DEF AskClose, HeaderDrawn, Listed
<1>2. d \in Calls /\ d.what = "close" /\ d.path = p /\ d.at = "asked"
  BY DEF Calls
<1>3. Standing
  <2>1. page.list # NoList
    BY <1>1, NoneInEmpty DEF Listed, OpenTabs
  <2>2. ~page.restoring
    BY <1>1, NoneInEmpty DEF Listed, InPass
  <2> QED BY <2>1, <2>2 DEF Standing
<1>4. /\ Listed' = Listed /\ Held' = Held /\ Standing' = Standing /\ Replied' = Replied
  BY <1>1 DEF Listed, Held, Standing, Replied
<1>5. Closers(calls)' = Closers(calls) \cup {p} /\ Bringers(calls)' = Bringers(calls) /\ p \notin Closers(calls)
  <2>1. Closers(calls \cup {d}) = Closers(calls) \cup {p} /\ Bringers(calls \cup {d}) = Bringers(calls)
    BY <1>2, WithCall
  <2>2. p \notin Closers(calls)
    BY <1>1, Asked
  <2> QED BY <1>1, <2>1, <2>2
<1>6. p \in Held
  BY <1>1, <1>5 DEF InLists
<1>7. Replied => p \in ToSet(reading.list)
  BY <1>1, <1>5 DEF InPage, InReading
<1>8. TabsTypes'
  BY <1>1, <1>2 DEF TabsTypes
<1>9. InCalls'
  BY <1>1, <1>2, <1>3, <1>4, <1>6, <1>7 DEF InCalls
<1>10. InPass' /\ InPage' /\ InLists' /\ InReading'
  BY <1>1, <1>4, <1>5 DEF InPass, InPage, InLists, InReading
<1>11. InOrder' /\ OnScreen' /\ Gone'
  BY <1>1, <1>4 DEF InOrder, OnScreen, Gone
<1> QED BY <1>8, <1>9, <1>10, <1>11

LEMMA OpenAnsweredKeeps ==
    ASSUME TabsInv, NEW c \in calls, OpenAnswered(c)
    PROVE  TabsInv'
<1> USE DEF TabsInv
<1>1. /\ c.what = "open" /\ c.at = "done" /\ reading' = Invalidated(page) /\ Goes(c, "listing")
      /\ UNCHANGED <<onDisk, registry, stored, page, pass, unseen, wanted, closed, viewed>>
  BY DEF OpenAnswered
<1>2. Standing /\ ~unseen /\ pass.at = "none" /\ c.path \in Held /\ c.path \notin closed /\ c \in Calls
  BY <1>1 DEF InCalls, Standing, InPass, TabsTypes
<1>3. reading' = [at |-> "asked", list |-> <<>>]
  BY <1>1, <1>2 DEF Invalidated, ListAsked, Standing
<1>4. PICK d \in Calls :
         /\ d.what = "open" /\ d.path = c.path /\ d.at = "listing"
         /\ calls' = (calls \ {c}) \cup {d} /\ Closers(calls') = Closers(calls)
         /\ Bringers(calls') = Bringers(calls) \cup {c.path}
  <2>1. \A e \in calls : e.path = c.path => e = c
    BY DEF InCalls
  <2> QED BY <1>1, <1>2, <2>1, TabsMoves
<1>5. Bringers(calls)' = Bringers(calls)
  <2>1. c.path \in Bringers(calls)
    BY <1>1, Asked
  <2> QED BY <1>4, <2>1
<1>6. Listed' = Listed /\ Held' = Held /\ Standing' = Standing /\ ~Replied'
  BY <1>1, <1>3 DEF Listed, Held, Standing, Replied
<1>7. TabsTypes'
  BY <1>1, <1>3, <1>4, NoneInEmpty DEF TabsTypes
<1>8. InCalls'
  BY <1>1, <1>2, <1>4, <1>6 DEF InCalls
<1>9. InPass' /\ InPage' /\ InLists' /\ InReading'
  BY <1>1, <1>2, <1>5, <1>4, <1>6 DEF InPass, InPage, InLists, InReading
<1>10. InOrder' /\ OnScreen' /\ Gone'
  BY <1>1, <1>6 DEF InOrder, OnScreen, Gone
<1> QED BY <1>7, <1>8, <1>9, <1>10

LEMMA DaemonServesKeeps ==
    ASSUME TabsInv, NEW c \in calls, DaemonServes(c)
    PROVE  TabsInv'
<1> USE DEF TabsInv
<1> PICK k : k = c.path
  OBVIOUS
<1>1. /\ c.at = "asked"
      /\ UNCHANGED <<onDisk, stored, page, reading, pass, unseen, wanted, closed, viewed>>
  BY DEF DaemonServes
<1>2. Standing /\ ~unseen /\ pass.at = "none" /\ c \in Calls /\ k \in Roots /\ c.what \in {"open", "close"}
  BY <1>1 DEF InCalls, Standing, InPass, TabsTypes, Calls
<1>3. Listed' = Listed /\ Standing' = Standing /\ Replied' = Replied
  BY <1>1 DEF Listed, Standing, Replied
<1>4. registry \in Seq(Roots) /\ IsInjective(registry) /\ Held = ToSet(registry)
  BY DEF TabsTypes, Held
<1>5. \A e \in calls : e.path = k => e = c
  BY DEF InCalls
<1>6. CASE c.what = "open" /\ c.path \in onDisk
  <2>1. registry' = Opened(k) /\ Goes(c, "done")
    BY <1>6 DEF DaemonServes
  <2>2. PICK d \in Calls :
           /\ d.what = "open" /\ d.path = k /\ d.at = "done"
           /\ calls' = (calls \ {c}) \cup {d} /\ Closers(calls') = Closers(calls)
           /\ Bringers(calls') = Bringers(calls) \cup {k}
    BY <1>2, <1>5, <1>6, <2>1, TabsMoves
  <2>3. k \notin Closers(calls) /\ k \notin closed
    BY <1>5, <1>6, Asked DEF InCalls
  <2>4. /\ registry' \in Seq(Roots) /\ IsInjective(registry') /\ Held' = Held \cup {k}
        /\ \A s \in Seq(Roots) : Continues(s, registry) /\ (k \in ToSet(s) => k \in Held)
                                     => Continues(s, registry')
    <3>1. CASE k \in Held
      <4>1. registry' = registry
        BY <2>1, <3>1 DEF Opened, Held
      <4> QED BY <1>4, <3>1, <4>1 DEF Held
    <3>2. CASE k \notin Held
      <4>1. registry' = Append(registry, k)
        BY <2>1, <3>2 DEF Opened, Held
      <4>2. ToSet(Append(registry, k)) = Held \cup {k} /\ Append(registry, k) \in Seq(Roots)
            /\ IsInjective(Append(registry, k))
        BY <1>2, <1>4, <3>2, Appended
      <4>3. \A s \in Seq(Roots) : Continues(s, registry) /\ k \notin ToSet(s)
                                     => Continues(s, Append(registry, k))
        BY <1>2, <1>4, <3>2, ContinuesAppended
      <4> QED BY <3>2, <4>1, <4>2, <4>3 DEF Held
    <3> QED BY <3>1, <3>2
  <2>5. TabsTypes'
    BY <1>1, <2>2, <2>4 DEF TabsTypes
  <2>6. InCalls'
    <3>1. \A e \in calls' : e = d \/ (e \in calls /\ e.path # k /\ (e.what # "open" \/ d.what # "open"))
      BY <1>5, <2>2, <1>6 DEF InCalls
    <3>2. \A e, f \in calls' : e.path = f.path \/ (e.what = "open" /\ f.what = "open") => e = f
      BY <2>2, <3>1 DEF InCalls
    <3>3. \A e \in calls' : e.what = "close" =>
             /\ e.at # "listing" /\ e.path \in Listed
             /\ e.at = "asked" => e.path \in Held'
             /\ e.at = "done" => e.path \notin Held'
             /\ Replied => e.path \in ToSet(reading.list)
      BY <1>5, <2>2, <2>3, <2>4, <3>1, <1>6 DEF InCalls
    <3>4. \A e \in calls' : e.what = "open" =>
             /\ e.at # "asked" => e.path \in Held'
             /\ e.at = "listing" /\ Replied => e.path \in ToSet(reading.list)
             /\ e.path \notin closed
      BY <1>5, <2>2, <2>3, <2>4, <3>1, <1>6 DEF InCalls
    <3> QED BY <1>1, <1>2, <1>3, <3>2, <3>3, <3>4 DEF InCalls
  <2>7. InPass' /\ InPage'
    BY <1>1, <1>2, <1>3, <2>2, <2>4 DEF InPass, InPage
  <2>8. InLists' /\ InReading'
    BY <1>1, <1>2, <1>3, <2>2, <2>4 DEF InLists, InReading
  <2>9. InOrder'
    <3>1. page.list \in Seq(Roots) /\ Listed = ToSet(page.list) /\ reading.list \in Seq(Roots)
      BY <1>2, Tabs DEF TabsTypes, Standing, Listed
    <3>2. k \in Listed => k \in Held
      BY <1>2, <2>3 DEF InLists
    <3>3. Replied /\ k \in ToSet(reading.list) => k \in Held
      BY <2>3 DEF InReading
    <3> QED BY <1>1, <1>2, <1>3, <2>4, <3>1, <3>2, <3>3 DEF InOrder
  <2>10. OnScreen' /\ Gone'
    BY <1>1, <1>2, <1>3, <2>3, <2>4 DEF OnScreen, Gone, Standing
  <2> QED BY <2>5, <2>6, <2>7, <2>8, <2>9, <2>10
<1>7. CASE c.what = "close"
  <2>1. registry' = Without(registry, k) /\ Goes(c, "done")
    BY <1>1, <1>7 DEF DaemonServes, InCalls, Held
  <2>2. PICK d \in Calls :
           /\ d.what = "close" /\ d.path = k /\ d.at = "done"
           /\ calls' = (calls \ {c}) \cup {d} /\ Closers(calls') = Closers(calls)
           /\ Bringers(calls') = Bringers(calls)
    BY <1>2, <1>5, <1>7, <2>1, TabsMoves
  <2>3. k \in Closers(calls) /\ k \notin Bringers(calls)
    BY <1>5, <1>7, Asked
  <2>4. /\ registry' \in Seq(Roots) /\ IsInjective(registry') /\ Held' = Held \ {k}
        /\ \A s \in Seq(Roots) : Continues(s, registry) => Continues(s, registry')
    <3>1. ToSet(Without(registry, k)) = Held \ {k} /\ Without(registry, k) \in Seq(Roots)
          /\ IsInjective(Without(registry, k))
      BY <1>4, LeftWithout
    <3>2. \A s \in Seq(Roots) : Continues(s, registry) => Continues(s, Without(registry, k))
      BY <1>4, ContinuesWithout
    <3> QED BY <2>1, <3>1, <3>2 DEF Held
  <2>5. TabsTypes'
    BY <1>1, <2>2, <2>4 DEF TabsTypes
  <2>6. InCalls'
    <3>1. \A e \in calls' : e = d \/ (e \in calls /\ e.path # k /\ (e.what # "open" \/ d.what # "open"))
      BY <1>5, <2>2, <1>7 DEF InCalls
    <3>2. \A e, f \in calls' : e.path = f.path \/ (e.what = "open" /\ f.what = "open") => e = f
      BY <2>2, <3>1 DEF InCalls
    <3>3. \A e \in calls' : e.what = "close" =>
             /\ e.at # "listing" /\ e.path \in Listed
             /\ e.at = "asked" => e.path \in Held'
             /\ e.at = "done" => e.path \notin Held'
             /\ Replied => e.path \in ToSet(reading.list)
      BY <1>5, <2>2, <2>3, <2>4, <3>1, <1>7 DEF InCalls
    <3>4. \A e \in calls' : e.what = "open" =>
             /\ e.at # "asked" => e.path \in Held'
             /\ e.at = "listing" /\ Replied => e.path \in ToSet(reading.list)
             /\ e.path \notin closed
      BY <1>5, <2>2, <2>3, <2>4, <3>1, <1>7 DEF InCalls
    <3> QED BY <1>1, <1>2, <1>3, <3>2, <3>3, <3>4 DEF InCalls
  <2>7. InPass' /\ InPage'
    BY <1>1, <1>2, <1>3, <2>2, <2>4 DEF InPass, InPage
  <2>8. InLists' /\ InReading'
    BY <1>1, <1>2, <1>3, <2>2, <2>3, <2>4 DEF InLists, InReading
  <2>9. InOrder'
    <3>1. page.list \in Seq(Roots) /\ reading.list \in Seq(Roots)
      BY <1>2, Tabs DEF TabsTypes, Standing
    <3> QED BY <1>1, <1>2, <1>3, <2>4, <3>1 DEF InOrder
  <2>10. OnScreen' /\ Gone'
    BY <1>1, <1>2, <1>3, <2>3, <2>4 DEF OnScreen, Gone, Standing
  <2> QED BY <2>5, <2>6, <2>7, <2>8, <2>9, <2>10
<1>8. CASE c.what = "open" /\ c.path \notin onDisk
  <2>1. calls' = calls \ {c} /\ registry' = registry
    BY <1>8 DEF DaemonServes
  <2>2. Closers(calls)' = Closers(calls) /\ Bringers(calls)' = Bringers(calls) /\ Held' = Held
    <3>1. k \notin Closers(calls) /\ k \notin Bringers(calls)
      BY <1>1, <1>5, <1>8, Asked
    <3>2. Closers(calls') = Closers(calls) \ {k} /\ Bringers(calls') = Bringers(calls) \ {k}
      BY <1>5, <2>1, WithoutCall
    <3> QED BY <2>1, <3>1, <3>2 DEF Held
  <2>3. TabsTypes'
    BY <1>1, <2>1 DEF TabsTypes
  <2>4. InCalls'
    BY <1>1, <1>2, <1>3, <2>1, <2>2 DEF InCalls
  <2>5. InPass' /\ InPage' /\ InLists' /\ InReading'
    BY <1>1, <1>3, <2>1, <2>2, ZenonT(40) DEF InPass, InPage, InLists, InReading
  <2>6. InOrder' /\ OnScreen' /\ Gone'
    BY <1>1, <1>3, <2>1, <2>2 DEF InOrder, OnScreen, Gone
  <2> QED BY <2>3, <2>4, <2>5, <2>6
<1> QED BY <1>2, <1>6, <1>7, <1>8

-----------------------------------------------------------------------------
(* What a reload of the page and a restart of the daemon lose. *)

LEMMA ReloadKeeps ==
    ASSUME TabsInv, OnlyFailing, Reload
    PROVE  TabsInv'
<1> USE DEF TabsInv
<1>1. /\ pass.at = "none" /\ page' = Fresh /\ reading' = [at |-> "asked", list |-> <<>>]
      /\ pass' = [at |-> "none", left |-> <<>>] /\ calls' = {}
      /\ wanted' = wanted \ Closers(calls)
      /\ UNCHANGED <<onDisk, registry, stored, unseen, closed, viewed>>
  BY OnlyThose DEF Reload, ListAsked, NoPass, Closers
<1>2. /\ Fresh \in Pages /\ Fresh.list = NoList /\ Fresh.chosen = None /\ ~Fresh.failed
      /\ ~Fresh.restoredActive /\ ~Fresh.restoring /\ OpenTabs(Fresh) = <<>>
  BY DEF Fresh, Pages, OpenTabs
<1>3. /\ Listed' = {} /\ Held' = Held /\ ~Standing' /\ ~Replied' /\ ~page.restoring
      /\ Closers(calls)' = {} /\ Bringers(calls)' = {}
  BY <1>1, <1>2, NoneInEmpty DEF Listed, Held, Standing, Replied, InPass, Closers, Bringers
<1>4. TabsTypes'
  BY <1>1, <1>2, NoneInEmpty DEF TabsTypes
<1>5. InCalls' /\ InPass' /\ InReading' /\ InOrder'
  BY <1>1, <1>2, <1>3 DEF InCalls, InPass, InReading, InOrder
<1>6. InPage' /\ InLists'
  BY <1>1, <1>2, <1>3 DEF InPage, InLists
<1>7. OnScreen'
  <2>1. viewed = stored.active \/ stored.paths = <<>>
    <3>1. CASE page.list = NoList
      BY <1>3, <3>1 DEF OnScreen
    <3>2. CASE page.list # NoList
      <4>1. Standing /\ OpenTabs(page) = page.list /\ stored.paths = page.list
        BY <1>3, <3>2 DEF Standing, InPage, OpenTabs
      <4> QED BY <1>3, <4>1 DEF OnScreen
    <3> QED BY <3>1, <3>2
  <2>2. ASSUME stored.paths = <<>>, NEW p \in Held, NEW q \in Held PROVE p = q
    <3>1. CASE page.list = NoList
      BY <1>3, <2>2, <3>1 DEF OnScreen
    <3>2. CASE page.list # NoList
      <4>1. Standing /\ Listed = {}
        BY <1>3, <2>2, <3>2, NoneInEmpty DEF Standing, InPage, OpenTabs, Listed
      <4>2. p \in Bringers(calls) /\ q \in Bringers(calls)
        BY <4>1 DEF InLists
      <4> QED BY <4>2, Asked DEF InCalls
    <3> QED BY <3>1, <3>2
  <2> QED BY <1>1, <1>2, <1>3, <2>1, <2>2 DEF OnScreen
<1>8. Gone'
  BY <1>1, <1>3, NoneInEmpty DEF Gone
<1> QED BY <1>4, <1>5, <1>6, <1>7, <1>8

LEMMA RestartKeeps ==
    ASSUME TabsInv, OnlyFailing, Restart
    PROVE  TabsInv'
<1> USE DEF TabsInv
<1>1. /\ pass.at = "none" /\ calls = {} /\ reading.at # "answered" /\ registry' = <<>> /\ unseen' = TRUE
      /\ calls' = {}
      /\ UNCHANGED <<onDisk, stored, page, reading, pass, wanted, closed, viewed>>
  BY OnlyThose DEF Restart
<1>2. /\ Listed' = Listed /\ Held' = {} /\ Standing' = Standing /\ ~Replied'
      /\ Closers(calls)' = Closers(calls) /\ Bringers(calls)' = Bringers(calls)
  BY <1>1, NoneInEmpty DEF Listed, Held, Standing, Replied
<1>3. TabsTypes'
  BY <1>1, NoneInEmpty DEF TabsTypes
<1>4. InCalls' /\ InPass' /\ InReading' /\ InOrder'
  BY <1>1, <1>2 DEF InCalls, InPass, InReading, InOrder
<1>5. InPage' /\ InLists'
  BY <1>1, <1>2 DEF InPage, InLists
<1>6. OnScreen' /\ Gone'
  BY <1>1, <1>2 DEF OnScreen, Gone
<1> QED BY <1>3, <1>4, <1>5, <1>6

-----------------------------------------------------------------------------
(* What is drawn. *)

LEMMA SelectKeeps ==
    ASSUME TabsInv, NEW p \in Roots, Select(p)
    PROVE  TabsInv'
<1> USE DEF TabsInv
<1>a. PICK w : w = [page EXCEPT !.chosen = p]
  OBVIOUS
<1>1. /\ ~IsPending(page) /\ p \in Listed /\ p # Active(page) /\ Render(w, stored) /\ viewed' = p
      /\ UNCHANGED <<onDisk, registry, reading, calls, unseen, wanted, closed>>
  BY <1>a DEF Select, HeaderDrawn, Listed
<1>2. /\ w \in Pages /\ w.list = page.list /\ w.failed = page.failed /\ w.chosen = p
      /\ w.restoring = page.restoring /\ w.restoredActive = page.restoredActive
  BY <1>a DEF TabsTypes, Pages
<1>3. OpenTabs(w) = OpenTabs(page) /\ ~IsPending(w)
  BY <1>1, <1>2 DEF OpenTabs, IsPending
<1>4. OpenTabs(page) # <<>> /\ page.list # NoList /\ ~page.restoring /\ page.restoredActive
  BY <1>1, NoneInEmpty DEF Listed, OpenTabs, InPass, OnScreen
<1>5. Active(w) = p
  BY <1>1, <1>2, <1>3, ActiveIs DEF Listed
<1>6. page' = w /\ pass' = pass /\ stored' = MirrorActive(w, stored)
  <2>1. stored \in Stores
    BY DEF TabsTypes
  <2> QED BY <1>1, <1>2, <1>3, <1>4, <1>5, <2>1, RenderOfTheSame
<1>7. stored' \in Stores /\ stored'.paths = stored.paths /\ stored'.active = p
  <2>1. stored' = [stored EXCEPT !.active = p]
    BY <1>2, <1>4, <1>5, <1>6, NoTwo DEF MirrorActive
  <2> QED BY <2>1 DEF TabsTypes, Stores
<1>8. /\ Listed' = Listed /\ Held' = Held /\ Standing' = Standing /\ Replied' = Replied
      /\ OpenTabs(page') = OpenTabs(page) /\ Active(page') = p
  BY <1>1, <1>2, <1>3, <1>5, <1>6 DEF Listed, Held, Standing, Replied
<1>9. Closers(calls)' = Closers(calls) /\ Bringers(calls)' = Bringers(calls)
  BY <1>1
<1>10. TabsTypes'
  BY <1>1, <1>2, <1>3, <1>6, <1>7, <1>8 DEF TabsTypes
<1>11. InCalls' /\ InPass' /\ InPage' /\ InLists'
  BY <1>1, <1>2, <1>4, <1>6, <1>7, <1>8, <1>9 DEF InCalls, InPass, InPage, InLists
<1>12. InReading' /\ InOrder'
  BY <1>1, <1>2, <1>6, <1>8, <1>9 DEF InReading, InOrder
<1>13. OnScreen'
  BY <1>1, <1>2, <1>4, <1>6, <1>7, <1>8 DEF OnScreen
<1>14. Gone'
  BY <1>1, <1>6, <1>7, <1>8 DEF Gone
<1> QED BY <1>10, <1>11, <1>12, <1>13, <1>14

\* What a closing leaves on screen: the same, or the next that is first.
LEMMA CloseAnsweredKeeps ==
    ASSUME TabsInv, NEW c \in calls, CloseAnswered(c)
    PROVE  TabsInv'
<1> USE DEF TabsInv
<1>a. PICK k, L, R : k = c.path /\ L = page.list /\ R = Without(page.list, c.path)
  OBVIOUS
<1>b. PICK w : w = [page EXCEPT !.list = IF @ = NoList THEN @ ELSE Without(@, c.path),
                                !.failed = (page.list = NoList /\ @),
                                !.chosen = IF @ = c.path THEN None ELSE @]
  OBVIOUS
<1>c. PICK s : s = Forgotten(k)
  OBVIOUS
<1>1. /\ c.what = "close" /\ c.at = "done" /\ Render(w, s)
      /\ reading' = Invalidated(page) /\ calls' = calls \ {c}
      /\ wanted' = wanted \ {k} /\ closed' = closed \cup {k}
      /\ viewed' = IF viewed = k THEN Active(page') ELSE Seen
      /\ UNCHANGED <<onDisk, registry, unseen>>
  BY <1>a, <1>b, <1>c DEF CloseAnswered
<1>2. /\ Standing /\ ~unseen /\ pass.at = "none" /\ k \in Listed /\ k \notin Held /\ k \in Roots
      /\ \A e \in calls : e.path = k => e = c
  BY <1>a, <1>1 DEF InCalls, Standing, InPass, TabsTypes, Calls
<1>3. /\ L # NoList /\ L \in Seq(Roots) /\ IsInjective(L) /\ OpenTabs(page) = L /\ Listed = ToSet(L)
      /\ ~IsPending(page) /\ stored.paths = L /\ L # <<>> /\ ToSet(L) \subseteq Roots
  <2>1. L # NoList /\ OpenTabs(page) = L /\ ~IsPending(page) /\ L \in Seq(Roots)
    BY <1>a, <1>2, Tabs DEF Standing, TabsTypes
  <2>2. IsInjective(L) /\ Listed = ToSet(L) /\ stored.paths = L /\ L # <<>>
    BY <1>a, <1>2, <2>1, NoneInEmpty DEF TabsTypes, Listed, InPage
  <2> QED BY <2>1, <2>2, SetOf
<1>4. /\ R \in Seq(Roots) /\ ToSet(R) = ToSet(L) \ {k} /\ IsInjective(R)
      /\ Head(L) # k => R # <<>> /\ Head(R) = Head(L)
      /\ R # L
  BY <1>a, <1>2, <1>3, LeftWithout
<1>5. /\ w \in Pages /\ w.list = R /\ ~w.failed /\ ~w.restoring /\ w.restoredActive
      /\ w.chosen = IF page.chosen = k THEN None ELSE page.chosen
  <2>1. ~page.restoring /\ page.restoredActive
    BY <1>2, <1>3 DEF Standing, OnScreen
  <2>2. page.list # NoList /\ page \in Pages /\ Without(page.list, c.path) \in Seq(Roots)
    BY <1>a, <1>3, <1>4 DEF TabsTypes
  <2> QED BY <1>a, <1>b, <2>1, <2>2 DEF Pages
<1>6. OpenTabs(w) = R /\ ~IsPending(w)
  BY <1>4, <1>5, NoListIsNoList, Tabs
<1>7. s \in Stores /\ s.paths = R
  <2>1. s = [paths |-> Without(L, k), active |-> IF stored.active = k THEN None ELSE stored.active]
    BY <1>2, <1>3, <1>c DEF Forgotten, Listed
  <2>2. stored.active \in Roots \cup {None}
    BY DEF TabsTypes, Stores
  <2> QED BY <1>a, <1>4, <2>1, <2>2 DEF Stores
<1>8. /\ page' \in Pages /\ page'.list = R /\ ~page'.failed /\ ~page'.restoring /\ page'.restoredActive
      /\ page'.chosen = w.chosen /\ pass' = pass
      /\ stored' \in Stores /\ stored'.paths = R
      /\ R # <<>> => stored'.active = Active(page')
  <2>1. CASE R = <<>>
    <3>1. page' = [w EXCEPT !.ready = TRUE] /\ pass' = pass /\ stored' = s
      BY <1>1, <1>3, <1>4, <1>5, <1>6, <1>7, <2>1, RenderOfNone
    <3> QED BY <1>5, <1>7, <2>1, <3>1 DEF Pages
  <2>2. CASE R # <<>>
    BY <1>1, <1>3, <1>4, <1>5, <1>6, <1>7, <2>2, RenderOfSome
  <2> QED BY <2>1, <2>2
<1>9. OpenTabs(page') = R /\ Listed' = ToSet(R) /\ Standing' /\ Held' = Held
  BY <1>1, <1>4, <1>8, Tabs, NoListIsNoList DEF Listed, Standing, Held
<1>10. reading' = [at |-> "asked", list |-> <<>>] /\ ~Replied'
  BY <1>1, <1>3, <1>a DEF Invalidated, ListAsked, Replied
<1>11. Closers(calls)' = Closers(calls) \ {k} /\ Bringers(calls)' = Bringers(calls)
  <2>1. /\ Closers(calls \ {c}) = Closers(calls) \ {k} /\ Bringers(calls \ {c}) = Bringers(calls) \ {k}
        /\ k \notin Bringers(calls)
    BY <1>1, <1>2, <1>a, WithoutCall
  <2> QED BY <1>1, <2>1
<1>12. R # <<>> => viewed' = Active(page')
  <2> SUFFICES ASSUME R # <<>> PROVE viewed' = Active(page')
    OBVIOUS
  <2>1. viewed = Active(page)
    BY <1>2, <1>3 DEF OnScreen, Standing
  <2>2. viewed' = IF viewed # k /\ viewed \in ToSet(R) THEN viewed ELSE Active(page')
    BY <1>1, <1>8, <1>9 DEF Seen
  <2>3. page \in Pages /\ None \notin ToSet(R)
    BY <1>3, <1>4, NoTwo DEF TabsTypes
  <2>4. CASE page.chosen \in ToSet(L)
    <3>1. viewed = page.chosen
      BY <1>3, <2>1, <2>3, <2>4, ActiveIs
    <3>2. viewed # k => Active(page') = viewed
      BY <1>4, <1>5, <1>8, <1>9, <2>4, <3>1, ActiveIs
    <3> QED BY <2>2, <3>2
  <2>5. CASE page.chosen \notin ToSet(L)
    <3>1. viewed = Head(L)
      BY <1>3, <2>1, <2>3, <2>5, ActiveIs
    <3>2. page'.chosen \notin ToSet(R)
      BY <1>4, <1>5, <1>8, <2>3, <2>5
    <3>3. Active(page') = Head(R)
      BY <1>8, <1>9, <3>2, ActiveIs
    <3> QED BY <1>4, <2>2, <3>1, <3>3
  <2> QED BY <2>4, <2>5
<1>13. viewed' \in Roots \cup {None}
  BY <1>1, <1>8, <1>9, ActiveIs DEF Seen, TabsTypes
<1>14. TabsTypes'
  BY <1>1, <1>4, <1>8, <1>9, <1>10, <1>13, <1>2, NoneInEmpty DEF TabsTypes
<1>15. InCalls'
  <2>1. \A e \in calls' : e \in calls /\ e.path # k
    BY <1>1, <1>2
  <2> QED BY <1>1, <1>2, <1>3, <1>4, <1>9, <1>10, <2>1 DEF InCalls
<1>16. InPass'
  BY <1>1, <1>2, <1>8, <1>9 DEF InPass
<1>17. InPage'
  BY <1>1, <1>3, <1>4, <1>8, <1>9 DEF InPage, Standing
<1>18. InLists'
  BY <1>1, <1>2, <1>3, <1>4, <1>8, <1>9, <1>11 DEF InLists, Standing
<1>19. InReading' /\ OnScreen'
  BY <1>8, <1>9, <1>10, <1>12 DEF InReading, OnScreen, Standing
<1>20. InOrder'
  <2>1. Continues(L, registry) /\ registry \in Seq(Roots)
    BY <1>2, <1>a DEF InOrder, TabsTypes
  <2>2. Continues(R, registry)
    BY <1>2, <1>3, <1>a, <2>1, WithoutContinues DEF Held
  <2> QED BY <1>1, <1>8, <1>10, <2>2 DEF InOrder
<1>21. Gone'
  BY <1>1, <1>2, <1>3, <1>4, <1>8, <1>9, <1>10, NoneInEmpty DEF Gone, InPass
<1> QED BY <1>14, <1>15, <1>16, <1>17, <1>18, <1>19, <1>20, <1>21

\* A reopening that begins: nothing is asked of the daemon then, and what was
\* wanted is what the store names.
LEMMA BeginsToReopen ==
    ASSUME TabsInv, calls' = {}, calls = {}, page' \in Pages, OpenTabs(page') = <<>>, page'.restoring,
           page'.list = NoList => page'.chosen = None /\ ~page'.restoredActive,
           ~page.restoring, stored.paths # <<>>,
           pass' = [at |-> "opening", left |-> stored.paths], stored' = stored,
           reading' = [at |-> "none", list |-> <<>>], viewed' = viewed, wanted' = wanted,
           unseen' \in BOOLEAN, UNCHANGED <<onDisk, registry, closed>>
    PROVE  TabsInv'
<1> USE DEF TabsInv
<1>1. /\ Listed' = {} /\ Held' = Held /\ ~Standing' /\ ~Replied'
      /\ Closers(calls) = {} /\ Closers(calls)' = {} /\ Bringers(calls)' = {}
  BY NoneInEmpty DEF Listed, Held, Standing, Replied, Closers, Bringers
<1>2. stored \in Stores /\ stored.paths \in Seq(Roots) /\ wanted \subseteq ToSet(stored.paths)
  BY <1>1 DEF TabsTypes, Stores, InLists
<1>3. TabsTypes'
  BY <1>2, NoneInEmpty DEF TabsTypes
<1>4. InCalls' /\ InPass' /\ InPage'
  BY <1>1, <1>2 DEF InCalls, InPass, InPage
<1>5. InLists' /\ InReading' /\ InOrder'
  BY <1>1 DEF InLists, InReading, InOrder
<1>6. OnScreen'
  <2>1. CASE page.list = NoList
    BY <1>1, <2>1 DEF OnScreen
  <2>2. CASE page.list # NoList
    <3>1. OpenTabs(page) # <<>>
      BY <2>2 DEF InPage, Standing, OpenTabs
    <3> QED BY <1>1, <3>1 DEF OnScreen
  <2> QED BY <2>1, <2>2
<1>7. Gone'
  BY <1>1 DEF Gone
<1> QED BY <1>3, <1>4, <1>5, <1>6, <1>7

LEMMA ListFailedKeeps ==
    ASSUME TabsInv, OnlyFailing, ListFailed
    PROVE  TabsInv'
<1> USE DEF TabsInv
<1>a. PICK w : w = [page EXCEPT !.failed = TRUE]
  OBVIOUS
<1>1. /\ reading.at = "asked" /\ pass.at = "none" /\ ~page.restoring /\ ~Replied /\ Waiting = {}
      /\ Delivered(w)
      /\ UNCHANGED <<onDisk, registry, unseen>>
  BY <1>a, OnlyThose DEF ListFailed, InPass, TabsTypes, Replied
<1>2. /\ reading' = [at |-> "none", list |-> <<>>] /\ calls' = calls
      /\ Render(w, stored)
      /\ viewed' = IF page.chosen \in ToSet(OpenTabs(w)) /\ (page.chosen = None \/ page.chosen \notin Listed)
                   THEN page.chosen ELSE Seen
      /\ wanted' = wanted \cup ToSet(OpenTabs(w)) /\ closed' = closed
  <2>1. \E last \in {None} :
          /\ Render(IF last = None THEN w ELSE [w EXCEPT !.chosen = last], stored)
          /\ LET asked == IF last = None THEN w.chosen ELSE last
             IN  viewed' = IF asked \in ToSet(OpenTabs(w)) /\ (asked = last \/ asked \notin ToSet(OpenTabs(page)))
                          THEN asked ELSE Seen
    <3>1. {c.path : c \in Waiting} \cup {None} = {None}
      BY <1>1
    <3> QED BY <1>1, <3>1 DEF Delivered
  <2>2. reading' = NoRead /\ calls' = calls \ Waiting /\ wanted' = wanted \cup ToSet(OpenTabs(w)) /\ closed' = closed
    BY <1>1 DEF Delivered
  <2>3. w.chosen = page.chosen
    BY <1>a DEF TabsTypes, Pages
  <2> QED BY <1>1, <2>1, <2>2, <2>3 DEF NoRead, Listed
<1>3. /\ w \in Pages /\ w.list = page.list /\ w.failed /\ w.chosen = page.chosen
      /\ w.restoring = page.restoring /\ w.restoredActive = page.restoredActive
  BY <1>a DEF TabsTypes, Pages
<1>4. /\ OpenTabs(w) = OpenTabs(page) /\ ~IsPending(w) /\ Active(w) = Active(page) /\ ToSet(OpenTabs(w)) = Listed
      /\ stored \in Stores
  BY <1>3, Tabs DEF OpenTabs, Listed, Active, TabsTypes
<1>5. wanted' = wanted /\ Held' = Held /\ ~Replied' /\ None \notin Listed
      /\ viewed' = Seen
  <2>1. wanted' = wanted
    BY <1>2, <1>4 DEF InPage
  <2>2. None \notin Listed
    BY <2>1, NoTwo DEF InPage, TabsTypes
  <2> QED BY <1>1, <1>2, <1>4, <2>1, <2>2 DEF Held, Replied
<1>6. CASE page.list = NoList /\ ~page.failed /\ stored.paths # <<>>
  <2>1. OpenTabs(w) = <<>> /\ IsPending(page) /\ calls = {} /\ page.chosen = None /\ ~page.restoredActive
    BY <1>4, <1>6 DEF OpenTabs, IsPending, InCalls, Standing, InPage
  <2>2. page' = [w EXCEPT !.restoring = TRUE] /\ pass' = [at |-> "opening", left |-> stored.paths] /\ stored' = stored
    BY <1>1, <1>2, <1>3, <1>4, <1>6, <2>1, RenderOfNone
  <2>3. /\ page' \in Pages /\ page'.restoring /\ page'.list = NoList /\ page'.chosen = None /\ ~page'.restoredActive
        /\ OpenTabs(page') = <<>>
    BY <1>3, <1>6, <2>1, <2>2 DEF Pages, OpenTabs
  <2>4. viewed' = viewed
    BY <1>5, <2>3 DEF Seen
  <2>5. unseen' \in BOOLEAN
    BY <1>1 DEF TabsTypes
  <2> QED BY <1>1, <1>2, <1>5, <1>6, <2>1, <2>2, <2>3, <2>4, <2>5, BeginsToReopen
<1>7. CASE ~(page.list = NoList /\ ~page.failed /\ stored.paths # <<>>)
  <2>1. /\ page' \in Pages /\ page'.list = page.list /\ page'.failed /\ page'.chosen = page.chosen
        /\ ~page'.restoring /\ page'.restoredActive = page.restoredActive
        /\ pass' = pass /\ stored' = stored
    <3>1. CASE page.list = NoList /\ ~page.failed
      <4>1. OpenTabs(w) = <<>> /\ IsPending(page) /\ stored.paths = <<>>
        BY <1>4, <1>7, <3>1 DEF OpenTabs, IsPending
      <4>2. page' = [w EXCEPT !.ready = TRUE] /\ pass' = pass /\ stored' = stored
        BY <1>1, <1>2, <1>3, <1>4, <4>1, RenderOfNone
      <4> QED BY <1>1, <1>3, <4>2 DEF Pages
    <3>2. CASE ~(page.list = NoList /\ ~page.failed)
      <4>1. ~IsPending(page)
        BY <3>2 DEF IsPending
      <4>2. page' = w /\ pass' = pass /\ stored' = stored
        BY <1>1, <1>2, <1>3, <1>4, <4>1, RenderOfTheSame
      <4> QED BY <1>1, <1>3, <4>2
    <3> QED BY <3>1, <3>2
  <2>2. /\ OpenTabs(page') = OpenTabs(page) /\ Listed' = Listed /\ Standing' = Standing /\ Active(page') = Active(page)
        /\ Closers(calls)' = Closers(calls) /\ Bringers(calls)' = Bringers(calls)
    BY <1>1, <1>2, <2>1 DEF OpenTabs, Listed, Standing, Active
  <2>3. viewed' = IF viewed \in Listed THEN viewed ELSE Active(page)
    BY <1>4, <1>5, <2>1, <2>2 DEF Seen, Listed
  <2>4. viewed' \in Roots \cup {None}
    BY <2>1, <2>2, <2>3, ActiveIs DEF TabsTypes
  <2>5. page.list = NoList => stored.paths = <<>>
    BY <1>1, <1>7 DEF InPage
  <2>6. TabsTypes'
    BY <1>1, <1>2, <1>5, <2>1, <2>2, <2>4, NoneInEmpty DEF TabsTypes
  <2>7. InCalls'
    BY <1>1, <1>2, <1>5, <2>2 DEF InCalls
  <2>8. InPass' /\ InPage'
    BY <1>1, <1>2, <1>5, <2>1, <2>2, <2>5 DEF InPass, InPage
  <2>9. InLists' /\ InReading' /\ InOrder'
    BY <1>1, <1>2, <1>5, <2>1, <2>2 DEF InLists, InReading, InOrder
  <2>10. OnScreen'
    <3>1. OpenTabs(page) # <<>> => viewed' = viewed
      BY <1>1, <2>1, <2>3, ActiveIs DEF OnScreen, Listed, TabsTypes
    <3>2. page.list = NoList => stored.paths = <<>> /\ \A p, q \in Held : p = q
      BY <1>1, <2>5 DEF OnScreen
    <3> QED BY <1>1, <1>5, <2>1, <2>2, <3>1, <3>2 DEF OnScreen
  <2>11. Gone'
    BY <1>1, <1>2, <1>5, <2>1 DEF Gone
  <2> QED BY <2>6, <2>7, <2>8, <2>9, <2>10, <2>11
<1> QED BY <1>6, <1>7

\* Those who wait for the list: one at most, and what it opened is in it.
LEMMA WhoWaits ==
    ASSUME TabsInv, Replied
    PROVE  /\ \A c, d \in Waiting : c = d
           /\ Waiting # {} => Standing /\ ~unseen
           /\ \A c \in Waiting : c \in Calls /\ c.what = "open" /\ c.path \in ToSet(reading.list)
                                     /\ c.path \in Roots /\ c.path # None
           /\ Closers(calls \ Waiting) = Closers(calls)
           /\ Bringers(calls \ Waiting) \subseteq Bringers(calls)
           /\ \A q \in Bringers(calls) : q \in Bringers(calls \ Waiting) \/ q \in ToSet(reading.list)
           /\ \A p, q \in Bringers(calls) : p = q
<1> USE DEF TabsInv
<1>1. \A c \in Waiting : c \in calls /\ c \in Calls /\ c.at = "listing" /\ c.what = "open" /\ c.path \in Roots
  BY DEF Waiting, InCalls, TabsTypes, Calls
<1>2. \A c, d \in Waiting : c = d
  BY <1>1 DEF InCalls
<1>3. Waiting # {} => Standing /\ ~unseen
  BY <1>1 DEF InCalls
<1>4. \A c \in Waiting : c.path \in ToSet(reading.list) /\ c.path # None
  BY <1>1, NoTwo DEF InCalls
<1>5. \A c \in calls \ Waiting : c \in calls
  OBVIOUS
<1>6. \A c \in calls : c.what = "close" => c \in calls \ Waiting
  BY <1>1
<1>7. Closers(calls \ Waiting) = Closers(calls)
  <2>1. \A q : q \in Closers(calls) <=> \E c \in calls : c.what = "close" /\ c.path = q
    BY Asked
  <2>2. \A q : q \in Closers(calls \ Waiting) <=> \E c \in calls \ Waiting : c.what = "close" /\ c.path = q
    BY Asked
  <2>3. \A q : q \in Closers(calls \ Waiting) <=> q \in Closers(calls)
    BY <1>5, <1>6, <2>1, <2>2
  <2> QED BY <2>3
<1>8. \A q : q \in Bringers(calls) <=> \E c \in calls : c.what = "open" /\ c.at # "asked" /\ c.path = q
  BY Asked
<1>9. \A q : q \in Bringers(calls \ Waiting) <=>
          \E c \in calls \ Waiting : c.what = "open" /\ c.at # "asked" /\ c.path = q
  BY Asked
<1>10. Bringers(calls \ Waiting) \subseteq Bringers(calls)
  BY <1>5, <1>8, <1>9
<1>11. ASSUME NEW q \in Bringers(calls) PROVE q \in Bringers(calls \ Waiting) \/ q \in ToSet(reading.list)
  <2>1. PICK c \in calls : c.what = "open" /\ c.at # "asked" /\ c.path = q
    BY <1>8
  <2>2. CASE c \in Waiting
    BY <1>4, <2>1, <2>2
  <2>3. CASE c \notin Waiting
    BY <1>9, <2>1, <2>3
  <2> QED BY <2>2, <2>3
<1>12. \A p, q \in Bringers(calls) : p = q
  BY <1>8 DEF InCalls
<1> QED BY <1>1, <1>2, <1>3, <1>4, <1>7, <1>10, <1>11, <1>12

LEMMA ListReadKeeps ==
    ASSUME TabsInv, ListRead
    PROVE  TabsInv'
<1> USE DEF TabsInv
<1>a. PICK w, R, L : w = [page EXCEPT !.list = reading.list, !.failed = FALSE] /\ R = reading.list /\ L = OpenTabs(page)
  OBVIOUS
<1>1. /\ Replied /\ pass.at = "none" /\ ~page.restoring
      /\ Delivered(w) /\ unseen' = FALSE
      /\ UNCHANGED <<onDisk, registry>>
  <2>1. /\ reading.at = "answered" /\ pass.at \notin {"listing", "again"} /\ Delivered(w) /\ unseen' = FALSE
        /\ UNCHANGED <<onDisk, registry>>
    BY <1>a DEF ListRead
  <2> QED BY <2>1 DEF InPass, TabsTypes, Replied
<1>2. /\ reading' = [at |-> "none", list |-> <<>>] /\ calls' = calls \ Waiting
      /\ wanted' = wanted \cup ToSet(OpenTabs(w)) /\ closed' = closed
  BY <1>1 DEF Delivered, NoRead
<1>b. PICK last \in {c.path : c \in Waiting} \cup {None} :
         /\ last = None <=> Waiting = {}
         /\ Render(IF last = None THEN w ELSE [w EXCEPT !.chosen = last], stored)
         /\ LET asked == IF last = None THEN w.chosen ELSE last
            IN  viewed' = IF asked \in ToSet(OpenTabs(w)) /\ (asked = last \/ asked \notin ToSet(OpenTabs(page)))
                         THEN asked ELSE Seen
  BY <1>1 DEF Delivered
<1>c. PICK u, asked : u = (IF last = None THEN w ELSE [w EXCEPT !.chosen = last])
                      /\ asked = (IF last = None THEN w.chosen ELSE last)
  OBVIOUS
<1>3. /\ R \in Seq(Roots) /\ IsInjective(R) /\ ToSet(R) \subseteq Roots /\ (R = <<>> <=> ToSet(R) = {})
      /\ R # NoList /\ None \notin ToSet(R)
  <2>1. R \in Seq(Roots) /\ IsInjective(R)
    BY <1>a DEF TabsTypes
  <2>2. ToSet(R) \subseteq Roots /\ (R = <<>> <=> ToSet(R) = {}) /\ R # NoList
    BY <2>1, SetOf, NoListIsNoList
  <2> QED BY <2>1, <2>2, NoTwo
<1>4. /\ L \in Seq(Roots) /\ IsInjective(L) /\ Listed = ToSet(L) /\ (L = <<>> <=> Listed = {})
      /\ Standing => L = page.list
  <2>1. page \in Pages
    BY DEF TabsTypes
  <2>2. L \in Seq(Roots) /\ IsInjective(L) /\ (Standing => L = page.list)
    BY <1>a, <2>1, Tabs DEF TabsTypes, Standing
  <2> QED BY <1>a, <2>2, SetOf DEF Listed
<1>5. /\ \A c, d \in Waiting : c = d
      /\ Waiting # {} => Standing /\ ~unseen
      /\ Closers(calls') = Closers(calls) /\ Bringers(calls') \subseteq Bringers(calls)
      /\ \A q \in Bringers(calls) : q \in Bringers(calls') \/ q \in ToSet(R)
      /\ \A p, q \in Bringers(calls) : p = q
  BY <1>1, <1>2, <1>a, WhoWaits
<1>6. last # None => last \in ToSet(R) /\ last \in Roots
  BY <1>1, <1>a, <1>b, WhoWaits
<1>7. /\ w \in Pages /\ w.list = R /\ w.chosen = page.chosen /\ OpenTabs(w) = R
  <2>1. w \in Pages /\ w.list = R /\ w.chosen = page.chosen
    BY <1>a, <1>3 DEF TabsTypes, Pages
  <2> QED BY <2>1, <1>3, Tabs
<1>8. /\ u \in Pages /\ u.list = R /\ ~u.failed /\ ~u.restoring /\ u.restoredActive = page.restoredActive
      /\ u.chosen = asked /\ OpenTabs(u) = R /\ ~IsPending(u)
  <2>1. ~w.failed /\ ~w.restoring /\ w.restoredActive = page.restoredActive
    BY <1>1, <1>a, <1>3 DEF TabsTypes, Pages
  <2>2. CASE last = None
    BY <1>3, <1>7, <1>c, <2>1, <2>2, Tabs
  <2>3. CASE last # None
    <3>1. u = [w EXCEPT !.chosen = last] /\ asked = last
      BY <1>c, <2>3
    <3>2. u \in Pages /\ u.list = R /\ ~u.failed /\ ~u.restoring /\ u.restoredActive = page.restoredActive /\ u.chosen = last
      BY <1>6, <1>7, <2>1, <2>3, <3>1 DEF Pages
    <3> QED BY <1>3, <3>1, <3>2, Tabs
  <2> QED BY <2>2, <2>3
<1>9. /\ Render(u, stored) /\ stored \in Stores /\ page \in Pages
      /\ viewed' = IF asked \in ToSet(R) /\ (asked = last \/ asked \notin Listed) THEN asked ELSE Seen
      /\ wanted' = wanted \cup ToSet(R)
  BY <1>2, <1>7, <1>b, <1>c DEF Listed, TabsTypes
<1>10. Held' = Held /\ ~Replied'
  BY <1>1, <1>2 DEF Held, Replied
<1>11. CASE R = <<>> /\ stored.paths # <<>>
  <2>1. Waiting = {} /\ last = None
    BY <1>3, <1>6, <1>b, <1>11
  <2>2. calls = {}
    <3> SUFFICES ASSUME calls # {} PROVE FALSE
      OBVIOUS
    <3>1. Standing /\ ~unseen
      BY DEF InCalls
    <3>2. Closers(calls) = {}
      BY <1>1, <1>3, <1>11, <1>a, Asked DEF InCalls
    <3>3. Listed = {}
      BY <1>1, <1>3, <1>11, <1>a, <3>1, <3>2 DEF InReading, InPage
    <3> QED BY <1>4, <1>11, <3>1, <3>3 DEF InPage
  <2>3. OpenTabs(u) # OpenTabs(page) \/ IsPending(page)
    <3>1. CASE page.list # NoList
      <4>1. L = stored.paths
        BY <1>1, <1>4, <3>1 DEF Standing, InPage
      <4> QED BY <1>8, <1>11, <1>a, <4>1
    <3>2. CASE page.list = NoList
      <4>1. ~page.failed
        BY <1>1, <1>11, <3>2 DEF InPage
      <4> QED BY <3>2, <4>1 DEF IsPending
    <3> QED BY <3>1, <3>2
  <2>4. page' = [u EXCEPT !.restoring = TRUE] /\ pass' = [at |-> "opening", left |-> stored.paths] /\ stored' = stored
    BY <1>8, <1>9, <1>11, <2>3, RenderOfNone
  <2>5. page' \in Pages /\ page'.restoring /\ page'.list = R /\ OpenTabs(page') = <<>> /\ page'.list # NoList
    <3>1. page' \in Pages /\ page'.restoring /\ page'.list = R
      BY <1>8, <2>4 DEF Pages
    <3> QED BY <1>3, <1>11, <3>1, Tabs
  <2>6. viewed' = viewed /\ wanted' = wanted /\ calls' = {}
    BY <1>2, <1>3, <1>9, <1>11, <2>2, <2>5 DEF Seen
  <2> QED BY <1>1, <1>2, <1>11, <2>2, <2>4, <2>5, <2>6, BeginsToReopen
<1>12. CASE R = <<>> /\ stored.paths = <<>>
  <2>1. Waiting = {} /\ last = None /\ calls' = calls
    BY <1>2, <1>3, <1>6, <1>b, <1>12
  <2>2. /\ page' \in Pages /\ page'.list = R /\ ~page'.failed /\ ~page'.restoring
        /\ page'.restoredActive = page.restoredActive
        /\ pass' = pass /\ stored' = stored
    <3>1. CASE OpenTabs(u) # OpenTabs(page) \/ IsPending(page)
      <4>1. page' = [u EXCEPT !.ready = TRUE] /\ pass' = pass /\ stored' = stored
        BY <1>8, <1>9, <1>12, <3>1, RenderOfNone
      <4> QED BY <1>8, <4>1 DEF Pages
    <3>2. CASE ~(OpenTabs(u) # OpenTabs(page) \/ IsPending(page))
      <4>1. Active(u) = None /\ Active(page) = None
        BY <1>8, <1>9, <1>12, <3>2, ActiveIs
      <4>2. page' = u /\ pass' = pass /\ stored' = stored
        BY <1>8, <1>9, <3>2, <4>1, RenderOfTheSame
      <4> QED BY <1>8, <4>2
    <3> QED BY <3>1, <3>2
  <2>3. OpenTabs(page') = <<>> /\ Listed' = {} /\ Standing' /\ Active(page') = None
    <3>1. OpenTabs(page') = <<>> /\ page'.list # NoList
      BY <1>3, <1>12, <2>2, Tabs
    <3> QED BY <2>2, <3>1, NoneInEmpty, ActiveIs DEF Listed, Standing
  <2>4. Closers(calls) = {} /\ wanted' = wanted
    BY <1>1, <1>3, <1>9, <1>12, <1>a, Asked DEF InCalls
  <2>5. unseen => calls = {}
    BY DEF InCalls
  <2>6. wanted = {}
    BY <1>1, <1>12, <2>4, NoneInEmpty DEF InLists
  <2>7. Held \subseteq Bringers(calls)
    BY <1>1, <1>3, <1>12, <1>a DEF InReading
  <2>8. viewed' \in Roots \cup {None}
    <3>1. viewed' = None
      BY <1>3, <1>9, <1>12, <2>2, <2>3 DEF Seen
    <3> QED BY <3>1
  <2>9. TabsTypes'
    BY <1>1, <1>2, <1>3, <1>12, <2>1, <2>2, <2>3, <2>4, <2>8, NoneInEmpty DEF TabsTypes
  <2>10. InCalls'
    <3>1. \A c \in calls : c.what # "close"
      BY <2>4 DEF Closers
    <3> QED BY <1>1, <1>2, <1>10, <2>1, <2>3, <3>1 DEF InCalls
  <2>11. InPass' /\ InPage'
    BY <1>1, <1>2, <1>12, <2>2, <2>3, <2>4, NoneInEmpty DEF InPass, InPage, Standing
  <2>12. InLists' /\ InReading'
    BY <1>1, <1>2, <1>10, <2>1, <2>2, <2>3, <2>4, <2>6, <2>7 DEF InLists, InReading
  <2>13. InOrder'
    <3>1. Continues(R, registry)
      BY <1>1, <1>a DEF InOrder
    <3> QED BY <1>1, <1>10, <2>2, <3>1 DEF InOrder
  <2>14. OnScreen'
    BY <2>2, <2>3 DEF OnScreen, Standing
  <2>15. Gone'
    BY <1>1, <1>2, <1>10, <2>2 DEF Gone
  <2> QED BY <2>9, <2>10, <2>11, <2>12, <2>13, <2>14, <2>15
<1>13. CASE R # <<>>
  <2>1. ~unseen
    BY <1>1, <1>13, <1>a DEF InReading
  <2>2. /\ page' \in Pages /\ page'.list = R /\ ~page'.failed /\ ~page'.restoring /\ page'.restoredActive
        /\ page'.chosen = IF R # L /\ ~page.restoredActive /\ stored.active \in ToSet(R) THEN stored.active ELSE asked
        /\ pass' = pass
        /\ stored' \in Stores /\ stored'.paths = R /\ stored'.active = Active(page')
    <3>1. CASE R # L
      <4>1. OpenTabs(u) # OpenTabs(page) \/ IsPending(page)
        BY <1>8, <1>a, <3>1
      <4> QED BY <1>8, <1>9, <1>13, <3>1, <4>1, RenderOfSome
    <3>2. CASE R = L
      <4>1. page.list # NoList /\ ~IsPending(page) /\ OpenTabs(u) = OpenTabs(page)
        BY <1>8, <1>9, <1>13, <1>a, <3>2, Tabs
      <4>2. Standing /\ stored.paths = R /\ page.restoredActive /\ stored.active = Active(page)
        BY <1>1, <1>4, <1>13, <1>a, <3>2, <4>1 DEF Standing, InPage, OnScreen
      <4>3. page' = u /\ pass' = pass
            /\ stored' = IF Active(u) # Active(page) THEN MirrorActive(u, stored) ELSE stored
        BY <1>8, <1>9, <4>1, RenderOfTheSame
      <4>4. Active(u) # None /\ Active(u) \in Roots
        BY <1>8, <1>13, ActiveIs
      <4>5. MirrorActive(u, stored) = [stored EXCEPT !.active = Active(u)]
        BY <1>8, <4>2, <4>4 DEF MirrorActive
      <4>6. stored' \in Stores /\ stored'.paths = R /\ stored'.active = Active(u)
        BY <1>9, <4>2, <4>3, <4>4, <4>5 DEF Stores
      <4> QED BY <1>8, <3>2, <4>2, <4>3, <4>6
    <3> QED BY <3>1, <3>2
  <2>3. OpenTabs(page') = R /\ Listed' = ToSet(R) /\ Standing'
    BY <1>3, <2>2, Tabs DEF Listed, Standing
  <2>4. /\ asked \in ToSet(R) => (page'.chosen = asked => Active(page') = asked)
        /\ page'.chosen \in ToSet(R) => Active(page') = page'.chosen
        /\ page'.chosen \notin ToSet(R) => Active(page') = Head(R)
        /\ Active(page') \in ToSet(R) /\ Active(page') \in Roots
    BY <1>13, <2>2, <2>3, ActiveIs
  <2>5. viewed' = IF asked \in ToSet(R) /\ (asked = last \/ asked \notin Listed) THEN asked
                  ELSE IF viewed \in ToSet(R) THEN viewed ELSE Active(page')
    BY <1>9, <2>2, <2>3 DEF Seen
  <2>6. viewed' = Active(page')
    <3>1. Standing /\ L = <<>> => \A p, q \in ToSet(R) : p = q
      <4>1. Standing /\ L = <<>> => ToSet(R) \subseteq Bringers(calls)
        BY <1>1, <1>4, <1>a DEF InReading
      <4> QED BY <1>5, <4>1
    <3>2. CASE last # None
      <4>1. Standing /\ asked = last
        BY <1>5, <1>b, <1>c, <3>2
      <4>2. CASE L = <<>>
        BY <1>6, <2>4, <2>5, <3>1, <3>2, <4>1, <4>2
      <4>3. CASE L # <<>>
        <5>1. page.restoredActive
          BY <1>1, <1>a, <4>3 DEF OnScreen
        <5> QED BY <1>6, <2>2, <2>4, <2>5, <3>2, <4>1, <5>1
      <4> QED BY <4>2, <4>3
    <3>3. CASE last = None /\ page.list = NoList
      <4>1. asked = None /\ ~page.restoredActive /\ L = <<>> /\ calls = {}
        BY <1>7, <1>9, <1>a, <1>c, <3>3, Tabs DEF InPage, InCalls, Standing
      <4>2. viewed' = IF viewed \in ToSet(R) THEN viewed ELSE Active(page')
        BY <1>3, <2>5, <4>1
      <4>3. CASE viewed = stored.active
        BY <1>13, <2>2, <2>4, <4>1, <4>2, <4>3
      <4>4. CASE viewed # stored.active
        <5>1. \A p, q \in Held : p = q
          BY <1>1, <3>3, <4>4 DEF OnScreen
        <5>2. ToSet(R) \subseteq Held
          <6>1. Closers(calls) = {}
            BY <4>1 DEF Closers
          <6> QED BY <1>1, <1>a, <6>1 DEF InReading
        <5> QED BY <2>4, <4>2, <5>1, <5>2
      <4> QED BY <4>3, <4>4
    <3>4. CASE last = None /\ page.list # NoList
      <4>1. Standing /\ asked = page.chosen
        BY <1>1, <1>7, <1>c, <3>4 DEF Standing
      <4>2. CASE L = <<>>
        BY <2>4, <2>5, <3>1, <4>1, <4>2
      <4>3. CASE L # <<>>
        <5>1. page.restoredActive /\ viewed = Active(page)
          BY <1>1, <1>a, <4>3 DEF OnScreen
        <5>2. page'.chosen = page.chosen
          BY <2>2, <4>1, <5>1
        <5>3. CASE page.chosen \in Listed
          <6>1. viewed = page.chosen
            BY <1>9, <5>1, <5>3, ActiveIs DEF Listed
          <6>2. viewed' = IF viewed \in ToSet(R) THEN viewed ELSE Active(page')
            BY <1>3, <2>5, <3>4, <4>1, <5>3
          <6> QED BY <2>4, <5>2, <6>1, <6>2
        <5>4. CASE page.chosen \notin Listed
          <6>1. viewed = Head(L)
            BY <1>9, <1>a, <4>3, <5>1, <5>4, ActiveIs DEF Listed
          <6>2. CASE page.chosen \in ToSet(R)
            BY <2>4, <2>5, <4>1, <5>2, <5>4, <6>2
          <6>3. CASE page.chosen \notin ToSet(R)
            <7>1. viewed' = IF viewed \in ToSet(R) THEN viewed ELSE Active(page')
              BY <2>5, <4>1, <6>3
            <7>2. Active(page') = Head(R)
              BY <2>4, <5>2, <6>3
            <7>3. Head(L) \in ToSet(R) => Head(R) = Head(L)
              <8>1. Continues(L, R)
                BY <1>1, <1>4, <1>a, <2>1, <4>1 DEF InOrder
              <8> QED BY <1>3, <1>4, <1>13, <4>3, <8>1, SameFirst
            <7> QED BY <6>1, <7>1, <7>2, <7>3
          <6> QED BY <6>2, <6>3
        <5> QED BY <5>3, <5>4
      <4> QED BY <4>2, <4>3
    <3> QED BY <3>2, <3>3, <3>4
  <2>7. viewed' \in Roots \cup {None}
    BY <2>4, <2>6
  <2>8. TabsTypes'
    BY <1>1, <1>2, <1>3, <1>9, <2>2, <2>3, <2>7, NoneInEmpty DEF TabsTypes
  <2>9. InCalls'
    <3>1. \A c \in calls' : c \in calls
      BY <1>2
    <3>2. \A c \in calls' : c.what = "close" => c.path \in ToSet(R)
      BY <1>1, <1>a, <3>1 DEF InCalls
    <3>3. \A c, d \in calls' : c.path = d.path \/ (c.what = "open" /\ d.what = "open") => c = d
      BY <3>1 DEF InCalls
    <3>4. \A c \in calls' : c.what = "close" =>
            /\ c.at # "listing"
            /\ c.at = "asked" => c.path \in Held
            /\ c.at = "done" => c.path \notin Held
      BY <3>1 DEF InCalls
    <3>5. \A c \in calls' : c.what = "open" => (c.at # "asked" => c.path \in Held) /\ c.path \notin closed
      BY <3>1 DEF InCalls
    <3> QED BY <1>1, <1>2, <1>10, <2>3, <3>2, <3>3, <3>4, <3>5 DEF InCalls
  <2>10. InPass' /\ InPage'
    <3>1. Listed' \subseteq wanted'
      BY <1>9, <2>3
    <3> QED BY <1>1, <1>2, <1>3, <2>2, <2>3, <3>1 DEF InPass, InPage
  <2>11. InLists' /\ InReading'
    <3>1. ToSet(R) \subseteq Held \cup Closers(calls) /\ Held \subseteq ToSet(R) \cup Bringers(calls)
          /\ wanted \ Closers(calls) \subseteq ToSet(R)
      BY <1>1, <1>a, <2>1 DEF InReading
    <3>2. wanted \ Closers(calls) \subseteq Held
      BY <1>1, <2>1 DEF InLists
    <3>3. Held \subseteq ToSet(R) \cup Bringers(calls')
      BY <1>5, <3>1
    <3> QED BY <1>1, <1>2, <1>5, <1>9, <1>10, <2>2, <2>3, <3>1, <3>2, <3>3 DEF InLists, InReading
  <2>12. InOrder'
    <3>1. Continues(R, registry)
      BY <1>1, <1>a DEF InOrder
    <3> QED BY <1>1, <1>10, <2>2, <3>1 DEF InOrder
  <2>13. OnScreen'
    BY <1>3, <2>2, <2>3, <2>6 DEF OnScreen
  <2>14. Gone'
    BY <1>1, <1>2, <1>10, <1>a, <2>2 DEF Gone
  <2> QED BY <2>8, <2>9, <2>10, <2>11, <2>12, <2>13, <2>14
<1> QED BY <1>11, <1>12, <1>13

-----------------------------------------------------------------------------
(* The whole. *)

LEMMA TabsStart == TabsInit => TabsInv
<1> SUFFICES ASSUME TabsInit PROVE TabsInv
  OBVIOUS
<1>1. /\ onDisk = Roots /\ registry = <<>> /\ stored = [paths |-> <<>>, active |-> None] /\ page = Fresh
      /\ reading = [at |-> "asked", list |-> <<>>] /\ pass = [at |-> "none", left |-> <<>>]
      /\ calls = {} /\ unseen = FALSE /\ wanted = {} /\ closed = {} /\ viewed = None
  BY DEF TabsInit, ListAsked, NoPass
<1>2. /\ page \in Pages /\ page.list = NoList /\ page.chosen = None /\ ~page.failed
      /\ ~page.restoredActive /\ ~page.restoring /\ OpenTabs(page) = <<>>
  BY <1>1 DEF Fresh, Pages, OpenTabs
<1>3. Listed = {} /\ Held = {} /\ ~Standing /\ ~Replied
  BY <1>1, <1>2, NoneInEmpty DEF Listed, Held, Standing, Replied
<1>4. TabsTypes
  BY <1>1, <1>2, NoneInEmpty DEF TabsTypes, Stores
<1>5. InCalls /\ InPass /\ InPage
  BY <1>1, <1>2, <1>3 DEF InCalls, InPass, InPage
<1>6. InLists /\ InReading /\ InOrder
  BY <1>1, <1>2, <1>3 DEF InLists, InReading, InOrder
<1>7. OnScreen /\ Gone
  BY <1>1, <1>2, <1>3, NoneInEmpty DEF OnScreen, Gone
<1> QED BY <1>4, <1>5, <1>6, <1>7 DEF TabsInv

LEMMA TabsStays == TabsInv /\ UNCHANGED tabsVars => TabsInv'
<1> SUFFICES ASSUME TabsInv, UNCHANGED tabsVars PROVE TabsInv'
  OBVIOUS
<1> USE DEF TabsInv
<1>1. UNCHANGED <<onDisk, registry, stored, page, reading, pass, calls, unseen, wanted, closed, viewed>>
  BY DEF tabsVars
<1>2. /\ Listed' = Listed /\ Held' = Held /\ Standing' = Standing /\ Replied' = Replied
      /\ Closers(calls)' = Closers(calls) /\ Bringers(calls)' = Bringers(calls)
  BY <1>1 DEF Listed, Held, Standing, Replied
<1>3. TabsTypes' /\ InCalls' /\ InPass' /\ InPage'
  BY <1>1, <1>2 DEF TabsTypes, InCalls, InPass, InPage
<1>4. InLists' /\ InReading' /\ InOrder' /\ OnScreen' /\ Gone'
  BY <1>1, <1>2 DEF InLists, InReading, InOrder, OnScreen, Gone
<1> QED BY <1>3, <1>4

LEMMA TabsSteps == OnlyFailing /\ TabsInv /\ [TabsNext]_tabsVars => TabsInv'
<1> SUFFICES ASSUME OnlyFailing, TabsInv, [TabsNext]_tabsVars PROVE TabsInv'
  OBVIOUS
<1>1. CASE DaemonLists  BY <1>1, DaemonListsKeeps
<1>2. CASE ListRead  BY <1>2, ListReadKeeps
<1>3. CASE Reopen  BY <1>3, ReopenKeeps
<1>4. CASE Reread  BY <1>4, RereadKeeps
<1>5. CASE EndPass  BY <1>5, EndPassKeeps
<1>6. ASSUME NEW c \in calls, DaemonServes(c) PROVE TabsInv'  BY <1>6, DaemonServesKeeps
<1>7. ASSUME NEW c \in calls, OpenAnswered(c) PROVE TabsInv'  BY <1>7, OpenAnsweredKeeps
<1>8. ASSUME NEW c \in calls, CloseAnswered(c) PROVE TabsInv'  BY <1>8, CloseAnsweredKeeps
<1>9. CASE Refetch  BY <1>9, RefetchKeeps
<1>10. CASE ListFailed  BY <1>10, ListFailedKeeps
<1>11. CASE RereadFails  BY <1>11, RereadFailsKeeps
<1>12. ASSUME NEW p \in Roots, Select(p) PROVE TabsInv'  BY <1>12, SelectKeeps
<1>13. ASSUME NEW p \in Roots, AskOpen(p) PROVE TabsInv'  BY <1>13, AskOpenKeeps
<1>14. ASSUME NEW p \in Roots, AskClose(p) PROVE TabsInv'  BY <1>14, AskCloseKeeps
<1>15. ASSUME NEW p \in Roots, Move(p) PROVE TabsInv'  BY <1>15, MoveKeeps
<1>16. CASE Reload  BY <1>16, ReloadKeeps
<1>17. CASE Restart  BY <1>17, RestartKeeps
<1>18. CASE UNCHANGED tabsVars  BY <1>18, TabsStays
<1> QED BY <1>1, <1>2, <1>3, <1>4, <1>5, <1>6, <1>7, <1>8, <1>9, <1>10, <1>11, <1>12, <1>13, <1>14, <1>15,
            <1>16, <1>17, <1>18 DEF TabsNext, Settling

LEMMA TabsAre == TabsInv => TabsAreKept
<1> SUFFICES ASSUME TabsInv PROVE TabsAreKept
  OBVIOUS
<1> USE DEF TabsInv
<1>1. Closing = Closers(calls)
  BY DEF Closing, Closers
<1>2. TabsTypeOK
  <2>1. \A s \in Seq(Roots) : ToSet(s) \subseteq Roots
    BY SetOf
  <2>2. /\ stored.paths \in Seq(Roots) /\ stored.active \in Roots \cup {None}
        /\ page.list \in Seq(Roots) \/ page.list = NoList
        /\ page.chosen \in Roots \cup {None}
        /\ page.failed \in BOOLEAN /\ page.ready \in BOOLEAN /\ page.restoredActive \in BOOLEAN
        /\ page.restoring \in BOOLEAN
    BY DEF TabsTypes, Pages, Stores
  <2>3. /\ reading.at \in {"none", "asked", "answered"} /\ reading.list \in Seq(Roots)
        /\ pass.at \in {"none", "opening", "listing", "again", "lost"}
        /\ \A c \in calls : c.path \in Roots /\ c.at \in {"asked", "done", "listing"}
    BY DEF TabsTypes, Calls
  <2>4. /\ onDisk \subseteq Roots /\ registry \in Seq(Roots) /\ IsInjective(registry)
        /\ wanted \cup closed \subseteq Roots /\ viewed \in Roots \cup {None}
    BY DEF TabsTypes
  <2>5. {page.failed, page.ready, page.restoredActive, page.restoring} \subseteq BOOLEAN
    BY <2>2
  <2> QED BY <2>1, <2>2, <2>3, <2>4, <2>5 DEF TabsTypeOK
<1>3. Remembered
  BY <1>1 DEF Remembered, InLists
<1>4. StaysOnScreen
  <2>1. page.restoring \/ OpenTabs(page) = <<>> \/ viewed = Active(page)
    BY DEF OnScreen
  <2> QED BY <2>1, NoneInEmpty DEF StaysOnScreen
<1> QED BY <1>2, <1>3, <1>4 DEF TabsAreKept

\* Whatever repositories there are, and however often what is asked, restarted and
\* reloaded: if of the interruptions only a read of the list that fails occurs, what
\* was on screen and not closed is remembered, and what the user chose last is what
\* Workbench shows.
THEOREM TabsKept ==
    ASSUME OnlyFailing
    PROVE  TabsSpec => []TabsAreKept
<1>1. TabsInit => TabsInv
  BY TabsStart
<1>2. TabsInv /\ [TabsNext]_tabsVars => TabsInv'
  BY TabsSteps
<1>3. TabsInv => TabsAreKept
  BY TabsAre
<1> QED BY <1>1, <1>2, <1>3, PTL DEF TabsSpec

\* Under the same hypothesis, the reopening that Workbench does of what sessionStore
\* remembers brings back nothing the user closed.
THEOREM ClosedStay ==
    ASSUME OnlyFailing
    PROVE  TabsSpec => ClosedStaysClosed
<1>1. TabsInit => TabsInv
  BY TabsStart
<1>2. TabsInv /\ [TabsNext]_tabsVars => TabsInv'
  BY TabsSteps
<1>3. TabsInv => [Reopen => (ToSet(registry') \ ToSet(registry)) \cap closed = {}]_tabsVars
  BY ReopenKeeps DEF Held
<1> QED BY <1>1, <1>2, <1>3, PTL DEF TabsSpec, ClosedStaysClosed

-----------------------------------------------------------------------------
(***************************************************************************)
(* What is proved of the dialogs, for any of them, whatever is asked for    *)
(* and any number of gestures.                                             *)
(*                                                                         *)
(* `OneClaims` says that of the proposals on their way at most one may     *)
(* still open in the slot, over the dialog that the slot has: whoever      *)
(* opens, draws or asks there revokes the others, and only what is typed   *)
(* changes the dialog without revoking, which is why it is compared but    *)
(* for its fields.  `BoxesAre` says that a dialog not typed in shows the   *)
(* plan of what it asks for, or none.                                      *)
(***************************************************************************)

-----------------------------------------------------------------------------
(* Of the table of dialogs: what cannot be asked for twice, and the list of *)
(* remotes, which its views go back to.                                     *)

Disabling(d) == d.run # None => "run" \in d.waits \/ ("manage" \in d.waits /\ d.run \in Manage)
AllDisabling(f) == \A k \in DOMAIN f : Disabling(f[k])

LEMMA BranchDialogsDisable == AllDisabling(BranchDialogs)
<1>1. Disabling(SearchDialog) /\ Disabling(CreateBranchDialog) /\ Disabling(RenameBranchDialog)
  BY DEF Disabling, SearchDialog, CreateBranchDialog, RenameBranchDialog, Form
<1>2. Disabling(DeleteBranchDialog) /\ Disabling(RebaseBranchDialog) /\ Disabling(UnsetUpstreamDialog)
  BY DEF Disabling, DeleteBranchDialog, RebaseBranchDialog, UnsetUpstreamDialog, Confirm
<1>3. Disabling(SetUpstreamDialog) /\ Disabling(MergeBranchDialog)
  BY DEF Disabling, SetUpstreamDialog, MergeBranchDialog, Form, Confirm
<1>4. ASSUME NEW k \in DOMAIN BranchDialogs PROVE Disabling(BranchDialogs[k])
  BY <1>1, <1>2, <1>3 DEF BranchDialogs
<1> QED BY <1>4 DEF AllDisabling

LEMMA CommitDialogsDisable == AllDisabling(CommitDialogs)
<1>1. Disabling(RebasePlanDialog) /\ Disabling(DeleteTagDialog) /\ Disabling(CherryPickDialog) /\ Disabling(RevertDialog)
  BY DEF Disabling, RebasePlanDialog, DeleteTagDialog, CherryPickDialog, RevertDialog, Confirm
<1>2. Disabling(CreateTagDialog) /\ Disabling(PushTagDialog) /\ Disabling(ResetDialog)
  BY DEF Disabling, CreateTagDialog, PushTagDialog, ResetDialog, Form, Confirm
<1>3. ASSUME NEW k \in DOMAIN CommitDialogs PROVE Disabling(CommitDialogs[k])
  BY <1>1, <1>2 DEF CommitDialogs
<1> QED BY <1>3 DEF AllDisabling

LEMMA WorkTreeDialogsDisable == AllDisabling(WorkTreeDialogs)
<1>1. Disabling(StashPushDialog) /\ Disabling(StashApplyDialog) /\ Disabling(StashDropDialog)
  BY DEF Disabling, StashPushDialog, StashApplyDialog, StashDropDialog, Confirm
<1>2. Disabling(AddWorktreeDialog) /\ Disabling(AddSubmoduleDialog) /\ Disabling(TrackLFSDialog)
  BY DEF Disabling, AddWorktreeDialog, AddSubmoduleDialog, TrackLFSDialog, Continued, Form
<1>3. Disabling(RemoveWorktreeDialog) /\ Disabling(RemoveSubmoduleDialog) /\ Disabling(UntrackLFSDialog)
  BY DEF Disabling, RemoveWorktreeDialog, RemoveSubmoduleDialog, UntrackLFSDialog, Confirm
<1>4. ASSUME NEW k \in DOMAIN WorkTreeDialogs PROVE Disabling(WorkTreeDialogs[k])
  BY <1>1, <1>2, <1>3 DEF WorkTreeDialogs
<1> QED BY <1>4 DEF AllDisabling

LEMMA RemoteDialogsDisable == AllDisabling(RemoteDialogs) /\ AllDisabling(BesideDialogs)
<1>1. Disabling(PublishBranchDialog) /\ Disabling(ForcePushDialog) /\ Disabling(UndoDialog) /\ Disabling(OperationDialog)
  BY DEF Disabling, PublishBranchDialog, ForcePushDialog, UndoDialog, OperationDialog, Confirm
<1>2. Disabling(RemoteList) /\ Disabling(AddRemoteDialog) /\ Disabling(RenameRemoteDialog)
  BY DEF Disabling, RemoteList, AddRemoteDialog, RenameRemoteDialog, Form, Manage
<1>3. Disabling(SetRemoteURLDialog) /\ Disabling(RemoveRemoteDialog)
  BY DEF Disabling, SetRemoteURLDialog, RemoveRemoteDialog, Form, Confirm, Manage
<1>4. ASSUME NEW k \in DOMAIN RemoteDialogs PROVE Disabling(RemoteDialogs[k])
  BY <1>1, <1>2, <1>3 DEF RemoteDialogs
<1>5. ASSUME NEW k \in DOMAIN BesideDialogs PROVE Disabling(BesideDialogs[k])
  BY <1>1 DEF BesideDialogs
<1> QED BY <1>4, <1>5 DEF AllDisabling

LEMMA Together ==
    ASSUME NEW f, NEW g, AllDisabling(f), AllDisabling(g)
    PROVE  AllDisabling(And(f, g))
<1>1. \A k \in DOMAIN And(f, g) : And(f, g)[k] = IF k \in DOMAIN f THEN f[k] ELSE g[k]
  BY DEF And
<1>2. DOMAIN And(f, g) = DOMAIN f \cup DOMAIN g
  BY DEF And
<1> QED BY <1>1, <1>2 DEF AllDisabling

\* What a dialog runs disables the buttons of that dialog.
LEMMA EveryDialogDisables == \A k \in Kinds : Disabling(Dialog[k])
<1> DEFINE a == And(RemoteDialogs, BesideDialogs)
           b == And(WorkTreeDialogs, a)
           c == And(CommitDialogs, b)
<1>1. AllDisabling(a)
  BY RemoteDialogsDisable, Together
<1> HIDE DEF a
<1>2. AllDisabling(b)
  BY <1>1, WorkTreeDialogsDisable, Together
<1> HIDE DEF b
<1>3. AllDisabling(c)
  BY <1>2, CommitDialogsDisable, Together
<1> HIDE DEF c
<1>4. AllDisabling(And(BranchDialogs, c))
  BY <1>3, BranchDialogsDisable, Together
<1>5. Dialog = And(BranchDialogs, c)
  BY DEF Dialog, a, b, c
<1> QED BY <1>4, <1>5 DEF AllDisabling, Kinds

LEMMA TheListOfRemotes == "remotes" \in Kinds /\ PlaceOf("remotes") = "remotes"
<1> DEFINE a == And(RemoteDialogs, BesideDialogs)
           b == And(WorkTreeDialogs, a)
           c == And(CommitDialogs, b)
<1>1. "remotes" \in DOMAIN a /\ a["remotes"] = RemoteList
  BY DEF And, RemoteDialogs
<1> HIDE DEF a
<1>2. "remotes" \in DOMAIN b /\ b["remotes"] = RemoteList
  BY <1>1 DEF And, WorkTreeDialogs
<1> HIDE DEF b
<1>3. "remotes" \in DOMAIN c /\ c["remotes"] = RemoteList
  BY <1>2 DEF And, CommitDialogs
<1> HIDE DEF c
<1>4. "remotes" \in DOMAIN And(BranchDialogs, c) /\ And(BranchDialogs, c)["remotes"] = RemoteList
  BY <1>3 DEF And, BranchDialogs
<1>5. Dialog = And(BranchDialogs, c)
  BY DEF Dialog, a, b, c
<1>6. RemoteList.place = "remotes"
  BY DEF RemoteList, Form
<1> QED BY <1>4, <1>5, <1>6 DEF Kinds, PlaceOf

-----------------------------------------------------------------------------
(* The inductive invariant of the dialogs.                                 *)

Proposals == [hook : {Dialog[k].plan : k \in Kinds}, kind : Kinds, ask : Asks, over : Boxes,
              opens : BOOLEAN, claims : BOOLEAN]

\* A plan of a dialog that is not typed in is of what the dialog asks for.
BoxesAre ==
    /\ shown \in [Places -> Boxes]
    /\ \A p \in Places : shown[p] # None =>
          /\ PlaceOf(shown[p].kind) = p
          /\ Dialog[shown[p].kind].fields # "typed" /\ shown[p].plan # None => shown[p].ask = shown[p].plan

DrawnAre ==
    /\ drawn \in Seq(Places)
    /\ ToSet(drawn) = {p \in Places : shown[p] # None}

PlansAre(ps) ==
    /\ ps \subseteq Proposals
    /\ \A q, r \in ps : q.hook = r.hook => q = r
    /\ \A r \in ps : r.claims <=> PlaceOf(r.kind) = "slot" /\ r.kind # "set_upstream"

RunsAre ==
    /\ \A r \in runs : r.kind \in Kinds
    /\ \A q, r \in runs : q.hook = r.hook => q = r
    /\ \A r \in runs : Dialog[r.kind].fields = "again" => ShowsWhatItRuns(r)

Claiming(ps) == {r \in ps : r.claims /\ r.opens}

\* One claims the slot at most, over what was there when it was asked.
OneClaims(ps, boxes) ==
    /\ \A q, r \in Claiming(ps) : q = r
    /\ \A r \in Claiming(ps) : Same(boxes[PlaceOf(r.kind)], r.over)

PlacesAre == BoxesAre /\ DrawnAre /\ PlansAre(plans) /\ OneClaims(plans, shown)
DialogsInv == PlacesAre /\ RunsAre

-----------------------------------------------------------------------------
(* Of drawing. *)

LEMMA PlacesOfKinds == \A k \in Kinds : PlaceOf(k) \in Places
BY DEF Places, PlaceOf

LEMMA BoxesAreThere ==
    ASSUME NEW k \in Kinds, NEW a \in Asks, NEW p \in Asks \cup {None}
    PROVE  /\ Box(k, a, p) \in Boxes /\ Box(k, a, p) # None
           /\ Box(k, a, p).kind = k /\ Box(k, a, p).ask = a /\ Box(k, a, p).plan = p
BY DialogsAssumption DEF Boxes, Box

LEMMA BoxIsOne ==
    ASSUME NEW dialog \in Boxes, dialog # None
    PROVE  /\ dialog \in [kind : Kinds, ask : Asks, plan : Asks \cup {None}]
           /\ dialog.kind \in Kinds /\ dialog.ask \in Asks /\ dialog.plan \in Asks \cup {None}
           /\ \A a \in Asks : [dialog EXCEPT !.ask = a] \in Boxes /\ [dialog EXCEPT !.ask = a] # None
                    /\ [dialog EXCEPT !.ask = a].kind = dialog.kind /\ [dialog EXCEPT !.ask = a].plan = dialog.plan
           /\ \A a \in Asks : [dialog EXCEPT !.plan = a] \in Boxes /\ [dialog EXCEPT !.plan = a] # None
                    /\ [dialog EXCEPT !.plan = a].kind = dialog.kind
<1>1. dialog \in [kind : Kinds, ask : Asks, plan : Asks \cup {None}]
  BY DEF Boxes
<1>2. dialog.kind \in Kinds /\ dialog.ask \in Asks /\ dialog.plan \in Asks \cup {None}
  BY <1>1
<1>3. \A b \in [kind : Kinds, ask : Asks, plan : Asks \cup {None}] : b # None
  <2> SUFFICES ASSUME NEW b \in [kind : Kinds, ask : Asks, plan : Asks \cup {None}] PROVE b # None
    OBVIOUS
  <2>1. b = [kind |-> b.kind, ask |-> b.ask, plan |-> b.plan] /\ b.kind \in Kinds /\ b.ask \in Asks
        /\ b.plan \in Asks \cup {None}
    OBVIOUS
  <2>2. [kind |-> b.kind, ask |-> b.ask, plan |-> b.plan] # None
    BY <2>1, DialogsAssumption
  <2> QED BY <2>1, <2>2
<1>4. ASSUME NEW a \in Asks
      PROVE  /\ [dialog EXCEPT !.ask = a] \in [kind : Kinds, ask : Asks, plan : Asks \cup {None}]
             /\ [dialog EXCEPT !.ask = a].kind = dialog.kind /\ [dialog EXCEPT !.ask = a].plan = dialog.plan
             /\ [dialog EXCEPT !.plan = a] \in [kind : Kinds, ask : Asks, plan : Asks \cup {None}]
             /\ [dialog EXCEPT !.plan = a].kind = dialog.kind
  BY <1>1
<1> QED BY <1>1, <1>2, <1>3, <1>4 DEF Boxes

LEMMA OneMore ==
    ASSUME NEW S, NEW s \in Seq(S), NEW e \in S
    PROVE  Append(s, e) \in Seq(S) /\ ToSet(Append(s, e)) = ToSet(s) \cup {e}
<1>1. /\ Append(s, e) \in Seq(S) /\ Len(s) \in Nat /\ Len(Append(s, e)) = Len(s) + 1 /\ Append(s, e)[Len(s) + 1] = e
      /\ \A i \in 1..Len(s) : Append(s, e)[i] = s[i]
      /\ DOMAIN s = 1..Len(s) /\ DOMAIN Append(s, e) = 1..(Len(s) + 1)
  OBVIOUS
<1> PICK t : t = Append(s, e)
  OBVIOUS
<1>2. \A i : i \in 1..(Len(s) + 1) <=> i \in 1..Len(s) \/ i = Len(s) + 1
  BY <1>1
<1>3. \A x : x \in ToSet(t) <=> \E i \in 1..(Len(s) + 1) : t[i] = x
  BY <1>1 DEF ToSet
<1>4. \A x : x \in ToSet(s) <=> \E i \in 1..Len(s) : s[i] = x
  BY <1>1 DEF ToSet
<1>5. t[Len(s) + 1] = e /\ \A i \in 1..Len(s) : t[i] = s[i]
  BY <1>1
<1>6. \A x : x \in ToSet(t) <=> x \in ToSet(s) \/ x = e
  BY <1>2, <1>3, <1>4, <1>5
<1> QED BY <1>1, <1>6

\* What is in front is one of the dialogs that are drawn.
LEMMA InFront ==
    ASSUME BoxesAre, DrawnAre, ~OnPage
    PROVE  /\ Top \in Places /\ Facing = shown[Top] /\ Facing # None /\ Facing \in Boxes
           /\ Facing.kind \in Kinds /\ PlaceOf(Facing.kind) = Top
<1>1. drawn \in Seq(Places) /\ drawn # <<>>
  BY DEF DrawnAre, OnPage
<1>2. Len(drawn) \in 1..Len(drawn) /\ DOMAIN drawn = 1..Len(drawn)
  BY <1>1
<1>3. Top \in ToSet(drawn)
  BY <1>2 DEF Top, Last, ToSet
<1>4. Top \in Places /\ shown[Top] # None
  BY <1>3 DEF DrawnAre
<1>5. shown[Top] \in Boxes
  BY <1>4 DEF BoxesAre
<1> QED BY <1>4, <1>5, BoxIsOne DEF Facing, BoxesAre

\* A dialog drawn at its place.
LEMMA DrawKeeps ==
    ASSUME BoxesAre, DrawnAre, NEW p \in Places, NEW dialog \in Boxes, Draw(p, dialog),
           dialog # None =>
               /\ PlaceOf(dialog.kind) = p
               /\ Dialog[dialog.kind].fields # "typed" /\ dialog.plan # None => dialog.ask = dialog.plan
    PROVE  /\ BoxesAre' /\ DrawnAre'
           /\ shown'[p] = dialog
           /\ \A q \in Places : q # p => shown'[q] = shown[q]
<1>1. /\ shown' = [shown EXCEPT ![p] = dialog]
      /\ drawn' = IF KindAt(shown, p) = KindAt(shown', p) THEN drawn
                  ELSE IF dialog = None THEN Without(drawn, p) ELSE Append(Without(drawn, p), p)
  BY DEF Draw
<1>2. /\ shown' \in [Places -> Boxes] /\ shown'[p] = dialog
      /\ \A q \in Places : q # p => shown'[q] = shown[q]
  BY <1>1 DEF BoxesAre
<1>3. BoxesAre'
  BY <1>2 DEF BoxesAre
<1>4. KindAt(shown, p) = KindAt(shown', p) => (shown[p] = None <=> dialog = None)
  <2>1. shown[p] # None => shown[p].kind \in Kinds
    BY BoxIsOne DEF BoxesAre
  <2>2. dialog # None => dialog.kind \in Kinds
    BY BoxIsOne
  <2> QED BY <1>2, <2>1, <2>2, DialogsAssumption DEF KindAt
<1>5. DrawnAre'
  <2>1. drawn \in Seq(Places) /\ \A q : q \in ToSet(drawn) <=> q \in Places /\ shown[q] # None
    BY DEF DrawnAre
  <2>2. CASE KindAt(shown, p) = KindAt(shown', p)
    <3>1. drawn' = drawn
      BY <1>1, <2>2
    <3>2. \A q \in Places : shown'[q] # None <=> shown[q] # None
      BY <1>2, <1>4, <2>2
    <3> QED BY <2>1, <3>1, <3>2 DEF DrawnAre
  <2>3. CASE KindAt(shown, p) # KindAt(shown', p) /\ dialog = None
    <3>1. drawn' \in Seq(Places) /\ ToSet(drawn') = ToSet(drawn) \ {p}
      BY <1>1, <2>1, <2>3, WhatIsLeft
    <3> QED BY <1>2, <2>1, <2>3, <3>1 DEF DrawnAre
  <2>4. CASE KindAt(shown, p) # KindAt(shown', p) /\ dialog # None
    <3>1. Without(drawn, p) \in Seq(Places) /\ ToSet(Without(drawn, p)) = ToSet(drawn) \ {p}
      BY <2>1, WhatIsLeft
    <3>2. drawn' = Append(Without(drawn, p), p)
      BY <1>1, <2>4
    <3>3. drawn' \in Seq(Places) /\ ToSet(drawn') = (ToSet(drawn) \ {p}) \cup {p}
      BY <3>1, <3>2, OneMore
    <3> QED BY <1>2, <2>1, <2>4, <3>3 DEF DrawnAre
  <2> QED BY <2>2, <2>3, <2>4
<1> QED BY <1>2, <1>3, <1>5

-----------------------------------------------------------------------------
(* Of plans asked for. *)

\* Who opens or claims the slot revokes the claims of the others.
LEMMA NobodyClaims ==
    ASSUME PlansAre(plans)
    PROVE  PlansAre(Revoked) /\ Claiming(Revoked) = {}
<1>1. \A r \in plans : r \in Proposals /\ [r EXCEPT !.opens = FALSE] \in Proposals
         /\ [r EXCEPT !.opens = FALSE].hook = r.hook /\ [r EXCEPT !.opens = FALSE].kind = r.kind
         /\ [r EXCEPT !.opens = FALSE].claims = r.claims /\ [r EXCEPT !.opens = FALSE].opens = FALSE
  BY DEF PlansAre, Proposals
<1>2. \A q : q \in Revoked <=> \E r \in plans : q = IF r.claims THEN [r EXCEPT !.opens = FALSE] ELSE r
  BY DEF Revoked
<1>3. ASSUME NEW q \in Revoked
      PROVE  \E r \in plans :
               /\ q \in Proposals /\ q.hook = r.hook /\ q.kind = r.kind /\ q.claims = r.claims
               /\ q = IF r.claims THEN [r EXCEPT !.opens = FALSE] ELSE r
               /\ ~(q.claims /\ q.opens)
  <2>1. PICK r \in plans : q = IF r.claims THEN [r EXCEPT !.opens = FALSE] ELSE r
    BY <1>2
  <2>2. CASE r.claims
    BY <1>1, <2>1, <2>2
  <2>3. CASE ~r.claims
    BY <1>1, <2>1, <2>3
  <2> QED BY <2>2, <2>3
<1>4. Revoked \subseteq Proposals
  BY <1>3
<1>5. ASSUME NEW q \in Revoked, NEW s \in Revoked, q.hook = s.hook PROVE q = s
  <2>1. PICK r \in plans : q.hook = r.hook /\ q = IF r.claims THEN [r EXCEPT !.opens = FALSE] ELSE r
    BY <1>3
  <2>2. PICK t \in plans : s.hook = t.hook /\ s = IF t.claims THEN [t EXCEPT !.opens = FALSE] ELSE t
    BY <1>3
  <2>3. r = t
    BY <1>5, <2>1, <2>2 DEF PlansAre
  <2> QED BY <2>1, <2>2, <2>3
<1>6. \A q \in Revoked : q.claims <=> PlaceOf(q.kind) = "slot" /\ q.kind # "set_upstream"
  BY <1>3 DEF PlansAre
<1>7. Claiming(Revoked) = {}
  BY <1>3 DEF Claiming
<1> QED BY <1>4, <1>5, <1>6, <1>7 DEF PlansAre

\* Of two kinds of places, only the slot is freed.
LEMMA FreedAre ==
    ASSUME PlansAre(plans), OneClaims(plans, shown), NEW k \in Kinds, NEW boxes,
           \A q \in Places : q # PlaceOf(k) => boxes[q] = shown[q]
    PROVE  /\ PlansAre(Freed(k)) /\ OneClaims(Freed(k), boxes)
           /\ PlaceOf(k) = "slot" => Claiming(Freed(k)) = {}
<1>1. CASE PlaceOf(k) = "slot"
  <2>1. Freed(k) = Revoked
    BY <1>1 DEF Freed
  <2> QED BY <1>1, <2>1, NobodyClaims DEF OneClaims
<1>2. CASE PlaceOf(k) # "slot"
  <2>1. Freed(k) = plans
    BY <1>2 DEF Freed
  <2>2. \A r \in Claiming(plans) : r.kind \in Kinds /\ PlaceOf(r.kind) = "slot"
    BY DEF Claiming, PlansAre, Proposals
  <2>3. \A r \in Claiming(plans) : boxes[PlaceOf(r.kind)] = shown[PlaceOf(r.kind)]
    BY <1>2, <2>2, PlacesOfKinds
  <2>4. OneClaims(plans, boxes)
    BY <2>3 DEF OneClaims
  <2> QED BY <1>2, <2>1, <2>4
<1> QED BY <1>1, <1>2

LEMMA SameBox == \A b : Same(b, b)
BY DEF Same

LEMMA RequestIs ==
    ASSUME NEW k \in Kinds, NEW ask \in Asks, NEW dialog \in Boxes
    PROVE  /\ Request(k, ask, dialog) \in Proposals /\ Request(k, ask, dialog).kind = k
           /\ Request(k, ask, dialog).over = dialog
           /\ Request(k, ask, dialog).claims <=> PlaceOf(k) = "slot" /\ k # "set_upstream"
<1>1. Dialog[k].plan \in {Dialog[j].plan : j \in Kinds}
  OBVIOUS
<1>2. (PlaceOf(k) = "slot" /\ k # "set_upstream") \in BOOLEAN
  OBVIOUS
<1> QED BY <1>1, <1>2 DEF Request, Proposals

\* One request more, which its hook hears of instead of the one before.
LEMMA WithOneMore ==
    ASSUME NEW ps, PlansAre(ps), NEW r \in Proposals,
           r.claims <=> PlaceOf(r.kind) = "slot" /\ r.kind # "set_upstream"
    PROVE  /\ PlansAre(With(ps, r))
           /\ \A q \in Claiming(With(ps, r)) : q \in Claiming(ps) \/ (q = r /\ r.claims)
<1>1. With(ps, r) \subseteq Proposals
  BY DEF With, PlansAre
<1>2. \A p, q \in With(ps, r) : p.hook = q.hook => p = q
  BY DEF With, PlansAre
<1>3. \A q \in With(ps, r) : q.claims <=> PlaceOf(q.kind) = "slot" /\ q.kind # "set_upstream"
  BY DEF With, PlansAre
<1>4. \A q \in Claiming(With(ps, r)) : q \in Claiming(ps) \/ (q = r /\ r.claims)
  BY DEF With, Claiming
<1> QED BY <1>1, <1>2, <1>3, <1>4 DEF PlansAre

\* A plan asked for over what its place has, then or by the same step.
LEMMA AskedOver ==
    ASSUME PlansAre(plans), OneClaims(plans, shown), NEW k \in Kinds, NEW ask \in Asks, NEW dialog \in Boxes,
           NEW boxes, boxes[PlaceOf(k)] = dialog, \A q \in Places : q # PlaceOf(k) => boxes[q] = shown[q]
    PROVE  /\ PlansAre(With(Freed(k), Request(k, ask, dialog)))
           /\ OneClaims(With(Freed(k), Request(k, ask, dialog)), boxes)
<1> PICK r, ps : r = Request(k, ask, dialog) /\ ps = Freed(k)
  OBVIOUS
<1>1. /\ r \in Proposals /\ r.kind = k /\ r.over = dialog
      /\ r.claims <=> PlaceOf(k) = "slot" /\ k # "set_upstream"
  BY RequestIs
<1>2. /\ PlansAre(ps) /\ OneClaims(ps, boxes)
      /\ PlaceOf(k) = "slot" => Claiming(ps) = {}
  BY FreedAre
<1>3. /\ PlansAre(With(ps, r))
      /\ \A q \in Claiming(With(ps, r)) : q \in Claiming(ps) \/ (q = r /\ r.claims)
  BY <1>1, <1>2, WithOneMore
<1>4. Same(boxes[PlaceOf(r.kind)], r.over)
  BY <1>1, SameBox
<1>5. CASE r.claims
  <2>1. \A q \in Claiming(With(ps, r)) : q = r
    BY <1>1, <1>2, <1>3, <1>5
  <2> QED BY <1>3, <1>4, <2>1 DEF OneClaims
<1>6. CASE ~r.claims
  <2>1. \A q \in Claiming(With(ps, r)) : q \in Claiming(ps)
    BY <1>3, <1>6
  <2> QED BY <1>2, <1>3, <2>1 DEF OneClaims
<1> QED BY <1>3, <1>5, <1>6

\* Where nothing is asked for, no plan of that kind opens anything.
LEMMA FewerOpen ==
    ASSUME NEW ps, NEW boxes, NEW k \in Kinds, PlansAre(ps), OneClaims(ps, boxes),
           PlaceOf(k) # "slot" \/ Claiming(ps) = {}
    PROVE  /\ PlansAre({IF r.kind = k THEN [r EXCEPT !.opens = FALSE] ELSE r : r \in ps})
           /\ OneClaims({IF r.kind = k THEN [r EXCEPT !.opens = FALSE] ELSE r : r \in ps}, boxes)
<1> PICK new : new = {IF r.kind = k THEN [r EXCEPT !.opens = FALSE] ELSE r : r \in ps}
  OBVIOUS
<1>1. \A r \in ps : r \in Proposals /\ [r EXCEPT !.opens = FALSE] \in Proposals
         /\ [r EXCEPT !.opens = FALSE].hook = r.hook /\ [r EXCEPT !.opens = FALSE].kind = r.kind
         /\ [r EXCEPT !.opens = FALSE].claims = r.claims /\ [r EXCEPT !.opens = FALSE].opens = FALSE
  BY DEF PlansAre, Proposals
<1>2. \A q : q \in new <=> \E r \in ps : q = IF r.kind = k THEN [r EXCEPT !.opens = FALSE] ELSE r
  OBVIOUS
<1>3. ASSUME NEW q \in new
      PROVE  \E r \in ps :
               /\ q \in Proposals /\ q.hook = r.hook /\ q.kind = r.kind /\ q.claims = r.claims
               /\ q = IF r.kind = k THEN [r EXCEPT !.opens = FALSE] ELSE r
               /\ q.opens => q = r
  <2>1. PICK r \in ps : q = IF r.kind = k THEN [r EXCEPT !.opens = FALSE] ELSE r
    BY <1>2
  <2>2. CASE r.kind = k
    BY <1>1, <2>1, <2>2
  <2>3. CASE r.kind # k
    BY <1>1, <2>1, <2>3
  <2> QED BY <2>2, <2>3
<1>4. new \subseteq Proposals
  BY <1>3
<1>5. ASSUME NEW q \in new, NEW s \in new, q.hook = s.hook PROVE q = s
  <2>1. PICK r \in ps : q.hook = r.hook /\ q = IF r.kind = k THEN [r EXCEPT !.opens = FALSE] ELSE r
    BY <1>3
  <2>2. PICK t \in ps : s.hook = t.hook /\ s = IF t.kind = k THEN [t EXCEPT !.opens = FALSE] ELSE t
    BY <1>3
  <2>3. r = t
    BY <1>5, <2>1, <2>2 DEF PlansAre
  <2> QED BY <2>1, <2>2, <2>3
<1>6. \A q \in new : q.claims <=> PlaceOf(q.kind) = "slot" /\ q.kind # "set_upstream"
  BY <1>3 DEF PlansAre
<1>7. PlansAre(new)
  BY <1>4, <1>5, <1>6 DEF PlansAre
<1>8. \A q \in Claiming(new) : q \in Claiming(ps)
  BY <1>3 DEF Claiming
<1>9. OneClaims(new, boxes)
  BY <1>8 DEF OneClaims
<1> QED BY <1>7, <1>9

-----------------------------------------------------------------------------
(* The ways a dialog is opened. *)

LEMMA OpenKeeps ==
    ASSUME PlacesAre, NEW k \in Kinds, NEW dialog \in Boxes, Open(k, dialog),
           dialog # None => PlaceOf(dialog.kind) = PlaceOf(k) /\ dialog.plan = None
    PROVE  PlacesAre'
<1>1. BoxesAre /\ DrawnAre /\ PlansAre(plans) /\ OneClaims(plans, shown) /\ PlaceOf(k) \in Places
  BY PlacesOfKinds DEF PlacesAre
<1>2. Draw(PlaceOf(k), dialog) /\ plans' = Freed(k)
  BY DEF Open
<1>3. /\ BoxesAre' /\ DrawnAre'
      /\ \A q \in Places : q # PlaceOf(k) => shown'[q] = shown[q]
  BY <1>1, <1>2, DrawKeeps
<1>4. PlansAre(plans') /\ OneClaims(plans', shown')
  BY <1>1, <1>2, <1>3, FreedAre
<1> QED BY <1>3, <1>4 DEF PlacesAre

LEMMA ProposeKeeps ==
    ASSUME PlacesAre, NEW k \in Kinds, NEW ask \in Asks, Propose(k, ask)
    PROVE  PlacesAre'
<1>1. BoxesAre /\ DrawnAre /\ PlansAre(plans) /\ OneClaims(plans, shown)
  BY DEF PlacesAre
<1>2. plans' = With(Freed(k), Request(k, ask, shown[PlaceOf(k)])) /\ UNCHANGED <<shown, drawn>>
  BY DEF Propose
<1>3. shown[PlaceOf(k)] \in Boxes
  BY <1>1, PlacesOfKinds DEF BoxesAre
<1>4. PlansAre(plans') /\ OneClaims(plans', shown')
  BY <1>1, <1>2, <1>3, AskedOver
<1>5. BoxesAre' /\ DrawnAre'
  BY <1>1, <1>2 DEF BoxesAre, DrawnAre
<1> QED BY <1>4, <1>5 DEF PlacesAre

LEMMA ReplanKeeps ==
    ASSUME PlacesAre, NEW k \in Kinds, NEW ask \in Asks, Replan(k, ask)
    PROVE  PlacesAre'
<1>1. BoxesAre /\ DrawnAre /\ PlansAre(plans) /\ OneClaims(plans, shown) /\ PlaceOf(k) \in Places
  BY PlacesOfKinds DEF PlacesAre
<1> PICK dialog : dialog = Box(k, ask, None)
  OBVIOUS
<1>2. dialog \in Boxes /\ dialog # None /\ dialog.kind = k /\ dialog.plan = None
  BY BoxesAreThere
<1>3. /\ Draw(PlaceOf(k), dialog)
      /\ plans' = IF ask # Blank THEN With(Freed(k), Request(k, ask, dialog))
                  ELSE {IF r.kind = k THEN [r EXCEPT !.opens = FALSE] ELSE r : r \in Freed(k)}
  BY DEF Replan
<1>4. /\ BoxesAre' /\ DrawnAre' /\ shown'[PlaceOf(k)] = dialog
      /\ \A q \in Places : q # PlaceOf(k) => shown'[q] = shown[q]
  BY <1>1, <1>2, <1>3, DrawKeeps
<1>5. CASE ask # Blank
  <2>1. PlansAre(plans') /\ OneClaims(plans', shown')
    BY <1>1, <1>2, <1>3, <1>4, <1>5, AskedOver
  <2> QED BY <1>4, <2>1 DEF PlacesAre
<1>6. CASE ask = Blank
  <2>1. PlansAre(Freed(k)) /\ OneClaims(Freed(k), shown') /\ (PlaceOf(k) # "slot" \/ Claiming(Freed(k)) = {})
    BY <1>1, <1>4, FreedAre
  <2>2. PlansAre(plans') /\ OneClaims(plans', shown')
    BY <1>3, <1>6, <2>1, FewerOpen
  <2> QED BY <1>4, <2>2 DEF PlacesAre
<1> QED BY <1>5, <1>6

\* The list of remotes, or nothing.
LEMMA BackToTheList ==
    ASSUME NEW p \in Places, NEW backs \in BOOLEAN, backs => p = "remotes"
    PROVE  LET dialog == IF backs THEN Box("remotes", Blank, None) ELSE None
           IN  dialog \in Boxes /\ (dialog # None => PlaceOf(dialog.kind) = p /\ dialog.plan = None)
<1>1. Box("remotes", Blank, None) \in Boxes /\ Box("remotes", Blank, None).kind = "remotes"
      /\ Box("remotes", Blank, None).plan = None
  BY TheListOfRemotes, DialogsAssumption, BoxesAreThere
<1>2. None \in Boxes
  BY DEF Boxes
<1> QED BY <1>1, <1>2, TheListOfRemotes

-----------------------------------------------------------------------------
(* The user. *)

LEMMA ClickKeeps ==
    ASSUME DialogsInv, NEW k \in Offered, Click(k)
    PROVE  DialogsInv'
<1> PICK ask : ask = IF Dialog[k].fields = "typed" THEN Blank ELSE CHOOSE a \in Asks : TRUE
  OBVIOUS
<1>1. k \in Kinds /\ ask \in Asks
  BY DialogsAssumption
<1>2. Open(k, Box(k, ask, None)) /\ UNCHANGED runs
  BY DEF Click
<1>3. Box(k, ask, None) \in Boxes /\ Box(k, ask, None).kind = k /\ Box(k, ask, None).plan = None
  BY <1>1, BoxesAreThere
<1>4. PlacesAre'
  BY <1>1, <1>2, <1>3, OpenKeeps DEF DialogsInv
<1> QED BY <1>2, <1>4 DEF DialogsInv, RunsAre

LEMMA ConsultKeeps ==
    ASSUME DialogsInv, NEW k \in Offered, NEW ask \in Asks, Consult(k, ask) \/ ConsultBeside(k, ask)
    PROVE  DialogsInv'
<1>1. k \in Kinds /\ Propose(k, ask) /\ UNCHANGED runs
  BY DialogsAssumption DEF Consult, ConsultBeside
<1>2. PlacesAre'
  BY <1>1, ProposeKeeps DEF DialogsInv
<1> QED BY <1>1, <1>2 DEF DialogsInv, RunsAre

LEMMA ConsultUpstreamKeeps ==
    ASSUME DialogsInv, "set_upstream" \in Offered, NEW ask \in Asks, ConsultUpstream(ask)
    PROVE  DialogsInv'
<1>1. "set_upstream" \in Kinds /\ Replan("set_upstream", ask) /\ UNCHANGED runs
  BY DialogsAssumption DEF ConsultUpstream
<1>2. PlacesAre'
  BY <1>1, ReplanKeeps DEF DialogsInv
<1> QED BY <1>1, <1>2 DEF DialogsInv, RunsAre

LEMMA ConsultTagKeeps ==
    ASSUME DialogsInv, "push_tag" \in Offered, NEW ask \in Asks, ConsultTag(ask)
    PROVE  DialogsInv'
<1>1. "push_tag" \in Kinds /\ Replan("push_tag", ask) /\ UNCHANGED runs
  BY DialogsAssumption DEF ConsultTag
<1>2. PlacesAre'
  BY <1>1, ReplanKeeps DEF DialogsInv
<1> QED BY <1>1, <1>2 DEF DialogsInv, RunsAre

\* A command is sent, over what is on screen.
LEMMA RunKeeps ==
    ASSUME DialogsInv, UNCHANGED <<shown, drawn, plans>>, NEW r, r.kind \in Kinds, ShowsWhatItRuns(r),
           runs' = With(runs, r)
    PROVE  DialogsInv'
<1>1. \A q \in runs' : q = r \/ (q \in runs /\ q.hook # r.hook)
  BY DEF With
<1>2. RunsAre'
  BY <1>1 DEF DialogsInv, RunsAre
<1>3. PlacesAre'
  BY DEF DialogsInv, PlacesAre, BoxesAre, DrawnAre
<1> QED BY <1>2, <1>3 DEF DialogsInv

LEMMA CarryOnKeeps ==
    ASSUME DialogsInv, "operation" \in Offered, CarryOn
    PROVE  DialogsInv'
<1>1. PICK a \in Asks \ {Blank} :
         runs' = With(runs, [hook |-> "operation", kind |-> "operation", ask |-> a, plan |-> None])
  BY DEF CarryOn
<1> PICK r : r = [hook |-> "operation", kind |-> "operation", ask |-> a, plan |-> None]
  OBVIOUS
<1>2. r.kind \in Kinds /\ ShowsWhatItRuns(r)
  BY DialogsAssumption DEF ShowsWhatItRuns
<1>3. UNCHANGED <<shown, drawn, plans>>
  BY DEF CarryOn
<1> QED BY <1>1, <1>2, <1>3, RunKeeps

LEMMA CancelKeeps ==
    ASSUME DialogsInv, Cancel
    PROVE  DialogsInv'
<1>1. /\ Top \in Places /\ Facing.kind \in Kinds /\ PlaceOf(Facing.kind) = Top
  BY InFront DEF DialogsInv, PlacesAre, Cancel
<1> DEFINE backs == Top = "remotes" /\ Facing.kind # "remotes"
<1> PICK dialog : dialog = IF backs THEN Box("remotes", Blank, None) ELSE None
  OBVIOUS
<1>2. Open(Facing.kind, dialog) /\ UNCHANGED runs
  BY DEF Cancel
<1>3. dialog \in Boxes /\ (dialog # None => PlaceOf(dialog.kind) = Top /\ dialog.plan = None)
  <2> HIDE DEF backs
  <2>1. backs \in BOOLEAN /\ (backs => Top = "remotes")
    BY DEF backs
  <2> QED BY <1>1, <2>1, BackToTheList
<1>4. PlacesAre'
  BY <1>1, <1>2, <1>3, OpenKeeps DEF DialogsInv
<1> QED BY <1>2, <1>4 DEF DialogsInv, RunsAre

\* What is typed changes neither the dialog nor its plan.
LEMMA TypeKeeps ==
    ASSUME DialogsInv, NEW ask \in Asks, Type(ask)
    PROVE  DialogsInv'
<1>1. /\ BoxesAre /\ DrawnAre /\ PlansAre(plans) /\ OneClaims(plans, shown) /\ RunsAre /\ ~OnPage
  BY DEF DialogsInv, PlacesAre, Type
<1>2. /\ Top \in Places /\ Facing = shown[Top] /\ Facing # None /\ Facing \in Boxes
      /\ Facing.kind \in Kinds /\ PlaceOf(Facing.kind) = Top
  BY <1>1, InFront
<1> PICK dialog : dialog = [Facing EXCEPT !.ask = ask]
  OBVIOUS
<1>3. dialog \in Boxes /\ dialog # None /\ dialog.kind = Facing.kind /\ dialog.plan = Facing.plan
  BY <1>2, BoxIsOne
<1>4. /\ Draw(Top, dialog) /\ UNCHANGED <<plans, runs>> /\ Dialog[dialog.kind].fields = "typed"
  BY <1>3 DEF Type
<1>5. /\ BoxesAre' /\ DrawnAre' /\ shown'[Top] = dialog
      /\ \A q \in Places : q # Top => shown'[q] = shown[q]
  BY <1>1, <1>2, <1>3, <1>4, DrawKeeps
<1>6. OneClaims(plans, shown')
  <2>1. ASSUME NEW r \in Claiming(plans) PROVE Same(shown'[PlaceOf(r.kind)], r.over)
    <3>1. Same(shown[PlaceOf(r.kind)], r.over) /\ PlaceOf(r.kind) \in Places
      BY <1>1, PlacesOfKinds DEF OneClaims, Claiming, PlansAre, Proposals
    <3>2. CASE PlaceOf(r.kind) = Top
      BY <1>2, <1>3, <1>5, <3>1, <3>2 DEF Same
    <3>3. CASE PlaceOf(r.kind) # Top
      BY <1>5, <3>1, <3>3
    <3> QED BY <3>2, <3>3
  <2> QED BY <1>1, <2>1 DEF OneClaims
<1> QED BY <1>1, <1>4, <1>5, <1>6 DEF DialogsInv, PlacesAre, RunsAre

LEMMA ContinueKeeps ==
    ASSUME DialogsInv, Continue
    PROVE  DialogsInv'
<1>1. Facing.kind \in Kinds /\ Facing.ask \in Asks
  BY InFront, BoxIsOne DEF DialogsInv, PlacesAre, Continue
<1>2. Propose(Facing.kind, Facing.ask) /\ UNCHANGED runs
  BY DEF Continue
<1>3. PlacesAre'
  BY <1>1, <1>2, ProposeKeeps DEF DialogsInv
<1> QED BY <1>2, <1>3 DEF DialogsInv, RunsAre

LEMMA ChangeKeeps ==
    ASSUME DialogsInv, NEW ask \in Asks, Change(ask)
    PROVE  DialogsInv'
<1>1. Facing.kind \in Kinds
  BY InFront DEF DialogsInv, PlacesAre, Change
<1>2. Propose(Facing.kind, ask) \/ Replan(Facing.kind, ask)
  BY DEF Change
<1>3. UNCHANGED runs
  BY DEF Change
<1>4. PlacesAre'
  BY <1>1, <1>2, ProposeKeeps, ReplanKeeps DEF DialogsInv
<1> QED BY <1>3, <1>4 DEF DialogsInv, RunsAre

LEMMA GoToKeeps ==
    ASSUME DialogsInv, NEW k \in Offered, GoTo(k)
    PROVE  DialogsInv'
<1>1. k \in Kinds /\ UNCHANGED runs
  BY DialogsAssumption DEF GoTo
<1>2. CASE \E ask \in Asks \ {Blank} : Propose(k, ask)
  <2>1. PlacesAre'
    BY <1>1, <1>2, ProposeKeeps DEF DialogsInv
  <2> QED BY <1>1, <2>1 DEF DialogsInv, RunsAre
<1>3. CASE Open(k, Box(k, Blank, None))
  <2>1. Box(k, Blank, None) \in Boxes /\ Box(k, Blank, None).kind = k /\ Box(k, Blank, None).plan = None
    BY <1>1, BoxesAreThere, DialogsAssumption
  <2>2. PlacesAre'
    BY <1>1, <1>3, <2>1, OpenKeeps DEF DialogsInv
  <2> QED BY <1>1, <2>2 DEF DialogsInv, RunsAre
<1> QED BY <1>2, <1>3 DEF GoTo

LEMMA ConfirmKeeps ==
    ASSUME DialogsInv, Press
    PROVE  DialogsInv'
<1>1. /\ BoxesAre /\ DrawnAre /\ RunsAre /\ ~OnPage
  BY DEF DialogsInv, PlacesAre, Press
<1>2. /\ Top \in Places /\ Facing = shown[Top] /\ Facing # None /\ Facing.kind \in Kinds
  BY <1>1, InFront
<1> PICK r : r = [hook |-> Dialog[Facing.kind].run, kind |-> Facing.kind, ask |-> Sent(Facing),
                  plan |-> Facing.plan]
  OBVIOUS
<1>3. runs' = With(runs, r) /\ UNCHANGED <<shown, drawn, plans>>
  BY DEF Press
<1>4. r.kind = Facing.kind /\ r.plan = Facing.plan /\ r.ask = Sent(Facing)
  OBVIOUS
<1>5. Dialog[Facing.kind].fields = "again" => ShowsWhatItRuns(r)
  <2>1. Dialog[Facing.kind].fields = "again" /\ Facing.plan # None => Facing.ask = Facing.plan
    BY <1>1, <1>2 DEF BoxesAre
  <2>2. Sent(Facing) = Facing.ask \/ Sent(Facing) = Facing.plan
    BY DEF Sent
  <2> QED BY <1>4, <2>1, <2>2 DEF ShowsWhatItRuns
<1>6. \A q \in runs' : q = r \/ (q \in runs /\ q.hook # r.hook)
  BY <1>3 DEF With
<1>7. RunsAre'
  BY <1>1, <1>2, <1>4, <1>5, <1>6 DEF RunsAre
<1>8. PlacesAre'
  BY <1>3 DEF DialogsInv, PlacesAre, BoxesAre, DrawnAre
<1> QED BY <1>7, <1>8 DEF DialogsInv

-----------------------------------------------------------------------------
(* The daemon. *)

LEMMA FewerPlans ==
    ASSUME NEW ps, NEW boxes, PlansAre(ps), OneClaims(ps, boxes), NEW qs \in SUBSET ps
    PROVE  PlansAre(qs) /\ OneClaims(qs, boxes)
BY DEF PlansAre, OneClaims, Claiming

LEMMA PlanFailsKeeps ==
    ASSUME DialogsInv, NEW r \in plans, PlanFails(r)
    PROVE  DialogsInv'
<1>1. plans' \in SUBSET plans /\ UNCHANGED <<shown, drawn, runs>>
  BY DEF PlanFails
<1>2. PlansAre(plans') /\ OneClaims(plans', shown')
  BY <1>1, FewerPlans DEF DialogsInv, PlacesAre
<1> QED BY <1>1, <1>2 DEF DialogsInv, PlacesAre, BoxesAre, DrawnAre, RunsAre

LEMMA LandedIs ==
    ASSUME BoxesAre, NEW r \in Proposals
    PROVE  /\ Landed(r) \in Boxes /\ Landed(r) # None /\ Landed(r).kind = r.kind
           /\ Dialog[r.kind].fields # "typed" => Landed(r).ask = Landed(r).plan
<1> PICK dialog : dialog = shown[PlaceOf(r.kind)]
  OBVIOUS
<1>1. r.kind \in Kinds /\ r.ask \in Asks /\ dialog \in Boxes
  BY PlacesOfKinds DEF Proposals, BoxesAre
<1>2. CASE Dialog[r.kind].fields = "typed" /\ dialog # None /\ dialog.kind = r.kind
  <2>1. Landed(r) = [dialog EXCEPT !.plan = r.ask]
    BY <1>2 DEF Landed
  <2> QED BY <1>1, <1>2, <2>1, BoxIsOne
<1>3. CASE ~(Dialog[r.kind].fields = "typed" /\ dialog # None /\ dialog.kind = r.kind)
  <2>1. Landed(r) = Box(r.kind, r.ask, r.ask)
    BY <1>3 DEF Landed
  <2> QED BY <1>1, <2>1, BoxesAreThere
<1> QED BY <1>2, <1>3

\* The one proposal that claims the slot lands in it, and claims no more.
LEMMA PlanAnswersKeeps ==
    ASSUME DialogsInv, NEW r \in plans, PlanAnswers(r)
    PROVE  DialogsInv'
<1>1. /\ BoxesAre /\ DrawnAre /\ PlansAre(plans) /\ OneClaims(plans, shown) /\ RunsAre
      /\ UNCHANGED runs
  BY DEF DialogsInv, PlacesAre, PlanAnswers
<1>2. /\ r \in Proposals /\ r.kind \in Kinds /\ PlaceOf(r.kind) \in Places
      /\ r.claims <=> PlaceOf(r.kind) = "slot" /\ r.kind # "set_upstream"
  BY <1>1, PlacesOfKinds DEF PlansAre, Proposals
<1>3. CASE ~r.opens
  <2>1. plans' \in SUBSET plans /\ UNCHANGED <<shown, drawn>>
    BY <1>3 DEF PlanAnswers
  <2>2. PlansAre(plans') /\ OneClaims(plans', shown')
    BY <1>1, <2>1, FewerPlans
  <2> QED BY <1>1, <2>1, <2>2 DEF DialogsInv, PlacesAre, BoxesAre, DrawnAre, RunsAre
<1>4. CASE r.opens
  <2>1. /\ Landed(r) \in Boxes /\ Landed(r) # None /\ Landed(r).kind = r.kind
        /\ Dialog[r.kind].fields # "typed" => Landed(r).ask = Landed(r).plan
    BY <1>1, <1>2, LandedIs
  <2>2. Draw(PlaceOf(r.kind), Landed(r))
    BY <1>4 DEF PlanAnswers
  <2>3. /\ BoxesAre' /\ DrawnAre'
        /\ \A q \in Places : q # PlaceOf(r.kind) => shown'[q] = shown[q]
    BY <1>1, <1>2, <2>1, <2>2, DrawKeeps
  <2>4. PlansAre(plans') /\ OneClaims(plans', shown')
    <3>1. CASE r.kind = "set_upstream"
      <4>1. plans' = Revoked \ {r}
        BY <1>4, <3>1 DEF PlanAnswers
      <4>2. PlansAre(Revoked) /\ Claiming(Revoked) = {}
        BY <1>1, NobodyClaims
      <4>3. OneClaims(Revoked, shown')
        BY <4>2 DEF OneClaims
      <4> QED BY <4>1, <4>2, <4>3, FewerPlans
    <3>2. CASE r.kind # "set_upstream" /\ PlaceOf(r.kind) = "slot"
      <4>1. plans' = plans \ {r}
        BY <3>2 DEF PlanAnswers
      <4>2. r \in Claiming(plans)
        BY <1>2, <1>4, <3>2 DEF Claiming
      <4>3. Claiming(plans') = {}
        BY <1>1, <4>1, <4>2 DEF OneClaims, Claiming
      <4>4. PlansAre(plans')
        BY <1>1, <4>1, FewerPlans
      <4> QED BY <4>3, <4>4 DEF OneClaims
    <3>3. CASE r.kind # "set_upstream" /\ PlaceOf(r.kind) # "slot"
      <4>1. plans' \in SUBSET plans
        BY <3>3 DEF PlanAnswers
      <4>2. \A q \in Claiming(plans) : q.kind \in Kinds /\ PlaceOf(q.kind) = "slot"
        BY <1>1 DEF Claiming, PlansAre, Proposals
      <4>3. \A q \in Claiming(plans) : shown'[PlaceOf(q.kind)] = shown[PlaceOf(q.kind)]
        BY <2>3, <3>3, <4>2, PlacesOfKinds
      <4>4. OneClaims(plans, shown')
        BY <1>1, <4>3 DEF OneClaims
      <4> QED BY <1>1, <4>1, <4>4, FewerPlans
    <3> QED BY <3>1, <3>2, <3>3
  <2> QED BY <1>1, <2>3, <2>4 DEF DialogsInv, PlacesAre, RunsAre
<1> QED BY <1>3, <1>4

LEMMA SettledKeeps ==
    ASSUME DialogsInv, NEW r \in runs, NEW ok \in BOOLEAN, Settled(r, ok)
    PROVE  DialogsInv'
<1>1. runs' = runs \ {r} /\ r.kind \in Kinds /\ PlaceOf(r.kind) \in Places
  BY PlacesOfKinds DEF Settled, DialogsInv, RunsAre
<1>2. RunsAre'
  BY <1>1 DEF DialogsInv, RunsAre
<1>3. CASE UNCHANGED <<shown, drawn, plans>>
  <2>1. PlacesAre'
    BY <1>3 DEF DialogsInv, PlacesAre, BoxesAre, DrawnAre
  <2> QED BY <1>2, <2>1 DEF DialogsInv
<1>4. CASE Open(r.kind, IF PlaceOf(r.kind) = "remotes" THEN Box("remotes", Blank, None) ELSE None)
  <2> DEFINE backs == PlaceOf(r.kind) = "remotes"
  <2> PICK dialog : dialog = IF backs THEN Box("remotes", Blank, None) ELSE None
    OBVIOUS
  <2>1. dialog \in Boxes /\ (dialog # None => PlaceOf(dialog.kind) = PlaceOf(r.kind) /\ dialog.plan = None)
    <3> HIDE DEF backs
    <3>1. backs \in BOOLEAN /\ (backs => PlaceOf(r.kind) = "remotes")
      BY DEF backs
    <3> QED BY <1>1, <3>1, BackToTheList
  <2>2. PlacesAre'
    BY <1>1, <1>4, <2>1, OpenKeeps DEF DialogsInv
  <2> QED BY <1>2, <2>2 DEF DialogsInv
<1> QED BY <1>3, <1>4 DEF Settled

-----------------------------------------------------------------------------
(* All of it. *)

LEMMA DialogsInit == Init => DialogsInv
<1> SUFFICES ASSUME Init PROVE DialogsInv
  OBVIOUS
<1>1. BoxesAre
  BY DEF Init, BoxesAre, Boxes
<1>2. DrawnAre
  BY DEF Init, DrawnAre, ToSet
<1>3. PlansAre(plans) /\ OneClaims(plans, shown) /\ RunsAre
  BY DEF Init, PlansAre, OneClaims, Claiming, RunsAre
<1> QED BY <1>1, <1>2, <1>3 DEF DialogsInv, PlacesAre

LEMMA DialogsNext == DialogsInv /\ [Next]_vars => DialogsInv'
<1> SUFFICES ASSUME DialogsInv, [Next]_vars PROVE DialogsInv'
  OBVIOUS
<1>1. CASE \E k \in Offered : Click(k)
  BY <1>1, ClickKeeps
<1>2. CASE \E k \in Offered : GoTo(k)
  BY <1>2, GoToKeeps
<1>3. CASE \E k \in Offered, a \in Asks : Consult(k, a) \/ ConsultBeside(k, a)
  BY <1>3, ConsultKeeps
<1>4. CASE "set_upstream" \in Offered /\ \E a \in Asks : ConsultUpstream(a)
  BY <1>4, ConsultUpstreamKeeps
<1>5. CASE "push_tag" \in Offered /\ \E a \in Asks : ConsultTag(a)
  BY <1>5, ConsultTagKeeps
<1>6. CASE "operation" \in Offered /\ CarryOn
  BY <1>6, CarryOnKeeps
<1>7. CASE Cancel
  BY <1>7, CancelKeeps
<1>8. CASE Continue
  BY <1>8, ContinueKeeps
<1>9. CASE Press
  BY <1>9, ConfirmKeeps
<1>10. CASE \E a \in Asks : Type(a)
  BY <1>10, TypeKeeps
<1>11. CASE \E a \in Asks : Change(a)
  BY <1>11, ChangeKeeps
<1>12. CASE \E r \in plans : PlanAnswers(r)
  BY <1>12, PlanAnswersKeeps
<1>13. CASE \E r \in plans : PlanFails(r)
  BY <1>13, PlanFailsKeeps
<1>14. CASE \E r \in runs, ok \in BOOLEAN : Settled(r, ok)
  BY <1>14, SettledKeeps
<1>15. CASE UNCHANGED vars
  BY <1>15 DEF vars, DialogsInv, PlacesAre, BoxesAre, DrawnAre, RunsAre
<1> QED BY <1>1, <1>2, <1>3, <1>4, <1>5, <1>6, <1>7, <1>8, <1>9, <1>10, <1>11, <1>12, <1>13,
           <1>14, <1>15 DEF Next

LEMMA DialogsInvSays == DialogsInv => TypeOK /\ ReplannedRunWhatTheyShow
<1> SUFFICES ASSUME DialogsInv PROVE TypeOK /\ ReplannedRunWhatTheyShow
  OBVIOUS
<1>1. BoxesAre /\ DrawnAre /\ PlansAre(plans) /\ RunsAre
  BY DEF DialogsInv, PlacesAre
<1>2. DOMAIN shown = Places /\ \A p \in Places : shown[p] \in Boxes
  BY <1>1 DEF BoxesAre
<1>3. \A r \in plans : r.kind \in Kinds /\ {r.opens, r.claims} \subseteq BOOLEAN
  BY <1>1 DEF PlansAre, Proposals
<1>4. \A t \in {plans, runs} : \A q, r \in t : q.hook = r.hook => q = r
  BY <1>1 DEF PlansAre, RunsAre
<1>5. ToSet(drawn) = {p \in Places : shown[p] # None}
  BY <1>1 DEF DrawnAre
<1>6. \A p \in Places : shown[p] # None => PlaceOf(shown[p].kind) = p
  BY <1>1 DEF BoxesAre
<1>7. ReplannedRunWhatTheyShow
  BY <1>1 DEF RunsAre, ReplannedRunWhatTheyShow
<1> QED BY <1>2, <1>3, <1>4, <1>5, <1>6, <1>7 DEF TypeOK

\* What comes back to the slot was the last to claim it, over what it still has.
LEMMA AnswersLand ==
    ASSUME DialogsInv, NEW r \in plans, PlanAnswers(r), r.claims
    PROVE  LandsWhereAsked(r)
<1>1. CASE r.opens
  <2>1. r \in Claiming(plans)
    BY <1>1 DEF Claiming
  <2>2. Same(shown[PlaceOf(r.kind)], r.over)
    BY <2>1 DEF DialogsInv, PlacesAre, OneClaims
  <2> QED BY <2>2 DEF LandsWhereAsked
<1>2. CASE ~r.opens
  BY <1>2 DEF PlanAnswers, LandsWhereAsked
<1> QED BY <1>1, <1>2

\* The button that would send it again is disabled while it runs.
LEMMA PressIsOnce ==
    ASSUME DialogsInv, Press
    PROVE  ~Pending(runs, Dialog[Facing.kind].run)
<1> PICK k, run : k = Facing.kind /\ run = Dialog[Facing.kind].run
  OBVIOUS
<1>1. k \in Kinds
  BY InFront DEF DialogsInv, PlacesAre, Press
<1>2. run # None /\ ~Busy(k)
  BY DEF Press
<1>3. "run" \in Dialog[k].waits \/ ("manage" \in Dialog[k].waits /\ run \in Manage)
  BY <1>1, <1>2, EveryDialogDisables DEF Disabling
<1> QED BY <1>2, <1>3 DEF Busy

\* A plan comes back to where it was asked for, a dialog that plans again runs
\* what it shows, and what it sends is not sent again while it runs: the
\* dialogs of HistoryDialogs.tsx, RemoteActions.tsx, UndoActions.tsx and
\* OperationBanner.tsx, whichever of them the user is given.
THEOREM DialogsKeepTheirWord == Spec => DialogsRunWhatTheyShow
<1>1. Spec => []DialogsInv
  <2>1. Init => DialogsInv
    BY DialogsInit
  <2>2. DialogsInv /\ [Next]_vars => DialogsInv'
    BY DialogsNext
  <2> QED BY <2>1, <2>2, PTL DEF Spec
<1>2. DialogsInv => TypeOK /\ ReplannedRunWhatTheyShow
  BY DialogsInvSays
<1>3. DialogsInv /\ [Next]_vars => [\A r \in plans : PlanAnswers(r) /\ r.claims => LandsWhereAsked(r)]_vars
  BY AnswersLand
<1>4. DialogsInv /\ [Next]_vars => [Press => ~Pending(runs, Dialog[Facing.kind].run)]_vars
  BY PressIsOnce
<1> QED BY <1>1, <1>2, <1>3, <1>4, PTL
        DEF Spec, DialogsRunWhatTheyShow, ProposalsLandWhereAsked, NothingRunsTwice
=============================================================================
