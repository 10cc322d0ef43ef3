-------------------------------- MODULE Drafts --------------------------------
(***************************************************************************)
(* What the user has typed: the buffer of a file in                        *)
(* web/src/app/FileEditor.tsx and the message in CommitBox.tsx, with the   *)
(* two queries behind them, which are never read again by themselves       *)
(* (useWorkingDirectory.ts), and the ways they leave the screen.           *)
(*                                                                         *)
(* A buffer is laid over the file as it was read, and is dropped when that *)
(* changes.  The save names what was read, and the daemon refuses it when  *)
(* the file is no longer that: it reads the file, compares, writes another *)
(* beside it and renames that, and nothing keeps others from writing       *)
(* between the reading and the rename.  The message is laid over the one   *)
(* git would start from; it is kept while the view is left, and emptied by *)
(* the answer to its commit, if the box that asked is still drawn.         *)
(***************************************************************************)
EXTENDS Naturals, Page

CONSTANTS
    Files, Conflicted,  \* the files that are listed, and those in conflict
    MaxTexts            \* bound: texts that come to be, typed or written by git

Texts == 1..MaxTexts
Operations == [kind : {"save", "stage", "resolve"}, path : Files, text : Texts \cup {None},
               base : Texts \cup {None}, over : Texts \cup {None}, found : Texts \cup {None},
               done : BOOLEAN]
Commits == [text : {0} \cup Texts, typed : BOOLEAN, amend : BOOLEAN, asking : BOOLEAN, done : BOOLEAN]

\* Files are numbered, a file starts with the text of its number, and HEAD with
\* the next one.
ASSUME DraftsAssumption ==
    /\ None \notin Operations \cup Commits
    /\ MaxTexts \in Nat /\ Conflicted \subseteq Files
    /\ \E last \in Files : last < MaxTexts /\ \A p \in Files : p \in 1..last

\* "typing": the user types while what was typed is saved or committed.
\* "away": the view is left while it is.  "quick": a commit is asked before the
\* message git would start from has been read again.  "elsewhere": HEAD moves, or
\* an operation does, in a terminal.
DraftInterruptions == {"typing", "away", "quick", "elsewhere"}

VARIABLES
    disk, unmerged,     \* the files, and those in conflict
    head, staged, stop, stopMessage,    \* HEAD's message, whether the index
                        \* holds something, and where an operation stopped
    view,
    open, cache, stale, \* the file in the editor; the files as they were read,
                        \* and those to be read again when they are drawn
    seen, draft,        \* what the buffer is laid over, and the buffer or None
    keeping,            \* a whole side was asked for, and is confirmed
    operation,          \* of the files, asked of the daemon
    message,            \* what was typed in the box, or None
    amend, confirming, coAuthors, shownStop,
    prepared, staleMessage,     \* what git would start from, by key
    commit,             \* asked of the daemon, or None
    texts, strokes,
    over, recorded, refused     \* history variables: what the buffer was typed
                        \* over, the typed messages that were recorded by commits
                        \* whose box was not left meanwhile, and the files of which
                        \* a save was refused since they were read

files == <<disk, unmerged, open, cache, stale, seen, draft, keeping, operation, over, refused>>
box == <<message, amend, confirming, coAuthors, prepared, staleMessage, commit, recorded>>
repository == <<head, staged, stop, stopMessage, shownStop>>
draftsVars == <<files, box, repository, view, texts, strokes>>

Empty == 0
New == texts + 1
Written == texts < MaxTexts /\ texts' = New
Stroke == strokes < MaxGestures /\ strokes' = strokes + 1
Stops == 0..2
MessageKeys == BOOLEAN \X Stops

-----------------------------------------------------------------------------
(* What is drawn. *)

Drawn(path) == view = "changes" /\ open = path
Content == cache[open]
Text == IF draft # None THEN draft ELSE Content
Dirty == draft # None /\ draft # Content
OperationBusy == operation # None

\* The text git wrote in a file in conflict is the first one of that file.
HasConflictMarkers(text) == text \in Conflicted

CommitBusy == commit # None /\ commit.asking
Key == <<amend, shownStop>>
PreparedText == IF prepared[Key] = None THEN Empty ELSE prepared[Key]
Message == IF message # None THEN message ELSE PreparedText
CanCommit == Message # Empty /\ (staged \/ amend) /\ unmerged = {}

\* What git would start a commit from.
Prepares(amending) == IF amending THEN head ELSE stopMessage

-----------------------------------------------------------------------------
DraftsInit ==
    /\ disk = [p \in Files |-> p] /\ unmerged \in {{}, Conflicted}
    /\ staged \in BOOLEAN /\ stop = 0 /\ stopMessage = Empty
    /\ head = 1 + CHOOSE p \in Files : \A q \in Files : q <= p
    /\ view = "changes" /\ open = None
    /\ cache = [p \in Files |-> None] /\ stale = {}
    /\ seen = None /\ draft = None /\ keeping = FALSE /\ operation = None
    /\ message = None /\ amend = FALSE /\ confirming = FALSE /\ coAuthors = FALSE /\ shownStop = 0
    /\ prepared = [k \in MessageKeys |-> None] /\ staleMessage = {} /\ commit = None
    /\ texts = head /\ strokes = 0
    /\ over = None /\ recorded = {} /\ refused = {}

-----------------------------------------------------------------------------
(* The buffer of a file. *)

Editing == view = "changes" /\ ~keeping /\ ~confirming
Lone == UNCHANGED <<box, repository, view>>

BufferMutant(text) ==
    /\ seen' = IF open' = None THEN None ELSE cache'[open']
    /\ draft' = IF open' # open THEN None ELSE text
    /\ over' = IF draft' = None THEN None ELSE IF draft = None THEN seen' ELSE over

\* The buffer is that of the file as it was read: another file, or another
\* reading of it, starts a fresh one.
Buffer(text) ==
    /\ seen' = IF open' = None THEN None ELSE cache'[open']
    /\ draft' = IF open' # open \/ seen' # seen THEN None ELSE text
    /\ over' = IF draft' = None THEN None ELSE IF draft = None THEN seen' ELSE over

\* A row is picked, or none.
OpenFile(path) ==
    /\ Stroke /\ Editing /\ path # open
    /\ open' = path
    /\ UNCHANGED <<disk, unmerged, cache, stale, keeping, operation, refused, texts>> /\ Lone
    /\ Buffer(None)

\* A file is read when it is drawn and never was, or was dropped since.
ReadFile(path) ==
    /\ Drawn(path) /\ (cache[path] = None \/ path \in stale)
    /\ operation = None
    /\ cache' = [cache EXCEPT ![path] = disk[path]] /\ stale' = stale \ {path} /\ refused' = refused \ {path}
    /\ UNCHANGED <<disk, unmerged, open, keeping, operation, texts, strokes>> /\ Lone
    /\ Buffer(draft)

\* What is not drawn is forgotten after some minutes.
Forget(path) ==
    /\ ~Drawn(path) /\ cache[path] # None
    /\ cache' = [cache EXCEPT ![path] = None] /\ stale' = stale \ {path} /\ refused' = refused \ {path}
    /\ UNCHANGED <<disk, unmerged, open, seen, draft, keeping, operation, over, texts, strokes>> /\ Lone

\* In the text, or by taking a side of each conflict of it.
TypeText ==
    /\ Stroke /\ Written /\ Editing
    /\ open # None /\ Content # None
    /\ operation = None \/ "typing" \in MayHappen
    /\ UNCHANGED <<disk, unmerged, open, cache, stale, keeping, operation, refused>> /\ Lone
    /\ Buffer(New)

Revert ==
    /\ Stroke /\ Editing /\ Dirty /\ ~OperationBusy
    /\ UNCHANGED <<disk, unmerged, open, cache, stale, keeping, operation, refused, texts>> /\ Lone
    /\ Buffer(None)

Operation(kind, path, text, base) ==
    [kind |-> kind, path |-> path, text |-> text, base |-> base, over |-> over,
     found |-> None, done |-> FALSE]

Ask(request) ==
    /\ operation' = request
    /\ UNCHANGED <<disk, unmerged, open, cache, stale, seen, draft, over, refused, texts>> /\ Lone

Save ==
    /\ Stroke /\ Editing /\ open # None /\ Dirty /\ ~OperationBusy
    /\ Ask(Operation("save", open, draft, Content)) /\ UNCHANGED keeping

\* Not while there is something to save, nor while a marker is left.
MarkResolved ==
    /\ Stroke /\ Editing /\ open \in unmerged /\ Content # None
    /\ ~OperationBusy /\ ~Dirty /\ ~HasConflictMarkers(Text)
    /\ Ask(Operation("stage", open, None, None)) /\ UNCHANGED keeping

\* The question is put first, and stays until git has answered.
AskKeep ==
    /\ Stroke /\ Editing /\ open \in unmerged /\ Content # None /\ ~OperationBusy
    /\ keeping' = TRUE
    /\ UNCHANGED <<disk, unmerged, open, cache, stale, seen, draft, operation, over, refused, texts>> /\ Lone

CancelKeep ==
    /\ keeping /\ ~OperationBusy
    /\ keeping' = FALSE
    /\ UNCHANGED <<disk, unmerged, open, cache, stale, seen, draft, operation, over, refused, texts, strokes>>
    /\ Lone

ConfirmKeep ==
    /\ keeping /\ ~OperationBusy
    /\ Ask(Operation("resolve", open, None, None)) /\ UNCHANGED <<keeping, strokes>>

\* A save reads the file first, and goes on only when it is what the save names.
CheckSave ==
    /\ OperationBusy /\ operation.kind = "save" /\ operation.found = None
    /\ disk[operation.path] = operation.base
    /\ operation' = [operation EXCEPT !.found = disk[operation.path]]
    /\ UNCHANGED <<disk, unmerged, open, cache, stale, seen, draft, keeping, over, refused, texts, strokes>>
    /\ Lone

\* The daemon does it.  A save that was checked is renamed over whatever is
\* there now.
RunOperation ==
    /\ OperationBusy /\ ~operation.done
    /\ LET path == operation.path
       IN  CASE operation.kind = "save" ->
                  /\ operation.found # None
                  /\ disk' = [disk EXCEPT ![path] = operation.text] /\ UNCHANGED <<unmerged, staged, texts>>
             [] operation.kind = "stage" ->
                  /\ unmerged' = unmerged \ {path} /\ staged' = TRUE /\ UNCHANGED <<disk, texts>>
             [] operation.kind = "resolve" ->
                  /\ Written /\ disk' = [disk EXCEPT ![path] = New]
                  /\ unmerged' = unmerged \ {path} /\ staged' = TRUE
    /\ operation' = [operation EXCEPT !.done = TRUE]
    /\ UNCHANGED <<head, stop, stopMessage, shownStop, open, cache, stale, seen, draft, keeping, over,
                   refused, box, view, strokes>>

Mounted == operation.path = open /\ view = "changes"

\* The file that was saved comes back; a file of which a side was taken is read
\* again, before the list that says so is drawn.
AnswerOperation ==
    /\ OperationBusy /\ operation.done
    /\ LET path == operation.path
       IN  CASE operation.kind = "save" ->
                  cache' = [cache EXCEPT ![path] = operation.text] /\ UNCHANGED stale
             [] operation.kind = "resolve" /\ Drawn(path) ->
                  cache' = [cache EXCEPT ![path] = disk[path]] /\ stale' = stale \ {path}
             [] operation.kind = "resolve" /\ ~Drawn(path) ->
                  stale' = stale \cup {path} /\ UNCHANGED cache
             [] operation.kind = "stage" -> UNCHANGED <<cache, stale>>
    /\ operation' = None /\ keeping' = FALSE
    /\ UNCHANGED <<disk, unmerged, open, refused, texts, strokes>> /\ Lone
    /\ Buffer(IF operation.kind = "save" /\ Mounted THEN None ELSE draft)

\* Refused, by git or because the file is no longer what the save names; or
\* told as a failure because the status to answer with could not be read.
RefuseOperation ==
    /\ OperationBusy
    /\ operation' = None /\ keeping' = FALSE
    /\ refused' = IF operation.kind = "save" /\ operation.found = None /\ disk[operation.path] # operation.base
                  THEN refused \cup {operation.path} ELSE refused
    /\ UNCHANGED <<disk, unmerged, open, cache, stale, seen, draft, over, texts, strokes>> /\ Lone

-----------------------------------------------------------------------------
(* The message of a commit. *)

Apart == UNCHANGED <<files, repository, view>>

TypeMessage ==
    /\ Stroke /\ Editing
    /\ commit = None \/ "typing" \in MayHappen
    /\ \/ Written /\ message' = New
       \/ message' = Empty /\ UNCHANGED texts
    /\ UNCHANGED <<amend, confirming, coAuthors, prepared, staleMessage, commit, recorded>> /\ Apart

Amend(ticked) ==
    /\ Stroke /\ Editing /\ ticked # amend
    /\ amend' = ticked
    /\ UNCHANGED <<message, confirming, coAuthors, prepared, staleMessage, commit, recorded, texts>> /\ Apart

AddCoAuthor(there) ==
    /\ Stroke /\ Editing /\ there # coAuthors
    /\ coAuthors' = there
    /\ UNCHANGED <<message, amend, confirming, prepared, staleMessage, commit, recorded, texts>> /\ Apart

\* What git would start from is read when it is asked for and never was, or was
\* dropped since.
ReadPrepared ==
    /\ view = "changes" /\ (prepared[Key] = None \/ Key \in staleMessage)
    /\ prepared' = [prepared EXCEPT ![Key] = Prepares(amend)] /\ staleMessage' = staleMessage \ {Key}
    /\ UNCHANGED <<message, amend, confirming, coAuthors, commit, recorded, texts, strokes>> /\ Apart

Current == (prepared[Key] # None /\ Key \notin staleMessage) \/ "quick" \in MayHappen

SendMutant ==
    /\ commit' = [text |-> Message, typed |-> message # None, amend |-> amend, asking |-> TRUE, done |-> FALSE]
    /\ message' = None

\* The trailers go with it.  The box is left as it is until git has answered.
Send ==
    /\ commit' = [text |-> Message, typed |-> message # None, amend |-> amend, asking |-> TRUE, done |-> FALSE]
    /\ UNCHANGED message

\* An amend is confirmed first.
Submit ==
    /\ Stroke /\ Editing /\ Current
    /\ CanCommit /\ ~CommitBusy /\ commit = None
    /\ IF amend THEN confirming' = TRUE /\ UNCHANGED <<commit, message>> ELSE Send /\ UNCHANGED confirming
    /\ UNCHANGED <<amend, coAuthors, prepared, staleMessage, recorded, texts>> /\ Apart

ConfirmAmend ==
    /\ confirming /\ commit = None /\ Current
    /\ confirming' = FALSE /\ Send
    /\ UNCHANGED <<amend, coAuthors, prepared, staleMessage, recorded, texts, strokes>> /\ Apart

CancelAmend ==
    /\ confirming /\ confirming' = FALSE
    /\ UNCHANGED <<message, amend, coAuthors, prepared, staleMessage, commit, recorded, texts, strokes>> /\ Apart

RunCommit ==
    /\ commit # None /\ ~commit.done
    /\ commit.amend \/ staged
    /\ head' = commit.text /\ staged' = FALSE
    /\ recorded' = IF commit.typed /\ commit.asking THEN recorded \cup {commit.text} ELSE recorded
    /\ commit' = [commit EXCEPT !.done = TRUE]
    /\ UNCHANGED <<stop, stopMessage, shownStop, files, message, amend, confirming, coAuthors, prepared,
                   staleMessage, view, texts, strokes>>

FullBoxMutant ==
    /\ staleMessage' = {k \in MessageKeys : prepared[k] # None}
    /\ IF commit.asking THEN coAuthors' = FALSE ELSE UNCHANGED coAuthors
    /\ UNCHANGED message

\* What git would start from is dropped, and the box that asked is emptied.
AfterCommit ==
    /\ staleMessage' = {k \in MessageKeys : prepared[k] # None}
    /\ IF commit.asking THEN message' = None /\ coAuthors' = FALSE ELSE UNCHANGED <<message, coAuthors>>

AnswerCommit ==
    /\ commit # None /\ commit.done
    /\ AfterCommit /\ commit' = None
    /\ UNCHANGED <<amend, confirming, prepared, recorded, texts, strokes>> /\ Apart

\* The message stays, with what git said under it.
RefuseCommit ==
    /\ commit # None /\ ~commit.done
    /\ commit' = None
    /\ UNCHANGED <<message, amend, confirming, coAuthors, prepared, staleMessage, recorded, texts, strokes>>
    /\ Apart

-----------------------------------------------------------------------------
(* Around them. *)

\* The buffer and the box go with the view; the message does not.
Leave ==
    /\ Stroke /\ Editing
    /\ (operation = None /\ commit = None) \/ "away" \in MayHappen
    /\ view' = "history"
    /\ draft' = None /\ seen' = None /\ over' = None /\ keeping' = FALSE
    /\ amend' = FALSE /\ confirming' = FALSE /\ coAuthors' = FALSE
    /\ IF commit = None THEN UNCHANGED <<commit, recorded>>
       ELSE commit' = [commit EXCEPT !.asking = FALSE] /\ recorded' = recorded \ {commit.text}
    /\ UNCHANGED <<repository, disk, unmerged, open, cache, stale, operation, refused, message, prepared,
                   staleMessage, texts>>

Return ==
    /\ Stroke /\ view = "history"
    /\ view' = "changes"
    /\ seen' = IF open = None THEN None ELSE cache[open]
    /\ UNCHANGED <<repository, disk, unmerged, open, cache, stale, draft, keeping, operation, over, refused,
                   box, texts>>

\* An editor, or a command of another panel.
Rewrite(path) ==
    /\ Written
    /\ disk' = [disk EXCEPT ![path] = New]
    /\ UNCHANGED <<unmerged, open, cache, stale, seen, draft, keeping, operation, over, refused, box,
                   repository, view, strokes>>

Stage ==
    /\ ~staged /\ staged' = TRUE
    /\ UNCHANGED <<files, box, head, stop, stopMessage, shownStop, view, texts, strokes>>

\* An operation stops, stops again or ends; git has a message for each stop.
Moves(next) ==
    /\ Written
    /\ stop' = next /\ stopMessage' = IF next = 0 THEN Empty ELSE New
    /\ head' = IF next = 0 THEN New ELSE head
    /\ UNCHANGED <<staged, files, message, amend, confirming, coAuthors, prepared, commit, recorded, view>>

\* By the banner or a dialog of the application, which drops the message; or in
\* a terminal.  The status is read after it, and says where it stopped.
Operate(next, here) ==
    /\ Moves(next)
    /\ here => strokes < MaxGestures /\ commit = None /\ ~confirming
    /\ staleMessage' = IF here THEN {k \in MessageKeys : prepared[k] # None} ELSE staleMessage
    /\ strokes' = IF here THEN strokes + 1 ELSE strokes
    /\ UNCHANGED shownStop

ReadStatus ==
    /\ shownStop # stop /\ shownStop' = stop
    /\ UNCHANGED <<files, box, head, staged, stop, stopMessage, view, texts, strokes>>

DraftsNext ==
    \/ \E path \in Files \cup {None} : OpenFile(path)
    \/ \E path \in Files : ReadFile(path) \/ Forget(path) \/ Rewrite(path)
    \/ TypeText \/ Revert \/ Save \/ MarkResolved \/ AskKeep \/ CancelKeep \/ ConfirmKeep
    \/ CheckSave \/ RunOperation \/ AnswerOperation \/ RefuseOperation
    \/ TypeMessage \/ ReadPrepared \/ Submit \/ ConfirmAmend \/ CancelAmend
    \/ \E yes \in BOOLEAN : Amend(yes) \/ AddCoAuthor(yes)
    \/ RunCommit \/ AnswerCommit \/ RefuseCommit
    \/ Leave \/ Return \/ Stage
    \/ \E next \in {0, stop + 1} \cap Stops, here \in {TRUE} \cup {x \in {FALSE} : "elsewhere" \in MayHappen} :
          Operate(next, here)
    \/ ReadStatus

DraftsSpec == DraftsInit /\ [][DraftsNext]_draftsVars

-----------------------------------------------------------------------------
DraftsTypeOK ==
    /\ \A p \in Files : disk[p] \in 1..MaxTexts /\ (cache[p] = None \/ cache[p] \in 1..MaxTexts)
    /\ draft # None => open # None /\ seen # None /\ draft \in 1..MaxTexts
    /\ open # None /\ view = "changes" => seen = cache[open]
    /\ stale \subseteq {p \in Files : cache[p] # None}
    /\ staleMessage \subseteq {k \in MessageKeys : prepared[k] # None}
    /\ keeping => view = "changes" /\ open # None

\* The step that puts a save in place.
Saves == OperationBusy /\ operation.kind = "save" /\ ~operation.done /\ operation' # None /\ operation'.done

\* A save is written only when the daemon, reading the file for it, found the
\* text the buffer was typed over: what came to be on disk before that, by
\* another program or by taking a side, is never lost to it.
SavesOverWhatWasRead ==
    [][Saves => operation.found = operation.over]_draftsVars

\* The commit that was asked is made.
Records == commit # None /\ ~commit.done /\ commit' # None /\ commit'.done

\* A message that was typed is recorded by one commit: the box does not hold it
\* still when that commit is made, ready to be recorded again; unless the view
\* was left before git had answered, which leaves nobody to empty the box.
OneMessageOneCommit ==
    [][Records /\ commit.typed => commit.text \notin recorded]_draftsVars

\* What is typed over the message that was sent, and over the text being saved.
MessageSince == commit # None /\ (commit.typed => message # commit.text)
TextSince == operation # None /\ operation.kind = "save" /\ draft # operation.text

\* What was typed leaves the screen only once it was put on disk or in a commit, or
\* when the user gives it up: by Revert, by another file, by leaving the view, or
\* by a side taken of the whole file, which says so first.  What is typed while it
\* is being saved or committed is all that can be lost.
NothingTypedIsLost ==
    [][/\ message \notin {None, Empty} /\ message' = None => message \in recorded \/ MessageSince
       /\ draft # None /\ draft' # draft /\ strokes' = strokes
          => draft = cache'[open] \/ keeping \/ TextSince]_draftsVars

\* A message nobody typed is the one git would start that commit from, as the
\* repository is when the commit is made; and none is empty.
OfferedIsCurrent ==
    [][Records => commit.text # Empty /\ (~commit.typed => commit.text = Prepares(commit.amend))]_draftsVars

\* What was typed is kept until it is on disk, recorded or given up, and what
\* is offered is what git would start from.
BoxesKeepWhatIsTyped == []DraftsTypeOK /\ NothingTypedIsLost /\ OfferedIsCurrent

\* "Save writes a file back, and refuses if it moved since it was read"
\* (edit.go).  False of what is written while the save writes its own file
\* beside it: the rename replaces that unread.
SaveRefusesWhatMoved ==
    [][Saves => disk[operation.path] = operation.over]_draftsVars

\* A file is read again when it is opened after a save of it was refused because
\* it is no longer what had been read.
RefusedIsReadAgain ==
    [][open' # open /\ open' \in refused => cache[open'] = None \/ open' \in stale]_draftsVars
=============================================================================
