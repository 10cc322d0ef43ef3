------------------------------ MODULE Transfer ------------------------------
(***************************************************************************)
(* A fetch, a pull or a push: git writes its progress, a pump of the       *)
(* daemon carries the lines to the answer of the request, and the browser  *)
(* that asked reads them from a stream of bytes, each side with a deadline *)
(* on silence.  The daemon's part is internal/api/progress.go and the idle *)
(* timer of internal/git/command.go, the browser's api/client.ts,          *)
(* lib/fetchTimeout.ts, app/useRemote.ts and app/RemoteActions.tsx.        *)
(*                                                                         *)
(* Time passes in ticks, and only when nobody has anything left to do: the *)
(* only slow things are git, the network, and the page when it sleeps.     *)
(***************************************************************************)
EXTENDS Integers, Sequences, SequencesExt, Sifting, Page

CONSTANTS
    Requests,       \* each is made once
    Verbs,          \* "fetch", "pull", "push": one button each
    ProgressBuffer, \* lines the pump holds: progressBuffer
    Wire,           \* events a connection holds that nobody reads
    MaxLines,       \* bound on the lines of one git
    DaemonIdle,     \* silence git is allowed, in ticks: networkIdle
    BrowserIdle,    \* silence the browser allows: NETWORK_IDLE_MS
    AskTime,        \* how long what a pull or a push asks git first may take
    WaitDelay,      \* how long what git leaves may hold its pipes: waitDelay
    RefsTime        \* how long reading the references may take

\* The events an answer ends with, and how a request settles.
Terminal == {"done", "error"}
Outcomes == Terminal \cup {"refused", "silence", "idle", "ended"}

ASSUME TransferAssumption ==
    /\ None \notin Outcomes
    /\ {MaxLines, DaemonIdle, BrowserIdle, AskTime, WaitDelay, RefsTime} \subseteq Nat
    /\ {ProgressBuffer, Wire} \subseteq Nat \ {0}

\* 315 seconds against 300 and 5.
ASSUME DeadlineAssumption == BrowserIdle > DaemonIdle + WaitDelay

VARIABLES
    \* The daemon, a handler for each request.
    phase,          \* "none", "asked", "running", "leaving", "stopping", "refs", "ended"
    git,            \* how the command stands: "none", "running", "ok", "failed"
    said,           \* lines it has written
    quiet,          \* ticks since the last line, or since this phase began
    lines,          \* progressPump.lines
    hand,           \* the line its goroutine is writing, None between two
    streaming,      \* no write of this answer has failed
    kept,           \* history: the lines the pump took
    \* What is between the two.
    wire,           \* events written and not read
    link,           \* "up", "cut" without either end knowing, "closed" by the browser
    \* The browser.
    verb,           \* what each request is of
    client,         \* "idle", "fetching" the headers, "reading", "settled"
    awake,          \* the page runs
    slept,          \* history: it has not always
    torn,           \* the reader holds the first half of the next event
    answer,         \* networkWithProgress, result
    waited,         \* ticks since anything came
    outcome,        \* how it settled
    heard,          \* history: the lines onProgress was given
    progress        \* useRemote, progress: one line for all the requests

daemon == <<phase, git, said, quiet, lines, hand, streaming, kept>>
browser == <<verb, client, awake, slept, torn, answer, waited, outcome, heard, progress>>
transferVars == <<daemon, wire, link, browser>>

TransferInit ==
    /\ phase = [r \in Requests |-> "none"]
    /\ git = [r \in Requests |-> "none"]
    /\ said = [r \in Requests |-> 0]
    /\ quiet = [r \in Requests |-> 0]
    /\ lines = [r \in Requests |-> <<>>]
    /\ hand = [r \in Requests |-> None]
    /\ streaming = [r \in Requests |-> TRUE]
    /\ kept = [r \in Requests |-> <<>>]
    /\ wire = [r \in Requests |-> <<>>]
    /\ link = [r \in Requests |-> "up"]
    /\ verb = [r \in Requests |-> None]
    /\ client = [r \in Requests |-> "idle"]
    /\ awake = TRUE /\ slept = FALSE
    /\ torn = [r \in Requests |-> FALSE]
    /\ answer = [r \in Requests |-> FALSE]
    /\ waited = [r \in Requests |-> 0]
    /\ outcome = [r \in Requests |-> None]
    /\ heard = [r \in Requests |-> <<>>]
    /\ progress = None

-----------------------------------------------------------------------------
(* The buttons.                                                            *)

Underway(v) == \E r \in Requests : verb[r] = v /\ client[r] \in {"fetching", "reading"}

\* The one button that says it runs, and refuses another press.
BusyOperation ==
    CASE Underway("fetch") -> "fetch"
      [] Underway("pull") -> "pull"
      [] Underway("push") -> "push"
      [] OTHER -> None

PressButton(r, v) ==
    /\ awake
    /\ client[r] = "idle" /\ BusyOperation # v
    /\ verb' = [verb EXCEPT ![r] = v]
    /\ client' = [client EXCEPT ![r] = "fetching"]
    /\ phase' = [phase EXCEPT ![r] = "asked"]
    /\ progress' = None
    /\ UNCHANGED <<git, said, quiet, lines, hand, streaming, kept, wire, link, awake, slept, torn, answer,
                   waited, outcome, heard>>

-----------------------------------------------------------------------------
(* The handler and git.                                                    *)

\* A refusal before git starts is an ordinary answer.
Refuse(r) ==
    /\ phase[r] = "asked"
    /\ phase' = [phase EXCEPT ![r] = "ended"]
    /\ UNCHANGED <<git, said, quiet, lines, hand, streaming, kept, wire, link, browser>>

\* The headers of the stream are flushed before the command starts.
Accept(r) ==
    /\ phase[r] = "asked"
    /\ phase' = [phase EXCEPT ![r] = "running"]
    /\ git' = [git EXCEPT ![r] = "running"]
    /\ quiet' = [quiet EXCEPT ![r] = 0]
    /\ UNCHANGED <<said, lines, hand, streaming, kept, wire, link, browser>>

\* A line that finds the buffer full is dropped.
Line(r, line) ==
    IF Len(lines[r]) < ProgressBuffer
    THEN /\ lines' = [lines EXCEPT ![r] = Append(@, line)]
         /\ kept' = [kept EXCEPT ![r] = Append(@, line)]
    ELSE UNCHANGED <<lines, kept>>

\* What git started has its stderr, and may write when git is gone.
Say(r) ==
    /\ phase[r] \in {"running", "leaving"} /\ said[r] < MaxLines
    /\ said' = [said EXCEPT ![r] = @ + 1]
    /\ quiet' = [quiet EXCEPT ![r] = IF phase[r] = "running" THEN 0 ELSE @]
    /\ Line(r, said[r] + 1)
    /\ UNCHANGED <<phase, git, hand, streaming, wire, link, browser>>

GitEnds(r, how) ==
    /\ git[r] = "running"
    /\ git' = [git EXCEPT ![r] = how]
    /\ phase' = [phase EXCEPT ![r] = "leaving"]
    /\ quiet' = [quiet EXCEPT ![r] = 0]
    /\ UNCHANGED <<said, lines, hand, streaming, kept, wire, link, browser>>

\* Silence as long as the idle timer allows: git is stopped.
GoesQuiet(r) == quiet[r] = DaemonIdle /\ GitEnds(r, "failed")

\* Its pipes are closed, by whoever held them or by WaitDelay.
PipesClose(r) ==
    /\ phase[r] = "leaving"
    /\ phase' = [phase EXCEPT ![r] = "stopping"]
    /\ UNCHANGED <<git, said, quiet, lines, hand, streaming, kept, wire, link, browser>>

-----------------------------------------------------------------------------
(* The pump's goroutine, and the answer after it.                          *)

Room(r) == link[r] # "up" \/ Len(wire[r]) < Wire

\* A line of the stream.
Event(type, line) == [type |-> type, line |-> line]

\* emit: into the connection, or nowhere when the reader is gone.
Emit(r, event) ==
    /\ Room(r)
    /\ wire' = IF link[r] = "up" /\ streaming[r]
               THEN [wire EXCEPT ![r] = Append(@, event)] ELSE wire
    /\ streaming' = [streaming EXCEPT ![r] = @ /\ link[r] # "closed"]

Take(r) ==
    /\ hand[r] = None /\ lines[r] # <<>> /\ phase[r] \in {"running", "leaving", "stopping"}
    /\ hand' = [hand EXCEPT ![r] = Head(lines[r])]
    /\ lines' = [lines EXCEPT ![r] = Tail(@)]
    /\ UNCHANGED <<phase, git, said, quiet, streaming, kept, wire, link, browser>>

Deliver(r) ==
    /\ hand[r] # None
    /\ Emit(r, Event("progress", hand[r]))
    /\ hand' = [hand EXCEPT ![r] = None]
    /\ UNCHANGED <<phase, git, said, quiet, lines, kept, link, browser>>

DrainedMutant(r) == lines[r] = <<>>

\* What was handed over is written before anything else is.
Drained(r) == lines[r] = <<>> /\ hand[r] = None

Report(r, type) ==
    /\ Emit(r, Event(type, None))
    /\ phase' = [phase EXCEPT ![r] = "ended"]
    /\ UNCHANGED <<git, said, quiet, lines, hand, kept, link, browser>>

\* stop has returned: the failure is told, or the references are read.
Stopped(r) ==
    /\ phase[r] = "stopping" /\ Drained(r)
    /\ \/ /\ git[r] = "failed"
          /\ Report(r, "error")
       \/ /\ git[r] = "ok"
          /\ phase' = [phase EXCEPT ![r] = "refs"]
          /\ quiet' = [quiet EXCEPT ![r] = 0]
          /\ UNCHANGED <<git, said, lines, hand, streaming, kept, wire, link, browser>>

\* Read under the request, which a reader that went has ended.
Finish(r) ==
    /\ phase[r] = "refs"
    /\ \E type \in Terminal :
          /\ type = "done" => link[r] # "closed"
          /\ Report(r, type)

-----------------------------------------------------------------------------
(* The reader.  The stream comes in chunks that are cut anywhere.          *)

SettleMutant(r, how) ==
    /\ outcome' = [outcome EXCEPT ![r] = how]
    /\ client' = [client EXCEPT ![r] = "settled"]
    /\ UNCHANGED progress
    /\ waited' = [waited EXCEPT ![r] = 0]

Settle(r, how) ==
    /\ outcome' = [outcome EXCEPT ![r] = how]
    /\ client' = [client EXCEPT ![r] = "settled"]
    /\ progress' = None
    /\ waited' = [waited EXCEPT ![r] = 0]

Responds(r) ==
    /\ awake
    /\ client[r] = "fetching" /\ link[r] = "up"
    /\ \/ /\ phase[r] = "ended" /\ git[r] = "none"
          /\ Settle(r, "refused")
       \/ /\ git[r] # "none"
          /\ client' = [client EXCEPT ![r] = "reading"]
          /\ UNCHANGED <<waited, outcome, progress>>
    /\ UNCHANGED <<daemon, wire, link, verb, awake, slept, torn, answer, heard>>

\* What onProgress is given of the lines of a chunk.
Shown(events) ==
    LET progressing == Sifted(events, {i \in DOMAIN events : events[i].type = "progress"})
    IN  [i \in DOMAIN progressing |-> progressing[i].line]

Has(events, type) == \E i \in DOMAIN events : events[i].type = type

HandleLinesMutant(r, events) ==
    /\ heard' = [heard EXCEPT ![r] = @ \o Shown(events)]
    /\ answer' = [answer EXCEPT ![r] = @ \/ Has(events, "done")]
    /\ IF Has(events, "error")
       THEN Settle(r, "error")
       ELSE /\ progress' = IF Shown(events) = <<>> THEN progress ELSE <<r, Last(Shown(events))>>
            /\ UNCHANGED <<waited, client, outcome>>

\* handleLine over the whole lines of a chunk: an error throws.
HandleLines(r, events) ==
    /\ heard' = [heard EXCEPT ![r] = @ \o Shown(events)]
    /\ answer' = [answer EXCEPT ![r] = @ \/ Has(events, "done")]
    /\ IF Has(events, "error")
       THEN Settle(r, "error")
       ELSE /\ progress' = IF Shown(events) = <<>> THEN progress ELSE <<r, Last(Shown(events))>>
            /\ waited' = [waited EXCEPT ![r] = 0]
            /\ UNCHANGED <<client, outcome>>

\* The lines that n ends of line complete, the first with what the buffer
\* kept of it.
Whole(r, n) == SubSeq(wire[r], 1, n)

\* A chunk with n ends of line, and with or without the start of one more.
Read(r, n, half) ==
    /\ awake
    /\ client[r] = "reading" /\ link[r] = "up"
    /\ n > 0 \/ (half /\ ~torn[r])
    /\ half => n < Len(wire[r])
    /\ HandleLines(r, Whole(r, n))
    /\ wire' = [wire EXCEPT ![r] = SubSeq(@, n + 1, Len(@))]
    /\ torn' = [torn EXCEPT ![r] = half]
    /\ UNCHANGED <<daemon, link, verb, awake, slept>>

\* The stream is over.
Ends(r) ==
    /\ awake
    /\ client[r] = "reading" /\ link[r] = "up"
    /\ phase[r] = "ended" /\ wire[r] = <<>>
    /\ Settle(r, IF answer[r] THEN "done" ELSE "ended")
    /\ UNCHANGED <<daemon, wire, link, verb, awake, slept, torn, answer, heard>>

GiveUpMutant(r) ==
    /\ awake
    /\ client[r] = "fetching" /\ waited[r] = BrowserIdle
    /\ Settle(r, "silence")
    /\ link' = [link EXCEPT ![r] = "closed"]
    /\ UNCHANGED <<daemon, wire, verb, awake, slept, torn, answer, heard>>

\* The idle deadline aborts the request, which ends it for the daemon too.  A
\* fetch that is aborted says what it waited for; a read throws the abort.
GiveUp(r) ==
    /\ awake
    /\ client[r] \in {"fetching", "reading"} /\ waited[r] = BrowserIdle
    /\ Settle(r, IF client[r] = "fetching" THEN "silence" ELSE "idle")
    /\ link' = [link EXCEPT ![r] = "closed"]
    /\ UNCHANGED <<daemon, wire, verb, awake, slept, torn, answer, heard>>

-----------------------------------------------------------------------------
(* Time, the network and the page.                                         *)

Working(r) ==
    \/ phase[r] = "asked" /\ (verb[r] = "fetch" \/ quiet[r] = AskTime)
    \/ phase[r] = "leaving" /\ quiet[r] = WaitDelay
    \/ Room(r) /\ (hand[r] # None \/ phase[r] = "stopping")
    \/ lines[r] # <<>> /\ hand[r] = None
    \/ phase[r] = "refs" /\ Room(r) /\ quiet[r] = RefsTime

Reading(r) ==
    /\ awake /\ link[r] = "up"
    /\ \/ client[r] = "reading" /\ (wire[r] # <<>> \/ phase[r] = "ended")
       \/ client[r] = "fetching" /\ phase[r] # "asked"

Due(r) ==
    \/ git[r] = "running" /\ quiet[r] = DaemonIdle
    \/ awake /\ waited[r] = BrowserIdle

\* The clocks that run, each up to what it is for.
DaemonClock(r) ==
    \/ phase[r] = "asked" /\ quiet[r] < AskTime
    \/ git[r] = "running"
    \/ phase[r] = "leaving" /\ quiet[r] < WaitDelay
    \/ phase[r] = "refs" /\ quiet[r] < RefsTime
BrowserClock(r) == client[r] \in {"fetching", "reading"} /\ waited[r] < BrowserIdle

Tick ==
    /\ \E r \in Requests : DaemonClock(r) \/ BrowserClock(r)
    /\ \A r \in Requests : ~Working(r) /\ ~Reading(r) /\ ~Due(r)
    /\ quiet' = [r \in Requests |-> IF DaemonClock(r) THEN quiet[r] + 1 ELSE quiet[r]]
    /\ waited' = [r \in Requests |-> IF BrowserClock(r) THEN waited[r] + 1 ELSE waited[r]]
    /\ UNCHANGED <<phase, git, said, lines, hand, streaming, kept, wire, link, verb, client, awake, slept,
                   torn, answer, outcome, heard, progress>>

\* The connection dies without closing.
Cut(r) ==
    /\ "cut" \in MayHappen /\ link[r] = "up" /\ phase[r] # "none"
    /\ link' = [link EXCEPT ![r] = "cut"]
    /\ wire' = [wire EXCEPT ![r] = <<>>]
    /\ UNCHANGED <<daemon, browser>>

\* The machine of the browser is suspended, and comes back or does not.
Sleep ==
    /\ "sleep" \in MayHappen /\ awake
    /\ \E r \in Requests : client[r] = "reading"
    /\ awake' = FALSE /\ slept' = TRUE
    /\ UNCHANGED <<daemon, wire, link, verb, client, torn, answer, waited, outcome, heard, progress>>

Wake ==
    /\ ~awake
    /\ awake' = TRUE
    /\ UNCHANGED <<daemon, wire, link, verb, client, slept, torn, answer, waited, outcome, heard, progress>>

-----------------------------------------------------------------------------

Daemon(r) ==
    Refuse(r) \/ Accept(r) \/ PipesClose(r) \/ Take(r) \/ Deliver(r) \/ Stopped(r) \/ Finish(r) \/ GoesQuiet(r)

Browser(r) ==
    \/ Responds(r)
    \/ \E n \in 0..Len(wire[r]), half \in BOOLEAN : Read(r, n, half)
    \/ Ends(r)
    \/ GiveUp(r)

TransferNext ==
    \/ \E r \in Requests, v \in Verbs : PressButton(r, v)
    \/ \E r \in Requests : Refuse(r)
    \/ \E r \in Requests : Accept(r)
    \/ \E r \in Requests : Say(r)
    \/ \E r \in Requests, how \in {"ok", "failed"} : GitEnds(r, how)
    \/ \E r \in Requests : GoesQuiet(r)
    \/ \E r \in Requests : PipesClose(r)
    \/ \E r \in Requests : Take(r)
    \/ \E r \in Requests : Deliver(r)
    \/ \E r \in Requests : Stopped(r)
    \/ \E r \in Requests : Finish(r)
    \/ \E r \in Requests : Responds(r)
    \/ \E r \in Requests : \E n \in 0..Len(wire[r]), half \in BOOLEAN : Read(r, n, half)
    \/ \E r \in Requests : Ends(r)
    \/ \E r \in Requests : GiveUp(r)
    \/ Tick
    \/ \E r \in Requests : Cut(r)
    \/ Sleep
    \/ Wake

\* Both ends run and clocks do not stop.  Git may say nothing more, and a page
\* that sleeps need not wake.
Fairness ==
    /\ \A r \in Requests : WF_transferVars(Daemon(r))
    /\ \A r \in Requests : WF_transferVars(Browser(r))
    /\ WF_transferVars(Tick)

TransferSpec == TransferInit /\ [][TransferNext]_transferVars /\ Fairness

-----------------------------------------------------------------------------

TransferTypeOK ==
    /\ phase \in [Requests -> {"none", "asked", "running", "leaving", "stopping", "refs", "ended"}]
    /\ git \in [Requests -> {"none", "running", "ok", "failed"}]
    /\ said \in [Requests -> 0..MaxLines]
    /\ quiet \in [Requests -> Nat]
    /\ \A r \in Requests : Len(lines[r]) <= ProgressBuffer /\ Len(wire[r]) <= Wire
    /\ hand \in [Requests -> 1..MaxLines \cup {None}]
    /\ link \in [Requests -> {"up", "cut", "closed"}]
    /\ verb \in [Requests -> Verbs \cup {None}]
    /\ client \in [Requests -> {"idle", "fetching", "reading", "settled"}]
    /\ waited \in [Requests -> 0..BrowserIdle]
    /\ outcome \in [Requests -> Outcomes \cup {None}]
    /\ awake \in BOOLEAN /\ slept \in BOOLEAN /\ torn \in [Requests -> BOOLEAN] /\ answer \in [Requests -> BOOLEAN]

\* The stream is told whole: nothing is written after the answer, a request
\* that is answered has heard every line the pump took, in order, and an
\* answer that says done is that of a git that succeeded.
ToldWhole ==
    \A r \in Requests :
        /\ \A i \in DOMAIN wire[r] : wire[r][i].type \in Terminal => i = Len(wire[r])
        /\ outcome[r] \in Terminal => heard[r] = kept[r]
        /\ outcome[r] = "done" => git[r] = "ok"
        /\ outcome[r] # "ended"

\* The daemon is the first to give up on a git that has fallen silent, so that
\* the page is told what git said.  The browser's own deadline is for a
\* connection that died and for a machine that slept; for what follows git,
\* when it succeeded; and for a pull or a push of which nothing was heard yet,
\* where what comes before git counts as silence too.
DaemonGivesUpFirst ==
    [][\A r \in Requests :
          outcome[r] = None /\ outcome'[r] \in {"silence", "idle"} =>
              \/ link[r] = "cut" \/ slept
              \/ git[r] = "ok"
              \/ verb[r] # "fetch" /\ heard[r] = <<>>]_transferVars

\* The line under the buttons goes with the last request.
NoLineOutlivesItsRequest ==
    (\A r \in Requests : client[r] \in {"idle", "settled"}) => progress = None

\* What the browser tells of a transfer is what became of it.
ProgressIsTold == TransferTypeOK /\ ToldWhole /\ NoLineOutlivesItsRequest

\* Every request settles, on whatever the other end does, unless the machine
\* sleeps for good.
EveryRequestSettles ==
    \A r \in Requests : client[r] # "idle" ~> (client[r] = "settled" \/ ~awake)

\* A transfer given up on is said to be one: "git reported nothing for ...,
\* so the transfer was given up on" (client.ts).  False: the headers come
\* before git starts, so the abort is thrown by a read, outside the catch.
SilenceIsNamed == \A r \in Requests : outcome[r] # "idle"

\* "The deadline that fires is the daemon's" (fetchTimeout.ts, NETWORK_IDLE_MS).
\* False: the countdown of the browser runs while a pull or a push asks git for
\* the upstream, and while the references are read, each with a limit of thirty
\* seconds against the fifteen there are to spare.
DeadlineIsTheDaemons ==
    [][\A r \in Requests :
          outcome[r] = None /\ outcome'[r] \in {"silence", "idle"} => link[r] = "cut" \/ slept]_transferVars

\* "Each button shows its own spinner" (busyOperation).  False: two pending
\* requests share one busy, and the second's button can be pressed again.
EachButtonShowsItsOwn == \A v \in Verbs : Underway(v) => BusyOperation = v
=============================================================================
