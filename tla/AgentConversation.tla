-------------------------- MODULE AgentConversation --------------------------
(* One Agent conversation in a Console tab (conversation.ts), and the      *)
(* Agent service as that tab's client uses it: messages are submitted with *)
(* a request key, the latest run is watched, and the session is read again *)
(* around every event.                                                     *)
(*                                                                         *)
(* A session runs one message at a time, so what a client may learn of it  *)
(* is one number: 2i - 1 while run i is running, 2i once it has finished.  *)
EXTENDS Integers, Sequences

CONSTANTS
  MaxKeys,    \* bound: request keys the tab makes
  MaxDrafts,  \* bound: texts the user writes
  MaxTries,   \* bound: submissions of one key
  Unfit,      \* texts that are refused for what they are, however often they are sent
  Lapses      \* may a retry be refused for another reason (401, 403, 409, 429)?

ASSUME ConversationAssumption ==
  /\ MaxKeys \in Nat \ {0} /\ MaxDrafts \in Nat \ {0} /\ MaxTries \in Nat \ {0}
  /\ Unfit \subseteq 1..MaxDrafts /\ Lapses \in BOOLEAN

VARIABLES
  runs,      \* the service: the messages it has run, in order
  running,   \* the service: is the last of them still running?
  wire,      \* submissions that may still reach the service, copies of one apart
  draft,     \* the text in the composer; a new number is another text
  keys,      \* request keys made so far
  attempt,   \* the submission whose outcome the tab does not know
  session,   \* has the tab a session?
  writer,    \* the write that holds writeLock, and where it is
  reply,     \* the service's answer to a cancellation, on its way
  reads,     \* the two session reads that may be on their way
  shown,     \* the snapshot on the screen
  run,       \* the run on the screen
  watch,     \* the watcher, and the snapshot frame on its way to it
  visible,   \* is the dock open?
  reconnect, \* does the tab offer to reconnect?
  late       \* history: was an answer to a write late, or a read overtaken in vain?

service == <<runs, running, wire>>
composer == <<draft, keys, attempt, session>>
screen == <<shown, run>>
vars == <<service, composer, writer, reply, reads, screen, watch, visible, reconnect,
          late>>

Drafts == 1..(MaxDrafts + 1)  \* the last one is the empty composer
Message == [draft : 1..MaxDrafts, key : 1..MaxKeys, try : 1..MaxTries]
NoAttempt == [draft |-> 0, key |-> 0, try |-> 0]
Progress == 0..(2 * MaxKeys)

IsRunning(p) == p % 2 = 1
RunIn(p) == (p + 1) \div 2

\* What the service would answer now, and what it answers of run i.
Now == 2 * Len(runs) - (IF running THEN 1 ELSE 0)
StatusOf(i, p) == IF 2 * i <= p THEN 2 * i ELSE 2 * i - 1

Readers == {"writer", "watcher"}
NoRead == [state |-> "none", value |-> 0, latest |-> FALSE]
Asked == [state |-> "asked", value |-> 0, latest |-> TRUE]
Off == [pc |-> "off", frame |-> 0]
Opened == [pc |-> "open", frame |-> 0]

TypeOK ==
  /\ runs \in Seq(Message) /\ Len(runs) <= MaxKeys /\ running \in BOOLEAN
  /\ wire \subseteq Message
  /\ draft \in Drafts /\ keys \in 0..MaxKeys
  /\ attempt \in Message \cup {NoAttempt} /\ session \in BOOLEAN
  /\ writer \in {"idle", "creating", "starting", "stopping", "deciding",
                 "refreshing", "lastRefresh"}
  /\ reply \in Progress
  /\ reads \in [Readers -> {NoRead} \cup
                  [state : {"asked"}, value : {0}, latest : BOOLEAN] \cup
                  [state : {"served"}, value : Progress, latest : BOOLEAN]]
  /\ shown \in Progress /\ run \in Progress
  /\ watch \in [pc : {"off", "open", "follow", "more", "last", "resnapshot", "broken"},
                frame : {0}] \cup [pc : {"framed"}, frame : Progress]
  /\ visible \in BOOLEAN /\ reconnect \in BOOLEAN /\ late \in BOOLEAN

Init ==
  /\ runs = <<>> /\ running = FALSE /\ wire = {}
  /\ draft = 1 /\ keys = 0 /\ attempt = NoAttempt /\ session = FALSE
  /\ writer = "idle" /\ reply = 0
  /\ reads = [r \in Readers |-> NoRead]
  /\ shown = 0 /\ run = 0
  /\ watch = Off /\ visible = TRUE /\ reconnect = FALSE /\ late = FALSE

-----------------------------------------------------------------------------
(* The Agent service.                                                      *)

Accepted(key) == \E i \in 1..Len(runs) : runs[i].key = key

\* A submission arrives, possibly long after its client gave up: it starts a run,
\* unless its key has one or its text is unfit. A busy session refuses it.
Arrive(m) ==
  /\ m \in wire
  /\ wire' = wire \ {m}
  /\ \/ (Accepted(m.key) \/ m.draft \in Unfit) /\ UNCHANGED <<runs, running>>
     \/ /\ ~Accepted(m.key) /\ m.draft \notin Unfit /\ ~running
        /\ runs' = Append(runs, m) /\ running' = TRUE
  /\ UNCHANGED <<composer, writer, reply, reads, screen, watch, visible, reconnect,
                 late>>

FinishRun ==
  /\ running
  /\ running' = FALSE
  /\ UNCHANGED <<runs, wire, composer, writer, reply, reads, screen, watch, visible,
                 reconnect, late>>

\* It handles a cancellation and answers with the run's status.
HandleCancel ==
  /\ writer = "stopping" /\ reply = 0
  /\ reply' = StatusOf(RunIn(run), Now)
  /\ UNCHANGED <<service, composer, writer, reads, screen, watch, visible, reconnect,
                 late>>

Answering == \/ writer = "starting" /\ Accepted(attempt.key)
             \/ writer = "stopping" /\ reply # 0
Overtake == late' = (late \/ Answering)

\* It reads a session for an answer, or for a stream's first frame.
ServeRead(r) ==
  /\ reads[r].state = "asked" /\ Overtake
  /\ reads' = [reads EXCEPT ![r].state = "served", ![r].value = Now]
  /\ UNCHANGED <<service, composer, writer, reply, screen, watch, visible, reconnect>>

FrameWatch ==
  /\ watch.pc = "open" /\ Overtake
  /\ watch' = [pc |-> "framed", frame |-> Now]
  /\ UNCHANGED <<service, composer, writer, reply, reads, screen, visible, reconnect>>

-----------------------------------------------------------------------------
(* What the tab shows, and the effect that follows the run it shows.       *)

SameRun == RunIn(run') = RunIn(run)

\* MUTANT: an answer is shown though a newer one has been asked for or has come.
SupersedeNone(r) == reads[r]

\* readVersion: what was asked for before is not the latest any more.
Supersede(r) == [reads[r] EXCEPT !.latest = FALSE]

\* refresh asks for the session, or has its answer. For another run the effect
\* aborts the watcher's signal, and with it the read the watcher waits for.
Ask(r) ==
  reads' = [q \in Readers |->
    IF q = r THEN Asked
    ELSE IF q = "watcher" /\ ~SameRun THEN NoRead ELSE Supersede(q)]

Settle(r) ==
  reads' = [q \in Readers |->
    IF q = r \/ (q = "watcher" /\ ~SameRun) THEN NoRead ELSE reads[q]]

\* The effect runs: it starts a watcher if the dock is open and a run is shown.
Rewatch ==
  IF visible' /\ run' # 0
  THEN watch' = Opened /\ reconnect' = FALSE
  ELSE watch' = Off /\ UNCHANGED reconnect

\* The answer is shown if it is still the latest and the session has a run.
Show(r) ==
  IF reads[r].latest
  THEN /\ shown' = reads[r].value
       /\ run' = IF reads[r].value = 0 THEN run ELSE reads[r].value
  ELSE UNCHANGED screen

-----------------------------------------------------------------------------
(* send.                                                                   *)

MayWrite == visible /\ writer = "idle"

\* The submission is dispatched, or first a session is created.
Dispatch(m) ==
  /\ attempt' = m
  /\ IF session THEN writer' = "starting" /\ wire' = wire \cup {m}
                ELSE writer' = "creating" /\ UNCHANGED wire
  /\ UNCHANGED <<runs, running, draft, session, reply, reads, screen, watch, visible,
                 reconnect, late>>

Send ==
  /\ MayWrite /\ ~IsRunning(run) /\ attempt = NoAttempt /\ draft <= MaxDrafts
  /\ keys < MaxKeys /\ keys' = keys + 1
  /\ Dispatch([draft |-> draft, key |-> keys + 1, try |-> 1])

\* MUTANT: a retry makes a key of its own.
RetryAfresh ==
  /\ MayWrite /\ ~IsRunning(run) /\ attempt # NoAttempt
  /\ keys < MaxKeys /\ keys' = keys + 1
  /\ Dispatch([attempt EXCEPT !.key = keys + 1])

\* Another copy of the submission, whatever became of the first.
Retry ==
  /\ MayWrite /\ ~IsRunning(run) /\ attempt # NoAttempt
  /\ attempt.try < MaxTries
  /\ UNCHANGED keys
  /\ Dispatch([attempt EXCEPT !.try = @ + 1])

CreateReturns ==
  /\ writer = "creating"
  /\ session' = TRUE
  /\ writer' = "starting" /\ wire' = wire \cup {attempt}
  /\ UNCHANGED <<runs, running, draft, keys, attempt, reply, reads, screen, watch,
                 visible, reconnect, late>>

\* The attempt is dropped, the draft is kept, and the user sees an error.
GiveUp ==
  /\ writer' = "idle" /\ attempt' = NoAttempt
  /\ UNCHANGED <<runs, running, draft, keys, session, reply, reads, screen, watch,
                 visible, reconnect, late>>

CreateFails == writer = "creating" /\ GiveUp /\ UNCHANGED wire

\* The service has a run for the key: it answers with the status that run has now,
\* or with the one it had when it was accepted.
StartReturns ==
  /\ writer = "starting" /\ attempt \notin wire
  /\ \E i \in 1..Len(runs) :
       /\ runs[i].key = attempt.key
       /\ run' \in {StatusOf(i, Now), 2 * i - 1}
       /\ late' = (late \/ run' # StatusOf(i, Now))
  /\ writer' = "idle" /\ attempt' = NoAttempt /\ draft' = draft + 1
  /\ Settle("none")
  /\ UNCHANGED visible
  /\ IF SameRun THEN reconnect' = FALSE /\ UNCHANGED watch
     ELSE Rewatch
  /\ UNCHANGED <<service, keys, session, reply, shown>>

\* A status below 500: the tab takes the attempt for refused.  Only this copy of it
\* was; one sent before may still arrive, or has a run.
StartRefused ==
  /\ writer = "starting" /\ attempt \in wire
  /\ Lapses \/ attempt.try = 1 \/ attempt.draft \in Unfit
  /\ GiveUp
  /\ wire' = wire \ {attempt}

\* Anything else: the outcome is unknown, and the attempt is kept; it may be lost.
StartUnknown ==
  /\ writer = "starting"
  /\ writer' = "idle"
  /\ wire' \in {wire, wire \ {attempt}}
  /\ late' = (late \/ Accepted(attempt.key) \/ \E m \in wire' : m.key = attempt.key)
  /\ UNCHANGED <<runs, running, composer, reply, reads, screen, watch, visible,
                 reconnect>>

\* The user writes another text; not while an attempt is pending.
Edit ==
  /\ attempt = NoAttempt /\ draft <= MaxDrafts
  /\ draft' = draft + 1
  /\ UNCHANGED <<service, keys, attempt, session, writer, reply, reads, screen, watch,
                 visible, reconnect, late>>

-----------------------------------------------------------------------------
(* stop and decide.                                                        *)

Stop ==
  /\ MayWrite /\ IsRunning(run)
  /\ writer' = "stopping"
  /\ UNCHANGED <<service, composer, reply, reads, screen, watch, visible, reconnect,
                 late>>

\* The run it answers with is shown; once it is not running the session is read.
StopReturns ==
  /\ writer = "stopping" /\ reply # 0
  /\ run' = reply /\ reply' = 0
  /\ UNCHANGED <<service, composer, shown, visible, late>>
  /\ IF SameRun THEN UNCHANGED <<watch, reconnect>> ELSE Rewatch
  /\ IF IsRunning(run')
     THEN writer' = "idle" /\ Settle("none")
     ELSE writer' = "lastRefresh" /\ Ask("writer")

\* It may have been handled.
StopFails ==
  /\ writer = "stopping"
  /\ writer' = "idle" /\ reply' = 0
  /\ UNCHANGED <<service, composer, reads, screen, watch, visible, reconnect, late>>

\* An action that the snapshot shows as pending is confirmed or cancelled.
Decide ==
  /\ MayWrite /\ ~IsRunning(run) /\ shown # 0
  /\ writer' = "deciding"
  /\ UNCHANGED <<service, composer, reply, reads, screen, watch, visible, reconnect,
                 late>>

\* Whatever became of it, the session is read; after an error of the decision or of
\* that read, for the last time.
DecideEnds ==
  /\ writer = "deciding"
  /\ writer' \in {"refreshing", "lastRefresh"}
  /\ UNCHANGED <<service, composer, reply, screen, watch, visible, reconnect, late>>
  /\ Ask("writer")

WriterReads ==
  /\ reads["writer"].state = "served"
  /\ Show("writer")
  /\ writer' = "idle"
  /\ Settle("writer")
  /\ UNCHANGED <<service, composer, reply, visible, late>>
  /\ IF SameRun THEN UNCHANGED <<watch, reconnect>> ELSE Rewatch

\* It may have overtaken the watcher's read of a run shown as running, in vain.
WriterReadFails ==
  /\ reads["writer"].state # "none"
  /\ late' = (late \/ IsRunning(run))
  /\ UNCHANGED <<service, composer, reply, screen, watch, visible, reconnect>>
  /\ IF writer = "refreshing"
     THEN writer' = "lastRefresh" /\ Ask("writer")
     ELSE writer' = "idle" /\ Settle("writer")

-----------------------------------------------------------------------------
(* The watcher of the run on the screen.                                   *)

Watching == watch.pc \in {"open", "framed", "follow"}
Watched(p) == StatusOf(RunIn(run), p)

\* The first frame: the session, and the run; whatever was asked for is older.
WatchSnapshot ==
  /\ watch.pc = "framed"
  /\ shown' = watch.frame /\ run' = Watched(watch.frame)
  /\ Ask("none")
  /\ watch' = IF IsRunning(run') THEN [pc |-> "follow", frame |-> 0] ELSE Off
  /\ UNCHANGED <<service, composer, writer, reply, visible, reconnect, late>>

\* The session is read again: for more, for the last time, or to see what is left.
WatchAsks(why) ==
  /\ watch' = [pc |-> why, frame |-> 0]
  /\ UNCHANGED <<service, composer, writer, reply, screen, visible, reconnect, late>>
  /\ Ask("watcher")

\* MUTANT: the watcher does not read the session when the run ends.
WatchEndsBlindly ==
  /\ watch.pc = "follow" /\ ~IsRunning(Watched(Now))
  /\ watch' = Off
  /\ UNCHANGED <<service, composer, writer, reply, reads, screen, visible, reconnect,
                 late>>

WatchTool == watch.pc = "follow" /\ IsRunning(Watched(Now)) /\ WatchAsks("more")
WatchEnds == watch.pc = "follow" /\ ~IsRunning(Watched(Now)) /\ WatchAsks("last")
WatchResnapshot == Watching /\ WatchAsks("resnapshot")
WatchBreaks == Watching /\ WatchAsks("broken")

\* After an interruption the tab offers to reconnect to a run that goes on.
WatcherReads ==
  /\ reads["watcher"].state = "served"
  /\ Show("watcher")
  /\ Settle("watcher")
  /\ UNCHANGED <<service, composer, writer, reply, visible, late>>
  /\ IF ~SameRun THEN Rewatch
     ELSE /\ watch' = IF watch.pc = "more" THEN [pc |-> "follow", frame |-> 0] ELSE Off
          /\ reconnect' = (reconnect \/ (/\ watch.pc \in {"resnapshot", "broken"}
                                         /\ IsRunning(Watched(reads["watcher"].value))))

WatcherReadFails ==
  /\ reads["watcher"].state # "none"
  /\ IF watch.pc # "broken" THEN WatchAsks("broken")
     ELSE /\ watch' = Off /\ reconnect' = TRUE
          /\ UNCHANGED <<service, composer, writer, reply, screen, visible, late>>
          /\ Settle("watcher")

\* The user reconnects, closes the dock, or opens it: the effect runs.
Effect ==
  /\ UNCHANGED <<service, composer, writer, reply, screen, late>>
  /\ reads' = [reads EXCEPT !["watcher"] = NoRead]
  /\ Rewatch

Reconnect == reconnect /\ visible /\ UNCHANGED visible /\ Effect
Toggle == visible' = ~visible /\ Effect

-----------------------------------------------------------------------------
Service ==
  \/ \E m \in wire : Arrive(m)
  \/ FinishRun \/ HandleCancel \/ FrameWatch
  \/ \E r \in Readers : ServeRead(r)

Write ==
  \/ Send \/ Retry \/ CreateReturns \/ CreateFails \/ StartReturns \/ StartRefused
  \/ StartUnknown \/ Edit \/ Stop \/ StopReturns \/ StopFails \/ Decide \/ DecideEnds
  \/ WriterReads \/ WriterReadFails

Watch ==
  \/ WatchSnapshot \/ WatchTool \/ WatchEnds \/ WatchResnapshot \/ WatchBreaks
  \/ WatcherReads \/ WatcherReadFails \/ Reconnect \/ Toggle

Next == Service \/ Write \/ Watch

\* What the service has to answer it answers, and an answer is handled; a run need
\* not end, a user need not do anything, and any request may fail instead.
Fairness ==
  /\ WF_vars(FrameWatch) /\ \A r \in Readers : WF_vars(ServeRead(r))
  /\ WF_vars(WatchSnapshot) /\ WF_vars(WatchEnds)
  /\ WF_vars(WatcherReads) /\ WF_vars(WriterReads)
  /\ WF_vars(StartReturns) /\ WF_vars(StopReturns)

Spec == Init /\ [][Next]_vars
FairSpec == Spec /\ Fairness

-----------------------------------------------------------------------------
\* One text of the composer is run once, whatever answers are lost or late: what
\* the tab lets the user send again has not been run.
OneRunPerDraft ==
  \A i, j \in 1..Len(runs) : runs[i].draft = runs[j].draft => i = j

\* A session read never puts an older snapshot on the screen, nor an earlier run,
\* whatever other answers have come since it was asked for.
ReadNeverGoesBack ==
  [][WriterReads \/ WatcherReads =>
       shown' >= shown /\ RunIn(run') >= RunIn(run)]_vars

\* The end of run i is on the screen, or the user may ask for it or does not look.
EndKnown(i) == run # 2 * i - 1 \/ reconnect \/ ~visible \/ writer # "idle"

\* A run that has ended is not shown as running for ever to a user who waits,
\* whatever becomes of the watcher and of the reads: the open tab shows that it has
\* ended, shows a later one, or offers to reconnect.  Excepted is what the code does
\* not survive: a late answer to a write, and a read overtaken by one that fails.
EndedIsShown ==
  \A i \in 1..MaxKeys :
    (run = 2 * i - 1 /\ Now >= 2 * i) ~> (EndKnown(i) \/ late)

=============================================================================
