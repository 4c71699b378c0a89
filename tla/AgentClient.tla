---------------------------- MODULE AgentClient ----------------------------
(***************************************************************************)
(* What an Agent's page keeps of it.  Its HTTP client: one command at a    *)
(* time whose answer has to be about what it was sent for, and the         *)
(* watching of one run; the stream is the server's: it may repeat, overlap *)
(* or mix up what it sends.  And the saved conversation of an              *)
(* installation: one record in the tab's storage, bound to the scope the   *)
(* host trusts; a read or a save waits for a digest, and the scope may     *)
(* change meanwhile.                                                       *)
(***************************************************************************)
EXTENDS Naturals, FiniteSets

CONSTANTS Runs, Run, Sessions,   \* Run: the one that is watched
          Scopes, Loading, SignedOut, None,
          MaxSequence,           \* bound: how far a run gets
          MaxRevision, MaxCalls  \* bounds on scopes and on waiting reads and saves

VARIABLES watch,   \* the stream, and the last frame it handed over
          command, \* a command under way, or what it gave
          host,    \* the scope the host trusts now, or why there is none
          saved,   \* the observer and its record
          calls    \* reads and saves waiting for their digest

Unopened == 0                  \* sequences count from 1; the code's -1
Sequences == 1..MaxSequence
Ends == {"running", "ended"}

Snapshots == [kind : {"snapshot"}, run : Runs, session : Sessions, of : Sessions,
              sequence : Sequences, status : Ends]
Events == [kind : {"event"}, run : Runs, session : Sessions, named : BOOLEAN,
           sequence : Sequences, status : Ends]
Others == [kind : {"resnapshot", "too_large", "unreadable", "comment", "closed"}]
Packets == Snapshots \cup Events \cup Others

Idle == [state |-> "idle", session |-> None, sequence |-> Unopened, given |-> None]

WatchInit == watch = Idle /\ command = None

(* A watch starts with a request, which may be refused, or answered with   *)
(* something that is no stream.                                            *)
Open ==
  /\ watch.state # "open"
  /\ watch' \in {[Idle EXCEPT !.state = "open"], [Idle EXCEPT !.state = "failed"]}
  /\ UNCHANGED command

ValidSnapshot(p) ==
  /\ watch.sequence = Unopened /\ p.run = Run /\ p.of = p.session

ValidEvent(p) ==
  /\ watch.sequence # Unopened
  /\ p.run = Run /\ p.session = watch.session /\ p.named

Known(sequence) == sequence <= watch.sequence
KnownBefore(sequence) == sequence < watch.sequence
Skipped(sequence) == Known(sequence)

Give(p, state) ==
  watch' = [watch EXCEPT !.given = p, !.state = state, !.session = p.session,
                         !.sequence = p.sequence]

After(p) == IF p.status = "running" THEN "open" ELSE "done"

Fail == watch' = [watch EXCEPT !.state = "failed", !.given = None]
Pass == watch' = [watch EXCEPT !.given = None]

Receive(p) ==
  /\ watch.state = "open"
  /\ CASE p.kind = "comment" -> Pass
       [] p.kind = "resnapshot" ->
            watch' = [watch EXCEPT !.state = "resnapshot", !.given = None]
       [] p.kind = "snapshot" -> IF ValidSnapshot(p) THEN Give(p, After(p)) ELSE Fail
       [] p.kind = "event" ->
            IF ~ValidEvent(p) THEN Fail
            ELSE IF Skipped(p.sequence) THEN Pass ELSE Give(p, After(p))
       [] OTHER -> Fail
  /\ UNCHANGED command

Detach == watch.state = "open" /\ watch' = Idle /\ UNCHANGED command

Kinds == {"read", "start", "cancel_run", "confirm", "cancel"}
Targets == Runs \cup Sessions
Of(kind) == IF kind \in {"read", "start"} THEN Sessions ELSE Runs

Send(kind, target) ==
  /\ command = None /\ target \in Of(kind)
  /\ command' = [kind |-> kind, target |-> target, result |-> None]
  /\ UNCHANGED watch

SameTarget(about) == about = command.target
AnyTarget(about) == TRUE
About(about) == SameTarget(about)

Answer(about) ==
  /\ command # None /\ command.result = None /\ about \in Of(command.kind)
  /\ command' = IF About(about) THEN [command EXCEPT !.result = about] ELSE None
  /\ UNCHANGED watch

Refused == command # None /\ command' = None /\ UNCHANGED watch

WatchNext ==
  \/ Open \/ Detach \/ Refused
  \/ \E p \in Packets : Receive(p)
  \/ \E kind \in Kinds, target \in Targets : Send(kind, target)
  \/ \E about \in Targets : Answer(about)

(* Whatever the server sends, one watch hands over a snapshot of its run   *)
(* first, then only later events of that run in that session, each once,   *)
(* and nothing after its end (client.ts:357, :377, :384); and an answer    *)
(* about something else is never taken for one's own (client.ts:271, :411).*)
FramesComeInOrder ==
      /\ watch'.given # None /\ watch' # watch =>
           LET p == watch'.given IN
             /\ p.run = Run
             /\ (p.kind = "snapshot") <=> (watch.sequence = Unopened)
             /\ p.kind = "event" => p.session = watch.session /\ p.sequence > watch.sequence
             /\ watch'.state = (IF p.status = "ended" THEN "done" ELSE "open")
      /\ command' # None => command'.result \in {None, command'.target}

-----------------------------------------------------------------------------
Trusted == IF host \in Scopes THEN host ELSE None

Set(fields) == saved' = [f \in DOMAIN saved |->
                 IF f \in DOMAIN fields THEN fields[f] ELSE saved[f]]

(* The record may be left from before the page was loaded, by any scope.   *)
ResumeInit ==
  /\ host \in Scopes \cup {Loading, SignedOut}
  /\ \E left \in Scopes \cup {None} :
       saved = [current |-> Trusted, revision |-> 0, disposed |-> FALSE,
                record |-> IF left = None \/ host = SignedOut THEN None
                           ELSE [scope |-> left, revision |-> 0],
                given |-> None]
  /\ calls = {}

HostChanges(next) ==
  /\ next # host /\ host' = next
  /\ Set([given |-> None]) /\ UNCHANGED calls

(* The observer is told, perhaps later than others are: the record of a    *)
(* scope that was known, or of nobody, goes; one read while the sign-in is *)
(* still being verified stays.                                             *)
Noticed ==
  /\ ~saved.disposed /\ saved.revision < MaxRevision
  /\ LET gone == \/ saved.current # None /\ saved.current # Trusted
                 \/ Trusted = None /\ host # Loading
         changed == saved.current # Trusted
     IN  Set([record |-> IF gone THEN None ELSE saved.record,
              revision |-> saved.revision + (IF changed THEN 1 ELSE 0),
              current |-> Trusted, given |-> None])
  /\ UNCHANGED <<host, calls>>

Check(scope, expected) ==
  /\ ~saved.disposed /\ expected = saved.revision
  /\ saved.current = scope /\ Trusted = scope

CheckScope(scope, expected) ==
  /\ ~saved.disposed /\ saved.current = scope /\ Trusted = scope

Holds(scope, expected) == Check(scope, expected)

Call(kind, scope) ==
  /\ Check(scope, saved.revision) /\ Cardinality(calls) < MaxCalls
  /\ calls' = calls \cup {[kind |-> kind, scope |-> scope, revision |-> saved.revision]}
  /\ Set([given |-> None]) /\ UNCHANGED host

OwnRecord(record, scope) == record # None /\ record.scope = scope
AnyRecord(record, scope) == record # None
Matches(record, scope) == OwnRecord(record, scope)

(* The digest is there.  A record that is not this scope's is thrown away. *)
Read(c) ==
  /\ c.kind = "read" /\ calls' = calls \ {c} /\ UNCHANGED host
  /\ IF ~Holds(c.scope, c.revision) THEN Set([given |-> None])
     ELSE IF Matches(saved.record, c.scope) THEN Set([given |-> saved.record])
     ELSE Set([given |-> None, record |-> None])

Save(c) ==
  /\ c.kind = "save" /\ calls' = calls \ {c} /\ UNCHANGED host
  /\ IF Holds(c.scope, c.revision)
     THEN Set([given |-> None, record |-> [scope |-> c.scope, revision |-> c.revision]])
     ELSE Set([given |-> None])

GivenUp(c) == calls' = calls \ {c} /\ Set([given |-> None]) /\ UNCHANGED host

Clear(scope) ==
  /\ Check(scope, saved.revision)
  /\ Set([record |-> None, given |-> None]) /\ UNCHANGED <<host, calls>>

Dispose == Set([disposed |-> TRUE, given |-> None]) /\ UNCHANGED <<host, calls>>

ResumeNext ==
  \/ \E next \in Scopes \cup {Loading, SignedOut} : HostChanges(next)
  \/ Noticed \/ Dispose
  \/ \E scope \in Scopes :
       Clear(scope) \/ (\E kind \in {"read", "save"} : Call(kind, scope))
  \/ \E c \in calls : Read(c) \/ Save(c) \/ GivenUp(c)

TypeOK ==
  /\ saved.record \in {None} \cup [scope : Scopes, revision : 0..MaxRevision]
  /\ saved.current \in Scopes \cup {None}

(* A conversation is given back only to the scope it was saved in, which   *)
(* the host trusts at that moment; and once a known scope was left nothing *)
(* saved before is found again, though the same scope came back while a    *)
(* save was under way (session-resume.ts:66, :83, :106).                   *)
SessionsStayInTheirScope ==
      /\ saved'.given # None =>
           /\ saved'.given.scope = host
           /\ \E c \in calls : c.kind = "read" /\ c.scope = saved'.given.scope
      /\ saved'.record # None /\ saved'.record # saved.record =>
           saved'.record.scope = host /\ saved'.record.revision = saved'.revision
      /\ saved'.record # None =>
           saved'.record.revision \in {0, saved'.revision}

-----------------------------------------------------------------------------
Init == WatchInit /\ ResumeInit

Next == \/ WatchNext /\ UNCHANGED <<host, saved, calls>>
        \/ ResumeNext /\ UNCHANGED <<watch, command>>

Spec == Init /\ [][Next]_<<watch, command, host, saved, calls>>
=============================================================================
