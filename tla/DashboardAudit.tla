---------------------------- MODULE DashboardAudit ----------------------------
(***************************************************************************)
(* server-audit.ts over any repository that implements DashboardLog:       *)
(* createAuditedDashboardStore.  An intent event is recorded before the    *)
(* save and an outcome event after it, both with ids derived from the      *)
(* mutation id.  The audit service is another store: its calls fail, with  *)
(* or without effect, and the process may end between any two of them.     *)
(***************************************************************************)
EXTENDS DashboardLog, FiniteSets

CONSTANTS
  Unaudited,      \* attempts that reach the authorized store without the wrapper
  MutationIds,
  NoEvent

Results == {"success", "denied", "revision-conflict", "mutation-collision", "unknown"}
Intents == [occurredAt : Attempts, correlation : {Fingerprint(r) : r \in Requests}]

UnauditedAssumption == Unaudited \subseteq Attempts
EventsAssumption == NoEvent \notin Intents /\ NoEvent \notin Results

VARIABLES
  pc, wanted,     \* per attempt: where it is, what it was asked
  occurredAt,     \* per attempt: the time in its intent; each reads another time
  told,           \* per attempt: how the wrapper's save settled
  intents,        \* per mutation id: the recorded intent event
  outcomes        \* per mutation id: the recorded outcome event

wrapper == <<pc, wanted, occurredAt, told>>
trail == <<intents, outcomes>>
auditVars == <<vars, wrapper, trail>>

Labels == {"idle", "get", "prepare", "reget", "reprepare", "outcome", "replay",
           "save", "complete", "done"}

Verdicts == {"pending", "saved", "refused", "conflict", "collision", "unknown", "error",
             "lost"}

TypeOK ==
  /\ pc \in [Attempts -> Labels]
  /\ wanted \in [Attempts -> Requests \cup {NoRequest}]
  /\ occurredAt \in [Attempts -> Attempts]
  /\ DOMAIN told = Attempts /\ \A a \in Attempts : told[a].status \in Verdicts
  /\ intents \in [MutationIds -> Intents \cup {NoEvent}]
  /\ outcomes \in [MutationIds -> Results \cup {NoEvent}]

AuditInit ==
  /\ Init
  /\ pc = [a \in Attempts |-> "idle"]
  /\ wanted = [a \in Attempts |-> NoRequest]
  /\ occurredAt = [a \in Attempts |-> a]
  /\ told = [a \in Attempts |-> Pending]
  /\ intents = [id \in MutationIds |-> NoEvent]
  /\ outcomes = [id \in MutationIds |-> NoEvent]

Id(a) == wanted[a].id
Intent(a) == [occurredAt |-> occurredAt[a], correlation |-> Fingerprint(wanted[a])]
Goto(a, label) == pc' = [pc EXCEPT ![a] = label]
Tell(a, value) == told' = [told EXCEPT ![a] = value] /\ Goto(a, "done")
Throws(a, status) == Tell(a, Answered(status)) /\ UNCHANGED <<vars, wanted, occurredAt, trail>>

-----------------------------------------------------------------------------
Ask(a, r) ==
  /\ pc[a] = "idle"
  /\ r.expected <= Len(log)
  /\ wanted' = [wanted EXCEPT ![a] = r]
  /\ IF a \in Unaudited THEN Goto(a, "save") ELSE Goto(a, "get")
  /\ IF a \in Unaudited THEN Submit(a, r) ELSE UNCHANGED vars
  /\ UNCHANGED <<occurredAt, told, trail>>

\* audit.get: the time of an intent already there is reused.
Get(a) ==
  /\ pc[a] = "get"
  /\ LET previous == intents[Id(a)]
     IN  occurredAt' = IF previous = NoEvent THEN occurredAt
                       ELSE [occurredAt EXCEPT ![a] = previous.occurredAt]
  /\ Goto(a, "prepare")
  /\ UNCHANGED <<vars, wanted, told, trail>>

\* audit.prepare: record the intent, recognise the same one, or clash.
Record(a) ==
  /\ pc[a] \in {"prepare", "reprepare"}
  /\ intents[Id(a)] = NoEvent
  /\ intents' = [intents EXCEPT ![Id(a)] = Intent(a)]
  /\ \/ Goto(a, "save") /\ Submit(a, wanted[a]) /\ UNCHANGED told
     \/ Tell(a, Answered("error")) /\ UNCHANGED vars   \* the answer is lost
  /\ UNCHANGED <<wanted, occurredAt, outcomes>>

AlreadyRecorded(a) ==
  /\ pc[a] \in {"prepare", "reprepare"}
  /\ intents[Id(a)] = Intent(a)
  /\ Goto(a, "outcome")
  /\ UNCHANGED <<vars, wanted, occurredAt, told, trail>>

DuplicateConflict(a) ==
  /\ pc[a] \in {"prepare", "reprepare"}
  /\ intents[Id(a)] \notin {NoEvent, Intent(a)}
  /\ IF pc[a] = "prepare"
     THEN Goto(a, "reget") /\ UNCHANGED <<vars, wanted, occurredAt, told, trail>>
     ELSE Throws(a, "error")

\* Another first attempt won with another time: take its time and try again.
GetAgain(a) ==
  /\ pc[a] = "reget"
  /\ LET original == intents[Id(a)]
     IN  IF original.occurredAt = occurredAt[a] THEN Throws(a, "error")
         ELSE /\ occurredAt' = [occurredAt EXCEPT ![a] = original.occurredAt]
              /\ Goto(a, "reprepare")
              /\ UNCHANGED <<vars, wanted, told, trail>>

\* MUTANT: an intent without an outcome is saved again.
ReadOutcomeOrSave(a) ==
  /\ pc[a] = "outcome"
  /\ CASE outcomes[Id(a)] = "denied" -> Throws(a, "refused")
       [] outcomes[Id(a)] = "revision-conflict" -> Throws(a, "conflict")
       [] outcomes[Id(a)] = "mutation-collision" -> Throws(a, "collision")
       [] outcomes[Id(a)] = NoEvent ->
            /\ Goto(a, "save") /\ Submit(a, wanted[a])
            /\ UNCHANGED <<wanted, occurredAt, told, trail>>
       [] outcomes[Id(a)] = "success" ->
            Goto(a, "replay") /\ UNCHANGED <<vars, wanted, occurredAt, told, trail>>
       [] OTHER -> Throws(a, "unknown")

\* The intent was recorded by an earlier attempt: only its outcome may answer.
ReadOutcome(a) ==
  /\ pc[a] = "outcome"
  /\ CASE outcomes[Id(a)] = "denied" -> Throws(a, "refused")
       [] outcomes[Id(a)] = "revision-conflict" -> Throws(a, "conflict")
       [] outcomes[Id(a)] = "mutation-collision" -> Throws(a, "collision")
       [] outcomes[Id(a)] = "success" ->
            Goto(a, "replay") /\ UNCHANGED <<vars, wanted, occurredAt, told, trail>>
       [] OTHER -> Throws(a, "unknown")

\* createDashboardMutationReplayReader: the recorded mutation, never a save.
Replay(a) ==
  /\ pc[a] = "replay"
  /\ LET at == {n \in DOMAIN log : log[n].id = Id(a)}
     IN  IF at = {} THEN Throws(a, "unknown")
         ELSE \E n \in at :
                IF log[n].fingerprint # Fingerprint(wanted[a]) THEN Throws(a, "collision")
                ELSE /\ Tell(a, Saved(n, log[n].doc))
                     /\ UNCHANGED <<vars, wanted, occurredAt, trail>>

\* A read of the trail fails.
ReadFails(a) == pc[a] \in {"get", "reget", "outcome"} /\ Throws(a, "error")

\* The replay reads by the caller's present rights, to read and to write: without
\* them its DashboardForbiddenError reaches the caller as it is; or it fails.
ReplayFails(a) ==
  pc[a] = "replay" /\ \E status \in {"refused", "error"} : Throws(a, status)

\* audit.prepare fails and records nothing.
PrepareFails(a) == pc[a] \in {"prepare", "reprepare"} /\ Throws(a, "error")

-----------------------------------------------------------------------------
(* store.save: the repository's own steps, whichever it is. *)

StoreSteps(a) ==
  /\ \/ Accept(a) \/ Acknowledge(a) \/ Conflict(a) \/ Collide(a) \/ Refuse(a)
     \/ Lose(a, "unknown")
  /\ UNCHANGED <<wrapper, trail>>

\* MUTANT: every error is a failure.
ResultsAssumed(status) ==
  IF status = "saved" THEN {"success"} ELSE {"denied", "revision-conflict"}

\* The wrapper learns the answer.  A refusal is DashboardForbiddenError or an
\* error the wrapper does not know; it records that one as unknown.
ResultsOf(status) ==
  CASE status = "saved" -> {"success"}
    [] status = "refused" -> {"denied", "unknown"}
    [] status = "conflict" -> {"revision-conflict"}
    [] status = "collision" -> {"mutation-collision"}
    [] OTHER -> {"unknown"}

SaveReturns(a) ==
  /\ pc[a] = "save"
  /\ answer[a] # Pending
  /\ IF a \in Unaudited THEN Tell(a, answer[a]) ELSE Goto(a, "complete") /\ UNCHANGED told
  /\ UNCHANGED <<vars, wanted, occurredAt, trail>>

\* What is told once the outcome is recorded.
ToldFor(a, result) == IF result = "unknown" THEN Answered("unknown") ELSE answer[a]

Complete(a) ==
  /\ pc[a] = "complete"
  /\ \E result \in ResultsOf(answer[a].status) :
       /\ outcomes' = [outcomes EXCEPT ![Id(a)] = result]
       /\ \/ Tell(a, ToldFor(a, result))
          \/ Tell(a, Answered("unknown"))   \* complete's answer is lost
  /\ UNCHANGED <<vars, wanted, occurredAt, intents>>

\* MUTANT: a completion that fails is swallowed.
CompleteSwallowed(a) ==
  /\ pc[a] = "complete"
  /\ Tell(a, answer[a])
  /\ UNCHANGED <<vars, wanted, occurredAt, trail>>

CompleteFails(a) == pc[a] = "complete" /\ Throws(a, "unknown")

\* The process ends; a save under way loses its caller.
Crash(a) ==
  /\ pc[a] \notin {"idle", "done"}
  /\ Tell(a, Answered("lost"))
  /\ IF pc[a] = "save" /\ answer[a] = Pending THEN Lose(a, "lost") ELSE UNCHANGED vars
  /\ UNCHANGED <<wanted, occurredAt, trail>>

AuditNext ==
  \E a \in Attempts :
    \/ \E r \in Requests : Ask(a, r)
    \/ Get(a) \/ Record(a) \/ AlreadyRecorded(a) \/ DuplicateConflict(a)
    \/ GetAgain(a) \/ ReadOutcome(a) \/ Replay(a) \/ ReadFails(a) \/ ReplayFails(a)
    \/ PrepareFails(a) \/ StoreSteps(a) \/ SaveReturns(a) \/ Complete(a) \/ CompleteFails(a) \/ Crash(a)

AuditSpec == AuditInit /\ [][AuditNext]_auditVars

-----------------------------------------------------------------------------
Audited == Attempts \ Unaudited
WrittenBy(id, attempts) == \E n \in DOMAIN log : log[n].id = id /\ log[n].by \in attempts

\* An intent dispatches one save, ever: whatever is retried, raced or crashed,
\* no second audited attempt on the id reaches the store.
OneSavePerIntent ==
  \A a, b \in Audited :
    request[a] # NoRequest /\ request[b] # NoRequest /\ request[a].id = request[b].id
      => a = b

\* The trail is right about the effect: a recorded success is in the log, with
\* the content the intent committed to; a recorded denial or known failure means
\* that no audited save of the id was, or will be, stored.
TrailTellsTheTruth ==
  \A id \in MutationIds :
    /\ outcomes[id] = "success" =>
         \E n \in DOMAIN log :
           log[n].id = id /\ log[n].fingerprint = intents[id].correlation
    /\ outcomes[id] \in {"denied", "revision-conflict", "mutation-collision"} =>
         ~WrittenBy(id, Audited)

\* No audited write without its intent.
NoWriteWithoutIntent ==
  \A n \in DOMAIN log : log[n].by \in Audited =>
    /\ intents[log[n].id] # NoEvent
    /\ intents[log[n].id].correlation = log[n].fingerprint

\* A caller told that its save succeeded, or definitely did not, was told what the
\* trail records and will record.  Who is refused though a success is recorded only
\* asked again, saved nothing, and may no longer see what the first attempt saved.
ToldWhatIsRecorded ==
  \A a \in Audited :
    /\ told[a].status = "saved" =>
         /\ outcomes[Id(a)] = "success"
         /\ log[told[a].revision].id = Id(a)
         /\ log[told[a].revision].doc = told[a].doc
    /\ told[a].status = "refused" =>
         \/ outcomes[Id(a)] = "denied"
         \/ outcomes[Id(a)] = "success" /\ request[a] = NoRequest
    /\ told[a].status = "conflict" => outcomes[Id(a)] = "revision-conflict"
    /\ told[a].status = "collision" => outcomes[Id(a)] = "mutation-collision"
=============================================================================
