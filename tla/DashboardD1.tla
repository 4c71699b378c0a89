----------------------------- MODULE DashboardD1 -----------------------------
(***************************************************************************)
(* storage/d1.ts: persist sends two statements in one batch, which D1 runs *)
(* as a transaction.  The call crosses a network: it may fail and still be *)
(* run, at any later time, or never.  The client therefore never infers    *)
(* success from the batch, and reads the mutation back instead.            *)
(***************************************************************************)
EXTENDS DashboardStorage

VARIABLE batch   \* per attempt: "none", "sent", "run" or "dropped"

d1Vars == <<stored, local, batch>>

Labels == {"idle", "load", "lookup", "run", "dispatch", "batch", "verify", "done"}

TypeOK ==
  /\ SharedTypeOK
  /\ pc \in [Attempts -> Labels]
  /\ batch \in [Attempts -> {"none", "sent", "run", "dropped"}]

D1Init == SharedInit /\ batch = [a \in Attempts |-> "none"]

\* beforeDispatch passes, and the batch leaves.
Dispatch(a) ==
  /\ pc[a] = "dispatch"
  /\ batch' = [batch EXCEPT ![a] = "sent"]
  /\ Goto(a, "batch")
  /\ UNCHANGED <<stored, request, view, found, staged, answer>>

\* INSERT ... SELECT ... WHERE <revision still expected> ON CONFLICT DO NOTHING.
Admitted(a) ==
  IF Admits(row, request[a].expected) /\ mutations[request[a].id] = NoMutation
  THEN [mutations EXCEPT ![request[a].id] = Entry(a)]
  ELSE mutations

\* MUTANT: the second statement is gated on the mutation id alone.
RunBatchWithoutToken(a) ==
  /\ batch[a] = "sent"
  /\ batch' = [batch EXCEPT ![a] = "run"]
  /\ mutations' = Admitted(a)
  /\ LET admitted == Admitted(a)[request[a].id]
     IN  row' = IF admitted # NoMutation THEN admitted.snapshot ELSE row
  /\ UNCHANGED local

\* The document is rewritten only when the mutation row carries this dispatch's
\* token, that is, when the statement before it inserted the row.
RunBatch(a) ==
  /\ batch[a] = "sent"
  /\ batch' = [batch EXCEPT ![a] = "run"]
  /\ mutations' = Admitted(a)
  /\ LET admitted == Admitted(a)[request[a].id]
     IN  row' = IF admitted # NoMutation /\ admitted.token = a
                THEN admitted.snapshot ELSE row
  /\ UNCHANGED local

DropBatch(a) ==
  /\ batch[a] = "sent"
  /\ batch' = [batch EXCEPT ![a] = "dropped"]
  /\ UNCHANGED <<stored, local>>

BatchReturns(a) ==
  /\ pc[a] = "batch"
  /\ batch[a] = "run"
  /\ Goto(a, "verify")
  /\ UNCHANGED <<stored, request, view, found, staged, answer, batch>>

\* MUTANT: a failed batch is taken for a batch that did not run.
OutcomeAssumed(a) ==
  /\ pc[a] \in {"batch", "verify"}
  /\ Settle(a, Answered("refused"))
  /\ UNCHANGED <<stored, batch>>

\* The batch's answer is lost, or the read that follows it fails.
OutcomeUnknown(a) ==
  /\ pc[a] \in {"batch", "verify"}
  /\ Settle(a, Answered("unknown"))
  /\ UNCHANGED <<stored, batch>>

ReadBack(a) ==
  /\ pc[a] = "verify"
  /\ Settle(a, Verified(a, mutations[request[a].id]))
  /\ UNCHANGED <<stored, batch>>

\* The process ends; what it sent stays sent.  (A process that ends earlier is
\* a refusal that nobody hears.)
Crash(a) ==
  /\ pc[a] \in {"batch", "verify"}
  /\ Settle(a, Answered("lost"))
  /\ UNCHANGED <<stored, batch>>

Transaction(a) ==
  \/ LoadDocument(a)
  \/ LoadMutation(a)
  \/ RunReplay(a)
  \/ RunConflict(a)
  \/ \E doc \in Documents : RunStage(a, doc, "dispatch")
  \/ Refuse(a, {"load", "lookup", "run", "dispatch"})

Step(a) ==
  \/ Transaction(a) /\ UNCHANGED batch
  \/ Dispatch(a)
  \/ BatchReturns(a)
  \/ OutcomeUnknown(a)
  \/ ReadBack(a)

D1Next ==
  \E a \in Attempts :
    \/ \E r \in Requests : Submit(a, r) /\ UNCHANGED batch
    \/ Step(a)
    \/ RunBatch(a)
    \/ DropBatch(a)
    \/ Crash(a)

D1Spec == D1Init /\ [][D1Next]_d1Vars

-----------------------------------------------------------------------------
(* D1 implements the log: an accepted save is a batch that inserted its row. *)
Abstract == INSTANCE DashboardLog WITH log <- Log
D1ImplementsLog == Abstract!Spec
=============================================================================
