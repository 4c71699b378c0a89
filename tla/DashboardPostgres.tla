-------------------------- MODULE DashboardPostgres --------------------------
(***************************************************************************)
(* storage/postgres.ts: persist is an interactive transaction on one pooled*)
(* connection: BEGIN, an advisory lock for the scope, the mutation lookup, *)
(* the compare-and-set, the last authority check, COMMIT, and a ROLLBACK on*)
(* any error.  Queries fail, a COMMIT may take effect though its response  *)
(* is lost, and a session that died keeps its lock until the server ends it*)
(***************************************************************************)
EXTENDS DashboardStorage, FiniteSets

CONSTANTS
  PoolSizes,       \* the sizes a pool may be given
  NoHolder

PoolAssumption == PoolSizes \subseteq Nat \ {0} /\ NoHolder \notin Attempts

VARIABLES
  pool,            \* how many connections the host's pool holds
  connected,       \* attempts that hold a pooled connection
  session,         \* per attempt: its transaction as the server sees it
  holder,          \* the attempt whose transaction holds the advisory lock
  wrote,           \* per attempt: `wrote`
  failure          \* per attempt: the error the catch block is handling

database == <<session, holder>>
mine == <<connected, wrote, failure>>
vars == <<stored, local, database, mine>>

Labels == {"idle", "load", "lookup", "run", "connect", "lock", "find", "write",
           "dispatch", "commit", "rollback", "done"}

TypeOK ==
  /\ SharedTypeOK
  /\ pc \in [Attempts -> Labels]
  /\ pool \in PoolSizes
  /\ connected \subseteq Attempts /\ Cardinality(connected) <= pool
  /\ session \in [Attempts -> {"none", "open", "sent", "committed", "aborted"}]
  /\ holder \in Attempts \cup {NoHolder}
  /\ wrote \in [Attempts -> BOOLEAN]
  /\ failure \in [Attempts -> Answers]

Init ==
  /\ SharedInit
  /\ pool \in PoolSizes
  /\ connected = {}
  /\ session = [a \in Attempts |-> "none"]
  /\ holder = NoHolder
  /\ wrote = [a \in Attempts |-> FALSE]
  /\ failure = [a \in Attempts |-> Pending]

Connect(a) == Cardinality(connected) < pool /\ connected' = connected \cup {a}

Release(a) == connected' = connected \ {a}

\* load holds a connection for its two reads.
Load(a) ==
  /\ \/ LoadDocument(a) /\ Connect(a)
     \/ LoadMutation(a) /\ Release(a)
     \/ Refuse(a, {"load", "lookup"}) /\ Release(a)
  /\ UNCHANGED <<database, wrote, failure>>

Run(a) ==
  /\ \/ RunReplay(a)
     \/ RunConflict(a)
     \/ \E doc \in Documents : RunStage(a, doc, "connect")
     \/ Refuse(a, {"run"})
  /\ UNCHANGED <<database, mine>>

Begin(a) ==
  /\ pc[a] = "connect"
  /\ Connect(a)
  /\ session' = [session EXCEPT ![a] = "open"]
  /\ Goto(a, "lock")
  /\ UNCHANGED <<stored, request, view, found, staged, answer, holder, wrote, failure>>

\* MUTANT: the lock is taken in shared mode.
LockShared(a) ==
  /\ pc[a] = "lock"
  /\ holder' = a
  /\ Goto(a, "find")
  /\ UNCHANGED <<stored, request, view, found, staged, answer, session, mine>>

\* pg_advisory_xact_lock
Lock(a) ==
  /\ pc[a] = "lock"
  /\ holder = NoHolder
  /\ holder' = a
  /\ Goto(a, "find")
  /\ UNCHANGED <<stored, request, view, found, staged, answer, session, mine>>

Throw(a, value) ==
  /\ failure' = [failure EXCEPT ![a] = value]
  /\ Goto(a, "rollback")
  /\ UNCHANGED <<stored, request, view, found, staged, answer, database, connected, wrote>>

\* A recorded mutation is verified; only a missing one is written.
Find(a) ==
  /\ pc[a] = "find"
  /\ LET previous == mutations[request[a].id]
         verified == Verified(a, previous)
     IN  IF previous # NoMutation /\ verified.status # "saved"
         THEN Throw(a, verified)
         ELSE /\ Goto(a, IF previous = NoMutation THEN "write" ELSE "dispatch")
              /\ UNCHANGED <<stored, request, view, found, staged, answer, database, mine>>

\* Both rows are written inside the transaction, where nobody sees them yet.
Write(a) ==
  /\ pc[a] = "write"
  /\ IF Admits(row, request[a].expected)
     THEN /\ wrote' = [wrote EXCEPT ![a] = TRUE]
          /\ Goto(a, "dispatch")
          /\ UNCHANGED <<stored, request, view, found, staged, answer, database,
                         connected, failure>>
     ELSE Throw(a, Answered("conflict"))

\* A query fails, the signal is aborted, or beforeDispatch is denied.
Fail(a) ==
  /\ pc[a] \in {"lock", "find", "write", "dispatch"}
  /\ Throw(a, Answered("refused"))

\* beforeDispatch passes; COMMIT is sent.
Dispatch(a) ==
  /\ pc[a] = "dispatch"
  /\ session' = [session EXCEPT ![a] = "sent"]
  /\ Goto(a, "commit")
  /\ UNCHANGED <<stored, request, view, found, staged, answer, holder, mine>>

EndSession(a, how) ==
  /\ session' = [session EXCEPT ![a] = how]
  /\ holder' = IF holder = a THEN NoHolder ELSE holder

\* The server runs the COMMIT it received, whoever still waits for it.
Commit(a) ==
  /\ session[a] = "sent"
  /\ EndSession(a, "committed")
  /\ IF wrote[a]
     THEN /\ row' = staged[a]
          /\ mutations' = [mutations EXCEPT ![request[a].id] = Entry(a)]
     ELSE UNCHANGED stored
  /\ UNCHANGED <<local, mine>>

\* The connection of the session is gone: the server rolls it back.
ServerAborts(a) ==
  /\ \/ session[a] = "sent" /\ pc[a] \in {"commit", "done"}
     \/ session[a] = "open" /\ pc[a] = "done"
  /\ EndSession(a, "aborted")
  /\ UNCHANGED <<stored, local, mine>>

CommitReturns(a) ==
  /\ pc[a] = "commit"
  /\ session[a] = "committed"
  /\ Settle(a, Saved(staged[a]))
  /\ Release(a)
  /\ UNCHANGED <<stored, database, wrote, failure>>

CommitFails(a) == pc[a] = "commit" /\ Throw(a, Answered("refused"))

\* commitDispatched is still set when the catch block runs.
Dispatched(a) == session[a] \in {"sent", "committed", "aborted"}

\* MUTANT: a successful ROLLBACK is taken for proof that nothing was committed.
RollbackTrusted(a) ==
  /\ pc[a] = "rollback"
  /\ session[a] # "sent"
  /\ IF session[a] = "open" THEN EndSession(a, "aborted") ELSE UNCHANGED database
  /\ Settle(a, failure[a])
  /\ Release(a)
  /\ UNCHANGED <<stored, wrote, failure>>

\* ROLLBACK succeeds: the server has dealt with whatever was sent before it.
Rollback(a) ==
  /\ pc[a] = "rollback"
  /\ session[a] # "sent"
  /\ IF session[a] = "open" THEN EndSession(a, "aborted") ELSE UNCHANGED database
  /\ Settle(a, IF Dispatched(a) /\ wrote[a] THEN Answered("unknown") ELSE failure[a])
  /\ Release(a)
  /\ UNCHANGED <<stored, wrote, failure>>

\* MUTANT: the connection of a failed ROLLBACK is not given back.
RollbackFailsLeaking(a) ==
  /\ pc[a] = "rollback"
  /\ Settle(a, IF Dispatched(a) \/ wrote[a] THEN Answered("unknown") ELSE failure[a])
  /\ UNCHANGED <<stored, database, connected, wrote, failure>>

RollbackFails(a) ==
  /\ pc[a] = "rollback"
  /\ Settle(a, IF Dispatched(a) \/ wrote[a] THEN Answered("unknown") ELSE failure[a])
  /\ Release(a)
  /\ UNCHANGED <<stored, database, wrote, failure>>

\* The process ends: its connection closes and nothing of it runs again.  (A
\* process that ends before BEGIN is a refusal that nobody hears.)
Crash(a) ==
  /\ session[a] # "none" /\ pc[a] # "done"
  /\ Settle(a, Answered("lost"))
  /\ Release(a)
  /\ UNCHANGED <<stored, database, wrote, failure>>

Persist(a) ==
  \/ Begin(a) \/ Lock(a) \/ Find(a) \/ Write(a) \/ Fail(a) \/ Dispatch(a)
  \/ CommitReturns(a) \/ CommitFails(a) \/ Rollback(a) \/ RollbackFails(a)

Server(a) == Commit(a) \/ ServerAborts(a)

Step ==
  \E a \in Attempts :
    \/ (\E r \in Requests : Submit(a, r)) /\ UNCHANGED <<database, mine>>
    \/ Load(a)
    \/ Run(a)
    \/ Persist(a)
    \/ Server(a)
    \/ Crash(a)

Next == Step /\ UNCHANGED pool

\* The client's next step is always taken, and a server ends every session
\* whose COMMIT it received or whose connection closed.
Fairness ==
  \A a \in Attempts : WF_vars(Load(a) \/ Run(a) \/ Persist(a)) /\ WF_vars(Server(a))

Spec == Init /\ [][Next]_<<pool, vars>> /\ Fairness

-----------------------------------------------------------------------------
\* Only the transaction that holds the lock has written anything it may still
\* commit, a dead session included: so no two writes of a scope overlap.
LockCoversWrites ==
  \A a \in Attempts :
    wrote[a] /\ session[a] \in {"open", "sent"} => holder = a
=============================================================================
