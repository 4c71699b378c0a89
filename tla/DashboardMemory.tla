--------------------------- MODULE DashboardMemory ---------------------------
(***************************************************************************)
(* server.ts, createMemoryDashboardRepository: one process, one scope.  A  *)
(* transaction copies the whole state, works on the copy while it awaits   *)
(* the store's callback, and puts the copy back, so what keeps two saves   *)
(* apart is a chain of promises: each call waits for the one before it.    *)
(***************************************************************************)
EXTENDS DashboardStorage

CONSTANT Free

FreeAssumption == Free \notin Attempts

VARIABLES
  tail,       \* locks.get(scope): the newest call, Free when deleted
  prior,      \* per attempt: the call it waits for, Free when it was the first
  released,   \* attempts whose lock promise is resolved
  copy        \* per attempt: its working copy of the mutations

chain == <<tail, prior, released>>
vars == <<stored, local, chain, copy>>

TypeOK ==
  /\ SharedTypeOK
  /\ pc \in [Attempts -> {"idle", "load", "wait", "run", "confirm", "finish", "done"}]
  /\ tail \in Attempts \cup {Free}
  /\ prior \in [Attempts -> Attempts \cup {Free}]
  /\ released \subseteq Attempts
  /\ copy \in [Attempts -> [MutationIds -> Mutations \cup {NoMutation}]]

Init ==
  /\ SharedInit
  /\ tail = Free
  /\ prior = [a \in Attempts |-> Free]
  /\ released = {}
  /\ copy = [a \in Attempts |-> mutations]

\* The call takes its place in the chain before it first awaits.
Queue(a) ==
  /\ pc[a] = "load"
  /\ prior' = [prior EXCEPT ![a] = tail]
  /\ tail' = a
  /\ Goto(a, "wait")
  /\ UNCHANGED <<stored, request, view, found, staged, answer, released, copy>>

\* prior resolved: the state is copied.
Enter(a) ==
  /\ pc[a] = "wait"
  /\ prior[a] \in released \cup {Free}
  /\ view' = [view EXCEPT ![a] = Current(row)]
  /\ copy' = [copy EXCEPT ![a] = mutations]
  /\ found' = [found EXCEPT ![a] = mutations[request[a].id]]
  /\ Goto(a, "run")
  /\ UNCHANGED <<stored, request, staged, answer, chain>>

\* The finally block.  The entry is deleted only while this call is the tail.
ReleaseLock(a) ==
  /\ released' = released \cup {a}
  /\ tail' = IF tail = a THEN Free ELSE tail
  /\ UNCHANGED <<prior, copy>>

Reject(a, labels, status) ==
  /\ pc[a] \in labels
  /\ Settle(a, Answered(status))
  /\ ReleaseLock(a)
  /\ UNCHANGED stored

Collide(a) ==
  /\ pc[a] = "run"
  /\ found[a] # NoMutation /\ found[a].fingerprint # Fingerprint(request[a])
  /\ Reject(a, {"run"}, "collision")

Conflict(a) ==
  /\ pc[a] = "run"
  /\ found[a] = NoMutation /\ view[a].revision # request[a].expected
  /\ Reject(a, {"run"}, "conflict")

Replay(a) ==
  /\ pc[a] = "run"
  /\ found[a] # NoMutation /\ found[a].fingerprint = Fingerprint(request[a])
  /\ Goto(a, "finish")
  /\ UNCHANGED <<stored, request, view, found, staged, answer, chain, copy>>

\* tx.commit changes the copy only.
Stage(a, doc) ==
  /\ RunStage(a, doc, "confirm")
  /\ copy' = [copy EXCEPT ![a][request[a].id] =
                [fingerprint |-> Fingerprint(request[a]), snapshot |-> staged'[a],
                 token |-> a]]
  /\ UNCHANGED chain

\* beforeCommit passes.
Confirm(a) ==
  /\ pc[a] = "confirm"
  /\ Goto(a, "finish")
  /\ UNCHANGED <<stored, request, view, found, staged, answer, chain, copy>>

\* states.set(scope, state), staged or not.
Finish(a) ==
  /\ pc[a] = "finish"
  /\ row' = IF staged[a] # NoWrite THEN staged[a]
            ELSE IF view[a].revision = 0 THEN NoRow ELSE view[a]
  /\ mutations' = copy[a]
  /\ Settle(a, Saved(IF staged[a] # NoWrite THEN staged[a] ELSE found[a].snapshot))
  /\ ReleaseLock(a)

Step(a) ==
  \/ Queue(a) \/ Enter(a) \/ Collide(a) \/ Conflict(a) \/ Replay(a)
  \/ \E doc \in Documents : Stage(a, doc)
  \/ Confirm(a) \/ Finish(a)
  \/ Reject(a, {"run", "confirm", "finish"}, "refused")

Next ==
  \E a \in Attempts :
    \/ (\E r \in Requests : Submit(a, r)) /\ UNCHANGED <<chain, copy>>
    \/ Step(a)

Spec == Init /\ [][Next]_vars /\ \A a \in Attempts : WF_vars(Step(a))

-----------------------------------------------------------------------------
\* No two calls work on a copy of the state at once, although the chain's entry
\* is deleted and begun anew while calls come and go.
OneCopyAtATime ==
  \A a, b \in Attempts :
    pc[a] \in {"run", "confirm", "finish"} /\ pc[b] \in {"run", "confirm", "finish"}
      => a = b
=============================================================================
