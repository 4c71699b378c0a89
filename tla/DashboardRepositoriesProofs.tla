--------------------- MODULE DashboardRepositoriesProofs ---------------------
(***************************************************************************)
(* For any calls, ids, documents, requests and pool: only one transaction  *)
(* of a scope writes at a time, and what the memory repository, PostgreSQL *)
(* and D1 do is what the abstract log promises.                            *)
(*                                                                         *)
(* They keep one row and one table of mutations, so the log that is read   *)
(* off them, what a write does to it and which answers are true of it are  *)
(* proved once. What each has to show is that the write it has prepared    *)
(* fits the tables it finds: memory by its chain of calls, PostgreSQL by   *)
(* its lock, D1 by the statements of its batch.                            *)
(***************************************************************************)
EXTENDS DashboardRepositories, DashboardD1, TLAPS, SequenceTheorems, FiniteSetTheorems

\* The present revision of the document.
Now == Current(row).revision

\* What is stored: the mutations are the history of the row.
Tables ==
  /\ row \in Snapshots \cup {NoRow}
  /\ mutations \in [MutationIds -> Mutations \cup {NoMutation}]
  /\ HistoryMatchesRow

\* The calls that this behaviour's repository serves.
Serving == DOMAIN pc

\* A call is told something once, at its end, and expects no later revision.
CallsInOrder ==
  /\ Serving \subseteq Attempts
  /\ request \in [Serving -> Requests \cup {NoRequest}]
  /\ answer \in [Serving -> Answers]
  /\ \A a \in Serving :
       /\ pc[a] = "idle" => request[a] = NoRequest
       /\ pc[a] # "idle" => request[a] \in Requests /\ request[a].expected <= Now
       /\ pc[a] # "done" => answer[a] = Pending

\* A recorded mutation is what the call it names staged and was asked.
WriterOf(id) ==
  LET a == mutations[id].token
  IN  /\ a \in Serving
      /\ request[a] \in Requests /\ request[a].id = id
      /\ mutations[id].fingerprint = Fingerprint(request[a])
      /\ mutations[id].snapshot = staged[a]
      /\ staged[a].revision = request[a].expected + 1

\* What both repositories keep.
Common == Tables /\ CallsInOrder /\ \A id \in Recorded : WriterOf(id)

-----------------------------------------------------------------------------
(* The memory repository: who is in line, and what the first in line holds. *)

Working == {"run", "confirm", "finish"}
Line == {a \in Attempts : pc[a] \in Working \cup {"wait"}}
\* Nobody is before it in the chain any more.
First(a) == prior[a] \in released \cup {Free}

\* Each waits for the one before it; one of them is first, and the tail is last.
Chain ==
  /\ tail \in Line \cup {Free}
  /\ tail = Free => Line = {}
  /\ \A a \in released : pc[a] = "done"
  /\ \A a \in Line :
       /\ prior[a] \in Line \cup released \cup {Free}
       /\ prior[a] # tail
       /\ pc[a] \in Working => First(a)
  /\ \A a, b \in Line : First(a) /\ First(b) => a = b
  /\ \A a, b \in Line : prior[a] = prior[b] => a = b
  /\ \A waiting \in SUBSET Line : waiting # {} => \E a \in waiting : prior[a] \notin waiting

\* What the call at work has copied is still what is stored, plus what it staged.
Copied(a) ==
  /\ pc[a] \in {"idle", "load", "wait", "run"} => staged[a] = NoWrite
  /\ pc[a] = "confirm" => staged[a] # NoWrite
  /\ pc[a] \in Working =>
       /\ view[a] = Current(row) /\ found[a] = mutations[request[a].id]
       /\ staged[a] = NoWrite => copy[a] = mutations
       /\ staged[a] # NoWrite =>
            /\ found[a] = NoMutation
            /\ request[a].expected = Now /\ staged[a].revision = Now + 1
            /\ copy[a] = [mutations EXCEPT ![request[a].id] = Entry(a)]
  /\ pc[a] = "finish" /\ staged[a] = NoWrite =>
       found[a] # NoMutation /\ found[a].fingerprint = Fingerprint(request[a])

\* Whose mutation is recorded has been answered: nothing is stored but at the end.
MemoryInv ==
  /\ Memory!TypeOK /\ Common /\ Chain
  /\ \A a \in Attempts : Copied(a)
  /\ \A id \in Recorded : pc[mutations[id].token] = "done"

-----------------------------------------------------------------------------
(* PostgreSQL: how far each transaction is, and what the lock protects.    *)

\* The recorded mutation is the one this call staged.
Stands(a) ==
  LET previous == mutations[request[a].id]
  IN  /\ previous # NoMutation
      /\ previous.fingerprint = Fingerprint(request[a]) /\ previous.snapshot = staged[a]

\* What a call may have been told while its COMMIT is still to be executed.
InDoubt == {"pending", "unknown", "lost"}

\* The server's side of a transaction, by where the client is.
InSession(a) ==
  /\ pc[a] \in {"idle", "load", "lookup", "run", "connect"} => session[a] = "none" /\ ~wrote[a]
  /\ pc[a] \in {"lock", "find", "write", "dispatch"} => session[a] = "open"
  /\ pc[a] = "commit" => session[a] \in {"sent", "committed", "aborted"}
  /\ pc[a] = "rollback" => session[a] # "none"
  /\ pc[a] \in {"lock", "find", "write"} => ~wrote[a]
  /\ pc[a] = "connect" \/ session[a] # "none" =>
       staged[a] \in Snapshots /\ staged[a].revision = request[a].expected + 1

\* The lock covers a write from the lookup to the end of the session.
Covered(a) ==
  /\ pc[a] \in {"find", "write", "dispatch"} => holder = a
  /\ pc[a] = "write" => mutations[request[a].id] = NoMutation
  /\ wrote[a] /\ session[a] \in {"open", "sent"} =>
       /\ holder = a
       /\ mutations[request[a].id] = NoMutation /\ Admits(row, request[a].expected)
       /\ answer[a].status \in InDoubt

\* What a call has read, found recorded, and will say if it fails.
Informed(a) ==
  /\ pc[a] \in {"lookup", "run"} =>
       request[a].expected <= view[a].revision /\ view[a].revision <= Now
  /\ pc[a] = "run" /\ found[a] # NoMutation => mutations[request[a].id] = found[a]
  /\ ~wrote[a] /\ (pc[a] = "dispatch" \/ session[a] = "sent") => Stands(a)
  /\ session[a] = "committed" => Stands(a)
  /\ pc[a] = "rollback" =>
       \/ failure[a] = Answered("refused")
       \/ failure[a] = Answered("conflict") /\ request[a].expected < Now
       \/ /\ failure[a] = Answered("collision")
          /\ mutations[request[a].id] # NoMutation
          /\ mutations[request[a].id].fingerprint # Fingerprint(request[a])

\* Whose mutation is recorded has committed it.
PostgresInv ==
  /\ Postgres!TypeOK /\ IsFiniteSet(connected) /\ Common
  /\ \A a \in Clients : InSession(a) /\ Covered(a) /\ Informed(a)
  /\ \A id \in Recorded :
       wrote[mutations[id].token] /\ session[mutations[id].token] = "committed"

\* The inductive invariant: that of the repository the behaviour is of.
IInv ==
  /\ repository \in {"memory", "postgres"}
  /\ InMemory => MemoryInv
  /\ InPostgres => PostgresInv

-----------------------------------------------------------------------------
(* The tables, and the log that is read off them.                          *)

\* The row's revision, and what it says of the row.
LEMMA NowIsNat ==
  ASSUME Tables
  PROVE  /\ Now \in Nat /\ Current(row) \in Snapshots
         /\ row = NoRow => Now = 0
         /\ row # NoRow => Current(row) = row /\ row \in Snapshots /\ Now \in 1..Now
<1> USE DefaultsAssumption, AbsentAssumption
<1>1. Current(row) \in Snapshots
  BY DEF Tables, Current, Snapshots
<1>2. row # NoRow => Now \in 1..Now
  BY DEF Tables, HistoryMatchesRow, Now, Current
<1> QED
  BY <1>1, <1>2 DEF Tables, Now, Current, Snapshots

\* The tables admit a write exactly on the revision they are at.
LEMMA AdmitsNow ==
  ASSUME Tables, NEW expected \in Nat
  PROVE  Admits(row, expected) <=> expected = Now
BY NowIsNat DEF Admits, Now, Current

\* The write that a call has staged takes effect.
Records(a) ==
  /\ request[a] \in Requests /\ mutations[request[a].id] = NoMutation
  /\ request[a].expected = Now
  /\ staged[a] \in Snapshots /\ staged[a].revision = Now + 1
  /\ row' = staged[a] /\ mutations' = [mutations EXCEPT ![request[a].id] = Entry(a)]

\* One more mutation is recorded, the one at the next revision.
LEMMA RecordedAtNext ==
  ASSUME Tables, NEW a \in Attempts, Records(a)
  PROVE  /\ Entry(a) \in Mutations /\ request[a].id \in MutationIds
         /\ row' \in Snapshots /\ row' # NoRow
         /\ Now \in Nat /\ Now' = Now + 1
         /\ mutations' \in [MutationIds -> Mutations \cup {NoMutation}]
         /\ mutations'[request[a].id] = Entry(a)
         /\ Recorded' = Recorded \cup {request[a].id} /\ request[a].id \notin Recorded
         /\ \A i \in Recorded : mutations'[i] = mutations[i]
<1> USE RequestsAssumption, AbsentAssumption
<1>1. request[a].id \in MutationIds /\ Entry(a) \in Mutations /\ Entry(a) # NoMutation
  BY DEF Records, Entry, Mutations, Fingerprint, Fingerprints
<1>2. Now \in Nat
  BY NowIsNat
<1>3. row' \in Snapshots /\ row' # NoRow /\ Now' = Now + 1
  BY DEF Records, Now, Current
<1>4. /\ mutations' \in [MutationIds -> Mutations \cup {NoMutation}]
      /\ mutations'[request[a].id] = Entry(a)
      /\ \A i \in MutationIds \ {request[a].id} : mutations'[i] = mutations[i]
  BY <1>1 DEF Records, Tables
<1>5. request[a].id \notin Recorded /\ Recorded \subseteq MutationIds
  BY DEF Records, Recorded
<1>6. Recorded' = Recorded \cup {request[a].id}
  BY <1>1, <1>4, <1>5 DEF Recorded
<1> QED
  BY <1>1, <1>2, <1>3, <1>4, <1>5, <1>6

\* A write makes the staged snapshot the next revision of the history.
LEMMA TablesWritten ==
  ASSUME Tables, NEW a \in Attempts, Records(a)
  PROVE  Tables'
<1> DEFINE id == request[a].id
<1>1. /\ Recorded' = Recorded \cup {id} /\ id \notin Recorded
      /\ mutations'[id] = Entry(a)
      /\ \A i \in Recorded : mutations'[i] = mutations[i]
      /\ Now \in Nat /\ Now' = Now + 1
      /\ row' \in Snapshots /\ mutations' \in [MutationIds -> Mutations \cup {NoMutation}]
  BY RecordedAtNext
<1>2. \A i \in Recorded : mutations[i].snapshot.revision \in 1..Now
  BY DEF Tables, HistoryMatchesRow, Now
<1>3. mutations'[id].snapshot = row' /\ mutations'[id].snapshot.revision = Now + 1
  BY <1>1 DEF Entry, Records
<1>4. \A i \in Recorded' : mutations'[i].snapshot.revision \in 1..(Now + 1)
  BY <1>1, <1>2, <1>3
<1>5. \A k \in 1..(Now + 1) : \E i \in Recorded' : mutations'[i].snapshot.revision = k
  <2> TAKE k \in 1..(Now + 1)
  <2>1. CASE k = Now + 1
    BY <1>1, <1>3, <2>1
  <2>2. CASE k # Now + 1
    <3>1. k \in 1..Now
      BY <1>1, <2>2
    <3>2. PICK i \in Recorded : mutations[i].snapshot.revision = k
      BY <3>1 DEF Tables, HistoryMatchesRow, Now
    <3> QED
      BY <1>1, <3>2
  <2> QED
    BY <2>1, <2>2
<1>6. \A i, j \in Recorded' :
        mutations'[i].snapshot.revision = mutations'[j].snapshot.revision => i = j
  <2> TAKE i, j \in Recorded'
  <2>1. CASE i \in Recorded /\ j \in Recorded
    BY <1>1, <2>1 DEF Tables, HistoryMatchesRow
  <2>2. CASE i = id \/ j = id
    BY <1>1, <1>2, <1>3, <2>2
  <2> QED
    BY <1>1, <2>1, <2>2
<1>7. \E i \in Recorded' : mutations'[i].snapshot = row'
  BY <1>1, <1>3
<1>8. HistoryMatchesRow'
  BY <1>1, <1>4, <1>5, <1>6, <1>7 DEF HistoryMatchesRow, Now
<1> QED
  BY <1>1, <1>8 DEF Tables

\* The record of the log that a mutation row stands for.
RecordOf(id) ==
  [id |-> id, doc |-> mutations[id].snapshot.doc,
   by |-> mutations[id].token, fingerprint |-> mutations[id].fingerprint]

\* The records a log of saves may hold.
Logged == [id : MutationIds, doc : Documents, by : Attempts, fingerprint : Fingerprints]

\* It has one record for each recorded mutation, at its revision.
LogReadsRows ==
  /\ Log \in Seq(Logged) /\ Len(Log) = Now
  /\ \A id \in Recorded : /\ mutations[id].snapshot.revision \in DOMAIN Log
                          /\ Log[mutations[id].snapshot.revision] = RecordOf(id)
  /\ \A n \in DOMAIN Log : \E id \in Recorded :
        mutations[id].snapshot.revision = n /\ Log[n] = RecordOf(id)

\* Read off tables that match the row, the log is that history.
LEMMA LogIsTheHistory == Tables => LogReadsRows
<1> SUFFICES ASSUME Tables PROVE LogReadsRows
  OBVIOUS
<1> DEFINE at(n) == CHOOSE i \in Recorded : mutations[i].snapshot.revision = n
<1>1. Now \in Nat
  BY NowIsNat
<1>2. Log = [n \in 1..Now |-> RecordOf(at(n))]
  BY DEF Log, RecordOf, Now
<1>3. \A n \in 1..Now : at(n) \in Recorded /\ mutations[at(n)].snapshot.revision = n
  BY DEF Tables, HistoryMatchesRow, Now
<1>4. \A id \in Recorded : RecordOf(id) \in Logged
  BY DEF Recorded, RecordOf, Logged, Tables, Mutations, Snapshots
<1>5. Log \in [1..Now -> Logged]
  BY <1>2, <1>3, <1>4
<1>6. Log \in Seq(Logged)
  BY <1>1, <1>5, SeqDef
<1>7. Len(Log) = Now /\ DOMAIN Log = 1..Now
  BY <1>1, <1>5, <1>6, LenProperties
<1>8. \A id \in Recorded : mutations[id].snapshot.revision \in 1..Now
  BY DEF Tables, HistoryMatchesRow, Now
<1>9. \A id \in Recorded : at(mutations[id].snapshot.revision) = id
  BY <1>3, <1>8 DEF Tables, HistoryMatchesRow
<1> QED
  BY <1>2, <1>3, <1>6, <1>7, <1>8, <1>9 DEF LogReadsRows

\* The record that a call's staged write adds.
RecordBy(a) == [id |-> request[a].id, doc |-> staged[a].doc, by |-> a,
                fingerprint |-> Fingerprint(request[a])]

\* A write appends its record.
LEMMA LogGrows ==
  ASSUME Tables, Tables', NEW a \in Attempts, Records(a)
  PROVE  Log' = Append(Log, RecordBy(a))
<1> DEFINE id == request[a].id
<1>1. /\ Recorded' = Recorded \cup {id} /\ mutations'[id] = Entry(a)
      /\ \A i \in Recorded : mutations'[i] = mutations[i]
      /\ Now \in Nat /\ Now' = Now + 1 /\ id \in MutationIds
  BY RecordedAtNext
<1>2. /\ Log \in Seq(Logged) /\ Len(Log) = Now
      /\ \A k \in 1..Now : \E i \in Recorded :
           mutations[i].snapshot.revision = k /\ Log[k] = RecordOf(i)
  BY LogIsTheHistory, LenProperties DEF LogReadsRows
<1>3. /\ Log' \in Seq(Logged) /\ Len(Log') = Now + 1
      /\ \A i \in Recorded' : Log'[mutations'[i].snapshot.revision] = RecordOf(i)'
  <2>1. LogReadsRows'
    BY LogIsTheHistory, PTL
  <2> QED
    BY <1>1, <2>1 DEF LogReadsRows
<1>4. RecordBy(a) \in Logged
  BY <1>1, RequestsAssumption DEF RecordBy, Logged, Records, Snapshots, Fingerprint, Fingerprints
<1>5. /\ Append(Log, RecordBy(a)) \in Seq(Logged)
      /\ Len(Append(Log, RecordBy(a))) = Now + 1
      /\ \A k \in 1..Now : Append(Log, RecordBy(a))[k] = Log[k]
      /\ Append(Log, RecordBy(a))[Now + 1] = RecordBy(a)
  BY <1>2, <1>4, AppendProperties
<1>6. \A k \in 1..Now : Log'[k] = Log[k]
  <2> TAKE k \in 1..Now
  <2>1. PICK i \in Recorded : mutations[i].snapshot.revision = k /\ Log[k] = RecordOf(i)
    BY <1>2
  <2>2. RecordOf(i)' = RecordOf(i) /\ mutations'[i].snapshot.revision = k
    BY <1>1, <2>1 DEF RecordOf
  <2> QED
    BY <1>1, <1>3, <2>1, <2>2
<1>7. Log'[Now + 1] = RecordBy(a)
  <2>1. \A i \in Recorded' : i = id =>
          Log'[mutations'[i].snapshot.revision] = RecordOf(i)' /\ RecordOf(i)' = RecordBy(a)
    BY <1>1, <1>3 DEF RecordOf, Entry, RecordBy
  <2>2. mutations'[id].snapshot.revision = Now + 1
    BY <1>1 DEF Entry, Records
  <2> QED
    BY <1>1, <2>1, <2>2
<1>8. \A k \in 1..(Now + 1) : Log'[k] = Append(Log, RecordBy(a))[k]
  BY <1>1, <1>5, <1>6, <1>7
<1> QED
  BY <1>3, <1>5, <1>8, SeqEqual

-----------------------------------------------------------------------------
(* What the calls of either repository have in common, kept by their steps. *)

\* The revision only moves on, so what was expected of it was there.
LEMMA CallIsTyped ==
  ASSUME Common, NEW a \in Serving, pc[a] # "idle"
  PROVE  /\ a \in Attempts /\ request[a] \in Requests /\ request[a] # NoRequest
         /\ request[a].id \in MutationIds /\ request[a].expected \in Nat
         /\ request[a].expected <= Now /\ Now \in Nat
BY RequestsAssumption, AbsentAssumption, NowIsNat DEF Common, CallsInOrder

\* A submitted call is one that nothing was recorded for.
LEMMA CommonSubmitted ==
  ASSUME Common, NEW a \in Serving, NEW r \in Requests, Submit(a, r)
  PROVE  Common'
<1>1. /\ pc[a] = "idle" /\ pc' = [pc EXCEPT ![a] = "load"]
      /\ request' = [request EXCEPT ![a] = r] /\ r.expected <= Now
      /\ UNCHANGED <<row, mutations, staged, answer>>
  BY DEF Submit, Goto, stored, Now
<1>2. Tables' /\ Now' = Now /\ Recorded' = Recorded /\ Serving' = Serving
  BY <1>1 DEF Common, Tables, HistoryMatchesRow, Now, Current, Recorded, Serving
<1>3. CallsInOrder'
  BY <1>1, <1>2 DEF Common, CallsInOrder, Serving
<1>4. ASSUME NEW id \in Recorded, WriterOf(id)
      PROVE  WriterOf(id)'
  <2>1. request[a] = NoRequest /\ request[mutations[id].token] \in Requests
    BY <1>1, <1>4 DEF Common, CallsInOrder, WriterOf
  <2>2. request'[mutations[id].token] = request[mutations[id].token]
    BY <1>1, <1>4, <2>1, AbsentAssumption DEF Common, CallsInOrder, WriterOf
  <2> QED
    BY <1>1, <1>2, <1>4, <2>2 DEF WriterOf, Serving
<1> QED
  BY <1>2, <1>3, <1>4 DEF Common

\* A call that moves on, and may stage its write while nothing names it yet.
LEMMA CommonMoved ==
  ASSUME Common, NEW a \in Serving, NEW label, Goto(a, label),
         pc[a] \notin {"idle", "done"}, label # "idle",
         UNCHANGED <<row, mutations, request, answer>>,
         \A b \in Serving \ {a} : staged'[b] = staged[b],
         staged'[a] = staged[a] \/ \A id \in Recorded : mutations[id].token # a
  PROVE  Common'
<1>1. pc' = [pc EXCEPT ![a] = label]
  BY DEF Goto
<1>2. Tables' /\ Now' = Now /\ Recorded' = Recorded /\ Serving' = Serving
  BY <1>1 DEF Common, Tables, HistoryMatchesRow, Now, Current, Recorded, Serving
<1>3. CallsInOrder'
  BY <1>1, <1>2 DEF Common, CallsInOrder, Serving
<1>4. ASSUME NEW id \in Recorded, WriterOf(id)
      PROVE  WriterOf(id)'
  BY <1>1, <1>2, <1>4 DEF WriterOf, Serving
<1> QED
  BY <1>2, <1>3, <1>4 DEF Common

\* A call that settles.
LEMMA CommonSettled ==
  ASSUME Common, NEW a \in Serving, NEW value \in Answers, Settle(a, value),
         pc[a] # "idle", UNCHANGED stored
  PROVE  Common'
<1>1. /\ pc' = [pc EXCEPT ![a] = "done"] /\ answer' = [answer EXCEPT ![a] = value]
      /\ UNCHANGED <<row, mutations, request, staged>>
  BY DEF Settle, Goto, stored
<1>2. Tables' /\ Now' = Now /\ Recorded' = Recorded /\ Serving' = Serving
  BY <1>1 DEF Common, Tables, HistoryMatchesRow, Now, Current, Recorded, Serving
<1>3. CallsInOrder'
  BY <1>1, <1>2 DEF Common, CallsInOrder, Serving
<1>4. ASSUME NEW id \in Recorded, WriterOf(id)
      PROVE  WriterOf(id)'
  BY <1>1, <1>2, <1>4 DEF WriterOf, Serving
<1> QED
  BY <1>2, <1>3, <1>4 DEF Common

\* A call whose write is recorded, and which may settle with it.
LEMMA CommonWritten ==
  ASSUME Common, NEW a \in Serving, Records(a), pc[a] # "idle",
         UNCHANGED <<request, staged>>,
         \/ UNCHANGED <<pc, answer>>
         \/ \E value \in Answers : Settle(a, value)
  PROVE  Common'
<1>1. /\ Serving' = Serving /\ pc'[a] # "idle" /\ (pc'[a] # "done" => answer'[a] = answer[a])
      /\ \A b \in Serving \ {a} : pc'[b] = pc[b] /\ answer'[b] = answer[b]
      /\ answer' \in [Serving -> Answers]
      /\ pc'[a] # "done" => pc'[a] = pc[a]
  BY DEF Settle, Goto, Serving, Common, CallsInOrder
<1>2. a \in Attempts /\ Tables'
  BY TablesWritten DEF Common, CallsInOrder
<1>3. /\ Now \in Nat /\ Now' = Now + 1
      /\ Recorded' = Recorded \cup {request[a].id}
      /\ mutations'[request[a].id] = Entry(a)
      /\ \A i \in Recorded : mutations'[i] = mutations[i]
  BY <1>2, RecordedAtNext DEF Common
<1>4. \A b \in Serving : pc[b] # "idle" => request[b].expected \in Nat
  BY CallIsTyped
<1>5. CallsInOrder'
  BY <1>1, <1>3, <1>4 DEF Common, CallsInOrder
<1>6. ASSUME NEW id \in Recorded
      PROVE  WriterOf(id)'
  <2>1. WriterOf(id)
    BY DEF Common
  <2> QED
    BY <1>1, <1>3, <2>1 DEF WriterOf
<1>7. \A id \in Recorded' : id = request[a].id => WriterOf(id)'
  BY <1>1, <1>3 DEF WriterOf, Entry, Records
<1> QED
  BY <1>2, <1>3, <1>5, <1>6, <1>7 DEF Common

-----------------------------------------------------------------------------
(* Which steps of the log those are.                                       *)

\* Whoever has a record in the log is named by a recorded mutation.
LEMMA WroteIsRecorded ==
  ASSUME Tables, NEW a \in Attempts, Promise!Wrote(a)
  PROVE  \E id \in Recorded : mutations[id].token = a
<1>1. PICK n \in DOMAIN Log : Log[n].by = a
  BY DEF Promise!Wrote
<1>2. PICK id \in Recorded : Log[n] = RecordOf(id)
  BY LogIsTheHistory DEF LogReadsRows
<1> QED
  BY <1>1, <1>2 DEF RecordOf

\* A recorded mutation is in the log at its revision.
LEMMA RecordedIsLogged ==
  ASSUME Tables, NEW id \in Recorded
  PROVE  LET n == mutations[id].snapshot.revision
         IN  /\ n \in DOMAIN Log /\ n \in 1..Now
             /\ Log[n].id = id /\ Log[n].doc = mutations[id].snapshot.doc
             /\ Log[n].fingerprint = mutations[id].fingerprint
<1> DEFINE n == mutations[id].snapshot.revision
<1>1. n \in DOMAIN Log /\ Log[n] = RecordOf(id)
  BY LogIsTheHistory DEF LogReadsRows
<1>2. n \in 1..Now
  BY DEF Tables, HistoryMatchesRow, Now
<1> QED
  BY <1>1, <1>2 DEF RecordOf

\* Steps that neither store nor answer anything are none of the log's.
LEMMA Unheard ==
  ASSUME UNCHANGED <<row, mutations, request, answer>>, DOMAIN pc' = DOMAIN pc
  PROVE  UNCHANGED Promise!vars
<1>1. Log' = Log
  BY DEF Log, Recorded, Current
<1>2. \A a : Asked(a)' = Asked(a) /\ Told(a)' = Told(a)
  BY DEF Asked, Told
<1> QED
  BY <1>1, <1>2 DEF Promise!vars

\* A caller that has read a revision asks the log for the next.
LEMMA SubmittedIsAsked ==
  ASSUME Common, NEW a \in Serving, NEW r \in Requests, Submit(a, r)
  PROVE  Promise!Submit(a, r)
<1>1. /\ pc[a] = "idle" /\ pc' = [pc EXCEPT ![a] = "load"]
      /\ request' = [request EXCEPT ![a] = r] /\ r.expected <= Now
      /\ UNCHANGED <<row, mutations, answer>>
  BY DEF Submit, Goto, stored, Now
<1>2. Log' = Log /\ Len(Log) = Now
  <2>1. Log' = Log
    BY <1>1 DEF Log, Recorded, Current
  <2> QED
    BY <2>1, LogIsTheHistory DEF Common, LogReadsRows
<1>3. a \in Attempts /\ request[a] = NoRequest
  BY <1>1 DEF Common, CallsInOrder
<1>4. \A b \in Attempts : Told(b)' = Told(b)
  BY <1>1 DEF Told
<1>5. \A b \in Attempts : Asked(b)' = IF b = a THEN r ELSE Asked(b)
  BY <1>1 DEF Asked, Common, CallsInOrder, Serving
<1>6. [b \in Attempts |-> Asked(b)'] = [[b \in Attempts |-> Asked(b)] EXCEPT ![a] = r]
  BY <1>3, <1>5
<1> QED
  BY <1>1, <1>2, <1>3, <1>4, <1>6 DEF Promise!Submit, Asked, Serving

\* A call that settles, and stores nothing, is answered.
LEMMA SettledIsAnswered ==
  ASSUME Common, NEW a \in Serving, NEW value, pc[a] \notin {"idle", "done"},
         Settle(a, value), UNCHANGED stored
  PROVE  Promise!Answer(a, value)
<1>1. /\ pc' = [pc EXCEPT ![a] = "done"] /\ answer' = [answer EXCEPT ![a] = value]
      /\ UNCHANGED <<row, mutations, request>>
  BY DEF Settle, Goto, stored
<1>2. Log' = Log
  BY <1>1 DEF Log, Recorded, Current
<1>3. a \in Attempts /\ request[a] # NoRequest /\ answer[a] = Pending
  BY CallIsTyped DEF Common, CallsInOrder
<1>4. \A b \in Attempts : Asked(b)' = Asked(b)
  BY <1>1 DEF Asked
<1>5. \A b \in Attempts : Told(b)' = IF b = a THEN value ELSE Told(b)
  BY <1>1 DEF Told, Common, CallsInOrder, Serving
<1>6. [b \in Attempts |-> Told(b)'] = [[b \in Attempts |-> Told(b)] EXCEPT ![a] = value]
  BY <1>3, <1>5
<1> QED
  BY <1>2, <1>3, <1>4, <1>6 DEF Promise!Answer, Promise!Asked, Promise!Pending, Promise!Answered,
     Pending, Answered, Asked, Told, Serving

\* What the record of an id makes of a request is what the log makes of it.
LEMMA RecordedAnswer ==
  ASSUME Common, NEW a \in Serving, pc[a] \notin {"idle", "done"}, UNCHANGED stored,
         mutations[request[a].id] # NoMutation
  PROVE  /\ /\ mutations[request[a].id].fingerprint = Fingerprint(request[a])
            /\ Settle(a, Saved(mutations[request[a].id].snapshot))
            => Promise!Acknowledge(a)
         /\ /\ mutations[request[a].id].fingerprint # Fingerprint(request[a])
            /\ Settle(a, Answered("collision"))
            => Promise!Collide(a)
<1> DEFINE id == request[a].id
           n == mutations[id].snapshot.revision
<1>1. a \in Attempts /\ id \in Recorded /\ request[a] # NoRequest
  BY CallIsTyped DEF Recorded
<1>2. /\ n \in DOMAIN Log /\ Log[n].id = id
      /\ Log[n].doc = mutations[id].snapshot.doc
      /\ Log[n].fingerprint = mutations[id].fingerprint
  BY <1>1, RecordedIsLogged DEF Common
<1>3. /\ Promise!Asked(a) /\ Asked(a) = request[a]
      /\ Promise!Fingerprint(request[a]) = Fingerprint(request[a])
  BY <1>1 DEF Promise!Asked, Asked, Promise!Fingerprint, Fingerprint, Serving
<1>4. ASSUME mutations[id].fingerprint = Fingerprint(request[a]),
             Settle(a, Saved(mutations[id].snapshot))
      PROVE  Promise!Acknowledge(a)
  <2>1. Promise!Answer(a, Promise!Saved(n, Log[n].doc))
    BY <1>2, <1>4, SettledIsAnswered DEF Saved, Promise!Saved
  <2> QED
    BY <1>1, <1>2, <1>3, <1>4, <2>1 DEF Promise!Acknowledge
<1>5. ASSUME mutations[id].fingerprint # Fingerprint(request[a]),
             Settle(a, Answered("collision"))
      PROVE  Promise!Collide(a)
  <2>1. Promise!Answer(a, Promise!Answered("collision"))
    BY <1>5, SettledIsAnswered DEF Answered, Promise!Answered
  <2> QED
    BY <1>1, <1>2, <1>3, <1>5, <2>1 DEF Promise!Collide
<1> QED
  BY <1>4, <1>5

\* The answers of a call that wrote nothing.
LEMMA RefusedAnswer ==
  ASSUME Common, NEW a \in Serving, pc[a] \notin {"idle", "done"}, UNCHANGED stored,
         \A id \in Recorded : mutations[id].token # a
  PROVE  /\ request[a].expected < Now /\ Settle(a, Answered("conflict")) => Promise!Conflict(a)
         /\ Settle(a, Answered("refused")) => Promise!Refuse(a)
<1>1. a \in Attempts /\ request[a] # NoRequest /\ ~Promise!Wrote(a)
  BY CallIsTyped, WroteIsRecorded DEF Common
<1>2. Promise!Asked(a) /\ Asked(a) = request[a] /\ Len(Log) = Now
  BY <1>1, LogIsTheHistory DEF Promise!Asked, Asked, Serving, LogReadsRows, Common
<1>3. \A status \in {"conflict", "refused"} :
        Settle(a, Answered(status)) => Promise!Answer(a, Promise!Answered(status))
  BY SettledIsAnswered DEF Answered, Promise!Answered
<1> QED
  BY <1>1, <1>2, <1>3 DEF Promise!Conflict, Promise!Refuse

\* A caller that hears nothing definite.
LEMMA LostAnswer ==
  ASSUME Common, NEW a \in Serving, pc[a] \notin {"idle", "done"}, UNCHANGED stored,
         NEW status, Settle(a, Answered(status))
  PROVE  Promise!Lose(a, status)
BY SettledIsAnswered DEF Answered, Promise!Answered, Promise!Lose

\* A write that takes effect is accepted, and answered at once or not yet.
LEMMA RecordedIsAccepted ==
  ASSUME Common, NEW a \in Serving, Records(a), pc[a] # "idle", UNCHANGED request,
         answer[a].status \in InDoubt,
         \/ UNCHANGED <<pc, answer>>
         \/ answer[a] = Pending /\ Settle(a, Saved(staged[a]))
  PROVE  Promise!Accept(a)
<1> DEFINE told == [b \in Attempts |-> Told(b)]
<1>1. /\ a \in Attempts /\ request[a] # NoRequest /\ Asked(a) = request[a] /\ Told(a) = answer[a]
      /\ Tables /\ Tables'
  BY CallIsTyped, TablesWritten DEF Asked, Told, Serving, Common
<1>2. /\ Log' = Append(Log, RecordBy(a)) /\ Len(Log) = Now /\ Log \in Seq(Logged)
      /\ staged[a].doc \in Documents
  BY <1>1, LogGrows, LogIsTheHistory DEF LogReadsRows, Records, Snapshots
<1>3. ~Promise!Holds(request[a].id)
  <2>1. \A n \in DOMAIN Log : Log[n].id \in Recorded
    BY <1>1, LogIsTheHistory DEF LogReadsRows, RecordOf
  <2> QED
    BY <2>1 DEF Records, Recorded, Promise!Holds
<1>4. DOMAIN pc' = DOMAIN pc /\ \A b \in Attempts : Asked(b)' = Asked(b)
  BY DEF Asked, Settle, Goto
<1>5. CASE UNCHANGED answer
  <2>1. \A b \in Attempts : Told(b)' = Told(b)
    BY <1>4, <1>5 DEF Told
  <2> QED
    BY <1>1, <1>2, <1>3, <1>4, <2>1
       DEF Promise!Accept, Promise!Asked, Promise!Fingerprint, Fingerprint, RecordBy, Records, InDoubt
<1>6. CASE answer[a] = Pending /\ Settle(a, Saved(staged[a]))
  <2>1. \A b \in Attempts : Told(b)' = IF b = a THEN Saved(staged[a]) ELSE Told(b)
    BY <1>1, <1>4, <1>6 DEF Told, Settle, Common, CallsInOrder, Serving
  <2>2. [b \in Attempts |-> Told(b)'] = [told EXCEPT ![a] = Saved(staged[a])]
    BY <1>1, <2>1
  <2>3. Now \in Nat /\ Len(Log') = Now + 1 /\ RecordBy(a) \in Logged
    <3>1. RecordBy(a) \in Logged
      BY <1>1, RequestsAssumption
         DEF RecordBy, Logged, Records, Snapshots, Fingerprint, Fingerprints
    <3> QED
      BY <1>1, <1>2, <3>1, NowIsNat, AppendProperties
  <2>4. Saved(staged[a]) = Promise!Saved(Len(Log'), staged[a].doc)
    BY <2>3 DEF Saved, Promise!Saved, Records
  <2> QED
    BY <1>1, <1>2, <1>3, <1>4, <1>6, <2>2, <2>4
       DEF Promise!Accept, Promise!Asked, Promise!Fingerprint, Fingerprint, RecordBy, Records, InDoubt,
           Promise!Pending, Promise!Answered, Pending, Answered
<1> QED
  BY <1>5, <1>6

-----------------------------------------------------------------------------
(* The memory repository.                                                  *)

\* Every step keeps every variable of the memory repository in its type.
LEMMA MemoryTypeStep ==
  ASSUME MemoryInv, Memory!Next
  PROVE  Memory!TypeOK'
<1> USE RequestsAssumption, DefaultsAssumption, AbsentAssumption
<1>0. /\ Memory!TypeOK /\ Memory!SharedTypeOK /\ Common /\ Serving = Attempts
      /\ Current(row) \in Snapshots /\ Memory!Snapshots = Snapshots
      /\ Memory!Mutations = Mutations /\ Memory!Answers = Answers
      /\ Memory!Current(row) = Current(row)
  BY NowIsNat DEF MemoryInv, Common, Memory!TypeOK, Memory!SharedTypeOK, Serving, Memory!Snapshots,
     Snapshots, Memory!Mutations, Mutations, Memory!Answers, Answers, Memory!Current, Current,
     Memory!Fingerprints, Fingerprints
<1>1. ASSUME NEW a \in Attempts, NEW r \in Requests, Memory!Submit(a, r),
             UNCHANGED <<Memory!chain, copy>>
      PROVE  Memory!TypeOK'
  BY <1>0, <1>1 DEF Memory!TypeOK, Memory!SharedTypeOK, Memory!Submit, Memory!Goto, Memory!stored,
                    Memory!chain
<1>2. ASSUME NEW a \in Attempts, Memory!Queue(a)
      PROVE  Memory!TypeOK'
  BY <1>0, <1>2 DEF Memory!TypeOK, Memory!SharedTypeOK, Memory!Queue, Memory!Goto, Memory!stored
<1>3. ASSUME NEW a \in Attempts, Memory!Enter(a)
      PROVE  Memory!TypeOK'
  <2>1. request[a].id \in MutationIds
    BY <1>0, <1>3, CallIsTyped DEF Memory!Enter
  <2>2. /\ view' = [view EXCEPT ![a] = Current(row)] /\ copy' = [copy EXCEPT ![a] = mutations]
        /\ found' = [found EXCEPT ![a] = mutations[request[a].id]]
        /\ pc' = [pc EXCEPT ![a] = "run"]
        /\ UNCHANGED <<row, mutations, request, staged, answer, tail, prior, released>>
    BY <1>0, <1>3 DEF Memory!Enter, Memory!Goto, Memory!stored, Memory!chain
  <2> QED
    BY <1>0, <2>1, <2>2 DEF Memory!TypeOK, Memory!SharedTypeOK
<1>4. ASSUME NEW a \in Attempts, NEW labels, NEW status \in {"refused", "conflict", "collision"},
             Memory!Reject(a, labels, status)
      PROVE  Memory!TypeOK'
  BY <1>0, <1>4 DEF Memory!TypeOK, Memory!SharedTypeOK, Memory!Reject, Memory!Settle, Memory!Goto,
     Memory!ReleaseLock, Memory!stored, Answers, Memory!Answered
<1>5. ASSUME NEW a \in Attempts, Memory!Replay(a) \/ Memory!Confirm(a)
      PROVE  Memory!TypeOK'
  BY <1>0, <1>5 DEF Memory!TypeOK, Memory!SharedTypeOK, Memory!Replay, Memory!Confirm, Memory!Goto,
     Memory!stored, Memory!chain
<1>6. ASSUME NEW a \in Attempts, NEW doc \in Documents, Memory!Stage(a, doc)
      PROVE  Memory!TypeOK'
  <2>1. pc[a] = "run" /\ request[a] \in Requests /\ request[a].id \in MutationIds
    BY <1>0, <1>6, CallIsTyped DEF Memory!Stage, Memory!RunStage
  <2> DEFINE snapshot == [revision |-> view[a].revision + 1, doc |-> doc]
             entry == [fingerprint |-> Fingerprint(request[a]), snapshot |-> snapshot, token |-> a]
  <2>2. snapshot \in Snapshots /\ entry \in Mutations
    BY <1>0, <2>1 DEF Memory!SharedTypeOK, Snapshots, Mutations, Fingerprint, Fingerprints
  <2>3. /\ staged' = [staged EXCEPT ![a] = snapshot] /\ pc' = [pc EXCEPT ![a] = "confirm"]
        /\ UNCHANGED <<row, mutations, request, view, found, answer, tail, prior, released>>
    BY <1>6 DEF Memory!Stage, Memory!RunStage, Memory!Goto, Memory!stored, Memory!chain
  <2>4. copy' = [copy EXCEPT ![a][request[a].id] = entry]
    BY <1>0, <1>6, <2>3
       DEF Memory!Stage, Memory!Fingerprint, Fingerprint, Memory!SharedTypeOK
  <2> QED
    BY <1>0, <2>1, <2>2, <2>3, <2>4 DEF Memory!TypeOK, Memory!SharedTypeOK
<1>7. ASSUME NEW a \in Attempts, Memory!Finish(a)
      PROVE  Memory!TypeOK'
  <2>1. staged[a] = NoWrite => found[a] \in Mutations /\ found[a].snapshot \in Snapshots
    BY <1>0, <1>7 DEF Memory!Finish, MemoryInv, Copied, Memory!SharedTypeOK, Mutations
  <2>2. /\ row' \in Snapshots \cup {NoRow}
        /\ mutations' \in [MutationIds -> Mutations \cup {NoMutation}]
    BY <1>0, <1>7 DEF Memory!Finish, Memory!TypeOK, Memory!SharedTypeOK
  <2>3. \A snapshot \in Snapshots : Memory!Saved(snapshot) \in Answers
    BY DEF Memory!Saved, Snapshots, Answers
  <2>4. PICK value \in Answers : Memory!Settle(a, value) /\ Memory!ReleaseLock(a)
    BY <1>0, <1>7, <2>1, <2>3 DEF Memory!Finish, Memory!SharedTypeOK
  <2> QED
    BY <1>0, <2>2, <2>4 DEF Memory!TypeOK, Memory!SharedTypeOK, Memory!Settle, Memory!Goto,
       Memory!ReleaseLock
<1> QED
  BY <1>1, <1>2, <1>3, <1>4, <1>5, <1>6, <1>7
     DEF Memory!Next, Memory!Step, Memory!Collide, Memory!Conflict

\* A call that leaves the line, from its head, leaves the next one first.
LEMMA LineMovesUp ==
  ASSUME Memory!TypeOK, Chain, NEW a \in Attempts, pc[a] \in Working,
         pc' = [pc EXCEPT ![a] = "done"], Memory!ReleaseLock(a)
  PROVE  Chain'
<1>0. /\ a \in Line /\ First(a) /\ Line' = Line \ {a} /\ released' = released \cup {a}
      /\ prior' = prior /\ tail' = IF tail = a THEN Free ELSE tail
      /\ \A b \in Line' : pc'[b] = pc[b]
      /\ released \subseteq Attempts
  BY DEF Memory!ReleaseLock, Line, Chain, Memory!TypeOK, Working
<1>1. \A b \in Line \ {a} : ~First(b) /\ prior[b] \in Line
  BY <1>0 DEF Chain, First
<1>2. \A b \in Line \ {a} : First(b)' <=> prior[b] = a
  BY <1>0, <1>1 DEF First
<1>3. tail = a => Line' = {}
  <2> SUFFICES ASSUME tail = a, Line' # {} PROVE FALSE
    OBVIOUS
  <2>1. Line' \in SUBSET Line
    BY <1>0
  <2>2. PICK b \in Line' : prior[b] \notin Line'
    BY <2>1 DEF Chain
  <2>3. prior[b] = a
    BY <1>0, <1>1, <2>2
  <2> QED
    BY <1>0, <2>2, <2>3 DEF Chain
<1>4. /\ tail' \in Line' \cup {Free} /\ (tail' = Free => Line' = {})
  BY <1>0, <1>3 DEF Chain
<1>5. \A b \in released' : pc'[b] = "done"
  BY <1>0 DEF Chain, Memory!TypeOK
<1>6. \A b \in Line' :
        /\ prior'[b] \in Line' \cup released' \cup {Free}
        /\ prior'[b] # tail'
        /\ pc'[b] \in Working => First(b)'
  <2> TAKE b \in Line'
  <2>1. b \in Line \ {a} /\ prior[b] \in Line /\ prior[b] # tail
    BY <1>0, <1>1 DEF Chain
  <2>2. pc[b] \notin Working
    BY <1>0, <1>1, <2>1 DEF Chain
  <2>3. tail' = tail
    BY <1>0, <1>3
  <2> QED
    BY <1>0, <2>1, <2>2, <2>3
<1>7. \A b, c \in Line' : prior'[b] = prior'[c] => b = c
  BY <1>0 DEF Chain
<1>8. \A b, c \in Line' : First(b)' /\ First(c)' => b = c
  BY <1>0, <1>2, <1>7
<1>9. \A waiting \in SUBSET (Line') : waiting # {} => \E b \in waiting : prior'[b] \notin waiting
  BY <1>0 DEF Chain
<1> QED
  BY <1>4, <1>5, <1>6, <1>7, <1>8, <1>9 DEF Chain

\* Every step keeps the chain of calls.
LEMMA ChainStep ==
  ASSUME MemoryInv, Memory!Next
  PROVE  Chain'
<1>0. Memory!TypeOK /\ Memory!SharedTypeOK /\ Chain /\ Free \notin Attempts
  BY RepositoriesAssumption DEF MemoryInv, Memory!TypeOK, Memory!FreeAssumption
<1>1. ASSUME NEW a \in Attempts, NEW label, pc' = [pc EXCEPT ![a] = label],
             \/ pc[a] \notin Working \cup {"wait", "done"} /\ label \notin Working \cup {"wait"}
             \/ pc[a] \in Working /\ label \in Working
             \/ pc[a] = "wait" /\ label \in Working /\ First(a),
             UNCHANGED Memory!chain
      PROVE  Chain'
  <2>1. /\ Line' = Line /\ UNCHANGED <<tail, prior, released>>
        /\ \A b \in Attempts \ {a} : pc'[b] = pc[b]
        /\ pc'[a] \in Working => First(a)
        /\ a \notin released
    BY <1>0, <1>1 DEF Line, Memory!chain, Memory!TypeOK, Chain, Working
  <2>2. \A b : First(b)' <=> First(b)
    BY <2>1 DEF First
  <2>3. /\ tail' \in Line' \cup {Free} /\ (tail' = Free => Line' = {})
        /\ \A b \in released' : pc'[b] = "done"
        /\ \A b \in Line' : prior'[b] \in Line' \cup released' \cup {Free} /\ prior'[b] # tail'
    BY <1>0, <2>1 DEF Chain, Memory!TypeOK
  <2>4. \A b \in Line' : pc'[b] \in Working => First(b)'
    BY <1>0, <2>1, <2>2 DEF Chain, Line
  <2>5. \A b, c \in Line' : First(b)' /\ First(c)' => b = c
    BY <1>0, <2>1, <2>2 DEF Chain
  <2>6. /\ \A b, c \in Line' : prior'[b] = prior'[c] => b = c
        /\ \A waiting \in SUBSET (Line') : waiting # {} => \E b \in waiting : prior'[b] \notin waiting
    BY <1>0, <2>1 DEF Chain
  <2> QED
    BY <2>3, <2>4, <2>5, <2>6 DEF Chain
<1>2. ASSUME NEW a \in Attempts, Memory!Queue(a)
      PROVE  Chain'
  <2>1. /\ a \notin Line /\ Line' = Line \cup {a} /\ tail' = a /\ prior'[a] = tail
        /\ \A b \in Line : prior'[b] = prior[b] /\ pc'[b] = pc[b]
        /\ released' = released /\ a \notin released /\ pc'[a] = "wait"
        /\ \A b \in released : pc'[b] = pc[b]
    BY <1>0, <1>2 DEF Memory!Queue, Memory!Goto, Line, Memory!TypeOK, Chain, Working
  <2>2. \A b \in Line : First(b)' <=> First(b)
    BY <2>1 DEF First
  <2>3. a # Free /\ a # tail
    BY <1>0, <2>1 DEF Chain
  <2>4. First(a)' => Line = {}
    BY <1>0, <2>1 DEF First, Chain, Line, Working
  <2>5. \A b \in released' : pc'[b] = "done"
    BY <1>0, <2>1 DEF Chain
  <2>6. \A b \in Line' :
          /\ prior'[b] \in Line' \cup released' \cup {Free}
          /\ prior'[b] # tail'
          /\ pc'[b] \in Working => First(b)'
    <3>1. \A b \in Line : prior[b] # a
      BY <1>0, <2>1, <2>3 DEF Chain
    <3>2. pc'[a] \notin Working /\ prior'[a] \in Line' \cup {Free} /\ prior'[a] # a
      BY <1>0, <2>1, <2>3 DEF Chain, Working
    <3> QED
      BY <1>0, <2>1, <2>2, <3>1, <3>2 DEF Chain
  <2>7. \A b, c \in Line' : First(b)' /\ First(c)' => b = c
    BY <1>0, <2>1, <2>2, <2>4 DEF Chain
  <2>8. \A b, c \in Line' : prior'[b] = prior'[c] => b = c
    <3>1. \A b \in Line : prior[b] # tail
      BY <1>0 DEF Chain
    <3> QED
      BY <1>0, <2>1, <3>1 DEF Chain
  <2>9. \A waiting \in SUBSET (Line') : waiting # {} => \E b \in waiting : prior'[b] \notin waiting
    <3> TAKE waiting \in SUBSET (Line')
    <3> HAVE waiting # {}
    <3>1. CASE waiting \ {a} = {}
      BY <2>1, <2>3, <3>1
    <3>2. CASE waiting \ {a} # {}
      <4>1. waiting \ {a} \in SUBSET Line
        BY <2>1
      <4>2. PICK b \in waiting \ {a} : prior[b] \notin waiting \ {a}
        BY <1>0, <3>2, <4>1 DEF Chain
      <4>3. prior[b] # a /\ prior'[b] = prior[b]
        BY <1>0, <2>1, <2>3, <4>1, <4>2 DEF Chain
      <4> QED
        BY <4>2, <4>3
    <3> QED
      BY <3>1, <3>2
  <2> QED
    BY <2>1, <2>3, <2>5, <2>6, <2>7, <2>8, <2>9 DEF Chain
<1>3. ASSUME NEW a \in Attempts, NEW r \in Requests, Memory!Submit(a, r),
             UNCHANGED <<Memory!chain, copy>>
      PROVE  Chain'
  BY <1>1, <1>3 DEF Memory!Submit, Memory!Goto, Memory!chain, Working
<1>4. ASSUME NEW a \in Attempts, Memory!Enter(a)
      PROVE  Chain'
  BY <1>1, <1>4 DEF Memory!Enter, Memory!Goto, Working, First
<1>5. ASSUME NEW a \in Attempts,
             \/ Memory!Replay(a) \/ Memory!Confirm(a)
             \/ \E doc \in Documents : Memory!Stage(a, doc)
      PROVE  Chain'
  BY <1>1, <1>5 DEF Memory!Replay, Memory!Confirm, Memory!Stage, Memory!RunStage, Memory!Goto, Working
<1>6. ASSUME NEW a \in Attempts, NEW labels \in SUBSET {"run", "confirm", "finish"}, NEW status,
             Memory!Reject(a, labels, status)
      PROVE  Chain'
  BY <1>0, <1>6, LineMovesUp DEF Memory!Reject, Memory!Settle, Memory!Goto, Working
<1>7. ASSUME NEW a \in Attempts, Memory!Finish(a)
      PROVE  Chain'
  BY <1>0, <1>7, LineMovesUp DEF Memory!Finish, Memory!Settle, Memory!Goto, Working
<1> QED
  BY <1>2, <1>3, <1>4, <1>5, <1>6, <1>7
     DEF Memory!Next, Memory!Step, Memory!Collide, Memory!Conflict

\* A call that a step leaves alone keeps its copy, unless it was at work on it
\* while the tables changed.
LEMMA OthersKeepCopies ==
  ASSUME NEW b \in Attempts, Copied(b), pc'[b] = pc[b], request'[b] = request[b],
         view'[b] = view[b], found'[b] = found[b], staged'[b] = staged[b], copy'[b] = copy[b],
         UNCHANGED <<row, mutations>> \/ pc[b] \notin Working
  PROVE  Copied(b)'
BY DEF Copied, Current, Now, Entry, Working

\* Only one call is at work, so nobody else minds what it stores.
LEMMA OneAtWork ==
  ASSUME MemoryInv, NEW a \in Attempts, NEW b \in Attempts, pc[a] \in Working, pc[b] \in Working
  PROVE  a = b
BY DEF MemoryInv, Chain, Line

\* The end of a call, which puts back the copy: as it was, or with one write.
LEMMA FinishStores ==
  ASSUME MemoryInv, NEW a \in Attempts, Memory!Finish(a)
  PROVE  \/ /\ UNCHANGED <<row, mutations>> /\ mutations[request[a].id] = found[a]
            /\ found[a] # NoMutation /\ found[a].fingerprint = Fingerprint(request[a])
            /\ Settle(a, Saved(found[a].snapshot)) /\ found[a].snapshot \in Snapshots
         \/ Records(a) /\ Settle(a, Saved(staged[a]))
<1> USE AbsentAssumption
<1>0. /\ Common /\ Tables /\ Copied(a) /\ a \in Serving
      /\ pc[a] = "finish" /\ Memory!SharedTypeOK /\ Memory!Snapshots = Snapshots
      /\ Memory!Mutations = Mutations
  BY DEF MemoryInv, Common, Serving, Memory!TypeOK, Memory!Finish, Memory!Snapshots, Snapshots,
         Memory!Mutations, Mutations, Memory!Fingerprints, Fingerprints
<1>1. view[a] = Current(row) /\ found[a] = mutations[request[a].id]
  BY <1>0 DEF Copied, Working
<1>2. CASE staged[a] = NoWrite
  <2>1. copy[a] = mutations /\ found[a] # NoMutation
        /\ found[a].fingerprint = Fingerprint(request[a])
    BY <1>0, <1>2 DEF Copied, Working
  <2>2. found[a] \in Mutations /\ found[a].snapshot \in Snapshots
    BY <1>0, <2>1 DEF Memory!SharedTypeOK, Mutations
  <2>3. row' = row
    <3>1. row' = IF view[a].revision = 0 THEN NoRow ELSE view[a]
      BY <1>2 DEF Memory!Finish
    <3>2. view[a].revision = Now
      BY <1>1 DEF Now
    <3> QED
      BY <1>0, <1>1, <3>1, <3>2, NowIsNat
  <2>4. mutations' = mutations /\ Settle(a, Saved(found[a].snapshot))
    BY <1>2, <2>1 DEF Memory!Finish, Memory!Settle, Memory!Goto, Memory!Saved, Settle, Goto, Saved
  <2> QED
    BY <1>1, <2>1, <2>2, <2>3, <2>4
<1>3. CASE staged[a] # NoWrite
  <2>1. staged[a] \in Snapshots /\ request[a] \in Requests
    BY <1>0, <1>3, CallIsTyped DEF Memory!SharedTypeOK
  <2>2. /\ row' = staged[a] /\ mutations' = copy[a] /\ Settle(a, Saved(staged[a]))
    BY <1>3 DEF Memory!Finish, Memory!Settle, Memory!Goto, Memory!Saved, Settle, Goto, Saved
  <2> QED
    BY <1>0, <1>1, <1>3, <2>1, <2>2 DEF Copied, Working, Records
<1> QED
  BY <1>2, <1>3

\* Whatever the memory repository does keeps its invariant, and is a step of
\* the log or none.
LEMMA MemoryStep ==
  ASSUME MemoryInv, Memory!Next
  PROVE  MemoryInv' /\ [Promise!Next]_(Promise!vars)
<1> USE AbsentAssumption
<1> DEFINE Kept == /\ \A b \in Attempts : Copied(b)'
                   /\ \A id \in Recorded' : pc'[mutations'[id].token] = "done"
           Goal == Common' /\ Kept /\ [Promise!Next]_(Promise!vars)
<1>0. /\ Common /\ Tables /\ Memory!TypeOK /\ Memory!SharedTypeOK /\ Serving = Attempts
      /\ \A b \in Attempts : Copied(b)
      /\ \A id \in Recorded : mutations[id].token \in Attempts /\ pc[mutations[id].token] = "done"
      /\ Memory!Snapshots = Snapshots /\ Memory!Mutations = Mutations
  BY DEF MemoryInv, Common, Serving, Memory!TypeOK, WriterOf, Memory!Snapshots, Snapshots,
         Memory!Mutations, Mutations, Memory!Fingerprints, Fingerprints
<1>k. ASSUME NEW a \in Attempts, NEW label, pc[a] # "done", pc' = [pc EXCEPT ![a] = label],
             UNCHANGED <<row, mutations>>, Copied(a)',
             \A b \in Attempts \ {a} :
               /\ request'[b] = request[b] /\ view'[b] = view[b] /\ found'[b] = found[b]
               /\ staged'[b] = staged[b] /\ copy'[b] = copy[b]
      PROVE  Kept
  <2>1. \A b \in Attempts \ {a} : pc'[b] = pc[b]
    BY <1>k
  <2>2. \A b \in Attempts \ {a} : Copied(b)'
    BY <1>0, <1>k, <2>1, OthersKeepCopies
  <2>3. Recorded' = Recorded /\ \A id \in Recorded : mutations[id].token # a
    BY <1>0, <1>k DEF Recorded
  <2> QED
    BY <1>0, <1>k, <2>1, <2>2, <2>3
<1>1. ASSUME NEW a \in Attempts, NEW r \in Requests, Memory!Submit(a, r),
             UNCHANGED <<Memory!chain, copy>>
      PROVE  Goal
  <2>1. Submit(a, r)
    BY <1>1 DEF Memory!Submit, Memory!Goto, Memory!Current, Memory!stored, Submit, Goto, Current, stored
  <2>2. Common' /\ Promise!Submit(a, r)
    BY <1>0, <2>1, CommonSubmitted, SubmittedIsAsked
  <2>3. Copied(a)'
    BY <1>0, <2>1 DEF Submit, Goto, Copied, Working, Memory!TypeOK
  <2>4. Kept
    <3>1. /\ pc[a] = "idle" /\ pc' = [pc EXCEPT ![a] = "load"]
          /\ request' = [request EXCEPT ![a] = r]
          /\ UNCHANGED <<row, mutations, view, found, staged>>
      BY <2>1 DEF Submit, Goto, stored
    <3>2. \A b \in Attempts \ {a} : request'[b] = request[b]
      BY <3>1
    <3> QED
      BY <1>1, <1>k, <2>3, <3>1, <3>2
  <2> QED
    BY <2>2, <2>4 DEF Promise!Next
<1>2. ASSUME NEW a \in Attempts, NEW label, Goto(a, label), label \notin {"idle", "done"},
             pc[a] \notin {"idle", "done"},
             UNCHANGED <<row, mutations, request, answer>>, Copied(a)',
             \A b \in Attempts \ {a} :
               /\ request'[b] = request[b] /\ view'[b] = view[b] /\ found'[b] = found[b]
               /\ staged'[b] = staged[b] /\ copy'[b] = copy[b]
      PROVE  Goal
  <2>1. \A id \in Recorded : mutations[id].token # a
    BY <1>0, <1>2
  <2>2. Common'
    BY <1>0, <1>2, <2>1, CommonMoved
  <2>3. UNCHANGED Promise!vars
    BY <1>2, Unheard DEF Goto
  <2>4. Kept
    BY <1>k, <1>2 DEF Goto
  <2> QED
    BY <2>2, <2>3, <2>4
<1>3. ASSUME NEW a \in Attempts, Memory!Queue(a)
      PROVE  Goal
  <2>1. /\ Goto(a, "wait") /\ pc[a] = "load"
        /\ UNCHANGED <<row, mutations, request, view, found, staged, answer, copy>>
    BY <1>3 DEF Memory!Queue, Memory!Goto, Memory!stored, Goto
  <2>2. Copied(a)'
    BY <1>0, <2>1 DEF Copied, Goto, Working, Memory!TypeOK
  <2> QED
    BY <1>2, <2>1, <2>2
<1>4. ASSUME NEW a \in Attempts, Memory!Enter(a)
      PROVE  Goal
  <2>1. /\ Goto(a, "run") /\ pc[a] = "wait"
        /\ view' = [view EXCEPT ![a] = Current(row)]
        /\ copy' = [copy EXCEPT ![a] = mutations]
        /\ found' = [found EXCEPT ![a] = mutations[request[a].id]]
        /\ UNCHANGED <<row, mutations, request, staged, answer>>
    BY <1>4 DEF Memory!Enter, Memory!Goto, Memory!stored, Memory!Current, Current, Goto
  <2>2. Copied(a)'
    BY <1>0, <2>1 DEF Copied, Goto, Working, Memory!TypeOK, Memory!SharedTypeOK, Current
  <2> QED
    BY <1>2, <2>1, <2>2
<1>5. ASSUME NEW a \in Attempts, Memory!Replay(a) \/ Memory!Confirm(a)
      PROVE  Goal
  <2>1. /\ Goto(a, "finish") /\ pc[a] \in {"run", "confirm"}
        /\ pc[a] = "run" => found[a] # NoMutation /\ found[a].fingerprint = Fingerprint(request[a])
        /\ UNCHANGED <<row, mutations, request, view, found, staged, answer, copy>>
    BY <1>5 DEF Memory!Replay, Memory!Confirm, Memory!Goto, Memory!stored, Memory!Fingerprint,
                Fingerprint, Goto
  <2>2. Copied(a)'
    BY <1>0, <2>1 DEF Copied, Goto, Working, Memory!TypeOK, Current, Now, Entry
  <2> QED
    BY <1>2, <2>1, <2>2
<1>6. ASSUME NEW a \in Attempts, NEW doc \in Documents, Memory!Stage(a, doc)
      PROVE  Goal
  <2> DEFINE snapshot == [revision |-> view[a].revision + 1, doc |-> doc]
  <2>1. /\ Goto(a, "confirm") /\ pc[a] = "run"
        /\ found[a] = NoMutation /\ view[a].revision = request[a].expected
        /\ staged' = [staged EXCEPT ![a] = snapshot]
        /\ UNCHANGED <<row, mutations, request, view, found, answer>>
    BY <1>6 DEF Memory!Stage, Memory!RunStage, Memory!Goto, Memory!stored, Goto
  <2>2. /\ view[a] = Current(row) /\ found[a] = mutations[request[a].id]
        /\ copy[a] = mutations /\ staged[a] = NoWrite
    BY <1>0, <2>1 DEF Copied, Working
  <2>3. snapshot \in Snapshots /\ snapshot.revision = Now + 1 /\ request[a].expected = Now
    BY <1>0, <2>1, <2>2 DEF Memory!SharedTypeOK, Snapshots, Now
  <2>4. staged'[a] = snapshot
    BY <1>0, <2>1 DEF Memory!SharedTypeOK
  <2>5. copy' = [copy EXCEPT ![a][request[a].id] = Entry(a)']
    BY <1>6, <2>1 DEF Memory!Stage, Memory!Fingerprint, Fingerprint, Entry
  <2>6. copy'[a] = [mutations EXCEPT ![request'[a].id] = Entry(a)']
    BY <1>0, <2>1, <2>2, <2>5 DEF Memory!TypeOK
  <2>7. Copied(a)'
    BY <1>0, <2>1, <2>2, <2>3, <2>4, <2>6 DEF Copied, Goto, Working, Memory!TypeOK, Current, Now
  <2> QED
    BY <1>2, <2>1, <2>5, <2>7
<1>7. ASSUME NEW a \in Attempts, NEW status, pc[a] \in Working,
             Settle(a, Answered(status)), UNCHANGED <<row, mutations, copy>>,
             \/ status = "refused"
             \/ /\ status = "conflict" /\ pc[a] = "run"
                /\ found[a] = NoMutation /\ view[a].revision # request[a].expected
             \/ /\ status = "collision" /\ pc[a] = "run"
                /\ found[a] # NoMutation /\ found[a].fingerprint # Fingerprint(request[a])
      PROVE  Goal
  <2>1. pc[a] \notin {"idle", "done"} /\ UNCHANGED stored /\ \A id \in Recorded : mutations[id].token # a
    BY <1>0, <1>7 DEF Working, stored
  <2>2. Common'
    <3>1. Answered(status) \in Answers
      BY <1>7 DEF Answered, Answers
    <3> QED
      BY <1>0, <1>7, <2>1, <3>1, CommonSettled
  <2>3. Copied(a)' /\ Kept
    <3>1. Copied(a)'
      BY <1>0, <1>7 DEF Settle, Goto, Copied, Memory!TypeOK, Working
    <3> QED
      BY <1>7, <1>k, <2>1, <3>1 DEF Settle, Goto
  <2>4. view[a] = Current(row) /\ found[a] = mutations[request[a].id]
    BY <1>0, <1>7 DEF Copied
  <2>5. CASE status = "refused"
    BY <1>0, <1>7, <2>1, <2>2, <2>3, <2>5, RefusedAnswer DEF Promise!Next
  <2>6. CASE status = "conflict"
    <3>1. request[a].expected < Now
      BY <1>0, <1>7, <2>1, <2>4, <2>6, CallIsTyped DEF Now
    <3> QED
      BY <1>0, <1>7, <2>1, <2>2, <2>3, <2>6, <3>1, RefusedAnswer DEF Promise!Next
  <2>7. CASE status = "collision"
    <3>1. Promise!Collide(a)
      BY <1>0, <1>7, <2>1, <2>4, <2>7, RecordedAnswer
    <3> QED
      BY <1>0, <2>2, <2>3, <3>1 DEF Promise!Next
  <2> QED
    BY <1>7, <2>5, <2>6, <2>7
<1>8. ASSUME NEW a \in Attempts,
             \/ Memory!Reject(a, {"run", "confirm", "finish"}, "refused")
             \/ Memory!Collide(a) \/ Memory!Conflict(a)
      PROVE  Goal
  <2>1. PICK status \in {"refused", "conflict", "collision"} :
             /\ pc[a] \in Working /\ Settle(a, Answered(status))
             /\ UNCHANGED <<row, mutations, copy>>
             /\ \/ status = "refused"
                \/ /\ status = "conflict" /\ pc[a] = "run"
                   /\ found[a] = NoMutation /\ view[a].revision # request[a].expected
                \/ /\ status = "collision" /\ pc[a] = "run"
                   /\ found[a] # NoMutation /\ found[a].fingerprint # Fingerprint(request[a])
    BY <1>8 DEF Memory!Reject, Memory!Collide, Memory!Conflict, Memory!Settle, Memory!Goto,
       Memory!Answered, Memory!ReleaseLock, Memory!stored, Memory!Fingerprint, Fingerprint,
       Settle, Goto, Answered, Working
  <2> QED
    BY <1>7, <2>1
<1>9. ASSUME NEW a \in Attempts, Memory!Finish(a)
      PROVE  Goal
  <2>1. /\ pc[a] = "finish" /\ pc' = [pc EXCEPT ![a] = "done"] /\ answer[a] = Pending
        /\ UNCHANGED <<request, view, found, staged, copy>>
    BY <1>0, <1>9 DEF Memory!Finish, Memory!Settle, Memory!Goto, Memory!ReleaseLock, Common,
                      CallsInOrder
  <2>2. \A b \in Attempts : Copied(b)'
    <3>1. Copied(a)'
      BY <1>0, <2>1 DEF Copied, Memory!TypeOK, Working
    <3>2. \A b \in Attempts \ {a} : pc[b] \notin Working /\ pc'[b] = pc[b]
      BY <2>1, OneAtWork DEF Working
    <3> QED
      BY <1>0, <2>1, <3>1, <3>2, OthersKeepCopies
  <2>3. \A snapshot \in Snapshots : Saved(snapshot) \in Answers
    BY DEF Saved, Snapshots, Answers
  <2>4. CASE /\ UNCHANGED <<row, mutations>> /\ mutations[request[a].id] = found[a]
             /\ found[a] # NoMutation /\ found[a].fingerprint = Fingerprint(request[a])
             /\ Settle(a, Saved(found[a].snapshot)) /\ found[a].snapshot \in Snapshots
    <3>1. UNCHANGED stored
      BY <2>4 DEF stored
    <3>2. Common'
      BY <1>0, <2>1, <2>3, <2>4, <3>1, CommonSettled
    <3>3. Promise!Acknowledge(a)
      BY <1>0, <2>1, <2>4, <3>1, RecordedAnswer
    <3>4. Recorded' = Recorded /\ \A id \in Recorded : pc'[mutations'[id].token] = "done"
      BY <1>0, <2>1, <2>4 DEF Recorded, Memory!TypeOK
    <3> QED
      BY <1>0, <2>2, <3>2, <3>3, <3>4 DEF Promise!Next
  <2>5. CASE Records(a) /\ Settle(a, Saved(staged[a]))
    <3>1. Saved(staged[a]) \in Answers
      BY <2>3, <2>5 DEF Records
    <3>2. Common'
      BY <1>0, <2>1, <2>5, <3>1, CommonWritten
    <3>3. Promise!Accept(a)
      BY <1>0, <2>1, <2>5, RecordedIsAccepted DEF InDoubt, Pending, Answered
    <3>4. \A id \in Recorded' : pc'[mutations'[id].token] = "done"
      <4>1. /\ Recorded' = Recorded \cup {request[a].id}
            /\ mutations'[request[a].id].token = a
            /\ \A id \in Recorded : mutations'[id] = mutations[id]
        <5>1. Entry(a).token = a
          BY DEF Entry
        <5> QED
          BY <1>0, <2>5, <5>1, RecordedAtNext
      <4>2. pc'[a] = "done" /\ \A b \in Attempts : pc[b] = "done" => pc'[b] = "done"
        BY <1>0, <2>1 DEF Memory!TypeOK
      <4> QED
        BY <1>0, <4>1, <4>2
    <3> QED
      BY <1>0, <2>2, <3>2, <3>3, <3>4 DEF Promise!Next
  <2> QED
    BY <1>9, <2>4, <2>5, FinishStores
<1>10. Goal
  BY <1>1, <1>3, <1>4, <1>5, <1>6, <1>8, <1>9 DEF Memory!Next, Memory!Step
<1> QED
  BY <1>10, MemoryTypeStep, ChainStep DEF MemoryInv

-----------------------------------------------------------------------------
(* PostgreSQL.                                                             *)

\* What the two modules' definitions have in common, and what the constants say.
LEMMA SameWords ==
  /\ Postgres!Snapshots = Snapshots /\ Postgres!Answers = Answers
  /\ Postgres!Mutations \subseteq Mutations /\ Postgres!Fingerprints = Fingerprints
  /\ Postgres!Pending = Pending
  /\ Clients \subseteq Attempts /\ ClientRequests \subseteq Requests
  /\ PoolSizes \subseteq Nat \ {0} /\ NoHolder \notin Clients
BY RepositoriesAssumption DEF Postgres!Snapshots, Snapshots, Postgres!Answers, Answers,
   Postgres!Mutations, Mutations, Postgres!Fingerprints, Fingerprints, Postgres!PoolAssumption,
   Postgres!Pending, Pending, Postgres!Answered, Answered

\* The pool is not handed out beyond its size.
LEMMA PoolKept ==
  ASSUME pool \in PoolSizes, IsFiniteSet(connected), connected \subseteq Clients,
         Postgres!Cardinality(connected) <= pool, NEW a \in Clients,
         Postgres!Connect(a) \/ Postgres!Release(a) \/ UNCHANGED connected
  PROVE  /\ IsFiniteSet(connected') /\ connected' \subseteq Clients
         /\ Postgres!Cardinality(connected') <= pool
<1>1. \A S : Postgres!Cardinality(S) = Cardinality(S)
  BY DEF Cardinality, Postgres!Cardinality
<1>2. Cardinality(connected) \in Nat /\ pool \in Nat
  BY FS_CardinalityType, SameWords
<1>3. CASE Postgres!Connect(a)
  <2>1. /\ IsFiniteSet(connected \cup {a})
        /\ Cardinality(connected \cup {a}) =
             IF a \in connected THEN Cardinality(connected) ELSE Cardinality(connected) + 1
    BY FS_AddElement
  <2> QED
    BY <1>1, <1>2, <1>3, <2>1 DEF Postgres!Connect
<1>4. CASE Postgres!Release(a)
  <2>1. /\ IsFiniteSet(connected \ {a})
        /\ Cardinality(connected \ {a}) =
             IF a \in connected THEN Cardinality(connected) - 1 ELSE Cardinality(connected)
    BY FS_RemoveElement
  <2> QED
    BY <1>1, <1>2, <1>4, <2>1 DEF Postgres!Release
<1> QED
  BY <1>3, <1>4

\* The answers of a transaction are answers.
LEMMA AnswersAreAnswers ==
  /\ \A snapshot \in Snapshots : Postgres!Saved(snapshot) \in Answers
  /\ \A status \in {"conflict", "collision", "refused", "unknown", "lost"} :
       Postgres!Answered(status) \in Answers
BY DEF Postgres!Saved, Snapshots, Answers, Postgres!Answered

\* Every step keeps every variable of PostgreSQL in its type.
LEMMA PostgresTypeStep ==
  ASSUME PostgresInv, Postgres!Next
  PROVE  Postgres!TypeOK' /\ IsFiniteSet(connected)'
<1> USE AbsentAssumption
<1>0. /\ Postgres!TypeOK /\ Postgres!SharedTypeOK /\ Common /\ Serving = Clients
      /\ IsFiniteSet(connected) /\ Postgres!Current(row) = Current(row)
      /\ Current(row) \in Snapshots
      /\ \A a \in Clients : InSession(a)
      /\ pool \in PoolSizes /\ pool' = pool
  BY NowIsNat DEF PostgresInv, Postgres!TypeOK, Common, Serving, Postgres!Current, Current,
     Postgres!Next
<1>p. ASSUME NEW a \in Clients, Postgres!Connect(a) \/ Postgres!Release(a) \/ UNCHANGED connected
      PROVE  /\ connected' \subseteq Clients /\ Postgres!Cardinality(connected') <= pool
             /\ IsFiniteSet(connected)'
  BY <1>0, <1>p, PoolKept DEF Postgres!TypeOK
<1>1. ASSUME NEW a \in Clients, NEW r \in ClientRequests, Postgres!Submit(a, r),
             UNCHANGED <<Postgres!database, Postgres!mine>>
      PROVE  Postgres!TypeOK' /\ IsFiniteSet(connected)'
  <2>1. /\ pc' = [pc EXCEPT ![a] = "load"] /\ request' = [request EXCEPT ![a] = r]
        /\ UNCHANGED <<row, mutations, view, found, staged, answer, session, holder, connected,
                       wrote, failure>>
    BY <1>1 DEF Postgres!Submit, Postgres!Goto, Postgres!stored, Postgres!database, Postgres!mine
  <2> QED
    BY <1>0, <1>p, <2>1, SameWords DEF Postgres!TypeOK, Postgres!SharedTypeOK, Postgres!Labels
<1>2. ASSUME NEW a \in Clients, NEW label \in Postgres!Labels, Postgres!Goto(a, label),
             Postgres!Connect(a) \/ Postgres!Release(a) \/ UNCHANGED connected,
             UNCHANGED <<row, mutations, request, answer>>,
             view' = view \/ view' = [view EXCEPT ![a] = Current(row)],
             found' = found \/ found' = [found EXCEPT ![a] = mutations[request[a].id]],
             staged' = staged \/ \E s \in Snapshots : staged' = [staged EXCEPT ![a] = s],
             pc[a] # "idle",
             \/ session' = session
             \/ \E s \in {"open", "sent"} : session' = [session EXCEPT ![a] = s],
             holder' \in {holder, a},
             wrote' = wrote \/ wrote' = [wrote EXCEPT ![a] = TRUE],
             failure' = failure \/ \E v \in Answers : failure' = [failure EXCEPT ![a] = v]
      PROVE  Postgres!TypeOK' /\ IsFiniteSet(connected)'
  <2>1. request[a].id \in MutationIds
    BY <1>0, <1>2, CallIsTyped
  <2>2. /\ view' \in [Clients -> Snapshots] /\ staged' \in [Clients -> Snapshots \cup {NoWrite}]
        /\ found' \in [Clients -> Postgres!Mutations \cup {NoMutation}]
        /\ pc' \in [Clients -> Postgres!Labels]
    BY <1>0, <1>2, <2>1, SameWords DEF Postgres!TypeOK, Postgres!SharedTypeOK, Postgres!Goto
  <2>3. /\ session' \in [Clients -> {"none", "open", "sent", "committed", "aborted"}]
        /\ holder' \in Clients \cup {NoHolder} /\ wrote' \in [Clients -> BOOLEAN]
    BY <1>0, <1>2 DEF Postgres!TypeOK
  <2>4. failure' \in [Clients -> Answers]
    BY <1>0, <1>2, SameWords DEF Postgres!TypeOK
  <2> QED
    BY <1>0, <1>2, <1>p, <2>2, <2>3, <2>4, SameWords DEF Postgres!TypeOK, Postgres!SharedTypeOK
<1>3. ASSUME NEW a \in Clients, NEW value \in Answers, Postgres!Settle(a, value),
             Postgres!Release(a) \/ UNCHANGED connected,
             UNCHANGED <<row, mutations, wrote, failure>>,
             UNCHANGED Postgres!database \/ Postgres!EndSession(a, "aborted")
      PROVE  Postgres!TypeOK' /\ IsFiniteSet(connected)'
  <2>1. /\ session' \in [Clients -> {"none", "open", "sent", "committed", "aborted"}]
        /\ holder' \in Clients \cup {NoHolder}
    BY <1>0, <1>3 DEF Postgres!TypeOK, Postgres!database, Postgres!EndSession
  <2>2. /\ answer' \in [Clients -> Answers] /\ pc' \in [Clients -> Postgres!Labels]
        /\ UNCHANGED <<request, view, found, staged>>
    BY <1>0, <1>3, SameWords
       DEF Postgres!TypeOK, Postgres!SharedTypeOK, Postgres!Settle, Postgres!Goto, Postgres!Labels
  <2> QED
    BY <1>0, <1>3, <1>p, <2>1, <2>2, SameWords DEF Postgres!TypeOK, Postgres!SharedTypeOK
<1>4. ASSUME NEW a \in Clients, Postgres!Load(a)
      PROVE  Postgres!TypeOK' /\ IsFiniteSet(connected)'
  <2>1. CASE Postgres!LoadDocument(a) /\ Postgres!Connect(a)
    BY <1>0, <1>2, <1>4, <2>1 DEF Postgres!Load, Postgres!LoadDocument, Postgres!database,
       Postgres!stored, Postgres!Labels
  <2>2. CASE Postgres!LoadMutation(a) /\ Postgres!Release(a)
    BY <1>0, <1>2, <1>4, <2>2 DEF Postgres!Load, Postgres!LoadMutation, Postgres!database,
       Postgres!stored, Postgres!Labels
  <2>3. CASE Postgres!Refuse(a, {"load", "lookup"}) /\ Postgres!Release(a)
    BY <1>3, <1>4, <2>3, AnswersAreAnswers DEF Postgres!Load, Postgres!Refuse, Postgres!database,
       Postgres!stored
  <2> QED
    BY <1>4, <2>1, <2>2, <2>3 DEF Postgres!Load
<1>5. ASSUME NEW a \in Clients, Postgres!Run(a)
      PROVE  Postgres!TypeOK' /\ IsFiniteSet(connected)'
  <2>0. UNCHANGED <<Postgres!database, session, holder, connected, wrote, failure>>
    BY <1>5 DEF Postgres!Run, Postgres!database, Postgres!mine
  <2>1. CASE Postgres!RunReplay(a)
    <3>1. found[a] # NoMutation => found[a].snapshot \in Snapshots
      BY <1>0, SameWords DEF Postgres!SharedTypeOK, Postgres!Mutations
    <3> QED
      BY <1>3, <2>0, <2>1, <3>1, AnswersAreAnswers DEF Postgres!RunReplay, Postgres!stored
  <2>2. CASE Postgres!RunConflict(a) \/ Postgres!Refuse(a, {"run"})
    BY <1>3, <2>0, <2>2, AnswersAreAnswers DEF Postgres!RunConflict, Postgres!Refuse, Postgres!stored
  <2>3. ASSUME NEW doc \in Documents, Postgres!RunStage(a, doc, "connect")
        PROVE  Postgres!TypeOK' /\ IsFiniteSet(connected)'
    <3>1. [revision |-> view[a].revision + 1, doc |-> doc] \in Snapshots
      BY <1>0, SameWords DEF Postgres!SharedTypeOK, Snapshots
    <3> QED
      BY <1>2, <2>0, <2>3, <3>1 DEF Postgres!RunStage, Postgres!stored, Postgres!Labels
  <2> QED
    BY <1>5, <2>1, <2>2, <2>3 DEF Postgres!Run
<1>6. ASSUME NEW a \in Clients, NEW value \in Answers, Postgres!Throw(a, value), pc[a] # "idle"
      PROVE  Postgres!TypeOK' /\ IsFiniteSet(connected)'
  BY <1>2, <1>6 DEF Postgres!Throw, Postgres!stored, Postgres!database, Postgres!Labels
<1>7. ASSUME NEW a \in Clients, Postgres!Begin(a) \/ Postgres!Lock(a) \/ Postgres!Dispatch(a)
      PROVE  Postgres!TypeOK' /\ IsFiniteSet(connected)'
  <2>1. CASE Postgres!Begin(a)
    BY <1>2, <2>1 DEF Postgres!Begin, Postgres!stored, Postgres!Labels
  <2>2. CASE Postgres!Lock(a)
    BY <1>2, <2>2 DEF Postgres!Lock, Postgres!stored, Postgres!mine, Postgres!Labels
  <2>3. CASE Postgres!Dispatch(a)
    BY <1>2, <2>3 DEF Postgres!Dispatch, Postgres!stored, Postgres!mine, Postgres!Labels
  <2> QED
    BY <1>7, <2>1, <2>2, <2>3
<1>8. ASSUME NEW a \in Clients, Postgres!Find(a)
      PROVE  Postgres!TypeOK' /\ IsFiniteSet(connected)'
  <2>1. staged[a] \in Snapshots
    BY <1>0, <1>8 DEF Postgres!Find, InSession
  <2>2. \A previous : Postgres!Verified(a, previous) \in Answers
    BY <2>1, AnswersAreAnswers DEF Postgres!Verified
  <2>3. CASE \E value \in Answers : Postgres!Throw(a, value)
    BY <1>6, <1>8, <2>3 DEF Postgres!Find
  <2>4. CASE ~\E value \in Answers : Postgres!Throw(a, value)
    <3>1. \E label \in {"write", "dispatch"} :
            /\ Postgres!Goto(a, label)
            /\ UNCHANGED <<row, mutations, request, view, found, staged, answer, session, holder,
                           connected, wrote, failure>>
      BY <1>8, <2>2, <2>4 DEF Postgres!Find, Postgres!stored, Postgres!database, Postgres!mine
    <3> QED
      BY <1>2, <1>8, <3>1 DEF Postgres!Labels, Postgres!Find
  <2> QED
    BY <2>3, <2>4
<1>9. ASSUME NEW a \in Clients, Postgres!Write(a)
      PROVE  Postgres!TypeOK' /\ IsFiniteSet(connected)'
  <2>1. CASE Postgres!Throw(a, Postgres!Answered("conflict"))
    BY <1>6, <1>9, <2>1, AnswersAreAnswers DEF Postgres!Write
  <2>2. CASE ~Postgres!Throw(a, Postgres!Answered("conflict"))
    BY <1>2, <1>9, <2>2 DEF Postgres!Write, Postgres!stored, Postgres!database, Postgres!Labels
  <2> QED
    BY <2>1, <2>2
<1>10. ASSUME NEW a \in Clients, Postgres!Fail(a) \/ Postgres!CommitFails(a)
       PROVE  Postgres!TypeOK' /\ IsFiniteSet(connected)'
  BY <1>6, <1>10, AnswersAreAnswers DEF Postgres!Fail, Postgres!CommitFails
<1>11. ASSUME NEW a \in Clients, Postgres!CommitReturns(a) \/ Postgres!Crash(a)
       PROVE  Postgres!TypeOK' /\ IsFiniteSet(connected)'
  <2>1. CASE Postgres!CommitReturns(a)
    <3>1. staged[a] \in Snapshots
      BY <1>0, <2>1 DEF Postgres!CommitReturns, InSession
    <3> QED
      BY <1>3, <2>1, <3>1, AnswersAreAnswers DEF Postgres!CommitReturns, Postgres!stored
  <2>2. CASE Postgres!Crash(a)
    BY <1>3, <2>2, AnswersAreAnswers DEF Postgres!Crash, Postgres!stored
  <2> QED
    BY <1>11, <2>1, <2>2
<1>12. ASSUME NEW a \in Clients, Postgres!Rollback(a) \/ Postgres!RollbackFails(a)
       PROVE  Postgres!TypeOK' /\ IsFiniteSet(connected)'
  <2>1. failure[a] \in Answers
    BY <1>0, SameWords DEF Postgres!TypeOK
  <2> QED
    BY <1>3, <1>12, <2>1, AnswersAreAnswers
       DEF Postgres!Rollback, Postgres!RollbackFails, Postgres!stored
<1>13. ASSUME NEW a \in Clients, Postgres!Server(a)
       PROVE  Postgres!TypeOK' /\ IsFiniteSet(connected)'
  <2>1. /\ session' \in [Clients -> {"none", "open", "sent", "committed", "aborted"}]
        /\ holder' \in Clients \cup {NoHolder}
        /\ UNCHANGED <<pc, request, view, found, staged, answer, connected, wrote, failure>>
    BY <1>0, <1>13 DEF Postgres!TypeOK, Postgres!Server, Postgres!Commit, Postgres!ServerAborts,
       Postgres!EndSession, Postgres!local, Postgres!mine
  <2>2. /\ row' \in Snapshots \cup {NoRow}
        /\ mutations' \in [MutationIds -> Postgres!Mutations \cup {NoMutation}]
    <3>1. CASE UNCHANGED <<row, mutations>>
      BY <1>0, <3>1, SameWords DEF Postgres!SharedTypeOK
    <3>2. CASE Postgres!Commit(a) /\ ~UNCHANGED <<row, mutations>>
      <4>1. /\ session[a] = "sent" /\ row' = staged[a]
            /\ mutations' = [mutations EXCEPT ![request[a].id] = Postgres!Entry(a)]
        BY <3>2 DEF Postgres!Commit, Postgres!stored
      <4>2. staged[a] \in Snapshots /\ pc[a] # "idle"
        BY <1>0, <4>1 DEF InSession
      <4>3. request[a] \in Requests /\ request[a].id \in MutationIds
        BY <1>0, <4>2, CallIsTyped
      <4>4. Postgres!Entry(a) \in Postgres!Mutations
        BY <4>2, <4>3, SameWords, RequestsAssumption DEF Postgres!Entry, Postgres!Mutations,
           Postgres!Fingerprint, Postgres!Fingerprints, Fingerprints
      <4> QED
        BY <1>0, <4>1, <4>2, <4>4 DEF Postgres!SharedTypeOK
    <3> QED
      BY <1>13, <3>1, <3>2 DEF Postgres!Server, Postgres!ServerAborts, Postgres!stored
  <2> QED
    BY <1>0, <1>p, <2>1, <2>2, SameWords DEF Postgres!TypeOK, Postgres!SharedTypeOK
<1> QED
  BY <1>1, <1>4, <1>5, <1>7, <1>8, <1>9, <1>10, <1>11, <1>12, <1>13
     DEF Postgres!Next, Postgres!Step, Postgres!Persist

\* What holds of a call, what leaves it so, and who is recorded.
Steady(a) == InSession(a) /\ Covered(a) /\ Informed(a)

SameFor(b) ==
  /\ pc'[b] = pc[b] /\ request'[b] = request[b] /\ view'[b] = view[b] /\ found'[b] = found[b]
  /\ staged'[b] = staged[b] /\ answer'[b] = answer[b] /\ session'[b] = session[b]
  /\ wrote'[b] = wrote[b] /\ failure'[b] = failure[b]

\* A call is not disturbed by what another does, not even by its write: whoever
\* writes holds the lock, so nobody else counts on the tables as they were.
LEMMA OthersUndisturbed ==
  ASSUME PostgresInv, NEW b \in Clients, SameFor(b),
         \/ UNCHANGED <<row, mutations>> /\ (holder = b => holder' = b)
         \/ \E a \in Clients \ {b} : Records(a) /\ holder = a
  PROVE  Steady(b)'
<1>0. InSession(b) /\ Covered(b) /\ Informed(b) /\ Common /\ b \in Serving
  BY DEF PostgresInv, Postgres!TypeOK, Serving
<1>1. InSession(b)'
  BY <1>0 DEF InSession, SameFor
<1>2. CASE UNCHANGED <<row, mutations>> /\ (holder = b => holder' = b)
  <2>1. Now' = Now /\ Current(row)' = Current(row)
    BY <1>2 DEF Now, Current
  <2>2. Covered(b)'
    BY <1>0, <1>2 DEF Covered, SameFor, Admits
  <2>3. Informed(b)'
    BY <1>0, <1>2, <2>1 DEF Informed, SameFor, Stands
  <2> QED
    BY <1>1, <2>2, <2>3 DEF Steady
<1>3. CASE \E a \in Clients \ {b} : Records(a) /\ holder = a
  <2>1. PICK a \in Clients \ {b} : Records(a) /\ holder = a
    BY <1>3
  <2>2. /\ Now \in Nat /\ Now' = Now + 1
        /\ \A id \in MutationIds : mutations[id] # NoMutation =>
              mutations'[id] = mutations[id] /\ mutations'[id] # NoMutation
    BY <1>0, <2>1, RecordedAtNext, SameWords DEF Common, Recorded
  <2>3. /\ pc[b] # "idle" => request[b].id \in MutationIds /\ request[b].expected \in Nat
        /\ view[b].revision \in Nat
    BY <1>0, CallIsTyped, SameWords DEF PostgresInv, Postgres!TypeOK, Postgres!SharedTypeOK, Snapshots
  <2>4. Covered(b)'
    BY <1>0, <2>1 DEF Covered, SameFor
  <2>5. /\ session[b] # "none" => pc[b] # "idle"
        /\ Stands(b) /\ pc[b] # "idle" => Stands(b)'
    BY <1>0, <2>2, <2>3 DEF InSession, Stands, SameFor
  <2>6. Informed(b)'
    BY <1>0, <2>2, <2>3, <2>5 DEF Informed, SameFor
  <2> QED
    BY <1>1, <2>4, <2>6 DEF Steady
<1> QED
  BY <1>2, <1>3

\* A call that nothing is recorded for: it has not written, or not committed.
LEMMA NotTheWriter ==
  ASSUME PostgresInv, NEW a \in Clients, ~wrote[a] \/ session[a] # "committed"
  PROVE  \A id \in Recorded : mutations[id].token # a
BY DEF PostgresInv

\* What verifyWrite says of the recorded mutation is so.
LEMMA VerifiedIsTrue ==
  ASSUME PostgresInv, NEW a \in Clients, pc[a] = "find",
         mutations[request[a].id] # NoMutation
  PROVE  LET verified == Postgres!Verified(a, mutations[request[a].id])
         IN  \/ verified.status = "saved" /\ Stands(a)
             \/ verified = Answered("conflict") /\ request[a].expected < Now
             \/ /\ verified = Answered("collision")
                /\ mutations[request[a].id].fingerprint # Fingerprint(request[a])
<1> DEFINE id == request[a].id
           previous == mutations[id]
           verified == Postgres!Verified(a, previous)
<1>0. /\ Common /\ Tables /\ a \in Serving /\ pc[a] # "idle" /\ id \in Recorded
  BY CallIsTyped DEF PostgresInv, Postgres!TypeOK, Serving, Common, Recorded
<1>1. CASE previous.fingerprint # Fingerprint(request[a])
  <2>1. verified = Answered("collision")
    BY <1>1 DEF Postgres!Verified, Postgres!Fingerprint, Fingerprint, Postgres!Answered, Answered
  <2> QED
    BY <1>1, <2>1
<1>2. CASE previous.fingerprint = Fingerprint(request[a]) /\ previous.snapshot # staged[a]
  <2>1. verified = Answered("conflict")
    BY <1>2 DEF Postgres!Verified, Postgres!Fingerprint, Fingerprint, Postgres!Answered, Answered
  <2>2. previous.snapshot.revision = request[a].expected + 1
    <3>1. WriterOf(id)
      BY <1>0 DEF Common
    <3> QED
      BY <1>2, <3>1 DEF WriterOf, Fingerprint
  <2>3. previous.snapshot.revision \in 1..Now
    BY <1>0 DEF Tables, HistoryMatchesRow, Now
  <2> QED
    BY <1>0, <2>1, <2>2, <2>3, CallIsTyped
<1>3. CASE previous.fingerprint = Fingerprint(request[a]) /\ previous.snapshot = staged[a]
  <2>1. verified = Postgres!Saved(staged[a])
    BY <1>3 DEF Postgres!Verified, Postgres!Fingerprint, Fingerprint
  <2> QED
    BY <1>3, <2>1 DEF Postgres!Saved, Stands
<1> QED
  BY <1>1, <1>2, <1>3

\* What PostgreSQL does between a call and its answer keeps the invariant, and
\* the log sees nothing of it.
LEMMA ClientMoves ==
  ASSUME PostgresInv, NEW a \in Clients, NEW label, Goto(a, label),
         pc[a] \notin {"idle", "done"}, label \notin {"idle", "done"},
         UNCHANGED <<row, mutations, request, answer>>,
         \A b \in Clients \ {a} : SameFor(b),
         holder' = holder \/ holder = NoHolder,
         staged'[a] = staged[a] \/ session[a] # "committed",
         session[a] = "committed" => session'[a] = "committed",
         wrote[a] => wrote'[a],
         Steady(a)'
  PROVE  /\ Common' /\ UNCHANGED Promise!vars
         /\ \A b \in Clients : Steady(b)'
         /\ \A id \in Recorded' : wrote'[mutations'[id].token] /\ session'[mutations'[id].token] = "committed"
<1>0. Common /\ Serving = Clients
  BY DEF PostgresInv, Postgres!TypeOK, Serving
<1>1. Common'
  BY <1>0, CommonMoved, NotTheWriter DEF SameFor
<1>2. UNCHANGED Promise!vars
  BY Unheard DEF Goto
<1>3. \A b \in Clients : Steady(b)'
  BY OthersUndisturbed, SameWords
<1>4. \A id \in Recorded' : wrote'[mutations'[id].token] /\ session'[mutations'[id].token] = "committed"
  <2>1. Recorded' = Recorded /\ \A id \in Recorded : mutations[id].token \in Clients
    BY <1>0 DEF Recorded, Common, WriterOf
  <2> QED
    BY <2>1 DEF SameFor, PostgresInv
<1> QED
  BY <1>1, <1>2, <1>3, <1>4

\* What it does when it answers keeps the invariant.
LEMMA ClientSettles ==
  ASSUME PostgresInv, NEW a \in Clients, NEW value \in Answers, Settle(a, value),
         pc[a] \notin {"idle", "done"},
         UNCHANGED <<row, mutations, wrote, failure>>,
         \/ UNCHANGED <<session, holder>>
         \/ session[a] = "open" /\ Postgres!EndSession(a, "aborted"),
         wrote[a] /\ session'[a] \in {"open", "sent"} => value.status \in InDoubt
  PROVE  /\ Common'
         /\ \A b \in Clients : Steady(b)'
         /\ \A id \in Recorded' : wrote'[mutations'[id].token] /\ session'[mutations'[id].token] = "committed"
<1>0. /\ Common /\ Serving = Clients /\ Postgres!TypeOK /\ Postgres!SharedTypeOK
      /\ InSession(a) /\ Covered(a) /\ Informed(a)
  BY DEF PostgresInv, Postgres!TypeOK, Serving
<1>1. /\ pc' = [pc EXCEPT ![a] = "done"] /\ answer' = [answer EXCEPT ![a] = value]
      /\ UNCHANGED <<request, view, found, staged>>
      /\ \A b \in Clients \ {a} : SameFor(b)
  BY <1>0 DEF Settle, Goto, SameFor, Postgres!EndSession, Postgres!TypeOK, Postgres!SharedTypeOK
<1>2. /\ \/ session'[a] = session[a] /\ holder' = holder
         \/ session[a] = "open" /\ session'[a] = "aborted"
      /\ \A b \in Clients \ {a} : holder = b => holder' = b
  <2>1. CASE UNCHANGED <<session, holder>>
    BY <2>1
  <2>2. CASE session[a] = "open" /\ Postgres!EndSession(a, "aborted")
    BY <1>0, <2>2 DEF Postgres!EndSession, Postgres!TypeOK
  <2> QED
    BY <2>1, <2>2
<1>3. Common'
  BY <1>0, CommonSettled DEF stored
<1>4. Steady(a)'
  <2>1. pc'[a] = "done" /\ answer'[a] = value
    BY <1>0, <1>1 DEF Postgres!TypeOK, Postgres!SharedTypeOK
  <2>2. InSession(a)'
    BY <1>0, <1>1, <1>2, <2>1 DEF InSession
  <2>3. Covered(a)'
    BY <1>0, <1>1, <1>2, <2>1 DEF Covered, Admits
  <2>4. Informed(a)'
    BY <1>0, <1>1, <1>2, <2>1 DEF Informed, Stands
  <2> QED
    BY <2>2, <2>3, <2>4 DEF Steady
<1>5. \A b \in Clients : Steady(b)'
  BY <1>1, <1>2, <1>4, OthersUndisturbed
<1>6. \A id \in Recorded' : wrote'[mutations'[id].token] /\ session'[mutations'[id].token] = "committed"
  <2>1. Recorded' = Recorded /\ \A id \in Recorded : mutations[id].token \in Clients
    BY <1>0 DEF Recorded, Common, WriterOf
  <2> QED
    BY <1>1, <1>2, <2>1 DEF SameFor, PostgresInv
<1> QED
  BY <1>3, <1>5, <1>6

Recording ==
  \A id \in Recorded : wrote[mutations[id].token] /\ session[mutations[id].token] = "committed"

\* Each step of a client keeps the invariant, and is a step of the log or none.
LEMMA ClientStep ==
  ASSUME PostgresInv, NEW a \in Clients,
         Postgres!Load(a) \/ Postgres!Run(a) \/ Postgres!Persist(a) \/ Postgres!Crash(a)
  PROVE  /\ Common' /\ (\A b \in Clients : Steady(b)') /\ Recording'
         /\ [Promise!Next]_(Promise!vars)
<1> USE AbsentAssumption
<1> DEFINE Goal == /\ Common' /\ (\A b \in Clients : Steady(b)') /\ Recording'
                   /\ [Promise!Next]_(Promise!vars)
<1>0. /\ Common /\ Tables /\ Postgres!TypeOK /\ Postgres!SharedTypeOK /\ Serving = Clients
      /\ InSession(a) /\ Covered(a) /\ Informed(a) /\ Now \in Nat
      /\ Clients \subseteq Attempts
  BY NowIsNat, SameWords DEF PostgresInv, Postgres!TypeOK, Common, Serving
<1>t. pc[a] # "idle" =>
        /\ request[a] \in Requests /\ request[a].id \in MutationIds /\ request[a].expected \in Nat
        /\ request[a].expected <= Now
  BY <1>0, CallIsTyped
<1>m. ASSUME NEW label, Goto(a, label), pc[a] \notin {"idle", "done"}, label \notin {"idle", "done"},
             UNCHANGED <<row, mutations, request, answer>>,
             \A b \in Clients \ {a} : SameFor(b),
             holder' = holder \/ holder = NoHolder,
             staged'[a] = staged[a] \/ session[a] # "committed",
             session[a] = "committed" => session'[a] = "committed",
             wrote[a] => wrote'[a],
             Steady(a)'
      PROVE  Goal
  BY <1>m, ClientMoves DEF Recording
<1>s. ASSUME NEW value \in Answers, Settle(a, value), pc[a] \notin {"idle", "done"},
             UNCHANGED <<row, mutations, wrote, failure>>,
             \/ UNCHANGED <<session, holder>>
             \/ session[a] = "open" /\ Postgres!EndSession(a, "aborted"),
             wrote[a] /\ session'[a] \in {"open", "sent"} => value.status \in InDoubt,
             Promise!Next
      PROVE  Goal
  BY <1>s, ClientSettles DEF Recording
<1>a. \A status \in {"conflict", "collision", "refused", "unknown", "lost"} :
         Answered(status) \in Answers /\ Answered(status).status = status
  BY DEF Answers, Answered
<1>b. \A snapshot \in Snapshots : Saved(snapshot) \in Answers
  BY DEF Saved, Snapshots, Answers
<1>l. ASSUME NEW status \in {"unknown", "lost"}, Settle(a, Answered(status)),
             pc[a] \notin {"idle", "done"}, UNCHANGED <<row, mutations, wrote, failure>>,
             \/ UNCHANGED <<session, holder>>
             \/ session[a] = "open" /\ Postgres!EndSession(a, "aborted")
      PROVE  Goal
  <2>1. Promise!Lose(a, status)
    BY <1>0, <1>l, LostAnswer DEF stored
  <2>2. Promise!Next
    BY <1>0, <1>l, <2>1 DEF Promise!Next
  <2> QED
    BY <1>a, <1>l, <1>s, <2>2 DEF InDoubt
<1>r. ASSUME Settle(a, Answered("refused")),
             pc[a] \notin {"idle", "done"}, UNCHANGED <<row, mutations, wrote, failure>>,
             \/ UNCHANGED <<session, holder>>
             \/ session[a] = "open" /\ Postgres!EndSession(a, "aborted"),
             ~wrote[a] \/ session[a] # "committed",
             wrote[a] => session'[a] \notin {"open", "sent"}
      PROVE  Goal
  <2>1. Promise!Refuse(a)
    BY <1>0, <1>r, NotTheWriter, RefusedAnswer DEF stored
  <2> QED
    BY <1>0, <1>a, <1>r, <1>s, <2>1 DEF Promise!Next
<1>c. ASSUME Settle(a, Answered("conflict")), request[a].expected < Now,
             pc[a] \notin {"idle", "done"}, UNCHANGED <<row, mutations, wrote, failure>>,
             \/ UNCHANGED <<session, holder>>
             \/ session[a] = "open" /\ Postgres!EndSession(a, "aborted"),
             ~wrote[a] \/ session[a] # "committed",
             wrote[a] => session'[a] \notin {"open", "sent"}
      PROVE  Goal
  <2>1. Promise!Conflict(a)
    BY <1>0, <1>c, NotTheWriter, RefusedAnswer DEF stored
  <2> QED
    BY <1>0, <1>a, <1>c, <1>s, <2>1 DEF Promise!Next
<1>d. ASSUME Settle(a, Answered("collision")), mutations[request[a].id] # NoMutation,
             mutations[request[a].id].fingerprint # Fingerprint(request[a]),
             pc[a] \notin {"idle", "done"}, UNCHANGED <<row, mutations, wrote, failure>>,
             \/ UNCHANGED <<session, holder>>
             \/ session[a] = "open" /\ Postgres!EndSession(a, "aborted"),
             wrote[a] => session'[a] \notin {"open", "sent"}
      PROVE  Goal
  <2>1. Promise!Collide(a)
    BY <1>0, <1>d, RecordedAnswer DEF stored
  <2> QED
    BY <1>0, <1>a, <1>d, <1>s, <2>1 DEF Promise!Next
<1>k. ASSUME mutations[request[a].id] # NoMutation,
             mutations[request[a].id].fingerprint = Fingerprint(request[a]),
             Settle(a, Saved(mutations[request[a].id].snapshot)),
             mutations[request[a].id].snapshot \in Snapshots,
             pc[a] \notin {"idle", "done"}, UNCHANGED <<row, mutations, wrote, failure>>,
             UNCHANGED <<session, holder>>, session[a] \notin {"open", "sent"}
      PROVE  Goal
  <2>1. Promise!Acknowledge(a)
    BY <1>0, <1>k, RecordedAnswer DEF stored
  <2> QED
    BY <1>0, <1>b, <1>k, <1>s, <2>1 DEF Promise!Next
<1>f. ASSUME Settle(a, failure[a]), pc[a] = "rollback",
             UNCHANGED <<row, mutations, wrote, failure>>,
             \/ UNCHANGED <<session, holder>>
             \/ session[a] = "open" /\ Postgres!EndSession(a, "aborted"),
             ~wrote[a] \/ session[a] # "committed",
             wrote[a] => session'[a] \notin {"open", "sent"}
      PROVE  Goal
  BY <1>0, <1>c, <1>d, <1>f, <1>r DEF Informed
<1>1. CASE Postgres!Load(a)
  <2>1. CASE Postgres!LoadDocument(a)
    <3>1. /\ Goto(a, "lookup") /\ pc[a] = "load" /\ view' = [view EXCEPT ![a] = Current(row)]
          /\ UNCHANGED <<row, mutations, request, found, staged, answer, session, holder, wrote,
                         failure>>
      BY <1>1, <2>1 DEF Postgres!Load, Postgres!LoadDocument, Postgres!Goto, Postgres!Current,
         Postgres!stored, Postgres!database, Goto, Current
    <3>2. Steady(a)'
      BY <1>0, <1>t, <3>1 DEF Steady, InSession, Covered, Informed, Goto, Postgres!TypeOK,
         Postgres!SharedTypeOK, Now, Current
    <3>s. \A b \in Clients \ {a} : SameFor(b)
      BY <1>0, <3>1 DEF SameFor, Goto, Postgres!TypeOK, Postgres!SharedTypeOK
    <3> QED
      BY <1>m, <3>1, <3>2, <3>s
  <2>2. CASE Postgres!LoadMutation(a)
    <3>1. /\ Goto(a, "run") /\ pc[a] = "lookup"
          /\ found' = [found EXCEPT ![a] = mutations[request[a].id]]
          /\ UNCHANGED <<row, mutations, request, view, staged, answer, session, holder, wrote,
                         failure>>
      BY <1>1, <2>2 DEF Postgres!Load, Postgres!LoadMutation, Postgres!Goto,
         Postgres!stored, Postgres!database, Goto
    <3>2. Steady(a)'
      BY <1>0, <1>t, <3>1 DEF Steady, InSession, Covered, Informed, Goto, Postgres!TypeOK,
         Postgres!SharedTypeOK, Now, Current
    <3>s. \A b \in Clients \ {a} : SameFor(b)
      BY <1>0, <3>1 DEF SameFor, Goto, Postgres!TypeOK, Postgres!SharedTypeOK
    <3> QED
      BY <1>m, <3>1, <3>2, <3>s
  <2>3. CASE Postgres!Refuse(a, {"load", "lookup"})
    <3>1. /\ Settle(a, Answered("refused")) /\ pc[a] \in {"load", "lookup"}
          /\ UNCHANGED <<row, mutations, session, holder, wrote, failure>>
      BY <1>1, <2>3 DEF Postgres!Load, Postgres!Refuse, Postgres!Settle, Postgres!Goto,
         Postgres!Answered, Postgres!stored, Postgres!database, Settle, Goto, Answered
    <3> QED
      BY <1>0, <1>r, <3>1 DEF InSession
  <2> QED
    BY <1>1, <2>1, <2>2, <2>3 DEF Postgres!Load
<1>2. CASE Postgres!Run(a)
  <2>0. /\ pc[a] = "run" /\ session[a] = "none" /\ ~wrote[a]
        /\ UNCHANGED <<row, mutations, session, holder, wrote, failure>>
    BY <1>0, <1>2 DEF Postgres!Run, Postgres!RunReplay, Postgres!RunConflict, Postgres!RunStage,
       Postgres!Refuse, Postgres!stored, Postgres!database, Postgres!mine, InSession
  <2>1. CASE Postgres!RunReplay(a)
    <3>1. /\ found[a] # NoMutation
          /\ Settle(a, IF found[a].fingerprint = Fingerprint(request[a])
                       THEN Saved(found[a].snapshot) ELSE Answered("collision"))
      BY <2>1 DEF Postgres!RunReplay, Postgres!Settle, Postgres!Goto, Postgres!Saved,
         Postgres!Answered, Postgres!Fingerprint, Settle, Goto, Saved, Answered, Fingerprint
    <3>2. mutations[request[a].id] = found[a] /\ found[a].snapshot \in Snapshots
      BY <1>0, <2>0, <3>1, SameWords DEF Informed, Postgres!SharedTypeOK, Mutations
    <3> QED
      BY <1>d, <1>k, <2>0, <3>1, <3>2
  <2>2. CASE Postgres!RunConflict(a)
    <3>1. /\ Settle(a, Answered("conflict")) /\ view[a].revision # request[a].expected
      BY <2>2 DEF Postgres!RunConflict, Postgres!Settle, Postgres!Goto, Postgres!Answered,
         Settle, Goto, Answered
    <3>2. request[a].expected < Now
      <4>1. view[a].revision \in Nat
        BY <1>0, SameWords DEF Postgres!SharedTypeOK, Snapshots
      <4> QED
        BY <1>0, <1>t, <2>0, <3>1, <4>1 DEF Informed
    <3> QED
      BY <1>c, <2>0, <3>1, <3>2
  <2>3. CASE Postgres!Refuse(a, {"run"})
    <3>1. Settle(a, Answered("refused"))
      BY <2>3 DEF Postgres!Refuse, Postgres!Settle, Postgres!Goto, Postgres!Answered,
         Settle, Goto, Answered
    <3> QED
      BY <1>r, <2>0, <3>1
  <2>4. ASSUME NEW doc \in Documents, Postgres!RunStage(a, doc, "connect")
        PROVE  Goal
    <3> DEFINE snapshot == [revision |-> view[a].revision + 1, doc |-> doc]
    <3>1. /\ Goto(a, "connect") /\ view[a].revision = request[a].expected
          /\ staged' = [staged EXCEPT ![a] = snapshot]
          /\ UNCHANGED <<request, view, found, answer>>
      BY <2>4 DEF Postgres!RunStage, Postgres!Goto, Goto
    <3>2. snapshot \in Snapshots /\ snapshot.revision = request[a].expected + 1
      BY <1>0, <3>1, SameWords DEF Postgres!SharedTypeOK, Snapshots
    <3>3. staged'[a] = snapshot /\ pc'[a] = "connect"
      BY <1>0, <3>1 DEF Postgres!TypeOK, Postgres!SharedTypeOK, Goto
    <3>4. Steady(a)'
      BY <1>0, <2>0, <3>1, <3>2, <3>3 DEF Steady, InSession, Covered, Informed
    <3>s. \A b \in Clients \ {a} : SameFor(b)
      BY <1>0, <2>0, <3>1 DEF SameFor, Goto, Postgres!TypeOK, Postgres!SharedTypeOK
    <3> QED
      BY <1>m, <2>0, <3>1, <3>4, <3>s
  <2> QED
    BY <1>2, <2>1, <2>2, <2>3, <2>4 DEF Postgres!Run
<1>3. CASE Postgres!Begin(a)
  <2>1. /\ Goto(a, "lock") /\ pc[a] = "connect" /\ session' = [session EXCEPT ![a] = "open"]
        /\ UNCHANGED <<row, mutations, request, view, found, staged, answer, holder, wrote, failure>>
    BY <1>3 DEF Postgres!Begin, Postgres!Goto, Postgres!stored, Goto
  <2>2. Steady(a)'
    BY <1>0, <2>1 DEF Steady, InSession, Covered, Informed, Goto, Postgres!TypeOK
  <2>s. \A b \in Clients \ {a} : SameFor(b)
    BY <1>0, <2>1 DEF SameFor, Goto, Postgres!TypeOK, Postgres!SharedTypeOK
  <2>i. session[a] # "committed"
    BY <1>0, <2>1 DEF InSession
  <2> QED
    BY <1>m, <2>1, <2>2, <2>s, <2>i
<1>4. CASE Postgres!Lock(a)
  <2>1. /\ Goto(a, "find") /\ pc[a] = "lock" /\ holder = NoHolder /\ holder' = a
        /\ UNCHANGED <<row, mutations, request, view, found, staged, answer, session, wrote, failure>>
    BY <1>4 DEF Postgres!Lock, Postgres!Goto, Postgres!stored, Postgres!mine, Goto
  <2>2. Steady(a)'
    BY <1>0, <2>1 DEF Steady, InSession, Covered, Informed, Goto, Postgres!TypeOK, Stands
  <2>s. \A b \in Clients \ {a} : SameFor(b)
    BY <1>0, <2>1 DEF SameFor, Goto, Postgres!TypeOK, Postgres!SharedTypeOK
  <2> QED
    BY <1>m, <2>1, <2>2, <2>s
<1>5. ASSUME NEW value, Postgres!Throw(a, value), pc[a] \in {"lock", "find", "write", "dispatch", "commit"},
             \/ value = Answered("refused")
             \/ value = Answered("conflict") /\ request[a].expected < Now
             \/ /\ value = Answered("collision") /\ mutations[request[a].id] # NoMutation
                /\ mutations[request[a].id].fingerprint # Fingerprint(request[a])
      PROVE  Goal
  <2>1. /\ Goto(a, "rollback") /\ failure' = [failure EXCEPT ![a] = value]
        /\ UNCHANGED <<row, mutations, request, view, found, staged, answer, session, holder, wrote>>
    BY <1>5 DEF Postgres!Throw, Postgres!Goto, Postgres!stored, Postgres!database, Goto
  <2>2. /\ pc'[a] = "rollback" /\ failure'[a] = value /\ Now' = Now
    BY <1>0, <2>1 DEF Goto, Postgres!TypeOK, Now, Current
  <2>3. InSession(a)' /\ Covered(a)'
    BY <1>0, <1>5, <2>1, <2>2 DEF InSession, Covered, Admits
  <2>4. Informed(a)'
    BY <1>0, <1>5, <2>1, <2>2 DEF Informed, Stands
  <2>s. \A b \in Clients \ {a} : SameFor(b)
    BY <1>0, <2>1 DEF SameFor, Goto, Postgres!TypeOK, Postgres!SharedTypeOK
  <2> QED
    BY <1>5, <1>m, <2>1, <2>3, <2>4, <2>s DEF Steady
<1>6. CASE Postgres!Find(a)
  <2> DEFINE previous == mutations[request[a].id]
             verified == Postgres!Verified(a, previous)
  <2>1. CASE previous # NoMutation /\ verified.status # "saved"
    <3>1. pc[a] = "find" /\ Postgres!Throw(a, verified)
      BY <1>6, <2>1 DEF Postgres!Find
    <3> QED
      BY <1>5, <2>1, <3>1, VerifiedIsTrue
  <2>2. CASE ~(previous # NoMutation /\ verified.status # "saved")
    <3> DEFINE label == IF previous = NoMutation THEN "write" ELSE "dispatch"
    <3>1. /\ pc[a] = "find" /\ Goto(a, label)
          /\ UNCHANGED <<row, mutations, request, view, found, staged, answer, session, holder,
                         wrote, failure>>
      BY <1>6, <2>2 DEF Postgres!Find, Postgres!Goto, Postgres!stored, Postgres!database, Postgres!mine,
         Goto
    <3>2. previous # NoMutation => Stands(a)
      BY <1>a, <2>2, <3>1, VerifiedIsTrue
    <3>3. pc'[a] = label
      BY <1>0, <3>1 DEF Goto, Postgres!TypeOK
    <3>4. Steady(a)'
      BY <1>0, <3>1, <3>2, <3>3 DEF Steady, InSession, Covered, Informed, Stands, Admits
    <3>s. \A b \in Clients \ {a} : SameFor(b)
      BY <1>0, <3>1 DEF SameFor, Goto, Postgres!TypeOK, Postgres!SharedTypeOK
    <3> QED
      BY <1>m, <3>1, <3>4, <3>s
  <2> QED
    BY <2>1, <2>2
<1>7. CASE Postgres!Write(a)
  <2>0. pc[a] = "write" /\ (Postgres!Admits(row, request[a].expected) <=> request[a].expected = Now)
    BY <1>0, <1>7, <1>t, AdmitsNow DEF Postgres!Write, Postgres!Admits, Admits
  <2>1. CASE request[a].expected = Now
    <3>1. /\ Goto(a, "dispatch") /\ wrote' = [wrote EXCEPT ![a] = TRUE]
          /\ UNCHANGED <<row, mutations, request, view, found, staged, answer, session, holder, failure>>
      BY <1>7, <2>0, <2>1 DEF Postgres!Write, Postgres!Goto, Postgres!stored, Postgres!database, Goto
    <3>2. Admits(row, request[a].expected) /\ answer[a].status \in InDoubt
      BY <1>0, <1>t, <2>0, <2>1, AdmitsNow
         DEF Common, CallsInOrder, Pending, Answered, InDoubt
    <3>3. pc'[a] = "dispatch" /\ wrote'[a]
      BY <1>0, <3>1 DEF Goto, Postgres!TypeOK
    <3>4. Steady(a)'
      BY <1>0, <2>0, <3>1, <3>2, <3>3 DEF Steady, InSession, Covered, Informed, Admits, Stands
    <3> QED
      BY <1>0, <1>m, <2>0, <3>1, <3>3, <3>4 DEF SameFor, Goto, Postgres!TypeOK
  <2>2. CASE request[a].expected # Now
    <3>1. Postgres!Throw(a, Answered("conflict")) /\ request[a].expected < Now
      BY <1>0, <1>7, <1>t, <2>0, <2>2 DEF Postgres!Write, Postgres!Answered, Answered
    <3> QED
      BY <1>5, <2>0, <3>1
  <2> QED
    BY <2>1, <2>2
<1>8. CASE Postgres!Fail(a) \/ Postgres!CommitFails(a)
  BY <1>5, <1>8 DEF Postgres!Fail, Postgres!CommitFails, Postgres!Answered, Answered
<1>9. CASE Postgres!Dispatch(a)
  <2>1. /\ Goto(a, "commit") /\ pc[a] = "dispatch" /\ session' = [session EXCEPT ![a] = "sent"]
        /\ UNCHANGED <<row, mutations, request, view, found, staged, answer, holder, wrote, failure>>
    BY <1>9 DEF Postgres!Dispatch, Postgres!Goto, Postgres!stored, Postgres!mine, Goto
  <2>2. pc'[a] = "commit" /\ session'[a] = "sent"
    BY <1>0, <2>1 DEF Goto, Postgres!TypeOK
  <2>3. Steady(a)'
    BY <1>0, <2>1, <2>2 DEF Steady, InSession, Covered, Informed, Admits, Stands
  <2>s. \A b \in Clients \ {a} : SameFor(b)
    BY <1>0, <2>1 DEF SameFor, Goto, Postgres!TypeOK, Postgres!SharedTypeOK
  <2>i. session[a] # "committed"
    BY <1>0, <2>1 DEF InSession
  <2> QED
    BY <1>m, <2>1, <2>3, <2>s, <2>i
<1>10. CASE Postgres!CommitReturns(a)
  <2>1. /\ Settle(a, Saved(staged[a])) /\ pc[a] = "commit" /\ session[a] = "committed"
        /\ UNCHANGED <<row, mutations, session, holder, wrote, failure>>
    BY <1>10 DEF Postgres!CommitReturns, Postgres!Settle, Postgres!Goto, Postgres!Saved,
       Postgres!stored, Postgres!database, Settle, Goto, Saved
  <2>2. Stands(a) /\ staged[a] \in Snapshots
    BY <1>0, <2>1 DEF Informed, InSession
  <2> QED
    BY <1>k, <2>1, <2>2 DEF Stands
<1>11. CASE Postgres!Crash(a)
  <2>1. /\ Settle(a, Answered("lost")) /\ pc[a] # "done" /\ session[a] # "none"
        /\ UNCHANGED <<row, mutations, session, holder, wrote, failure>>
    BY <1>11 DEF Postgres!Crash, Postgres!Settle, Postgres!Goto, Postgres!Answered,
       Postgres!stored, Postgres!database, Settle, Goto, Answered
  <2> QED
    BY <1>0, <1>l, <2>1 DEF InSession
<1>12. CASE Postgres!Rollback(a)
  <2>1. /\ pc[a] = "rollback" /\ session[a] # "sent"
        /\ IF session[a] = "open" THEN Postgres!EndSession(a, "aborted") ELSE UNCHANGED <<session, holder>>
        /\ Settle(a, IF Postgres!Dispatched(a) /\ wrote[a] THEN Answered("unknown") ELSE failure[a])
        /\ UNCHANGED <<row, mutations, wrote, failure>>
    BY <1>12 DEF Postgres!Rollback, Postgres!Settle, Postgres!Goto, Postgres!Answered,
       Postgres!stored, Postgres!database, Settle, Goto, Answered
  <2>2. CASE Postgres!Dispatched(a) /\ wrote[a]
    BY <1>l, <2>1, <2>2
  <2>3. CASE ~(Postgres!Dispatched(a) /\ wrote[a])
    <3>1. ~wrote[a] \/ session[a] # "committed"
      BY <2>3 DEF Postgres!Dispatched
    <3>2. session'[a] \notin {"open", "sent"}
      BY <1>0, <2>1 DEF Postgres!EndSession, Postgres!TypeOK
    <3> QED
      BY <1>f, <2>1, <2>3, <3>1, <3>2
  <2> QED
    BY <2>2, <2>3
<1>13. CASE Postgres!RollbackFails(a)
  <2>1. /\ pc[a] = "rollback"
        /\ Settle(a, IF Postgres!Dispatched(a) \/ wrote[a] THEN Answered("unknown") ELSE failure[a])
        /\ UNCHANGED <<row, mutations, session, holder, wrote, failure>>
    BY <1>13 DEF Postgres!RollbackFails, Postgres!Settle, Postgres!Goto, Postgres!Answered,
       Postgres!stored, Postgres!database, Settle, Goto, Answered
  <2>2. CASE Postgres!Dispatched(a) \/ wrote[a]
    BY <1>l, <2>1, <2>2
  <2>3. CASE ~(Postgres!Dispatched(a) \/ wrote[a])
    BY <1>f, <2>1, <2>3
  <2> QED
    BY <2>2, <2>3
<1> QED
  BY <1>1, <1>2, <1>3, <1>4, <1>6, <1>7, <1>8, <1>9, <1>10, <1>11, <1>12, <1>13
     DEF Postgres!Persist

\* What the server does to a session, with or without its client.
LEMMA ServerStep ==
  ASSUME PostgresInv, NEW a \in Clients, Postgres!Server(a)
  PROVE  /\ Common' /\ (\A b \in Clients : Steady(b)') /\ Recording'
         /\ [Promise!Next]_(Promise!vars)
<1> USE AbsentAssumption
<1>0. /\ Common /\ Tables /\ Postgres!TypeOK /\ Postgres!SharedTypeOK /\ Serving = Clients
      /\ InSession(a) /\ Covered(a) /\ Informed(a) /\ Now \in Nat
      /\ Clients \subseteq Attempts
      /\ \A id \in Recorded : mutations[id].token \in Clients
  BY NowIsNat, SameWords DEF PostgresInv, Postgres!TypeOK, Common, Serving, WriterOf
<1>1. /\ UNCHANGED <<pc, request, view, found, staged, answer, wrote, failure>>
      /\ session[a] \in {"open", "sent"}
      /\ session'[a] \in {"committed", "aborted"}
      /\ session'[a] = "committed" => session[a] = "sent"
      /\ session[a] = "open" => pc[a] = "done"
      /\ \A b \in Clients \ {a} : SameFor(b) /\ (holder = b => holder' = b)
  BY <1>0 DEF Postgres!Server, Postgres!Commit, Postgres!ServerAborts, Postgres!EndSession,
     Postgres!local, Postgres!mine, Postgres!TypeOK, SameFor
<1>2. pc[a] # "idle" /\ request[a] \in Requests /\ request[a].id \in MutationIds
      /\ request[a].expected \in Nat /\ pc[a] \in {"commit", "rollback", "done"}
  <2>1. pc[a] \in {"commit", "rollback", "done"}
    BY <1>0, <1>1 DEF InSession, Postgres!TypeOK, Postgres!Labels
  <2> QED
    BY <1>0, <2>1, CallIsTyped
<1>3. ASSUME UNCHANGED <<row, mutations>>, session'[a] = "committed" => Stands(a)
      PROVE  /\ Common' /\ (\A b \in Clients : Steady(b)') /\ Recording'
             /\ [Promise!Next]_(Promise!vars)
  <2>1. Common'
    <3>1. Tables' /\ Now' = Now /\ Recorded' = Recorded /\ Serving' = Serving
      BY <1>0, <1>1, <1>3 DEF Tables, HistoryMatchesRow, Now, Current, Recorded, Serving
    <3>2. CallsInOrder'
      BY <1>0, <1>1, <3>1 DEF Common, CallsInOrder
    <3>3. \A id \in Recorded : WriterOf(id)'
      BY <1>0, <1>1, <1>3, <3>1 DEF Common, WriterOf
    <3> QED
      BY <3>1, <3>2, <3>3 DEF Common
  <2>2. Steady(a)'
    <3>1. Now' = Now
      BY <1>3 DEF Now, Current
    <3>2. InSession(a)' /\ Covered(a)'
      BY <1>0, <1>1, <1>2 DEF InSession, Covered
    <3>3. Informed(a)'
      BY <1>0, <1>1, <1>2, <1>3, <3>1 DEF Informed, Stands
    <3> QED
      BY <3>2, <3>3 DEF Steady
  <2>3. \A b \in Clients : Steady(b)'
    BY <1>1, <1>3, <2>2, OthersUndisturbed
  <2>4. Recording'
    <3>1. Recorded' = Recorded /\ \A id \in Recorded : mutations[id].token # a
      BY <1>1, <1>3, NotTheWriter DEF Recorded
    <3> QED
      BY <1>0, <1>1, <1>3, <3>1 DEF Recording, PostgresInv, SameFor
  <2>5. UNCHANGED Promise!vars
    BY <1>1, <1>3, Unheard
  <2> QED
    BY <2>1, <2>3, <2>4, <2>5
<1>4. CASE Postgres!ServerAborts(a)
  <2>1. UNCHANGED <<row, mutations>> /\ session'[a] = "aborted"
    BY <1>0, <1>4 DEF Postgres!ServerAborts, Postgres!EndSession, Postgres!stored, Postgres!TypeOK
  <2> QED
    BY <1>3, <2>1
<1>5. CASE Postgres!Commit(a) /\ ~wrote[a]
  <2>1. UNCHANGED <<row, mutations>> /\ session[a] = "sent"
    BY <1>5 DEF Postgres!Commit, Postgres!stored
  <2> QED
    BY <1>0, <1>3, <1>5, <2>1 DEF Informed
<1>6. CASE Postgres!Commit(a) /\ wrote[a]
  <2>1. /\ session[a] = "sent" /\ session'[a] = "committed" /\ row' = staged[a]
        /\ mutations' = [mutations EXCEPT ![request[a].id] = Entry(a)]
    BY <1>0, <1>6 DEF Postgres!Commit, Postgres!EndSession, Postgres!Entry, Postgres!Fingerprint,
       Entry, Fingerprint, Postgres!TypeOK
  <2>2. /\ holder = a /\ answer[a].status \in InDoubt /\ Records(a)
    <3>1. Admits(row, request[a].expected) => request[a].expected = Now
      BY <1>0, <1>2, AdmitsNow
    <3> QED
      BY <1>0, <1>2, <1>6, <2>1, <3>1 DEF Covered, InSession, Records
  <2>3. Common'
    BY <1>0, <1>1, <1>2, <2>2, CommonWritten
  <2>4. /\ mutations'[request[a].id] = Entry(a) /\ Entry(a) # NoMutation
        /\ Now' = Now + 1 /\ Recorded' = Recorded \cup {request[a].id}
        /\ \A id \in Recorded : mutations'[id] = mutations[id]
    BY <1>0, <2>2, RecordedAtNext
  <2>5. Steady(a)'
    <3>1. Stands(a)'
      BY <1>1, <2>4 DEF Stands, Entry
    <3>2. InSession(a)' /\ Covered(a)'
      BY <1>0, <1>1, <1>2, <2>1 DEF InSession, Covered
    <3>3. mutations[request[a].id] = NoMutation
      BY <2>2 DEF Records
    <3>4. Informed(a)'
      BY <1>0, <1>1, <1>2, <2>1, <2>4, <3>1, <3>3 DEF Informed
    <3> QED
      BY <3>2, <3>4 DEF Steady
  <2>6. \A b \in Clients : Steady(b)'
    BY <1>1, <2>2, <2>5, OthersUndisturbed
  <2>7. Recording'
    <3>1. Entry(a).token = a
      BY DEF Entry
    <3>2. \A id \in Recorded : session'[mutations[id].token] = "committed"
      BY <1>0, <1>1, <2>1 DEF PostgresInv, SameFor
    <3> QED
      BY <1>0, <1>1, <1>6, <2>1, <2>4, <3>1, <3>2 DEF Recording, PostgresInv
  <2>8. Promise!Accept(a)
    BY <1>0, <1>1, <1>2, <2>2, RecordedIsAccepted
  <2> QED
    BY <1>0, <2>3, <2>6, <2>7, <2>8 DEF Promise!Next
<1> QED
  BY <1>4, <1>5, <1>6 DEF Postgres!Server

\* Whatever PostgreSQL and its clients do keeps the invariant, and is a step of
\* the log or none.
LEMMA PostgresStep ==
  ASSUME PostgresInv, Postgres!Next
  PROVE  PostgresInv' /\ [Promise!Next]_(Promise!vars)
<1> DEFINE Goal == /\ Common' /\ (\A b \in Clients : Steady(b)') /\ Recording'
                   /\ [Promise!Next]_(Promise!vars)
<1>1. ASSUME NEW a \in Clients, NEW r \in ClientRequests, Postgres!Submit(a, r),
             UNCHANGED <<Postgres!database, Postgres!mine>>
      PROVE  Goal
  <2>0. /\ Common /\ Serving = Clients /\ Postgres!TypeOK /\ Postgres!SharedTypeOK
        /\ InSession(a) /\ Covered(a) /\ Informed(a) /\ a \in Attempts /\ r \in Requests
    BY SameWords DEF PostgresInv, Postgres!TypeOK, Serving
  <2>1. /\ Submit(a, r)
        /\ UNCHANGED <<session, holder, wrote, failure>>
    BY <1>1 DEF Postgres!Submit, Postgres!Goto, Postgres!Current, Postgres!stored,
       Postgres!database, Postgres!mine, Submit, Goto, Current, stored
  <2>2. Common' /\ Promise!Submit(a, r)
    BY <2>0, <2>1, CommonSubmitted, SubmittedIsAsked
  <2>3. /\ pc[a] = "idle" /\ pc' = [pc EXCEPT ![a] = "load"]
        /\ request' = [request EXCEPT ![a] = r]
        /\ UNCHANGED <<row, mutations, view, found, staged, answer>>
    BY <2>1 DEF Submit, Goto, stored
  <2>4. \A b \in Clients \ {a} : SameFor(b)
    BY <2>0, <2>1, <2>3 DEF SameFor, Postgres!TypeOK
  <2>5. Steady(a)'
    <3>1. pc'[a] = "load" /\ session'[a] = "none" /\ ~wrote'[a]
      BY <2>0, <2>1, <2>3 DEF InSession, Postgres!TypeOK
    <3> QED
      BY <3>1 DEF Steady, InSession, Covered, Informed
  <2>6. \A b \in Clients : Steady(b)'
    BY <2>1, <2>3, <2>4, <2>5, OthersUndisturbed
  <2>7. Recording'
    BY <2>1, <2>3 DEF Recording, PostgresInv, Recorded
  <2> QED
    BY <2>0, <2>2, <2>6, <2>7 DEF Promise!Next
<1>2. Goal
  BY <1>1, ClientStep, ServerStep DEF Postgres!Next, Postgres!Step
<1> QED
  BY <1>2, PostgresTypeStep DEF PostgresInv, Steady, Recording

-----------------------------------------------------------------------------
(* Of both.                                                                *)

\* Standing still keeps the invariant.
LEMMA StandingStill ==
  ASSUME IInv, UNCHANGED vars
  PROVE  IInv' /\ UNCHANGED Promise!vars
<1>1. /\ UNCHANGED <<repository, row, mutations, pc, request, view, found, staged, answer>>
      /\ UNCHANGED <<tail, prior, released, copy, pool, connected, session, holder, wrote,
                     failure>>
  BY DEF vars, stored, local, ofMemory, ofPostgres
<1>2. UNCHANGED Promise!vars
  BY <1>1, Unheard
<1>3. Common => Common'
  BY <1>1 DEF Common, Tables, HistoryMatchesRow, Recorded, Current, CallsInOrder, Serving, Now,
              WriterOf
<1>4. ASSUME MemoryInv
      PROVE  MemoryInv'
  <2>1. Memory!TypeOK'
    BY <1>1, <1>4 DEF MemoryInv, Memory!TypeOK, Memory!SharedTypeOK
  <2>2. Chain'
    BY <1>1, <1>4 DEF MemoryInv, Chain, Line, First
  <2>3. \A a \in Attempts : Copied(a)'
    BY <1>1, <1>4, OthersKeepCopies DEF MemoryInv
  <2> QED
    BY <1>1, <1>3, <1>4, <2>1, <2>2, <2>3 DEF MemoryInv, Recorded
<1>5. ASSUME PostgresInv
      PROVE  PostgresInv'
  <2>1. Postgres!TypeOK' /\ IsFiniteSet(connected)'
    BY <1>1, <1>5 DEF PostgresInv, Postgres!TypeOK, Postgres!SharedTypeOK
  <2>2. \A a \in Clients : Steady(a)'
    BY <1>1, <1>5, OthersUndisturbed DEF SameFor
  <2> QED
    BY <1>1, <1>3, <1>5, <2>1, <2>2 DEF PostgresInv, Recorded, Steady
<1> QED
  BY <1>1, <1>2, <1>4, <1>5 DEF IInv, InMemory, InPostgres

\* Both begin with empty tables, and nobody asking.
LEMMA Initially ==
  ASSUME Init
  PROVE  IInv /\ Promise!Init
<1> USE DefaultsAssumption, AbsentAssumption
<1>1. ASSUME InMemory \/ InPostgres, row = NoRow, mutations = [id \in MutationIds |-> NoMutation],
             NEW calls \in SUBSET Attempts, pc = [a \in calls |-> "idle"],
             request = [a \in calls |-> NoRequest], answer = [a \in calls |-> Pending]
      PROVE  Common /\ Promise!Init
  <2>1. Recorded = {} /\ Now = 0 /\ Current(row).revision = 0
    BY <1>1 DEF Recorded, Now, Current
  <2>2. Tables
    BY <1>1, <2>1 DEF Tables, HistoryMatchesRow
  <2>3. CallsInOrder
    BY <1>1 DEF CallsInOrder, Serving, Pending, Answered, Answers
  <2>4. Log = <<>>
    BY <2>1, <2>2, LogIsTheHistory, EmptySeq DEF LogReadsRows
  <2>5. /\ [a \in Attempts |-> Asked(a)] = [a \in Attempts |-> NoRequest]
        /\ [a \in Attempts |-> Told(a)] = [a \in Attempts |-> Pending]
    BY <1>1 DEF Asked, Told
  <2> QED
    BY <2>1, <2>2, <2>3, <2>4, <2>5
       DEF Common, Promise!Init, Promise!Pending, Promise!Answered, Pending, Answered
<1>2. CASE InMemory /\ Memory!Init
  <2>1. /\ row = NoRow /\ mutations = [id \in MutationIds |-> NoMutation]
        /\ pc = [a \in Attempts |-> "idle"] /\ request = [a \in Attempts |-> NoRequest]
        /\ view = [a \in Attempts |-> Current(NoRow)] /\ found = [a \in Attempts |-> NoMutation]
        /\ staged = [a \in Attempts |-> NoWrite] /\ answer = [a \in Attempts |-> Pending]
        /\ tail = Free /\ prior = [a \in Attempts |-> Free] /\ released = {}
        /\ copy = [a \in Attempts |-> mutations]
    BY <1>2 DEF Memory!Init, Memory!SharedInit, Memory!Current, Current, Memory!Pending,
       Memory!Answered, Pending, Answered
  <2>2. Common /\ Promise!Init
    BY <1>1, <1>2, <2>1
  <2>3. Memory!TypeOK
    BY <2>1 DEF Memory!TypeOK, Memory!SharedTypeOK, Current, Memory!Snapshots, Pending,
       Answered, Memory!Answers
  <2>4. Chain
    BY <2>1 DEF Chain, Line, Working
  <2>5. /\ \A a \in Attempts : Copied(a)
        /\ Recorded = {}
    BY <2>1 DEF Copied, Working, Recorded
  <2> QED
    BY <1>2, <2>2, <2>3, <2>4, <2>5 DEF IInv, MemoryInv, InMemory, InPostgres
<1>3. CASE InPostgres /\ Postgres!Init
  <2>1. /\ row = NoRow /\ mutations = [id \in MutationIds |-> NoMutation]
        /\ pc = [a \in Clients |-> "idle"] /\ request = [a \in Clients |-> NoRequest]
        /\ view = [a \in Clients |-> Current(NoRow)] /\ found = [a \in Clients |-> NoMutation]
        /\ staged = [a \in Clients |-> NoWrite] /\ answer = [a \in Clients |-> Pending]
        /\ pool \in PoolSizes /\ connected = {} /\ session = [a \in Clients |-> "none"] /\ holder = NoHolder
        /\ wrote = [a \in Clients |-> FALSE] /\ failure = [a \in Clients |-> Pending]
    BY <1>3, SameWords DEF Postgres!Init, Postgres!SharedInit, Postgres!Current, Current
  <2>2. Common /\ Promise!Init
    BY <1>1, <1>3, <2>1, SameWords
  <2>3. IsFiniteSet(connected) /\ Postgres!Cardinality(connected) <= pool
    <3>1. Postgres!Cardinality(connected) = Cardinality(connected)
      BY DEF Cardinality, Postgres!Cardinality
    <3> QED
      BY <2>1, <3>1, FS_EmptySet, SameWords
  <2>4. Postgres!TypeOK
    <3>1. Pending \in Answers /\ Current(NoRow) \in Snapshots
      BY DEF Pending, Answered, Answers, Current, Snapshots
    <3> QED
      BY <2>1, <2>3, <3>1, SameWords
         DEF Postgres!TypeOK, Postgres!SharedTypeOK, Postgres!Labels
  <2>5. /\ \A a \in Clients : Steady(a)
        /\ Recorded = {}
    BY <2>1 DEF Steady, InSession, Covered, Informed, Recorded
  <2> QED
    BY <1>3, <2>2, <2>3, <2>4, <2>5 DEF IInv, PostgresInv, Steady, InMemory, InPostgres
<1> QED
  BY <1>2, <1>3 DEF Init

\* Every step of either keeps the invariant, and is a step of the log or none.
LEMMA EveryStep ==
  ASSUME IInv, [Next]_vars
  PROVE  IInv' /\ [Promise!Next]_(Promise!vars)
<1>1. CASE UNCHANGED vars
  BY <1>1, StandingStill
<1>2. CASE InMemory /\ Memory!Next /\ UNCHANGED repository
  BY <1>2, MemoryStep DEF IInv, InMemory, InPostgres
<1>3. CASE InPostgres /\ Postgres!Next /\ UNCHANGED repository
  BY <1>3, PostgresStep DEF IInv, InMemory, InPostgres
<1> QED
  BY <1>1, <1>2, <1>3 DEF Next

\* What holds of the calls, the tables, the chain and the sessions, for ever.
THEOREM Inductive == Spec => []IInv
<1>1. Init => IInv
  BY Initially
<1>2. IInv /\ [Next]_vars => IInv'
  BY EveryStep
<1> QED
  BY <1>1, <1>2, PTL DEF Spec

\* Type correctness of the memory repository and of PostgreSQL, whose pool
\* never lends more connections than it has.
THEOREM TypeCorrect ==
  Spec => [](/\ InMemory => Memory!TypeOK
             /\ InPostgres => Postgres!TypeOK)
<1>1. IInv => /\ InMemory => Memory!TypeOK
              /\ InPostgres => Postgres!TypeOK
  BY DEF IInv, MemoryInv, PostgresInv
<1> QED
  BY <1>1, Inductive, PTL

\* However many calls come and go, in memory one at most works on a copy of the
\* state, though the chain's entry is deleted and begun anew; and in PostgreSQL
\* only the holder of the lock has a write it may still commit.
THEOREM OneWriter == Spec => []OneWriterAtATime
<1>1. ASSUME IInv
      PROVE  OneWriterAtATime
  <2>1. InMemory => Memory!OneCopyAtATime
    BY <1>1, OneAtWork DEF IInv, Memory!OneCopyAtATime, Working
  <2>2. InPostgres => Postgres!LockCoversWrites
    BY <1>1 DEF IInv, PostgresInv, Covered, Postgres!LockCoversWrites
  <2> QED
    BY <2>1, <2>2 DEF OneWriterAtATime
<1> QED
  BY <1>1, Inductive, PTL

\* Whatever fails, is lost, dies or overlaps, the saves of a scope are one log
\* in either repository, and what every call is told is true of it.
THEOREM ImplementsTheLog == Spec => ImplementsLog
<1>1. Init => Promise!Init
  BY Initially
<1>2. IInv /\ [Next]_vars => [Promise!Next]_(Promise!vars)
  BY EveryStep
<1> QED
  BY <1>1, <1>2, Inductive, PTL DEF Spec, ImplementsLog, Promise!Spec

-----------------------------------------------------------------------------
(* D1. A batch crosses a network and may run at any later time, so nothing *)
(* excludes it: its two statements decide.                                 *)


\* What a dispatched batch carries was staged on the revision it expects.
StagedInOrder ==
  \A a \in Attempts :
    pc[a] = "dispatch" \/ batch[a] # "none" =>
      /\ staged[a] \in Snapshots
      /\ staged[a].revision = request[a].expected + 1

\* A batch is sent once, after everything before it.
SentOnce ==
  \A a \in Attempts :
    /\ pc[a] \in {"idle", "load", "lookup", "run", "dispatch"} => batch[a] = "none"
    /\ pc[a] \in {"batch", "verify"} => batch[a] # "none"
    /\ pc[a] # "idle" => request[a] \in Requests

\* A recorded row names the dispatch that inserted it.
TokensTellWhoRan ==
  \A id \in MutationIds : mutations[id] # NoMutation =>
    /\ batch[mutations[id].token] = "run"
    /\ request[mutations[id].token].id = id

D1Inv ==
  /\ TypeOK
  /\ StagedInOrder
  /\ SentOnce
  /\ TokensTellWhoRan
  /\ HistoryMatchesRow

-----------------------------------------------------------------------------
\* The defaults are a snapshot, so whatever a reader finds is one.
LEMMA CurrentIsSnapshot ==
  ASSUME NEW r \in Snapshots \cup {NoRow}
  PROVE  Current(r) \in Snapshots
BY DefaultsAssumption DEF Current, Snapshots

\* verifyWrite answers something the type of answers allows.
LEMMA VerifiedIsAnswer ==
  ASSUME TypeOK, NEW a \in Attempts, staged[a] \in Snapshots,
         NEW previous \in Mutations \cup {NoMutation}
  PROVE  Verified(a, previous) \in Answers
BY DEF Verified, Answers, Answered, Saved, Snapshots

\* Every step keeps every variable in its type.
LEMMA TypeStep ==
  ASSUME TypeOK, StagedInOrder, SentOnce, [D1Next]_d1Vars
  PROVE  TypeOK'
<1>0. USE RequestsAssumption, DefaultsAssumption, AbsentAssumption
<1>1. CASE UNCHANGED d1Vars
  BY <1>1 DEF TypeOK, SharedTypeOK, d1Vars, stored, local
<1>2. ASSUME NEW a \in Attempts, NEW r \in Requests, Submit(a, r), UNCHANGED batch
      PROVE  TypeOK'
  BY <1>2 DEF TypeOK, SharedTypeOK, Submit, Goto, Labels, stored
<1>3. ASSUME NEW a \in Attempts, LoadDocument(a), UNCHANGED batch
      PROVE  TypeOK'
  BY <1>3, CurrentIsSnapshot DEF TypeOK, SharedTypeOK, LoadDocument, Goto, Labels, stored
<1>4. ASSUME NEW a \in Attempts, LoadMutation(a), UNCHANGED batch
      PROVE  TypeOK'
  <2>1. request[a].id \in MutationIds
    BY <1>4 DEF SentOnce, LoadMutation, TypeOK
  <2> QED
    BY <1>4, <2>1 DEF TypeOK, SharedTypeOK, LoadMutation, Goto, Labels, stored
<1>5. ASSUME NEW a \in Attempts, RunReplay(a), UNCHANGED batch
      PROVE  TypeOK'
  <2>1. Saved(found[a].snapshot) \in Answers
    BY <1>5 DEF TypeOK, SharedTypeOK, RunReplay, Mutations, Snapshots, Saved, Answers
  <2>2. Answered("collision") \in Answers
    BY DEF Answered, Answers
  <2> QED
    BY <1>5, <2>1, <2>2 DEF TypeOK, SharedTypeOK, RunReplay, Settle, Goto, Labels, stored
<1>6. ASSUME NEW a \in Attempts, RunConflict(a) \/ Refuse(a, {"load", "lookup", "run", "dispatch"}),
             UNCHANGED batch
      PROVE  TypeOK'
  BY <1>6 DEF TypeOK, SharedTypeOK, RunConflict, Refuse, Settle, Goto, Labels, stored,
              Answered, Answers
<1>7. ASSUME NEW a \in Attempts, NEW doc \in Documents, RunStage(a, doc, "dispatch"),
             UNCHANGED batch
      PROVE  TypeOK'
  BY <1>7 DEF TypeOK, SharedTypeOK, RunStage, Goto, Labels, stored, Snapshots
<1>8. ASSUME NEW a \in Attempts, Dispatch(a) \/ BatchReturns(a)
      PROVE  TypeOK'
  BY <1>8 DEF TypeOK, SharedTypeOK, Dispatch, BatchReturns, Goto, Labels, stored
<1>9. ASSUME NEW a \in Attempts, OutcomeUnknown(a) \/ Crash(a)
      PROVE  TypeOK'
  <2>1. Answered("unknown") \in Answers /\ Answered("lost") \in Answers
    BY DEF Answered, Answers
  <2>2. CASE OutcomeUnknown(a)
    BY <2>1, <2>2 DEF TypeOK, SharedTypeOK, OutcomeUnknown, Settle, Goto, Labels, stored
  <2>3. CASE Crash(a)
    BY <2>1, <2>3 DEF TypeOK, SharedTypeOK, Crash, Settle, Goto, Labels, stored
  <2> QED
    BY <1>9, <2>2, <2>3
<1>10. ASSUME NEW a \in Attempts, ReadBack(a)
       PROVE  TypeOK'
  <2>1. PICK previous \in Mutations \cup {NoMutation} : previous = mutations[request[a].id]
    BY <1>10 DEF TypeOK, SharedTypeOK, SentOnce, ReadBack
  <2>2. staged[a] \in Snapshots
    BY <1>10 DEF ReadBack, SentOnce, StagedInOrder
  <2>3. Verified(a, previous) \in Answers
    BY <2>1, <2>2, VerifiedIsAnswer
  <2> QED
    BY <1>10, <2>1, <2>3 DEF TypeOK, SharedTypeOK, ReadBack, Settle, Goto, Labels, stored
<1>11. ASSUME NEW a \in Attempts, RunBatch(a)
       PROVE  TypeOK'
  <2>1. /\ request[a] \in Requests /\ staged[a] \in Snapshots
        /\ request[a].id \in MutationIds
    BY <1>11 DEF RunBatch, SentOnce, StagedInOrder, TypeOK, Labels
  <2>2. Entry(a) \in Mutations
    BY <2>1 DEF Entry, Mutations, Fingerprint, Fingerprints
  <2>3. Admitted(a) \in [MutationIds -> Mutations \cup {NoMutation}]
    BY <2>1, <2>2 DEF Admitted, TypeOK, SharedTypeOK
  <2>4. row' \in Snapshots \cup {NoRow}
    BY <1>11, <2>1, <2>3 DEF RunBatch, TypeOK, SharedTypeOK, Mutations
  <2> QED
    BY <1>11, <2>3, <2>4 DEF RunBatch, TypeOK, SharedTypeOK, local
<1>12. ASSUME NEW a \in Attempts, DropBatch(a)
       PROVE  TypeOK'
  BY <1>12 DEF DropBatch, TypeOK, SharedTypeOK, local, stored
<1> QED
  BY <1>1, <1>2, <1>3, <1>4, <1>5, <1>6, <1>7, <1>8, <1>9, <1>10, <1>11, <1>12
     DEF D1Next, Step, Transaction

\* Every step but the batch leaves the tables alone.
LEMMA StoredStep ==
  ASSUME [D1Next]_d1Vars
  PROVE  (UNCHANGED <<row, mutations>>) \/ (\E a \in Attempts : RunBatch(a))
BY DEF D1Next, Step, Transaction, d1Vars, stored, local, Submit, LoadDocument, LoadMutation,
       RunReplay, RunConflict, RunStage, Refuse, Dispatch, BatchReturns, OutcomeUnknown,
       ReadBack, DropBatch, Crash

\* A batch either inserts its row and rewrites the document, or does nothing.
LEMMA BatchOutcome ==
  ASSUME D1Inv, NEW a \in Attempts, RunBatch(a)
  PROVE  /\ request[a] \in Requests /\ request[a].id \in MutationIds
         /\ \/ UNCHANGED <<row, mutations>>
            \/ /\ Admits(row, request[a].expected)
               /\ mutations[request[a].id] = NoMutation
               /\ mutations' = [mutations EXCEPT ![request[a].id] = Entry(a)]
               /\ row' = staged[a]
<1> USE RequestsAssumption, AbsentAssumption
<1>1. /\ request[a] \in Requests /\ staged[a] \in Snapshots
      /\ request[a].id \in MutationIds
  BY DEF RunBatch, D1Inv, SentOnce, StagedInOrder, TypeOK, Labels
<1>2. CASE Admits(row, request[a].expected) /\ mutations[request[a].id] = NoMutation
  <2>1. Entry(a) \in Mutations
    BY <1>1 DEF Entry, Mutations, Fingerprint, Fingerprints
  <2>2. /\ mutations' = [mutations EXCEPT ![request[a].id] = Entry(a)]
        /\ mutations'[request[a].id] = Entry(a)
    BY <1>1, <1>2 DEF RunBatch, Admitted, D1Inv, TypeOK, SharedTypeOK
  <2>3. row' = staged[a]
    BY <1>1, <1>2, <2>1, <2>2 DEF RunBatch, Admitted, Entry
  <2> QED
    BY <1>1, <1>2, <2>2, <2>3
<1>3. CASE ~(Admits(row, request[a].expected) /\ mutations[request[a].id] = NoMutation)
  <2>1. mutations' = mutations
    BY <1>3 DEF RunBatch, Admitted
  <2>2. mutations[request[a].id] # NoMutation => mutations[request[a].id].token # a
    BY <1>1 DEF RunBatch, D1Inv, TokensTellWhoRan
  <2> QED
    BY <1>1, <1>3, <2>1, <2>2 DEF RunBatch, Admitted
<1> QED
  BY <1>2, <1>3

\* A batch that inserts its row makes it the next revision of the history.
LEMMA HistoryStep ==
  ASSUME D1Inv, [D1Next]_d1Vars, TypeOK'
  PROVE  HistoryMatchesRow'
<1> USE RequestsAssumption, AbsentAssumption, DefaultsAssumption
<1>1. CASE UNCHANGED <<row, mutations>>
  BY <1>1 DEF D1Inv, HistoryMatchesRow, Recorded, Current
<1>2. ASSUME NEW a \in Attempts, RunBatch(a), ~UNCHANGED <<row, mutations>>
      PROVE  HistoryMatchesRow'
  <2> DEFINE id == request[a].id
             n == Current(row).revision
  <2>1. /\ id \in MutationIds
        /\ Admits(row, request[a].expected)
        /\ mutations[id] = NoMutation
        /\ mutations' = [mutations EXCEPT ![id] = Entry(a)]
        /\ row' = staged[a]
    BY <1>2, BatchOutcome
  <2>2. /\ request[a].expected = n /\ n \in Nat
        /\ staged[a] \in Snapshots /\ staged[a].revision = n + 1
    BY <1>2, <2>1 DEF Admits, Current, RunBatch, D1Inv, StagedInOrder, TypeOK, SharedTypeOK,
                      Snapshots
  <2>3. Current(row').revision = n + 1 /\ row' # NoRow
    BY <2>1, <2>2 DEF Current
  <2>4. Entry(a) \in Mutations /\ Entry(a).snapshot = row'
    BY <1>2, <2>1, <2>2, BatchOutcome DEF Entry, Mutations, Fingerprint, Fingerprints
  <2>5. /\ Recorded' = Recorded \cup {id} /\ id \notin Recorded
        /\ mutations'[id] = Entry(a)
        /\ \A i \in Recorded : mutations'[i] = mutations[i]
    BY <2>1, <2>4 DEF Recorded, D1Inv, TypeOK, SharedTypeOK
  <2>6. \A i \in Recorded : mutations[i].snapshot.revision \in 1..n
    BY DEF D1Inv, HistoryMatchesRow
  <2>7. mutations'[id].snapshot.revision = n + 1
    BY <2>1, <2>2, <2>4, <2>5
  <2>8. \A i \in Recorded' : mutations'[i].snapshot.revision \in 1..(n + 1)
    BY <2>2, <2>5, <2>6, <2>7
  <2>9. \A k \in 1..(n + 1) : \E i \in Recorded' : mutations'[i].snapshot.revision = k
    <3> TAKE k \in 1..(n + 1)
    <3>1. CASE k = n + 1
      BY <3>1, <2>5, <2>7
    <3>2. CASE k # n + 1
      <4>1. k \in 1..n
        BY <3>2, <2>2
      <4>2. PICK i \in Recorded : mutations[i].snapshot.revision = k
        BY <4>1 DEF D1Inv, HistoryMatchesRow
      <4> QED
        BY <4>2, <2>5
    <3> QED
      BY <3>1, <3>2
  <2>10. \A i, j \in Recorded' :
           mutations'[i].snapshot.revision = mutations'[j].snapshot.revision => i = j
    <3> TAKE i, j \in Recorded'
    <3>1. CASE i \in Recorded /\ j \in Recorded
      BY <3>1, <2>5 DEF D1Inv, HistoryMatchesRow
    <3>2. CASE i = id \/ j = id
      BY <3>2, <2>2, <2>5, <2>6, <2>7
    <3> QED
      BY <3>1, <3>2, <2>5
  <2>11. \E i \in Recorded' : mutations'[i].snapshot = row'
    BY <2>4, <2>5
  <2> QED
    BY <2>3, <2>8, <2>9, <2>10, <2>11 DEF HistoryMatchesRow
<1> QED
  BY <1>1, <1>2, StoredStep

\* A batch is sent once, carries what was staged, and marks the row it inserts.
LEMMA OrderStep ==
  ASSUME D1Inv, [D1Next]_d1Vars
  PROVE  StagedInOrder' /\ SentOnce' /\ TokensTellWhoRan'
<1> USE RequestsAssumption, AbsentAssumption
<1>0. /\ TypeOK /\ StagedInOrder /\ SentOnce /\ TokensTellWhoRan
  BY DEF D1Inv
<1>1. CASE UNCHANGED d1Vars
  BY <1>0, <1>1 DEF d1Vars, stored, local, StagedInOrder, SentOnce, TokensTellWhoRan
<1>2. ASSUME NEW a \in Attempts, NEW r \in Requests, Submit(a, r), UNCHANGED batch
      PROVE  StagedInOrder' /\ SentOnce' /\ TokensTellWhoRan'
  <2>1. batch[a] = "none" /\ pc[a] = "idle"
    BY <1>0, <1>2 DEF Submit, SentOnce
  <2>2. \A b \in Attempts \ {a} : request'[b] = request[b] /\ pc'[b] = pc[b]
    BY <1>0, <1>2 DEF Submit, Goto, TypeOK, SharedTypeOK
  <2>3. pc'[a] = "load" /\ request'[a] = r
    BY <1>0, <1>2 DEF Submit, Goto, TypeOK, SharedTypeOK
  <2>4. UNCHANGED <<staged, mutations, batch>>
    BY <1>2 DEF Submit, stored
  <2>5. \A id \in MutationIds : mutations[id] # NoMutation => mutations[id].token \in Attempts
    BY <1>0 DEF TypeOK, SharedTypeOK, Mutations
  <2>6. StagedInOrder'
    BY <1>0, <2>1, <2>2, <2>3, <2>4 DEF StagedInOrder
  <2>7. SentOnce'
    BY <1>0, <2>1, <2>2, <2>3, <2>4 DEF SentOnce
  <2>8. TokensTellWhoRan'
    BY <1>0, <2>1, <2>2, <2>4, <2>5 DEF TokensTellWhoRan
  <2> QED
    BY <2>6, <2>7, <2>8
<1>3. ASSUME NEW a \in Attempts,
             \/ (LoadDocument(a) \/ LoadMutation(a) \/ RunReplay(a) \/ RunConflict(a)
                 \/ Refuse(a, {"load", "lookup", "run", "dispatch"})) /\ UNCHANGED batch
             \/ BatchReturns(a) \/ OutcomeUnknown(a) \/ ReadBack(a) \/ Crash(a)
      PROVE  StagedInOrder' /\ SentOnce' /\ TokensTellWhoRan'
  <2>1. UNCHANGED <<mutations, request, staged, batch>>
    BY <1>3 DEF LoadDocument, LoadMutation, RunReplay, RunConflict, Refuse, BatchReturns,
                OutcomeUnknown, ReadBack, Crash, Settle, stored
  <2>2. /\ \A b \in Attempts \ {a} : pc'[b] = pc[b]
        /\ pc[a] # "idle"
        /\ \/ pc'[a] = "done"
           \/ pc'[a] \in {"lookup", "run"} /\ pc[a] \in {"load", "lookup"}
           \/ pc'[a] = "verify" /\ pc[a] = "batch"
    BY <1>0, <1>3 DEF LoadDocument, LoadMutation, RunReplay, RunConflict, Refuse, BatchReturns,
                OutcomeUnknown, ReadBack, Crash, Settle, Goto, TypeOK, SharedTypeOK, Labels
  <2> QED
    BY <1>0, <2>1, <2>2 DEF StagedInOrder, SentOnce, TokensTellWhoRan
<1>4. ASSUME NEW a \in Attempts, NEW doc \in Documents, RunStage(a, doc, "dispatch"),
             UNCHANGED batch
      PROVE  StagedInOrder' /\ SentOnce' /\ TokensTellWhoRan'
  <2>1. /\ UNCHANGED <<mutations, request, batch>>
        /\ pc[a] = "run" /\ pc'[a] = "dispatch"
        /\ staged'[a] = [revision |-> view[a].revision + 1, doc |-> doc]
        /\ view[a].revision = request[a].expected
        /\ view[a].revision \in Nat
        /\ \A b \in Attempts \ {a} : staged'[b] = staged[b] /\ pc'[b] = pc[b]
    BY <1>0, <1>4 DEF RunStage, Goto, stored, TypeOK, SharedTypeOK, Snapshots
  <2> QED
    BY <1>0, <2>1 DEF StagedInOrder, SentOnce, TokensTellWhoRan, Snapshots
<1>5. ASSUME NEW a \in Attempts, Dispatch(a)
      PROVE  StagedInOrder' /\ SentOnce' /\ TokensTellWhoRan'
  <2>1. /\ UNCHANGED <<mutations, request, staged>>
        /\ pc[a] = "dispatch" /\ pc'[a] = "batch" /\ batch'[a] = "sent" /\ batch[a] = "none"
        /\ \A b \in Attempts \ {a} : batch'[b] = batch[b] /\ pc'[b] = pc[b]
    BY <1>0, <1>5 DEF Dispatch, Goto, stored, TypeOK, SharedTypeOK, SentOnce
  <2>2. \A id \in MutationIds : mutations[id] # NoMutation => mutations[id].token \in Attempts
    BY <1>0 DEF TypeOK, SharedTypeOK, Mutations
  <2> QED
    BY <1>0, <2>1, <2>2 DEF StagedInOrder, SentOnce, TokensTellWhoRan
<1>6. ASSUME NEW a \in Attempts, RunBatch(a) \/ DropBatch(a)
      PROVE  StagedInOrder' /\ SentOnce' /\ TokensTellWhoRan'
  <2>1. /\ UNCHANGED <<request, staged, pc>>
        /\ batch[a] = "sent" /\ batch'[a] \in {"run", "dropped"}
        /\ \A b \in Attempts \ {a} : batch'[b] = batch[b]
    BY <1>0, <1>6 DEF RunBatch, DropBatch, local, TypeOK, SharedTypeOK
  <2>2. \A id \in MutationIds : mutations[id] # NoMutation =>
          mutations[id].token \in Attempts \ {a}
    BY <1>0, <2>1 DEF TypeOK, SharedTypeOK, Mutations, TokensTellWhoRan
  <2>3. StagedInOrder' /\ SentOnce'
    BY <1>0, <2>1 DEF StagedInOrder, SentOnce
  <2>4. CASE UNCHANGED mutations
    BY <1>0, <2>1, <2>2, <2>3, <2>4 DEF TokensTellWhoRan
  <2>5. CASE ~UNCHANGED mutations
    <3>1. RunBatch(a) /\ batch'[a] = "run"
      BY <1>0, <1>6, <2>5 DEF DropBatch, RunBatch, stored, TypeOK
    <3>2. /\ request[a].id \in MutationIds
          /\ mutations' = [mutations EXCEPT ![request[a].id] = Entry(a)]
      BY <2>5, <3>1, BatchOutcome
    <3>3. /\ mutations'[request[a].id].token = a
          /\ \A id \in MutationIds \ {request[a].id} : mutations'[id] = mutations[id]
      BY <1>0, <3>2 DEF Entry, TypeOK, SharedTypeOK
    <3> QED
      BY <1>0, <2>1, <2>2, <2>3, <3>1, <3>3 DEF TokensTellWhoRan
  <2> QED
    BY <2>3, <2>4, <2>5
<1> QED
  BY <1>1, <1>2, <1>3, <1>4, <1>5, <1>6 DEF D1Next, Step, Transaction

\* The invariant holds of the empty tables.
LEMMA D1Initially == D1Init => D1Inv
<1> SUFFICES ASSUME D1Init PROVE D1Inv
  OBVIOUS
<1> USE DefaultsAssumption, AbsentAssumption
<1>1. TypeOK
  BY DEF D1Init, SharedInit, TypeOK, SharedTypeOK, Labels, Current, Snapshots, Pending,
         Answered, Answers
<1>2. StagedInOrder /\ SentOnce /\ TokensTellWhoRan
  BY DEF D1Init, SharedInit, StagedInOrder, SentOnce, TokensTellWhoRan
<1>3. Recorded = {} /\ Current(row).revision = 0 /\ row = NoRow
  BY DEF D1Init, SharedInit, Recorded, Current
<1>4. HistoryMatchesRow
  BY <1>3 DEF HistoryMatchesRow
<1> QED
  BY <1>1, <1>2, <1>4 DEF D1Inv

\* Everything the D1 repository does keeps the invariant.
THEOREM D1Inductive == D1Spec => []D1Inv
<1>1. D1Inv /\ [D1Next]_d1Vars => D1Inv'
  <2> SUFFICES ASSUME D1Inv, [D1Next]_d1Vars PROVE D1Inv'
    OBVIOUS
  <2>1. TypeOK'
    BY TypeStep DEF D1Inv
  <2>2. StagedInOrder' /\ SentOnce' /\ TokensTellWhoRan'
    BY OrderStep
  <2>3. HistoryMatchesRow'
    BY <2>1, HistoryStep
  <2> QED
    BY <2>1, <2>2, <2>3 DEF D1Inv
<1> QED
  BY <1>1, D1Initially, PTL DEF D1Spec

\* Type correctness of the D1 repository, for every value of the constants.
THEOREM D1TypeCorrect == D1Spec => []TypeOK
<1>1. D1Inv => TypeOK
  BY DEF D1Inv
<1> QED
  BY <1>1, D1Inductive, PTL

\* However many attempts race, retry or crash, and whenever their batches land,
\* the mutation rows are one gap-free history that ends in the document row.
THEOREM HistoryAlwaysMatchesRow == D1Spec => []HistoryMatchesRow
<1>1. D1Inv => HistoryMatchesRow
  BY DEF D1Inv
<1> QED
  BY <1>1, D1Inductive, PTL

-----------------------------------------------------------------------------
(* What the D1 repository does is what DashboardLog promises, with the log  *)
(* read off its tables.                                                    *)

-----------------------------------------------------------------------------
(* What the steps up to the answer have to remember. *)

\* An attempt is told something once, at its end.
AnsweredAtTheEnd ==
  \A a \in Attempts :
    /\ pc[a] = "idle" => request[a] = NoRequest
    /\ pc[a] # "done" => answer[a] = Pending
    /\ pc[a] = "verify" => batch[a] = "run"
    /\ batch[a] = "sent" => answer[a].status \in {"pending", "unknown", "lost"}

\* The row only moves on: what was expected and seen was there.
SeenInOrder ==
  \A a \in Attempts :
    /\ pc[a] # "idle" => request[a].expected <= Current(row).revision
    /\ pc[a] \in {"lookup", "run"} =>
         /\ request[a].expected <= view[a].revision
         /\ view[a].revision <= Current(row).revision
    /\ pc[a] = "run" /\ found[a] # NoMutation =>
         mutations[request[a].id] = found[a]

\* A recorded mutation is what the attempt it names staged and was asked.
RowsSayWhatWasStaged ==
  \A id \in MutationIds : mutations[id] # NoMutation =>
    /\ mutations[id].snapshot = staged[mutations[id].token]
    /\ mutations[id].fingerprint = Fingerprint(request[mutations[id].token])

\* A batch that ran left its id recorded, or came too late.
RunDecides ==
  \A a \in Attempts : batch[a] = "run" =>
    \/ mutations[request[a].id] # NoMutation
    \/ request[a].expected < Current(row).revision

RInv == /\ D1Inv /\ AnsweredAtTheEnd /\ SeenInOrder /\ RowsSayWhatWasStaged
        /\ RunDecides

-----------------------------------------------------------------------------
\* The row and the mutations only move on.
LEMMA MovesOn ==
  ASSUME D1Inv, [D1Next]_d1Vars
  PROVE  /\ Current(row).revision \in Nat /\ Current(row).revision' \in Nat
         /\ Current(row).revision <= Current(row).revision'
         /\ \A id \in MutationIds : mutations[id] # NoMutation => mutations'[id] = mutations[id]
<1> USE RequestsAssumption, AbsentAssumption, DefaultsAssumption
<1>1. Current(row).revision \in Nat
  BY CurrentIsSnapshot DEF D1Inv, TypeOK, SharedTypeOK, Snapshots
<1>2. CASE UNCHANGED <<row, mutations>>
  BY <1>1, <1>2 DEF Current
<1>3. ASSUME NEW a \in Attempts, RunBatch(a), ~UNCHANGED <<row, mutations>>
      PROVE  /\ Current(row).revision' = Current(row).revision + 1
             /\ \A id \in MutationIds :
                  mutations[id] # NoMutation => mutations'[id] = mutations[id]
  <2>1. /\ request[a].id \in MutationIds
        /\ Admits(row, request[a].expected)
        /\ mutations[request[a].id] = NoMutation
        /\ mutations' = [mutations EXCEPT ![request[a].id] = Entry(a)]
        /\ row' = staged[a]
    BY <1>3, BatchOutcome
  <2>2. staged[a] \in Snapshots /\ staged[a].revision = request[a].expected + 1
    BY <1>3 DEF RunBatch, D1Inv, StagedInOrder
  <2>3. Current(row).revision = request[a].expected
    BY <2>1 DEF Admits, Current
  <2>4. Current(row).revision' = Current(row).revision + 1
    BY <2>1, <2>2, <2>3 DEF Current
  <2> QED
    BY <2>1, <2>4 DEF D1Inv, TypeOK, SharedTypeOK
<1> QED
  BY <1>1, <1>2, <1>3, StoredStep

\* Every step keeps what the answers rest on.
LEMMA RememberedStep ==
  ASSUME RInv, [D1Next]_d1Vars, D1Inv'
  PROVE  AnsweredAtTheEnd' /\ SeenInOrder' /\ RowsSayWhatWasStaged' /\ RunDecides'
<1> USE RequestsAssumption, AbsentAssumption, DefaultsAssumption
<1> DEFINE Goal == AnsweredAtTheEnd' /\ SeenInOrder' /\ RowsSayWhatWasStaged' /\ RunDecides'
           now == Current(row).revision
<1>0. /\ D1Inv /\ TypeOK /\ SentOnce /\ StagedInOrder /\ TokensTellWhoRan
      /\ AnsweredAtTheEnd /\ SeenInOrder /\ RowsSayWhatWasStaged /\ RunDecides
  BY DEF RInv, D1Inv
<1>m. /\ now \in Nat /\ now' \in Nat /\ now <= now'
      /\ \A id \in MutationIds : mutations[id] # NoMutation => mutations'[id] = mutations[id]
  BY <1>0, MovesOn
<1>t. /\ \A a \in Attempts : pc[a] # "idle" =>
            request[a] \in Requests /\ request[a].id \in MutationIds /\ request[a].expected \in Nat
      /\ \A a \in Attempts : view[a].revision \in Nat
      /\ \A id \in MutationIds : mutations[id] # NoMutation => mutations[id].token \in Attempts
      /\ \A a \in Attempts : batch[a] # "none" => pc[a] # "idle"
  BY <1>0 DEF SentOnce, TypeOK, SharedTypeOK, Snapshots, Mutations
<1>1. CASE UNCHANGED d1Vars
  BY <1>0, <1>1 DEF d1Vars, stored, local, AnsweredAtTheEnd, SeenInOrder, RowsSayWhatWasStaged,
                    RunDecides, Current
<1>2. ASSUME NEW a \in Attempts, NEW r \in Requests, Submit(a, r), UNCHANGED batch
      PROVE  Goal
  <2>1. /\ UNCHANGED <<row, mutations, view, found, staged, answer, batch>>
        /\ pc[a] = "idle" /\ batch[a] = "none" /\ pc'[a] = "load" /\ request'[a] = r
        /\ r.expected <= now /\ now' = now
        /\ \A b \in Attempts \ {a} : request'[b] = request[b] /\ pc'[b] = pc[b]
    BY <1>0, <1>2 DEF Submit, Goto, stored, TypeOK, SharedTypeOK, SentOnce, Current
  <2>2. AnsweredAtTheEnd' /\ SeenInOrder'
    BY <1>0, <1>t, <2>1 DEF AnsweredAtTheEnd, SeenInOrder
  <2>3. \A id \in MutationIds : mutations[id] # NoMutation => mutations[id].token # a
    BY <1>0, <2>1 DEF TokensTellWhoRan
  <2>4. RowsSayWhatWasStaged' /\ RunDecides'
    BY <1>0, <1>t, <2>1, <2>3 DEF RowsSayWhatWasStaged, RunDecides
  <2> QED
    BY <2>2, <2>4
<1>3. ASSUME NEW a \in Attempts, LoadDocument(a), UNCHANGED batch
      PROVE  Goal
  <2>1. /\ UNCHANGED <<row, mutations, request, found, staged, answer, batch>>
        /\ pc[a] = "load" /\ pc'[a] = "lookup" /\ view'[a] = Current(row) /\ now' = now
        /\ \A b \in Attempts \ {a} : view'[b] = view[b] /\ pc'[b] = pc[b]
    BY <1>0, <1>3 DEF LoadDocument, Goto, stored, TypeOK, SharedTypeOK, Current
  <2> QED
    BY <1>0, <1>m, <1>t, <2>1 DEF AnsweredAtTheEnd, SeenInOrder, RowsSayWhatWasStaged, RunDecides
<1>4. ASSUME NEW a \in Attempts, LoadMutation(a), UNCHANGED batch
      PROVE  Goal
  <2>1. /\ UNCHANGED <<row, mutations, request, view, staged, answer, batch>>
        /\ pc[a] = "lookup" /\ pc'[a] = "run" /\ found'[a] = mutations[request[a].id]
        /\ now' = now
        /\ \A b \in Attempts \ {a} : found'[b] = found[b] /\ pc'[b] = pc[b]
    BY <1>0, <1>4 DEF LoadMutation, Goto, stored, TypeOK, SharedTypeOK, Current
  <2> QED
    BY <1>0, <1>m, <1>t, <2>1 DEF AnsweredAtTheEnd, SeenInOrder, RowsSayWhatWasStaged, RunDecides
<1>5. ASSUME NEW a \in Attempts,
             \/ (RunReplay(a) \/ RunConflict(a)
                 \/ Refuse(a, {"load", "lookup", "run", "dispatch"})) /\ UNCHANGED batch
             \/ OutcomeUnknown(a) \/ ReadBack(a) \/ Crash(a)
      PROVE  Goal
  <2>1. /\ UNCHANGED <<row, mutations, request, view, found, staged, batch>>
        /\ pc'[a] = "done" /\ pc[a] # "idle" /\ now' = now
        /\ \A b \in Attempts \ {a} : answer'[b] = answer[b] /\ pc'[b] = pc[b]
    BY <1>0, <1>5 DEF RunReplay, RunConflict, Refuse, OutcomeUnknown, ReadBack, Crash, Settle, Goto,
                      stored, TypeOK, SharedTypeOK, Current
  <2>2. batch[a] = "sent" => answer'[a].status \in {"unknown", "lost"}
    BY <1>0, <1>5 DEF RunReplay, RunConflict, Refuse, OutcomeUnknown, ReadBack, Crash, Settle, Goto,
                      SentOnce, AnsweredAtTheEnd, Answered, TypeOK, SharedTypeOK
  <2> QED
    BY <1>0, <1>m, <1>t, <2>1, <2>2 DEF AnsweredAtTheEnd, SeenInOrder, RowsSayWhatWasStaged, RunDecides
<1>6. ASSUME NEW a \in Attempts, NEW doc \in Documents, RunStage(a, doc, "dispatch"),
             UNCHANGED batch
      PROVE  Goal
  <2>1. /\ UNCHANGED <<row, mutations, request, view, found, answer, batch>>
        /\ pc[a] = "run" /\ pc'[a] = "dispatch" /\ now' = now /\ batch[a] = "none"
        /\ \A b \in Attempts \ {a} : staged'[b] = staged[b] /\ pc'[b] = pc[b]
    BY <1>0, <1>6 DEF RunStage, Goto, stored, TypeOK, SharedTypeOK, Current, SentOnce
  <2>2. \A id \in MutationIds : mutations[id] # NoMutation => mutations[id].token # a
    BY <1>0, <2>1 DEF TokensTellWhoRan
  <2> QED
    BY <1>0, <1>m, <1>t, <2>1, <2>2
       DEF AnsweredAtTheEnd, SeenInOrder, RowsSayWhatWasStaged, RunDecides
<1>7. ASSUME NEW a \in Attempts, Dispatch(a) \/ BatchReturns(a) \/ DropBatch(a)
      PROVE  Goal
  <2>1. /\ UNCHANGED <<row, mutations, request, view, found, staged, answer>>
        /\ now' = now
        /\ \/ pc[a] = "dispatch" /\ pc'[a] = "batch" /\ batch'[a] = "sent"
           \/ pc[a] = "batch" /\ pc'[a] = "verify" /\ batch[a] = "run" /\ batch'[a] = "run"
           \/ pc'[a] = pc[a] /\ batch[a] = "sent" /\ batch'[a] = "dropped"
        /\ \A b \in Attempts \ {a} : batch'[b] = batch[b] /\ pc'[b] = pc[b]
    BY <1>0, <1>7 DEF Dispatch, BatchReturns, DropBatch, Goto, stored, local, TypeOK, SharedTypeOK, Current
  <2> QED
    BY <1>0, <1>m, <1>t, <2>1
       DEF AnsweredAtTheEnd, SeenInOrder, RowsSayWhatWasStaged, RunDecides, Pending, Answered
<1>8. ASSUME NEW a \in Attempts, RunBatch(a)
      PROVE  Goal
  <2>1. /\ UNCHANGED <<pc, request, view, found, staged, answer>>
        /\ batch[a] = "sent" /\ batch'[a] = "run"
        /\ \A b \in Attempts \ {a} : batch'[b] = batch[b]
    BY <1>0, <1>8 DEF RunBatch, local, TypeOK
  <2>2. AnsweredAtTheEnd'
    BY <1>0, <2>1 DEF AnsweredAtTheEnd
  <2>3. SeenInOrder'
    BY <1>0, <1>m, <1>t, <2>1 DEF SeenInOrder
  <2>4. \A id \in MutationIds : mutations'[id] # NoMutation =>
          mutations'[id] = mutations[id] \/ mutations'[id] = Entry(a)
    BY <1>0, <1>8, BatchOutcome DEF TypeOK, SharedTypeOK
  <2>5. RowsSayWhatWasStaged'
    BY <1>0, <2>1, <2>4 DEF RowsSayWhatWasStaged, Entry
  <2>6. /\ mutations'[request[a].id] = NoMutation => request[a].expected # now
        /\ request[a].id \in MutationIds
    <3>1. request[a] \in Requests /\ request[a].id \in MutationIds /\ request[a].expected \in Nat
      BY <1>0, <1>t, <2>1
    <3>2. Entry(a) # NoMutation
      BY <1>0, <2>1, <3>1 DEF Entry, Mutations, Fingerprint, Fingerprints, StagedInOrder
    <3>3. mutations[request[a].id] = NoMutation /\ Admits(row, request[a].expected)
            => mutations'[request[a].id] = Entry(a)
      BY <1>0, <1>8, <3>1 DEF RunBatch, Admitted, TypeOK, SharedTypeOK
    <3>4. request[a].expected = now => Admits(row, request[a].expected) \/ (row # NoRow /\ now = 0)
      BY <3>1 DEF Admits, Current
    <3>5. row # NoRow => now # 0
      <4>1. row # NoRow => now \in 1..now
        BY <1>0 DEF D1Inv, HistoryMatchesRow, Current
      <4> QED
        BY <1>m, <4>1
    <3> QED
      BY <1>m, <3>1, <3>2, <3>3, <3>4, <3>5
  <2>7. RunDecides'
    <3>1. \A b \in Attempts \ {a} : batch[b] = "run" => request[b].id \in MutationIds /\ request[b].expected \in Nat
      BY <1>t
    <3>2. \A b \in Attempts \ {a} : batch[b] = "run" =>
            mutations'[request[b].id] # NoMutation \/ request[b].expected < now'
      BY <1>0, <1>m, <3>1 DEF RunDecides
    <3>3. mutations'[request[a].id] # NoMutation \/ request[a].expected < now'
      BY <1>0, <1>m, <1>t, <2>1, <2>6 DEF SeenInOrder
    <3> QED
      BY <2>1, <3>2, <3>3 DEF RunDecides
  <2> QED
    BY <2>2, <2>3, <2>5, <2>7
<1> QED
  BY <1>1, <1>2, <1>3, <1>4, <1>5, <1>6, <1>7, <1>8 DEF D1Next, Step, Transaction

\* It holds of the empty tables.
LEMMA RememberedInitially == D1Init => RInv
<1> SUFFICES ASSUME D1Init PROVE RInv
  OBVIOUS
<1> USE AbsentAssumption
<1>1. D1Inv
  BY D1Initially
<1>2. AnsweredAtTheEnd /\ SeenInOrder /\ RowsSayWhatWasStaged /\ RunDecides
  BY DEF D1Init, SharedInit, AnsweredAtTheEnd, SeenInOrder, RowsSayWhatWasStaged, RunDecides
<1> QED
  BY <1>1, <1>2 DEF RInv

\* What the answers rest on, for ever.
THEOREM Remembers == D1Spec => []RInv
<1>1. RInv /\ [D1Next]_d1Vars => RInv'
  <2> SUFFICES ASSUME RInv, [D1Next]_d1Vars PROVE RInv'
    OBVIOUS
  <2>1. D1Inv'
    <3>1. TypeOK'
      BY TypeStep DEF RInv, D1Inv
    <3>2. StagedInOrder' /\ SentOnce' /\ TokensTellWhoRan'
      BY OrderStep DEF RInv
    <3>3. HistoryMatchesRow'
      BY <3>1, HistoryStep DEF RInv
    <3> QED
      BY <3>1, <3>2, <3>3 DEF D1Inv
  <2> QED
    BY <2>1, RememberedStep DEF RInv
<1> QED
  BY <1>1, RememberedInitially, PTL DEF D1Spec

-----------------------------------------------------------------------------
(* The log that is read off the tables. *)

\* The history that D1 keeps is the one the log is read off.
LEMMA D1TablesAreHistory == D1Inv => Tables /\ LogReadsRows
BY LogIsTheHistory DEF D1Inv, TypeOK, SharedTypeOK, Tables

\* A batch that inserts its row appends one record.
LEMMA LogStep ==
  ASSUME RInv, [D1Next]_d1Vars, D1Inv'
  PROVE  \/ Log' = Log
         \/ \E a \in Attempts :
              /\ RunBatch(a)
              /\ mutations[request[a].id] = NoMutation /\ request[a].id \in MutationIds
              /\ request[a].expected = Len(Log)
              /\ staged[a].doc \in Documents
              /\ Log' = Append(Log, [id |-> request[a].id, doc |-> staged[a].doc, by |-> a,
                                     fingerprint |-> Fingerprint(request[a])])
<1> USE RequestsAssumption, AbsentAssumption, DefaultsAssumption
<1>0. D1Inv /\ TypeOK
  BY DEF RInv, D1Inv
<1>1. CASE UNCHANGED <<row, mutations>>
  BY <1>1 DEF Log, Recorded, Current
<1>2. ASSUME NEW a \in Attempts, RunBatch(a), ~UNCHANGED <<row, mutations>>
      PROVE  /\ mutations[request[a].id] = NoMutation /\ request[a].id \in MutationIds
             /\ request[a].expected = Len(Log)
             /\ staged[a].doc \in Documents
             /\ Log' = Append(Log, [id |-> request[a].id, doc |-> staged[a].doc, by |-> a,
                                    fingerprint |-> Fingerprint(request[a])])
  <2> DEFINE id == request[a].id
             n == Current(row).revision
             record == [id |-> id, doc |-> staged[a].doc, by |-> a,
                        fingerprint |-> Fingerprint(request[a])]
  <2>1. /\ id \in MutationIds /\ request[a] \in Requests
        /\ Admits(row, request[a].expected)
        /\ mutations[id] = NoMutation
        /\ mutations' = [mutations EXCEPT ![id] = Entry(a)]
        /\ row' = staged[a]
    BY <1>0, <1>2, BatchOutcome
  <2>2. /\ request[a].expected = n /\ n \in Nat
        /\ staged[a] \in Snapshots /\ staged[a].revision = n + 1
    BY <1>0, <1>2, <2>1 DEF Admits, Current, RunBatch, D1Inv, StagedInOrder, TypeOK, SharedTypeOK,
                      Snapshots
  <2>3. Current(row)'.revision = n + 1
    BY <2>1, <2>2 DEF Current
  <2>4. Entry(a) # NoMutation
    BY <1>2, <2>1, <2>2 DEF Entry, Mutations, Fingerprint, Fingerprints
  <2>5. /\ mutations'[id] = Entry(a)
        /\ \A i \in Recorded : mutations'[i] = mutations[i] /\ i \in Recorded'
        /\ id \in Recorded'
    BY <1>0, <2>1, <2>4 DEF Recorded, TypeOK, SharedTypeOK
  <2>6. /\ Log \in Seq(Logged) /\ Len(Log) = n
        /\ \A k \in 1..n : \E i \in Recorded :
              mutations[i].snapshot.revision = k /\ Log[k] = RecordOf(i)
    BY <1>0, D1TablesAreHistory, LenProperties DEF LogReadsRows, Now
  <2>7. /\ Log' \in Seq(Logged) /\ Len(Log') = n + 1
        /\ \A i \in Recorded' : Log'[mutations'[i].snapshot.revision] = RecordOf(i)'
    <3>1. LogReadsRows'
      BY D1TablesAreHistory, PTL
    <3> QED
      BY <2>3, <3>1 DEF LogReadsRows, Now
  <2>8. record \in Logged
    BY <1>2, <2>1, <2>2 DEF Logged, Snapshots, Fingerprint, Fingerprints
  <2>9. /\ Append(Log, record) \in Seq(Logged) /\ Len(Append(Log, record)) = n + 1
        /\ \A k \in 1..n : Append(Log, record)[k] = Log[k]
        /\ Append(Log, record)[n + 1] = record
    BY <2>6, <2>8, AppendProperties
  <2>10. \A k \in 1..n : Log'[k] = Log[k]
    <3> TAKE k \in 1..n
    <3>1. PICK i \in Recorded : mutations[i].snapshot.revision = k /\ Log[k] = RecordOf(i)
      BY <2>6
    <3>2. RecordOf(i)' = RecordOf(i) /\ mutations'[i].snapshot.revision = k
      BY <2>5, <3>1 DEF RecordOf
    <3> QED
      BY <2>5, <2>7, <3>1, <3>2
  <2>11. Log'[n + 1] = record
    <3>1. \A i \in Recorded' : i = id =>
            Log'[mutations'[i].snapshot.revision] = RecordOf(i)' /\ RecordOf(i)' = record
      BY <2>5, <2>7 DEF RecordOf, Entry
    <3>2. mutations'[id].snapshot.revision = n + 1
      BY <2>2, <2>5 DEF Entry
    <3> QED
      BY <2>5, <3>1, <3>2
  <2>12. \A k \in 1..(n + 1) : Log'[k] = Append(Log, record)[k]
    BY <2>2, <2>9, <2>10, <2>11
  <2>13. Log' = Append(Log, record)
    BY <2>7, <2>9, <2>12, SeqEqual
  <2> QED
    BY <2>1, <2>2, <2>6, <2>13 DEF Snapshots
<1> QED
  BY <1>1, <1>2, StoredStep

-----------------------------------------------------------------------------
(* Every step is one of the log's, or none. *)

\* An attempt that has a record in the log: its batch ran, its id is recorded as its own.
LEMMA WroteByItsBatch ==
  ASSUME RInv, NEW a \in Attempts, Abstract!Wrote(a)
  PROVE  /\ batch[a] = "run" /\ request[a].id \in Recorded
         /\ mutations[request[a].id].token = a
<1>1. LogReadsRows
  BY D1TablesAreHistory DEF RInv
<1>2. PICK n \in DOMAIN Log : Log[n].by = a
  BY DEF Abstract!Wrote
<1>3. PICK id \in Recorded : Log[n] = RecordOf(id)
  BY <1>1, <1>2 DEF LogReadsRows, Now
<1>4. mutations[id].token = a
  BY <1>2, <1>3 DEF RecordOf
<1> QED
  BY <1>4 DEF RInv, D1Inv, TokensTellWhoRan, Recorded

\* A recorded mutation is in the log at its revision.
LEMMA D1RecordedIsLogged ==
  ASSUME RInv, NEW id \in Recorded
  PROVE  /\ mutations[id].snapshot.revision \in DOMAIN Log
         /\ Log[mutations[id].snapshot.revision].id = id
         /\ Log[mutations[id].snapshot.revision].doc = mutations[id].snapshot.doc
         /\ Log[mutations[id].snapshot.revision].fingerprint = mutations[id].fingerprint
         /\ mutations[id].snapshot.revision <= Len(Log)
         /\ mutations[id].snapshot \in Snapshots
<1>1. LogReadsRows
  BY D1TablesAreHistory DEF RInv
<1>2. mutations[id].snapshot \in Snapshots
  BY DEF RInv, D1Inv, TypeOK, SharedTypeOK, Recorded, Mutations
<1>3. DOMAIN Log = 1..Len(Log) /\ Len(Log) \in Nat
  BY <1>1, LenProperties DEF LogReadsRows, Now
<1> DEFINE n == mutations[id].snapshot.revision
<1>4. n \in DOMAIN Log /\ Log[n] = RecordOf(id)
  BY <1>1 DEF LogReadsRows, Now
<1>5. n <= Len(Log)
  BY <1>3, <1>4
<1>6. /\ Log[n].id = id /\ Log[n].doc = mutations[id].snapshot.doc
      /\ Log[n].fingerprint = mutations[id].fingerprint
  BY <1>4 DEF RecordOf
<1> QED
  BY <1>2, <1>4, <1>5, <1>6

\* A step that settles an attempt, and leaves the tables alone, answers it.
LEMMA D1SettledIsAnswered ==
  ASSUME RInv, NEW a \in Attempts, NEW value, pc[a] \notin {"idle", "done"},
         Settle(a, value), UNCHANGED stored
  PROVE  Abstract!Answer(a, value)
<1>1. request[a] # NoRequest
  BY AbsentAssumption DEF RInv, D1Inv, SentOnce
<1>2. answer[a] = Abstract!Pending
  BY DEF RInv, AnsweredAtTheEnd, Pending, Answered, Abstract!Pending, Abstract!Answered
<1>3. Log' = Log
  BY DEF stored, Log, Recorded, Current
<1> QED
  BY <1>1, <1>2, <1>3 DEF Abstract!Answer, Abstract!Asked, Settle

\* What an id's record makes of a request is what the log makes of it.
LEMMA D1RecordedAnswer ==
  ASSUME RInv, NEW a \in Attempts, pc[a] \notin {"idle", "done"},
         mutations[request[a].id] # NoMutation, UNCHANGED stored
  PROVE  /\ /\ mutations[request[a].id].fingerprint = Fingerprint(request[a])
            /\ Settle(a, Saved(mutations[request[a].id].snapshot))
            => Abstract!Acknowledge(a)
         /\ /\ mutations[request[a].id].fingerprint # Fingerprint(request[a])
            /\ Settle(a, Answered("collision"))
            => Abstract!Collide(a)
<1> DEFINE id == request[a].id
           n == mutations[id].snapshot.revision
<1>1. request[a] \in Requests /\ id \in Recorded
  BY RequestsAssumption DEF RInv, D1Inv, SentOnce, Recorded
<1>2. /\ n \in DOMAIN Log /\ Log[n].id = id
      /\ Log[n].doc = mutations[id].snapshot.doc
      /\ Log[n].fingerprint = mutations[id].fingerprint
  BY <1>1, D1RecordedIsLogged
<1>3. Abstract!Asked(a) /\ Abstract!Fingerprint(request[a]) = Fingerprint(request[a])
  BY <1>1, AbsentAssumption DEF Abstract!Asked, Abstract!Fingerprint, Fingerprint
<1>4. ASSUME mutations[id].fingerprint = Fingerprint(request[a]),
             Settle(a, Saved(mutations[id].snapshot))
      PROVE  Abstract!Acknowledge(a)
  <2>1. Abstract!Answer(a, Abstract!Saved(n, Log[n].doc))
    BY <1>2, <1>4, D1SettledIsAnswered DEF Saved, Abstract!Saved
  <2> QED
    BY <1>2, <1>3, <1>4, <2>1 DEF Abstract!Acknowledge
<1>5. ASSUME mutations[id].fingerprint # Fingerprint(request[a]),
             Settle(a, Answered("collision"))
      PROVE  Abstract!Collide(a)
  <2>1. Abstract!Answer(a, Abstract!Answered("collision"))
    BY <1>5, D1SettledIsAnswered DEF Answered, Abstract!Answered
  <2> QED
    BY <1>2, <1>3, <1>5, <2>1 DEF Abstract!Collide
<1> QED
  BY <1>4, <1>5

\* A conflict is told to an attempt that wrote nothing and is out of date.
LEMMA ConflictIsTrue ==
  ASSUME RInv, NEW a \in Attempts, pc[a] \notin {"idle", "done"}, UNCHANGED stored,
         ~Abstract!Wrote(a), request[a].expected < Current(row).revision,
         Settle(a, Answered("conflict"))
  PROVE  Abstract!Conflict(a)
<1>1. Abstract!Asked(a)
  BY AbsentAssumption DEF RInv, D1Inv, SentOnce, Abstract!Asked
<1>2. Abstract!Answer(a, Abstract!Answered("conflict"))
  BY D1SettledIsAnswered DEF Answered, Abstract!Answered
<1>3. Len(Log) = Current(row).revision
  BY D1TablesAreHistory DEF LogReadsRows, Now, RInv
<1> QED
  BY <1>1, <1>2, <1>3 DEF Abstract!Conflict

\* Each action of the repository, as the log sees it.
LEMMA StepIsAbstract ==
  ASSUME RInv, [D1Next]_d1Vars, RInv'
  PROVE  [Abstract!Next]_(Abstract!vars)
<1> USE RequestsAssumption, AbsentAssumption
<1>0. D1Inv /\ D1Inv' /\ TypeOK /\ SentOnce /\ AnsweredAtTheEnd /\ SeenInOrder /\ RowsSayWhatWasStaged
      /\ RunDecides /\ StagedInOrder
  BY DEF RInv, D1Inv
<1>n. UNCHANGED stored => Log' = Log
  BY DEF stored, Log, Recorded, Current
<1>w. \A a \in Attempts : batch[a] # "run" => ~Abstract!Wrote(a)
  BY WroteByItsBatch
<1>1. CASE UNCHANGED d1Vars
  BY <1>n, <1>1 DEF d1Vars, local, Abstract!vars
<1>2. ASSUME NEW a \in Attempts, NEW r \in Requests, Submit(a, r)
      PROVE  Abstract!Next
  <2>1. Len(Log) = Current(row).revision
    BY <1>0, D1TablesAreHistory DEF LogReadsRows, Now
  <2>2. Abstract!Submit(a, r)
    BY <1>0, <1>n, <1>2, <2>1 DEF Submit, AnsweredAtTheEnd, Abstract!Submit
  <2> QED
    BY <2>2 DEF Abstract!Next
<1>3. ASSUME NEW a \in Attempts,
             \/ LoadDocument(a) \/ LoadMutation(a) \/ Dispatch(a) \/ BatchReturns(a)
             \/ DropBatch(a) \/ \E doc \in Documents : RunStage(a, doc, "dispatch")
      PROVE  UNCHANGED Abstract!vars
  BY <1>n, <1>3 DEF LoadDocument, LoadMutation, Dispatch, BatchReturns, DropBatch, RunStage, local,
                    Abstract!vars
<1>4. ASSUME NEW a \in Attempts, RunReplay(a)
      PROVE  Abstract!Next
  <2>1. mutations[request[a].id] = found[a] /\ found[a] # NoMutation
    BY <1>0, <1>4 DEF RunReplay, SeenInOrder
  <2>2. Abstract!Acknowledge(a) \/ Abstract!Collide(a)
    BY <1>4, <2>1, D1RecordedAnswer DEF RunReplay
  <2> QED
    BY <2>2 DEF Abstract!Next
<1>5. ASSUME NEW a \in Attempts, RunConflict(a), UNCHANGED batch
      PROVE  Abstract!Next
  <2>1. /\ request[a].expected \in Nat /\ view[a].revision \in Nat
        /\ Current(row).revision \in Nat /\ batch[a] = "none"
    BY <1>0, <1>5, CurrentIsSnapshot DEF RunConflict, SentOnce, TypeOK, SharedTypeOK, Snapshots
  <2>2. request[a].expected < Current(row).revision
    BY <1>0, <1>5, <2>1 DEF RunConflict, SeenInOrder
  <2>3. Abstract!Conflict(a)
    BY <1>w, <1>5, <2>1, <2>2, ConflictIsTrue DEF RunConflict
  <2> QED
    BY <2>3 DEF Abstract!Next
<1>6. ASSUME NEW a \in Attempts, Refuse(a, {"load", "lookup", "run", "dispatch"})
      PROVE  Abstract!Next
  <2>1. batch[a] = "none"
    BY <1>0, <1>6 DEF Refuse, SentOnce
  <2>2. Abstract!Answer(a, Abstract!Answered("refused"))
    BY <1>6, D1SettledIsAnswered DEF Refuse, Answered, Abstract!Answered
  <2>3. Abstract!Refuse(a)
    BY <1>w, <2>1, <2>2 DEF Abstract!Refuse
  <2> QED
    BY <2>3 DEF Abstract!Next
<1>7. ASSUME NEW a \in Attempts, OutcomeUnknown(a) \/ Crash(a)
      PROVE  Abstract!Next
  <2>1. PICK status \in {"unknown", "lost"} :
          pc[a] \in {"batch", "verify"} /\ Settle(a, Answered(status)) /\ UNCHANGED stored
    BY <1>7 DEF OutcomeUnknown, Crash
  <2>2. Abstract!Lose(a, status)
    BY <2>1, D1SettledIsAnswered DEF Answered, Abstract!Answered, Abstract!Lose
  <2> QED
    BY <2>2 DEF Abstract!Next
<1>8. ASSUME NEW a \in Attempts, ReadBack(a)
      PROVE  Abstract!Next
  <2> DEFINE id == request[a].id
  <2>1. /\ pc[a] \notin {"idle", "done"} /\ batch[a] = "run" /\ UNCHANGED stored
        /\ Settle(a, Verified(a, mutations[id]))
        /\ id \in MutationIds /\ request[a].expected \in Nat /\ staged[a].revision = request[a].expected + 1
    BY <1>0, <1>8 DEF ReadBack, AnsweredAtTheEnd, SentOnce, StagedInOrder
  <2>2. CASE mutations[id] = NoMutation
    <3>1. Verified(a, mutations[id]) = Answered("conflict")
      BY <2>2 DEF Verified
    <3>2. request[a].expected < Current(row).revision
      BY <1>0, <2>1, <2>2 DEF RunDecides
    <3>3. ~Abstract!Wrote(a)
      BY <2>2, WroteByItsBatch DEF Recorded
    <3>4. Abstract!Conflict(a)
      BY <2>1, <3>1, <3>2, <3>3, ConflictIsTrue
    <3> QED
      BY <3>4 DEF Abstract!Next
  <2>3. CASE mutations[id] # NoMutation /\ mutations[id].fingerprint # Fingerprint(request[a])
    <3>1. Verified(a, mutations[id]) = Answered("collision")
      BY <2>3 DEF Verified
    <3>2. Abstract!Collide(a)
      BY <2>1, <2>3, <3>1, D1RecordedAnswer
    <3> QED
      BY <3>2 DEF Abstract!Next
  <2>4. CASE /\ mutations[id] # NoMutation /\ mutations[id].fingerprint = Fingerprint(request[a])
             /\ mutations[id].snapshot # staged[a]
    <3>1. Verified(a, mutations[id]) = Answered("conflict")
      BY <2>4 DEF Verified
    <3>2. ~Abstract!Wrote(a)
      BY <1>0, <2>1, <2>4, WroteByItsBatch DEF RowsSayWhatWasStaged
    <3>3. request[a].expected < Current(row).revision
      <4>1. PICK b \in Attempts : b = mutations[id].token
        BY <1>0, <2>1, <2>4 DEF TypeOK, SharedTypeOK, Mutations
      <4>2. /\ mutations[id].snapshot = staged[b]
            /\ Fingerprint(request[a]) = Fingerprint(request[b])
        BY <1>0, <2>1, <2>4, <4>1 DEF RowsSayWhatWasStaged
      <4>3. request[b].expected = request[a].expected
        BY <4>2 DEF Fingerprint
      <4>4. staged[b].revision = request[b].expected + 1
        BY <1>0, <2>1, <2>4, <4>1 DEF D1Inv, TokensTellWhoRan, StagedInOrder
      <4>5. mutations[id].snapshot.revision \in 1..Current(row).revision
        BY <1>0, <2>1, <2>4 DEF D1Inv, HistoryMatchesRow, Recorded
      <4>6. Current(row).revision \in Nat
        BY <1>0, CurrentIsSnapshot DEF TypeOK, SharedTypeOK, Snapshots
      <4> QED
        BY <2>1, <4>2, <4>3, <4>4, <4>5, <4>6
    <3>4. Abstract!Conflict(a)
      BY <2>1, <3>1, <3>2, <3>3, ConflictIsTrue
    <3> QED
      BY <3>4 DEF Abstract!Next
  <2>5. CASE /\ mutations[id] # NoMutation /\ mutations[id].fingerprint = Fingerprint(request[a])
             /\ mutations[id].snapshot = staged[a]
    <3>1. Verified(a, mutations[id]) = Saved(mutations[id].snapshot)
      BY <2>5 DEF Verified
    <3>2. Abstract!Acknowledge(a)
      BY <2>1, <2>5, <3>1, D1RecordedAnswer
    <3> QED
      BY <3>2 DEF Abstract!Next
  <2> QED
    BY <2>2, <2>3, <2>4, <2>5
<1>9. ASSUME NEW a \in Attempts, RunBatch(a)
      PROVE  [Abstract!Next]_(Abstract!vars)
  <2>1. CASE Log' = Log
    BY <1>9, <2>1 DEF RunBatch, local, Abstract!vars
  <2>2. CASE Log' # Log
    <3>1. PICK b \in Attempts :
            /\ RunBatch(b)
            /\ mutations[request[b].id] = NoMutation /\ request[b].id \in MutationIds
            /\ request[b].expected = Len(Log)
            /\ staged[b].doc \in Documents
            /\ Log' = Append(Log, [id |-> request[b].id, doc |-> staged[b].doc, by |-> b,
                                   fingerprint |-> Fingerprint(request[b])])
      BY <1>0, <2>2, LogStep
    <3>2. ~Abstract!Holds(request[b].id)
      <4>1. LogReadsRows
        BY <1>0, D1TablesAreHistory
      <4>2. \A n \in DOMAIN Log : Log[n].id \in Recorded
        BY <4>1 DEF LogReadsRows, Now, RecordOf
      <4> QED
        BY <3>1, <4>2 DEF Recorded, Abstract!Holds
    <3>3. Abstract!Asked(b) /\ answer[b].status \in {"pending", "unknown", "lost"}
      BY <1>0, <3>1 DEF RunBatch, SentOnce, AnsweredAtTheEnd, TypeOK, Labels, Abstract!Asked
    <3>4. Abstract!Accept(b)
      BY <3>1, <3>2, <3>3 DEF RunBatch, local, Abstract!Accept, Abstract!Fingerprint, Fingerprint
    <3> QED
      BY <3>4 DEF Abstract!Next
  <2> QED
    BY <2>1, <2>2
<1> QED
  BY <1>1, <1>2, <1>3, <1>4, <1>5, <1>6, <1>7, <1>8, <1>9 DEF D1Next, Step, Transaction

\* However many attempts race, retry or crash, and whenever their batches land:
\* the saves of a scope are one log, and what every attempt is told is true of it.
THEOREM D1ImplementsTheLog == D1Spec => D1ImplementsLog
<1>1. D1Init => Abstract!Init
  <2> SUFFICES ASSUME D1Init PROVE Abstract!Init
    OBVIOUS
  <2>1. Log = <<>>
    <3>1. LogReadsRows
      BY D1Initially, D1TablesAreHistory
    <3>2. Current(row).revision = 0
      BY DEF D1Init, SharedInit, Current
    <3> QED
      BY <3>1, <3>2, EmptySeq DEF LogReadsRows, Now
  <2> QED
    BY <2>1 DEF D1Init, SharedInit, Pending, Answered, Abstract!Init, Abstract!Pending, Abstract!Answered
<1>2. RInv /\ [D1Next]_d1Vars /\ RInv' => [Abstract!Next]_(Abstract!vars)
  BY StepIsAbstract
<1> QED
  BY <1>1, <1>2, Remembers, PTL DEF D1Spec, D1ImplementsLog, Abstract!Spec
=============================================================================
