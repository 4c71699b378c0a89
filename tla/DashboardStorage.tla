-------------------------- MODULE DashboardStorage --------------------------
(***************************************************************************)
(* storage/shared.ts: the part of a durable dashboard repository that      *)
(* every database shares.  One scope.  durableRepository loads the document*)
(* row and the mutation row with two separate statements, runs the store's *)
(* callback on what it loaded, and hands the staged write to the database's*)
(* own persist function, which the modules extending this one give.        *)
(*                                                                         *)
(* The callback (server.ts, modelled in DashboardSave) is one step here: it*)
(* replays, refuses, or stages some document.  A caller may lose its       *)
(* authority or abort at any moment, so every check of either may fail     *)
(* whatever an earlier one said (Refuse).                                  *)
(***************************************************************************)
EXTENDS Naturals, Sequences

CONSTANTS
  Attempts,      \* calls of save, a retry being another attempt
  MutationIds,
  Documents,
  Defaults,      \* the document of a scope nobody has saved
  Requests,      \* [id, expected, doc]
  NoRequest, NoRow, NoMutation, NoWrite

Snapshots == [revision : Nat, doc : Documents]
Fingerprint(r) == [expected |-> r.expected, doc |-> r.doc]
Fingerprints == [expected : Nat, doc : Documents]
Mutations == [fingerprint : Fingerprints, snapshot : Snapshots, token : Attempts]

ASSUME RequestsAssumption ==
  Requests \subseteq [id : MutationIds, expected : Nat, doc : Documents]
ASSUME DefaultsAssumption == Defaults \in Documents
ASSUME AbsentAssumption ==
  /\ NoRequest \notin Requests
  /\ NoRow \notin Snapshots /\ NoWrite \notin Snapshots
  /\ NoMutation \notin Mutations

VARIABLES
  row,           \* the scope's row of lenso_dashboard_documents
  mutations,     \* its rows of lenso_dashboard_mutations
  pc, request,   \* per attempt: where it is, what it was asked
  view, found,   \* per attempt: `current` and `loaded.mutation`
  staged,        \* per attempt: the write the callback staged
  answer         \* per attempt: how save settled

stored == <<row, mutations>>
local == <<pc, request, view, found, staged, answer>>

Answers == [status : {"pending", "conflict", "collision", "refused", "unknown",
                      "lost"}]
             \cup [status : {"saved"}, revision : Nat, doc : Documents]

Answered(status) == [status |-> status]
Saved(snapshot) ==
  [status |-> "saved", revision |-> snapshot.revision, doc |-> snapshot.doc]
Pending == Answered("pending")

\* A missing row reads as revision 0 of the defaults.
Current(r) == IF r = NoRow THEN [revision |-> 0, doc |-> Defaults] ELSE r

\* The compare-and-set of every database: INSERT for revision 0, UPDATE else.
Admits(r, expected) ==
  IF expected = 0 THEN r = NoRow ELSE r # NoRow /\ r.revision = expected

SharedInit ==
  /\ row = NoRow
  /\ mutations = [id \in MutationIds |-> NoMutation]
  /\ pc = [a \in Attempts |-> "idle"]
  /\ request = [a \in Attempts |-> NoRequest]
  /\ view = [a \in Attempts |-> Current(NoRow)]
  /\ found = [a \in Attempts |-> NoMutation]
  /\ staged = [a \in Attempts |-> NoWrite]
  /\ answer = [a \in Attempts |-> Pending]

Goto(a, label) == pc' = [pc EXCEPT ![a] = label]

\* The attempt settles: nothing else of it runs.
Settle(a, value) ==
  /\ Goto(a, "done")
  /\ answer' = [answer EXCEPT ![a] = value]
  /\ UNCHANGED <<request, view, found, staged>>

-----------------------------------------------------------------------------
(* durableRepository.transaction, up to the call of persist. *)

\* A caller expects a revision it has read.
Submit(a, r) ==
  /\ pc[a] = "idle"
  /\ r.expected <= Current(row).revision
  /\ request' = [request EXCEPT ![a] = r]
  /\ Goto(a, "load")
  /\ UNCHANGED <<stored, view, found, staged, answer>>

LoadDocument(a) ==
  /\ pc[a] = "load"
  /\ view' = [view EXCEPT ![a] = Current(row)]
  /\ Goto(a, "lookup")
  /\ UNCHANGED <<stored, request, found, staged, answer>>

LoadMutation(a) ==
  /\ pc[a] = "lookup"
  /\ found' = [found EXCEPT ![a] = mutations[request[a].id]]
  /\ Goto(a, "run")
  /\ UNCHANGED <<stored, request, view, staged, answer>>

\* The id is recorded: its snapshot is the answer, unless it stood for
\* something else.  Nothing is staged, so persist is not called.
RunReplay(a) ==
  /\ pc[a] = "run"
  /\ found[a] # NoMutation
  /\ Settle(a, IF found[a].fingerprint = Fingerprint(request[a])
               THEN Saved(found[a].snapshot) ELSE Answered("collision"))
  /\ UNCHANGED stored

RunConflict(a) ==
  /\ pc[a] = "run"
  /\ found[a] = NoMutation
  /\ view[a].revision # request[a].expected
  /\ Settle(a, Answered("conflict"))
  /\ UNCHANGED stored

\* What is staged may differ from what was sent: hidden instances are restored.
RunStage(a, doc, next) ==
  /\ pc[a] = "run"
  /\ found[a] = NoMutation
  /\ view[a].revision = request[a].expected
  /\ staged' = [staged EXCEPT ![a] = [revision |-> view[a].revision + 1, doc |-> doc]]
  /\ Goto(a, next)
  /\ UNCHANGED <<stored, request, view, found, answer>>

\* A check of authority or of the abort signal fails before anything is written.
Refuse(a, labels) ==
  /\ pc[a] \in labels
  /\ Settle(a, Answered("refused"))
  /\ UNCHANGED stored

\* What verifyWrite makes of the recorded mutation, if any.
Verified(a, previous) ==
  CASE previous = NoMutation -> Answered("conflict")
    [] previous # NoMutation /\ previous.fingerprint # Fingerprint(request[a]) ->
         Answered("collision")
    [] previous # NoMutation /\ previous.fingerprint = Fingerprint(request[a])
         /\ previous.snapshot # staged[a] -> Answered("conflict")
    [] OTHER -> Saved(staged[a])

Entry(a) == [fingerprint |-> Fingerprint(request[a]), snapshot |-> staged[a],
             token |-> a]

-----------------------------------------------------------------------------
(* What holds whatever the database. *)

SharedTypeOK ==
  /\ row \in Snapshots \cup {NoRow}
  /\ mutations \in [MutationIds -> Mutations \cup {NoMutation}]
  /\ request \in [Attempts -> Requests \cup {NoRequest}]
  /\ view \in [Attempts -> Snapshots]
  /\ found \in [Attempts -> Mutations \cup {NoMutation}]
  /\ staged \in [Attempts -> Snapshots \cup {NoWrite}]
  /\ answer \in [Attempts -> Answers]

Recorded == {id \in MutationIds : mutations[id] # NoMutation}

\* The mutation rows of a scope are its whole history, and the document row its
\* newest entry: each revision up to the row's was written by exactly one
\* mutation id, and the row is the snapshot recorded for the last.  Two rows
\* written by two statements, and batches that land late, could each break it.
HistoryMatchesRow ==
  /\ \A id \in Recorded :
       mutations[id].snapshot.revision \in 1..Current(row).revision
  /\ \A n \in 1..Current(row).revision :
       \E id \in Recorded : mutations[id].snapshot.revision = n
  /\ \A i, j \in Recorded :
       mutations[i].snapshot.revision = mutations[j].snapshot.revision => i = j
  /\ row # NoRow => \E id \in Recorded : mutations[id].snapshot = row

\* The history as a log, for the refinement of DashboardLog.
Log ==
  [n \in 1..Current(row).revision |->
     LET id == CHOOSE i \in Recorded : mutations[i].snapshot.revision = n
     IN  [id |-> id, doc |-> mutations[id].snapshot.doc,
          by |-> mutations[id].token, fingerprint |-> mutations[id].fingerprint]]
=============================================================================
