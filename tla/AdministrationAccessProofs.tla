---------------------- MODULE AdministrationAccessProofs ----------------------
(* Proofs about AdministrationAccess, for any accounts, roles, requests    *)
(* and number of calls. What a call has read may be old by the time it     *)
(* commits; CurrentWhenAdmitted says that then its expected revision is    *)
(* old too, which is why comparing one number in the commit is enough.     *)
EXTENDS AdministrationAccess, TLAPS

Handling == {"handle", "role", "rights", "before", "mutate"}
Assigning == {"membersSet", "membersPromote"}

\* No caller expects a revision that is still to come.
ExpectedWasRead == \A c \in Calls : expected[c] <= access.revision

\* As long as the expected revision is the current one, what the code asked is still
\* so: the caller is authorized, and what it gives out is what it may give.
CurrentWhenAdmitted ==
  \A c \in Calls : expected[c] = access.revision =>
    /\ pc[c] \in Handling => Authorized(c)
    /\ pc[c] \in {"rights", "before", "mutate"} /\ asked[c].method \in Assigning =>
         granted[c] = access.permissions[asked[c].role]
    /\ pc[c] \in {"before", "mutate"} /\ asked[c].method \in Assigning => MayAssign(c)
    /\ pc[c] = "mutate" /\ asked[c].method = "rolesSave" =>
         /\ "members.promote" \in Allowed(c)
         /\ asked[c].permissions \subseteq Allowed(c)

\* Where a call is tells what it has done and what is on record.
RecordedSoFar ==
  \A c \in Calls :
    /\ pc[c] \in {"authorize", "prepare"} => trail[c] = "none" /\ effect[c] = "none"
    /\ pc[c] \in Handling \cup {"dispatch"} => trail[c] = "intent" /\ effect[c] = "none"
    /\ pc[c] = "complete" =>
         /\ trail[c] = "intent" /\ outcome[c] # "none"
         /\ outcome[c] = "success" => effect[c] # "none"
         /\ outcome[c] = "failure" => effect[c] = "none"
    /\ pc[c] = "disclose" => trail[c] = "success" /\ effect[c] # "none"
    /\ pc[c] \in {"role", "rights", "before", "mutate"} => Writes(c)
    /\ pc[c] \in {"complete", "disclose"} /\ ~Writes(c) => effect[c] \in {"none", "read"}
    /\ pc[c] # "idle" => answer[c] = "none"

IInv == /\ TypeOK /\ OwnerRemains /\ ExpectedWasRead /\ CurrentWhenAdmitted
        /\ RecordedSoFar /\ TrailTellsTheTruth /\ AnswersTellTheTruth

-----------------------------------------------------------------------------
(* The shape of a step.                                                    *)

\* Access and accounts change in a committing write only.
LEMMA OnlyCommitsChange ==
  ASSUME NEW c \in Calls, Around(c) \/ Handle(c) \/ Write(c)
  PROVE  \/ UNCHANGED facts
         \/ /\ pc[c] = "mutate" /\ Admits(c) /\ Commit(c)
            /\ \E how \in {"success", "unknown"} : End(c, how, "changed")
BY DEF Around, Handle, Write, Submit, Authorize, AuthorizeFails, Prepare, PrepareFails,
       Dispatch, Break, Complete, CompleteFails, Disclose, DiscloseFails, Crash,
       ReadAccess, ReadTarget, ReadRole, ReadRights, ReadBefore, ReadPreset,
       ReadGrantable, ReadRevision, ReadDecisive, GoRevoke, Mutate, MutateBreaks,
       Throw, Proceed, End, facts

\* A step of one call leaves the others alone.
LEMMA OthersStay ==
  ASSUME TypeOK, NEW c \in Calls, Around(c) \/ Handle(c) \/ Write(c),
         NEW d \in Calls, d # c
  PROVE  /\ pc'[d] = pc[d] /\ asked'[d] = asked[d] /\ expected'[d] = expected[d]
         /\ granted'[d] = granted[d] /\ outcome'[d] = outcome[d]
         /\ effect'[d] = effect[d] /\ trail'[d] = trail[d] /\ answer'[d] = answer[d]
<1> USE DEF TypeOK, Goto, Finish, End, Throw, Proceed, Record, input
<1>1. CASE Around(c)
  BY <1>1 DEF Around, Submit, Authorize, AuthorizeFails, Prepare, PrepareFails, Dispatch,
              Break, Complete, CompleteFails, Disclose, DiscloseFails, Crash
<1>2. CASE Handle(c)
  BY <1>2 DEF Handle, ReadAccess, ReadTarget, ReadRole, ReadRights, ReadBefore, ReadPreset,
              ReadGrantable, ReadRevision, ReadDecisive, GoRevoke
<1>3. CASE Write(c)
  BY <1>3 DEF Write, Mutate, MutateBreaks
<1> QED
  BY <1>1, <1>2, <1>3

-----------------------------------------------------------------------------
(* What a commit leaves.                                                   *)

Access == [revision : 1..MaxRevision, known : SUBSET Roles,
           permissions : [Roles -> SUBSET Actions],
           member : [Subjects -> Roles \cup {NoRole}]]

LEMMA CommitTyped ==
  ASSUME TypeOK, NEW c \in Calls, Admits(c), Commit(c)
  PROVE  /\ access' \in Access
         /\ status' \in [Subjects -> {"active", "disabled"}]
         /\ access'.revision = access.revision + 1
         /\ expected[c] = access.revision
<1> DEFINE next == Changed(c)
<1>1. /\ asked[c] \in Request /\ access \in Access
  BY AccessAssumption DEF TypeOK, Access
<1>2. next \in Access /\ next.revision = access.revision
  BY <1>1 DEF Changed, ChangedMember, SavedRole, Access, Request
<1>3. access.revision < MaxRevision /\ expected[c] = access.revision
  BY DEF Admits
<1>4. access' = [next EXCEPT !.revision = next.revision + 1]
  BY DEF Commit, Bump
<1>5. access' \in Access /\ access'.revision = access.revision + 1
  <2> HIDE DEF next
  <2> QED
    BY <1>1, <1>2, <1>3, <1>4, AccessAssumption DEF Access
<1>6. status' \in [Subjects -> {"active", "disabled"}]
  BY <1>1 DEF Commit, ChangedStatus, TypeOK, Request
<1> QED
  BY <1>3, <1>5, <1>6

LEMMA CommitKeepsOwner ==
  ASSUME TypeOK, NEW c \in Calls, Admits(c), Commit(c)
  PROVE  OwnerRemains'
<1> DEFINE next == Changed(c)
<1>1. /\ asked[c] \in Request /\ access \in Access
  BY AccessAssumption DEF TypeOK, Access
<1>2. next \in Access
  BY <1>1 DEF Changed, ChangedMember, SavedRole, Access, Request
<1>3. PICK s \in Subjects : RightsIn(next, ChangedStatus(c), s) = Actions
  BY DEF Admits, HasOwner
<1>4. access' = [next EXCEPT !.revision = next.revision + 1] /\ status' = ChangedStatus(c)
  BY DEF Commit, Bump
<1>5. access'.member = next.member /\ access'.permissions = next.permissions
  <2> HIDE DEF next
  <2> QED
    BY <1>2, <1>4 DEF Access
<1>6. RightsIn(access', status', s) = Actions
  BY <1>3, <1>4, <1>5 DEF RightsIn
<1> QED
  BY <1>6 DEF OwnerRemains, HasOwner

-----------------------------------------------------------------------------
(* Types.                                                                  *)

LEMMA TypeInit == Init => TypeOK
<1> SUFFICES ASSUME Init PROVE TypeOK
  OBVIOUS
<1>1. AnyRequest \in Requests
  BY AccessAssumption DEF AnyRequest
<1>2. access \in Access
  BY AccessAssumption DEF Init, Access, Roles, Presets, PresetActions
<1> QED
  BY <1>1, <1>2, AccessAssumption DEF Init, TypeOK, Labels, Access

LEMMA TypeStep == TypeOK /\ [Next]_vars => TypeOK'
<1> SUFFICES ASSUME TypeOK, [Next]_vars PROVE TypeOK'
  OBVIOUS
<1>1. CASE UNCHANGED vars
  BY <1>1 DEF TypeOK, vars, facts, input
<1>2. ASSUME NEW c \in Calls, Around(c) \/ Handle(c) \/ Write(c) PROVE TypeOK'
  <2>1. /\ access' \in Access
        /\ status' \in [Subjects -> {"active", "disabled"}]
    BY <1>2, OnlyCommitsChange, CommitTyped DEF TypeOK, Access, facts
  <2>2. AnyRequest \in Requests /\ 1 \in 1..MaxRevision
    BY AccessAssumption DEF AnyRequest
  <2>3. /\ asked' \in [Calls -> Requests] /\ expected' \in [Calls -> 1..MaxRevision]
        /\ pc' \in [Calls -> Labels]
        /\ granted' \in [Calls -> SUBSET Actions]
        /\ outcome' \in [Calls -> {"none", "success", "failure", "unknown"}]
        /\ effect' \in [Calls -> {"none", "read", "held", "changed"}]
        /\ trail' \in [Calls -> {"none", "intent", "success", "failure", "unknown"}]
        /\ answer' \in [Calls -> {"none", "ok", "refused", "unknown", "error", "lost"}]
    <3> USE <2>2 DEF TypeOK, Goto, Finish, End, Throw, Proceed, Record, input, Labels
    <3>1. CASE Submit(c)
      <4>1. \A e \in 1..access.revision : e \in 1..MaxRevision
        BY AccessAssumption
      <4> QED
        BY <3>1, <4>1 DEF Submit
    <3>2. CASE Around(c) /\ ~Submit(c)
      BY <3>2 DEF Around, Authorize, AuthorizeFails, Prepare, PrepareFails, Dispatch,
                  Break, Complete, CompleteFails, Disclose, DiscloseFails, Crash
    <3>3. CASE ReadRole(c)
      <4>1. asked[c].role \in Roles /\ access.permissions[asked[c].role] \subseteq Actions
        BY AccessAssumption DEF Request
      <4> QED
        BY <3>3, <4>1 DEF ReadRole
    <3>4. CASE Handle(c) /\ ~ReadRole(c)
      BY <3>4 DEF Handle, ReadAccess, ReadTarget, ReadRights, ReadBefore, ReadPreset,
                  ReadGrantable, ReadRevision, ReadDecisive, GoRevoke
    <3>5. CASE Write(c)
      BY <3>5 DEF Write, Mutate, MutateBreaks
    <3> QED
      BY <1>2, <3>1, <3>2, <3>3, <3>4, <3>5
  <2> QED
    BY <2>1, <2>3 DEF TypeOK, Access
<1> QED
  BY <1>1, <1>2 DEF Next

-----------------------------------------------------------------------------
(* The parts of the invariant.                                             *)

LEMMA OwnerStep ==
  TypeOK /\ OwnerRemains /\ [Next]_vars => OwnerRemains'
<1> SUFFICES ASSUME TypeOK, OwnerRemains, [Next]_vars PROVE OwnerRemains'
  OBVIOUS
<1>1. CASE UNCHANGED facts
  BY <1>1 DEF facts, OwnerRemains, HasOwner, RightsIn
<1>2. ASSUME NEW c \in Calls, Admits(c), Commit(c) PROVE OwnerRemains'
  BY <1>2, CommitKeepsOwner
<1> QED
  BY <1>1, <1>2, OnlyCommitsChange DEF Next, vars, facts

LEMMA ExpectedStep ==
  TypeOK /\ ExpectedWasRead /\ [Next]_vars => ExpectedWasRead'
<1> SUFFICES ASSUME TypeOK, ExpectedWasRead, [Next]_vars PROVE ExpectedWasRead'
  OBVIOUS
<1> USE DEF ExpectedWasRead
<1>0. access.revision \in 1..MaxRevision /\ expected \in [Calls -> 1..MaxRevision]
  BY DEF TypeOK
<1>1. CASE UNCHANGED vars
  BY <1>1 DEF vars, facts, input
<1>2. ASSUME NEW c \in Calls, Around(c) \/ Handle(c) \/ Write(c),
             NEW d \in Calls
      PROVE  expected'[d] <= access'.revision
  <2>1. access'.revision \in {access.revision, access.revision + 1}
    BY <1>2, OnlyCommitsChange, CommitTyped DEF facts
  <2>2. CASE d # c
    BY <1>0, <1>2, <2>1, <2>2, OthersStay, AccessAssumption
  <2>3. CASE d = c
    <3>1. expected'[c] = expected[c] \/ expected'[c] = 1 \/ expected'[c] \in 1..access.revision
      <4> USE <1>0 DEF Goto, Finish, End, Throw, Proceed, input
      <4>1. CASE Around(c)
        BY <4>1 DEF Around, Submit, Authorize, AuthorizeFails, Prepare, PrepareFails,
                    Dispatch, Break, Complete, CompleteFails, Disclose, DiscloseFails, Crash
      <4>2. CASE Handle(c)
        BY <4>2 DEF Handle, ReadAccess, ReadTarget, ReadRole, ReadRights, ReadBefore,
                    ReadPreset, ReadGrantable, ReadRevision, ReadDecisive, GoRevoke
      <4>3. CASE Write(c)
        BY <4>3 DEF Write, Mutate, MutateBreaks
      <4> QED
        BY <1>2, <4>1, <4>2, <4>3
    <3> QED
      BY <1>0, <2>1, <2>3, <3>1, AccessAssumption
  <2> QED
    BY <2>2, <2>3
<1> QED
  BY <1>1, <1>2 DEF Next

\* What CurrentWhenAdmitted says of one call.
Current(d) ==
  expected[d] = access.revision =>
    /\ pc[d] \in Handling => Authorized(d)
    /\ pc[d] \in {"rights", "before", "mutate"} /\ asked[d].method \in Assigning =>
         granted[d] = access.permissions[asked[d].role]
    /\ pc[d] \in {"before", "mutate"} /\ asked[d].method \in Assigning => MayAssign(d)
    /\ pc[d] = "mutate" /\ asked[d].method = "rolesSave" =>
         /\ "members.promote" \in Allowed(d)
         /\ asked[d].permissions \subseteq Allowed(d)

\* A call that nobody touches keeps it: if access changed, so did the revision.
LEMMA CurrentOfOthers ==
  ASSUME TypeOK, ExpectedWasRead, NEW c \in Calls, Around(c) \/ Handle(c) \/ Write(c),
         NEW d \in Calls, d # c, Current(d)
  PROVE  Current(d)'
<1>1. access.revision \in 1..MaxRevision /\ expected[d] <= access.revision
  BY DEF TypeOK, ExpectedWasRead
<1>2. CASE UNCHANGED facts
  BY <1>2, OthersStay
     DEF facts, Current, Authorized, Present, Allowed, Rights, RightsIn, Active, Bound,
         MayAssign
<1>3. CASE access'.revision = access.revision + 1
  <2>1. expected'[d] = expected[d]
    BY OthersStay
  <2> QED
    BY <1>1, <1>3, <2>1, AccessAssumption DEF Current, TypeOK
<1> QED
  BY <1>2, <1>3, OnlyCommitsChange, CommitTyped

\* The call that steps establishes it by what it has just asked.
LEMMA CurrentOfActing ==
  ASSUME TypeOK, NEW c \in Calls, Around(c) \/ Handle(c) \/ Write(c), Current(c)
  PROVE  Current(c)'
<1> USE DEF TypeOK, Goto, Finish, End, Throw, Proceed, Record, input, Handling, Assigning
<1>1. CASE pc'[c] \notin Handling
  BY <1>1 DEF Current
<1>2. CASE pc'[c] \in Handling
  <2>1. UNCHANGED <<facts, input>>
    BY <1>2 DEF Around, Handle, Write, Submit, Authorize, AuthorizeFails, Prepare,
       PrepareFails, Dispatch, Break, Complete, CompleteFails, Disclose, DiscloseFails,
       Crash, ReadAccess, ReadTarget, ReadRole, ReadRights, ReadBefore, ReadPreset,
       ReadGrantable, ReadRevision, ReadDecisive, GoRevoke, Mutate, MutateBreaks
  <2>2. /\ Authorized(c)' <=> Authorized(c)
        /\ Allowed(c)' = Allowed(c)
        /\ access' = access /\ asked' = asked /\ expected' = expected
    BY <2>1 DEF facts, Authorized, Present, Allowed, Rights, RightsIn, Active, Bound
  <2>3. granted'[c] = granted[c] => (MayAssign(c)' <=> MayAssign(c))
    BY <2>2 DEF MayAssign
  <2>4. CASE Dispatch(c)
    BY <1>2, <2>2, <2>4 DEF Dispatch, Current
  <2>5. CASE Handle(c)
    <3>1. CASE ReadTarget(c)
      BY <2>2, <3>1 DEF ReadTarget, Current
    <3>2. CASE ReadRole(c)
      BY <2>2, <3>2 DEF ReadRole, Current
    <3>3. CASE ReadRights(c)
      BY <1>2, <2>2, <2>3, <3>3 DEF ReadRights, Current
    <3>4. CASE ReadBefore(c)
      BY <1>2, <2>2, <2>3, <3>4 DEF ReadBefore, Current
    <3>5. CASE ReadPreset(c)
      BY <2>2, <3>5 DEF ReadPreset, Current
    <3>6. CASE ReadGrantable(c)
      BY <1>2, <2>2, <3>6 DEF ReadGrantable, Current
    <3>7. CASE ReadAccess(c) \/ ReadRevision(c) \/ ReadDecisive(c) \/ GoRevoke(c)
      BY <1>2, <2>2, <3>7 DEF ReadAccess, ReadRevision, ReadDecisive, GoRevoke, Current
    <3> QED
      BY <2>5, <3>1, <3>2, <3>3, <3>4, <3>5, <3>6, <3>7 DEF Handle
  <2> QED
    BY <1>2, <2>4, <2>5 DEF Around, Write, Submit, Authorize, AuthorizeFails, Prepare,
       PrepareFails, Break, Complete, CompleteFails, Disclose, DiscloseFails, Crash,
       Mutate, MutateBreaks
<1> QED
  BY <1>1, <1>2

LEMMA CurrentStep ==
  TypeOK /\ ExpectedWasRead /\ CurrentWhenAdmitted /\ [Next]_vars => CurrentWhenAdmitted'
<1> SUFFICES ASSUME TypeOK, ExpectedWasRead, CurrentWhenAdmitted, [Next]_vars
             PROVE  CurrentWhenAdmitted'
  OBVIOUS
<1>1. CurrentWhenAdmitted <=> \A d \in Calls : Current(d)
  BY DEF CurrentWhenAdmitted, Current
<1>2. CurrentWhenAdmitted' <=> \A d \in Calls : Current(d)'
  BY DEF CurrentWhenAdmitted, Current
<1>3. CASE UNCHANGED vars
  BY <1>1, <1>2, <1>3
     DEF vars, facts, input, Current, Authorized, Present, Allowed, Rights, RightsIn,
         Active, Bound, MayAssign
<1>4. ASSUME NEW c \in Calls, Around(c) \/ Handle(c) \/ Write(c), NEW d \in Calls
      PROVE  Current(d)'
  BY <1>1, <1>4, CurrentOfOthers, CurrentOfActing
<1> QED
  BY <1>2, <1>3, <1>4 DEF Next

\* RecordedSoFar, TrailTellsTheTruth and AnswersTellTheTruth, of one call.
Recorded(d) ==
  /\ pc[d] \in {"authorize", "prepare"} => trail[d] = "none" /\ effect[d] = "none"
  /\ pc[d] \in Handling \cup {"dispatch"} => trail[d] = "intent" /\ effect[d] = "none"
  /\ pc[d] = "complete" =>
       /\ trail[d] = "intent" /\ outcome[d] # "none"
       /\ outcome[d] = "success" => effect[d] # "none"
       /\ outcome[d] = "failure" => effect[d] = "none"
  /\ pc[d] = "disclose" => trail[d] = "success" /\ effect[d] # "none"
  /\ pc[d] \in {"role", "rights", "before", "mutate"} => Writes(d)
  /\ pc[d] \in {"complete", "disclose"} /\ ~Writes(d) => effect[d] \in {"none", "read"}
  /\ pc[d] # "idle" => answer[d] = "none"

Truthful(d) ==
  /\ trail[d] = "success" => effect[d] # "none"
  /\ trail[d] = "failure" => effect[d] = "none"
  /\ effect[d] # "none" => trail[d] # "none"
  /\ answer[d] = "ok" => effect[d] # "none" /\ trail[d] = "success"
  /\ answer[d] \in {"refused", "error"} => effect[d] \in {"none", "read"}

\* Handlers and writes start from a recorded intent and end in "complete".
LEMMA RecordedByHandler ==
  ASSUME TypeOK, NEW c \in Calls, Handle(c) \/ Write(c), Recorded(c), Truthful(c)
  PROVE  Recorded(c)' /\ Truthful(c)'
<1> USE DEF TypeOK, Goto, End, Throw, Proceed, input, Handling, Recorded, Truthful, Writes
<1>1. CASE Handle(c)
  BY <1>1 DEF Handle, ReadAccess, ReadTarget, ReadRole, ReadRights, ReadBefore, ReadPreset,
              ReadGrantable, ReadRevision, ReadDecisive, GoRevoke
<1>2. CASE Write(c)
  BY <1>2 DEF Write, Mutate, MutateBreaks, Held
<1> QED
  BY <1>1, <1>2

\* The steps around them record what happened and tell what is on record.
LEMMA RecordedAround ==
  ASSUME TypeOK, NEW c \in Calls, Around(c), Recorded(c), Truthful(c)
  PROVE  Recorded(c)' /\ Truthful(c)'
<1> USE DEF TypeOK, Goto, Finish, End, Throw, Proceed, Record, input, Handling, Recorded,
            Truthful
<1>1. CASE Submit(c)
  BY <1>1 DEF Submit
<1>2. CASE Authorize(c) \/ AuthorizeFails(c) \/ Prepare(c) \/ PrepareFails(c)
  BY <1>2 DEF Authorize, AuthorizeFails, Prepare, PrepareFails
<1>3. CASE Dispatch(c) \/ Break(c)
  BY <1>3 DEF Dispatch, Break, Writes
<1>4. CASE Complete(c) \/ CompleteFails(c)
  BY <1>4 DEF Complete, CompleteFails, Writes
<1>5. CASE Disclose(c) \/ DiscloseFails(c) \/ Crash(c)
  BY <1>5 DEF Disclose, DiscloseFails, Crash
<1> QED
  BY <1>1, <1>2, <1>3, <1>4, <1>5 DEF Around

Truth == RecordedSoFar /\ TrailTellsTheTruth /\ AnswersTellTheTruth

LEMMA TruthStep ==
  TypeOK /\ Truth /\ [Next]_vars => Truth'
<1> SUFFICES ASSUME TypeOK, Truth, [Next]_vars PROVE Truth'
  OBVIOUS
<1>1. /\ Truth <=> \A d \in Calls : Recorded(d) /\ Truthful(d)
      /\ Truth' <=> \A d \in Calls : Recorded(d)' /\ Truthful(d)'
  BY DEF Truth, RecordedSoFar, TrailTellsTheTruth, AnswersTellTheTruth, Recorded, Truthful,
         Writes
<1>2. CASE UNCHANGED vars
  BY <1>1, <1>2 DEF vars, facts, input, Recorded, Truthful, Writes
<1>3. ASSUME NEW c \in Calls, Around(c) \/ Handle(c) \/ Write(c), NEW d \in Calls
      PROVE  Recorded(d)' /\ Truthful(d)'
  <2>1. CASE d = c
    BY <1>1, <1>3, <2>1, RecordedByHandler, RecordedAround
  <2>2. CASE d # c
    BY <1>1, <1>3, <2>2, OthersStay DEF Recorded, Truthful, Writes
  <2> QED
    BY <2>1, <2>2
<1> QED
  BY <1>1, <1>2, <1>3 DEF Next

-----------------------------------------------------------------------------
(* The theorems.                                                           *)

LEMMA InvInit == Init => IInv
<1> SUFFICES ASSUME Init PROVE IInv
  OBVIOUS
<1>1. RightsIn(access, status, Owner) = Actions
  BY AccessAssumption DEF Init, RightsIn, PresetActions, Roles, Presets, NoRole
<1>2. OwnerRemains
  BY <1>1, AccessAssumption DEF OwnerRemains, HasOwner
<1> QED
  BY <1>2, TypeInit
     DEF IInv, Init, ExpectedWasRead, CurrentWhenAdmitted, RecordedSoFar, Handling,
         TrailTellsTheTruth, AnswersTellTheTruth

LEMMA InvStep == IInv /\ [Next]_vars => IInv'
BY TypeStep, OwnerStep, ExpectedStep, CurrentStep, TruthStep DEF IInv, Truth

\* The invariant is inductive, whatever the accounts, roles, requests and calls.
THEOREM Inductive == Spec => []IInv
<1>1. Init => IInv
  BY InvInit
<1>2. IInv /\ [Next]_vars => IInv'
  BY InvStep
<1> QED
  BY <1>1, <1>2, PTL DEF Spec

\* Every variable keeps its type: the revision never passes its last value.
THEOREM TypeCorrect == Spec => []TypeOK
<1>1. IInv => TypeOK
  BY DEF IInv
<1> QED
  BY <1>1, Inductive, PTL

\* However calls race, an active account that holds every action is left.
THEOREM AnOwnerRemains == Spec => []OwnerRemains
<1>1. IInv => OwnerRemains
  BY DEF IInv
<1> QED
  BY <1>1, Inductive, PTL

\* What is on record of a call is so.
THEOREM TrailIsTrue == Spec => []TrailTellsTheTruth
<1>1. IInv => TrailTellsTheTruth
  BY DEF IInv
<1> QED
  BY <1>1, Inductive, PTL

\* What a caller is told is so.
THEOREM AnswersAreTrue == Spec => []AnswersTellTheTruth
<1>1. IInv => AnswersTellTheTruth
  BY DEF IInv
<1> QED
  BY <1>1, Inductive, PTL

\* Where a commit is made, what its call has read is current.
LEMMA AdmittedIsCurrent ==
  ASSUME IInv, NEW c \in Calls, pc[c] = "mutate", Admits(c), Commit(c)
  PROVE  Current(c) /\ expected[c] = access.revision /\ Authorized(c) /\ Writes(c)
<1>1. Current(c)
  BY DEF IInv, CurrentWhenAdmitted, Current
<1>2. expected[c] = access.revision
  BY CommitTyped DEF IInv
<1> QED
  BY <1>1, <1>2 DEF Current, Handling, IInv, RecordedSoFar

\* The rights a commit leaves to a subject, against those it had.
LEMMA GainedByCommit ==
  ASSUME IInv, NEW c \in Calls, pc[c] = "mutate", Admits(c), Commit(c), NEW s \in Subjects
  PROVE  /\ Gained(s) \subseteq Allowed(c)
         /\ Gained(s) \subseteq ReadOnly \/ "members.promote" \in Allowed(c)
<1> DEFINE r == asked[c]
<1>1. /\ r \in Request /\ access \in Access
      /\ status \in [Subjects -> {"active", "disabled"}]
  BY AccessAssumption DEF IInv, TypeOK, Access
<1>2. Current(c) /\ expected[c] = access.revision /\ Writes(c)
  BY AdmittedIsCurrent
<1>3. access'.member = Changed(c).member /\ access'.permissions = Changed(c).permissions
  <2>1. Changed(c) \in Access
    BY <1>1 DEF Changed, ChangedMember, SavedRole, Access, Request
  <2> QED
    BY <2>1 DEF Commit, Bump, Access
<1>4. CASE r.method = "usersDisable"
  <2>1. /\ access'.member = access.member /\ access'.permissions = access.permissions
        /\ status'[s] = "active" => status[s] = "active"
    BY <1>1, <1>3, <1>4 DEF Changed, Commit, ChangedStatus, Request
  <2> QED
    BY <2>1 DEF Gained, RightsIn, Rights
<1>5. CASE r.method = "rolesSave"
  <2>1. /\ access'.member = access.member /\ status' = status
        /\ access'.permissions = [access.permissions EXCEPT ![r.role] = r.permissions]
    BY <1>1, <1>3, <1>5 DEF Changed, SavedRole, Commit, ChangedStatus, Access
  <2>2. access.member[s] # NoRole => access.member[s] \in Roles
    BY <1>1 DEF Access
  <2>3. Gained(s) \subseteq r.permissions
    BY <1>1, <2>1, <2>2 DEF Gained, RightsIn, Rights, Access, Request
  <2> QED
    BY <1>2, <1>5, <2>3, AdmittedIsCurrent DEF Current
<1>6. CASE r.method \notin {"usersDisable", "rolesSave"}
  <2>1. /\ access'.permissions = access.permissions /\ status' = status
        /\ access'.member = ChangedMember(c)
    BY <1>1, <1>3, <1>6 DEF Changed, Commit, ChangedStatus, Access
  <2>2. CASE r.method = "membersRevoke"
    BY <1>1, <2>1, <2>2 DEF ChangedMember, Gained, RightsIn, Rights, Access, Request
  <2>3. CASE r.method \in Assigning
    <3>1. Gained(s) \subseteq access.permissions[r.role]
      BY <1>1, <2>1, <2>3
         DEF ChangedMember, Gained, RightsIn, Rights, Access, Request, Assigning
    <3>2. granted[c] = access.permissions[r.role] /\ MayAssign(c)
      BY <1>2, <2>3 DEF Current
    <3> QED
      BY <3>1, <3>2 DEF MayAssign
  <2> QED
    BY <1>1, <1>2, <1>6, <2>2, <2>3 DEF Request, Required, Writes, Assigning
<1> QED
  BY <1>4, <1>5, <1>6

\* A step that changes access is the commit of one call, its author.
LEMMA OneAuthor ==
  ASSUME IInv, Next, facts' # facts
  PROVE  \E c \in Calls :
           /\ pc[c] = "mutate" /\ Admits(c) /\ Commit(c) /\ Author(c)
           /\ \A d \in Calls : Author(d) => d = c
<1>1. PICK c \in Calls : Around(c) \/ Handle(c) \/ Write(c)
  BY DEF Next
<1>2. /\ pc[c] = "mutate" /\ Admits(c) /\ Commit(c)
      /\ \E how \in {"success", "unknown"} : End(c, how, "changed")
  BY <1>1, OnlyCommitsChange
<1>3. Author(c)
  BY <1>2 DEF End, Author, IInv, TypeOK, RecordedSoFar, Handling
<1>4. ASSUME NEW d \in Calls, Author(d) PROVE d = c
  BY <1>1, <1>4, OthersStay DEF Author, IInv
<1> QED
  BY <1>2, <1>3, <1>4

\* Access changes on behalf of somebody who holds what the method requires then.
THEOREM ChangesAreAuthorized == Spec => AuthorizedAtCommit
<1>1. IInv /\ [Next]_vars =>
        [facts' # facts => \E c \in Calls : Author(c) /\ Authorized(c)]_vars
  BY OneAuthor, AdmittedIsCurrent DEF vars
<1> QED
  BY <1>1, Inductive, PTL DEF Spec, AuthorizedAtCommit

\* Nobody gives away what he does not hold, whatever he had read before.
THEOREM GainsAreWithinRights == Spec => GainsWithinRights
<1>1. IInv /\ [Next]_vars =>
        [facts' # facts =>
           \A c \in Calls, s \in Subjects : Author(c) =>
             /\ Gained(s) \subseteq Allowed(c)
             /\ Gained(s) \subseteq ReadOnly \/ "members.promote" \in Allowed(c)]_vars
  BY OneAuthor, GainedByCommit DEF vars
<1> QED
  BY <1>1, Inductive, PTL DEF Spec, GainsWithinRights

\* No decision's facts change under a revision.
THEOREM RevisionCovers == Spec => RevisionCoversStanding
<1>1. IInv /\ [Next]_vars => [facts' # facts => access'.revision = access.revision + 1]_vars
  BY OneAuthor, CommitTyped DEF IInv, vars
<1> QED
  BY <1>1, Inductive, PTL DEF Spec, RevisionCoversStanding
=============================================================================
