------------------------ MODULE DashboardStoresProofs ------------------------
(***************************************************************************)
(* Proofs about the two wrappers of DashboardStores.                       *)
(*                                                                         *)
(* The authorized store.  A save asks the application's policy one widget  *)
(* at a time while the policy changes.  What makes the answers add up is   *)
(* that they count for nothing unless the permission revision at the end   *)
(* is the one at the start: the invariant therefore says what holds of the *)
(* draft IF the attempt is still Fresh, and the checks at the end of each  *)
(* phase turn that into what holds of it whatever changes afterwards.      *)
(***************************************************************************)
EXTENDS DashboardStores, TLAPS

\* No permission of the attempt's principal has changed since it began.
Fresh(a) == Revision(PrincipalOf[a]) = permission[a]

\* The grants of a principal: there is a first one, and the count is bounded.
RightsAreKept ==
  \A p \in Principals : Len(rights[p]) \in 1..MaxRevision

\* A document somebody has seen is the present one, or of an earlier revision.
RowMovesOn ==
  /\ row # NoRow => row.revision >= 1
  /\ \A a \in Attempts :
       /\ view[a].revision <= Current(row).revision
       /\ view[a].revision = Current(row).revision => view[a] = Current(row)

\* An attempt was admitted under a grant that exists.
Granting(a) == pc[a] # "idle" => permission[a] \in 1..Revision(PrincipalOf[a])

Saving == {"restore", "check", "recheck", "authorize"}
Visiting(a, label) == IF pc[a] = label THEN todo[a] ELSE {}

\* An instance that was put back is the old one, but for the place of one the
\* author may use; one that was not is no stale one, and its author may use it.
PutBack(a, i) ==
  LET before == view[a].doc[i]
      after == draft[a][i]
  IN  IF i \in fixed[a]
      THEN \/ after = before
           \/ /\ after # Absent /\ after = [before EXCEPT !.place = after.place]
              /\ Fresh(a) => before.widget \in Granted(a).widgets
      ELSE ~Stale(a, before) /\ (Fresh(a) => before.widget \in Granted(a).widgets)

\* The draft of a save, from the first instance put back to the last question.
Editing(a) ==
  /\ pc[a] \in {"idle", "admit", "load", "run"} => fixed[a] = {}
  /\ pc[a] \in Saving =>
       /\ ~Reading(a) /\ staged[a] = NoWrite /\ view[a].revision = request[a].expected
       /\ fixed[a] \subseteq Present(view[a].doc) \ Visiting(a, "restore")
       /\ \A i \in Present(view[a].doc) \ Visiting(a, "restore") : PutBack(a, i)
  /\ pc[a] = "restore" => todo[a] \subseteq Present(view[a].doc)
  /\ pc[a] = "check" => todo[a] \subseteq Present(draft[a]) \ fixed[a]
  /\ pc[a] \in {"check", "recheck", "authorize"} =>
       \A i \in Present(draft[a]) \ (fixed[a] \cup Visiting(a, "check")) :
         Fresh(a) => draft[a][i].widget \in Granted(a).widgets

\* What one place of a staged document may be, by what it was.
Kept(a, before, after) ==
  /\ before # after =>
       {c.widget : c \in {before, after} \ {Absent}} \subseteq Granted(a).widgets
  /\ before # Absent /\ Stale(a, before) =>
       after # Absent /\ after = [before EXCEPT !.place = after.place]

\* What is staged follows the document that was loaded, place by place.
Writing(a) ==
  /\ staged[a] # NoWrite =>
       /\ pc[a] \in {"project", "confirm", "dispatch", "persist", "done"}
       /\ ~Reading(a) /\ view[a].revision = request[a].expected
       /\ staged[a].revision = view[a].revision + 1
       /\ \A i \in Instances : Kept(a, view[a].doc[i], staged[a].doc[i])
  /\ pc[a] \in {"dispatch", "persist"} => staged[a] # NoWrite
  /\ pc[a] = "permit" => ~Reading(a) /\ found[a] # NoMutation
  /\ pc[a] \in {"project", "confirm"} /\ staged[a] = NoWrite /\ ~Reading(a) =>
       found[a] # NoMutation

Harmless(a, cell) == cell.config = Redacted \/ cell.widget \in Granted(a).widgets

\* The projection: harmless so far if nothing changed, and then for good.
Projecting(a) ==
  /\ pc[a] \in {"recheck", "authorize", "project", "confirm", "dispatch", "persist"} =>
       draft[a] \in Documents
  /\ pc[a] = "project" => todo[a] \subseteq Present(draft[a])
  /\ pc[a] \in {"project", "confirm"} /\ Fresh(a) =>
       \A i \in Present(draft[a]) \ Visiting(a, "project") : Harmless(a, draft[a][i])
  /\ pc[a] \in {"dispatch", "persist"} =>
       Granted(a).read /\ \A i \in Present(draft[a]) : Harmless(a, draft[a][i])
  /\ shown[a] # Absent =>
       /\ pc[a] = "done" /\ Granted(a).read
       /\ \A i \in Present(shown[a]) : Harmless(a, shown[a][i])

Sound(a) == Granting(a) /\ Editing(a) /\ Writing(a) /\ Projecting(a)

SaveInv == TypeOK /\ RightsAreKept /\ RowMovesOn /\ \A a \in Attempts : Sound(a)

-----------------------------------------------------------------------------
(* Cells and documents.                                                    *)

Layouts == [Instances -> Cells \cup {Absent}]

LEMMA CellParts ==
  ASSUME NEW c \in Cells, NEW x
  PROVE  /\ [c EXCEPT !.config = x] = [widget |-> c.widget, config |-> x, place |-> c.place]
         /\ [c EXCEPT !.place = x] = [widget |-> c.widget, config |-> c.config, place |-> x]
         /\ c # Absent
<1>1. c # Absent /\ c = [widget |-> c.widget, config |-> c.config, place |-> c.place]
  BY DocumentsAssumption
<1>2. ASSUME NEW w, NEW f, NEW p
      PROVE  LET r == [widget |-> w, config |-> f, place |-> p]
             IN  /\ [r EXCEPT !.config = x] = [widget |-> w, config |-> x, place |-> p]
                 /\ [r EXCEPT !.place = x] = [widget |-> w, config |-> f, place |-> x]
  OBVIOUS
<1> QED
  BY <1>1, <1>2

\* Hiding the config of an instance leaves a document.
LEMMA HidingIsLaid ==
  ASSUME NEW doc \in Documents, NEW i \in Present(doc),
         NEW x \in {doc[i].config, Redacted}
  PROVE  /\ [doc EXCEPT ![i].config = x] \in Documents
         /\ [doc EXCEPT ![i].config = x][i] \in Cells
<1> DEFINE new == [doc EXCEPT ![i].config = x]
<1>1. doc \in Layouts /\ Laid(doc) /\ doc[i] \in Cells /\ i \in Instances
  BY DocumentsAssumption DEF Layouts, Present
<1>2. new[i] = [widget |-> doc[i].widget, config |-> x, place |-> doc[i].place]
  BY <1>1, CellParts DEF Layouts
<1>3. new[i] \in Cells
  <2>1. CASE x = Redacted
    BY <1>1, <2>1, DocumentsAssumption DEF Layouts
  <2>2. CASE x = doc[i].config
    BY <1>1, <1>2, <2>2, DocumentsAssumption
  <2> QED
    BY <2>1, <2>2
<1>4. new \in Layouts
  BY <1>1, <1>3 DEF Layouts
<1>5. \A j \in Instances : (new[j] # Absent <=> doc[j] # Absent) /\ (doc[j] # Absent =>
                              new[j].place = doc[j].place)
  <2> SUFFICES ASSUME NEW j \in Instances
               PROVE  (new[j] # Absent <=> doc[j] # Absent) /\ new[j].place = doc[j].place
    OBVIOUS
  <2>1. CASE j # i
    BY <1>1, <2>1 DEF Layouts
  <2>2. CASE j = i
    <3>1. new[i].place = doc[i].place
      BY <1>2
    <3> QED
      BY <1>1, <1>3, <2>2, <3>1, DocumentsAssumption
  <2> QED
    BY <2>1, <2>2
<1>6. Laid(new)
  BY <1>1, <1>5 DEF Laid
<1> QED
  BY <1>3, <1>4, <1>6, DocumentsAssumption DEF Layouts

-----------------------------------------------------------------------------
(* Types.                                                                  *)

LEMMA SnapshotsAreDocuments ==
  ASSUME TypeOK, NEW a \in Attempts
  PROVE  /\ view[a] \in Snapshots /\ view[a].doc \in Documents
         /\ Current(row) \in Snapshots /\ Current(row).doc \in Documents
         /\ found[a] # NoMutation =>
              found[a].snapshot \in Snapshots /\ found[a].snapshot.doc \in Documents
         /\ staged[a] # NoWrite => staged[a] \in Snapshots
         /\ ~Reading(a) => request[a] \in Requests /\ request[a].id \in MutationIds
                            /\ request[a].doc \in Documents /\ request[a].expected \in Nat
         /\ Documents \subseteq Layouts
<1>1. Documents \subseteq Layouts
  BY DocumentsAssumption DEF Layouts
<1> QED
  BY <1>1, RequestsAssumption, DefaultsAssumption
     DEF TypeOK, SharedTypeOK, Snapshots, Mutations, Current, Reading

LEMMA FinishTyped ==
  ASSUME TypeOK, NEW a \in Attempts, NEW value \in Answers, Finish(a, value)
  PROVE  /\ pc' \in [Attempts -> Labels] /\ answer' \in [Attempts -> Answers]
         /\ UNCHANGED <<request, view, found, staged>>
BY DEF TypeOK, SharedTypeOK, Finish, Settle, Goto, Labels

LEMMA ReplyTyped ==
  ASSUME TypeOK, NEW a \in Attempts, NEW value \in Answers, Reply(a, value)
  PROVE  TypeOK'
BY FinishTyped DEF TypeOK, SharedTypeOK, Reply, stored, policy

LEMMA VisitTyped ==
  ASSUME TypeOK, NEW a \in Attempts, NEW label \in Labels, NEW doc \in Layouts,
         NEW instances \in SUBSET Instances, Visit(a, label, doc, instances),
         fixed' \in [Attempts -> SUBSET Instances]
  PROVE  TypeOK'
BY DEF TypeOK, SharedTypeOK, Visit, Keep, Goto, stored, Layouts

LEMMA LeaveTyped ==
  ASSUME TypeOK, NEW a \in Attempts, NEW label \in Labels, Leave(a, label)
  PROVE  TypeOK'
<1>1. draft[a] \in Layouts /\ {} \in SUBSET Instances
      /\ fixed' \in [Attempts -> SUBSET Instances]
  BY DEF Leave, TypeOK, Layouts
<1>2. Visit(a, label, draft[a], {})
  BY DEF Leave
<1> QED
  BY <1>1, <1>2, VisitTyped

LEMMA DocsAndFixed ==
  ASSUME TypeOK, NEW a \in Attempts
  PROVE  /\ draft[a] \in Layouts /\ todo[a] \in SUBSET Instances
         /\ fixed \in [Attempts -> SUBSET Instances]
         /\ \A doc : Present(doc) \in SUBSET Instances
BY DEF TypeOK, Layouts, Present

LEMMA AnswersTyped ==
  ASSUME NEW status \in {"conflict", "collision", "refused"}
  PROVE  Answered(status) \in Answers
BY DEF Answered, Answers

LEMMA SavedTyped ==
  ASSUME NEW s \in Snapshots
  PROVE  Saved(s) \in Answers
BY DEF Saved, Answers, Snapshots

LEMMA NextOne ==
  ASSUME TypeOK, NEW a \in Attempts, todo[a] # {}
  PROVE  Next1(a) \in todo[a] /\ Next1(a) \in Instances
BY DEF Next1, TypeOK

LEMMA StepTyped ==
  ASSUME SaveInv, NEW a \in Attempts, Start(a) \/ Step(a)
  PROVE  TypeOK'
<1> USE SnapshotsAreDocuments, DocsAndFixed, AnswersTyped
<1>0. TypeOK
  BY DEF SaveInv
<1>1. CASE Start(a)
  <2>1. Revision(PrincipalOf[a]) \in 0..MaxRevision
    BY <1>0, PolicyAssumption DEF SaveInv, RightsAreKept, Revision
  <2> QED
    BY <1>0, <1>1, <2>1 DEF Start, TypeOK, SharedTypeOK, Goto, stored, Labels
<1>2. CASE Admit(a)
  BY <1>0, <1>2, ReplyTyped
     DEF Admit, Deny, Keep, TypeOK, SharedTypeOK, Goto, stored, policy, Labels
<1>3. CASE Load(a)
  <2>1. IF Reading(a) THEN found'[a] = NoMutation ELSE found'[a] = mutations[request[a].id]
    BY <1>0, <1>3 DEF Load, TypeOK, SharedTypeOK
  <2>2. found'[a] \in Mutations \cup {NoMutation}
    BY <1>0, <2>1 DEF TypeOK, SharedTypeOK
  <2> QED
    BY <1>0, <1>3, <2>1, <2>2
       DEF Load, TypeOK, SharedTypeOK, Goto, stored, policy, Labels
<1>4. CASE Run(a)
  <2>1. CASE Reading(a)
    BY <1>0, <1>4, <2>1, VisitTyped DEF Run, Project, Labels
  <2>2. CASE ~Reading(a) /\ found[a] # NoMutation
    BY <1>0, <1>4, <2>2, ReplyTyped
       DEF Run, Keep, TypeOK, SharedTypeOK, Goto, stored, policy, Labels
  <2>3. CASE ~Reading(a) /\ found[a] = NoMutation
    BY <1>0, <1>4, <2>3, ReplyTyped, VisitTyped DEF Run, Labels
  <2> QED
    BY <2>1, <2>2, <2>3
<1>5. CASE Permit(a)
  <2>1. found[a] # NoMutation
    BY <1>5 DEF SaveInv, Sound, Writing, Permit
  <2> QED
    BY <1>0, <1>5, <2>1, ReplyTyped, VisitTyped DEF Permit, Deny, Project, Labels
<1>6. CASE RestoreDone(a) \/ RecheckDone(a) \/ ProjectDone(a)
  BY <1>0, <1>6, LeaveTyped, VisitTyped DEF RestoreDone, RecheckDone, ProjectDone, Labels
<1>7. CASE CheckDone(a)
  BY <1>0, <1>7, VisitTyped, ReplyTyped DEF CheckDone, Deny, Labels
<1>8. CASE Recheck(a)
  <2>1. CASE Deny(a)
    BY <1>0, <2>1, ReplyTyped DEF Deny
  <2>2. CASE /\ Visited(a, Next1(a)) /\ Keep(a)
             /\ UNCHANGED <<pc, permission, draft, fixed, shown>>
    BY <1>0, <2>2 DEF Visited, Keep, TypeOK, SharedTypeOK, stored
  <2> QED
    BY <1>8, <2>1, <2>2 DEF Recheck
<1>9. CASE Stage(a)
  <2>1. draft[a] \in Documents
    BY <1>9 DEF SaveInv, Sound, Projecting, Stage
  <2>2. CASE Authorized(a, TRUE)
    <3>1. [revision |-> view[a].revision + 1, doc |-> draft[a]] \in Snapshots
      BY <1>0, <2>1 DEF Snapshots
    <3>2. Present(draft[a]) \in SUBSET Instances
      BY DEF Present
    <3>3. staged' \in [Attempts -> Snapshots \cup {NoWrite}]
      <4>1. staged' = [staged EXCEPT ![a] = [revision |-> view[a].revision + 1,
                                             doc |-> draft[a]]]
        BY <1>9, <2>2 DEF Stage
      <4> QED
        BY <1>0, <3>1, <4>1 DEF TypeOK, SharedTypeOK
    <3>4. pc' \in [Attempts -> Labels] /\ todo' \in [Attempts -> SUBSET Instances]
      BY <1>0, <1>9, <2>2, <3>2 DEF Stage, TypeOK, SharedTypeOK, Goto, Labels
    <3> QED
      BY <1>0, <1>9, <2>2, <3>3, <3>4 DEF Stage, TypeOK, SharedTypeOK, stored
  <2> QED
    BY <1>0, <1>9, <2>2, ReplyTyped DEF Stage, Deny
<1>10. CASE Confirm(a)
  <2>1. pc[a] = "confirm" /\ draft[a] \in Documents
    BY <1>10 DEF SaveInv, Sound, Projecting, Confirm
  <2>2. CASE Authorized(a, FALSE) /\ staged[a] = NoWrite
    <3>1. Reading(a) \/ found[a] # NoMutation
      BY <2>1, <2>2 DEF SaveInv, Sound, Writing
    <3>2. (IF Reading(a) THEN Pending ELSE Saved(found[a].snapshot)) \in Answers
      BY <1>0, <3>1, SavedTyped DEF Pending, Answers, Answered
    <3> QED
      BY <1>0, <1>10, <2>1, <2>2, <3>2, FinishTyped
         DEF Confirm, Return, TypeOK, SharedTypeOK, stored
  <2> QED
    BY <1>0, <1>10, <2>2, ReplyTyped, LeaveTyped DEF Confirm, Deny, Labels
<1>11. CASE BeforeDispatch(a)
  BY <1>0, <1>11, ReplyTyped, LeaveTyped DEF BeforeDispatch, Deny, Labels
<1>12. CASE Stop(a)
  BY <1>0, <1>12, ReplyTyped DEF Stop, Deny
<1>13. CASE Restore(a)
  <2> DEFINE i == Next1(a)  original == view[a].doc[i]
             immutable == ~CanUse(a, original) \/ Stale(a, original)
             new == IF immutable THEN Restored(a, original, draft[a][i]) ELSE draft[a][i]
  <2>1. i \in Instances /\ original \in Cells
    BY <1>0, <1>13, NextOne DEF Restore, SaveInv, Sound, Editing, Present, Layouts
  <2>2. new \in Cells \cup {Absent}
    <3>1. draft[a][i] \in Cells \cup {Absent}
      BY <1>0, <2>1 DEF Layouts
    <3>2. draft[a][i] \in Cells => [original EXCEPT !.place = draft[a][i].place] \in Cells
      BY <2>1, DocumentsAssumption
    <3> QED
      BY <2>1, <3>1, <3>2 DEF Restored
  <2>3. draft' = [draft EXCEPT ![a] = [@ EXCEPT ![i] = new]]
    BY <1>0, <1>13, <2>1 DEF Restore, TypeOK
  <2> HIDE DEF new, original, immutable
  <2> QED
    BY <1>0, <1>13, <2>1, <2>2, <2>3
       DEF Restore, Visited, Keep, TypeOK, SharedTypeOK, stored
<1>14. CASE Check(a)
  <2> DEFINE i == Next1(a)  cell == draft[a][i]  config == Parse[cell.config]
  <2>1. i \in Instances /\ cell \in Cells
    BY <1>0, <1>14, NextOne DEF Check, SaveInv, Sound, Editing, Present, Layouts
  <2>2. CASE ~CanUse(a, cell) \/ Stale(a, cell) \/ config = Refused
    BY <1>0, <1>14, <2>2, ReplyTyped DEF Check, Deny
  <2>3. CASE ~(~CanUse(a, cell) \/ Stale(a, cell) \/ config = Refused)
    <3>1. [cell EXCEPT !.config = config] \in Cells
      BY <2>1, <2>3, DocumentsAssumption
    <3>2. draft' = [draft EXCEPT ![a] = [@ EXCEPT ![i] = [cell EXCEPT !.config = config]]]
      BY <1>0, <1>14, <2>1, <2>3 DEF Check, TypeOK
    <3> HIDE DEF cell, config
    <3> QED
      <4>1. draft' \in [Attempts -> Layouts]
        BY <1>0, <2>1, <3>1, <3>2 DEF TypeOK, Layouts
      <4>2. Visited(a, i) /\ Keep(a) /\ UNCHANGED <<pc, permission, fixed, shown>>
        BY <1>14, <2>3 DEF Check, cell, config
      <4> QED
        BY <1>0, <4>1, <4>2 DEF Visited, Keep, TypeOK, SharedTypeOK, stored, Layouts
  <2> QED
    BY <2>2, <2>3
<1>15. CASE ProjectOne(a)
  <2> DEFINE i == Next1(a)  cell == draft[a][i]
             x == IF CanUse(a, cell) THEN cell.config ELSE Redacted
  <2>1. i \in Instances /\ i \in Present(draft[a]) /\ draft[a] \in Documents
    BY <1>0, <1>15, NextOne DEF ProjectOne, SaveInv, Sound, Projecting, Present
  <2>2. [draft[a] EXCEPT ![i].config = x] \in Documents
    BY <2>1, HidingIsLaid
  <2>3. draft' = [draft EXCEPT ![a] = [draft[a] EXCEPT ![i].config = x]]
    BY <1>0, <1>15, <2>1 DEF ProjectOne, TypeOK
  <2> HIDE DEF x
  <2>4. draft' \in [Attempts -> Layouts]
    BY <1>0, <2>2, <2>3 DEF TypeOK, Layouts
  <2> QED
    BY <1>0, <1>15, <2>1, <2>4
       DEF ProjectOne, Visited, Keep, TypeOK, SharedTypeOK, stored, Layouts
<1>16. CASE Persist(a)
  <2> DEFINE previous == mutations[request[a].id]  verified == Verified(a, previous)
  <2>1. /\ staged[a] \in Snapshots /\ ~Reading(a) /\ draft[a] \in Documents
        /\ request[a] \in Requests
    BY <1>0, <1>16 DEF SaveInv, Sound, Projecting, Writing, Persist
  <2>2. verified \in Answers
    BY <2>1, SavedTyped DEF Verified
  <2>3. Entry(a) \in Mutations /\ Saved(staged[a]) \in Answers
    BY <1>0, <2>1, SavedTyped, RequestsAssumption
       DEF Entry, Mutations, Fingerprint, Fingerprints
  <2>4. CASE Return(a, verified) /\ UNCHANGED stored
    BY <1>0, <2>1, <2>2, <2>4, FinishTyped
       DEF Return, TypeOK, SharedTypeOK, stored
  <2>5. CASE Reply(a, verified) \/ Reply(a, Answered("conflict"))
    BY <1>0, <2>2, <2>5, ReplyTyped
  <2>6. CASE /\ Return(a, Saved(staged[a])) /\ row' = staged[a]
             /\ mutations' = [mutations EXCEPT ![request[a].id] = Entry(a)]
    BY <1>0, <2>1, <2>3, <2>6, FinishTyped
       DEF Return, TypeOK, SharedTypeOK
  <2> QED
    BY <1>16, <2>4, <2>5, <2>6 DEF Persist
<1> QED
  BY <1>1, <1>2, <1>3, <1>4, <1>5, <1>6, <1>7, <1>8, <1>9, <1>10, <1>11, <1>12, <1>13,
     <1>14, <1>15, <1>16 DEF Step

-----------------------------------------------------------------------------
(* A step of one attempt leaves the others alone.                          *)

Untouched(b) ==
  /\ pc'[b] = pc[b] /\ request'[b] = request[b] /\ view'[b] = view[b]
  /\ found'[b] = found[b] /\ staged'[b] = staged[b] /\ permission'[b] = permission[b]
  /\ draft'[b] = draft[b] /\ todo'[b] = todo[b] /\ fixed'[b] = fixed[b]
  /\ shown'[b] = shown[b]

LEMMA OthersStay ==
  ASSUME TypeOK, NEW a \in Attempts, Start(a) \/ Step(a)
  PROVE  rights' = rights /\ \A b \in Attempts \ {a} : Untouched(b)
<1> USE DEF TypeOK, SharedTypeOK, Untouched, Goto, stored, policy, Keep
<1> USE DEF Reply, Deny, Finish, Settle, Visit, Visited, Leave, Return, Project
<1>1. CASE Start(a)
  BY <1>1 DEF Start
<1>2. CASE Admit(a) \/ Load(a) \/ Stop(a)
  BY <1>2 DEF Admit, Load, Stop
<1>3. CASE Run(a)
  BY <1>3 DEF Run
<1>4. CASE Permit(a) \/ RestoreDone(a) \/ RecheckDone(a) \/ ProjectDone(a)
  BY <1>4 DEF Permit, RestoreDone, RecheckDone, ProjectDone
<1>5. CASE Restore(a)
  BY <1>5 DEF Restore
<1>6. CASE Check(a)
  BY <1>6 DEF Check
<1>7. CASE CheckDone(a) \/ Recheck(a)
  BY <1>7 DEF CheckDone, Recheck
<1>8. CASE Stage(a)
  <2>1. CASE Deny(a)
    BY <2>1
  <2>2. CASE ~Deny(a)
    <3>1. staged' = [staged EXCEPT ![a] = staged'[a]]
      BY <1>8, <2>2 DEF Stage
    <3> QED
      BY <1>8, <2>2, <3>1 DEF Stage
  <2> QED
    BY <2>1, <2>2
<1>11. CASE ProjectOne(a)
  BY <1>11 DEF ProjectOne
<1>9. CASE Confirm(a) \/ BeforeDispatch(a)
  BY <1>9 DEF Confirm, BeforeDispatch
<1>10. CASE Persist(a)
  BY <1>10 DEF Persist
<1> QED
  BY <1>1, <1>2, <1>3, <1>4, <1>5, <1>6, <1>7, <1>8, <1>9, <1>10, <1>11 DEF Step

LEMMA UntouchedStaysSound ==
  ASSUME NEW b \in Attempts, rights' = rights, Untouched(b), Sound(b)
  PROVE  Sound(b)'
<1> USE DEF Untouched, Revision, Granted, Fresh, Reading
<1>1. Granting(b)'
  BY DEF Sound, Granting
<1>2. Editing(b)'
  BY DEF Sound, Editing, Visiting, PutBack, Stale
<1>3. Writing(b)'
  BY DEF Sound, Writing, Kept, Stale
<1>4. Projecting(b)'
  BY DEF Sound, Projecting, Visiting, Harmless
<1> QED
  BY <1>1, <1>2, <1>3, <1>4 DEF Sound

\* An attempt that settles without an answer of its own.
LEMMA ReplyStaysSound ==
  ASSUME SaveInv, NEW a \in Attempts, pc[a] \notin {"idle", "done"}, NEW value \in Answers,
         Reply(a, value)
  PROVE  Sound(a)'
<1>1. /\ pc'[a] = "done" /\ UNCHANGED <<rights, request, view, found, staged, policy>>
  BY DEF Reply, Finish, Settle, Goto, SaveInv, TypeOK, SharedTypeOK
<1>2. shown[a] = Absent /\ Granting(a) /\ Writing(a)
  BY DEF SaveInv, Sound, Projecting
<1> USE <1>1, <1>2 DEF policy
<1>3. Granting(a)'
  BY DEF Granting, Revision
<1>4. Editing(a)'
  BY DEF Editing, Saving
<1>5. Writing(a)'
  BY DEF Writing, Kept, Stale, Granted, Reading
<1>6. Projecting(a)'
  BY DEF Projecting
<1> QED
  BY <1>3, <1>4, <1>5, <1>6 DEF Sound

-----------------------------------------------------------------------------
(* What a step makes of the attempt that takes it.                         *)

\* Answers of the policy count under the grant the attempt began with.
LEMMA FreshAnswers ==
  ASSUME NEW a \in Attempts
  PROVE  /\ Authorized(a, TRUE) \/ Authorized(a, FALSE) => Fresh(a) /\ Granted(a).read
         /\ \A cell : Fresh(a) /\ CanUse(a, cell) => cell.widget \in Granted(a).widgets
BY DEF Authorized, Fresh, Granted, Now, CanUse

\* The grant an attempt began with, and whether it is the present one, change only
\* with the rights.
LEMMA SameGrant ==
  ASSUME NEW a \in Attempts, rights' = rights, permission'[a] = permission[a]
  PROVE  /\ Granted(a)' = Granted(a) /\ (Fresh(a)' <=> Fresh(a))
         /\ Revision(PrincipalOf[a])' = Revision(PrincipalOf[a])
BY DEF Granted, Fresh, Revision

LEMMA BeginningStaysSound ==
  ASSUME SaveInv, NEW a \in Attempts,
         Start(a) \/ Admit(a) \/ Load(a) \/ Run(a) \/ Permit(a)
  PROVE  Sound(a)'
<1> USE SnapshotsAreDocuments, AnswersTyped
<1>0. TypeOK /\ Sound(a)
  BY DEF SaveInv
<1>1. staged[a] = NoWrite /\ shown[a] = Absent
  BY <1>0 DEF Start, Admit, Load, Run, Permit, Sound, Writing, Projecting
<1>2. ASSUME /\ permission'[a] \in 1..Revision(PrincipalOf[a])' /\ fixed'[a] = {}
             /\ pc'[a] \in {"admit", "load", "run"}
             /\ staged'[a] = NoWrite /\ shown'[a] = Absent
      PROVE  Sound(a)'
  BY <1>2 DEF Sound, Granting, Editing, Writing, Projecting, Saving
<1>3. ASSUME NEW doc \in Documents, Project(a, doc), ~Reading(a) => found[a] # NoMutation,
             pc[a] # "idle"
      PROVE  Sound(a)'
  <2>1. /\ pc'[a] = "project" /\ draft'[a] = doc /\ todo'[a] = Present(doc)
        /\ staged'[a] = NoWrite /\ shown'[a] = Absent /\ permission'[a] = permission[a]
        /\ rights' = rights /\ request' = request /\ found' = found
    BY <1>0, <1>1, <1>3 DEF Project, Visit, Goto, Keep, TypeOK, SharedTypeOK
  <2> QED
    BY <1>0, <1>3, <2>1, SameGrant
       DEF Sound, Granting, Editing, Writing, Projecting, Saving, Visiting, Reading, Present
<1>4. CASE Start(a)
  <2>1. Revision(PrincipalOf[a]) \in 1..MaxRevision
    BY PolicyAssumption DEF SaveInv, RightsAreKept, Revision
  <2>2. fixed[a] = {}
    BY <1>0, <1>4 DEF Start, Sound, Editing
  <2> QED
    BY <1>0, <1>1, <1>2, <1>4, <2>1, <2>2
       DEF Start, Goto, TypeOK, SharedTypeOK, Revision
<1>5. CASE Admit(a) \/ Load(a)
  <2>1. CASE Admit(a) /\ Deny(a)
    BY <2>1, ReplyStaysSound DEF Deny, Admit
  <2>2. CASE ~(Admit(a) /\ Deny(a))
    <3>1. fixed[a] = {} /\ Granting(a) /\ pc[a] # "idle"
      BY <1>0, <1>5 DEF Admit, Load, Sound, Editing
    <3> QED
      BY <1>0, <1>1, <1>2, <1>5, <2>2, <3>1, SameGrant
         DEF Admit, Load, Goto, Keep, TypeOK, SharedTypeOK, policy, Granting
  <2> QED
    BY <2>1, <2>2
<1>6. CASE Run(a)
  <2>0. pc[a] = "run" /\ fixed[a] = {} /\ Granting(a)
    BY <1>0, <1>6 DEF Run, Sound, Editing
  <2>1. CASE Reading(a)
    BY <1>0, <1>3, <1>6, <2>0, <2>1 DEF Run
  <2>2. ASSUME NEW status \in {"conflict", "collision"}, Reply(a, Answered(status))
        PROVE  Sound(a)'
    BY <2>0, <2>2, ReplyStaysSound
  <2>3. CASE ~Reading(a) /\ found[a] # NoMutation
             /\ Goto(a, "permit") /\ Keep(a) /\ UNCHANGED policy
    BY <1>0, <1>1, <2>0, <2>3, SameGrant
       DEF Goto, Keep, policy, TypeOK, SharedTypeOK, Sound, Granting, Editing, Writing,
           Projecting, Saving, Reading
  <2>4. CASE /\ ~Reading(a) /\ found[a] = NoMutation
             /\ view[a].revision = request[a].expected
             /\ Visit(a, "restore", request[a].doc, Present(view[a].doc)) /\ UNCHANGED fixed
    <3>1. /\ pc'[a] = "restore" /\ todo'[a] = Present(view[a].doc) /\ fixed'[a] = {}
          /\ permission' = permission /\ rights' = rights /\ view' = view
          /\ request' = request /\ staged' = staged /\ shown' = shown
      BY <1>0, <2>0, <2>4 DEF Visit, Goto, Keep, TypeOK, SharedTypeOK
    <3> QED
      BY <1>0, <1>1, <2>0, <2>4, <3>1, SameGrant
         DEF Sound, Granting, Editing, Writing, Projecting, Saving, Visiting, Reading,
             Present
  <2> QED
    BY <1>6, <2>0, <2>1, <2>2, <2>3, <2>4 DEF Run
<1>7. CASE Permit(a)
  <2>1. pc[a] = "permit" /\ found[a] # NoMutation
    BY <1>0, <1>7 DEF Permit, Sound, Writing
  <2> QED
    BY <1>0, <1>3, <1>7, <2>1, ReplyStaysSound DEF Permit, Deny
<1> QED
  BY <1>4, <1>5, <1>6, <1>7

\* What does not change while a save edits its draft.
StillSaving(a) ==
  /\ pc'[a] \in Saving /\ rights' = rights
  /\ request'[a] = request[a] /\ view'[a] = view[a] /\ staged'[a] = staged[a]
  /\ permission'[a] = permission[a] /\ shown'[a] = shown[a]

\* While a save edits, only Editing and the document it checks are at stake.
LEMMA SavingIsEditing ==
  ASSUME SaveInv, NEW a \in Attempts, pc[a] \in Saving, StillSaving(a), Editing(a)',
         pc'[a] \in {"recheck", "authorize"} => draft'[a] \in Documents
  PROVE  Sound(a)'
<1>1. Sound(a) /\ staged[a] = NoWrite /\ shown[a] = Absent
  BY DEF SaveInv, Sound, Editing, Projecting, Saving
<1>2. Granting(a)'
  BY <1>1, SameGrant DEF StillSaving, Saving, Sound, Granting
<1>3. Writing(a)'
  BY <1>1 DEF StillSaving, Saving, Writing
<1>4. Projecting(a)'
  BY <1>1 DEF StillSaving, Saving, Projecting
<1> QED
  BY <1>2, <1>3, <1>4 DEF Sound

LEMMA RestoreStaysSound ==
  ASSUME SaveInv, NEW a \in Attempts, Restore(a) \/ RestoreDone(a)
  PROVE  Sound(a)'
<1>0. TypeOK /\ Editing(a) /\ pc[a] = "restore" /\ draft[a] \in Layouts
  BY DocsAndFixed DEF SaveInv, Sound, Restore, RestoreDone
<1>1. CASE Restore(a)
  <2>0. PICK i \in Instances : i = Next1(a)
    BY <1>0, <1>1, NextOne DEF Restore
  <2> DEFINE original == view[a].doc[i]
             immutable == ~CanUse(a, original) \/ Stale(a, original)
             new == IF immutable THEN Restored(a, original, draft[a][i]) ELSE draft[a][i]
  <2>1. /\ i \in todo[a] /\ i \in Present(view[a].doc) /\ original \in Cells
        /\ i \in Instances /\ original # Absent
    BY <1>0, <1>1, <2>0, NextOne, SnapshotsAreDocuments
       DEF Restore, Editing, Present, Layouts
  <2>2. /\ draft'[a] = [draft[a] EXCEPT ![i] = new]
        /\ fixed'[a] = IF immutable THEN fixed[a] \cup {i} ELSE fixed[a]
        /\ todo'[a] = todo[a] \ {i} /\ pc'[a] = "restore" /\ StillSaving(a)
    BY <1>0, <1>1, <2>0, <2>1
       DEF Restore, Visited, Keep, StillSaving, Saving, TypeOK, SharedTypeOK
  <2>3. \A j \in Instances \ {i} : draft'[a][j] = draft[a][j]
    BY <1>0, <2>1, <2>2 DEF Layouts
  <2>4. draft'[a][i] = new
    BY <1>0, <2>1, <2>2 DEF Layouts
  <2>5. PutBack(a, i)'
    <3>1. CASE immutable
      <4>1. i \in fixed'[a] /\ (new = original \/ (CanUse(a, original) /\ draft[a][i] # Absent
              /\ new = [original EXCEPT !.place = draft[a][i].place]))
        BY <2>2, <3>1 DEF Restored
      <4>2. CASE new = original
        BY <2>2, <2>4, <4>1, <4>2 DEF PutBack, StillSaving
      <4>3. CASE /\ CanUse(a, original) /\ draft[a][i] # Absent
                 /\ new = [original EXCEPT !.place = draft[a][i].place]
        <5>1. draft[a][i] \in Cells
          BY <1>0, <2>1, <4>3 DEF Layouts
        <5> DEFINE place == draft[a][i].place
        <5>2. [original EXCEPT !.place = place] \in Cells
          BY <2>1, <5>1, DocumentsAssumption
        <5>3. [original EXCEPT !.place = place].place = place
          BY <2>1, CellParts
        <5>4. draft'[a][i] # Absent /\ draft'[a][i] = [original EXCEPT !.place = draft'[a][i].place]
          BY <2>4, <4>3, <5>2, <5>3, DocumentsAssumption
        <5>5. Fresh(a) => original.widget \in Granted(a).widgets
          BY <4>3, FreshAnswers
        <5> HIDE DEF new, immutable, place
        <5> QED
          BY <2>2, <4>1, <5>4, <5>5, SameGrant DEF PutBack, StillSaving
      <4> QED
        BY <4>1, <4>2, <4>3
    <3>2. CASE ~immutable
      <4>1. i \notin fixed'[a]
        BY <1>0, <2>1, <2>2, <3>2 DEF Editing, Visiting, Saving
      <4>2. ~Stale(a, original) /\ (Fresh(a) => original.widget \in Granted(a).widgets)
        BY <3>2, FreshAnswers
      <4>3. /\ view'[a] = view[a] /\ Granted(a)' = Granted(a) /\ (Fresh(a)' <=> Fresh(a))
        BY <2>2, SameGrant DEF StillSaving, Stale
      <4>4. Stale(a, view[a].doc[i])' <=> Stale(a, view[a].doc[i])
        BY <4>3 DEF Stale
      <4> HIDE DEF new, immutable
      <4> QED
        BY <4>1, <4>2, <4>3, <4>4 DEF PutBack
    <3> QED
      BY <3>1, <3>2
  <2>6. \A j \in Present(view[a].doc) \ todo[a] : PutBack(a, j)'
    <3> SUFFICES ASSUME NEW j \in Present(view[a].doc) \ todo[a] PROVE PutBack(a, j)'
      OBVIOUS
    <3>1. PutBack(a, j) /\ j # i /\ j \in Instances
      BY <1>0, <2>1 DEF Editing, Visiting, Saving, Present
    <3>2. (j \in fixed'[a]) <=> (j \in fixed[a])
      BY <2>2, <3>1
    <3> QED
      BY <2>2, <2>3, <3>1, <3>2, SameGrant DEF PutBack, StillSaving, Stale
  <2> HIDE DEF new, immutable, original
  <2>7. Editing(a)'
    BY <1>0, <2>1, <2>2, <2>5, <2>6 DEF Editing, StillSaving, Saving, Visiting, Reading, Present
  <2> QED
    BY <1>0, <2>2, <2>7, SavingIsEditing DEF Saving
<1>2. CASE RestoreDone(a)
  <2>1. /\ pc'[a] = "check" /\ draft'[a] = draft[a] /\ fixed'[a] = fixed[a] /\ todo[a] = {}
        /\ todo'[a] = Present(draft[a]) \ fixed[a] /\ StillSaving(a)
    BY <1>0, <1>2 DEF RestoreDone, Visit, Goto, Keep, StillSaving, Saving, TypeOK,
       SharedTypeOK
  <2>2. \A j \in Present(view[a].doc) : PutBack(a, j)'
    BY <1>0, <2>1, SameGrant DEF Editing, PutBack, StillSaving, Stale, Visiting, Saving
  <2>3. Editing(a)'
    BY <1>0, <2>1, <2>2 DEF Editing, StillSaving, Saving, Visiting, Reading, Present
  <2> QED
    BY <1>0, <2>1, <2>3, SavingIsEditing DEF Saving
<1> QED
  BY <1>1, <1>2

LEMMA CheckStaysSound ==
  ASSUME SaveInv, NEW a \in Attempts,
         Check(a) \/ CheckDone(a) \/ Recheck(a) \/ RecheckDone(a)
  PROVE  Sound(a)'
<1> USE AnswersTyped
<1>0. TypeOK /\ Sound(a) /\ Editing(a) /\ draft[a] \in Layouts /\ pc[a] \in Saving
  BY DocsAndFixed DEF SaveInv, Sound, Check, CheckDone, Recheck, RecheckDone, Saving
<1>1. CASE Deny(a)
  BY <1>0, <1>1, ReplyStaysSound DEF Deny, Saving
<1>2. ASSUME ~Deny(a), Check(a)
      PROVE  Sound(a)'
  <2>0. PICK i \in Instances : i = Next1(a)
    BY <1>0, <1>2, NextOne DEF Check
  <2> DEFINE cell == draft[a][i]  config == Parse[cell.config]
  <2>1. /\ i \in todo[a] /\ i \in Present(draft[a]) /\ i \notin fixed[a] /\ cell \in Cells
        /\ pc[a] = "check"
    BY <1>0, <1>2, <2>0, NextOne DEF Check, Editing, Present, Layouts
  <2>2. CanUse(a, cell) /\ config # Refused
    BY <1>2, <2>0 DEF Check
  <2>3. /\ draft'[a] = [draft[a] EXCEPT ![i] = [cell EXCEPT !.config = config]]
        /\ fixed'[a] = fixed[a] /\ todo'[a] = todo[a] \ {i} /\ pc'[a] = "check"
        /\ StillSaving(a)
    BY <1>0, <1>2, <2>0, <2>1
       DEF Check, Visited, Keep, StillSaving, Saving, TypeOK, SharedTypeOK
  <2>4. \A j \in Instances \ {i} : draft'[a][j] = draft[a][j]
    BY <1>0, <2>1, <2>3 DEF Layouts
  <2>5. draft'[a][i] # Absent /\ draft'[a][i].widget = cell.widget
    <3>1. draft'[a][i] = [cell EXCEPT !.config = config]
      BY <1>0, <2>1, <2>3 DEF Layouts
    <3>2. [cell EXCEPT !.config = config] \in Cells
      BY <2>1, <2>2, DocumentsAssumption
    <3>3. [cell EXCEPT !.config = config].widget = cell.widget
      <4>1. ASSUME NEW x PROVE [cell EXCEPT !.config = x].widget = cell.widget
        BY <2>1, CellParts
      <4> QED
        BY <4>1
    <3>4. [cell EXCEPT !.config = config] # Absent
      BY <3>2, DocumentsAssumption
    <3> HIDE DEF cell, config
    <3> QED
      BY <3>1, <3>3, <3>4
  <2>6. \A j \in Present(view[a].doc) : PutBack(a, j)'
    <3> SUFFICES ASSUME NEW j \in Present(view[a].doc) PROVE PutBack(a, j)'
      OBVIOUS
    <3>1. PutBack(a, j) /\ j \in Instances
      BY <1>0, <2>1 DEF Editing, Visiting, Saving, Present
    <3>2. j \in fixed[a] => draft'[a][j] = draft[a][j]
      BY <2>1, <2>4, <3>1
    <3> QED
      BY <2>3, <3>1, <3>2, SameGrant DEF PutBack, StillSaving, Stale
  <2>7. Fresh(a) => cell.widget \in Granted(a).widgets
    BY <2>2, FreshAnswers
  <2>8. \A j \in Present(draft'[a]) \ (fixed[a] \cup todo'[a]) :
          Fresh(a) => draft'[a][j].widget \in Granted(a).widgets
    <3> SUFFICES ASSUME NEW j \in Present(draft'[a]) \ (fixed[a] \cup todo'[a])
                 PROVE  Fresh(a) => draft'[a][j].widget \in Granted(a).widgets
      OBVIOUS
    <3>1. CASE j = i
      BY <2>5, <2>7, <3>1
    <3>2. CASE j # i
      BY <1>0, <2>1, <2>3, <2>4, <3>2 DEF Editing, Visiting, Present
    <3> QED
      BY <3>1, <3>2
  <2>9. todo'[a] \subseteq Present(draft'[a]) \ fixed[a]
    BY <1>0, <2>1, <2>3, <2>4 DEF Editing, Present
  <2> HIDE DEF cell, config
  <2>10. Editing(a)'
    BY <1>0, <2>1, <2>3, <2>6, <2>8, <2>9, SameGrant
       DEF Editing, StillSaving, Saving, Visiting, Reading, Present
  <2> QED
    BY <1>0, <2>3, <2>10, SavingIsEditing
<1>3. ASSUME ~Deny(a), CheckDone(a) \/ Recheck(a) \/ RecheckDone(a)
      PROVE  Sound(a)'
  <2>1. /\ draft'[a] = draft[a] /\ fixed'[a] = fixed[a]
        /\ pc[a] = "check" => todo[a] = {} /\ Laid(draft[a])
        /\ pc[a] \in {"check", "recheck"}
        /\ pc'[a] \in {"recheck", "authorize"} /\ StillSaving(a)
    BY <1>0, <1>3
       DEF CheckDone, Recheck, RecheckDone, Leave, Visit, Visited, Goto, Keep, StillSaving,
           Saving, TypeOK, SharedTypeOK
  <2>2. draft[a] \in Documents
    BY <1>0, <2>1, DocumentsAssumption DEF Sound, Projecting, Layouts
  <2>3. \A j \in Present(view[a].doc) : PutBack(a, j)'
    BY <1>0, <2>1, SameGrant DEF Editing, PutBack, StillSaving, Stale, Visiting, Saving
  <2>4. Editing(a)'
    BY <1>0, <2>1, <2>3, SameGrant
       DEF Editing, StillSaving, Saving, Visiting, Reading, Present
  <2> QED
    BY <1>0, <2>1, <2>2, <2>4, SavingIsEditing
<1> QED
  BY <1>1, <1>2, <1>3

LEMMA KeptIf ==
  ASSUME NEW a \in Attempts, NEW before, NEW after,
         before # after /\ before # Absent => before.widget \in Granted(a).widgets,
         before # after /\ after # Absent => after.widget \in Granted(a).widgets,
         before # Absent /\ Stale(a, before) =>
           after # Absent /\ after = [before EXCEPT !.place = after.place]
  PROVE  Kept(a, before, after)
<1>1. ASSUME before # after, NEW c \in {before, after} \ {Absent}
      PROVE  c.widget \in Granted(a).widgets
  BY <1>1
<1> QED
  BY <1>1 DEF Kept

LEMMA StageStaysSound ==
  ASSUME SaveInv, NEW a \in Attempts, Stage(a)
  PROVE  Sound(a)'
<1> USE AnswersTyped
<1>0. TypeOK /\ Sound(a) /\ Editing(a) /\ pc[a] = "authorize" /\ draft[a] \in Documents
  BY DEF SaveInv, Sound, Projecting, Stage
<1>1. CASE Deny(a)
  BY <1>0, <1>1, ReplyStaysSound DEF Deny
<1>2. ASSUME ~Deny(a) PROVE Sound(a)'
  <2>1. /\ Authorized(a, TRUE)
        /\ staged' = [staged EXCEPT ![a] = [revision |-> view[a].revision + 1,
                                           doc |-> draft[a]]]
        /\ pc'[a] = "project" /\ todo'[a] = Present(draft[a])
        /\ UNCHANGED <<rights, request, view, found, permission, draft, fixed, shown>>
    BY <1>0, <1>2 DEF Stage, Goto, TypeOK, SharedTypeOK
  <2>2. staged'[a] = [revision |-> view[a].revision + 1, doc |-> draft[a]]
    BY <1>0, <2>1 DEF TypeOK, SharedTypeOK
  <2>3. Fresh(a) /\ Granted(a)' = Granted(a) /\ shown[a] = Absent
    BY <1>0, <2>1, FreshAnswers, SameGrant DEF Sound, Projecting
  <2>4. ASSUME NEW i \in Instances
        PROVE  Kept(a, view[a].doc[i], draft[a][i])
    <3> DEFINE before == view[a].doc[i]  after == draft[a][i]
    <3>1. before \in Cells \cup {Absent} /\ after \in Cells \cup {Absent}
      BY <1>0, SnapshotsAreDocuments DEF Layouts
    <3>2. CASE before = Absent
      <4>1. i \notin fixed[a]
        BY <1>0, <3>2 DEF Editing, Saving, Present
      <4>2. after # Absent => after.widget \in Granted(a).widgets
        BY <1>0, <2>3, <4>1 DEF Editing, Visiting, Present
      <4>3. Kept(a, before, after)
        <5> HIDE DEF before, after
        <5>1. before # after /\ before # Absent => before.widget \in Granted(a).widgets
          BY <3>2, <4>2
        <5>2. before # after /\ after # Absent => after.widget \in Granted(a).widgets
          BY <3>2, <4>2
        <5>3. before # Absent /\ Stale(a, before) =>
                after # Absent /\ after = [before EXCEPT !.place = after.place]
          BY <3>2, <4>2
        <5> QED
          BY <5>1, <5>2, <5>3, KeptIf
      <4> QED
        BY <4>3
    <3>3. CASE before # Absent /\ i \in fixed[a]
      <4>1. \/ after = before
            \/ /\ after # Absent /\ after = [before EXCEPT !.place = after.place]
               /\ before.widget \in Granted(a).widgets
        BY <1>0, <2>3, <3>3 DEF Editing, Visiting, Saving, Present, PutBack
      <4>2. ASSUME NEW x PROVE [before EXCEPT !.place = x].widget = before.widget
        BY <3>1, <3>3, CellParts
      <4>3. before = [before EXCEPT !.place = before.place]
        BY <3>1, <3>3, DocumentsAssumption, CellParts
      <4>4. after # Absent /\ after = [before EXCEPT !.place = after.place]
        BY <3>3, <4>1, <4>3
      <4>5. before # after => {before.widget, after.widget} \subseteq Granted(a).widgets
        BY <4>1, <4>2
      <4>6. Kept(a, before, after)
        <5> HIDE DEF before, after
        <5>1. before # after /\ before # Absent => before.widget \in Granted(a).widgets
          BY <3>3, <4>4, <4>5
        <5>2. before # after /\ after # Absent => after.widget \in Granted(a).widgets
          BY <3>3, <4>4, <4>5
        <5>3. before # Absent /\ Stale(a, before) =>
                after # Absent /\ after = [before EXCEPT !.place = after.place]
          BY <3>3, <4>4, <4>5
        <5> QED
          BY <5>1, <5>2, <5>3, KeptIf
      <4> QED
        BY <4>6
    <3>4. CASE before # Absent /\ i \notin fixed[a]
      <4>1. ~Stale(a, before) /\ before.widget \in Granted(a).widgets
        BY <1>0, <2>3, <3>4 DEF Editing, Visiting, Saving, Present, PutBack
      <4>2. after # Absent => after.widget \in Granted(a).widgets
        BY <1>0, <2>3, <3>4 DEF Editing, Visiting, Present
      <4>3. Kept(a, before, after)
        <5> HIDE DEF before, after
        <5>1. before # after /\ before # Absent => before.widget \in Granted(a).widgets
          BY <4>1, <4>2
        <5>2. before # after /\ after # Absent => after.widget \in Granted(a).widgets
          BY <4>1, <4>2
        <5>3. before # Absent /\ Stale(a, before) =>
                after # Absent /\ after = [before EXCEPT !.place = after.place]
          BY <4>1, <4>2
        <5> QED
          BY <5>1, <5>2, <5>3, KeptIf
      <4> QED
        BY <4>3
    <3> QED
      BY <3>2, <3>3, <3>4
  <2>5. \A i \in Instances : Kept(a, view[a].doc[i], staged[a].doc[i])'
    BY <2>1, <2>2, <2>3, <2>4 DEF Kept, Stale
  <2>6. Granting(a)' /\ Editing(a)'
    BY <1>0, <2>1, SameGrant DEF Sound, Granting, Editing, Saving
  <2>7. Writing(a)'
    <3>1. staged'[a] # NoWrite
      BY <1>0, <2>2, AbsentAssumption, SnapshotsAreDocuments DEF Snapshots
    <3> QED
      BY <1>0, <2>1, <2>2, <2>5, <3>1 DEF Editing, Saving, Writing, Reading
  <2>8. Projecting(a)'
    BY <1>0, <2>1, <2>3 DEF Projecting, Visiting, Present
  <2> QED
    BY <2>6, <2>7, <2>8 DEF Sound
<1> QED
  BY <1>1, <1>2

LEMMA ProjectStaysSound ==
  ASSUME SaveInv, NEW a \in Attempts,
         ProjectOne(a) \/ ProjectDone(a) \/ Confirm(a) \/ BeforeDispatch(a) \/ Persist(a)
  PROVE  Sound(a)'
<1> USE AnswersTyped
<1>0. /\ TypeOK /\ Sound(a) /\ shown[a] = Absent /\ draft[a] \in Documents
      /\ pc[a] \in {"project", "confirm", "dispatch", "persist"}
      /\ draft[a] \in Layouts
  BY DocsAndFixed
     DEF SaveInv, Sound, Projecting, ProjectOne, ProjectDone, Confirm, BeforeDispatch, Persist
<1>1. ASSUME NEW value \in Answers, Reply(a, value) PROVE Sound(a)'
  BY <1>0, <1>1, ReplyStaysSound
<1>2. ASSUME /\ rights' = rights /\ permission'[a] = permission[a]
             /\ request'[a] = request[a] /\ view'[a] = view[a] /\ found'[a] = found[a]
             /\ staged'[a] = staged[a]
             /\ pc'[a] \in {"project", "confirm", "dispatch", "persist", "done"}
             /\ pc'[a] \in {"dispatch", "persist"} => staged[a] # NoWrite
      PROVE  Granting(a)' /\ Editing(a)' /\ Writing(a)'
  <2>1. Granting(a)' /\ Editing(a)'
    BY <1>0, <1>2, SameGrant DEF Sound, Granting, Editing, Saving
  <2>2. staged[a] = NoWrite /\ pc'[a] \in {"project", "confirm"} /\ ~Reading(a)
          => pc[a] \in {"project", "confirm"} /\ found[a] # NoMutation
    BY <1>0, <1>2 DEF Sound, Writing
  <2> QED
    BY <1>0, <1>2, <2>1, <2>2, SameGrant DEF Sound, Writing, Kept, Stale, Reading
<1>3. CASE ProjectOne(a)
  <2>0. PICK i \in Instances : i = Next1(a)
    BY <1>0, <1>3, NextOne DEF ProjectOne
  <2> DEFINE cell == draft[a][i]  x == IF CanUse(a, cell) THEN cell.config ELSE Redacted
  <2>1. pc[a] = "project" /\ i \in todo[a] /\ i \in Present(draft[a]) /\ cell \in Cells
    BY <1>0, <1>3, <2>0, NextOne DEF ProjectOne, Sound, Projecting, Present, Layouts
  <2>2. /\ draft'[a] = [draft[a] EXCEPT ![i].config = x]
        /\ todo'[a] = todo[a] \ {i} /\ pc' = pc
        /\ UNCHANGED <<rights, permission, request, view, found, staged, shown>>
    BY <1>0, <1>3, <2>0, <2>1 DEF ProjectOne, Visited, Keep, TypeOK, SharedTypeOK
  <2>3. draft'[a] \in Documents /\ draft'[a][i] # Absent
    <3>1. /\ [draft[a] EXCEPT ![i].config = x] \in Documents
          /\ [draft[a] EXCEPT ![i].config = x][i] \in Cells
      BY <1>0, <2>1, HidingIsLaid
    <3> QED
      BY <2>2, <3>1, DocumentsAssumption
  <2>4. \A j \in Instances \ {i} : draft'[a][j] = draft[a][j]
    BY <1>0, <2>2 DEF Layouts
  <2>5. draft'[a][i] = [widget |-> cell.widget, config |-> x, place |-> cell.place]
    <3>1. draft'[a][i] = [cell EXCEPT !.config = x]
      BY <1>0, <2>2 DEF Layouts
    <3> QED
      BY <2>1, <3>1, CellParts
  <2>6. Fresh(a) => Harmless(a, draft'[a][i])
    <3>1. CanUse(a, cell) /\ Fresh(a) => cell.widget \in Granted(a).widgets
      BY FreshAnswers
    <3>2. ~CanUse(a, cell) => x = Redacted
      OBVIOUS
    <3> HIDE DEF cell, x
    <3> QED
      BY <2>5, <3>1, <3>2 DEF Harmless
  <2> HIDE DEF cell, x
  <2>8. todo'[a] \subseteq Present(draft'[a])
    BY <1>0, <2>1, <2>2, <2>4 DEF Sound, Projecting, Present
  <2>9. Fresh(a) => \A j \in Present(draft'[a]) \ todo'[a] : Harmless(a, draft'[a][j])
    BY <1>0, <2>1, <2>2, <2>4, <2>6 DEF Sound, Projecting, Present, Visiting
  <2>10. Projecting(a)'
    BY <1>0, <2>1, <2>2, <2>3, <2>8, <2>9, SameGrant
       DEF Projecting, Present, Visiting, Harmless
  <2> QED
    BY <1>0, <1>2, <2>1, <2>2, <2>10 DEF Sound
<1>4. CASE ProjectDone(a)
  <2>1. /\ pc[a] = "project" /\ todo[a] = {} /\ pc'[a] = "confirm" /\ draft'[a] = draft[a]
        /\ UNCHANGED <<rights, permission, request, view, found, staged, shown>>
    BY <1>0, <1>4 DEF ProjectDone, Leave, Visit, Goto, Keep, TypeOK, SharedTypeOK
  <2>2. Projecting(a)'
    BY <1>0, <2>1, SameGrant DEF Sound, Projecting, Present, Visiting, Harmless
  <2> QED
    BY <1>2, <2>1, <2>2 DEF Sound
<1>5. ASSUME /\ pc'[a] \in {"dispatch", "persist"} /\ staged[a] # NoWrite
             /\ draft'[a] = draft[a]
             /\ UNCHANGED <<rights, permission, request, view, found, staged, shown>>
             /\ Granted(a).read /\ \A i \in Present(draft[a]) : Harmless(a, draft[a][i])
      PROVE  Sound(a)'
  <2>1. Projecting(a)'
    BY <1>0, <1>5, SameGrant DEF Projecting, Present, Harmless
  <2> QED
    BY <1>2, <1>5, <2>1 DEF Sound
<1>6. ASSUME NEW value \in Answers, Return(a, value),
             Granted(a).read /\ \A i \in Present(draft[a]) : Harmless(a, draft[a][i])
      PROVE  Sound(a)'
  <2>1. /\ pc'[a] = "done" /\ shown'[a] = draft[a]
        /\ UNCHANGED <<rights, permission, request, view, found, staged>>
    BY <1>0, <1>6 DEF Return, Finish, Settle, Goto, TypeOK, SharedTypeOK
  <2>2. Projecting(a)'
    BY <1>0, <1>6, <2>1, SameGrant DEF Projecting, Present, Harmless
  <2> QED
    BY <1>2, <2>1, <2>2 DEF Sound
<1>7. CASE Confirm(a)
  <2>1. CASE Deny(a)
    BY <1>1, <2>1 DEF Deny
  <2>2. CASE Authorized(a, FALSE)
    <3>1. Granted(a).read /\ \A i \in Present(draft[a]) : Harmless(a, draft[a][i])
      BY <1>0, <1>7, <2>2, FreshAnswers DEF Confirm, Sound, Projecting, Visiting
    <3>2. CASE staged[a] # NoWrite
      <4>1. /\ pc'[a] = "dispatch" /\ draft'[a] = draft[a]
            /\ UNCHANGED <<rights, permission, request, view, found, staged, shown>>
        BY <1>0, <1>7, <2>2, <3>2
           DEF Confirm, Leave, Visit, Goto, Keep, TypeOK, SharedTypeOK
      <4> QED
        BY <1>5, <3>1, <3>2, <4>1
    <3>3. CASE staged[a] = NoWrite
      <4>1. Reading(a) \/ found[a] # NoMutation
        BY <1>0, <1>7, <3>3 DEF Confirm, Sound, Writing
      <4>2. (IF Reading(a) THEN Pending ELSE Saved(found[a].snapshot)) \in Answers
        BY <1>0, <4>1, SavedTyped, SnapshotsAreDocuments DEF Pending, Answers, Answered
      <4> QED
        BY <1>6, <1>7, <2>2, <3>1, <3>3, <4>2 DEF Confirm
    <3> QED
      BY <3>2, <3>3
  <2> QED
    BY <1>7, <2>1, <2>2 DEF Confirm
<1>8. CASE BeforeDispatch(a)
  <2>1. CASE Deny(a)
    BY <1>1, <2>1 DEF Deny
  <2>2. CASE ~Deny(a)
    <3>1. /\ pc'[a] = "persist" /\ draft'[a] = draft[a] /\ pc[a] = "dispatch"
          /\ UNCHANGED <<rights, permission, request, view, found, staged, shown>>
      BY <1>0, <1>8, <2>2
         DEF BeforeDispatch, Leave, Visit, Goto, Keep, TypeOK, SharedTypeOK
    <3>2. /\ Granted(a).read /\ staged[a] # NoWrite
          /\ \A i \in Present(draft[a]) : Harmless(a, draft[a][i])
      BY <1>0, <3>1 DEF Sound, Projecting, Writing
    <3> QED
      BY <1>5, <3>1, <3>2
  <2> QED
    BY <2>1, <2>2
<1>9. CASE Persist(a)
  <2>1. /\ Granted(a).read /\ staged[a] # NoWrite
        /\ \A i \in Present(draft[a]) : Harmless(a, draft[a][i])
    BY <1>0, <1>9 DEF Persist, Sound, Projecting, Writing
  <2>2. Verified(a, mutations[request[a].id]) \in Answers /\ Saved(staged[a]) \in Answers
    BY <1>0, <2>1, SavedTyped, SnapshotsAreDocuments DEF Verified
  <2> QED
    BY <1>1, <1>6, <1>9, <2>1, <2>2 DEF Persist
<1> QED
  BY <1>3, <1>4, <1>7, <1>8, <1>9

LEMMA ActingStaysSound ==
  ASSUME SaveInv, NEW a \in Attempts, Start(a) \/ Step(a)
  PROVE  Sound(a)'
<1>1. CASE Stop(a)
  <2>1. pc[a] \notin {"idle", "done"} /\ Reply(a, Answered("refused"))
    BY <1>1 DEF Stop, Deny
  <2> QED
    BY <2>1, ReplyStaysSound, AnswersTyped
<1> QED
  BY <1>1, BeginningStaysSound, RestoreStaysSound, CheckStaysSound, StageStaysSound,
     ProjectStaysSound DEF Step

\* Only Persist writes the row, and only over the document its attempt loaded.
LEMMA OnlyPersistWrites ==
  ASSUME SaveInv, NEW a \in Attempts, Start(a) \/ Step(a)
  PROVE  \/ row' = row
         \/ /\ pc[a] = "persist" /\ view[a] = Current(row) /\ view'[a] = view[a]
            /\ staged[a] \in Snapshots /\ staged[a].revision = view[a].revision + 1
            /\ row' = staged[a]
<1>1. CASE ~Persist(a)
  BY <1>1 DEF Step, Start, Admit, Load, Run, Permit, Restore, RestoreDone, Check, CheckDone,
       Recheck, RecheckDone, Stage, ProjectOne, ProjectDone, Confirm, BeforeDispatch, Stop,
       Reply, Deny, Keep, Visit, Leave, Project, stored
<1>2. CASE Persist(a) /\ row' # row
  <2>1. Admits(row, request[a].expected) /\ row' = staged[a] /\ pc[a] = "persist"
        /\ view'[a] = view[a]
    BY <1>2 DEF Persist, Return, Reply, Finish, Settle, stored
  <2>2. /\ staged[a] # NoWrite /\ view[a].revision = request[a].expected
        /\ staged[a].revision = view[a].revision + 1
    BY <2>1 DEF SaveInv, Sound, Writing
  <2>3. Current(row).revision = request[a].expected
    BY <2>1 DEF Admits, Current
  <2> QED
    BY <2>1, <2>2, <2>3, SnapshotsAreDocuments DEF SaveInv, RowMovesOn
<1> QED
  BY <1>1, <1>2

LEMMA RowStaysMoving ==
  ASSUME SaveInv, NEW a \in Attempts, Start(a) \/ Step(a)
  PROVE  RowMovesOn'
<1>1. \A b \in Attempts : view'[b] = view[b] \/ (b = a /\ row' = row /\ view'[b] = Current(row))
  <2>1. view'[a] = view[a] \/ (row' = row /\ view'[a] = Current(row))
    BY DEF Step, Start, Admit, Load, Run, Permit, Restore, RestoreDone, Check, CheckDone,
         Recheck, RecheckDone, Stage, ProjectOne, ProjectDone, Confirm, BeforeDispatch,
         Persist, Stop, Reply, Deny, Finish, Settle, Return, Keep, Visit, Leave, Project,
         stored, SaveInv, TypeOK, SharedTypeOK
  <2> QED
    BY <2>1, OthersStay DEF SaveInv, Untouched
<1>2. \A b \in Attempts : view[b] \in Snapshots /\ Current(row) \in Snapshots
  BY SnapshotsAreDocuments DEF SaveInv
<1>3. RowMovesOn
  BY DEF SaveInv
<1>4. CASE row' = row
  BY <1>1, <1>2, <1>3, <1>4 DEF RowMovesOn, Current, Snapshots
<1>5. CASE /\ view[a] = Current(row) /\ staged[a] \in Snapshots /\ row' = staged[a]
           /\ staged[a].revision = view[a].revision + 1 /\ view'[a] = view[a]
  <2>1. Current(row)' = staged[a] /\ row' # NoRow
    BY <1>5, AbsentAssumption DEF Current
  <2>2. staged[a].revision > Current(row).revision /\ staged[a].revision >= 1
    BY <1>2, <1>5 DEF Snapshots
  <2>3. \A b \in Attempts : view'[b].revision < staged[a].revision
    BY <1>1, <1>2, <1>3, <1>5, <2>2 DEF RowMovesOn, Snapshots
  <2> QED
    BY <1>1, <1>2, <1>5, <2>1, <2>2, <2>3 DEF RowMovesOn, Snapshots
<1> QED
  BY <1>4, <1>5, OnlyPersistWrites

\* A change of rights takes nobody's grant away: it makes who began before unfresh.
LEMMA ChangeKeepsInv ==
  ASSUME SaveInv, NEW p \in Principals, NEW grant \in Grants, Change(p, grant)
  PROVE  SaveInv'
<1>0. TypeOK /\ RightsAreKept /\ RowMovesOn /\ \A a \in Attempts : Sound(a)
  BY DEF SaveInv
<1>1. /\ UNCHANGED <<stored, local, policy>> /\ Len(rights[p]) < MaxRevision
      /\ rights' = [rights EXCEPT ![p] = Append(rights[p], grant)]
  BY DEF Change, Revision
<1>2. \A q \in Principals :
        /\ rights'[q] \in Seq(Grants) /\ Len(rights'[q]) >= Len(rights[q])
        /\ Len(rights'[q]) \in 1..MaxRevision
        /\ \A n \in 1..Len(rights[q]) : rights'[q][n] = rights[q][n]
  BY <1>0, <1>1, PolicyAssumption DEF TypeOK, RightsAreKept
<1>3. TypeOK'
  BY <1>0, <1>1, <1>2 DEF TypeOK, SharedTypeOK, stored, local, policy
<1>4. RightsAreKept' /\ RowMovesOn'
  BY <1>0, <1>1, <1>2 DEF RightsAreKept, RowMovesOn, Current, stored, local
<1>5. ASSUME NEW a \in Attempts PROVE Sound(a)'
  <2>1. PrincipalOf[a] \in Principals /\ permission[a] \in Nat
    BY <1>0, PolicyAssumption DEF TypeOK
  <2>2. pc[a] # "idle" => permission[a] \in 1..Len(rights[PrincipalOf[a]])
    BY <1>0 DEF Sound, Granting, Revision
  <2>3. pc[a] # "idle" => Granted(a)' = Granted(a) /\ (Fresh(a)' => Fresh(a))
    BY <1>1, <1>2, <2>1, <2>2 DEF Granted, Fresh, Revision, policy, RightsAreKept
  <2>4. Granting(a)'
    BY <1>1, <1>2, <2>1, <2>2 DEF Granting, Revision, local, policy
  <2>5. Editing(a)'
    <3>1. Editing(a)
      BY <1>0 DEF Sound
    <3>2. pc[a] # "idle" => \A i \in Instances : PutBack(a, i) => PutBack(a, i)'
      BY <1>1, <2>3 DEF PutBack, Stale, local, policy
    <3> QED
      BY <1>1, <2>3, <3>1, <3>2 DEF Editing, Saving, Visiting, Reading, Present, local, policy
  <2>6. Writing(a)' /\ Projecting(a)'
    <3>1. Writing(a) /\ Projecting(a)
      BY <1>0 DEF Sound
    <3>2. pc[a] # "idle" =>
            /\ \A before, after : Kept(a, before, after) => Kept(a, before, after)'
            /\ \A cell : Harmless(a, cell) => Harmless(a, cell)'
      BY <2>3 DEF Kept, Stale, Harmless
    <3> QED
      BY <1>1, <2>3, <3>1, <3>2
         DEF Writing, Projecting, Visiting, Reading, Present, local, policy
  <2> QED
    BY <2>4, <2>5, <2>6 DEF Sound
<1> QED
  BY <1>3, <1>4, <1>5 DEF SaveInv

LEMMA SaveInvAtFirst == Init => SaveInv
<1> SUFFICES ASSUME Init PROVE SaveInv
  OBVIOUS
<1>1. TypeOK
  <2>1. Current(NoRow) \in Snapshots
    BY DefaultsAssumption DEF Current, Snapshots
  <2>2. Defaults \in Layouts /\ Pending \in Answers
    BY DefaultsAssumption, DocumentsAssumption DEF Layouts, Pending, Answered, Answers
  <2> QED
    BY <2>1, <2>2, PolicyAssumption
       DEF Init, SharedInit, TypeOK, SharedTypeOK, Labels, Layouts
<1>2. RightsAreKept /\ RowMovesOn
  BY PolicyAssumption DEF Init, SharedInit, RightsAreKept, RowMovesOn, Current
<1>3. ASSUME NEW a \in Attempts PROVE Sound(a)
  BY DEF Init, SharedInit, Sound, Granting, Editing, Writing, Projecting, Saving, Visiting
<1> QED
  BY <1>1, <1>2, <1>3 DEF SaveInv

LEMMA SaveInvStays == SaveInv /\ [Next]_vars => SaveInv'
<1> SUFFICES ASSUME SaveInv, [Next]_vars PROVE SaveInv'
  OBVIOUS
<1>1. ASSUME NEW a \in Attempts, Start(a) \/ Step(a) PROVE SaveInv'
  <2>1. TypeOK' /\ RowMovesOn' /\ Sound(a)'
    BY <1>1, StepTyped, RowStaysMoving, ActingStaysSound
  <2>2. rights' = rights /\ \A b \in Attempts \ {a} : Sound(b)'
    BY <1>1, OthersStay, UntouchedStaysSound DEF SaveInv
  <2> QED
    BY <2>1, <2>2 DEF SaveInv, RightsAreKept
<1>2. ASSUME NEW p \in Principals, NEW grant \in Grants, Change(p, grant) PROVE SaveInv'
  BY <1>2, ChangeKeepsInv
<1>3. CASE UNCHANGED vars
  <2> USE <1>3 DEF vars, stored, local, policy
  <2>1. TypeOK' /\ RightsAreKept' /\ RowMovesOn'
    BY DEF SaveInv, TypeOK, SharedTypeOK, RightsAreKept, RowMovesOn, Current
  <2>2. \A b \in Attempts : Sound(b)'
    BY UntouchedStaysSound DEF SaveInv, Untouched
  <2> QED
    BY <2>1, <2>2 DEF SaveInv
<1> QED
  BY <1>1, <1>2, <1>3 DEF Next

\* Whoever stores a document, it was the attempt whose step it is.
LEMMA WhoStores ==
  ASSUME SaveInv, [Next]_vars, NEW a \in Attempts, Stores(a)
  PROVE  /\ view[a] = Current(row) /\ row' = staged[a] /\ staged[a] # NoWrite
         /\ Writing(a)
<1>1. ~UNCHANGED vars /\ ~(\E p \in Principals, grant \in Grants : Change(p, grant))
  BY DEF Stores, vars, stored, Change
<1>2. PICK b \in Attempts : Start(b) \/ Step(b)
  BY <1>1 DEF Next
<1>3. b = a
  BY <1>2, OthersStay DEF SaveInv, Untouched, Stores
<1> QED
  BY <1>2, <1>3, OnlyPersistWrites, AbsentAssumption DEF SaveInv, Sound, Stores

LEMMA SavesAreKept ==
  ASSUME SaveInv, [Next]_vars, NEW a \in Attempts, Stores(a), NEW i \in Instances
  PROVE  Kept(a, Current(row).doc[i], row'.doc[i])
BY WhoStores DEF Writing

LEMMA StepWithinGrant == SaveInv /\ [Next]_vars => WithinGrant
BY SavesAreKept DEF WithinGrant, Kept

LEMMA StepStaleSurvive == SaveInv /\ [Next]_vars => StaleSurvive
BY SavesAreKept DEF StaleSurvive, Kept, Present

\* A behaviour of the two stores is one of the authorized store, stutters aside.
LEMMA StoresStep == [StoresNext]_storesVars => [Next]_vars
BY DEF StoresNext, storesVars

-----------------------------------------------------------------------------
(* What the authorized store promises.                                     *)

\* Every step of a get or a save keeps what its place in server.ts promises of its draft, of what
\* it has staged and of what it has projected so far.
THEOREM SaveInvariant == StoresSpec => []SaveInv
<1>1. StoresInit => SaveInv
  BY SaveInvAtFirst DEF StoresInit
<1>2. SaveInv /\ [StoresNext]_storesVars => SaveInv'
  BY SaveInvStays, StoresStep
<1> QED
  BY <1>1, <1>2, PTL DEF StoresSpec

\* The variables of reads, saves and replays keep their types (server.ts).
THEOREM TypeCorrect == StoresSpec => []TypeOK
<1>1. SaveInv => TypeOK
  BY DEF SaveInv
<1> QED
  BY <1>1, SaveInvariant, PTL

\* However many permissions, definitions and attempts there are, nothing an attempt
\* returns shows a config its caller could not use under the grant it began with
\* (project and its last authorize, server.ts).
THEOREM NothingRestrictedIsShown == StoresSpec => []NothingRestrictedShown
<1>1. SaveInv => NothingRestrictedShown
  BY DEF SaveInv, NothingRestrictedShown, Sound, Projecting, Harmless
<1> QED
  BY <1>1, SaveInvariant, PTL

\* Whatever else changes while it runs, a save changes only widgets its author may
\* use under the one grant it began with (the two rounds of policy questions between
\* two equal permission revisions, server.ts).
THEOREM EditsAreWithinGrant == StoresSpec => EditsStayWithinGrant
<1>1. SaveInv /\ [StoresNext]_storesVars => [WithinGrant]_vars
  BY StepWithinGrant, StoresStep
<1> QED
  BY <1>1, SaveInvariant, PTL DEF StoresSpec, EditsStayWithinGrant

\* No save removes an instance whose definition is missing, nor touches its config.
THEOREM StaleInstancesDoSurvive == StoresSpec => StaleInstancesSurvive
<1>1. SaveInv /\ [StoresNext]_storesVars => [StaleSurvive]_vars
  BY StepStaleSurvive, StoresStep
<1> QED
  BY <1>1, SaveInvariant, PTL DEF StoresSpec, StaleInstancesSurvive

-----------------------------------------------------------------------------
(***************************************************************************)
(* The audited store.                                                      *)
(***************************************************************************)
Audited == Audit!Audited
Definite == {"refused", "conflict", "collision"}
Prints == {Audit!Fingerprint(r) : r \in Sends}
Entries == [id : MutationIds, doc : Contents, by : Calls, fingerprint : Prints]
Replies ==
  [status : Definite \cup {"pending", "unknown", "lost"}]
    \cup [status : {"saved"}, revision : Nat, doc : Contents]

RepositoryTyped ==
  /\ log \in Seq(Entries)
  /\ sent \in [Calls -> Sends \cup {NoRequest}]
  /\ heard \in [Calls -> Replies]

\* The entry that stands for what attempt a was sent.
IsFor(entry, a) ==
  /\ entry.id = sent[a].id /\ entry.fingerprint = Audit!Fingerprint(sent[a])

\* The log: an id once, each entry what its attempt was sent, and nothing of an
\* attempt that was definitely refused.  What is acknowledged is in it.
LogInv ==
  /\ RepositoryTyped
  /\ \A n \in DOMAIN log : sent[log[n].by] # NoRequest /\ IsFor(log[n], log[n].by)
  /\ \A m, n \in DOMAIN log : log[m].id = log[n].id => m = n
  /\ \A a \in Calls :
       /\ heard[a] # Audit!Pending => sent[a] # NoRequest
       /\ heard[a].status \in Definite => ~Audit!Wrote(a)
       /\ heard[a].status = "saved" =>
            /\ heard[a].revision \in DOMAIN log
            /\ IsFor(log[heard[a].revision], a)
            /\ log[heard[a].revision].doc = heard[a].doc

\* The recorded intent is for what attempt a is asked.
IntentIsFor(a) ==
  /\ intents[Audit!Id(a)] # NoEvent
  /\ intents[Audit!Id(a)].correlation = Audit!Fingerprint(wanted[a])

\* An attempt at the store has announced what it was sent, before anybody else.
AnnouncedBy(a) ==
  /\ sent[a] # NoRequest =>
       /\ sent[a] = wanted[a] /\ at[a] \in {"save", "complete", "done"}
       /\ intents[sent[a].id] # NoEvent
       /\ intents[sent[a].id].correlation = Audit!Fingerprint(sent[a])
  /\ at[a] \in {"save", "complete"} => sent[a] # NoRequest
  /\ at[a] = "reget" => intents[Audit!Id(a)] # NoEvent
  /\ at[a] \in {"outcome", "replay"} => IntentIsFor(a)
  /\ at[a] = "replay" => outcomes[Audit!Id(a)] = "success"
  /\ at[a] \in {"outcome", "replay"} => sent[a] = NoRequest
  /\ at[a] = "complete" => heard[a] # Audit!Pending

\* A refusal is the recorded one, or that of a retry that saved nothing itself.
RefusedTrue(a) ==
  \/ outcomes[Audit!Id(a)] = "denied"
  \/ outcomes[Audit!Id(a)] = "success" /\ sent[a] = NoRequest

\* An attempt that has left was told what is recorded; the others nothing yet.
ToldTrue(a) ==
  /\ told[a].status = "saved" => told[a].revision \in DOMAIN log
  /\ a \in Audited =>
       /\ told[a].status = "saved" =>
            /\ outcomes[Audit!Id(a)] = "success"
            /\ log[told[a].revision].id = Audit!Id(a)
            /\ log[told[a].revision].doc = told[a].doc
       /\ told[a].status = "refused" => RefusedTrue(a)
       /\ told[a].status = "conflict" => outcomes[Audit!Id(a)] = "revision-conflict"
       /\ told[a].status = "collision" => outcomes[Audit!Id(a)] = "mutation-collision"

Mine(a) ==
  /\ at[a] # "idle" => wanted[a] \in Sends
  /\ at[a] # "done" => told[a] = Audit!Pending
  /\ ToldTrue(a)
  /\ IF a \in Audited THEN AnnouncedBy(a) ELSE at[a] \in {"idle", "save", "done"}

\* An outcome was recorded by the one attempt at the store, from what it heard.
Concluded ==
  \A id \in MutationIds : outcomes[id] # NoEvent =>
    \E a \in Audited :
      /\ sent[a] # NoRequest /\ sent[a].id = id /\ at[a] = "done"
      /\ heard[a] # Audit!Pending
      /\ outcomes[id] \in Audit!ResultsOf(heard[a].status)

AuditInv ==
  /\ Audit!TypeOK /\ LogInv /\ Concluded /\ OneSavePerIntent
  /\ \A a \in Calls : Mine(a)

-----------------------------------------------------------------------------
(* The repository of the audited store (DashboardLog).                     *)

LEMMA EntriesTyped ==
  ASSUME RepositoryTyped, NEW n \in DOMAIN log
  PROVE  /\ log[n] \in Entries /\ log[n].by \in Calls /\ log[n].id \in MutationIds
         /\ log[n].doc \in Contents /\ n \in Nat /\ DOMAIN log = 1..Len(log)
         /\ Len(log) \in Nat
<1>1. DOMAIN log = 1..Len(log) /\ Len(log) \in Nat
  BY DEF RepositoryTyped
<1>2. log[n] \in Entries /\ n \in Nat
  BY <1>1 DEF RepositoryTyped
<1>3. \A e \in Entries : e.by \in Calls /\ e.id \in MutationIds /\ e.doc \in Contents
  BY DEF Entries
<1> QED
  BY <1>1, <1>2, <1>3

LEMMA SendsTyped ==
  ASSUME NEW r \in Sends
  PROVE  /\ r.id \in MutationIds /\ r.doc \in Contents /\ r.expected \in Nat
         /\ Audit!Fingerprint(r) \in Prints /\ r # NoRequest
BY AuditAssumption DEF Prints

LEMMA RepliesTyped ==
  /\ Audit!Pending \in Replies
  /\ \A status \in Definite \cup {"pending", "unknown", "lost"} :
       /\ Audit!Answered(status) \in Replies /\ Audit!Answered(status).status = status
       /\ (Audit!Answered(status) = Audit!Pending => status = "pending")
  /\ \A n \in Nat, doc \in Contents :
       /\ Audit!Saved(n, doc) \in Replies
       /\ Audit!Saved(n, doc).status = "saved" /\ Audit!Saved(n, doc).revision = n
       /\ Audit!Saved(n, doc).doc = doc
<1>1. Audit!Pending \in Replies
  BY DEF Audit!Pending, Audit!Answered, Replies
<1>2. ASSUME NEW status \in Definite \cup {"pending", "unknown", "lost"}
      PROVE  /\ Audit!Answered(status) \in Replies /\ Audit!Answered(status).status = status
             /\ (Audit!Answered(status) = Audit!Pending => status = "pending")
  <2>1. Audit!Answered(status) \in Replies /\ Audit!Answered(status).status = status
    BY DEF Audit!Answered, Replies
  <2>2. Audit!Pending.status = "pending"
    BY DEF Audit!Answered, Audit!Pending
  <2> QED
    BY <2>1, <2>2
<1>3. ASSUME NEW n \in Nat, NEW doc \in Contents
      PROVE  /\ Audit!Saved(n, doc) \in Replies
             /\ Audit!Saved(n, doc).status = "saved" /\ Audit!Saved(n, doc).revision = n
             /\ Audit!Saved(n, doc).doc = doc
  BY DEF Audit!Saved, Replies
<1> QED
  BY <1>1, <1>2, <1>3

\* What an attempt hears, and that it was sent something: nothing else of the log.
Answering(a, value) ==
  /\ sent[a] # NoRequest /\ heard[a] = Audit!Pending
  /\ heard' = [heard EXCEPT ![a] = value] /\ log' = log /\ sent' = sent

LEMMA SubmitKeepsLog ==
  ASSUME LogInv, NEW a \in Calls, NEW r \in Sends, Audit!Submit(a, r)
  PROVE  LogInv'
<1>1. /\ sent[a] = NoRequest /\ sent' = [sent EXCEPT ![a] = r] /\ r # NoRequest
      /\ log' = log /\ heard' = heard
  BY SendsTyped DEF Audit!Submit
<1>2. RepositoryTyped'
  BY <1>1 DEF LogInv, RepositoryTyped
<1>3. \A n \in DOMAIN log : log[n].by \in Calls /\ log[n].by # a
  BY <1>1, EntriesTyped DEF LogInv
<1>4. \A b \in Calls : b # a => sent'[b] = sent[b]
  BY <1>1
<1>5. heard[a] = Audit!Pending /\ Audit!Pending.status = "pending"
  BY <1>1, RepliesTyped DEF LogInv, Audit!Pending, Audit!Answered
<1> QED
  BY <1>1, <1>2, <1>3, <1>4, <1>5 DEF LogInv, IsFor, Audit!Wrote, Definite

LEMMA AnswerKeepsLog ==
  ASSUME LogInv, NEW a \in Calls, NEW value \in Replies, Answering(a, value),
         value.status \in Definite => ~Audit!Wrote(a),
         value.status = "saved" =>
           /\ value.revision \in DOMAIN log /\ IsFor(log[value.revision], a)
           /\ log[value.revision].doc = value.doc
  PROVE  LogInv'
<1>1. RepositoryTyped'
  BY DEF LogInv, RepositoryTyped, Answering
<1>2. \A b \in Calls : heard'[b] = IF b = a THEN value ELSE heard[b]
  BY DEF LogInv, RepositoryTyped, Answering
<1> QED
  BY <1>1, <1>2 DEF LogInv, Answering, IsFor, Audit!Wrote

LEMMA AcceptKeepsLog ==
  ASSUME LogInv, NEW a \in Calls, Audit!Accept(a)
  PROVE  LogInv'
<1>1. PICK doc \in Contents :
        /\ log' = Append(log, [id |-> sent[a].id, doc |-> doc, by |-> a,
                               fingerprint |-> Audit!Fingerprint(sent[a])])
        /\ \/ heard' = heard
           \/ /\ heard[a] = Audit!Pending
              /\ heard' = [heard EXCEPT ![a] = Audit!Saved(Len(log'), doc)]
  BY DEF Audit!Accept
<1>2. /\ sent[a] # NoRequest /\ sent' = sent /\ ~Audit!Holds(sent[a].id)
      /\ heard[a].status \in {"pending", "unknown", "lost"}
  BY DEF Audit!Accept, Audit!Asked
<1> DEFINE e == [id |-> sent[a].id, doc |-> doc, by |-> a,
                 fingerprint |-> Audit!Fingerprint(sent[a])]
<1>3. sent[a] \in Sends /\ e \in Entries
  BY <1>2, SendsTyped DEF LogInv, RepositoryTyped, Entries
<1>4. /\ e.id = sent[a].id /\ e.by = a /\ e.doc = doc
      /\ e.fingerprint = Audit!Fingerprint(sent[a])
  OBVIOUS
<1> HIDE DEF e
<1>5. /\ log' \in Seq(Entries) /\ Len(log') = Len(log) + 1 /\ log'[Len(log) + 1] = e
      /\ DOMAIN log = 1..Len(log) /\ DOMAIN log' = 1..(Len(log) + 1) /\ Len(log) \in Nat
      /\ \A n \in DOMAIN log : log'[n] = log[n]
  BY <1>1, <1>3 DEF LogInv, RepositoryTyped, e
<1>6. \A b \in Calls :
        heard'[b] = heard[b] \/ (b = a /\ heard'[b] = Audit!Saved(Len(log) + 1, doc))
  BY <1>1, <1>5 DEF LogInv, RepositoryTyped
<1>7. RepositoryTyped'
  <2>1. heard' \in [Calls -> Replies]
    BY <1>1, <1>5, RepliesTyped DEF LogInv, RepositoryTyped
  <2> QED
    BY <1>2, <1>5, <2>1 DEF LogInv, RepositoryTyped
<1>8. \A n \in DOMAIN log' : sent[log'[n].by] # NoRequest /\ IsFor(log'[n], log'[n].by)
  BY <1>2, <1>4, <1>5 DEF LogInv, IsFor
<1>9. \A m, n \in DOMAIN log' : log'[m].id = log'[n].id => m = n
  BY <1>2, <1>4, <1>5 DEF LogInv, Audit!Holds
<1>10. ASSUME NEW b \in Calls
       PROVE  /\ heard'[b] # Audit!Pending => sent[b] # NoRequest
              /\ heard'[b].status \in Definite =>
                   \A n \in DOMAIN log' : log'[n].by # b
              /\ heard'[b].status = "saved" =>
                   /\ heard'[b].revision \in DOMAIN log'
                   /\ IsFor(log'[heard'[b].revision], b)
                   /\ log'[heard'[b].revision].doc = heard'[b].doc
  <2>1. CASE heard'[b] = heard[b]
    <3>1. heard[b].status \in Definite => b # a
      BY <1>2 DEF Definite
    <3> QED
      BY <1>4, <1>5, <2>1, <3>1 DEF LogInv, Audit!Wrote
  <2>2. CASE b = a /\ heard'[b] = Audit!Saved(Len(log) + 1, doc)
    BY <1>2, <1>4, <1>5, <2>2, RepliesTyped DEF IsFor, Definite
  <2> QED
    BY <1>6, <2>1, <2>2
<1> QED
  BY <1>2, <1>7, <1>8, <1>9, <1>10 DEF LogInv, IsFor, Audit!Wrote

\* Whichever step the repository takes for an attempt it was sent, the log keeps
\* its promises, what is in it stays, and nobody else hears anything.
LEMMA StoreKeepsLog ==
  ASSUME LogInv, NEW a \in Calls,
         \/ Audit!Accept(a) \/ Audit!Acknowledge(a) \/ Audit!Conflict(a)
         \/ Audit!Collide(a) \/ Audit!Refuse(a)
         \/ \E status \in {"unknown", "lost"} : Audit!Lose(a, status)
  PROVE  /\ LogInv' /\ sent' = sent /\ sent[a] # NoRequest
         /\ \A n \in DOMAIN log : n \in DOMAIN log' /\ log'[n] = log[n]
         /\ \A b \in Calls : heard[b] # Audit!Pending => heard'[b] = heard[b]
<1> USE DEF Audit!Asked, Audit!Answer, Answering
<1>1. CASE Audit!Accept(a)
  <2>1. log \in Seq(Entries) /\ heard \in [Calls -> Replies]
    BY DEF LogInv, RepositoryTyped
  <2>2. PICK e \in Entries : log' = Append(log, e)
    <3>1. sent[a] \in Sends
      BY <1>1 DEF Audit!Accept, LogInv, RepositoryTyped
    <3> QED
      BY <1>1, <3>1, SendsTyped DEF Audit!Accept, Entries
  <2> QED
    BY <1>1, <2>1, <2>2, AcceptKeepsLog DEF Audit!Accept
<1>2. ASSUME NEW value \in Replies, Answering(a, value)
      PROVE  /\ sent' = sent /\ sent[a] # NoRequest /\ log' = log
             /\ \A b \in Calls : heard[b] # Audit!Pending => heard'[b] = heard[b]
  BY <1>2 DEF LogInv, RepositoryTyped
<1>7. ASSUME NEW status \in Definite \cup {"pending", "unknown", "lost"},
             Answering(a, Audit!Answered(status)), status \in Definite => ~Audit!Wrote(a)
      PROVE  /\ LogInv' /\ sent' = sent /\ sent[a] # NoRequest /\ log' = log
             /\ \A b \in Calls : heard[b] # Audit!Pending => heard'[b] = heard[b]
  <2>1. PICK value \in Replies : value = Audit!Answered(status) /\ value.status = status
    BY RepliesTyped
  <2>2. Answering(a, value) /\ status # "saved"
    BY <1>7, <2>1 DEF Definite
  <2>3. LogInv'
    BY <1>7, <2>1, <2>2, AnswerKeepsLog
  <2> QED
    BY <1>2, <2>2, <2>3
<1>3. CASE Audit!Acknowledge(a)
  <2>1. PICK n \in DOMAIN log :
          IsFor(log[n], a) /\ Answering(a, Audit!Saved(n, log[n].doc))
    BY <1>3 DEF Audit!Acknowledge, IsFor
  <2>2. n \in Nat /\ log[n].doc \in Contents
    BY EntriesTyped DEF LogInv
  <2>3. PICK value \in Replies :
          /\ value = Audit!Saved(n, log[n].doc) /\ value.status = "saved"
          /\ value.revision = n /\ value.doc = log[n].doc
    BY <2>2, RepliesTyped
  <2>4. Answering(a, value)
    BY <2>1, <2>3
  <2>5. LogInv'
    BY <2>1, <2>3, <2>4, AnswerKeepsLog DEF Definite
  <2> QED
    BY <1>2, <2>4, <2>5
<1>4. CASE Audit!Conflict(a) \/ Audit!Refuse(a)
  <2>1. PICK status \in {"conflict", "refused"} : Answering(a, Audit!Answered(status))
    BY <1>4 DEF Audit!Conflict, Audit!Refuse
  <2>2. ~Audit!Wrote(a)
    BY <1>4 DEF Audit!Conflict, Audit!Refuse
  <2> QED
    BY <1>7, <2>1, <2>2 DEF Definite
<1>5. CASE Audit!Collide(a)
  <2>1. PICK n \in DOMAIN log : log[n].id = sent[a].id
                                /\ log[n].fingerprint # Audit!Fingerprint(sent[a])
    BY <1>5 DEF Audit!Collide
  <2>2. ~Audit!Wrote(a)
    BY <2>1 DEF Audit!Wrote, LogInv, IsFor
  <2>3. Answering(a, Audit!Answered("collision"))
    BY <1>5 DEF Audit!Collide
  <2> QED
    BY <1>7, <2>2, <2>3 DEF Definite
<1>6. CASE \E status \in {"unknown", "lost"} : Audit!Lose(a, status)
  <2>1. PICK status \in {"unknown", "lost"} : Answering(a, Audit!Answered(status))
    BY <1>6 DEF Audit!Lose
  <2> QED
    BY <1>7, <2>1 DEF Definite
<1> QED
  BY <1>1, <1>3, <1>4, <1>5, <1>6

-----------------------------------------------------------------------------
(* The wrapper.  What a step of attempt a keeps of everybody else's.       *)

Persisting(a) ==
  /\ LogInv'
  /\ \A n \in DOMAIN log : n \in DOMAIN log' /\ log'[n] = log[n]
  /\ \A b \in Calls :
       /\ heard[b] # Audit!Pending => heard'[b] = heard[b]
       /\ sent[b] # NoRequest => sent'[b] = sent[b]
       /\ b # a => /\ sent'[b] = sent[b] /\ at'[b] = at[b]
                   /\ wanted'[b] = wanted[b] /\ told'[b] = told[b]
  /\ \A id \in MutationIds :
       /\ intents[id] # NoEvent => intents'[id] = intents[id]
       /\ outcomes[id] # NoEvent => outcomes'[id] = outcomes[id]

\* Only who has announced reaches the store, and only who was there concludes.
Acts(a) ==
  /\ Audit!TypeOK' /\ Persisting(a) /\ Mine(a)' /\ (at[a] = "done" => at'[a] = "done")
  /\ a \in Audited /\ sent[a] = NoRequest /\ sent'[a] # NoRequest =>
       intents[sent'[a].id] = NoEvent
  /\ \A id \in MutationIds : outcomes'[id] # outcomes[id] =>
       /\ a \in Audited /\ sent[a] # NoRequest /\ sent[a].id = id /\ at'[a] = "done"
       /\ heard[a] # Audit!Pending /\ outcomes'[id] \in Audit!ResultsOf(heard[a].status)

LEMMA PendingStatus == Audit!Pending.status = "pending"
BY DEF Audit!Pending, Audit!Answered

LEMMA OthersStayTrue ==
  ASSUME AuditInv, NEW a \in Calls, Persisting(a), NEW b \in Calls, b # a
  PROVE  Mine(b)'
<1>1. /\ sent'[b] = sent[b] /\ at'[b] = at[b] /\ wanted'[b] = wanted[b]
      /\ told'[b] = told[b] /\ Mine(b)
  BY DEF AuditInv, Persisting
<1>2. at[b] # "idle" => wanted[b] \in Sends /\ wanted[b].id \in MutationIds
  BY <1>1, SendsTyped DEF Mine
<1>3. \A result \in Audit!Results :
        wanted[b] \in Sends /\ outcomes[Audit!Id(b)] = result =>
          outcomes'[Audit!Id(b)'] = result
  BY <1>1, <1>2, SendsTyped, AuditAssumption
     DEF Persisting, Audit!Id, Audit!EventsAssumption
<1>4. told[b].status # "pending" => wanted[b] \in Sends
  BY <1>1, PendingStatus DEF Mine
<1>5. ToldTrue(b)'
  <2>1. {"success", "denied", "revision-conflict", "mutation-collision"} \subseteq Audit!Results
    BY DEF Audit!Results
  <2>2. /\ told[b].status = "saved" => told[b].revision \in DOMAIN log
        /\ b \in Audited =>
             /\ told[b].status = "saved" =>
                  /\ outcomes[Audit!Id(b)] = "success"
                  /\ log[told[b].revision].id = Audit!Id(b)
                  /\ log[told[b].revision].doc = told[b].doc
             /\ told[b].status = "refused" => RefusedTrue(b)
             /\ told[b].status = "conflict" =>
                  outcomes[Audit!Id(b)] = "revision-conflict"
             /\ told[b].status = "collision" =>
                  outcomes[Audit!Id(b)] = "mutation-collision"
    BY <1>1 DEF Mine, ToldTrue
  <2>3. Audit!Id(b)' = Audit!Id(b)
    BY <1>1 DEF Audit!Id
  <2>4. told[b].status = "saved" => /\ told[b].revision \in DOMAIN log'
                                    /\ log'[told[b].revision] = log[told[b].revision]
    BY <2>2 DEF Persisting
  <2>5. told[b].status = "refused" /\ b \in Audited => RefusedTrue(b)'
    BY <1>1, <1>3, <1>4, <2>1, <2>2, <2>3 DEF RefusedTrue
  <2> QED
    BY <1>1, <1>3, <1>4, <2>1, <2>2, <2>3, <2>4, <2>5 DEF ToldTrue
<1>6. b \in Audited => AnnouncedBy(b)'
  <2> SUFFICES ASSUME b \in Audited PROVE AnnouncedBy(b)'
    OBVIOUS
  <2>1. AnnouncedBy(b)
    BY <1>1 DEF Mine
  <2>2. sent[b] # NoRequest => sent[b].id \in MutationIds
    BY SendsTyped DEF AuditInv, LogInv, RepositoryTyped
  <2>3. "success" \in Audit!Results /\ (heard[b] # Audit!Pending => heard'[b] = heard[b])
    BY DEF Audit!Results, Persisting
  <2>4. /\ Audit!Id(b)' = Audit!Id(b)
        /\ at[b] \in {"reget", "outcome", "replay"} => Audit!Id(b) \in MutationIds
    BY <1>1, <1>2 DEF Audit!Id
  <2>5. at[b] \in {"outcome", "replay"} => IntentIsFor(b)'
    BY <1>1, <2>1, <2>4 DEF AnnouncedBy, Persisting, IntentIsFor, Audit!Fingerprint
  <2> QED
    BY <1>1, <1>2, <1>3, <2>1, <2>2, <2>3, <2>4, <2>5 DEF AnnouncedBy, Persisting
<1> QED
  BY <1>1, <1>5, <1>6 DEF Mine

\* The invariant says of the trail what it recorded of the log.
LEMMA TrailIsTrue == AuditInv => TrailTellsTheTruth
<1> SUFFICES ASSUME AuditInv PROVE TrailTellsTheTruth
  OBVIOUS
<1>1. \A n \in DOMAIN log : /\ log[n].by \in Calls /\ sent[log[n].by] # NoRequest
                            /\ IsFor(log[n], log[n].by)
  BY EntriesTyped DEF AuditInv, LogInv
<1>2. ASSUME NEW a \in Audited, sent[a] # NoRequest
      PROVE  /\ intents[sent[a].id] # NoEvent
             /\ intents[sent[a].id].correlation = Audit!Fingerprint(sent[a])
  BY <1>2 DEF AuditInv, Mine, AnnouncedBy, Audited, Audit!Audited
<1>3. Audit!NoWriteWithoutIntent
  BY <1>1, <1>2 DEF Audit!NoWriteWithoutIntent, Audited, IsFor
<1>4. ASSUME NEW id \in MutationIds, outcomes[id] \in Audit!Results
      PROVE  /\ outcomes[id] = "success" =>
                  \E n \in DOMAIN log :
                    log[n].id = id /\ log[n].fingerprint = intents[id].correlation
             /\ outcomes[id] \in {"denied", "revision-conflict", "mutation-collision"} =>
                  ~Audit!WrittenBy(id, Audit!Audited)
  <2>1. PICK a \in Audited :
          /\ sent[a] # NoRequest /\ sent[a].id = id
          /\ outcomes[id] \in Audit!ResultsOf(heard[a].status)
    BY <1>4, AuditAssumption DEF AuditInv, Concluded, Audit!EventsAssumption
  <2>2. a \in Calls /\ heard[a] \in Replies
    BY DEF Audited, Audit!Audited, AuditInv, LogInv, RepositoryTyped
  <2>3. CASE outcomes[id] = "success"
    <3>1. heard[a].status = "saved"
      BY <2>1, <2>3 DEF Audit!ResultsOf
    <3>2. heard[a].revision \in DOMAIN log /\ IsFor(log[heard[a].revision], a)
      BY <2>2, <3>1 DEF AuditInv, LogInv
    <3> QED
      BY <1>2, <2>1, <2>3, <3>2 DEF IsFor
  <2>4. CASE outcomes[id] \in {"denied", "revision-conflict", "mutation-collision"}
    <3>1. heard[a].status \in Definite
      BY <2>1, <2>4 DEF Audit!ResultsOf, Definite
    <3>2. ~Audit!Wrote(a)
      BY <2>2, <3>1 DEF AuditInv, LogInv
    <3>3. ASSUME NEW n \in DOMAIN log, log[n].id = id, log[n].by \in Audited
          PROVE  FALSE
      <4>1. log[n].by = a
        BY <1>1, <2>1, <3>3
           DEF AuditInv, OneSavePerIntent, Audit!OneSavePerIntent, Audited, IsFor
      <4> QED
        BY <3>2, <4>1 DEF Audit!Wrote
    <3> QED
      BY <2>4, <3>3 DEF Audit!WrittenBy, Audited
  <2> QED
    BY <2>3, <2>4
<1> QED
  BY <1>3, <1>4 DEF TrailTellsTheTruth, Audit!TrailTellsTheTruth, Audit!Results

LEMMA OneSaveStays ==
  ASSUME AuditInv, NEW a \in Calls, Acts(a)
  PROVE  OneSavePerIntent'
<1>1. ASSUME NEW b \in Audited, NEW c \in Audited, b # c,
             sent'[b] # NoRequest, sent'[c] # NoRequest
      PROVE  sent'[b].id # sent'[c].id
  <2>1. b \in Calls /\ c \in Calls
    BY DEF Audited, Audit!Audited
  <2>2. \A d \in Audited : sent[d] # NoRequest =>
          sent'[d] = sent[d] /\ intents[sent[d].id] # NoEvent
    BY DEF AuditInv, Mine, AnnouncedBy, Acts, Persisting, Audited, Audit!Audited
  <2>3. \A d \in Audited : sent[d] = NoRequest /\ sent'[d] # NoRequest =>
          d = a /\ intents[sent'[d].id] = NoEvent
    BY DEF Acts, Persisting, Audited, Audit!Audited
  <2>4. CASE sent[b] # NoRequest /\ sent[c] # NoRequest
    BY <1>1, <2>2, <2>4 DEF AuditInv, OneSavePerIntent, Audit!OneSavePerIntent, Audited
  <2> QED
    BY <1>1, <2>2, <2>3, <2>4
<1> QED
  BY <1>1 DEF OneSavePerIntent, Audit!OneSavePerIntent, Audited

LEMMA ConcludedStays ==
  ASSUME AuditInv, NEW a \in Calls, Acts(a)
  PROVE  Concluded'
<1> SUFFICES ASSUME NEW id \in MutationIds, outcomes'[id] # NoEvent
             PROVE  \E b \in Audited :
                      /\ sent'[b] # NoRequest /\ sent'[b].id = id /\ at'[b] = "done"
                      /\ heard'[b] # Audit!Pending
                      /\ outcomes'[id] \in Audit!ResultsOf(heard'[b].status)
  BY DEF Concluded, Audit!ResultsOf
<1>1. CASE outcomes'[id] = outcomes[id]
  <2>1. PICK b \in Audited :
          /\ sent[b] # NoRequest /\ sent[b].id = id /\ at[b] = "done"
          /\ heard[b] # Audit!Pending
          /\ outcomes[id] \in Audit!ResultsOf(heard[b].status)
    BY <1>1 DEF AuditInv, Concluded
  <2>2. sent'[b] = sent[b] /\ heard'[b] = heard[b] /\ at'[b] = "done"
    BY <2>1 DEF Acts, Persisting, Audited, Audit!Audited
  <2> QED
    BY <1>1, <2>1, <2>2
<1>2. CASE outcomes'[id] # outcomes[id]
  <2>1. /\ a \in Audited /\ sent[a] # NoRequest /\ sent[a].id = id /\ at'[a] = "done"
        /\ heard[a] # Audit!Pending /\ outcomes'[id] \in Audit!ResultsOf(heard[a].status)
    BY <1>2 DEF Acts
  <2>2. sent'[a] = sent[a] /\ heard'[a] = heard[a]
    BY <2>1 DEF Acts, Persisting
  <2> QED
    BY <2>1, <2>2
<1> QED
  BY <1>1, <1>2

LEMMA ActsKeep ==
  ASSUME AuditInv, NEW a \in Calls, Acts(a)
  PROVE  AuditInv'
<1>1. \A b \in Calls : Mine(b)'
  BY OthersStayTrue DEF Acts
<1>2. Audit!TypeOK' /\ LogInv'
  BY DEF Acts, Persisting
<1> QED
  BY <1>1, <1>2, OneSaveStays, ConcludedStays DEF AuditInv

-----------------------------------------------------------------------------
(* What each step does.                                                    *)

LEMMA TellSays ==
  ASSUME Audit!TypeOK, NEW a \in Calls, NEW value, Audit!Tell(a, value),
         value.status \in Audit!Verdicts
  PROVE  /\ at' \in [Calls -> Audit!Labels] /\ DOMAIN told' = Calls
         /\ at'[a] = "done" /\ told'[a] = value
         /\ \A b \in Calls : told'[b].status \in Audit!Verdicts
         /\ \A b \in Calls : b # a => at'[b] = at[b] /\ told'[b] = told[b]
BY DEF Audit!TypeOK, Audit!Tell, Audit!Goto, Audit!Labels

LEMMA GotoGoes ==
  ASSUME Audit!TypeOK, NEW a \in Calls, NEW label \in Audit!Labels, Audit!Goto(a, label)
  PROVE  /\ at' \in [Calls -> Audit!Labels] /\ at'[a] = label
         /\ \A b \in Calls : b # a => at'[b] = at[b]
BY DEF Audit!TypeOK, Audit!Goto

LEMMA VerdictsTyped ==
  /\ Audit!Labels = {"idle", "get", "prepare", "reget", "reprepare", "outcome", "replay",
                     "save", "complete", "done"}
  /\ \A status \in Audit!Verdicts : Audit!Answered(status).status = status
  /\ \A reply \in Replies : reply.status \in Audit!Verdicts
BY DEF Audit!Labels, Audit!Verdicts, Audit!Answered, Replies, Definite

\* Steps that change nothing but what the attempt itself knows.
Quiet(a) ==
  \/ Audit!Get(a) \/ Audit!AlreadyRecorded(a) \/ Audit!DuplicateConflict(a)
  \/ Audit!GetAgain(a) \/ Audit!ReadOutcome(a) \/ Audit!Replay(a) \/ Audit!ReadFails(a)
  \/ Audit!ReplayFails(a) \/ Audit!PrepareFails(a) \/ Audit!SaveReturns(a) \/ Audit!CompleteFails(a)

\* How a quiet step leaves the attempt: told something true, or one step on.
QuietlyOn(a) ==
  \/ at'[a] = "done"
  \/ /\ at'[a] \in {"prepare", "reget", "reprepare", "outcome", "replay"}
     /\ at[a] \notin {"save", "complete"}
     /\ at'[a] = "reget" => intents[Audit!Id(a)] # NoEvent
     /\ at'[a] = "replay" => outcomes[Audit!Id(a)] = "success"
     /\ at'[a] \in {"outcome", "replay"} => IntentIsFor(a)
     /\ told'[a] = told[a]
  \/ /\ at[a] = "save" /\ at'[a] = "complete" /\ heard[a] # Audit!Pending
     /\ a \in Audited /\ told'[a] = told[a]

LEMMA QuietIsOn ==
  ASSUME AuditInv, NEW a \in Calls, Quiet(a)
  PROVE  /\ at[a] \notin {"idle", "done"}
         /\ UNCHANGED <<log, sent, heard, wanted, intents, outcomes>>
         /\ at' \in [Calls -> Audit!Labels] /\ DOMAIN told' = Calls
         /\ \A b \in Calls : told'[b].status \in Audit!Verdicts
         /\ \A b \in Calls : b # a => at'[b] = at[b] /\ told'[b] = told[b]
         /\ QuietlyOn(a) /\ ToldTrue(a)'
<1> USE VerdictsTyped
<1>0. /\ Audit!TypeOK /\ LogInv /\ Mine(a)
      /\ Audit!Verdicts = {"pending", "saved", "refused", "conflict", "collision", "unknown",
                           "error", "lost"}
  BY DEF AuditInv, Audit!Verdicts
<1>1. ASSUME NEW value, Audit!Tell(a, value), value.status \in Audit!Verdicts,
             at[a] \notin {"idle", "done"},
             UNCHANGED <<log, sent, heard, wanted, intents, outcomes>>,
             value.status = "saved" =>
               /\ value.revision \in DOMAIN log
               /\ a \in Audited => /\ outcomes[Audit!Id(a)] = "success"
                                   /\ log[value.revision].id = Audit!Id(a)
                                   /\ log[value.revision].doc = value.doc,
             a \in Audited /\ value.status = "refused" => RefusedTrue(a),
             a \in Audited /\ value.status = "conflict" =>
               outcomes[Audit!Id(a)] = "revision-conflict",
             a \in Audited /\ value.status = "collision" =>
               outcomes[Audit!Id(a)] = "mutation-collision"
      PROVE  /\ at' \in [Calls -> Audit!Labels] /\ DOMAIN told' = Calls
             /\ \A b \in Calls : told'[b].status \in Audit!Verdicts
             /\ \A b \in Calls : b # a => at'[b] = at[b] /\ told'[b] = told[b]
             /\ QuietlyOn(a) /\ ToldTrue(a)'
  <2>1. /\ at' \in [Calls -> Audit!Labels] /\ DOMAIN told' = Calls
        /\ \A b \in Calls : told'[b].status \in Audit!Verdicts
        /\ \A b \in Calls : b # a => at'[b] = at[b] /\ told'[b] = told[b]
        /\ at'[a] = "done" /\ told'[a] = value
    BY <1>0, <1>1, TellSays
  <2>2. ToldTrue(a)'
    BY <1>1, <2>1 DEF ToldTrue, RefusedTrue, Audit!Id
  <2> QED
    BY <2>1, <2>2 DEF QuietlyOn
<1>2. ASSUME NEW label \in {"prepare", "reget", "reprepare", "outcome", "replay", "complete"},
             Audit!Goto(a, label), told' = told,
             at[a] \notin {"idle", "done"},
             UNCHANGED <<log, sent, heard, wanted, intents, outcomes>>,
             label = "reget" => intents[Audit!Id(a)] # NoEvent,
             label = "replay" => outcomes[Audit!Id(a)] = "success",
             label \in {"outcome", "replay"} => IntentIsFor(a),
             IF label = "complete"
             THEN at[a] = "save" /\ heard[a] # Audit!Pending /\ a \in Audited
             ELSE at[a] \notin {"save", "complete"}
      PROVE  /\ at' \in [Calls -> Audit!Labels] /\ DOMAIN told' = Calls
             /\ \A b \in Calls : told'[b].status \in Audit!Verdicts
             /\ \A b \in Calls : b # a => at'[b] = at[b] /\ told'[b] = told[b]
             /\ QuietlyOn(a) /\ ToldTrue(a)'
  <2>1. /\ at' \in [Calls -> Audit!Labels] /\ at'[a] = label
        /\ \A b \in Calls : b # a => at'[b] = at[b]
    BY <1>0, <1>2, GotoGoes
  <2>2. ToldTrue(a)'
    BY <1>0, <1>2 DEF Mine, ToldTrue, RefusedTrue, Audit!Id
  <2> QED
    BY <1>0, <1>2, <2>1, <2>2 DEF QuietlyOn, Audit!TypeOK
<1>3. ASSUME NEW status \in {"error", "unknown", "collision", "refused", "conflict"},
             Audit!Throws(a, status), at[a] \notin {"idle", "done"},
             a \in Audited /\ status = "refused" => RefusedTrue(a),
             status = "conflict" => outcomes[Audit!Id(a)] = "revision-conflict",
             a \in Audited /\ status = "collision" =>
               outcomes[Audit!Id(a)] = "mutation-collision"
      PROVE  /\ UNCHANGED <<log, sent, heard, wanted, intents, outcomes>>
             /\ at' \in [Calls -> Audit!Labels] /\ DOMAIN told' = Calls
             /\ \A b \in Calls : told'[b].status \in Audit!Verdicts
             /\ \A b \in Calls : b # a => at'[b] = at[b] /\ told'[b] = told[b]
             /\ QuietlyOn(a) /\ ToldTrue(a)'
  <2>1. /\ Audit!Tell(a, Audit!Answered(status)) /\ status \in Audit!Verdicts
        /\ UNCHANGED <<log, sent, heard, wanted, intents, outcomes>>
    BY <1>0, <1>3 DEF Audit!Throws, Audit!vars, Audit!trail
  <2> QED
    BY <1>1, <1>3, <2>1
<1>4. CASE Audit!Get(a) \/ Audit!AlreadyRecorded(a)
  <2>1. Audit!AlreadyRecorded(a) => IntentIsFor(a)
    <3>1. at[a] \notin {"idle", "done"} /\ Audit!AlreadyRecorded(a) => Audit!Id(a) \in MutationIds
      BY <1>0, SendsTyped DEF Mine, Audit!Id
    <3>2. Audit!AlreadyRecorded(a) => /\ at[a] \in {"prepare", "reprepare"}
                                     /\ intents[Audit!Id(a)] = Audit!Intent(a)
      BY DEF Audit!AlreadyRecorded
    <3>3. Audit!Id(a) \in MutationIds /\ Audit!AlreadyRecorded(a) => Audit!Intent(a) # NoEvent
      <4>1. at[a] \in {"prepare", "reprepare"} => wanted[a] \in Sends
        BY <1>0 DEF Mine
      <4> QED
        BY <1>0, <3>2, <4>1, AuditAssumption
           DEF Audit!TypeOK, Audit!Intent, Audit!Intents, Audit!EventsAssumption
    <3> QED
      BY <3>1, <3>2, <3>3 DEF IntentIsFor, Audit!Intent
  <2> QED
    BY <1>2, <1>4, <2>1 DEF Audit!Get, Audit!AlreadyRecorded, Audit!vars, Audit!trail
<1>5. CASE Audit!DuplicateConflict(a)
  BY <1>2, <1>3, <1>5 DEF Audit!DuplicateConflict, Audit!vars, Audit!trail
<1>6. CASE Audit!GetAgain(a)
  BY <1>2, <1>3, <1>6 DEF Audit!GetAgain, Audit!vars, Audit!trail
<1>7. CASE Audit!ReadOutcome(a)
  <2>1. IntentIsFor(a)
    BY <1>0, <1>7 DEF Audit!ReadOutcome, Mine, AnnouncedBy
  <2> QED
    BY <1>2, <1>3, <1>7, <2>1 DEF Audit!ReadOutcome, Audit!vars, Audit!trail, RefusedTrue
<1>8. CASE Audit!Replay(a)
  <2>1. at[a] = "replay" /\ (a \in Audited => outcomes[Audit!Id(a)] = "success")
    BY <1>0, <1>8 DEF Audit!Replay, Mine, AnnouncedBy
  <2>0. a \in Audited => \E n \in DOMAIN log :
          log[n].id = Audit!Id(a) /\ log[n].fingerprint = Audit!Fingerprint(wanted[a])
    <3>1. a \in Audited => IntentIsFor(a) /\ Audit!Id(a) \in MutationIds
      BY <1>0, <2>1, SendsTyped DEF Mine, AnnouncedBy, Audit!Id
    <3> QED
      BY <2>1, <3>1, TrailIsTrue DEF TrailTellsTheTruth, Audit!TrailTellsTheTruth, IntentIsFor
  <2>4. \A n \in DOMAIN log : a \in Audited /\ log[n].id = Audit!Id(a) =>
          log[n].fingerprint = Audit!Fingerprint(wanted[a])
    BY <1>0, <2>0 DEF LogInv
  <2>2. CASE a \notin Audited /\ \E status \in {"unknown", "collision"} : Audit!Throws(a, status)
    BY <1>3, <2>1, <2>2
  <2>3. CASE \E n \in DOMAIN log : /\ log[n].id = Audit!Id(a)
                                   /\ Audit!Tell(a, Audit!Saved(n, log[n].doc))
                                   /\ UNCHANGED <<Audit!vars, wanted, occurredAt, Audit!trail>>
    <3>1. PICK n \in DOMAIN log :
            /\ log[n].id = Audit!Id(a) /\ Audit!Tell(a, Audit!Saved(n, log[n].doc))
            /\ UNCHANGED <<log, sent, heard, wanted, intents, outcomes>>
      BY <2>3 DEF Audit!vars, Audit!trail
    <3>2. n \in Nat /\ log[n].doc \in Contents
      BY <1>0, EntriesTyped DEF LogInv
    <3>3. PICK value : /\ value = Audit!Saved(n, log[n].doc) /\ value.status = "saved"
                       /\ value.revision = n /\ value.doc = log[n].doc
      BY <3>2, RepliesTyped
    <3> QED
      BY <1>0, <1>1, <2>1, <3>1, <3>3
  <2> QED
    BY <1>8, <2>0, <2>2, <2>3, <2>4 DEF Audit!Replay
<1>9. CASE Audit!ReadFails(a) \/ Audit!PrepareFails(a) \/ Audit!CompleteFails(a)
  BY <1>3, <1>9 DEF Audit!ReadFails, Audit!PrepareFails, Audit!CompleteFails
<1>12. CASE Audit!ReplayFails(a)
  <2>1. at[a] = "replay" /\ (a \in Audited => RefusedTrue(a))
    BY <1>0, <1>12 DEF Audit!ReplayFails, Mine, AnnouncedBy, RefusedTrue
  <2> QED
    BY <1>3, <1>12, <2>1 DEF Audit!ReplayFails
<1>10. CASE Audit!SaveReturns(a)
  <2>0. /\ at[a] = "save" /\ heard[a] # Audit!Pending
        /\ UNCHANGED <<log, sent, heard, wanted, intents, outcomes>>
    BY <1>10 DEF Audit!SaveReturns, Audit!vars, Audit!trail
  <2>1. CASE a \in Unaudited
    <3>1. Audit!Tell(a, heard[a]) /\ a \notin Audited /\ heard[a] \in Replies
      BY <1>0, <1>10, <2>1
         DEF Audit!SaveReturns, Audited, Audit!Audited, LogInv, RepositoryTyped
    <3>2. heard[a].status = "saved" => heard[a].revision \in DOMAIN log
      BY <1>0 DEF LogInv
    <3> QED
      BY <1>1, <2>0, <3>1, <3>2
  <2>2. CASE a \notin Unaudited
    BY <1>2, <1>10, <2>0, <2>2 DEF Audit!SaveReturns, Audited, Audit!Audited
  <2> QED
    BY <2>1, <2>2
<1>11. at[a] \notin {"idle", "done"}
       /\ UNCHANGED <<log, sent, heard, wanted, intents, outcomes>>
  BY DEF Quiet, Audit!Get, Audit!AlreadyRecorded, Audit!DuplicateConflict, Audit!GetAgain,
       Audit!ReadOutcome, Audit!Replay, Audit!ReadFails, Audit!ReplayFails, Audit!PrepareFails,
       Audit!SaveReturns, Audit!CompleteFails, Audit!Throws, Audit!vars, Audit!trail
<1> QED
  BY <1>4, <1>5, <1>6, <1>7, <1>8, <1>9, <1>10, <1>11, <1>12 DEF Quiet

LEMMA QuietActs ==
  ASSUME AuditInv, NEW a \in Calls, Quiet(a)
  PROVE  Acts(a)
<1>0. /\ Audit!TypeOK /\ LogInv /\ Mine(a) /\ QuietlyOn(a) /\ ToldTrue(a)'
      /\ at[a] \notin {"idle", "done"}
      /\ UNCHANGED <<log, sent, heard, wanted, intents, outcomes>>
      /\ at' \in [Calls -> Audit!Labels] /\ DOMAIN told' = Calls
      /\ \A b \in Calls : told'[b].status \in Audit!Verdicts
      /\ \A b \in Calls : b # a => at'[b] = at[b] /\ told'[b] = told[b]
  BY QuietIsOn DEF AuditInv
<1>1. Audit!TypeOK'
  <2>1. occurredAt' \in [Calls -> Calls]
    <3>1. \A id \in MutationIds : intents[id] # NoEvent => intents[id].occurredAt \in Calls
      BY <1>0 DEF Audit!TypeOK, Audit!Intents
    <3>2. Audit!Id(a) \in MutationIds
      BY <1>0, SendsTyped DEF Mine, Audit!Id
    <3>3. at[a] = "reget" => intents[Audit!Id(a)] # NoEvent
      BY <1>0 DEF Mine, AnnouncedBy
    <3>4. CASE Audit!Get(a) \/ Audit!GetAgain(a)
      <4>1. \/ occurredAt' = occurredAt
            \/ /\ intents[Audit!Id(a)] # NoEvent
               /\ occurredAt' = [occurredAt EXCEPT ![a] = intents[Audit!Id(a)].occurredAt]
        BY <3>3, <3>4 DEF Audit!Get, Audit!GetAgain, Audit!Throws
      <4> QED
        BY <1>0, <3>1, <3>2, <4>1 DEF Audit!TypeOK
    <3>5. CASE ~(Audit!Get(a) \/ Audit!GetAgain(a))
      <4>1. occurredAt' = occurredAt
        BY <3>5 DEF Quiet, Audit!AlreadyRecorded, Audit!DuplicateConflict,
             Audit!ReadOutcome, Audit!Replay, Audit!ReadFails, Audit!ReplayFails,
             Audit!PrepareFails, Audit!SaveReturns, Audit!CompleteFails, Audit!Throws
      <4> QED
        BY <1>0, <4>1 DEF Audit!TypeOK
    <3> QED
      BY <3>4, <3>5
  <2> QED
    BY <1>0, <2>1 DEF Audit!TypeOK
<1>2. LogInv'
  BY <1>0 DEF LogInv, RepositoryTyped, IsFor, Audit!Wrote
<1>3. Persisting(a)
  BY <1>0, <1>2 DEF Persisting
<1>4. Mine(a)'
  <2>1. a \notin Audited => at'[a] = "done"
    BY <1>0 DEF Mine, QuietlyOn
  <2>2. a \in Audited => AnnouncedBy(a)'
    BY <1>0 DEF Mine, AnnouncedBy, QuietlyOn, IntentIsFor, Audit!Id
  <2> QED
    BY <1>0, <2>1, <2>2 DEF Mine, QuietlyOn
<1> QED
  BY <1>0, <1>1, <1>3, <1>4 DEF Acts

LEMMA AskActs ==
  ASSUME AuditInv, NEW a \in Calls, NEW r \in Sends, Audit!Ask(a, r)
  PROVE  Acts(a)
<1>0. /\ Audit!TypeOK /\ LogInv /\ Mine(a) /\ at[a] = "idle"
      /\ wanted' = [wanted EXCEPT ![a] = r] /\ UNCHANGED <<occurredAt, told, intents, outcomes>>
      /\ r # NoRequest /\ told[a] = Audit!Pending
      /\ a \in Audited <=> a \notin Unaudited
  BY SendsTyped DEF AuditInv, Audit!Ask, Mine, Audit!trail, Audited, Audit!Audited
<1>1. /\ wanted' \in [Calls -> Sends \cup {NoRequest}] /\ wanted'[a] = r
      /\ \A b \in Calls : b # a => wanted'[b] = wanted[b]
  BY <1>0 DEF Audit!TypeOK
<1>2. at' \in [Calls -> Audit!Labels] /\ \A b \in Calls : b # a => at'[b] = at[b]
  BY <1>0, GotoGoes, VerdictsTyped DEF Audit!Ask
<1>3. at'[a] = IF a \in Unaudited THEN "save" ELSE "get"
  BY <1>0, GotoGoes, VerdictsTyped DEF Audit!Ask
<1>4. Audit!TypeOK'
  BY <1>0, <1>1, <1>2 DEF Audit!TypeOK
<1>5. ToldTrue(a)'
  BY <1>0, PendingStatus DEF ToldTrue
<1>6. CASE a \in Unaudited
  <2>1. Audit!Submit(a, r)
    BY <1>0, <1>6 DEF Audit!Ask
  <2>2. /\ LogInv' /\ log' = log /\ heard' = heard /\ sent[a] = NoRequest
        /\ \A b \in Calls : b # a => sent'[b] = sent[b]
    BY <1>0, <2>1, SubmitKeepsLog DEF Audit!Submit, LogInv, RepositoryTyped
  <2>3. Persisting(a)
    BY <1>0, <1>1, <1>2, <2>2 DEF Persisting
  <2> QED
    BY <1>0, <1>1, <1>3, <1>4, <1>5, <1>6, <2>3 DEF Acts, Mine
<1>7. CASE a \notin Unaudited
  <2>1. UNCHANGED <<log, sent, heard>>
    BY <1>0, <1>7 DEF Audit!Ask, Audit!vars
  <2>2. LogInv'
    BY <1>0, <2>1 DEF LogInv, RepositoryTyped, IsFor, Audit!Wrote
  <2>3. Persisting(a)
    BY <1>0, <1>1, <1>2, <2>1, <2>2 DEF Persisting
  <2>4. AnnouncedBy(a)'
    BY <1>0, <1>3, <1>7, <2>1 DEF Mine, AnnouncedBy
  <2> QED
    BY <1>0, <1>1, <1>3, <1>4, <1>5, <1>7, <2>1, <2>3, <2>4 DEF Acts, Mine
<1> QED
  BY <1>6, <1>7

LEMMA RecordActs ==
  ASSUME AuditInv, NEW a \in Calls, Audit!Record(a)
  PROVE  Acts(a)
<1>0. /\ Audit!TypeOK /\ LogInv /\ Mine(a) /\ at[a] \in {"prepare", "reprepare"}
      /\ a \in Audited /\ AnnouncedBy(a) /\ sent[a] = NoRequest /\ told[a] = Audit!Pending
      /\ wanted[a] \in Sends /\ intents[Audit!Id(a)] = NoEvent
      /\ UNCHANGED <<wanted, occurredAt, outcomes>>
  BY DEF AuditInv, Audit!Record, Mine, AnnouncedBy
<1>1. /\ Audit!Intent(a) \in Audit!Intents
      /\ Audit!Intent(a).correlation = Audit!Fingerprint(wanted[a])
      /\ Audit!Id(a) \in MutationIds /\ Audit!Id(a) = wanted[a].id
      /\ Audit!Intent(a) # NoEvent
  BY <1>0, SendsTyped, AuditAssumption
     DEF Audit!TypeOK, Audit!Intent, Audit!Intents, Audit!Id, Audit!EventsAssumption
<1>2. /\ intents' \in [MutationIds -> Audit!Intents \cup {NoEvent}]
      /\ intents'[Audit!Id(a)] = Audit!Intent(a)
      /\ \A id \in MutationIds : intents[id] # NoEvent => intents'[id] = intents[id]
  BY <1>0, <1>1 DEF Audit!Record, Audit!TypeOK
<1>3. CASE Audit!Goto(a, "save") /\ Audit!Submit(a, wanted[a]) /\ told' = told
  <2>1. /\ at' \in [Calls -> Audit!Labels] /\ at'[a] = "save"
        /\ \A b \in Calls : b # a => at'[b] = at[b]
    BY <1>0, <1>3, GotoGoes, VerdictsTyped
  <2>2. /\ LogInv' /\ log' = log /\ heard' = heard /\ sent'[a] = wanted[a]
        /\ \A b \in Calls : b # a => sent'[b] = sent[b]
    BY <1>0, <1>3, SubmitKeepsLog DEF Audit!Submit, LogInv, RepositoryTyped
  <2>3. Audit!TypeOK' /\ Persisting(a)
    BY <1>0, <1>2, <1>3, <2>1, <2>2 DEF Audit!TypeOK, Persisting
  <2>4. ToldTrue(a)'
    BY <1>0, <1>3, PendingStatus DEF ToldTrue
  <2>5. AnnouncedBy(a)'
    BY <1>0, <1>1, <1>2, <2>1, <2>2, SendsTyped DEF AnnouncedBy
  <2> QED
    BY <1>0, <1>1, <1>3, <2>1, <2>2, <2>3, <2>4, <2>5 DEF Acts, Mine
<1>4. CASE Audit!Tell(a, Audit!Answered("error")) /\ UNCHANGED Audit!vars
  <2>1. Audit!Answered("error").status = "error" /\ "error" \in Audit!Verdicts
    BY VerdictsTyped DEF Audit!Verdicts
  <2>2. /\ at' \in [Calls -> Audit!Labels] /\ DOMAIN told' = Calls
        /\ at'[a] = "done" /\ told'[a] = Audit!Answered("error")
        /\ \A b \in Calls : told'[b].status \in Audit!Verdicts
        /\ \A b \in Calls : b # a => at'[b] = at[b] /\ told'[b] = told[b]
    BY <1>0, <1>4, <2>1, TellSays
  <2>3. UNCHANGED <<log, sent, heard>>
    BY <1>4 DEF Audit!vars
  <2>4. LogInv'
    BY <1>0, <2>3 DEF LogInv, RepositoryTyped, IsFor, Audit!Wrote
  <2>5. Audit!TypeOK' /\ Persisting(a)
    BY <1>0, <1>2, <2>2, <2>3, <2>4 DEF Audit!TypeOK, Persisting
  <2>6. ToldTrue(a)' /\ AnnouncedBy(a)'
    BY <1>0, <2>1, <2>2, <2>3 DEF ToldTrue, AnnouncedBy
  <2> QED
    BY <1>0, <2>2, <2>3, <2>5, <2>6 DEF Acts, Mine
<1> QED
  BY <1>3, <1>4 DEF Audit!Record

\* The repository's answers change nothing the wrapper knows.
LEMMA StoreActs ==
  ASSUME AuditInv, NEW a \in Calls, Audit!StoreSteps(a)
  PROVE  Acts(a)
<1>0. /\ Audit!TypeOK /\ LogInv /\ Mine(a)
      /\ UNCHANGED <<at, wanted, occurredAt, told, intents, outcomes>>
  BY DEF AuditInv, Audit!StoreSteps, Audit!wrapper, Audit!trail
<1>1. /\ LogInv' /\ sent' = sent /\ sent[a] # NoRequest
      /\ \A n \in DOMAIN log : n \in DOMAIN log' /\ log'[n] = log[n]
      /\ \A b \in Calls : heard[b] # Audit!Pending => heard'[b] = heard[b]
  BY <1>0, StoreKeepsLog DEF Audit!StoreSteps
<1>2. Audit!TypeOK' /\ Persisting(a)
  BY <1>0, <1>1 DEF Audit!TypeOK, Persisting
<1>3. ToldTrue(a)'
  BY <1>0, <1>1 DEF Mine, ToldTrue, RefusedTrue, Audit!Id
<1>4. a \in Audited => AnnouncedBy(a)'
  BY <1>0, <1>1 DEF Mine, AnnouncedBy, IntentIsFor, Audit!Id
<1> QED
  BY <1>0, <1>1, <1>2, <1>3, <1>4 DEF Acts, Mine

LEMMA CompleteActs ==
  ASSUME AuditInv, NEW a \in Calls, Audit!Complete(a)
  PROVE  Acts(a)
<1>0. /\ Audit!TypeOK /\ LogInv /\ Mine(a) /\ at[a] = "complete"
      /\ a \in Audited /\ AnnouncedBy(a) /\ wanted[a] \in Sends
      /\ sent[a] = wanted[a] /\ sent[a] # NoRequest /\ heard[a] # Audit!Pending
      /\ heard[a] \in Replies
      /\ UNCHANGED <<log, sent, heard, wanted, occurredAt, intents>>
  BY DEF AuditInv, Audit!Complete, Mine, AnnouncedBy, Audit!vars, LogInv, RepositoryTyped
<1>1. PICK result \in Audit!ResultsOf(heard[a].status) :
        /\ outcomes' = [outcomes EXCEPT ![Audit!Id(a)] = result]
        /\ \/ Audit!Tell(a, Audit!ToldFor(a, result))
           \/ Audit!Tell(a, Audit!Answered("unknown"))
  BY DEF Audit!Complete
<1>2. Audit!Id(a) \in MutationIds /\ Audit!Id(a) = sent[a].id
  BY <1>0, SendsTyped DEF Audit!Id
<1>3. result \in Audit!Results
  BY DEF Audit!ResultsOf, Audit!Results
<1>4. outcomes[Audit!Id(a)] = NoEvent
  <2>1. SUFFICES ASSUME outcomes[Audit!Id(a)] # NoEvent PROVE FALSE
    OBVIOUS
  <2>2. PICK b \in Audited :
          sent[b] # NoRequest /\ sent[b].id = Audit!Id(a) /\ at[b] = "done"
    BY <1>2, <2>1 DEF AuditInv, Concluded
  <2>3. b = a
    BY <1>0, <1>2, <2>2 DEF AuditInv, OneSavePerIntent, Audit!OneSavePerIntent, Audited
  <2> QED
    BY <1>0, <2>2, <2>3
<1>5. /\ outcomes' \in [MutationIds -> Audit!Results \cup {NoEvent}]
      /\ outcomes'[Audit!Id(a)] = result
      /\ \A id \in MutationIds : id # Audit!Id(a) => outcomes'[id] = outcomes[id]
  BY <1>0, <1>1, <1>2, <1>3 DEF Audit!TypeOK
<1>6. PICK value :
        /\ Audit!Tell(a, value) /\ value.status \in Audit!Verdicts
        /\ \/ value = heard[a] /\ result # "unknown"
           \/ value.status = "unknown"
  <2>1. /\ Audit!Answered("unknown").status = "unknown" /\ "unknown" \in Audit!Verdicts
        /\ heard[a].status \in Audit!Verdicts
    BY <1>0, VerdictsTyped DEF Audit!Verdicts
  <2>2. \/ Audit!ToldFor(a, result) = heard[a] /\ result # "unknown"
        \/ Audit!ToldFor(a, result) = Audit!Answered("unknown")
    BY DEF Audit!ToldFor
  <2> QED
    BY <1>1, <2>1, <2>2
<1>7. /\ at' \in [Calls -> Audit!Labels] /\ DOMAIN told' = Calls
      /\ at'[a] = "done" /\ told'[a] = value
      /\ \A b \in Calls : told'[b].status \in Audit!Verdicts
      /\ \A b \in Calls : b # a => at'[b] = at[b] /\ told'[b] = told[b]
  BY <1>0, <1>6, TellSays
<1>8. LogInv'
  BY <1>0 DEF LogInv, RepositoryTyped, IsFor, Audit!Wrote
<1>9. Audit!TypeOK' /\ Persisting(a)
  BY <1>0, <1>4, <1>5, <1>7, <1>8 DEF Audit!TypeOK, Persisting
<1>10. ToldTrue(a)'
  <2>1. CASE value.status = "unknown"
    BY <1>7, <2>1 DEF ToldTrue
  <2>2. CASE value = heard[a] /\ result # "unknown"
    <3>1. /\ heard[a].status = "saved" => result = "success"
          /\ heard[a].status = "refused" => result = "denied"
          /\ heard[a].status = "conflict" => result = "revision-conflict"
          /\ heard[a].status = "collision" => result = "mutation-collision"
      BY <1>1, <2>2 DEF Audit!ResultsOf
    <3>2. heard[a].status = "saved" =>
            /\ heard[a].revision \in DOMAIN log
            /\ log[heard[a].revision].id = sent[a].id
            /\ log[heard[a].revision].doc = heard[a].doc
      BY <1>0 DEF LogInv, IsFor
    <3>3. Audit!Id(a)' = Audit!Id(a)
      BY <1>0 DEF Audit!Id
    <3> QED
      BY <1>0, <1>2, <1>5, <1>7, <2>2, <3>1, <3>2, <3>3 DEF ToldTrue, RefusedTrue
  <2> QED
    BY <1>6, <2>1, <2>2
<1>11. AnnouncedBy(a)'
  BY <1>0, <1>7 DEF AnnouncedBy
<1> QED
  BY <1>0, <1>1, <1>2, <1>5, <1>7, <1>9, <1>10, <1>11 DEF Acts, Mine

LEMMA CrashActs ==
  ASSUME AuditInv, NEW a \in Calls, Audit!Crash(a)
  PROVE  Acts(a)
<1>0. /\ Audit!TypeOK /\ LogInv /\ Mine(a) /\ at[a] \notin {"idle", "done"}
      /\ Audit!Tell(a, Audit!Answered("lost"))
      /\ UNCHANGED <<wanted, occurredAt, intents, outcomes>>
  BY DEF AuditInv, Audit!Crash, Audit!trail
<1>1. Audit!Answered("lost").status = "lost" /\ "lost" \in Audit!Verdicts
  BY VerdictsTyped DEF Audit!Verdicts
<1>2. /\ at' \in [Calls -> Audit!Labels] /\ DOMAIN told' = Calls
      /\ at'[a] = "done" /\ told'[a] = Audit!Answered("lost")
      /\ \A b \in Calls : told'[b].status \in Audit!Verdicts
      /\ \A b \in Calls : b # a => at'[b] = at[b] /\ told'[b] = told[b]
  BY <1>0, <1>1, TellSays
<1>3. /\ LogInv' /\ sent' = sent
      /\ \A n \in DOMAIN log : n \in DOMAIN log' /\ log'[n] = log[n]
      /\ \A b \in Calls : heard[b] # Audit!Pending => heard'[b] = heard[b]
  <2>1. CASE Audit!Lose(a, "lost")
    BY <1>0, <2>1, StoreKeepsLog
  <2>2. CASE UNCHANGED <<log, sent, heard>>
    BY <1>0, <2>2 DEF LogInv, RepositoryTyped, IsFor, Audit!Wrote
  <2> QED
    BY <2>1, <2>2 DEF Audit!Crash, Audit!vars
<1>4. Audit!TypeOK' /\ Persisting(a)
  BY <1>0, <1>2, <1>3 DEF Audit!TypeOK, Persisting
<1>5. ToldTrue(a)' /\ (a \in Audited => AnnouncedBy(a)')
  BY <1>0, <1>1, <1>2, <1>3 DEF ToldTrue, Mine, AnnouncedBy
<1> QED
  BY <1>0, <1>2, <1>3, <1>4, <1>5 DEF Acts, Mine

LEMMA AuditInvAtFirst == Audit!AuditInit => AuditInv
<1> SUFFICES ASSUME Audit!AuditInit PROVE AuditInv
  OBVIOUS
<1> USE DEF Audit!AuditInit, Audit!Init
<1>1. Audit!TypeOK
  BY PendingStatus DEF Audit!TypeOK, Audit!Labels, Audit!Verdicts
<1>2. LogInv
  BY PendingStatus, RepliesTyped DEF LogInv, RepositoryTyped, Definite
<1>3. OneSavePerIntent /\ Concluded
  BY DEF OneSavePerIntent, Audit!OneSavePerIntent, Audit!Audited, Concluded
<1>4. ASSUME NEW a \in Calls PROVE Mine(a)
  BY PendingStatus DEF Mine, ToldTrue, AnnouncedBy
<1> QED
  BY <1>1, <1>2, <1>3, <1>4 DEF AuditInv

LEMMA AuditInvStays == AuditInv /\ [Audit!AuditNext]_auditing => AuditInv'
<1> SUFFICES ASSUME AuditInv, [Audit!AuditNext]_auditing PROVE AuditInv'
  OBVIOUS
<1>1. ASSUME NEW a \in Calls, Acts(a) PROVE AuditInv'
  BY <1>1, ActsKeep
<1>2. CASE Audit!AuditNext
  <2>1. PICK a \in Calls :
          \/ \E r \in Sends : Audit!Ask(a, r)
          \/ Quiet(a) \/ Audit!Record(a) \/ Audit!StoreSteps(a) \/ Audit!Complete(a)
          \/ Audit!Crash(a)
    BY <1>2 DEF Audit!AuditNext, Quiet
  <2> QED
    BY <1>1, <2>1, AskActs, QuietActs, RecordActs, StoreActs, CompleteActs, CrashActs
<1>3. CASE UNCHANGED auditing
  <2> USE <1>3 DEF auditing
  <2>1. Audit!TypeOK' /\ LogInv'
    BY DEF AuditInv, Audit!TypeOK, LogInv, RepositoryTyped, IsFor, Audit!Wrote
  <2>2. Concluded' /\ OneSavePerIntent'
    BY DEF AuditInv, Concluded, OneSavePerIntent, Audit!OneSavePerIntent
  <2>3. \A a \in Calls : Mine(a)'
    BY DEF AuditInv, Mine, ToldTrue, RefusedTrue, AnnouncedBy, IntentIsFor, Audit!Id
  <2> QED
    BY <2>1, <2>2, <2>3 DEF AuditInv
<1> QED
  BY <1>2, <1>3

LEMMA ToldIsTrue == AuditInv => ToldWhatIsRecorded
BY DEF AuditInv, Mine, ToldTrue, RefusedTrue, ToldWhatIsRecorded, Audit!ToldWhatIsRecorded, Audited,
       Audit!Audited

-----------------------------------------------------------------------------
(* What the audited store promises.                                        *)

\* Every step of an audited save keeps the log, the intents and the outcomes in agreement
\* (server-audit.ts: save).
THEOREM AuditInvariant == StoresSpec => []AuditInv
<1>1. StoresInit => AuditInv
  BY AuditInvAtFirst DEF StoresInit
<1>2. [StoresNext]_storesVars => [Audit!AuditNext]_auditing
  BY DEF StoresNext, storesVars
<1>3. AuditInv /\ [StoresNext]_storesVars => AuditInv'
  BY <1>2, AuditInvStays
<1> QED
  BY <1>1, <1>3, PTL DEF StoresSpec

\* However many callers retry, race or crash, at most one audited attempt on a
\* mutation id reaches the store: the one whose audit.prepare found no intent
\* (server-audit.ts: save).
THEOREM OneSaveForAnIntent == StoresSpec => []OneSavePerIntent
<1>1. AuditInv => OneSavePerIntent
  BY DEF AuditInv
<1> QED
  BY <1>1, AuditInvariant, PTL

\* The outcome the trail holds is what happened to the log: a success is in it with
\* the intent's content, a definite failure never will be, and no audited save is in
\* it without an intent (server-audit.ts: save, resultFor).
THEOREM TheTrailIsTrue == StoresSpec => []TrailTellsTheTruth
BY AuditInvariant, TrailIsTrue, PTL

\* A definite answer of the wrapper is the recorded outcome; only a retry of a recorded
\* success, which saves nothing, may be refused the reading of it instead (server-audit.ts:
\* save, createDashboardMutationReplayReader).
THEOREM CallersHearTheTrail == StoresSpec => []ToldWhatIsRecorded
BY AuditInvariant, ToldIsTrue, PTL
=============================================================================
