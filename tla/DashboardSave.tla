---------------------------- MODULE DashboardSave ----------------------------
(***************************************************************************)
(* server.ts over storage/sqlite.ts: the read and the save of              *)
(* createAuthorizedDashboardStore.  Authorization is the application's: its*)
(* answers change at any moment, each change giving a new permission       *)
(* revision, and every policy question below is a separate await.  The save*)
(* rebuilds a whole document from those answers while they may change, and *)
(* puts back what its author may not see.                                  *)
(***************************************************************************)
EXTENDS DashboardStorage, FiniteSets

CONSTANTS
  Principals, PrincipalOf,    \* who makes each attempt
  Instances, Cells, Absent,   \* a document maps instances to cells or Absent
  Redacted,                   \* the config {} of a restricted instance
  Grants,                     \* [read, write, widgets]: what a policy may say
  InitialGrant,               \* [Principals -> Grants]
  MaxRevision,                \* BOUND on permission revisions
  DefinedFor,                 \* the definitions bound, at their config version, where
                              \* an attempt is served
  Parse,                      \* the config schema: a config or Refused
  Refused

\* Two instances never overlap: here a place is taken once.
Laid(doc) ==
  \A i, j \in Instances :
    i # j /\ doc[i] # Absent /\ doc[j] # Absent => doc[i].place # doc[j].place

\* A document is any layout in which nothing overlaps; the schema's parse and the
\* projection give cells again, and a cell may take the place of another.
ASSUME DocumentsAssumption ==
  /\ Documents = {doc \in [Instances -> Cells \cup {Absent}] : Laid(doc)}
  /\ Absent \notin Cells /\ Absent \notin Documents
  /\ \A c \in Cells :
       /\ c = [widget |-> c.widget, config |-> c.config, place |-> c.place]
       /\ [c EXCEPT !.config = Redacted] \in Cells
       /\ Parse[c.config] # Refused => [c EXCEPT !.config = Parse[c.config]] \in Cells
       /\ \A other \in Cells : [c EXCEPT !.place = other.place] \in Cells
ASSUME PolicyAssumption ==
  /\ PrincipalOf \in [Attempts -> Principals]
  /\ InitialGrant \in [Principals -> Grants]
  /\ MaxRevision \in Nat \ {0}

VARIABLES
  rights,       \* per principal: its grants; the length is the revision
  permission,   \* per attempt: `permission`, the revision it started under
  draft,        \* per attempt: the document being built or projected
  todo,         \* per attempt: instances the current loop has still to visit
  fixed,        \* per attempt: `immutable`
  shown         \* per attempt: the document it returned, Absent before

policy == <<permission, draft, todo, fixed, shown>>
vars == <<stored, local, rights, policy>>

Revision(p) == Len(rights[p])
Now(a) == rights[PrincipalOf[a]][Revision(PrincipalOf[a])]
Granted(a) == rights[PrincipalOf[a]][permission[a]]
CanUse(a, cell) == cell.widget \in Now(a).widgets
Reading(a) == request[a] = NoRequest
Present(doc) == {i \in Instances : doc[i] # Absent}

\* The definition is missing where a is served, or at another config version.
Stale(a, cell) == cell.widget \notin DefinedFor[a]

Labels == {"idle", "admit", "load", "run", "permit", "restore", "check", "recheck",
           "authorize", "project", "confirm", "dispatch", "persist", "done"}

TypeOK ==
  /\ SharedTypeOK
  /\ pc \in [Attempts -> Labels]
  /\ rights \in [Principals -> Seq(Grants)]
  /\ permission \in [Attempts -> 0..MaxRevision]
  /\ draft \in [Attempts -> [Instances -> Cells \cup {Absent}]]
  /\ todo \in [Attempts -> SUBSET Instances]
  /\ fixed \in [Attempts -> SUBSET Instances]
  /\ shown \in [Attempts -> Documents \cup {Absent}]

Init ==
  /\ SharedInit
  /\ rights = [p \in Principals |-> <<InitialGrant[p]>>]
  /\ permission = [a \in Attempts |-> 0]
  /\ draft = [a \in Attempts |-> Defaults]
  /\ todo = [a \in Attempts |-> {}]
  /\ fixed = [a \in Attempts |-> {}]
  /\ shown = [a \in Attempts |-> Absent]

-----------------------------------------------------------------------------
(* The application changes a principal's permission facts. *)

Change(p, grant) ==
  /\ Revision(p) < MaxRevision
  /\ grant # rights[p][Revision(p)]
  /\ rights' = [rights EXCEPT ![p] = Append(@, grant)]
  /\ UNCHANGED <<stored, local, policy>>

-----------------------------------------------------------------------------
(* Both calls start alike: permissionRevision, authorize, load. *)

\* MUTANT: the permission revision is not compared.
AuthorizedNow(a, write) == Now(a).read /\ (write => Now(a).write)

\* The rights are read before the revision, so equal revisions mean they held.
Authorized(a, write) ==
  /\ Now(a).read
  /\ write => Now(a).write
  /\ Revision(PrincipalOf[a]) = permission[a]

Keep(a) == UNCHANGED <<stored, rights, request, view, found, staged, answer>>

\* A read settles too, but it is no save: the log knows nothing of it.
Finish(a, value) ==
  IF Reading(a) THEN Goto(a, "done") /\ UNCHANGED <<request, view, found, staged, answer>>
  ELSE Settle(a, value)

Reply(a, value) == Finish(a, value) /\ UNCHANGED <<stored, rights, policy>>
Deny(a) == Reply(a, Answered("refused"))

Start(a) ==
  /\ pc[a] = "idle"
  /\ permission' = [permission EXCEPT ![a] = Revision(PrincipalOf[a])]
  /\ Goto(a, "admit")
  /\ \/ request' = request
     \/ \E r \in Requests : /\ r.expected <= Current(row).revision
                            /\ request' = [request EXCEPT ![a] = r]
  /\ UNCHANGED <<stored, rights, view, found, staged, answer, draft, todo, fixed, shown>>

Admit(a) ==
  /\ pc[a] = "admit"
  /\ IF Authorized(a, ~Reading(a))
     THEN Goto(a, "load") /\ Keep(a) /\ UNCHANGED policy
     ELSE Deny(a)

\* bun:sqlite is synchronous: the two reads are one step.
Load(a) ==
  /\ pc[a] = "load"
  /\ view' = [view EXCEPT ![a] = Current(row)]
  /\ found' = [found EXCEPT ![a] = IF Reading(a) THEN NoMutation
                                   ELSE mutations[request[a].id]]
  /\ Goto(a, "run")
  /\ UNCHANGED <<stored, rights, request, staged, answer, policy>>

-----------------------------------------------------------------------------
(* The callback of save and read. *)

\* Enter a loop over the instances of `doc`.
Visit(a, label, doc, instances) ==
  /\ Goto(a, label)
  /\ draft' = [draft EXCEPT ![a] = doc]
  /\ todo' = [todo EXCEPT ![a] = instances]
  /\ Keep(a)
  /\ UNCHANGED <<permission, shown>>

Project(a, doc) == Visit(a, "project", doc, Present(doc)) /\ UNCHANGED fixed

Run(a) ==
  /\ pc[a] = "run"
  /\ CASE Reading(a) -> Project(a, view[a].doc)
       [] ~Reading(a) /\ found[a] # NoMutation ->
            IF found[a].fingerprint = Fingerprint(request[a])
            THEN Goto(a, "permit") /\ Keep(a) /\ UNCHANGED policy
            ELSE Reply(a, Answered("collision"))
       [] OTHER ->
            IF view[a].revision # request[a].expected
            THEN Reply(a, Answered("conflict"))
            ELSE Visit(a, "restore", request[a].doc, Present(view[a].doc)) /\ UNCHANGED fixed

Permit(a) ==
  /\ pc[a] = "permit"
  /\ IF Authorized(a, TRUE) THEN Project(a, found[a].snapshot.doc) ELSE Deny(a)

\* The list order of a document, whatever it is.
Next1(a) == CHOOSE i \in todo[a] : TRUE
Visited(a, i) == todo' = [todo EXCEPT ![a] = @ \ {i}]
Leave(a, label) == Visit(a, label, draft[a], {}) /\ UNCHANGED fixed

\* MUTANT: only what is hidden is put back.
RestoredIfHidden(a, original, sent) == IF ~CanUse(a, original) THEN original ELSE sent

\* An instance its author may not use is put back as it was; one whose
\* definition is missing here keeps its config and takes only the new place.
Restored(a, original, sent) ==
  IF ~CanUse(a, original) \/ sent = Absent THEN original
  ELSE [original EXCEPT !.place = sent.place]

Restore(a) ==
  /\ pc[a] = "restore"
  /\ todo[a] # {}
  /\ LET i == Next1(a)
         original == view[a].doc[i]
         immutable == ~CanUse(a, original) \/ Stale(a, original)
     IN  /\ draft' = [draft EXCEPT ![a][i] =
                        IF immutable THEN Restored(a, original, @) ELSE @]
         /\ fixed' = [fixed EXCEPT ![a] = IF immutable THEN @ \cup {i} ELSE @]
         /\ Visited(a, i)
  /\ Keep(a) /\ UNCHANGED <<pc, permission, shown>>

RestoreDone(a) ==
  /\ pc[a] = "restore"
  /\ todo[a] = {}
  /\ Visit(a, "check", draft[a], Present(draft[a]) \ fixed[a])
  /\ UNCHANGED fixed

Check(a) ==
  /\ pc[a] = "check"
  /\ todo[a] # {}
  /\ LET i == Next1(a)
         cell == draft[a][i]
         config == Parse[cell.config]
     IN  IF ~CanUse(a, cell) \/ Stale(a, cell) \/ config = Refused THEN Deny(a)
         ELSE /\ draft' = [draft EXCEPT ![a][i].config = config]
              /\ Visited(a, i)
              /\ Keep(a) /\ UNCHANGED <<pc, permission, fixed, shown>>

\* validateDocument, then the second round of policy questions: what is kept
\* or added, and what is removed.
CheckDone(a) ==
  /\ pc[a] = "check"
  /\ todo[a] = {}
  /\ IF Laid(draft[a])
     THEN /\ Visit(a, "recheck", draft[a],
                   (Present(draft[a]) \cup Present(view[a].doc)) \ fixed[a])
          /\ UNCHANGED fixed
     ELSE Deny(a)

Recheck(a) ==
  /\ pc[a] = "recheck"
  /\ todo[a] # {}
  /\ LET i == Next1(a)
         cell == IF draft[a][i] # Absent THEN draft[a][i] ELSE view[a].doc[i]
     IN  IF ~CanUse(a, cell) THEN Deny(a)
         ELSE /\ Visited(a, i)
              /\ Keep(a) /\ UNCHANGED <<pc, permission, draft, fixed, shown>>

RecheckDone(a) == pc[a] = "recheck" /\ todo[a] = {} /\ Leave(a, "authorize")

\* authorize, then tx.commit stages and project(saved) begins.
Stage(a) ==
  /\ pc[a] = "authorize"
  /\ IF Authorized(a, TRUE)
     THEN /\ staged' = [staged EXCEPT ![a] =
                          [revision |-> view[a].revision + 1, doc |-> draft[a]]]
          /\ todo' = [todo EXCEPT ![a] = Present(draft[a])]
          /\ Goto(a, "project")
          /\ UNCHANGED <<stored, rights, request, view, found, answer,
                         permission, draft, fixed, shown>>
     ELSE Deny(a)

ProjectOne(a) ==
  /\ pc[a] = "project"
  /\ todo[a] # {}
  /\ LET i == Next1(a)
     IN  /\ draft' = [draft EXCEPT ![a][i].config =
                        IF CanUse(a, draft[a][i]) THEN @ ELSE Redacted]
         /\ Visited(a, i)
  /\ Keep(a) /\ UNCHANGED <<pc, permission, fixed, shown>>

ProjectDone(a) == pc[a] = "project" /\ todo[a] = {} /\ Leave(a, "confirm")

Return(a, value) ==
  /\ Finish(a, value)
  /\ shown' = [shown EXCEPT ![a] = draft[a]]
  /\ UNCHANGED <<rights, permission, draft, todo, fixed>>

\* MUTANT: the projection is not authorized again at its end.
ConfirmUnchecked(a) ==
  /\ pc[a] = "confirm"
  /\ IF staged[a] # NoWrite THEN Leave(a, "dispatch")
     ELSE /\ Return(a, IF Reading(a) THEN Pending ELSE Saved(found[a].snapshot))
          /\ UNCHANGED stored

\* project's last authorize.  A staged write is handed to persist; anything
\* else is returned.
Confirm(a) ==
  /\ pc[a] = "confirm"
  /\ IF ~Authorized(a, FALSE) THEN Deny(a)
     ELSE IF staged[a] # NoWrite THEN Leave(a, "dispatch")
     ELSE /\ Return(a, IF Reading(a) THEN Pending ELSE Saved(found[a].snapshot))
          /\ UNCHANGED stored

BeforeDispatch(a) ==
  /\ pc[a] = "dispatch"
  /\ IF Authorized(a, TRUE) THEN Leave(a, "persist") ELSE Deny(a)

\* One immediate transaction, one step.
Persist(a) ==
  /\ pc[a] = "persist"
  /\ LET previous == mutations[request[a].id]
         verified == Verified(a, previous)
     IN  IF previous # NoMutation /\ verified.status = "saved"
         THEN Return(a, verified) /\ UNCHANGED stored
         ELSE IF previous # NoMutation
         THEN Reply(a, verified)
         ELSE IF ~Admits(row, request[a].expected)
         THEN Reply(a, Answered("conflict"))
         ELSE /\ Return(a, Saved(staged[a]))
              /\ row' = staged[a]
              /\ mutations' = [mutations EXCEPT ![request[a].id] = Entry(a)]

\* The signal is aborted, or SQLite refuses: before the write, so nothing of
\* the attempt is stored.
Stop(a) ==
  /\ pc[a] \in {"load", "authorize", "dispatch", "persist"}
  /\ Deny(a)

Step(a) ==
  \/ Admit(a) \/ Load(a) \/ Run(a) \/ Permit(a)
  \/ Restore(a) \/ RestoreDone(a) \/ Check(a) \/ CheckDone(a)
  \/ Recheck(a) \/ RecheckDone(a) \/ Stage(a)
  \/ ProjectOne(a) \/ ProjectDone(a) \/ Confirm(a)
  \/ BeforeDispatch(a) \/ Persist(a) \/ Stop(a)

Next ==
  \/ \E a \in Attempts : Start(a) \/ Step(a)
  \/ \E p \in Principals, grant \in Grants : Change(p, grant)

Spec == Init /\ [][Next]_vars

-----------------------------------------------------------------------------
\* The step that stores attempt a's document.
Stores(a) == pc[a] = "persist" /\ pc'[a] # pc[a] /\ row' # row

\* A save changes only cells whose old and new widget its author may use, under
\* one grant, the one it started with, whatever changed while it ran; a
\* restricted instance comes through unchanged though its author sent {}.
WithinGrant ==
  \A a \in Attempts, i \in Instances :
    LET before == Current(row).doc[i]
        after == row'.doc[i]
    IN  Stores(a) /\ before # after =>
          {c.widget : c \in {before, after} \ {Absent}} \subseteq Granted(a).widgets
EditsStayWithinGrant == [][WithinGrant]_vars

\* An instance whose definition the deployment lacks may be moved, but no save
\* removes it or touches its config: the plugin may come back.
StaleSurvive ==
  \A a \in Attempts, i \in Present(Current(row).doc) :
    LET before == Current(row).doc[i]
    IN  Stores(a) /\ Stale(a, before) =>
          row'.doc[i] # Absent /\ row'.doc[i] = [before EXCEPT !.place = row'.doc[i].place]
StaleInstancesSurvive == [][StaleSurvive]_vars

\* What a read, a save or a replay returns shows no config of a widget that its
\* caller could not use under the grant the call was admitted with.
NothingRestrictedShown ==
  \A a \in Attempts : shown[a] # Absent =>
    /\ Granted(a).read
    /\ \A i \in Present(shown[a]) :
         shown[a][i].config = Redacted \/ shown[a][i].widget \in Granted(a).widgets
=============================================================================
