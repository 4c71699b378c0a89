------------------------ MODULE AdministrationAccess ------------------------
(* Who may do what in a console, and the service that changes it: roles,   *)
(* one binding per subject, and the directory's account states, all in one *)
(* SQLite database (administration-portable.ts, administration-store.ts,   *)
(* and the local host's administration-host.ts).                           *)
(*                                                                         *)
(* One step of a call is what the code runs between two awaits, so other   *)
(* calls, of this process or another, change access between any two steps. *)
(* A caller names the access revision it expects; it has read that one.    *)
EXTENDS Integers

CONSTANTS
  Subjects,     \* the accounts of the directory
  Owner,        \* the one the instance is initialized with
  CustomRoles,  \* ids rolesSave may create
  Calls,        \* calls in flight
  Requests,     \* what is asked, by whom
  MaxRevision   \* the last revision a database holds: 2^53 - 1 in the code

\* The actions that the modelled methods ask about.
Actions == {"users.disable", "members.list", "members.write", "members.promote",
            "roles.list", "roles.write"}
ReadOnly == {"members.list", "roles.list"}
HumanOnly == {"members.promote", "roles.write"}
Decisive == {"members.promote", "roles.write"}

Presets == {"readonly", "administrator", "instance-owner"}
Roles == Presets \cup CustomRoles
NoRole == "none"

Required ==
  [accessRead     |-> ReadOnly,
   membersSet     |-> ReadOnly \cup {"members.write"},
   membersRevoke  |-> ReadOnly \cup {"members.write"},
   membersPromote |-> ReadOnly \cup {"members.promote"},
   rolesSave      |-> ReadOnly \cup {"roles.write", "members.promote"},
   usersDisable   |-> {"users.disable"}]

\* A person's call carries no scopes of a credential; an agent's carries those of
\* its token, without the actions that are kept for people.
Request ==
  [method : DOMAIN Required, caller : Subjects, entry : {"human", "agent"},
   scopes : SUBSET Actions, subject : Subjects, role : Roles,
   permissions : SUBSET Actions]

ASSUME AccessAssumption ==
  /\ Owner \in Subjects
  /\ Presets \cap CustomRoles = {} /\ NoRole \notin CustomRoles
  /\ Requests \subseteq Request /\ Requests # {}
  /\ MaxRevision \in Nat \ {0}

VARIABLES
  access,    \* the administration row: its revision, roles and bindings
  status,    \* the directory's account states
  asked,     \* what each call was asked
  expected,  \* the revision its caller expects
  pc,        \* where the call is
  granted,   \* what the role it gives out allows, as setMember has read it
  outcome,   \* how its handler ended
  effect,    \* what the call has done to access or status
  trail,     \* the last event its audit intent carries
  answer     \* what its caller was told

facts == <<access, status>>
input == <<asked, expected>>
vars == <<facts, input, pc, granted, outcome, effect, trail, answer>>

Labels == {"idle", "authorize", "prepare", "dispatch", "handle", "role", "rights",
           "before", "mutate", "complete", "disclose"}
AnyRequest == CHOOSE r \in Requests : TRUE

TypeOK ==
  /\ access \in [revision : 1..MaxRevision, known : SUBSET Roles,
                 permissions : [Roles -> SUBSET Actions],
                 member : [Subjects -> Roles \cup {NoRole}]]
  /\ status \in [Subjects -> {"active", "disabled"}]
  /\ asked \in [Calls -> Requests] /\ expected \in [Calls -> 1..MaxRevision]
  /\ pc \in [Calls -> Labels]
  /\ granted \in [Calls -> SUBSET Actions]
  /\ outcome \in [Calls -> {"none", "success", "failure", "unknown"}]
  /\ effect \in [Calls -> {"none", "read", "held", "changed"}]
  /\ trail \in [Calls -> {"none", "intent", "success", "failure", "unknown"}]
  /\ answer \in [Calls -> {"none", "ok", "refused", "unknown", "error", "lost"}]

PresetActions(role) ==
  {a \in Actions : \/ role = "instance-owner"
                   \/ role = "administrator" /\ a # "members.promote"
                   \/ role = "readonly" /\ a \in ReadOnly}

\* initializeLocalAdministration, one transaction: the owner, and active accounts.
Init ==
  /\ access = [revision |-> 1, known |-> Presets,
               permissions |-> [r \in Roles |-> PresetActions(r)],
               member |-> [s \in Subjects |->
                  IF s = Owner THEN "instance-owner" ELSE NoRole]]
  /\ status = [s \in Subjects |-> "active"]
  /\ asked = [c \in Calls |-> AnyRequest] /\ expected = [c \in Calls |-> 1]
  /\ pc = [c \in Calls |-> "idle"]
  /\ granted = [c \in Calls |-> {}]
  /\ outcome = [c \in Calls |-> "none"] /\ effect = [c \in Calls |-> "none"]
  /\ trail = [c \in Calls |-> "none"] /\ answer = [c \in Calls |-> "none"]

-----------------------------------------------------------------------------
(* What access grants.                                                     *)

Active(s) == status[s] = "active"
Bound(s) == access.member[s] # NoRole

\* What an active member may do; nobody else may do anything.
RightsIn(acc, states, s) ==
  IF states[s] = "active" /\ acc.member[s] # NoRole
  THEN acc.permissions[acc.member[s]] ELSE {}
Rights(s) == RightsIn(access, status, s)

HasOwner(acc, states) == \E s \in Subjects : RightsIn(acc, states, s) = Actions

\* The caller's facts, narrowed for an agent.
Present(c) == Active(asked[c].caller) /\ Bound(asked[c].caller)
Allowed(c) ==
  IF asked[c].entry = "human" THEN Rights(asked[c].caller)
  ELSE (Rights(asked[c].caller) \cap asked[c].scopes) \ HumanOnly
Authorized(c) == Present(c) /\ Required[asked[c].method] \subseteq Allowed(c)

-----------------------------------------------------------------------------
(* The steps around a handler: authorize, prepare, dispatch; complete and  *)
(* authorize again.                                                        *)

Goto(c, label) == pc' = [pc EXCEPT ![c] = label]

\* The call settles and forgets what it was about.
Finish(c, told) ==
  /\ Goto(c, "idle")
  /\ answer' = [answer EXCEPT ![c] = told]
  /\ asked' = [asked EXCEPT ![c] = AnyRequest]
  /\ expected' = [expected EXCEPT ![c] = 1]
  /\ granted' = [granted EXCEPT ![c] = {}]
  /\ outcome' = [outcome EXCEPT ![c] = "none"]

\* A handler ends, with a value or a throw.
End(c, how, what) ==
  /\ Goto(c, "complete")
  /\ outcome' = [outcome EXCEPT ![c] = how]
  /\ effect' = [effect EXCEPT ![c] = what]
  /\ UNCHANGED <<input, granted, trail, answer>>
Throw(c) == End(c, "failure", "none") /\ UNCHANGED facts

\* A handler goes on with its next read, or with its write.
Proceed(c, label) ==
  /\ Goto(c, label)
  /\ UNCHANGED <<facts, input, granted, outcome, effect, trail, answer>>

Submit(c) ==
  /\ pc[c] = "idle"
  /\ \E r \in Requests, e \in 1..access.revision :
       /\ asked' = [asked EXCEPT ![c] = r]
       /\ expected' = [expected EXCEPT ![c] = e]
  /\ Goto(c, "authorize")
  /\ effect' = [effect EXCEPT ![c] = "none"]
  /\ trail' = [trail EXCEPT ![c] = "none"]
  /\ answer' = [answer EXCEPT ![c] = "none"]
  /\ UNCHANGED <<facts, granted, outcome>>

Authorize(c) ==
  /\ pc[c] = "authorize"
  /\ IF Authorized(c)
     THEN Goto(c, "prepare") /\ UNCHANGED <<input, granted, outcome, answer>>
     ELSE Finish(c, "refused")
  /\ UNCHANGED <<facts, effect, trail>>

AuthorizeFails(c) ==
  /\ pc[c] = "authorize"
  /\ Finish(c, "error")
  /\ UNCHANGED <<facts, effect, trail>>

Prepare(c) ==
  /\ pc[c] = "prepare"
  /\ Goto(c, "dispatch")
  /\ trail' = [trail EXCEPT ![c] = "intent"]
  /\ UNCHANGED <<facts, input, granted, outcome, effect, answer>>

\* The audit service throws, or does not say "ready"; the intent may be recorded.
PrepareFails(c) ==
  /\ pc[c] = "prepare"
  /\ \E event \in {"none", "intent"} : trail' = [trail EXCEPT ![c] = event]
  /\ \E told \in {"error", "unknown"} : Finish(c, told)
  /\ UNCHANGED <<facts, effect>>

\* The host's caller check passes, and authority is asked again.
Dispatch(c) ==
  /\ pc[c] = "dispatch"
  /\ IF Authorized(c) THEN Proceed(c, "handle") ELSE Throw(c)

\* The host's check or a read throws an error of its own: the code cannot tell it
\* from one of the write.
Break(c) ==
  /\ pc[c] \in {"dispatch", "handle", "role", "rights", "before"}
  /\ End(c, "unknown", "none")
  /\ UNCHANGED facts

-----------------------------------------------------------------------------
(* The handlers, up to their write.                                        *)

\* accessRead: the snapshot is read, to be shown after one more authorization.
ReadAccess(c) ==
  /\ pc[c] = "handle" /\ asked[c].method = "accessRead"
  /\ End(c, "success", "read")
  /\ UNCHANGED facts

\* setMember: the target must be active, and its new role exist.
ReadTarget(c) ==
  /\ pc[c] = "handle" /\ asked[c].method \in {"membersSet", "membersPromote"}
  /\ IF Active(asked[c].subject) THEN Proceed(c, "role") ELSE Throw(c)

ReadRole(c) ==
  /\ pc[c] = "role"
  /\ IF asked[c].role \in access.known
     THEN /\ Goto(c, "rights")
          /\ granted' = [granted EXCEPT ![c] = access.permissions[asked[c].role]]
          /\ UNCHANGED <<facts, input, outcome, effect, trail, answer>>
     ELSE Throw(c)

\* MUTANT: what needs membersPromote is told by the role's id.
MayAssignById(c) ==
  /\ granted[c] \subseteq Allowed(c)
  /\ IF asked[c].method = "membersPromote" THEN "members.promote" \in Allowed(c)
     ELSE asked[c].role \notin Presets \ {"readonly"}

\* Nobody assigns what he does not hold; more than reading takes membersPromote.
MayAssign(c) ==
  /\ granted[c] \subseteq Allowed(c)
  /\ IF asked[c].method = "membersPromote"
     THEN "members.promote" \in Allowed(c) ELSE granted[c] \subseteq ReadOnly

ReadRights(c) ==
  /\ pc[c] = "rights" /\ asked[c].method \in {"membersSet", "membersPromote"}
  /\ IF Present(c) /\ MayAssign(c)
     THEN Proceed(c, "before") ELSE Throw(c)

\* Nobody raises himself. The three reads of permissions() are one step here.
ReadBefore(c) ==
  /\ pc[c] = "before" /\ asked[c].method \in {"membersSet", "membersPromote"}
  /\ IF asked[c].subject = asked[c].caller
        /\ ~(granted[c] \subseteq Rights(asked[c].subject))
     THEN Throw(c) ELSE Proceed(c, "mutate")

\* rolesSave: a preset is never rewritten.
ReadPreset(c) ==
  /\ pc[c] = "handle" /\ asked[c].method = "rolesSave"
  /\ IF asked[c].role \in Presets THEN Throw(c) ELSE Proceed(c, "rights")

\* The check on the caller's own role, after one more read, repeats this one.
ReadGrantable(c) ==
  /\ pc[c] = "rights" /\ asked[c].method = "rolesSave"
  /\ IF /\ Present(c) /\ "members.promote" \in Allowed(c)
        /\ asked[c].permissions \subseteq Allowed(c)
     THEN Proceed(c, "mutate") ELSE Throw(c)

\* usersDisable: the revision first, then whether the target decides on access.
ReadRevision(c) ==
  /\ pc[c] = "handle" /\ asked[c].method = "usersDisable"
  /\ IF access.revision = expected[c] THEN Proceed(c, "before") ELSE Throw(c)

ReadDecisive(c) ==
  /\ pc[c] = "before" /\ asked[c].method = "usersDisable"
  /\ IF Rights(asked[c].subject) \cap Decisive = {}
     THEN Proceed(c, "mutate") ELSE Throw(c)

\* membersRevoke reads nothing of its own.
GoRevoke(c) ==
  /\ pc[c] = "handle" /\ asked[c].method = "membersRevoke"
  /\ Proceed(c, "mutate")

-----------------------------------------------------------------------------
(* The write: one immediate transaction.                                   *)

\* The access each change would leave.
ChangedMember(c) ==
  [access.member EXCEPT ![asked[c].subject] =
     IF asked[c].method = "membersRevoke" THEN NoRole ELSE asked[c].role]

SavedRole(c) ==
  [access EXCEPT !.known = @ \cup {asked[c].role},
                 !.permissions[asked[c].role] = asked[c].permissions]

Changed(c) ==
  IF asked[c].method = "usersDisable" THEN access
  ELSE IF asked[c].method = "rolesSave" THEN SavedRole(c)
  ELSE [access EXCEPT !.member = ChangedMember(c)]

ChangedStatus(c) ==
  IF asked[c].method = "usersDisable"
  THEN [status EXCEPT ![asked[c].subject] = "disabled"] ELSE status

Bump(acc) == [acc EXCEPT !.revision = @ + 1]

\* What the directory refuses to disable: the account's role decides on access.
Undecisive(s) == Bound(s) => access.permissions[access.member[s]] \cap Decisive = {}

\* MUTANT: validate looks at the snapshot the change starts from.
AdmitsFromOwner(c) ==
  LET next == Changed(c) IN
  /\ access.revision = expected[c] /\ access.revision < MaxRevision
  /\ IF asked[c].method = "usersDisable" THEN Undecisive(asked[c].subject)
     ELSE /\ Active(asked[c].caller)
          /\ \A s \in Subjects :
               next.member[s] \notin {access.member[s], NoRole} => Active(s)
  /\ HasOwner(access, ChangedStatus(c))

\* MUTANT: commit does not compare the revision.
AdmitsAnyRevision(c) ==
  LET next == Changed(c) IN
  /\ access.revision < MaxRevision
  /\ IF asked[c].method = "usersDisable" THEN Undecisive(asked[c].subject)
     ELSE /\ Active(asked[c].caller)
          /\ \A s \in Subjects :
               next.member[s] \notin {access.member[s], NoRole} => Active(s)
  /\ HasOwner(next, ChangedStatus(c))

\* commit: the revision is still the expected one, the caller is active, whoever
\* gets a role is active, and an active owner is left. disable: the revision is
\* still the expected one, the target decides on nothing, and commit's owner.
Admits(c) ==
  LET next == Changed(c) IN
  /\ access.revision = expected[c] /\ access.revision < MaxRevision
  /\ IF asked[c].method = "usersDisable" THEN Undecisive(asked[c].subject)
     ELSE /\ Active(asked[c].caller)
          /\ \A s \in Subjects :
               next.member[s] \notin {access.member[s], NoRole} => Active(s)
  /\ HasOwner(next, ChangedStatus(c))

\* MUTANT: disable updates the account and leaves the access revision alone.
CommitWithoutBump(c) ==
  /\ access' = IF asked[c].method = "usersDisable" THEN access ELSE Bump(Changed(c))
  /\ status' = ChangedStatus(c)

Commit(c) ==
  /\ access' = Bump(Changed(c))
  /\ status' = ChangedStatus(c)

\* disable of an account that is not active: no update, no new revision.
Held(c) ==
  /\ asked[c].method = "usersDisable" /\ ~Active(asked[c].subject)
  /\ Undecisive(asked[c].subject) /\ access.revision = expected[c]

Mutate(c) ==
  /\ pc[c] = "mutate"
  /\ \/ Held(c) /\ End(c, "success", "held") /\ UNCHANGED facts
     \/ ~Held(c) /\ Admits(c) /\ Commit(c) /\ End(c, "success", "changed")
     \/ ~Held(c) /\ ~Admits(c) /\ Throw(c)

\* MUTANT: any error of the write counts as a failure.
MutateBreaksDefinitely(c) ==
  /\ pc[c] = "mutate"
  /\ \/ Admits(c) /\ Commit(c) /\ End(c, "failure", "changed")
     \/ End(c, "failure", "none") /\ UNCHANGED facts

\* The database throws an error of its own; the commit may have been made.
MutateBreaks(c) ==
  /\ pc[c] = "mutate"
  /\ \/ ~Held(c) /\ Admits(c) /\ Commit(c) /\ End(c, "unknown", "changed")
     \/ End(c, "unknown", "none") /\ UNCHANGED facts

-----------------------------------------------------------------------------
(* Completing the intent and answering.                                    *)

Record(c) == trail' = [trail EXCEPT ![c] = outcome[c]]

Complete(c) ==
  /\ pc[c] = "complete"
  /\ Record(c)
  /\ \/ /\ outcome[c] = "success" /\ Goto(c, "disclose")
        /\ UNCHANGED <<input, granted, outcome, answer>>
     \/ outcome[c] = "failure" /\ Finish(c, "refused")
     \/ outcome[c] = "unknown" /\ Finish(c, "unknown")
  /\ UNCHANGED <<facts, effect>>

\* complete throws; the event may have been recorded.
CompleteFails(c) ==
  /\ pc[c] = "complete"
  /\ Record(c) \/ UNCHANGED trail
  /\ Finish(c, "unknown")
  /\ UNCHANGED <<facts, effect>>

Writes(c) == asked[c].method # "accessRead"

\* MUTANT: a write whose caller has lost authority is refused like a read.
DiscloseRefusing(c) ==
  /\ pc[c] = "disclose"
  /\ Finish(c, IF Authorized(c) THEN "ok" ELSE "refused")
  /\ UNCHANGED <<facts, effect, trail>>

\* The last authorization: a read is refused, a write that is done cannot be.
Disclose(c) ==
  /\ pc[c] = "disclose"
  /\ \/ Authorized(c) /\ Finish(c, "ok")
     \/ ~Authorized(c) /\ Finish(c, IF Writes(c) THEN "unknown" ELSE "refused")
  /\ UNCHANGED <<facts, effect, trail>>

DiscloseFails(c) ==
  /\ pc[c] = "disclose"
  /\ Finish(c, IF Writes(c) THEN "unknown" ELSE "error")
  /\ UNCHANGED <<facts, effect, trail>>

\* The process that serves the call ends.
Crash(c) ==
  /\ pc[c] # "idle"
  /\ Finish(c, "lost")
  /\ UNCHANGED <<facts, effect, trail>>

Around(c) ==
  \/ Submit(c) \/ Authorize(c) \/ AuthorizeFails(c) \/ Prepare(c) \/ PrepareFails(c)
  \/ Dispatch(c) \/ Break(c) \/ Complete(c) \/ CompleteFails(c) \/ Disclose(c)
  \/ DiscloseFails(c) \/ Crash(c)

Handle(c) ==
  \/ ReadAccess(c) \/ ReadTarget(c) \/ ReadRole(c) \/ ReadRights(c) \/ ReadBefore(c)
  \/ ReadPreset(c) \/ ReadGrantable(c) \/ ReadRevision(c) \/ ReadDecisive(c)
  \/ GoRevoke(c)

Write(c) == Mutate(c) \/ MutateBreaks(c)

Next == \E c \in Calls : Around(c) \/ Handle(c) \/ Write(c)

Spec == Init /\ [][Next]_vars

-----------------------------------------------------------------------------
\* Whatever calls race, an active account is left that holds every action: the
\* instance can always be administered (validate in commit).
OwnerRemains == HasOwner(access, status)

\* The call that makes this step's change.
Author(c) == effect[c] # "changed" /\ effect'[c] = "changed"

\* Access and accounts change only on behalf of a caller who at that moment is
\* active and holds everything the method requires, although the code asked for
\* it several awaits earlier.
AuthorizedAtCommit ==
  [][facts' # facts => \E c \in Calls : Author(c) /\ Authorized(c)]_vars

\* What a step lets a subject do that it could not do before.
Gained(s) == RightsIn(access', status', s) \ Rights(s)

\* Nobody, the caller included, gains an action that the caller does not hold at
\* the moment of the commit, nor, without members.promote, more than reading.
GainsWithinRights ==
  [][facts' # facts =>
       \A c \in Calls, s \in Subjects : Author(c) =>
         /\ Gained(s) \subseteq Allowed(c)
         /\ Gained(s) \subseteq ReadOnly \/ "members.promote" \in Allowed(c)]_vars

\* The access revision stands for everything a decision is made from: no account
\* and no right changes under a revision that somebody may have read.
RevisionCoversStanding == [][facts' # facts => access'.revision = access.revision + 1]_vars

\* The audit trail never lies: a recorded success was done, a recorded failure was
\* not, and nothing changed without an intent.
TrailTellsTheTruth ==
  \A c \in Calls :
    /\ trail[c] = "success" => effect[c] # "none"
    /\ trail[c] = "failure" => effect[c] = "none"
    /\ effect[c] # "none" => trail[c] # "none"

\* What a caller is told about access is so: "ok" was done and is on record, and a
\* refusal or a plain error changed nothing.
AnswersTellTheTruth ==
  \A c \in Calls :
    /\ answer[c] = "ok" => effect[c] # "none" /\ trail[c] = "success"
    /\ answer[c] \in {"refused", "error"} => effect[c] \in {"none", "read"}
=============================================================================
