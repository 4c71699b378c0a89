--------------------------- MODULE DashboardStores ---------------------------
(***************************************************************************)
(* The two wrappers of a dashboard repository: the authorized store of     *)
(* server.ts (DashboardSave, whose names are used as they are) and the     *)
(* audited one of server-audit.ts (DashboardAudit, under Audit!).  Each is *)
(* composed with its repository and they share no state, so a behaviour is *)
(* of one of them.                                                         *)
(***************************************************************************)
EXTENDS DashboardSave

CONSTANTS
  Calls, Unaudited,   \* calls of the audited store, and those that go round it
  Contents, Sends,    \* what its repository stores, and what it is sent
  NoEvent

VARIABLES
  store,                                            \* the wrapper this behaviour is of
  log, sent, heard,                                 \* the audited store's repository
  at, wanted, occurredAt, told, intents, outcomes   \* and the audited store

Audit == INSTANCE DashboardAudit
  WITH Attempts <- Calls, Documents <- Contents, Requests <- Sends,
       request <- sent, answer <- heard, pc <- at

ASSUME AuditAssumption ==
  /\ Audit!UnauditedAssumption /\ Audit!EventsAssumption
  /\ Sends \subseteq [id : MutationIds, expected : Nat, doc : Contents]
  /\ NoRequest \notin Sends

auditing == <<log, sent, heard, at, wanted, occurredAt, told, intents, outcomes>>
storesVars == <<vars, store, auditing>>

StoresInit == Init /\ Audit!AuditInit /\ store \in {"authorized", "audited"}

StoresNext ==
  \/ store = "authorized" /\ Next /\ UNCHANGED <<store, auditing>>
  \/ store = "audited" /\ Audit!AuditNext /\ UNCHANGED <<store, vars>>

StoresSpec == StoresInit /\ [][StoresNext]_storesVars

-----------------------------------------------------------------------------
(* The authorized store's properties are DashboardSave's.  The audited one's *)
(* say that the trail and what callers hear are true (server-audit.ts: save).*)

\* One save per intent, ever (DashboardAudit).
OneSavePerIntent == Audit!OneSavePerIntent

\* The trail is right about the effect, and nothing audited was stored unannounced.
TrailTellsTheTruth == Audit!TrailTellsTheTruth /\ Audit!NoWriteWithoutIntent

\* Who is told a definite answer is told what the trail records; only a retry of a
\* recorded success may be refused instead, when its caller lost the rights since.
ToldWhatIsRecorded == Audit!ToldWhatIsRecorded
=============================================================================
