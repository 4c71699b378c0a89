------------------------ MODULE AdministrationTokens ------------------------
(* A person's tokens, and the calls that he and the agents holding them     *)
(* make: reads, revocations, and the deliveries of credentials. What he may *)
(* do changes between the awaits of a call (AdministrationAccess tells how).*)
(* administration-portable.ts, administration-store.ts, and the local       *)
(* host's administration-host.ts and local-auth.ts. The library of API keys *)
(* is external.                                                             *)
EXTENDS Naturals, Sequences

CONSTANTS Ids,           \* request ids of issueToken: each makes one key
          Profiles,      \* what the person's role may allow him
          MaxRevision,   \* bound on a key's rotations
          None

VARIABLES rights,    \* what he may do now: nothing when he is disabled or no member
          session,   \* whether his browser's session is alive
          keys,      \* his keys
          current,   \* the call that is watched; others change the keys meanwhile
          told       \* the answer just given, and the last event its intent carries

vars == <<rights, session, keys, current, told>>

Actions == {"users.list", "tokens.list", "tokens.issue", "tokens.rotate",
            "tokens.revoke", "sessions.revoke"}
HumanOnly == {"tokens.issue", "tokens.rotate"}
Ceiling == {"users.list", "tokens.list"}     \* readOnlyActions

Required ==
  [usersList |-> {"users.list"}, tokensList |-> {"tokens.list"},
   tokensRevoke |-> {"tokens.revoke"}, sessionsRevoke |-> {"sessions.revoke"},
   issue |-> {"tokens.issue"}, rotate |-> {"tokens.rotate"}]
Methods == DOMAIN Required
Reads == {"usersList", "tokensList"}     \* what an agent may call: approved
Deliveries == {"issue", "rotate"}

\* What each method awaits once it has been admitted.
Around(handler) == <<"authorize", "prepare", "dispatch">> \o handler \o <<"complete">>
ReadOf(handler) == Around(<<"authorize">> \o handler \o <<"work">>) \o <<"disclose", "authorize">>
WriteOf(handler) == Around(<<"authorize">> \o handler \o <<"work">>) \o <<"authorize", "disclose">>
DeliveryOf(handler) == Around(handler \o <<"work">>) \o <<"deliver", "verify", "disclose">>

UsersList == ReadOf(<<>>)
TokensList == ReadOf(<<"list">>)
TokensRevoke == WriteOf(<<"list", "see", "authorize">>)
SessionsRevoke == WriteOf(<<>>)
IssueToken == DeliveryOf(<<"authorize", "grant">>)
RotateToken == DeliveryOf(<<"authorize">>)

Script ==
  [usersList |-> UsersList, tokensList |-> TokensList, tokensRevoke |-> TokensRevoke,
   sessionsRevoke |-> SessionsRevoke, issue |-> IssueToken, rotate |-> RotateToken]

Key == [revision : 1..(MaxRevision + 1), live : BOOLEAN, scopes : SUBSET Ceiling,
        overlap : BOOLEAN]
Keys == Key \cup {None}

\* A role allows some of the actions, an administrator's all of them.
ASSUME ProfilesAssumption == Profiles \subseteq SUBSET Actions /\ Actions \in Profiles
ASSUME RevisionAssumption == MaxRevision \in Nat \ {0}
ASSUME NoneAssumption == None \notin Key

Running == current # None

TypeOK ==
  /\ rights \in Profiles /\ session \in BOOLEAN
  /\ keys \in [Ids -> Keys]
  /\ Running => current.at \in DOMAIN Script[current.method]
  /\ told # None => /\ told.is \in {"ok", "refused", "unknown", "error"}
                     /\ told.trail \in {"none", "intent", "success", "failure", "unknown"}

Init ==
  /\ rights = Actions /\ session = TRUE
  /\ keys = [k \in Ids |-> None]
  /\ current = None /\ told = None

-----------------------------------------------------------------------------
(* Credentials. A key's revision counts its rotations, so it names the      *)
(* credential too; the one before is good while the overlap lasts.          *)

Good(k, credential) ==
  /\ keys[k] # None /\ keys[k].live
  /\ \/ credential = keys[k].revision
     \/ keys[k].overlap /\ credential = keys[k].revision - 1
Verifies(k, credential) == Good(k, credential) /\ rights # {}     \* subjectActive

\* agentCan and the console's policy, asked of the person's role as it is now.
Stands(call) ==
  IF call.entry = "human" THEN session
  ELSE Verifies(call.key, call.seen)
Enforced(call) ==
  /\ Stands(call)
  /\ Required[call.method] \subseteq
       rights \cap (IF call.entry = "human" THEN Actions ELSE keys[call.key].scopes)

\* The caller's facts: a read loads them once in a phase.
Facts(call) == IF call.facts # None THEN call.facts ELSE rights
Allowed(call) ==
  IF call.entry = "human" THEN Facts(call) ELSE (Facts(call) \cap call.scopes) \ HumanOnly

-----------------------------------------------------------------------------
(* The steps of a call.                                                     *)

Step == Script[current.method][current.at]
At(step) == Running /\ Step = step
World == <<rights, session, keys>>

Become(call) == current' = call /\ told' = None
Tell(answer, trail) ==
  /\ told' = [is |-> answer, trail |-> trail, to |-> current]
  /\ current' = None
Advance(call) ==
  IF call.at = Len(Script[call.method]) THEN Tell("ok", call.trail)
  ELSE Become([call EXCEPT !.at = @ + 1])

RefusedAnyway(otherwise) == otherwise     \* mutant

\* After its work a write is not refused any more: nobody knows what became of it.
Refused(otherwise) ==
  IF current.trail = "success" /\ current.method \notin Reads THEN "unknown" ELSE otherwise
Completing(method) == CHOOSE i \in DOMAIN Script[method] : Script[method][i] = "complete"

\* A step throws: in audited, a known code is recorded as a failure, anything else as unknown.
Throw(outcome, answer) ==
  IF current.trail = "intent"
  THEN Become([current EXCEPT !.outcome = outcome, !.at = Completing(current.method)])
  ELSE Tell(Refused(answer), current.trail)
Deny == Throw("failure", "refused")
Break ==
  /\ Running /\ Step \notin {"complete", "work"}
  /\ Throw("unknown", "error")
  /\ UNCHANGED World

Call(method, entry, k, seen, scopes) ==
  [method |-> method, entry |-> entry, key |-> k, seen |-> seen, scopes |-> scopes, at |-> 1,
   facts |-> None, granted |-> {}, made |-> 0, outcome |-> "success", effect |-> FALSE,
   trail |-> "none", since |-> [rights |-> {}, stands |-> FALSE]]

\* A person's call has passed the console's policy. He names a revision he has seen.
Ask(method, k, seen) ==
  LET call == Call(method, "human", k, seen, Actions) IN
  /\ ~Running /\ Enforced(call)
  /\ seen # 0 <=> method \in {"rotate", "tokensRevoke"}
  /\ seen # 0 => keys[k] # None /\ seen <= keys[k].revision
  /\ Become(call)
  /\ UNCHANGED World

\* verifyToken and canList: an agent's credential, and what of its scopes the role still allows.
AskAgent(method, k, credential) ==
  /\ ~Running /\ Verifies(k, credential) /\ method \in Reads
  /\ Required[method] \subseteq keys[k].scopes \cap rights
  /\ Become(Call(method, "agent", k, credential, keys[k].scopes \cap rights))
  /\ UNCHANGED World

Phase(call) == IF call.method \in Reads THEN Facts(call) ELSE None

Authorize ==
  /\ \/ At("authorize") /\ Required[current.method] \subseteq Allowed(current)
     \/ At("list") /\ "tokens.list" \in Allowed(current)
  /\ Advance([current EXCEPT !.facts = Phase(current)])
  /\ UNCHANGED World
AuthorizeDenies ==
  /\ \/ At("authorize") /\ ~(Required[current.method] \subseteq Allowed(current))
     \/ At("list") /\ "tokens.list" \notin Allowed(current)
  /\ Deny
  /\ UNCHANGED World

Prepare ==
  /\ At("prepare")
  /\ \/ Advance([current EXCEPT !.trail = "intent"])
     \/ \E trail \in {"none", "intent"} : Tell("unknown", trail)
  /\ UNCHANGED World

\* assertCaller with a phase: the facts of the last one are dropped, and the host asks again.
AssertCaller ==
  /\ At("dispatch") \/ At("disclose")
  /\ IF Enforced(current) THEN Advance([current EXCEPT !.facts = None])
     ELSE Throw("unknown", "refused")
  /\ UNCHANGED World

\* tokensRevoke compares the revision it was given with the one it reads, and asks again.
See ==
  /\ At("see")
  /\ IF keys[current.key].revision = current.seen THEN Advance(current) ELSE Deny
  /\ UNCHANGED World

\* grantScopes
Grant ==
  /\ At("grant")
  /\ Advance([current EXCEPT !.granted = Ceiling \cap Allowed(current)])
  /\ UNCHANGED World

-----------------------------------------------------------------------------
(* What a call may do, when it does it: nothing, if that is refused. The    *)
(* database decides in one statement.                                       *)

Unchanged == [keys |-> keys, session |-> session, made |-> 0]
Rekeyed(k, key, made) == [Unchanged EXCEPT !.keys[k] = key, !.made = made]

RevocableAny(call) == TRUE     \* mutant: the library's own revoke takes successors too

\* revokeKey: one UPDATE of the revision the person has seen.
Revocable(call) == keys[call.key].revision = call.seen
RevokeKey(call) ==
  LET key == keys[call.key] IN
  IF key.live /\ Revocable(call)
  THEN {Rekeyed(call.key, [key EXCEPT !.live = FALSE, !.overlap = FALSE, !.revision = @ + 1], 0)}
  ELSE {}

\* The session may be the one he asks from, or another of his.
RevokeSession(call) == {[Unchanged EXCEPT !.session = s] : s \in {session, FALSE}}

\* A request id makes one key: asked again, it delivers the key without the credential.
Issue(call) ==
  IF keys[call.key] # None THEN {Unchanged}
  ELSE {Rekeyed(call.key, [revision |-> 1, live |-> TRUE, overlap |-> FALSE,
                           scopes |-> granted], 1) : granted \in {call.granted} \ {{}}}

\* At its bound a key is not rotated any more.
Rotate(call) ==
  LET key == keys[call.key] IN
  IF key.live /\ key.revision = call.seen /\ key.revision < MaxRevision
  THEN {Rekeyed(call.key, [key EXCEPT !.revision = @ + 1, !.overlap = overlap],
                key.revision + 1) : overlap \in BOOLEAN}
  ELSE {}

Effects(call) ==
  CASE call.method = "tokensRevoke" -> RevokeKey(call)
    [] call.method = "sessionsRevoke" -> RevokeSession(call)
    [] call.method = "issue" -> Issue(call)
    [] call.method = "rotate" -> Rotate(call)
    [] OTHER -> {Unchanged}

Apply(effect) == keys' = effect.keys /\ session' = effect.session /\ UNCHANGED rights
Did(call, effect) ==      \* since: what he may do, and whether the caller still stands
  [call EXCEPT !.effect = TRUE, !.made = effect.made, !.granted = {},
     !.since = [rights |-> rights,
                stands |-> IF call.entry = "human" THEN effect.session ELSE Stands(call)]]

Work ==
  /\ At("work")
  /\ \E effect \in Effects(current) :
       Apply(effect) /\ Advance(Did(current, effect))

\* A read is refused when its page is not what was asked for (projectPage).
Readable(call) == call.method \in Reads \cup {"sessionsRevoke"}
WorkRefused ==
  /\ At("work") /\ (Effects(current) = {} \/ Readable(current))
  /\ Deny
  /\ UNCHANGED World

\* The database or the library breaks, and may have done its work.
WorkBreaks ==
  /\ At("work")
  /\ \/ Throw("unknown", "error") /\ UNCHANGED World
     \/ \E effect \in Effects(current) :
          /\ Apply(effect)
          /\ Become([Did(current, effect) EXCEPT !.outcome = "unknown", !.at = @ + 1])

-----------------------------------------------------------------------------
(* The end of an intent, and the answer.                                    *)

Complete ==
  /\ At("complete")
  /\ LET call == current IN
     CASE call.outcome = "success" -> Advance([call EXCEPT !.trail = "success"])
       [] call.outcome = "failure" -> Tell("refused", "failure")
       [] call.outcome = "unknown" -> Tell("unknown", "unknown")
  /\ UNCHANGED World
CompleteFails ==
  /\ At("complete")
  /\ \E trail \in {"intent", current.outcome} : Tell("unknown", trail)
  /\ UNCHANGED World

DeliverableAsIssued(call) == Required[call.method] \subseteq Allowed(call)     \* mutant

\* authorizeDelivery: what he may do now covers the key, and the credential is good.
Deliverable(call) ==
  Required[call.method] \cup keys[call.key].scopes \subseteq Allowed(call)
Deliver ==
  /\ At("deliver")
  /\ IF Deliverable(current) THEN Advance(current) ELSE Deny
  /\ UNCHANGED World
Verify ==
  /\ At("verify")
  /\ IF current.made # 0 => Verifies(current.key, current.made)
     THEN Advance(current) ELSE Deny
  /\ UNCHANGED World

-----------------------------------------------------------------------------
(* What happens meanwhile.                                                  *)

Since(call, allowed) ==
  [call.since EXCEPT !.rights = @ \cup allowed,
     !.stands = @ \/ (call.entry = "agent" /\ allowed # {} /\ Good(call.key, call.seen))]
RightsChange(allowed) ==
  /\ rights # allowed /\ rights' = allowed
  /\ current' = IF Running /\ current.effect
                THEN [current EXCEPT !.since = Since(current, allowed)] ELSE current
  /\ told' = None /\ UNCHANGED <<session, keys>>
SignOut ==
  /\ session /\ session' = FALSE
  /\ told' = None /\ UNCHANGED <<rights, keys, current>>
Expire(k) ==
  /\ keys[k] # None
  /\ \E live \in {keys[k].live, FALSE} :
       keys' = [keys EXCEPT ![k] = [@ EXCEPT !.live = live, !.overlap = FALSE]]
  /\ keys' # keys
  /\ told' = None /\ UNCHANGED <<rights, session, current>>

\* Another call of his: what it does to the keys is what it was allowed to.
Meanwhile(k) ==
  /\ \E method \in {"issue", "rotate", "tokensRevoke"}, granted \in SUBSET Ceiling, seen \in 1..MaxRevision :
       /\ method # "issue" => keys[k] # None
       /\ \E effect \in Effects([Call(method, "human", k, seen, Actions)
                                 EXCEPT !.granted = granted]) : keys' = effect.keys
  /\ keys' # keys
  /\ told' = None /\ UNCHANGED <<rights, session, current>>

Next ==
  \/ \E k \in Ids, seen \in 0..MaxRevision :
       \/ \E method \in Methods : Ask(method, k, seen)
       \/ \E method \in Reads : AskAgent(method, k, seen)
  \/ Authorize \/ AuthorizeDenies \/ Prepare \/ AssertCaller \/ See \/ Grant
  \/ Work \/ WorkRefused \/ WorkBreaks \/ Complete \/ CompleteFails
  \/ Deliver \/ Verify \/ Break
  \/ \E allowed \in Profiles : RightsChange(allowed)
  \/ SignOut
  \/ \E k \in Ids : Expire(k) \/ Meanwhile(k)

Spec == Init /\ [][Next]_vars

-----------------------------------------------------------------------------
(* Nothing is disclosed on authority that was lost before the work was done *)
(* (administration-portable.ts:1196, :1290): what is asked for is allowed   *)
(* after that, the session or credential of the caller is good after that,  *)
(* and a key is delivered only to one who may do all that it allows.        *)
DisclosedWithinRights ==
  told # None /\ told.is = "ok" =>
    LET call == told.to IN
    /\ call.since.stands
    /\ Required[call.method] \subseteq call.since.rights
    /\ call.method \in Deliveries => keys[call.key].scopes \subseteq call.since.rights

(* A refusal means that nothing was done and an answer that all was, and the*)
(* trail says neither of what it does not know (administration-portable.ts: *)
(* 591, :1216). A key is revoked as the person saw it, or not by his call   *)
(* (administration-store.ts:256): nobody rotated it between his look and it.*)
OutcomesAreTrue ==
  told # None =>
    LET call == told.to IN
    /\ told.is = "ok" => call.effect
    /\ told.is = "ok" /\ call.method = "tokensRevoke" =>
         ~keys[call.key].live /\ keys[call.key].revision = call.seen + 1
    /\ told.is = "refused" => ~call.effect \/ call.method \in Reads
    /\ told.trail = "success" => call.effect
    /\ told.trail = "failure" => ~call.effect
=============================================================================
