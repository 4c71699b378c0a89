----------------------------- MODULE SetupPage -----------------------------
(***************************************************************************)
(* First-time setup: a page that submits the first owner's configuration   *)
(* and resumes an activation, each only on a status its host has confirmed *)
(* since the last operation was sent.  An operation nobody answered may    *)
(* have been carried out, or may still be.                                 *)
(***************************************************************************)
EXTENDS Naturals

CONSTANTS MaxClients,  \* bound: setup entries the host hands out
          None

VARIABLES host,   \* the status of the instance being set up
          adrift, \* operations given up that the host may still carry out
          page

vars == <<host, adrift, page>>

States == {"uninitialized", "blocked", "awaiting_activation", "ready"}
NextActions == {"apply", "external_configuration", "activate", "none"}
Answers == [state : States, revision : BOOLEAN, nextAction : NextActions,
            blocked : BOOLEAN]
Status(state, revision, action) ==
  [state |-> state, revision |-> revision, nextAction |-> action,
   blocked |-> state = "blocked"]

Consistent(a) ==
  /\ a.state = "ready" => a.revision /\ ~a.blocked /\ a.nextAction = "none"
  /\ a.state = "uninitialized" => ~a.revision /\ ~a.blocked /\ a.nextAction = "apply"
  /\ a.state = "awaiting_activation" => a.revision /\ a.nextAction = "activate"
  /\ a.state = "blocked" => a.blocked /\ a.nextAction # "none"

Uninitialized == Status("uninitialized", FALSE, "apply")
Unconfigured == Status("blocked", FALSE, "external_configuration")
Applicable == Status("blocked", FALSE, "apply")
Awaiting == Status("awaiting_activation", TRUE, "activate")
ActivationFailed == Status("blocked", TRUE, "activate")
Ready == Status("ready", TRUE, "none")
Inconsistent == Status("ready", FALSE, "apply")

(* What the host may make of an operation.                                 *)
Carried(h, kind) ==
  CASE kind = "apply" /\ h \in {Uninitialized, Applicable} -> {Awaiting}
    [] kind = "activate" /\ h \in {Awaiting, ActivationFailed} -> {Ready, ActivationFailed}
    [] OTHER -> {h}

With(p, fields) == [f \in DOMAIN p |-> IF f \in DOMAIN fields THEN fields[f] ELSE p[f]]
Set(fields) == page' = With(page, fields)

Init ==
  /\ host \in {Uninitialized, Unconfigured, Applicable}
  /\ adrift = {}
  /\ page = [client |-> 1, status |-> None, verified |-> FALSE, pending |-> "status",
             problem |-> FALSE, open |-> FALSE, left |-> FALSE, last |-> None,
             continued |-> FALSE]

CanApply == /\ page.verified /\ page.status.nextAction = "apply"
            /\ ~page.status.revision
CanActivate == /\ page.verified /\ page.status.nextAction = "activate"
               /\ page.status.revision

Unverify == [verified |-> FALSE]
UnverifyNone == [problem |-> FALSE]
Started == Unverify

Execute(kind, fields) ==
  /\ page.pending = None /\ ~page.left
  /\ page' = With(With(With(page, [pending |-> kind, problem |-> FALSE]), Started), fields)
  /\ UNCHANGED <<host, adrift>>

CheckStatus == Execute("status", <<>>)
OpenSetup == ~page.open /\ Execute("status", [open |-> TRUE])
Apply == page.open /\ CanApply /\ Execute("apply", <<>>)
Activate == CanActivate /\ Execute("activate", <<>>)

CloseSetup ==
  page.open /\ Set([open |-> FALSE]) /\ UNCHANGED <<host, adrift>>

(* The client answers with the status it has now, or with one the page     *)
(* cannot make sense of.                                                   *)
Answered ==
  /\ page.pending # None
  /\ host' \in Carried(host, page.pending) /\ UNCHANGED adrift
  /\ \E answer \in {host', Inconsistent} :
       IF Consistent(answer)
       THEN Set([pending |-> None, status |-> answer, verified |-> TRUE,
                 last |-> [client |-> page.client, status |-> answer]])
       ELSE Set([pending |-> None, problem |-> TRUE, last |-> None])

(* A refusal, or no answer: what was sent may have happened, or may yet.   *)
Lost ==
  /\ page.pending # None
  /\ \/ host' \in Carried(host, page.pending) /\ UNCHANGED adrift
     \/ UNCHANGED host /\ adrift' \in {adrift, adrift \cup ({page.pending} \ {"status"})}
  /\ Set([pending |-> None, problem |-> TRUE, last |-> None])

Arrives(kind) ==
  /\ host' \in Carried(host, kind) /\ adrift' = adrift \ {kind} /\ UNCHANGED page

Forget == [status |-> None, verified |-> FALSE]
ForgetNone == [problem |-> FALSE]
Replaced == Forget

(* Another entry, or lease: what is under way is given up, and the status  *)
(* is read afresh.                                                         *)
Replace ==
  /\ page.client < MaxClients /\ ~page.left
  /\ adrift' \in {adrift, adrift \cup ({page.pending} \cap {"apply", "activate"})}
  /\ page' = With(With(page, [client |-> page.client + 1, pending |-> "status",
                              problem |-> FALSE, last |-> None]), Replaced)
  /\ UNCHANGED host

Leave ==
  /\ Set([left |-> TRUE, pending |-> None, last |-> None, verified |-> FALSE])
  /\ adrift' \in {adrift, adrift \cup ({page.pending} \cap {"apply", "activate"})}
  /\ UNCHANGED host

Continue ==
  /\ page.verified /\ page.status.state = "ready" /\ ~page.left
  /\ Set([continued |-> TRUE]) /\ UNCHANGED <<host, adrift>>

(* The owner of the configuration repairs the host.                        *)
Repair ==
  /\ host \in {Unconfigured, Applicable}
  /\ host' \in {Uninitialized, Applicable} /\ UNCHANGED <<adrift, page>>

Next ==
  \/ CheckStatus \/ OpenSetup \/ CloseSetup \/ Apply \/ Activate \/ Answered \/ Lost
  \/ Replace \/ Leave \/ Continue \/ Repair
  \/ \E kind \in adrift : Arrives(kind)

Spec == Init /\ [][Next]_vars

TypeOK ==
  /\ host \in Answers /\ Consistent(host)
  /\ page.status \in Answers \cup {None}

(* Nothing is submitted, resumed or continued on a status that was assumed:*)
(* the last thing this client was asked for was answered, and with a       *)
(* status that allows it (console-initialization.tsx:184, :193, :207,      *)
(* :242).  So the first owner is not submitted again while an earlier      *)
(* submission is unconfirmed.                                              *)
NothingIsAssumed ==
      LET Confirmed(action) ==
            /\ page.last # None /\ page.last.client = page.client
            /\ page.last.status.nextAction = action
      IN  /\ page'.pending # page.pending /\ page'.pending \in {"apply", "activate"} =>
               Confirmed(page'.pending)
          /\ page'.continued /\ ~page.continued =>
               Confirmed("none") /\ page.last.status.state = "ready"
=============================================================================
