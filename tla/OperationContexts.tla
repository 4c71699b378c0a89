-------------------------- MODULE OperationContexts --------------------------
(* Two readers of what a host knows of the operations of a page. The tool   *)
(* by which an Agent inspects them: the page is the host's to name, at      *)
(* every step, so a call is prepared for one page, perhaps long before it   *)
(* is carried out, and the page, or what it may use, may be another         *)
(* whenever the host is asked. And the page's own panel, which reads them   *)
(* for the services and the lease of the page at that time: what it tells   *)
(* belongs to nobody else. The two share nothing.                           *)
EXTENDS Naturals

CONSTANTS Scopes, Mounts,
          MaxLease,     \* bound on the leases a page is given
          None

VARIABLES host,     \* the page that the identity and its project are admitted to
          call,     \* the call of the tool, and the action that was prepared last
          panel,    \* OperationContextPanel
          inspects  \* calls of services.inspect that were not answered

(* A mount stands for its id, revision, implementation and owner; offers is *)
(* whether the page has the operation that is asked about.                  *)
Pages == [scope : Scopes, mount : Mounts, offers : BOOLEAN]

(* What the page may use is not part of what tells it from another.         *)
Fingerprint(page) == [scope |-> page.scope, mount |-> page.mount]

ToolInit ==
  /\ host \in Pages \cup {None}
  /\ call = [kind |-> None, at |-> "idle", aborted |-> FALSE, selected |-> None,
             prepared |-> None, result |-> None, vouched |-> FALSE, answer |-> None]

(* The source's operations. An action that was prepared may be invoked at   *)
(* any time, and more than once.                                            *)
Starts(kind) ==
  /\ call.at = "idle"
  /\ kind = "invoke" => call.prepared # None
  /\ call' = [call EXCEPT !.kind = kind, !.at = "page", !.aborted = FALSE, !.result = None,
                          !.vouched = FALSE, !.answer = None]
  /\ UNCHANGED host

Abort == call.at # "idle" /\ ~call.aborted
         /\ call' = [call EXCEPT !.aborted = TRUE] /\ UNCHANGED host

Ends(answer) == call' = [call EXCEPT !.at = "idle", !.selected = None, !.answer = answer]

(* What goes wrong while an action is carried out is not told apart.        *)
Rejects(code) ==
  Ends(IF call.aborted THEN "aborted" ELSE IF call.kind = "invoke" THEN "operation-failed"
       ELSE code)

Selects(at) == call' = [call EXCEPT !.at = at, !.selected = host]

(* page() is awaited by every operation, and by invoke on both sides of the *)
(* inspection. The page of prepare has to offer what is asked about.        *)
Resolves ==
  /\ call.at \in {"page", "page again"}
  /\ \/ Rejects("forbidden-operation")              \* the host refuses, or fails
     \/ /\ ~call.aborted /\ host # None
        /\ CASE call.kind \in {"catalog", "context"} -> Ends("told")
             [] call.kind = "prepare" ->
                  IF host.offers THEN Selects("digest") ELSE Rejects("unknown-operation")
             [] call.kind = "invoke" ->
                  Selects(IF call.at = "page" THEN "compare" ELSE "compare again")
  /\ UNCHANGED host

Prepares ==
  /\ call.at = "digest"
  /\ call' = [call EXCEPT !.at = "idle", !.answer = "prepared", !.selected = None,
                          !.prepared = Fingerprint(call.selected)]
  /\ UNCHANGED host

Compares ==
  /\ call.at = "compare"
  /\ IF Fingerprint(call.selected) = call.prepared /\ call.selected.offers
     THEN call' = [call EXCEPT !.at = "inspect"]
     ELSE Rejects("precondition-conflict")
  /\ UNCHANGED host

(* The service answers with the page it found, or not at all; what is too   *)
(* long to hand over counts as no answer.                                   *)
Inspected(mount) ==
  /\ call.at = "inspect"
  /\ call' = [call EXCEPT !.at = "page again", !.result = mount,
                !.vouched = host # None /\ Fingerprint(host) = call.prepared]
  /\ UNCHANGED host

InspectFails == call.at = "inspect" /\ Rejects("operation-failed") /\ UNCHANGED host

ResultIsCurrent ==      \* mutant: only the result is compared again
  call.result = call.selected.mount

StillThePage ==
  Fingerprint(call.selected) = call.prepared /\ call.result = call.selected.mount

ComparesAgain ==
  /\ call.at = "compare again"
  /\ IF StillThePage THEN Ends("result") ELSE Rejects("precondition-conflict")
  /\ UNCHANGED host

(* vouched remembers whether the host has named the page of the action      *)
(* since the inspection was answered.                                       *)
HostMoves(page) ==
  /\ page # host /\ host' = page
  /\ call' = [call EXCEPT !.vouched = @ \/
                (call.result # None /\ page # None /\ Fingerprint(page) = call.prepared)]

ToolNext ==
  \/ \E kind \in {"catalog", "context", "prepare", "invoke"} : Starts(kind)
  \/ Abort \/ Resolves \/ Prepares \/ Compares \/ InspectFails \/ ComparesAgain
  \/ \E mount \in Mounts : Inspected(mount)
  \/ \E page \in Pages \cup {None} : HostMoves(page)

(* What an Agent is told is about the page its action was prepared for, and *)
(* the identity was on that page after the host had looked, however pages   *)
(* change and come back in between (context-tools.ts:174-209).              *)
ToldOfItsPage ==
  call.answer = "result" => call.result = call.prepared.mount /\ call.vouched

-----------------------------------------------------------------------------
Blank(lease, offers) ==
  [lease |-> lease, offers |-> offers, ended |-> FALSE, context |-> None,
   busy |-> FALSE, error |-> FALSE, pending |-> None]

PanelInit == /\ \E offers \in BOOLEAN : panel = Blank(1, offers)
             /\ inspects = {}

(* retire, and the cleanup of its effect: the read under way is aborted.    *)
AbortsNothing == inspects' = inspects
Aborts == inspects' = {[c EXCEPT !.aborted = @ \/ c.lease = panel.pending] : c \in inspects}

LeaseEnds ==
  /\ ~panel.ended /\ Aborts
  /\ panel' = [Blank(panel.lease, panel.offers) EXCEPT !.ended = TRUE]

(* New services or another signal; another mount, revision or operation has *)
(* a panel of its own.                                                      *)
Moves(offers) ==
  /\ panel.lease < MaxLease /\ Aborts
  /\ panel' = Blank(panel.lease + 1, offers)

Inspect ==
  /\ panel.offers /\ ~panel.busy /\ panel.pending = None /\ ~panel.ended
  /\ panel' = [panel EXCEPT !.pending = panel.lease, !.busy = TRUE, !.context = None,
                            !.error = FALSE]
  /\ inspects' = inspects \cup {[lease |-> panel.lease, aborted |-> FALSE]}

Answers(c, context) ==
  /\ inspects' = inspects \ {c}
  /\ panel' = IF c.aborted THEN panel
              ELSE [panel EXCEPT !.context = context, !.error = context = None,
                                 !.busy = FALSE, !.pending = None]

PanelNext ==
  \/ Inspect \/ LeaseEnds
  \/ \E offers \in BOOLEAN : Moves(offers)
  \/ \E c \in inspects : Answers(c, c.lease) \/ Answers(c, None)

(* What the panel tells belongs to the lease it has now, and its button     *)
(* never stays out of use for a read nobody waits for any more              *)
(* (operation-context.tsx:193-239).                                         *)
InspectsItsOwn ==
  /\ panel.context \in {None, panel.lease}
  /\ panel.busy => [lease |-> panel.pending, aborted |-> FALSE] \in inspects
  /\ panel.ended => panel.context = None /\ ~panel.busy
  /\ \A c \in inspects : ~c.aborted => c.lease = panel.lease

-----------------------------------------------------------------------------
Init == ToolInit /\ PanelInit

Next == \/ ToolNext /\ UNCHANGED <<panel, inspects>>
        \/ PanelNext /\ UNCHANGED <<host, call>>

Spec == Init /\ [][Next]_<<host, call, panel, inspects>>
=============================================================================
