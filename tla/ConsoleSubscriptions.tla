------------------------ MODULE ConsoleSubscriptions ------------------------
(* The read subscriptions of the console service: opening one, pulling     *)
(* items through it, ending it, and closing the service that owns them all *)
(* (subscription.ts; subscribe and close of service.ts).                   *)
(*                                                                         *)
(* One step is what the code runs between two awaits. The producer is a    *)
(* plugin's iterator, so what it answers is free. All signals of one       *)
(* subscription other than the service's own are one flag, and the session *)
(* with its grants is one fact, current or not, for every subscription.    *)
EXTENDS FiniteSets

CONSTANTS
  Streams,     \* calls of subscribe
  Callers,     \* those who call next, return and throw on an open iterator
  Service,     \* the service, which calls return on every iterator it owns
  NoCall

ASSUME CallersAssumption == Service \notin Callers /\ NoCall \notin Callers

VARIABLES
  service,        \* open; waiting for openings, draining; closed or failed
  awaited,        \* the openings that close() waits for
  owned,          \* the subscriptions that close() drains
  subscriptions,  \* the service's set of live subscriptions
  cleanupFailure, \* the service remembers that some cleanup failed
  opening,        \* where each call of subscribe is
  cancelled,      \* a signal of the request, procedure or binding is aborted
  current,        \* the opening identity and grants are still what auth says
  completed,      \* the end of the stream was reached or asked for
  pulling,        \* the call whose next() has not settled
  work,           \* the call that started the last pull
  cleanup,        \* how far close() of a subscription is
  cleanupError,   \* the producer's return() threw
  at,             \* where each caller's call is; its answer once it settled
  vouched         \* current held at some time since the item was validated

serviceVars == <<service, awaited, owned>>
registry == <<subscriptions, cleanupFailure>>
iterator == <<completed, pulling, work, cleanup, cleanupError, at, vouched>>
vars == <<serviceVars, registry, opening, cancelled, current, iterator>>

Everyone == Callers \cup {Service}
Openings == {"entry", "bind", "recheck", "produce", "failing"}
Working == {"pull", "check", "validate", "recheck", "ready", "ended", "broken"}
Ending == {"finishing", "failing"}
Free == {"idle", "value", "done", "error"}

Opened(s) == opening[s] = "opened"
Closed(s) == cleanup[s] # "none"
Aborted(s) == cancelled[s] \/ service # "open" \/ Closed(s)

TypeOK ==
  /\ service \in {"open", "waiting", "draining", "closed", "failed"}
  /\ awaited \subseteq Streams /\ owned \subseteq Streams
  /\ subscriptions \subseteq Streams
  /\ opening \in [Streams -> Openings \cup {"none", "opened", "refused"}]
  /\ cancelled \in [Streams -> BOOLEAN]
  /\ current \in BOOLEAN /\ cleanupFailure \in BOOLEAN
  /\ completed \in [Streams -> BOOLEAN]
  /\ pulling \in [Streams -> Callers \cup {NoCall}]
  /\ work \in [Streams -> Callers \cup {NoCall}]
  /\ cleanup \in [Streams -> {"none", "queued", "returning", "draining", "released"}]
  /\ cleanupError \in [Streams -> BOOLEAN]
  /\ at \in [Streams -> [Everyone -> Working \cup Ending \cup Free]]
  /\ vouched \in [Streams -> BOOLEAN]

Init ==
  /\ service = "open" /\ awaited = {} /\ owned = {} /\ subscriptions = {}
  /\ cleanupFailure = FALSE /\ current = TRUE
  /\ opening = [s \in Streams |-> "none"]
  /\ cancelled = [s \in Streams |-> FALSE]
  /\ completed = [s \in Streams |-> FALSE]
  /\ pulling = [s \in Streams |-> NoCall]
  /\ work = [s \in Streams |-> NoCall]
  /\ cleanup = [s \in Streams |-> "none"]
  /\ cleanupError = [s \in Streams |-> FALSE]
  /\ at = [s \in Streams |-> [c \in Everyone |-> "idle"]]
  /\ vouched = [s \in Streams |-> FALSE]

\* close() of a subscription starts its cleanup, once.
Close(ended) ==
  cleanup' = [s \in Streams |->
                IF s \in ended /\ ~Closed(s) THEN "queued" ELSE cleanup[s]]

MoveOpening(s, label) == opening' = [opening EXCEPT ![s] = label]
Move(s, c, label) == at' = [at EXCEPT ![s][c] = label]

-----------------------------------------------------------------------------
(* Opening a subscription.                                                 *)

\* The opening is recorded before anything can fail; checkCurrent looks at the
\* signals before it asks the authority.
Subscribe(s) ==
  /\ opening[s] = "none"
  /\ MoveOpening(s, IF Aborted(s) THEN "failing" ELSE "entry")
  /\ UNCHANGED <<serviceVars, registry, cancelled, current, iterator>>

Enter(s) ==
  /\ opening[s] = "entry"
  /\ MoveOpening(s, IF current THEN "bind" ELSE "failing")
  /\ UNCHANGED <<serviceVars, registry, cancelled, current, iterator>>

Bind(s) ==
  /\ opening[s] = "bind"
  /\ MoveOpening(s, IF Aborted(s) THEN "failing" ELSE "recheck")
  /\ UNCHANGED <<serviceVars, registry, cancelled, current, iterator>>

Reenter(s) ==
  /\ opening[s] = "recheck"
  /\ MoveOpening(s, IF current /\ ~Aborted(s) THEN "produce" ELSE "failing")
  /\ UNCHANGED <<serviceVars, registry, cancelled, current, iterator>>

\* MUTANT: only the abort event is listened to, not the signal's state.
OpenListening(s) ==
  /\ opening[s] = "produce"
  /\ MoveOpening(s, "opened")
  /\ subscriptions' = subscriptions \cup {s}
  /\ UNCHANGED <<serviceVars, cleanupFailure, cancelled, current, iterator>>

\* The producer exists. A signal aborted meanwhile closes the subscription in
\* the step that makes it.
Open(s) ==
  /\ opening[s] = "produce"
  /\ MoveOpening(s, "opened")
  /\ subscriptions' = subscriptions \cup {s}
  /\ Close(IF Aborted(s) THEN {s} ELSE {})
  /\ UNCHANGED <<serviceVars, cleanupFailure, cancelled, current, completed, pulling, work,
                 cleanupError, at, vouched>>

\* Any await of the opening can throw; the opening is over either way.
RefuseOpening(s) ==
  /\ opening[s] \in Openings
  /\ MoveOpening(s, "refused")
  /\ UNCHANGED <<serviceVars, registry, cancelled, current, iterator>>

-----------------------------------------------------------------------------
(* next, return and throw of an open iterator.                             *)

\* A closed iterator, or one that is being pulled, answers at once.
NextAtOnce(s, c) ==
  /\ Opened(s) /\ at[s][c] \in Free /\ (Closed(s) \/ pulling[s] # NoCall)
  /\ Move(s, c, IF completed[s] /\ Closed(s) /\ ~cleanupError[s] THEN "done" ELSE "error")
  /\ UNCHANGED <<serviceVars, registry, opening, cancelled, current, completed, pulling, work,
                 cleanup, cleanupError, vouched>>

Pull(s, c) ==
  /\ Opened(s) /\ at[s][c] \in Free /\ ~Closed(s) /\ pulling[s] = NoCall
  /\ pulling' = [pulling EXCEPT ![s] = c]
  /\ work' = [work EXCEPT ![s] = c]
  /\ Move(s, c, IF Aborted(s) THEN "broken" ELSE "pull")
  /\ UNCHANGED <<serviceVars, registry, opening, cancelled, current, completed, cleanup,
                 cleanupError, vouched>>

\* The producer's next() settles: with an item, the end, or an error.
SourceAnswers(s, c) ==
  /\ at[s][c] = "pull"
  /\ \E label \in {"check", "ended", "broken"} :
       Move(s, c, IF Aborted(s) THEN "broken" ELSE label)
  /\ UNCHANGED <<serviceVars, registry, opening, cancelled, current, completed, pulling, work,
                 cleanup, cleanupError, vouched>>

\* The raw item is held back until the authority is asked again.
Check(s, c) ==
  /\ at[s][c] = "check"
  /\ Move(s, c, IF current THEN "validate" ELSE "broken")
  /\ UNCHANGED <<serviceVars, registry, opening, cancelled, current, completed, pulling, work,
                 cleanup, cleanupError, vouched>>

\* The plugin's schema has projected the item.
Validate(s, c) ==
  /\ at[s][c] = "validate"
  /\ Move(s, c, IF Aborted(s) THEN "broken" ELSE "recheck")
  /\ vouched' = [vouched EXCEPT ![s] = current]
  /\ UNCHANGED <<serviceVars, registry, opening, cancelled, current, completed, pulling, work,
                 cleanup, cleanupError>>

\* MUTANT: the authority is asked before the item is projected only.
RecheckSignal(s, c) ==
  /\ at[s][c] = "recheck"
  /\ Move(s, c, IF ~Aborted(s) THEN "ready" ELSE "broken")
  /\ UNCHANGED <<serviceVars, registry, opening, cancelled, current, completed, pulling, work,
                 cleanup, cleanupError, vouched>>

\* The authority is asked once more, now that the item is what will be shown.
Recheck(s, c) ==
  /\ at[s][c] = "recheck"
  /\ Move(s, c, IF current /\ ~Aborted(s) THEN "ready" ELSE "broken")
  /\ UNCHANGED <<serviceVars, registry, opening, cancelled, current, completed, pulling, work,
                 cleanup, cleanupError, vouched>>

\* An oversized item, a failed schema, an authority that throws.
ProjectFails(s, c) ==
  /\ at[s][c] \in {"check", "validate", "recheck"}
  /\ Move(s, c, "broken")
  /\ UNCHANGED <<serviceVars, registry, opening, cancelled, current, completed, pulling, work,
                 cleanup, cleanupError, vouched>>

\* next() resumes once its pull settled, and closes unless there is an item.
Deliver(s, c) ==
  /\ at[s][c] = "ready"
  /\ Move(s, c, "value")
  /\ pulling' = [pulling EXCEPT ![s] = NoCall]
  /\ UNCHANGED <<serviceVars, registry, opening, cancelled, current, completed, work, cleanup,
                 cleanupError, vouched>>

EndPull(s, c) ==
  /\ at[s][c] \in {"ended", "broken"}
  /\ Move(s, c, IF at[s][c] = "ended" THEN "finishing" ELSE "failing")
  /\ completed' = [completed EXCEPT ![s] = @ \/ at[s][c] = "ended"]
  /\ Close({s})
  /\ UNCHANGED <<serviceVars, registry, opening, cancelled, current, pulling, work,
                 cleanupError, vouched>>

Return(s, c) ==
  /\ Opened(s) /\ at[s][c] \in Free
  /\ Move(s, c, "finishing")
  /\ completed' = [completed EXCEPT ![s] = TRUE]
  /\ Close({s})
  /\ UNCHANGED <<serviceVars, registry, opening, cancelled, current, pulling, work,
                 cleanupError, vouched>>

Throw(s, c) ==
  /\ Opened(s) /\ at[s][c] \in Free
  /\ Move(s, c, "failing")
  /\ Close({s})
  /\ UNCHANGED <<serviceVars, registry, opening, cancelled, current, completed, pulling, work,
                 cleanupError, vouched>>

\* A call that awaits the cleanup settles after it.
Settle(s, c) ==
  /\ at[s][c] \in Ending /\ cleanup[s] = "released"
  /\ Move(s, c, IF at[s][c] = "finishing" /\ ~cleanupError[s] THEN "done" ELSE "error")
  /\ pulling' = [pulling EXCEPT ![s] = IF @ = c THEN NoCall ELSE @]
  /\ UNCHANGED <<serviceVars, registry, opening, cancelled, current, completed, work, cleanup,
                 cleanupError, vouched>>

-----------------------------------------------------------------------------
(* The cleanup that close() starts.                                        *)

CallReturn(s) ==
  /\ cleanup[s] = "queued"
  /\ cleanup' = [cleanup EXCEPT ![s] = "returning"]
  /\ UNCHANGED <<serviceVars, registry, opening, cancelled, current, completed, pulling, work,
                 cleanupError, at, vouched>>

SourceReturns(s) ==
  /\ cleanup[s] = "returning"
  /\ cleanup' = [cleanup EXCEPT ![s] = "draining"]
  /\ \E failed \in BOOLEAN : cleanupError' = [cleanupError EXCEPT ![s] = failed]
  /\ UNCHANGED <<serviceVars, registry, opening, cancelled, current, completed, pulling, work,
                 at, vouched>>

\* MUTANT: the producer's return is taken for the end of the work.
DrainedAtOnce(s) == s \in Streams

\* The last pull settled, and its next() resumed: it registered on the promise
\* before the cleanup did.
Drained(s) == \A c \in Callers : work[s] = c => at[s][c] \notin Working

\* MUTANT: the failure is told to those who wait, and not remembered.
ReleaseQuietly(s) ==
  /\ cleanup[s] = "draining" /\ Drained(s)
  /\ cleanup' = [cleanup EXCEPT ![s] = "released"]
  /\ subscriptions' = subscriptions \ {s}
  /\ UNCHANGED <<serviceVars, cleanupFailure, opening, cancelled, current, completed, pulling,
                 work, cleanupError, at, vouched>>

Release(s) ==
  /\ cleanup[s] = "draining" /\ Drained(s)
  /\ cleanup' = [cleanup EXCEPT ![s] = "released"]
  /\ subscriptions' = subscriptions \ {s}
  /\ cleanupFailure' = (cleanupFailure \/ cleanupError[s])
  /\ UNCHANGED <<serviceVars, opening, cancelled, current, completed, pulling, work,
                 cleanupError, at, vouched>>

-----------------------------------------------------------------------------
(* Closing the service, and what happens around it.                        *)

\* close() aborts the lifecycle, which closes every open subscription.
StartClose ==
  /\ service = "open"
  /\ service' = "waiting"
  /\ owned' = subscriptions
  /\ awaited' = {s \in Streams : opening[s] \in Openings}
  /\ Close({s \in Streams : Opened(s)})
  /\ UNCHANGED <<registry, opening, cancelled, current, completed, pulling, work,
                 cleanupError, at, vouched>>

\* MUTANT: the openings in flight are not waited for.
ReturnOwned ==
  /\ service = "waiting"
  /\ service' = "draining"
  /\ completed' = [s \in Streams |-> completed[s] \/ s \in owned]
  /\ at' = [s \in Streams |->
              IF s \in owned THEN [at[s] EXCEPT ![Service] = "finishing"] ELSE at[s]]
  /\ Close(owned)
  /\ UNCHANGED <<awaited, owned, registry, opening, cancelled, current, pulling, work,
                 cleanupError, vouched>>

\* With the openings settled the set is final: return() is called on all of it.
ReturnAll ==
  /\ service = "waiting" /\ \A s \in awaited : opening[s] \notin Openings
  /\ service' = "draining"
  /\ owned' = owned \cup subscriptions
  /\ completed' = [s \in Streams |-> completed[s] \/ s \in owned']
  /\ at' = [s \in Streams |->
              IF s \in owned' THEN [at[s] EXCEPT ![Service] = "finishing"] ELSE at[s]]
  /\ Close(owned')
  /\ UNCHANGED <<awaited, registry, opening, cancelled, current, pulling, work,
                 cleanupError, vouched>>

EndClose ==
  /\ service = "draining" /\ \A s \in owned : at[s][Service] \in {"done", "error"}
  /\ service' = IF cleanupFailure \/ \E s \in owned : at[s][Service] = "error"
                  THEN "failed" ELSE "closed"
  /\ UNCHANGED <<awaited, owned, registry, opening, cancelled, current, iterator>>

\* A disconnect or a mount's own signal. Only an open subscription listens.
Cancel(s) ==
  /\ opening[s] # "none" /\ ~cancelled[s]
  /\ cancelled' = [cancelled EXCEPT ![s] = TRUE]
  /\ Close(IF Opened(s) THEN {s} ELSE {})
  /\ UNCHANGED <<serviceVars, registry, opening, current, completed, pulling, work,
                 cleanupError, at, vouched>>

\* The session ends, its scope changes or a grant goes away; or it is restored.
AuthorityChanges ==
  /\ current' = ~current
  /\ vouched' = [s \in Streams |-> vouched[s] \/ current']
  /\ UNCHANGED <<serviceVars, registry, opening, cancelled, completed, pulling, work, cleanup,
                 cleanupError, at>>

Establish(s) == Enter(s) \/ Bind(s) \/ Reenter(s) \/ Open(s) \/ RefuseOpening(s)
Project(s, c) == Check(s, c) \/ Validate(s, c) \/ Recheck(s, c) \/ ProjectFails(s, c)
Resume(s, c) == Deliver(s, c) \/ EndPull(s, c)
Clean(s) == CallReturn(s) \/ SourceReturns(s) \/ Release(s)

Next ==
  \/ \E s \in Streams :
       \/ Subscribe(s) \/ Establish(s) \/ Clean(s) \/ Cancel(s)
       \/ Settle(s, Service)
       \/ \E c \in Callers :
            \/ NextAtOnce(s, c) \/ Pull(s, c) \/ SourceAnswers(s, c) \/ Project(s, c)
            \/ Resume(s, c) \/ Return(s, c) \/ Throw(s, c) \/ Settle(s, c)
  \/ StartClose \/ ReturnAll \/ EndClose \/ AuthorityChanges

Spec == Init /\ [][Next]_vars

\* Promises of the service settle, and the producer honours its signal: a pull
\* must settle once aborted, and return() must settle. Nobody must pull.
Fairness ==
  /\ WF_vars(ReturnAll) /\ WF_vars(EndClose)
  /\ \A s \in Streams :
       /\ WF_vars(Establish(s)) /\ WF_vars(Clean(s)) /\ WF_vars(Settle(s, Service))
       /\ \A c \in Callers :
            /\ WF_vars(Aborted(s) /\ SourceAnswers(s, c))
            /\ WF_vars(Project(s, c)) /\ WF_vars(Resume(s, c)) /\ WF_vars(Settle(s, c))

FairSpec == Spec /\ Fairness

-----------------------------------------------------------------------------
\* What a subscription owns outlives its work: when it is released, its
\* producer has returned and no pull or projection of any call is in flight.
OwnedThroughWork ==
  \A s \in Streams : cleanup[s] = "released" =>
    \A c \in Callers : at[s][c] \notin Working

\* When close() of the service settles nothing is left behind: every
\* subscription that was opened is released and no opening can still succeed,
\* however its openings, cancellations and calls interleaved with the closing.
CloseLeavesNothing ==
  service \in {"closed", "failed"} =>
    /\ subscriptions = {}
    /\ \A s \in Streams : /\ opening[s] \in {"none", "failing", "refused", "opened"}
                          /\ Opened(s) => cleanup[s] = "released"

\* close() of the service succeeds only if the producer of every subscription
\* it ever opened was cleaned up without an error, the ones that ended by
\* themselves before the closing included.
NoCleanupFailureForgotten ==
  service = "closed" => \A s \in Streams : ~cleanupError[s]

\* An item is handed out only if the session and its grants were those of the
\* opening at some time since the item took the form that is shown: what the
\* authority lost during an asynchronous validation is not disclosed.
FreshAtDisclosure ==
  [][\A s \in Streams, c \in Callers :
       at[s][c] # "value" /\ at'[s][c] = "value" => vouched[s]]_vars

\* A subscription that is cancelled in any way, even before it was made, is
\* released, although its cleanup waits for a pull that waits for the cleanup.
CancelledIsReleased ==
  \A s \in Streams : (Opened(s) /\ Aborted(s)) ~> (cleanup[s] = "released")

\* Every call that ends an iterator settles.
EndingCallsSettle ==
  \A s \in Streams, c \in Everyone : at[s][c] \in Ending ~> at[s][c] \in Free

\* close() of the service settles, openings in flight or not.
ServiceCloses == service = "waiting" ~> service \in {"closed", "failed"}

\* Nobody waits on somebody who waits on him (subscription.ts: returnAll, drain):
\* the pulls, the cleanups, the ending calls and the service's close.
EverythingSettles == CancelledIsReleased /\ EndingCallsSettle /\ ServiceCloses
=============================================================================
