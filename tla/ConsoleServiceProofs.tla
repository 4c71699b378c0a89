------------------------ MODULE ConsoleServiceProofs ------------------------
(* What the console service keeps true for any number of streams, callers  *)
(* and kinds of request.                                                   *)
(*                                                                         *)
(* Subscriptions: the work of one is drained before it is released, and a  *)
(* closed service leaves neither a subscription nor the failure of a       *)
(* cleanup behind. Requests: a write or an answer uses authority from      *)
(* after the last await, and no read scope outlives its request.           *)
EXTENDS ConsoleSubscriptions, ConsoleRequests, SequenceTheorems, TLAPS

\* A call at work is the one that pulls, and the one the cleanup will drain.
PullerIsDrained ==
  \A s \in Streams, c \in Callers :
    at[s][c] \in Working => pulling[s] = c /\ work[s] = c

\* The openings that may still succeed, once the service is being closed.
Admissible == Openings \ {"failing"}
ClosingStates == {"draining", "closed", "failed"}

AwaitedAtClose ==
  \A s \in Streams : opening[s] \in Admissible =>
    /\ service = "waiting" => s \in awaited
    /\ service \notin ClosingStates

\* The set of the service holds what is open and not released.
RegisteredUntilReleased ==
  \A s \in Streams :
    /\ s \in subscriptions <=> Opened(s) /\ cleanup[s] # "released"
    /\ cleanup[s] # "none" => Opened(s)

\* Only an open iterator has calls, and the service owns only open ones.
CallsAreOnOpened ==
  /\ \A s \in Streams, c \in Everyone : at[s][c] # "idle" => Opened(s)
  /\ \A s \in owned : Opened(s)

\* The service's own calls settle after the cleanup they wait for.
ServiceCallsWait ==
  /\ \A s \in Streams : at[s][Service] \in {"done", "error"} => cleanup[s] = "released"
  /\ service \in ClosingStates => subscriptions \subseteq owned
  /\ service \in {"closed", "failed"} => \A s \in owned : cleanup[s] = "released"

\* A failed cleanup is remembered when it is over, and was none if all went well.
FailuresRemembered ==
  /\ \A s \in Streams : cleanupError[s] => cleanup[s] \in {"draining", "released"}
  /\ \A s \in Streams : cleanupError[s] /\ cleanup[s] = "released" => cleanupFailure
  /\ service = "closed" => ~cleanupFailure

IInv ==
  /\ TypeOK
  /\ PullerIsDrained /\ OwnedThroughWork
  /\ AwaitedAtClose /\ RegisteredUntilReleased
  /\ CallsAreOnOpened /\ ServiceCallsWait
  /\ FailuresRemembered

USE DEF Everyone, Openings, Working, Ending, Free

-----------------------------------------------------------------------------
(* Which steps there are.                                                  *)

OpeningStep(s) == Subscribe(s) \/ Enter(s) \/ Bind(s) \/ Reenter(s) \/ RefuseOpening(s)
PullStep(s, c) ==
  SourceAnswers(s, c) \/ Check(s, c) \/ Validate(s, c) \/ Recheck(s, c) \/ ProjectFails(s, c)
EndingStep(s, c) == EndPull(s, c) \/ Return(s, c) \/ Throw(s, c)

\* Every step is one of these, or changes nothing.
LEMMA StepKinds ==
  ASSUME [Next]_vars
  PROVE  \/ UNCHANGED vars
         \/ \E s \in Streams :
              \/ OpeningStep(s) \/ Open(s) \/ Cancel(s)
              \/ CallReturn(s) \/ SourceReturns(s) \/ Release(s)
              \/ \E c \in Callers :
                   \/ NextAtOnce(s, c) \/ Pull(s, c) \/ PullStep(s, c) \/ Deliver(s, c)
                   \/ EndingStep(s, c)
              \/ \E c \in Everyone : Settle(s, c)
         \/ StartClose \/ ReturnAll \/ EndClose \/ AuthorityChanges
BY DEF Next, Establish, Project, Resume, Clean, OpeningStep, PullStep, EndingStep

LEMMA Initially == Init => IInv
<1> SUFFICES ASSUME Init PROVE IInv
  OBVIOUS
<1> USE DEF Init
<1>1. \A s \in Streams, c \in Everyone : at[s][c] = "idle"
  OBVIOUS
<1>2. TypeOK
  BY DEF TypeOK
<1>3. PullerIsDrained /\ OwnedThroughWork
  BY <1>1 DEF PullerIsDrained, OwnedThroughWork
<1>4. AwaitedAtClose /\ RegisteredUntilReleased
  BY DEF AwaitedAtClose, Admissible, RegisteredUntilReleased, Opened
<1>5. CallsAreOnOpened /\ ServiceCallsWait
  BY <1>1 DEF CallsAreOnOpened, ServiceCallsWait, ClosingStates
<1>6. FailuresRemembered
  BY DEF FailuresRemembered
<1> QED
  BY <1>2, <1>3, <1>4, <1>5, <1>6 DEF IInv

\* Moving one call leaves the others where they are.
LEMMA MoveOne ==
  ASSUME TypeOK, NEW s \in Streams, NEW c \in Everyone, NEW label, Move(s, c, label)
  PROVE  /\ at'[s][c] = label
         /\ \A t \in Streams, d \in Everyone : t # s \/ d # c => at'[t][d] = at[t][d]
         /\ label \in Working \cup Ending \cup Free =>
              at' \in [Streams -> [Everyone -> Working \cup Ending \cup Free]]
BY DEF TypeOK, Move

LEMMA TypeStep ==
  ASSUME IInv, [Next]_vars
  PROVE  TypeOK'
<1> USE CallersAssumption DEF IInv
<1>1. CASE UNCHANGED vars
  BY <1>1 DEF TypeOK, vars, serviceVars, registry, iterator
<1>2. ASSUME NEW s \in Streams, OpeningStep(s)
      PROVE  TypeOK'
  BY <1>2 DEF TypeOK, OpeningStep, Subscribe, Enter, Bind, Reenter, RefuseOpening, MoveOpening,
              serviceVars, registry, iterator
<1>3. ASSUME NEW s \in Streams, Open(s) \/ Cancel(s)
      PROVE  TypeOK'
  BY <1>3 DEF TypeOK, Open, Cancel, MoveOpening, Close, serviceVars, registry
<1>4. ASSUME NEW s \in Streams, CallReturn(s) \/ SourceReturns(s) \/ Release(s)
      PROVE  TypeOK'
  BY <1>4 DEF TypeOK, CallReturn, SourceReturns, Release, serviceVars, registry
<1>5. ASSUME NEW s \in Streams, NEW c \in Callers,
             NextAtOnce(s, c) \/ PullStep(s, c) \/ Pull(s, c) \/ Deliver(s, c)
      PROVE  TypeOK'
  <2>1. PICK label \in Working \cup Ending \cup Free : Move(s, c, label)
    BY <1>5 DEF NextAtOnce, PullStep, SourceAnswers, Check, Validate, Recheck, ProjectFails,
                Pull, Deliver
  <2>2. at' \in [Streams -> [Everyone -> Working \cup Ending \cup Free]]
    BY <2>1, MoveOne
  <2>3. CASE NextAtOnce(s, c)
    BY <2>2, <2>3 DEF TypeOK, NextAtOnce, serviceVars, registry
  <2>4. CASE PullStep(s, c)
    BY <2>2, <2>4 DEF TypeOK, PullStep, SourceAnswers, Check, Validate, Recheck, ProjectFails,
                      serviceVars, registry
  <2>5. CASE Pull(s, c)
    BY <2>2, <2>5 DEF TypeOK, Pull, serviceVars, registry
  <2>6. CASE Deliver(s, c)
    BY <2>2, <2>6 DEF TypeOK, Deliver, serviceVars, registry
  <2> QED
    BY <1>5, <2>3, <2>4, <2>5, <2>6
<1>6. ASSUME NEW s \in Streams, NEW c \in Callers, EndingStep(s, c)
      PROVE  TypeOK'
  <2>1. PICK label \in Working \cup Ending \cup Free : Move(s, c, label)
    BY <1>6 DEF EndingStep, EndPull, Return, Throw
  <2>2. at' \in [Streams -> [Everyone -> Working \cup Ending \cup Free]]
    BY <2>1, MoveOne
  <2>3. cleanup' \in [Streams -> {"none", "queued", "returning", "draining", "released"}]
    BY <1>6 DEF TypeOK, EndingStep, EndPull, Return, Throw, Close
  <2>4. completed' \in [Streams -> BOOLEAN]
    BY <1>6 DEF TypeOK, EndingStep, EndPull, Return, Throw
  <2> QED
    BY <1>6, <2>2, <2>3, <2>4 DEF TypeOK, EndingStep, EndPull, Return, Throw, serviceVars, registry
<1>7. ASSUME NEW s \in Streams, NEW c \in Everyone, Settle(s, c)
      PROVE  TypeOK'
  <2>1. PICK label \in Working \cup Ending \cup Free : Move(s, c, label)
    BY <1>7 DEF Settle
  <2>2. at' \in [Streams -> [Everyone -> Working \cup Ending \cup Free]]
    BY <2>1, MoveOne
  <2> QED
    BY <1>7, <2>2 DEF TypeOK, Settle, serviceVars, registry
<1>8. CASE StartClose
  BY <1>8 DEF TypeOK, StartClose, Close, serviceVars, registry
<1>9. CASE ReturnAll
  <2>1. owned' \subseteq Streams
    BY <1>9 DEF ReturnAll, TypeOK
  <2>2. at' \in [Streams -> [Everyone -> Working \cup Ending \cup Free]]
    <3>1. \A s \in Streams : [at[s] EXCEPT ![Service] = "finishing"]
                                \in [Everyone -> Working \cup Ending \cup Free]
      BY DEF TypeOK
    <3>2. \A s \in Streams : at[s] \in [Everyone -> Working \cup Ending \cup Free]
      BY DEF TypeOK
    <3> QED
      BY <1>9, <3>1, <3>2 DEF ReturnAll
  <2>3. cleanup' \in [Streams -> {"none", "queued", "returning", "draining", "released"}]
    BY <1>9 DEF TypeOK, ReturnAll, Close
  <2>4. completed' \in [Streams -> BOOLEAN]
    BY <1>9, <2>1 DEF TypeOK, ReturnAll
  <2> QED
    BY <1>9, <2>1, <2>2, <2>3, <2>4 DEF TypeOK, ReturnAll, registry
<1>10. CASE EndClose
  BY <1>10 DEF TypeOK, EndClose, registry, iterator
<1>11. CASE AuthorityChanges
  BY <1>11 DEF TypeOK, AuthorityChanges, serviceVars, registry
<1> QED
  BY StepKinds, <1>1, <1>2, <1>3, <1>4, <1>5, <1>6, <1>7, <1>8, <1>9, <1>10,
     <1>11

-----------------------------------------------------------------------------
(* The calls: who is at work, and when the work is over.                   *)

\* Only these steps touch a call, the callers' or the service's own.
LEMMA CallsUntouched ==
  ASSUME NEW s \in Streams,
         OpeningStep(s) \/ Open(s) \/ Cancel(s) \/ CallReturn(s) \/ SourceReturns(s) \/ Release(s)
  PROVE  UNCHANGED <<at, pulling, work, owned>>
BY DEF OpeningStep, Subscribe, Enter, Bind, Reenter, RefuseOpening, Open, Cancel, CallReturn,
       SourceReturns, Release, serviceVars, iterator

LEMMA WorkStep ==
  ASSUME IInv, [Next]_vars
  PROVE  PullerIsDrained'
<1> USE CallersAssumption DEF IInv, PullerIsDrained
<1>1. CASE UNCHANGED <<at, pulling, work>>
  BY <1>1
<1>2. ASSUME NEW s \in Streams, NEW c \in Callers,
             NextAtOnce(s, c) \/ EndingStep(s, c)
      PROVE  PullerIsDrained'
  <2>1. PICK label \in Ending \cup Free : Move(s, c, label)
    BY <1>2 DEF NextAtOnce, EndingStep, EndPull, Return, Throw
  <2> QED
    BY <1>2, <2>1, MoveOne DEF NextAtOnce, EndingStep, EndPull, Return, Throw
<1>3. ASSUME NEW s \in Streams, NEW c \in Callers, Pull(s, c)
      PROVE  PullerIsDrained'
  <2>1. PICK label \in Working : Move(s, c, label)
    BY <1>3 DEF Pull
  <2>2. \A d \in Callers : at[s][d] \notin Working
    BY <1>3 DEF Pull
  <2>3. /\ pulling'[s] = c /\ work'[s] = c
        /\ \A t \in Streams : t # s => pulling'[t] = pulling[t] /\ work'[t] = work[t]
    BY <1>3 DEF Pull, TypeOK
  <2> QED
    BY <2>1, <2>2, <2>3, MoveOne
<1>4. ASSUME NEW s \in Streams, NEW c \in Callers, PullStep(s, c)
      PROVE  PullerIsDrained'
  <2>1. PICK label \in Working : Move(s, c, label)
    BY <1>4 DEF PullStep, SourceAnswers, Check, Validate, Recheck, ProjectFails
  <2>2. at[s][c] \in Working /\ UNCHANGED <<pulling, work>>
    BY <1>4 DEF PullStep, SourceAnswers, Check, Validate, Recheck, ProjectFails
  <2> QED
    BY <2>1, <2>2, MoveOne
<1>5. ASSUME NEW s \in Streams, NEW c \in Everyone,
             (c \in Callers /\ Deliver(s, c)) \/ Settle(s, c)
      PROVE  PullerIsDrained'
  <2>1. PICK label \in Free : Move(s, c, label)
    BY <1>5 DEF Deliver, Settle
  <2>2. /\ work' = work
        /\ \A t \in Streams : t # s => pulling'[t] = pulling[t]
        /\ pulling[s] # c => pulling'[s] = pulling[s]
    BY <1>5 DEF Deliver, Settle, TypeOK
  <2> QED
    BY <2>1, <2>2, MoveOne
<1>6. CASE ReturnAll
  <2>1. \A s \in Streams, c \in Callers : at'[s][c] = at[s][c]
    BY <1>6 DEF ReturnAll, TypeOK
  <2> QED
    BY <1>6, <2>1 DEF ReturnAll
<1>7. CASE StartClose \/ EndClose \/ AuthorityChanges \/ UNCHANGED vars
  BY <1>1, <1>7 DEF StartClose, EndClose, AuthorityChanges, vars, iterator
<1> QED
  BY StepKinds, CallsUntouched, <1>1, <1>2, <1>3, <1>4, <1>5, <1>6, <1>7

\* No step takes a cleanup back, and a released one was drained.
LEMMA CleanupStep ==
  ASSUME IInv, [Next]_vars, NEW s \in Streams
  PROVE  /\ cleanup[s] = "released" => cleanup'[s] = "released"
         /\ cleanup[s] # "released" /\ cleanup'[s] = "released" => Release(s)
<1> USE DEF IInv, TypeOK
<1>1. ASSUME NEW t \in Streams, CallReturn(t) \/ SourceReturns(t) \/ Release(t)
      PROVE  /\ cleanup[s] = "released" => cleanup'[s] = "released"
             /\ cleanup[s] # "released" /\ cleanup'[s] = "released" => Release(s)
  <2>1. CASE CallReturn(t) \/ SourceReturns(t)
    BY <2>1 DEF CallReturn, SourceReturns
  <2>2. CASE Release(t)
    BY <2>2 DEF Release
  <2> QED
    BY <1>1, <2>1, <2>2
<1>2. CASE \E ended : Close(ended)
  BY <1>2 DEF Close, Closed
<1>3. CASE UNCHANGED cleanup
  BY <1>3
<1>4. ASSUME NEW t \in Streams,
             \/ OpeningStep(t) \/ Open(t) \/ Cancel(t) \/ \E c \in Everyone : Settle(t, c)
             \/ \E c \in Callers : \/ NextAtOnce(t, c) \/ Pull(t, c) \/ PullStep(t, c)
                                   \/ Deliver(t, c) \/ EndingStep(t, c)
      PROVE  (\E ended : Close(ended)) \/ UNCHANGED cleanup
  <2>1. CASE OpeningStep(t)
    BY <2>1 DEF OpeningStep, Subscribe, Enter, Bind, Reenter, RefuseOpening, iterator
  <2>2. CASE Open(t) \/ Cancel(t) \/ \E c \in Callers : EndingStep(t, c)
    BY <2>2 DEF Open, Cancel, EndingStep, EndPull, Return, Throw
  <2>3. CASE \E c \in Everyone : Settle(t, c)
    BY <2>3 DEF Settle
  <2>4. CASE \E c \in Callers : \/ NextAtOnce(t, c) \/ Pull(t, c) \/ PullStep(t, c)
                                 \/ Deliver(t, c)
    BY <2>4 DEF NextAtOnce, Pull, PullStep, SourceAnswers, Check, Validate, Recheck,
                ProjectFails, Deliver
  <2> QED
    BY <1>4, <2>1, <2>2, <2>3, <2>4
<1>5. CASE StartClose \/ ReturnAll \/ EndClose \/ AuthorityChanges \/ UNCHANGED vars
  BY <1>2, <1>3, <1>5 DEF StartClose, ReturnAll, EndClose, AuthorityChanges, vars, iterator
<1> QED
  BY StepKinds, <1>1, <1>2, <1>3, <1>4, <1>5

\* A call starts to work on an iterator that is not closed only.
LEMMA WorkStartsOpen ==
  ASSUME IInv, [Next]_vars, NEW s \in Streams, NEW c \in Callers,
         at[s][c] \notin Working, at'[s][c] \in Working
  PROVE  cleanup[s] = "none" /\ UNCHANGED cleanup
<1> USE CallersAssumption DEF IInv
<1>1. CASE UNCHANGED at
  BY <1>1
<1>2. ASSUME NEW t \in Streams, NEW d \in Everyone, NEW label, Move(t, d, label)
      PROVE  t = s /\ d = c /\ label \in Working
  BY <1>2, MoveOne
<1>3. ASSUME NEW t \in Streams, NEW d \in Everyone,
             \/ /\ d \in Callers
                /\ \/ NextAtOnce(t, d)
                   \/ PullStep(t, d)
                   \/ Deliver(t, d)
                   \/ EndingStep(t, d)
             \/ Settle(t, d)
      PROVE  FALSE
  <2>1. \E label : Move(t, d, label) /\ (label \in Working => at[t][d] \in Working)
    BY <1>3 DEF NextAtOnce, PullStep, SourceAnswers, Check, Validate, Recheck, ProjectFails,
                Deliver, EndingStep, EndPull, Return, Throw, Settle
  <2> QED
    BY <1>2, <2>1
<1>4. ASSUME NEW t \in Streams, NEW d \in Callers, Pull(t, d)
      PROVE  cleanup[s] = "none" /\ UNCHANGED cleanup
  <2>1. t = s
    BY <1>2, <1>4 DEF Pull
  <2> QED
    BY <1>4, <2>1 DEF Pull, Closed
<1>5. CASE ReturnAll
  BY <1>5 DEF ReturnAll, TypeOK
<1>6. CASE StartClose \/ EndClose \/ AuthorityChanges \/ UNCHANGED vars
  BY <1>1, <1>6 DEF StartClose, EndClose, AuthorityChanges, vars, iterator
<1> QED
  BY StepKinds, CallsUntouched, <1>1, <1>3, <1>4, <1>5, <1>6

LEMMA OwnedStep ==
  ASSUME IInv, [Next]_vars
  PROVE  OwnedThroughWork'
<1> SUFFICES ASSUME NEW s \in Streams, NEW c \in Callers,
                    cleanup'[s] = "released", at'[s][c] \in Working
             PROVE  FALSE
  BY DEF OwnedThroughWork
<1>1. at[s][c] \in Working
  BY WorkStartsOpen
<1>2. cleanup[s] # "released"
  BY <1>1 DEF IInv, OwnedThroughWork
<1>3. Release(s)
  BY <1>2, CleanupStep
<1>4. work[s] = c
  BY <1>1 DEF IInv, PullerIsDrained
<1> QED
  BY <1>1, <1>3, <1>4 DEF Release, Drained

-----------------------------------------------------------------------------
(* The service: what it waits for, what it owns and what it remembers.     *)

\* The steps of the calls leave the service, its set and the openings alone.
LEMMA CallsOnly ==
  ASSUME NEW s \in Streams, NEW c \in Everyone,
         \/ /\ c \in Callers
            /\ \/ NextAtOnce(s, c)
               \/ Pull(s, c)
               \/ PullStep(s, c)
               \/ Deliver(s, c)
               \/ EndingStep(s, c)
         \/ Settle(s, c)
  PROVE  /\ UNCHANGED <<service, awaited, owned, subscriptions, cleanupFailure, opening,
                        cleanupError>>
         /\ \E label \in Working \cup Ending \cup Free : Move(s, c, label)
BY DEF NextAtOnce, Pull, PullStep, SourceAnswers, Check, Validate, Recheck, ProjectFails,
       Deliver, EndingStep, EndPull, Return, Throw, Settle, serviceVars, registry

LEMMA AwaitedStep ==
  ASSUME IInv, [Next]_vars
  PROVE  AwaitedAtClose'
<1> USE DEF IInv, AwaitedAtClose, Admissible, ClosingStates
<1>1. CASE UNCHANGED <<service, awaited, opening>>
  BY <1>1
<1>2. ASSUME NEW s \in Streams, OpeningStep(s)
      PROVE  AwaitedAtClose'
  <2>1. UNCHANGED <<service, awaited>> /\ \A t \in Streams : t # s => opening'[t] = opening[t]
    BY <1>2 DEF OpeningStep, Subscribe, Enter, Bind, Reenter, RefuseOpening, MoveOpening,
                serviceVars, TypeOK
  <2>2. opening'[s] \in Admissible => opening[s] \in Admissible \/ service = "open"
    BY <1>2 DEF OpeningStep, Subscribe, Enter, Bind, Reenter, RefuseOpening, MoveOpening,
                TypeOK, Aborted
  <2> QED
    BY <2>1, <2>2
<1>3. ASSUME NEW s \in Streams, Open(s)
      PROVE  AwaitedAtClose'
  BY <1>3 DEF Open, MoveOpening, serviceVars, TypeOK
<1>4. ASSUME NEW s \in Streams, Cancel(s) \/ CallReturn(s) \/ SourceReturns(s) \/ Release(s)
      PROVE  AwaitedAtClose'
  BY <1>1, <1>4 DEF Cancel, CallReturn, SourceReturns, Release, serviceVars
<1>5. CASE StartClose
  BY <1>5 DEF StartClose
<1>6. CASE ReturnAll
  BY <1>6 DEF ReturnAll
<1>7. CASE EndClose
  BY <1>7 DEF EndClose
<1>8. CASE AuthorityChanges \/ UNCHANGED vars
  BY <1>1, <1>8 DEF AuthorityChanges, vars, serviceVars
<1> QED
  BY StepKinds, CallsOnly, <1>1, <1>2, <1>3, <1>4, <1>5, <1>6, <1>7, <1>8

\* Close() of open iterators releases nothing.
LEMMA CloseRegistered ==
  ASSUME TypeOK, RegisteredUntilReleased, NEW ended, Close(ended),
         \A s \in Streams : s \in ended => Opened(s),
         UNCHANGED <<subscriptions, opening>>
  PROVE  RegisteredUntilReleased'
BY DEF RegisteredUntilReleased, TypeOK, Close, Closed, Opened

LEMMA RegisteredStep ==
  ASSUME IInv, [Next]_vars
  PROVE  RegisteredUntilReleased'
<1> USE DEF IInv
<1>1. CASE UNCHANGED <<subscriptions, opening, cleanup>>
  BY <1>1 DEF RegisteredUntilReleased, Opened
<1>2. ASSUME NEW s \in Streams, OpeningStep(s)
      PROVE  RegisteredUntilReleased'
  <2>1. UNCHANGED <<subscriptions, cleanup>> /\ ~Opened(s) /\ opening'[s] # "opened"
    BY <1>2 DEF OpeningStep, Subscribe, Enter, Bind, Reenter, RefuseOpening, MoveOpening,
                registry, iterator, Opened, TypeOK
  <2>2. \A t \in Streams : t # s => opening'[t] = opening[t]
    BY <1>2 DEF OpeningStep, Subscribe, Enter, Bind, Reenter, RefuseOpening, MoveOpening, TypeOK
  <2> QED
    BY <2>1, <2>2 DEF RegisteredUntilReleased, Opened
<1>3. ASSUME NEW s \in Streams, Open(s)
      PROVE  RegisteredUntilReleased'
  <2>1. /\ opening' = [opening EXCEPT ![s] = "opened"] /\ subscriptions' = subscriptions \cup {s}
        /\ cleanup[s] = "none" /\ cleanup'[s] \in {"none", "queued"}
        /\ \A t \in Streams : t # s => cleanup'[t] = cleanup[t]
    BY <1>3 DEF Open, MoveOpening, Close, Closed, RegisteredUntilReleased, Opened, TypeOK
  <2> QED
    BY <2>1 DEF RegisteredUntilReleased, Opened, TypeOK
<1>4. ASSUME NEW s \in Streams, Cancel(s)
      PROVE  RegisteredUntilReleased'
  BY <1>4, CloseRegistered DEF Cancel, registry
<1>5. ASSUME NEW s \in Streams, CallReturn(s) \/ SourceReturns(s)
      PROVE  RegisteredUntilReleased'
  BY <1>5 DEF CallReturn, SourceReturns, registry, RegisteredUntilReleased, Opened, TypeOK
<1>6. ASSUME NEW s \in Streams, Release(s)
      PROVE  RegisteredUntilReleased'
  BY <1>6 DEF Release, RegisteredUntilReleased, Opened, TypeOK
<1>7. ASSUME NEW s \in Streams, NEW c \in Callers, EndingStep(s, c)
      PROVE  RegisteredUntilReleased'
  <2>1. Opened(s) /\ Close({s})
    BY <1>7 DEF EndingStep, EndPull, Return, Throw, CallsAreOnOpened
  <2> QED
    BY <2>1, <1>7, CallsOnly, CloseRegistered
<1>8. ASSUME NEW s \in Streams, NEW c \in Everyone,
             \/ /\ c \in Callers
                /\ \/ NextAtOnce(s, c)
                   \/ Pull(s, c)
                   \/ PullStep(s, c)
                   \/ Deliver(s, c)
             \/ Settle(s, c)
      PROVE  RegisteredUntilReleased'
  BY <1>1, <1>8, CallsOnly
     DEF NextAtOnce, Pull, PullStep, SourceAnswers, Check, Validate, Recheck, ProjectFails,
         Deliver, Settle
<1>9. CASE StartClose
  BY <1>9, CloseRegistered DEF StartClose, registry
<1>10. CASE ReturnAll
  <2>1. \A s \in Streams : s \in owned' => Opened(s)
    BY <1>10 DEF ReturnAll, CallsAreOnOpened, RegisteredUntilReleased
  <2> QED
    BY <1>10, <2>1, CloseRegistered DEF ReturnAll, registry
<1>11. CASE EndClose \/ AuthorityChanges \/ UNCHANGED vars
  BY <1>1, <1>11 DEF EndClose, AuthorityChanges, vars, registry, iterator
<1> QED
  BY StepKinds, <1>2, <1>3, <1>4, <1>5, <1>6, <1>7, <1>8, <1>9, <1>10, <1>11

\* What is opened stays so.
LEMMA OpenedStays ==
  ASSUME IInv, [Next]_vars, NEW s \in Streams, Opened(s)
  PROVE  Opened(s)'
<1>1. ASSUME NEW t \in Streams, OpeningStep(t) \/ Open(t)
      PROVE  Opened(s)'
  BY <1>1 DEF OpeningStep, Subscribe, Enter, Bind, Reenter, RefuseOpening, Open, MoveOpening,
              Opened, IInv, TypeOK
<1>2. ASSUME NEW t \in Streams, Cancel(t) \/ CallReturn(t) \/ SourceReturns(t) \/ Release(t)
      PROVE  Opened(s)'
  BY <1>2 DEF Cancel, CallReturn, SourceReturns, Release, Opened
<1>3. CASE StartClose \/ ReturnAll \/ EndClose \/ AuthorityChanges \/ UNCHANGED vars
  BY <1>3 DEF StartClose, ReturnAll, EndClose, AuthorityChanges, vars, Opened
<1> QED
  BY StepKinds, CallsOnly, <1>1, <1>2, <1>3 DEF Opened

LEMMA OnOpenedStep ==
  ASSUME IInv, [Next]_vars
  PROVE  CallsAreOnOpened'
<1> USE DEF IInv, CallsAreOnOpened
<1>1. CASE UNCHANGED <<at, owned>>
  <2>1. \A s \in owned : s \in Streams
    BY DEF TypeOK
  <2> QED
    BY <1>1, <2>1, OpenedStays
<1>2. ASSUME NEW s \in Streams, NEW c \in Everyone,
             \/ /\ c \in Callers
                /\ \/ NextAtOnce(s, c)
                   \/ Pull(s, c)
                   \/ PullStep(s, c)
                   \/ Deliver(s, c)
                   \/ EndingStep(s, c)
             \/ Settle(s, c)
      PROVE  CallsAreOnOpened'
  <2>1. Opened(s)
    BY <1>2 DEF NextAtOnce, Pull, PullStep, SourceAnswers, Check, Validate, Recheck,
                ProjectFails, Deliver, EndingStep, EndPull, Return, Throw, Settle
  <2>2. \A t \in Streams, d \in Everyone : at'[t][d] # "idle" => at[t][d] # "idle" \/ t = s
    BY <1>2, CallsOnly, MoveOne
  <2> QED
    BY <1>2, <2>1, <2>2, CallsOnly, OpenedStays DEF TypeOK
<1>3. CASE StartClose
  <2>1. UNCHANGED at /\ \A s \in owned' : s \in Streams /\ Opened(s)
    BY <1>3 DEF StartClose, RegisteredUntilReleased, TypeOK
  <2> QED
    BY <2>1, OpenedStays
<1>4. CASE ReturnAll
  <2>1. \A s \in owned' : s \in Streams /\ Opened(s)
    BY <1>4 DEF ReturnAll, RegisteredUntilReleased, TypeOK
  <2>2. \A s \in Streams, c \in Everyone : at'[s][c] # "idle" => at[s][c] # "idle" \/ s \in owned'
    BY <1>4 DEF ReturnAll, TypeOK
  <2> QED
    BY <2>1, <2>2, OpenedStays
<1>5. CASE EndClose \/ AuthorityChanges \/ UNCHANGED vars
  BY <1>1, <1>5 DEF EndClose, AuthorityChanges, vars, serviceVars, iterator
<1> QED
  BY StepKinds, CallsUntouched, <1>1, <1>2, <1>3, <1>4, <1>5

LEMMA ServiceStep ==
  ASSUME IInv, [Next]_vars
  PROVE  ServiceCallsWait'
<1> USE CallersAssumption DEF IInv
<1>1. \A s \in Streams : cleanup[s] = "released" => cleanup'[s] = "released"
  BY CleanupStep
<1>2. ASSUME UNCHANGED <<service, owned>>, subscriptions' \subseteq subscriptions,
             \A s \in Streams : \/ at'[s][Service] = at[s][Service]
                               \/ cleanup[s] = "released"
      PROVE  ServiceCallsWait'
  BY <1>1, <1>2 DEF ServiceCallsWait, ClosingStates, TypeOK
<1>3. ASSUME NEW s \in Streams, OpeningStep(s) \/ Cancel(s) \/ CallReturn(s) \/ SourceReturns(s)
      PROVE  ServiceCallsWait'
  <2>1. UNCHANGED <<service, owned, subscriptions, at>>
    BY <1>3 DEF OpeningStep, Subscribe, Enter, Bind, Reenter, RefuseOpening, Cancel, CallReturn,
                SourceReturns, serviceVars, registry, iterator
  <2> QED
    BY <1>2, <2>1
<1>4. ASSUME NEW s \in Streams, Open(s)
      PROVE  ServiceCallsWait'
  <2>1. service \notin ClosingStates
    BY <1>4 DEF Open, AwaitedAtClose, Admissible
  <2>2. UNCHANGED <<service, at>>
    BY <1>4 DEF Open, serviceVars
  <2> QED
    BY <1>1, <2>1, <2>2 DEF ServiceCallsWait, ClosingStates
<1>5. ASSUME NEW s \in Streams, Release(s)
      PROVE  ServiceCallsWait'
  BY <1>2, <1>5 DEF Release, serviceVars
<1>6. ASSUME NEW s \in Streams, NEW c \in Callers,
             NextAtOnce(s, c) \/ Pull(s, c) \/ PullStep(s, c) \/ Deliver(s, c) \/ EndingStep(s, c)
      PROVE  ServiceCallsWait'
  BY <1>2, <1>6, CallsOnly, MoveOne
<1>7. ASSUME NEW s \in Streams, NEW c \in Everyone, Settle(s, c)
      PROVE  ServiceCallsWait'
  <2>1. cleanup[s] = "released"
    BY <1>7 DEF Settle
  <2> QED
    BY <1>2, <1>7, <2>1, CallsOnly, MoveOne
<1>8. CASE StartClose
  BY <1>1, <1>8 DEF StartClose, ServiceCallsWait, ClosingStates
<1>9. CASE ReturnAll
  <2>1. service' = "draining" /\ subscriptions' \subseteq owned'
    BY <1>9 DEF ReturnAll, registry
  <2>2. \A s \in Streams : at'[s][Service] \in {"done", "error"} =>
                            at'[s][Service] = at[s][Service]
    BY <1>9 DEF ReturnAll, TypeOK
  <2> QED
    BY <1>1, <2>1, <2>2 DEF ServiceCallsWait, ClosingStates
<1>10. CASE EndClose
  BY <1>1, <1>10 DEF EndClose, ServiceCallsWait, ClosingStates, registry, iterator, TypeOK
<1>11. CASE AuthorityChanges \/ UNCHANGED vars
  BY <1>2, <1>11 DEF AuthorityChanges, vars, serviceVars, registry, iterator
<1> QED
  BY StepKinds, <1>3, <1>4, <1>5, <1>6, <1>7, <1>8, <1>9, <1>10, <1>11

\* Once the service is closed every subscription ever opened is released.
LEMMA NothingLeft ==
  ASSUME IInv
  PROVE  CloseLeavesNothing
<1> SUFFICES ASSUME service \in {"closed", "failed"}
             PROVE  /\ subscriptions = {}
                    /\ \A s \in Streams :
                         /\ opening[s] \in {"none", "failing", "refused", "opened"}
                         /\ Opened(s) => cleanup[s] = "released"
  BY DEF CloseLeavesNothing
<1>1. subscriptions = {}
  BY DEF IInv, TypeOK, ServiceCallsWait, ClosingStates, RegisteredUntilReleased
<1>2. ASSUME NEW s \in Streams
      PROVE  opening[s] \in {"none", "failing", "refused", "opened"}
  BY DEF IInv, TypeOK, AwaitedAtClose, Admissible, ClosingStates
<1>3. ASSUME NEW s \in Streams, Opened(s)
      PROVE  cleanup[s] = "released"
  BY <1>1, <1>3 DEF IInv, RegisteredUntilReleased
<1> QED
  BY <1>1, <1>2, <1>3

LEMMA FailuresStep ==
  ASSUME IInv, [Next]_vars
  PROVE  FailuresRemembered'
<1> USE DEF IInv
<1>1. \A s \in Streams : cleanup[s] = "released" => cleanup'[s] = "released"
  BY CleanupStep
<1>2. ASSUME NEW s \in Streams, cleanup[s] \in {"returning", "draining"}
      PROVE  service # "closed"
  BY <1>2, NothingLeft DEF CloseLeavesNothing, RegisteredUntilReleased
<1>3. ASSUME UNCHANGED <<cleanupError, cleanupFailure>>, service' = "closed" => service = "closed",
             UNCHANGED cleanup \/ \E ended : Close(ended)
      PROVE  FailuresRemembered'
  BY <1>3 DEF FailuresRemembered, TypeOK, Close, Closed
<1>4. ASSUME NEW s \in Streams, OpeningStep(s) \/ Open(s) \/ Cancel(s)
      PROVE  FailuresRemembered'
  BY <1>3, <1>4 DEF OpeningStep, Subscribe, Enter, Bind, Reenter, RefuseOpening, Open, Cancel,
                    serviceVars, registry, iterator
<1>5. ASSUME NEW s \in Streams, CallReturn(s)
      PROVE  FailuresRemembered'
  BY <1>5 DEF CallReturn, FailuresRemembered, serviceVars, registry, TypeOK
<1>6. ASSUME NEW s \in Streams, SourceReturns(s)
      PROVE  FailuresRemembered'
  BY <1>2, <1>6 DEF SourceReturns, FailuresRemembered, serviceVars, registry, TypeOK
<1>7. ASSUME NEW s \in Streams, Release(s)
      PROVE  FailuresRemembered'
  BY <1>2, <1>7 DEF Release, FailuresRemembered, serviceVars, TypeOK
<1>8. ASSUME NEW s \in Streams, NEW c \in Everyone,
             \/ /\ c \in Callers
                /\ \/ NextAtOnce(s, c)
                   \/ Pull(s, c)
                   \/ PullStep(s, c)
                   \/ Deliver(s, c)
                   \/ EndingStep(s, c)
             \/ Settle(s, c)
      PROVE  FailuresRemembered'
  <2>1. UNCHANGED cleanup \/ \E ended : Close(ended)
    BY <1>8 DEF NextAtOnce, Pull, PullStep, SourceAnswers, Check, Validate, Recheck,
                ProjectFails, Deliver, EndingStep, EndPull, Return, Throw, Settle
  <2> QED
    BY <1>3, <1>8, <2>1, CallsOnly
<1>9. CASE StartClose \/ ReturnAll
  BY <1>3, <1>9 DEF StartClose, ReturnAll, registry
<1>10. CASE EndClose
  BY <1>10 DEF EndClose, FailuresRemembered, registry, iterator
<1>11. CASE AuthorityChanges \/ UNCHANGED vars
  BY <1>3, <1>11 DEF AuthorityChanges, vars, serviceVars, registry, iterator
<1> QED
  BY StepKinds, <1>4, <1>5, <1>6, <1>7, <1>8, <1>9, <1>10, <1>11

\* A service that closed well had no cleanup that failed.
LEMMA NoneForgotten ==
  ASSUME IInv
  PROVE  NoCleanupFailureForgotten
<1>1. \A s \in Streams : service = "closed" /\ cleanupError[s] => cleanup[s] = "released"
  BY NothingLeft DEF CloseLeavesNothing, IInv, FailuresRemembered, RegisteredUntilReleased
<1> QED
  BY <1>1 DEF NoCleanupFailureForgotten, IInv, FailuresRemembered

-----------------------------------------------------------------------------
(* What is disclosed.                                                      *)

\* An item that was asked about since its validation is vouched for, and one that
\* will be is as soon as the authority says yes.
VouchedBeforeReady ==
  \A s \in Streams, c \in Callers :
    /\ at[s][c] = "ready" => vouched[s]
    /\ at[s][c] = "recheck" /\ current => vouched[s]

LEMMA VouchedStep ==
  ASSUME IInv, VouchedBeforeReady, [Next]_vars
  PROVE  VouchedBeforeReady'
<1> USE CallersAssumption DEF VouchedBeforeReady
<1>0. TypeOK /\ PullerIsDrained
  BY DEF IInv
<1>1. CASE UNCHANGED <<at, current, vouched>>
  BY <1>1
<1>2. ASSUME NEW s \in Streams,
             OpeningStep(s) \/ Open(s) \/ Cancel(s) \/ CallReturn(s) \/ SourceReturns(s) \/ Release(s)
      PROVE  UNCHANGED <<at, current, vouched>>
  BY <1>2 DEF OpeningStep, Subscribe, Enter, Bind, Reenter, RefuseOpening, Open, Cancel, CallReturn,
              SourceReturns, Release, iterator
<1>3. ASSUME NEW s \in Streams, NEW c \in Everyone,
             \/ /\ c \in Callers
                /\ \/ NextAtOnce(s, c)
                   \/ Pull(s, c)
                   \/ SourceAnswers(s, c)
                   \/ Check(s, c)
                   \/ ProjectFails(s, c)
                   \/ Deliver(s, c)
                   \/ EndingStep(s, c)
             \/ Settle(s, c)
      PROVE  VouchedBeforeReady'
  <2>1. PICK label \in (Working \ {"recheck", "ready"}) \cup Ending \cup Free : Move(s, c, label)
    BY <1>3 DEF NextAtOnce, Pull, SourceAnswers, Check, ProjectFails, Deliver, EndingStep, EndPull,
                Return, Throw, Settle
  <2>2. UNCHANGED <<current, vouched>>
    BY <1>3 DEF NextAtOnce, Pull, SourceAnswers, Check, ProjectFails, Deliver, EndingStep, EndPull,
                Return, Throw, Settle
  <2> QED
    BY <1>0, <2>1, <2>2, MoveOne
<1>4. ASSUME NEW s \in Streams, NEW c \in Callers, Validate(s, c)
      PROVE  VouchedBeforeReady'
  <2>1. PICK label \in {"broken", "recheck"} : Move(s, c, label)
    BY <1>4 DEF Validate
  <2>2. \A d \in Callers : d # c => at[s][d] \notin Working
    BY <1>0, <1>4 DEF Validate, PullerIsDrained
  <2>3. /\ current' = current /\ vouched'[s] = current
        /\ \A t \in Streams : t # s => vouched'[t] = vouched[t]
    BY <1>0, <1>4 DEF Validate, TypeOK
  <2> QED
    BY <1>0, <2>1, <2>2, <2>3, MoveOne
<1>5. ASSUME NEW s \in Streams, NEW c \in Callers, Recheck(s, c)
      PROVE  VouchedBeforeReady'
  <2>1. PICK label \in {"broken", "ready"} :
          Move(s, c, label) /\ (label = "ready" => current)
    BY <1>5 DEF Recheck
  <2>2. UNCHANGED <<current, vouched>> /\ at[s][c] = "recheck"
    BY <1>5 DEF Recheck
  <2> QED
    BY <1>0, <2>1, <2>2, MoveOne
<1>6. CASE ReturnAll
  <2>1. \A s \in Streams, c \in Callers : at'[s][c] = at[s][c]
    BY <1>0, <1>6 DEF ReturnAll, TypeOK
  <2> QED
    BY <1>6, <2>1 DEF ReturnAll
<1>7. CASE AuthorityChanges
  BY <1>0, <1>7 DEF AuthorityChanges, TypeOK
<1>8. CASE StartClose \/ EndClose \/ UNCHANGED vars
  BY <1>1, <1>8 DEF StartClose, EndClose, vars, iterator
<1> QED
  BY StepKinds, <1>1, <1>2, <1>3, <1>4, <1>5, <1>6, <1>7, <1>8 DEF PullStep

\* An answer is given in the step after the authority was asked about it.
LEMMA ValueWasReady ==
  ASSUME IInv, [Next]_vars, NEW s \in Streams, NEW c \in Callers,
         at[s][c] # "value", at'[s][c] = "value"
  PROVE  at[s][c] = "ready"
<1> USE CallersAssumption DEF IInv
<1>1. at[s] # at'[s]
  OBVIOUS
<1>2. ASSUME NEW t \in Streams, NEW d \in Everyone,
             \/ /\ d \in Callers
                /\ \/ NextAtOnce(t, d)
                   \/ Pull(t, d)
                   \/ PullStep(t, d)
                   \/ EndingStep(t, d)
             \/ Settle(t, d)
      PROVE  FALSE
  <2>1. PICK label \in (Working \cup Ending \cup Free) \ {"value"} : Move(t, d, label)
    BY <1>2 DEF NextAtOnce, Pull, PullStep, SourceAnswers, Check, Validate, Recheck, ProjectFails,
                EndingStep, EndPull, Return, Throw, Settle
  <2> QED
    BY <2>1, MoveOne
<1>3. ASSUME NEW t \in Streams, NEW d \in Callers, Deliver(t, d)
      PROVE  at[s][c] = "ready"
  <2>1. Move(t, d, "value") /\ at[t][d] = "ready"
    BY <1>3 DEF Deliver
  <2> QED
    BY <2>1, MoveOne
<1>4. ~ReturnAll
  BY DEF ReturnAll, TypeOK
<1>5. ~(StartClose \/ EndClose \/ AuthorityChanges \/ UNCHANGED vars)
  BY <1>1 DEF StartClose, EndClose, AuthorityChanges, vars, iterator
<1> QED
  BY StepKinds, CallsUntouched, <1>1, <1>2, <1>3, <1>4, <1>5

-----------------------------------------------------------------------------
\* The strengthening is inductive.
THEOREM Inductive == Spec => []IInv
<1>1. IInv /\ [Next]_vars => IInv'
  BY TypeStep, WorkStep, OwnedStep, AwaitedStep, RegisteredStep, OnOpenedStep, ServiceStep,
     FailuresStep DEF IInv
<1> QED
  BY Initially, <1>1, PTL DEF Spec

\* Every variable of the subscriptions keeps its type.
THEOREM TypeCorrect == Spec => []TypeOK
<1>1. IInv => TypeOK
  BY DEF IInv
<1> QED
  BY <1>1, Inductive, PTL

\* However many callers pull, return, throw and cancel, a subscription is
\* released only after its producer returned and its last pull was settled.
THEOREM ReleaseIsDrained == Spec => []OwnedThroughWork
<1>1. IInv => OwnedThroughWork
  BY DEF IInv
<1> QED
  BY <1>1, Inductive, PTL

\* However openings, cancellations and calls interleave with it, a close() of
\* the service that settled has left no subscription and no opening behind.
THEOREM CloseIsComplete == Spec => []CloseLeavesNothing
BY NothingLeft, Inductive, PTL

\* A close() of the service that succeeded has hidden no failed cleanup.
THEOREM CloseTellsFailures == Spec => []NoCleanupFailureForgotten
BY NoneForgotten, Inductive, PTL

\* Whoever pulls, and however the authority comes and goes during an asynchronous
\* validation: no item is handed out that it has not been asked about since.
THEOREM DisclosureIsFresh == Spec => FreshAtDisclosure
<1>1. Init => VouchedBeforeReady
  BY DEF Init, VouchedBeforeReady
<1>2. IInv /\ VouchedBeforeReady /\ [Next]_vars => VouchedBeforeReady'
  BY VouchedStep
<1>3. IInv /\ VouchedBeforeReady /\ [Next]_vars =>
        [\A s \in Streams, c \in Callers :
           at[s][c] # "value" /\ at'[s][c] = "value" => vouched[s]]_vars
  BY ValueWasReady DEF VouchedBeforeReady
<1> QED
  BY Inductive, <1>1, <1>2, <1>3, PTL DEF Spec, FreshAtDisclosure

HIDE DEF Everyone, Openings, Working, Ending, Free

-----------------------------------------------------------------------------
(* The other requests. A handler is a sequence of steps, so what is proved *)
(* of a request rests on the shape of all the sequences: where the scope   *)
(* of one ends, and which questions it closes with.                        *)

\* What a step of a handler may be.
Doing == {"await", "limit", "effect", "query", "sample", "sameSample", "visible",
          "begin", "register", "finish"}
HandlerSteps ==
  [do : {"enforce"}, q : Questions] \cup [do : {"can"}, q : Questions, over : Nat]
    \cup [do : Doing]

\* A piece of a handler asks what there is to ask, skips no further than its end,
\* and does none of the things in D.
Piece(s, D) ==
  /\ s \in Seq(HandlerSteps)
  /\ \A i \in DOMAIN s : s[i].do = "can" => i + s[i].over <= Len(s)
  /\ \A i \in DOMAIN s : s[i].do \notin D

\* Two pieces in a row are one.
LEMMA PieceConcat ==
  ASSUME NEW a, NEW b, NEW D, Piece(a, D), Piece(b, D)
  PROVE  Piece(a \o b, D)
<1>1. /\ a \o b \in Seq(HandlerSteps) /\ Len(a \o b) = Len(a) + Len(b)
      /\ a \in Seq(HandlerSteps) /\ b \in Seq(HandlerSteps)
  BY DEF Piece
<1>2. ASSUME NEW i \in DOMAIN (a \o b)
      PROVE  /\ (a \o b)[i].do = "can" => i + (a \o b)[i].over <= Len(a \o b)
             /\ (a \o b)[i].do \notin D
  <2>1. CASE i \in 1..Len(a)
    <3>1. (a \o b)[i] = a[i] /\ i \in DOMAIN a /\ a[i] \in HandlerSteps
      BY <2>1, <1>1
    <3>2. a[i].do = "can" => a[i].over \in Nat
      BY <3>1 DEF HandlerSteps, Doing
    <3> QED BY <3>1, <3>2, <2>1, <1>1 DEF Piece
  <2>2. CASE i \in (Len(a) + 1)..(Len(a) + Len(b))
    <3> DEFINE j == i - Len(a)
    <3>1. (a \o b)[i] = b[j] /\ j \in DOMAIN b /\ b[j] \in HandlerSteps
      BY <2>2, <1>1
    <3>2. b[j].do = "can" => b[j].over \in Nat
      BY <3>1 DEF HandlerSteps, Doing
    <3> QED BY <3>1, <3>2, <2>2, <1>1 DEF Piece
  <2> QED BY <1>1, <1>2, <2>1, <2>2
<1> QED BY <1>1, <1>2 DEF Piece

\* One step is a piece.
LEMMA PieceOne ==
  ASSUME NEW x \in HandlerSteps, NEW D, x.do # "can", x.do \notin D
  PROVE  Piece(<<x>>, D)
  BY DEF Piece

\* What handlers are built from, one step at a time.
LEMMA Pieces ==
  ASSUME NEW D \in SUBSET Doing
  PROVE  /\ \A q \in Questions : Piece(Enforce(q), D)
         /\ "await" \notin D => Piece(Await, D)
         /\ "effect" \notin D => Piece(Effect, D)
         /\ "query" \notin D => Piece(Query, D)
         /\ "sample" \notin D => Piece(Sample, D)
         /\ "sameSample" \notin D => Piece(SameSample, D)
         /\ "begin" \notin D => Piece(BeginScope, D)
         /\ "register" \notin D => Piece(Register, D)
         /\ "limit" \notin D => Piece(<<[do |-> "limit"]>>, D)
         /\ "visible" \notin D => Piece(<<[do |-> "visible"]>>, D)
         /\ "finish" \notin D => Piece(<<[do |-> "finish"]>>, D)
         /\ Piece(<<>>, D)
<1>1. \A w \in Doing \ D : Piece(<<[do |-> w]>>, D)
  BY PieceOne DEF HandlerSteps, Doing
<1>2. \A q \in Questions : Piece(<<[do |-> "enforce", q |-> q]>>, D)
  BY PieceOne DEF HandlerSteps, Doing
<1>3. Piece(<<>>, D)
  BY DEF Piece
<1> QED BY <1>1, <1>2, <1>3
        DEF Enforce, Await, Effect, Query, Sample, SameSample, BeginScope, Register, Doing

\* What is asked only when a question was granted is skipped as a whole.
LEMMA PieceCan ==
  ASSUME NEW q \in Questions, NEW D \in SUBSET Doing, NEW s, Piece(s, D)
  PROVE  Piece(Can(q, s), D)
<1> DEFINE c == [do |-> "can", q |-> q, over |-> Len(s)]
           t == <<c>> \o s
<1>1. s \in Seq(HandlerSteps) /\ c \in HandlerSteps /\ Len(s) \in Nat
  BY DEF Piece, HandlerSteps
<1>2. Len(t) = Len(s) + 1 /\ t \in Seq(HandlerSteps)
  BY <1>1
<1>3. ASSUME NEW i \in DOMAIN t
      PROVE  t[i].do \notin D /\ (t[i].do = "can" => i + t[i].over <= Len(s) + 1)
  <2>1. CASE i = 1
    BY <2>1, <1>1 DEF Doing
  <2>2. CASE i \in 2..(Len(s) + 1)
    <3>1. t[i] = s[i - 1] /\ i - 1 \in DOMAIN s /\ s[i - 1] \in HandlerSteps
      BY <2>2, <1>1
    <3>2. s[i - 1].do = "can" => s[i - 1].over \in Nat
      BY <3>1 DEF HandlerSteps, Doing
    <3> QED BY <3>1, <3>2, <2>2, <1>1 DEF Piece
  <2> QED BY <1>3, <1>2, <1>1, <2>1, <2>2
<1> QED BY <1>2, <1>3 DEF Can, Piece

-----------------------------------------------------------------------------
\* The steps that touch a scope; those that end one, or may skip what follows; those that call a
\* provider for the caller, or ask only what is shown.
OfScopes == {"begin", "register", "finish"}
Exits == {"register", "finish", "visible"}
Writing == {"effect", "query", "visible"}

\* The pieces that touch no scope, leave nothing early, and write nothing.
LEMMA Atoms ==
  ASSUME NEW D \in {OfScopes, Exits, Writing}
  PROVE  /\ Piece(Enforce("same"), D) /\ Piece(Enforce("session"), D)
         /\ Piece(Enforce("administrator"), D) /\ Piece(Enforce("admin"), D)
         /\ Piece(Enforce("list"), D) /\ Piece(Enforce("invoke"), D) /\ Piece(Enforce("write"), D)
         /\ Piece(Enforce("job"), D) /\ Piece(Enforce("configure"), D)
         /\ Piece(Can("job", <<>>), D) /\ Piece(Can("configure", <<>>), D)
         /\ Piece(Can("credential", <<>>), D) /\ Piece(Can("list", <<>>), D)
         /\ Piece(Await, D) /\ Piece(<<[do |-> "limit"]>>, D)
         /\ Piece(Sample, D) /\ Piece(SameSample, D) /\ Piece(<<>>, D)
         /\ \A s : Piece(s, D) => /\ Piece(Can("list", s), D) /\ Piece(Can("write", s), D)
                                 /\ Piece(Can("invoke", s), D) /\ Piece(Can("session", s), D)
<1>1. /\ D \in SUBSET Doing
      /\ D \cap {"await", "limit", "sample", "sameSample"} = {}
  BY DEF OfScopes, Exits, Writing, Doing
<1>2. \A q \in Questions : Piece(Enforce(q), D)
  BY <1>1, Pieces
<1>3. \A q \in Questions : \A s : Piece(s, D) => Piece(Can(q, s), D)
  BY <1>1, PieceCan
<1>4. /\ Piece(Await, D) /\ Piece(<<[do |-> "limit"]>>, D)
      /\ Piece(Sample, D) /\ Piece(SameSample, D) /\ Piece(<<>>, D)
  BY <1>1, Pieces
<1> QED BY <1>2, <1>3, <1>4 DEF Questions

\* What surrounds an operation: bindInvocation between two listings.
LEMMA InvocationPiece ==
  ASSUME NEW D \in {OfScopes, Exits, Writing}, NEW m \in BOOLEAN, NEW kind
  PROVE  /\ Piece(AuthorizeInvocation(m), D) /\ Piece(LimitsBinding(BindingOf(kind)), D)
         /\ Piece(Enforce("list") \o BindInvocation(m, BindingOf(kind)) \o Enforce("list"), D)
<1>1. Piece(AuthorizeInvocation(m), D)
  BY Atoms, PieceConcat DEF AuthorizeInvocation
<1>2. Piece(BindingOf(kind), D)
  <2>1. Piece(SchedulerBinding, D)
    BY Atoms, PieceConcat DEF SchedulerBinding
  <2> QED BY <2>1, Atoms DEF BindingOf
<1>3. Piece(LimitsBinding(BindingOf(kind)), D)
  BY <1>2, Atoms, PieceConcat DEF LimitsBinding
<1>4. Piece(BindInvocation(m, BindingOf(kind)), D)
  BY <1>1, <1>3, PieceConcat DEF BindInvocation
<1> QED BY <1>1, <1>3, <1>4, Atoms, PieceConcat

-----------------------------------------------------------------------------
\* The operations that answer with what they read, or call a provider: what each asks after the
\* last thing it awaited before.
Answering == Reads \cup Writes \cup {"inspect", "preference", "default", "credential", "prepared"}
Closing(kind, scoped) ==
  CASE kind = "tasks.list" -> Enforce("invoke")
    [] kind \in {"keys.read", "inspection"} -> Enforce("invoke") \o Query
    [] kind = "prepared" -> Enforce("list") \o Enforce("invoke") \o Query
    [] kind = "schedule" ->
         Enforce("invoke") \o Enforce("write") \o Enforce("list") \o Effect
    [] kind = "tasks.get" -> Enforce("job") \o Enforce("invoke")
    [] kind = "tasks.retry" -> Enforce("invoke") \o Enforce("job") \o Effect
    [] kind = "tasks.cancel" -> Enforce("job") \o Enforce("invoke") \o Effect
    [] kind = "keys.revoke" -> Enforce("invoke") \o Enforce("write") \o Effect
    [] kind = "credential" -> Enforce("invoke") \o Effect
    [] kind = "greet" \/ (kind = "status" /\ ~scoped) -> EnforceRuntime
    [] kind = "status" /\ scoped ->
         Enforce("invoke") \o Enforce("administrator") \o <<[do |-> "finish"]>>
    [] kind = "inspect" -> CheckCurrent \o <<[do |-> "visible"]>> \o Enforce("list")
    [] kind = "preference" -> Enforce("same") \o Effect
    [] kind = "default" -> Enforce("same") \o Enforce("configure") \o Effect

\* What follows: the provider's answer is awaited, and a locale write answers with a snapshot.
Calling == Writes \cup {"keys.read", "inspection", "credential", "prepared"}
Remaining(kind) ==
  IF kind \in {"preference", "default"} THEN Await \o Snapshot
  ELSE IF kind \in Calling THEN Await ELSE <<>>

\* A front, the closing questions, and what is left to answer with.
Closes(s, t, b) ==
  /\ t \in Seq(HandlerSteps) /\ Piece(b, Writing)
  /\ \E a : Piece(a, Writing) /\ s = a \o t \o b

\* Handlers are sequences, whose grouping does not matter.
LEMMA Regroup ==
  ASSUME NEW a \in Seq(HandlerSteps), NEW b \in Seq(HandlerSteps), NEW c \in Seq(HandlerSteps)
  PROVE  /\ a \o (b \o c) = a \o b \o c
         /\ a \o b \in Seq(HandlerSteps)
  BY ConcatAssociative, ConcatProperties

\* A front, one to three closing steps, and what is left.
LEMMA ClosesBefore ==
  ASSUME NEW a, NEW b, Piece(a, Writing), Piece(b, Writing),
         NEW x \in Seq(HandlerSteps), NEW y \in Seq(HandlerSteps), NEW z \in Seq(HandlerSteps)
  PROVE  /\ Closes(a \o x \o b, x, b)
         /\ Closes(a \o x \o y \o b, x \o y, b)
         /\ Closes(a \o x \o y \o z \o b, x \o y \o z, b)
<1>1. \A t \in Seq(HandlerSteps) : Closes(a \o t \o b, t, b)
  BY DEF Closes
<1>2. a \in Seq(HandlerSteps)
  BY DEF Piece
<1>3. x \o y \in Seq(HandlerSteps) /\ a \o (x \o y) = a \o x \o y
  BY <1>2, Regroup
<1>4. x \o y \o z \in Seq(HandlerSteps) /\ a \o (x \o y \o z) = a \o (x \o y) \o z
  <2>1. ASSUME NEW u \in Seq(HandlerSteps)
        PROVE  u \o z \in Seq(HandlerSteps) /\ a \o (u \o z) = a \o u \o z
    <3>1. u \o z \in Seq(HandlerSteps)
      BY Regroup
    <3> QED BY <1>2, <3>1, Regroup, SMTT(40)
  <2> QED BY <1>3, <2>1
<1> QED BY <1>1, <1>3, <1>4

\* The same with nothing left.
LEMMA ClosesAtEnd ==
  ASSUME NEW a, Piece(a, Writing),
         NEW x \in Seq(HandlerSteps), NEW y \in Seq(HandlerSteps), NEW z \in Seq(HandlerSteps)
  PROVE  /\ Closes(a \o x, x, <<>>) /\ Closes(a \o x \o y, x \o y, <<>>)
         /\ Closes(a \o x \o y \o z, x \o y \o z, <<>>)
<1>1. Piece(<<>>, Writing)
  BY Pieces DEF Writing, Doing
<1>2. a \in Seq(HandlerSteps) /\ a \o x \in Seq(HandlerSteps)
  BY Regroup DEF Piece
<1>3. a \o x \o y \in Seq(HandlerSteps)
  BY <1>2, Regroup
<1>4. a \o x \o y \o z \in Seq(HandlerSteps)
  BY <1>3, Regroup
<1>5. \A s \in Seq(HandlerSteps) : s \o <<>> = s
  BY ConcatEmptySeq
<1>6. /\ Closes(a \o x \o <<>>, x, <<>>) /\ Closes(a \o x \o y \o <<>>, x \o y, <<>>)
      /\ Closes(a \o x \o y \o z \o <<>>, x \o y \o z, <<>>)
  BY <1>1, ClosesBefore
<1> QED BY <1>2, <1>3, <1>4, <1>5, <1>6

\* A longer front closes alike.
LEMMA ClosesAfter ==
  ASSUME NEW a, NEW t, NEW b, NEW s, Piece(a, Writing), Closes(s, t, b)
  PROVE  Closes(a \o s, t, b)
<1> PICK f : Piece(f, Writing) /\ s = f \o t \o b
  BY DEF Closes
<1>0. /\ a \in Seq(HandlerSteps) /\ f \in Seq(HandlerSteps)
      /\ t \in Seq(HandlerSteps) /\ b \in Seq(HandlerSteps)
  BY DEF Piece, Closes
<1>1. a \o s = (a \o f) \o t \o b
  <2>1. f \o t \in Seq(HandlerSteps) /\ a \o (f \o t) = a \o f \o t
    BY <1>0, Regroup
  <2>2. \A u \in Seq(HandlerSteps) : a \o (u \o b) = a \o u \o b
    <3> SUFFICES ASSUME NEW u \in Seq(HandlerSteps) PROVE a \o (u \o b) = a \o u \o b
      OBVIOUS
    <3> QED BY <1>0, Regroup, SMTT(40)
  <2> QED BY <2>1, <2>2
<1>2. Piece(a \o f, Writing)
  BY PieceConcat
<1> QED BY <1>1, <1>2 DEF Closes

\* The steps closings are made of are steps of handlers.
LEMMA Elements ==
  /\ Enforce("invoke") \in Seq(HandlerSteps) /\ Enforce("job") \in Seq(HandlerSteps)
  /\ Enforce("write") \in Seq(HandlerSteps) /\ Enforce("list") \in Seq(HandlerSteps)
  /\ Enforce("same") \in Seq(HandlerSteps) /\ Enforce("configure") \in Seq(HandlerSteps)
  /\ Await \in Seq(HandlerSteps)
  /\ Effect \in Seq(HandlerSteps) /\ Query \in Seq(HandlerSteps)
  /\ <<[do |-> "visible"]>> \in Seq(HandlerSteps)
  /\ <<[do |-> "finish"]>> \in Seq(HandlerSteps)
<1>1. {} \in SUBSET Doing
  OBVIOUS
<1> QED BY <1>1, Pieces DEF Piece, Questions

\* Each operation closes as Closing says.
LEMMA OperationCloses ==
  ASSUME NEW kind \in (Reads \cup Writes) \ {"schedule"}, NEW scoped \in BOOLEAN
  PROVE  Closes(OperationOf(kind, scoped), Closing(kind, scoped), Remaining(kind))
<1>0. /\ kind \in Calling => Remaining(kind) = Await
      /\ kind \notin Calling => Remaining(kind) = <<>>
      /\ Piece(Await, Writing)
  BY Atoms DEF Remaining, Reads, Writes
<1> USE DEF Calling, Writes
<1>1. CASE kind = "tasks.list"
  <2>1. Piece(Enforce("invoke") \o Await \o Await \o Can("job", <<>>) \o Await
               \o Can("job", <<>>), Writing)
    BY Atoms, PieceConcat
  <2> QED BY <1>0, <2>1, <1>1, ClosesAtEnd, Elements DEF OperationOf, Closing, TasksList
<1>2. CASE kind = "tasks.get"
  <2>1. Piece(Enforce("invoke") \o Await \o Enforce("job") \o Await, Writing)
    BY Atoms, PieceConcat
  <2> QED BY <1>0, <2>1, <1>2, ClosesAtEnd, Elements DEF OperationOf, Closing, TasksGet
<1>3. CASE kind = "tasks.retry"
  <2>1. Piece(Enforce("invoke") \o Await \o Enforce("job") \o Await, Writing)
    BY Atoms, PieceConcat
  <2> QED BY <1>0, <2>1, <1>3, ClosesBefore, Elements DEF OperationOf, Closing, TasksRetry
<1>4. CASE kind = "tasks.cancel"
  <2>1. Piece(Enforce("invoke") \o Await, Writing)
    BY Atoms, PieceConcat
  <2> QED BY <1>0, <2>1, <1>4, ClosesBefore, Elements DEF OperationOf, Closing, TasksCancel
<1>5. CASE kind \in {"keys.read", "inspection"}
  <2>1. Piece(Enforce("invoke") \o Await, Writing)
    BY Atoms, PieceConcat
  <2> QED BY <1>0, <2>1, <1>5, ClosesBefore, Elements
        DEF OperationOf, Closing, KeysRead, InspectAuthorization
<1>6. CASE kind = "keys.revoke"
  <2>1. Piece(Enforce("invoke") \o Enforce("write") \o Await, Writing)
    BY Atoms, PieceConcat
  <2> QED BY <1>0, <2>1, <1>6, ClosesBefore, Elements DEF OperationOf, Closing, KeysRevoke
<1>7. CASE kind = "greet" \/ (kind = "status" /\ ~scoped)
  <2>1. Piece(EnforceRuntime, Writing)
    BY Atoms, PieceConcat DEF EnforceRuntime
  <2>2. Piece(EnforceRuntime \o Await, Writing)
    BY <2>1, Atoms, PieceConcat
  <2>3. EnforceRuntime \in Seq(HandlerSteps)
    BY <2>1 DEF Piece
  <2> QED BY <1>0, <2>2, <2>3, <1>7, ClosesAtEnd, Elements DEF OperationOf, Closing, Greet, RuntimeRead
<1>8. CASE kind = "status" /\ scoped
  <2> DEFINE check == Enforce("invoke") \o Enforce("administrator")
             a == Enforce("same") \o BeginScope \o check \o Await
  <2>0. Piece(check, Writing) /\ Piece(BeginScope, Writing)
    BY Atoms, PieceConcat, Pieces DEF Writing, Doing
  <2>1. Piece(a, Writing) /\ check \in Seq(HandlerSteps)
    <3> HIDE DEF check
    <3>1. Piece(a, Writing)
      BY <2>0, Atoms, PieceConcat
    <3> QED BY <3>1, <2>0 DEF Piece
  <2>2. Closes(a \o check \o <<[do |-> "finish"]>>, check \o <<[do |-> "finish"]>>, <<>>)
    BY <2>1, ClosesAtEnd, Elements
  <2> QED BY <1>0, <2>2, <1>8 DEF OperationOf, Closing, RuntimeRead
<1>9. kind \in {"tasks.list", "tasks.get", "tasks.retry", "tasks.cancel", "keys.read",
               "inspection", "keys.revoke", "greet", "status"}
  BY DEF Reads, Writes
<1> QED BY <1>1, <1>2, <1>3, <1>4, <1>5, <1>6, <1>7, <1>8, <1>9

\* An invocation is its operation, surrounded.
LEMMA InvocationScript ==
  ASSUME NEW kind \in Reads \cup Writes, NEW scoped \in BOOLEAN
  PROVE  /\ \E m \in BOOLEAN :
              Script(kind, scoped) = Invoke(m, BindingOf(kind), OperationOf(kind, scoped))
         /\ kind = "schedule" =>
              Script(kind, scoped) = Invoke(FALSE, SchedulerBinding, Schedule)
<1>1. kind \notin Metadata \cup Routes \cup {"prepared"}
  BY DEF Reads, Writes, Metadata, Routes
<1>2. kind = "schedule" => OperationOf(kind, scoped) = Schedule /\ BindingOf(kind) = SchedulerBinding
  BY DEF OperationOf, BindingOf
<1>3. CASE kind \in {"tasks.retry", "tasks.get"}
  <2>1. (kind \in {"tasks.retry", "tasks.get"}) = TRUE
    BY <1>3
  <2>2. Script(kind, scoped) = Invoke(TRUE, BindingOf(kind), OperationOf(kind, scoped))
    BY <1>1, <2>1 DEF Script, Mounted, Routes
  <2> QED BY <1>3, <2>2
<1>4. CASE kind \notin {"tasks.retry", "tasks.get"}
  <2>1. (kind \in {"tasks.retry", "tasks.get"}) = FALSE
    BY <1>4
  <2>2. Script(kind, scoped) = Invoke(FALSE, BindingOf(kind), OperationOf(kind, scoped))
    BY <1>1, <2>1 DEF Script, Mounted, Routes
  <2> QED BY <1>2, <2>2
<1> QED BY <1>3, <1>4

\* So does the whole of each request that answers or writes.
LEMMA ScriptCloses ==
  ASSUME NEW kind \in Answering, NEW scoped \in BOOLEAN
  PROVE  Closes(Script(kind, scoped), Closing(kind, scoped), Remaining(kind))
<1>1. CASE kind \in (Reads \cup Writes) \ {"schedule"}
  <2>1. \A m \in BOOLEAN : Closes(Invoke(m, BindingOf(kind), OperationOf(kind, scoped)),
                                Closing(kind, scoped), Remaining(kind))
    BY <1>1, InvocationPiece, OperationCloses, ClosesAfter DEF Invoke
  <2>2. \E m \in BOOLEAN : Script(kind, scoped) = Invoke(m, BindingOf(kind), OperationOf(kind, scoped))
    BY <1>1, InvocationScript
  <2> QED BY <2>1, <2>2
<1>5. CASE kind = "schedule"
  <2> DEFINE l == Enforce("list")
             i == Enforce("invoke")
             w == Enforce("write")
             n == LimitsBinding(SchedulerBinding)
  <2>1. Script(kind, scoped) = l \o (i \o w \o n \o (i \o w)) \o l \o (Effect \o Await)
    <3>1. AuthorizeInvocation(FALSE) = i \o w
      <4>1. i \in Seq(HandlerSteps)
        BY Elements
      <4>2. <<>> \o i = i
        BY <4>1, ConcatEmptySeq
      <4> QED BY <4>2 DEF AuthorizeInvocation
    <3>2. Script(kind, scoped) = Invoke(FALSE, SchedulerBinding, Schedule)
      BY <1>5, InvocationScript DEF Writes
    <3> QED BY <3>1, <3>2 DEF Invoke, BindInvocation, Schedule
  <2>2. Piece(n, Writing)
    <3>1. BindingOf("schedule") = SchedulerBinding
      BY DEF BindingOf
    <3> QED BY <3>1, InvocationPiece
  <2>3. Piece(l, Writing) /\ Piece(i, Writing) /\ Piece(w, Writing) /\ Piece(Await, Writing)
    BY Atoms
  <2>4. Closing(kind, scoped) = i \o w \o l \o Effect /\ Remaining(kind) = Await
    BY <1>5 DEF Closing, Remaining, Calling, Writes
  <2> HIDE DEF l, i, w, n
  <2> DEFINE a == l \o (i \o w \o n)
             t == i \o w \o l \o Effect
  <2>5. Piece(a, Writing)
    BY <2>2, <2>3, PieceConcat
  <2>6. /\ l \in Seq(HandlerSteps) /\ i \in Seq(HandlerSteps) /\ w \in Seq(HandlerSteps)
        /\ n \in Seq(HandlerSteps) /\ Effect \in Seq(HandlerSteps) /\ Await \in Seq(HandlerSteps)
    BY <2>2, <2>3, Elements DEF Piece
  <2>7. i \o w \in Seq(HandlerSteps) /\ i \o w \o n \in Seq(HandlerSteps)
        /\ i \o w \o l \in Seq(HandlerSteps) /\ t \in Seq(HandlerSteps)
        /\ a \in Seq(HandlerSteps)
    <3>1. i \o w \in Seq(HandlerSteps)
      BY <2>6, Regroup
    <3>2. i \o w \o n \in Seq(HandlerSteps) /\ i \o w \o l \in Seq(HandlerSteps)
      BY <2>6, <3>1, Regroup
    <3> QED BY <2>6, <3>1, <3>2, Regroup
  <2>8. l \o (i \o w \o n \o (i \o w)) = a \o (i \o w)
    BY <2>6, <2>7, Regroup, SMTT(40)
  <2>9. a \o (i \o w) \o l \o (Effect \o Await) = a \o t \o Await
    <3> DEFINE v == i \o w
    <3>0. v \in Seq(HandlerSteps) /\ a \in Seq(HandlerSteps) /\ v \o l \in Seq(HandlerSteps)
      BY <2>7
    <3> HIDE DEF v, a
    <3>1. a \o v \o l = a \o (v \o l)
      BY <2>6, <3>0, Regroup, SMTT(40)
    <3>2. a \o (v \o l) \in Seq(HandlerSteps)
      BY <3>0, Regroup
    <3>3. a \o (v \o l) \o (Effect \o Await) = a \o (v \o l) \o Effect \o Await
      BY <2>6, <3>2, Regroup, SMTT(40)
    <3>4. a \o (v \o l) \o Effect = a \o (v \o l \o Effect)
      BY <2>6, <3>0, Regroup, SMTT(40)
    <3> QED BY <3>1, <3>3, <3>4 DEF v
  <2>10. Closes(a \o t \o Await, t, Await)
    BY <2>3, <2>5, <2>7 DEF Closes
  <2> QED BY <2>1, <2>4, <2>8, <2>9, <2>10
<1>6. CASE kind = "prepared"
  <2> DEFINE l == Enforce("list")
             i == Enforce("invoke")
             b == IF scoped THEN BeginScope \o Register ELSE <<>>
  <2>1. Script(kind, scoped) = b \o (l \o (l \o i) \o (Query \o Await))
    BY <1>6 DEF Script, InvokePrepared, CanDispatch, Reads, Writes, Metadata
  <2>2. Piece(l, Writing) /\ Piece(Await, Writing) /\ Piece(b, Writing)
    <3>1. Piece(BeginScope, Writing) /\ Piece(Register, Writing)
      BY Pieces DEF Writing, Doing
    <3> QED BY <3>1, Atoms, PieceConcat
  <2>3. Closing(kind, scoped) = l \o i \o Query /\ Remaining(kind) = Await
    BY <1>6 DEF Closing, Remaining, Calling
  <2>4. l \in Seq(HandlerSteps) /\ i \in Seq(HandlerSteps) /\ Query \in Seq(HandlerSteps)
        /\ Await \in Seq(HandlerSteps) /\ b \in Seq(HandlerSteps)
    BY <2>2, Elements DEF Piece
  <2> HIDE DEF l, i, b
  <2> DEFINE t == l \o i \o Query
  <2>5. l \o i \in Seq(HandlerSteps) /\ t \in Seq(HandlerSteps)
    BY <2>4, Regroup
  <2>6. l \o (l \o i) \o (Query \o Await) = l \o t \o Await
    <3> DEFINE v == l \o i
    <3>0. v \in Seq(HandlerSteps)
      BY <2>5
    <3> HIDE DEF v
    <3>1. l \o v \in Seq(HandlerSteps)
      BY <2>4, <3>0, Regroup
    <3>2. l \o v \o (Query \o Await) = l \o v \o Query \o Await
      BY <2>4, <3>1, Regroup
    <3>3. l \o v \o Query = l \o (v \o Query)
      BY <2>4, <3>0, Regroup, SMTT(40)
    <3> QED BY <3>2, <3>3 DEF v
  <2>7. Closes(l \o t \o Await, t, Await)
    BY <2>2, <2>5 DEF Closes
  <2>8. Closes(b \o (l \o t \o Await), t, Await)
    BY <2>2, <2>7, ClosesAfter
  <2> QED BY <2>1, <2>3, <2>6, <2>8
<1>2. CASE kind = "inspect"
  <2>0. Piece(CheckCurrent, Writing)
    BY Atoms, PieceConcat DEF CheckCurrent
  <2>1. CheckCurrent \in Seq(HandlerSteps)
    BY <2>0 DEF Piece
  <2> DEFINE enforce ==
               Enforce("same") \o Enforce("session") \o Enforce("administrator") \o Enforce("admin")
  <2>2. Piece(enforce, Writing)
    BY Atoms, PieceConcat
  <2>3. Piece(DevInspector, Writing)
    BY <2>2, Atoms, PieceConcat DEF DevInspector
  <2>4. Piece(Can("list", DevInspector), Writing)
    BY <2>3, Atoms
  <2>5. Piece(CheckCurrent \o Can("list", DevInspector), Writing)
    BY <2>0, <2>4, PieceConcat
  <2> QED BY <2>5, <2>1, <1>2, ClosesAtEnd, Elements
        DEF Script, Inspect, Remaining, Calling, Closing, Reads, Writes, Metadata
<1>3. CASE kind = "credential"
  <2>1. Piece(Enforce("invoke") \o Await \o Await, Writing)
    BY Atoms, PieceConcat
  <2>2. Piece(Await, Writing)
    BY Atoms
  <2> QED BY <2>1, <2>2, <1>3, ClosesBefore, Elements
        DEF Script, Credential, Remaining, Calling, Closing, Reads, Writes, Metadata
<1>4. CASE kind \in {"preference", "default"}
  <2>1. Piece(Await \o Snapshot, Writing) /\ Snapshot \in Seq(HandlerSteps)
    <3>1. Piece(Snapshot, Writing)
      BY Atoms, PieceConcat DEF Snapshot
    <3> QED BY <3>1, Atoms, PieceConcat DEF Piece
  <2>2. Piece(Await, Writing)
    BY Atoms
  <2>3. /\ Script("preference", scoped) = WritePreference
        /\ Script("default", scoped) = WriteDefault
    BY DEF Script, Reads, Writes, Metadata
  <2>4. Remaining(kind) = Await \o Snapshot
    BY <1>4 DEF Remaining
  <2>5. CASE kind = "preference"
    <3> DEFINE f == Await \o Enforce("same") \o Effect
    <3>1. Closing(kind, scoped) = Enforce("same") \o Effect
      BY <2>5 DEF Closing
    <3>2. Script(kind, scoped) = f \o Await \o Snapshot
      BY <2>3, <2>5 DEF WritePreference
    <3>3. Closes(f \o (Await \o Snapshot), Enforce("same") \o Effect, Await \o Snapshot)
      BY <2>1, <2>2, ClosesBefore, Elements
    <3>4. f \in Seq(HandlerSteps)
      BY Elements, Regroup
    <3>6. Await \in Seq(HandlerSteps)
      BY Elements
    <3> HIDE DEF f
    <3>5. f \o (Await \o Snapshot) = f \o Await \o Snapshot
      BY <2>1, <3>4, <3>6, Regroup, SMTT(40)
    <3> QED BY <2>4, <3>1, <3>2, <3>3, <3>5
  <2>6. CASE kind = "default"
    <3> DEFINE f == Await \o Enforce("same") \o Enforce("configure") \o Effect
    <3>1. Closing(kind, scoped) = Enforce("same") \o Enforce("configure") \o Effect
      BY <2>6 DEF Closing
    <3>2. Script(kind, scoped) = f \o Await \o Snapshot
      BY <2>3, <2>6 DEF WriteDefault
    <3>3. Closes(f \o (Await \o Snapshot),
                 Enforce("same") \o Enforce("configure") \o Effect, Await \o Snapshot)
      BY <2>1, <2>2, ClosesBefore, Elements
    <3>4. f \in Seq(HandlerSteps)
      BY Elements, Regroup
    <3>6. Await \in Seq(HandlerSteps)
      BY Elements
    <3> HIDE DEF f
    <3>5. f \o (Await \o Snapshot) = f \o Await \o Snapshot
      BY <2>1, <3>4, <3>6, Regroup, SMTT(40)
    <3> QED BY <2>4, <3>1, <3>2, <3>3, <3>5
  <2> QED BY <1>4, <2>5, <2>6
<1> QED BY <1>1, <1>2, <1>3, <1>4, <1>5, <1>6 DEF Answering

-----------------------------------------------------------------------------
(* The scripts as a whole.                                                    *)

\* The operations of the kinds of request that have one, without the scope of their own
\* that the Runtime's status opens.
LEMMA OperationPiece ==
  ASSUME NEW D \in {OfScopes, Exits}, NEW kind \in Reads \cup Writes, NEW scoped \in BOOLEAN,
         ~(kind = "status" /\ scoped)
  PROVE  Piece(OperationOf(kind, scoped), D)
<1>0. Piece(Effect, D) /\ Piece(Query, D)
  BY Pieces DEF OfScopes, Exits, Doing
<1>1. Piece(EnforceRuntime, D)
  BY Atoms, PieceConcat DEF EnforceRuntime
<1>2. CASE kind \in {"tasks.list", "tasks.get", "keys.read", "inspection"}
  BY <1>0, <1>2, Atoms, PieceConcat
     DEF OperationOf, TasksList, TasksGet, KeysRead, InspectAuthorization
<1>3. CASE kind = "greet"
  <2>1. Piece(Greet, D)
    BY <1>1, Atoms, PieceConcat DEF Greet
  <2> QED BY <1>3, <2>1 DEF OperationOf
<1>4. CASE kind = "status" /\ ~scoped
  <2>1. Piece(RuntimeRead(scoped), D)
    BY <1>1, <1>4, Atoms, PieceConcat DEF RuntimeRead
  <2> QED BY <1>4, <2>1 DEF OperationOf
<1>5. CASE kind \in {"tasks.retry", "tasks.cancel", "keys.revoke", "schedule"}
  BY <1>0, <1>5, Atoms, PieceConcat DEF OperationOf, TasksRetry, TasksCancel, KeysRevoke, Schedule
<1> QED BY <1>2, <1>3, <1>4, <1>5 DEF Reads, Writes

\* What the catalogues collect.
LEMMA CollectedPiece ==
  ASSUME NEW D \in {OfScopes, Exits}, NEW kind \in Metadata, NEW scoped \in BOOLEAN
  PROVE  Piece(Collected(kind, scoped), D)
<1>1. Piece(CollectCatalog, D)
  BY Atoms DEF CollectCatalog
<1>2. Piece(CollectPages, D)
  BY Atoms, PieceConcat DEF CollectPages
<1>3. Piece(SessionFacts(scoped), D)
  BY Atoms, PieceConcat DEF SessionFacts
<1>4. \A s : Piece(s, D) => Piece(CollectSession(scoped, s), D)
  BY <1>3, Atoms, PieceConcat DEF CollectSession
<1>5. Piece(CollectAdmission(scoped), D)
  BY <1>1, <1>2, <1>4, PieceConcat DEF CollectAdmission
<1>6. Piece(CollectSession(scoped, <<>>), D)
  BY <1>4, Atoms
<1> QED BY <1>1, <1>2, <1>5, <1>6 DEF Collected, Metadata

\* The kinds that open a scope, on a deployment that has them.
OpensScope(kind, scoped) == scoped /\ kind \in Metadata \cup {"status", "prepared"}

\* A request that opens no scope does nothing to one.
LEMMA ScopelessScript ==
  ASSUME NEW kind \in Kinds, NEW scoped \in BOOLEAN, ~OpensScope(kind, scoped)
  PROVE  Piece(Script(kind, scoped), OfScopes)
<1> DEFINE D == OfScopes
<1>0. Piece(Effect, D) /\ Piece(Query, D) /\ Piece(<<[do |-> "visible"]>>, D)
  BY Pieces DEF OfScopes, Doing
<1>1. CASE kind \in Reads \cup Writes
  <2>1. Piece(OperationOf(kind, scoped), D)
    BY <1>1, OperationPiece DEF OpensScope
  <2>2. \A m \in BOOLEAN : Piece(Invoke(m, BindingOf(kind), OperationOf(kind, scoped)), D)
    BY <2>1, InvocationPiece, PieceConcat DEF Invoke
  <2> QED BY <1>1, <2>2, InvocationScript
<1>2. CASE kind = "prepared"
  <2>1. Piece(<<>> \o InvokePrepared(Query \o Await), D)
    BY <1>0, Atoms, PieceConcat DEF InvokePrepared, CanDispatch
  <2>2. Script(kind, scoped) = <<>> \o InvokePrepared(Query \o Await)
    BY <1>2 DEF Script, OpensScope, Reads, Writes, Metadata
  <2> QED BY <2>1, <2>2
<1>3. CASE kind \in Metadata
  <2>1. kind \notin Reads \cup Writes \cup Routes \cup {"prepared"}
    BY <1>3 DEF Reads, Writes, Routes, Metadata
  <2>2. Script(kind, scoped) = Collected(kind, scoped)
    BY <1>3, <2>1 DEF Script, MetadataRead, OpensScope, Routes
  <2> QED BY <1>3, <2>2, CollectedPiece
<1>4. Piece(Snapshot, D)
  BY Atoms, PieceConcat DEF Snapshot
<1>5. CASE kind \in {"targets", "apps"}
  BY <1>5, Atoms DEF Script, Targets, Apps, Reads, Writes, Metadata
<1>6. CASE kind \in {"plugins", "asset", "locale", "credential"}
  BY <1>6, <1>0, <1>4, Atoms, PieceConcat
     DEF Script, Plugins, Asset, Credential, Reads, Writes, Metadata
<1>7. CASE kind \in {"preference", "default"}
  BY <1>7, <1>0, <1>4, Atoms, PieceConcat
     DEF Script, WritePreference, WriteDefault, Reads, Writes, Metadata
<1>8. CASE kind = "inspect"
  <2>1. Piece(Enforce("same") \o Enforce("session") \o Enforce("administrator")
               \o Enforce("admin"), D)
    BY Atoms, PieceConcat
  <2>2. Piece(DevInspector, D)
    BY <2>1, Atoms, PieceConcat DEF DevInspector
  <2>3. Piece(Can("list", DevInspector), D) /\ Piece(CheckCurrent, D)
    BY <2>2, Atoms, PieceConcat DEF CheckCurrent
  <2>4. Piece(Inspect, D)
    BY <2>3, <1>0, Atoms, PieceConcat DEF Inspect
  <2> QED BY <1>8, <2>4 DEF Script, Reads, Writes, Metadata
<1> QED BY <1>1, <1>2, <1>3, <1>5, <1>6, <1>7, <1>8 DEF Kinds, Routes

\* Where the scope of a request ends: nothing before skips over it, nothing after opens another.
ScopeEndsAt(s, r) ==
  /\ r \in DOMAIN s /\ s[r].do \in {"register", "finish"}
  /\ \A i \in 1..(r - 1) : s[i].do \notin Exits /\ (s[i].do = "can" => i + s[i].over < r)
  /\ \A i \in (r + 1)..Len(s) : s[i].do \notin OfScopes

\* A front that leaves nothing early, the end of the scope, and a rest that opens none.
LEMMA ScopeEnds ==
  ASSUME NEW a, NEW b, Piece(a, Exits), Piece(b, OfScopes), NEW x \in {"register", "finish"}
  PROVE  ScopeEndsAt(a \o <<[do |-> x]>> \o b, Len(a) + 1)
<1> DEFINE y == <<[do |-> x]>>
           s == a \o y \o b
<1>1. /\ a \in Seq(HandlerSteps) /\ b \in Seq(HandlerSteps) /\ y \in Seq(HandlerSteps)
      /\ Len(y) = 1 /\ y[1] = [do |-> x]
  BY DEF Piece, HandlerSteps, Doing
<1>2. /\ s \in Seq(HandlerSteps) /\ Len(s) = Len(a) + 1 + Len(b)
      /\ \A i \in 1..Len(a) : s[i] = a[i]
      /\ s[Len(a) + 1] = [do |-> x]
      /\ \A i \in (Len(a) + 2)..Len(s) :
           s[i] = b[i - (Len(a) + 1)] /\ i - (Len(a) + 1) \in DOMAIN b
  <2>1. a \o y \in Seq(HandlerSteps) /\ Len(a \o y) = Len(a) + 1
    BY <1>1
  <2>2. (a \o y)[Len(a) + 1] = [do |-> x]
    BY <1>1
  <2>3. \A i \in 1..Len(a) : (a \o y)[i] = a[i]
    BY <1>1
  <2> HIDE DEF y
  <2> QED BY <1>1, <2>1, <2>2, <2>3, SMTT(40)
<1>3. \A i \in DOMAIN a : a[i].do \notin Exits /\ (a[i].do = "can" => i + a[i].over <= Len(a))
  BY DEF Piece
<1>4. ASSUME NEW i \in DOMAIN a, a[i].do = "can" PROVE i + a[i].over < Len(a) + 1
  <2>1. a[i] \in HandlerSteps /\ i \in Nat
    BY <1>1
  <2>2. a[i].over \in Nat
    BY <2>1, <1>4 DEF HandlerSteps, Doing
  <2> QED BY <2>1, <2>2, <1>4, <1>3, <1>1
<1>5. \A i \in DOMAIN b : b[i].do \notin OfScopes
  BY DEF Piece
<1> HIDE DEF s
<1>6. \A i \in 1..Len(a) : s[i].do \notin Exits /\ (s[i].do = "can" => i + s[i].over < Len(a) + 1)
  <2>1. DOMAIN a = 1..Len(a)
    BY <1>1
  <2> QED BY <1>2, <1>3, <1>4, <2>1
<1>7. \A i \in (Len(a) + 2)..Len(s) : s[i].do \notin OfScopes
  BY <1>2, <1>5
<1> QED BY <1>1, <1>2, <1>6, <1>7 DEF ScopeEndsAt, s, y

\* The same with nothing after it.
LEMMA ScopeEndsLast ==
  ASSUME NEW a, Piece(a, Exits), NEW x \in {"register", "finish"}
  PROVE  ScopeEndsAt(a \o <<[do |-> x]>>, Len(a) + 1)
<1> DEFINE y == <<[do |-> x]>>
<1>1. a \in Seq(HandlerSteps) /\ y \in Seq(HandlerSteps)
  BY DEF Piece, HandlerSteps, Doing
<1>2. a \o y \o <<>> = a \o y
  <2> HIDE DEF y
  <2> QED BY <1>1, ConcatProperties, ConcatEmptySeq
<1>3. Piece(<<>>, OfScopes)
  BY Atoms
<1> QED BY <1>2, <1>3, ScopeEnds

\* A request that opens a scope passes the end of it before its own.
LEMMA ScopedScript ==
  ASSUME NEW kind \in Kinds, NEW scoped \in BOOLEAN, OpensScope(kind, scoped)
  PROVE  \E r : /\ ScopeEndsAt(Script(kind, scoped), r)
                /\ Script(kind, scoped)[r].do = "finish" => kind = "status"
                /\ Script(kind, scoped) \in Seq(HandlerSteps)
<1>0. Piece(BeginScope, Exits) /\ Register \in Seq(HandlerSteps)
  BY Pieces DEF Exits, Doing, HandlerSteps, Register
<1>1. CASE kind \in Metadata
  <2>1. kind \notin Reads \cup Writes \cup Routes \cup {"prepared"}
    BY <1>1 DEF Reads, Writes, Routes, Metadata
  <2> DEFINE a == BeginScope \o Collected(kind, scoped)
  <2>2. Script(kind, scoped) = a \o Register
    BY <1>1, <2>1 DEF Script, MetadataRead, OpensScope, Routes
  <2>3. Piece(a, Exits)
    BY <1>0, <1>1, CollectedPiece, PieceConcat
  <2>4. ScopeEndsAt(a \o Register, Len(a) + 1)
    BY <2>3, ScopeEndsLast DEF Register
  <2> HIDE DEF a
  <2>5. (a \o Register)[Len(a) + 1].do # "finish"
    BY <2>3 DEF Piece, Register
  <2>6. a \o Register \in Seq(HandlerSteps)
    BY <1>0, <2>3, Regroup DEF Piece
  <2> QED BY <2>2, <2>4, <2>5, <2>6
<1>2. CASE kind = "prepared"
  <2> DEFINE b == InvokePrepared(Query \o Await)
  <2>1. Script(kind, scoped) = BeginScope \o Register \o b
    BY <1>2 DEF Script, OpensScope, Reads, Writes, Metadata
  <2>2. Piece(b, OfScopes)
    <3>1. Piece(Query, OfScopes)
      BY Pieces DEF OfScopes, Doing
    <3> QED BY <3>1, Atoms, PieceConcat DEF InvokePrepared, CanDispatch
  <2>3. ScopeEndsAt(BeginScope \o Register \o b, Len(BeginScope) + 1)
    BY <1>0, <2>2, ScopeEnds DEF Register
  <2> HIDE DEF b
  <2>4. (BeginScope \o Register \o b)[Len(BeginScope) + 1].do # "finish"
    BY <2>2 DEF BeginScope, Register, Piece
  <2>5. BeginScope \o Register \o b \in Seq(HandlerSteps)
    BY <2>2 DEF BeginScope, Register, Piece, HandlerSteps, Doing
  <2> QED BY <2>1, <2>3, <2>4, <2>5
<1>3. CASE kind = "status"
  <2>0. scoped
    BY <1>3 DEF OpensScope
  <2> DEFINE check == Enforce("invoke") \o Enforce("administrator")
             a == Enforce("same") \o BeginScope \o check \o Await \o check
             f == Enforce("list") \o BindInvocation(FALSE, BindingOf(kind)) \o Enforce("list")
             x == <<[do |-> "finish"]>>
  <2>1. Script(kind, scoped) = f \o (a \o x)
    <3>1. kind \notin Metadata \cup Routes \cup {"prepared"} /\ kind \in Reads \cup Writes
      BY <1>3 DEF Reads, Writes, Metadata, Routes
    <3>2. (kind \in {"tasks.retry", "tasks.get"}) = FALSE
      BY <1>3
    <3>3. Script(kind, scoped) = Invoke(FALSE, BindingOf(kind), OperationOf(kind, scoped))
      BY <3>1, <3>2 DEF Script, Mounted, Routes
    <3>4. OperationOf(kind, scoped) = a \o x
      BY <1>3, <2>0 DEF OperationOf, RuntimeRead
    <3> QED BY <3>3, <3>4 DEF Invoke
  <2>2. Piece(check, Exits) /\ Piece(f, Exits)
    BY Atoms, PieceConcat, InvocationPiece
  <2>3. Piece(a, Exits)
    <3> HIDE DEF check
    <3>1. Piece(Enforce("same"), Exits) /\ Piece(Await, Exits)
      BY Atoms
    <3> QED BY <1>0, <2>2, <3>1, PieceConcat
  <2>4. x \in Seq(HandlerSteps)
    BY DEF HandlerSteps, Doing
  <2> HIDE DEF a, f, x
  <2>5. f \o (a \o x) = f \o a \o x
    <3>1. f \in Seq(HandlerSteps) /\ a \in Seq(HandlerSteps)
      BY <2>2, <2>3 DEF Piece
    <3> QED BY <2>4, <3>1, Regroup
  <2>6. Piece(f \o a, Exits)
    BY <2>2, <2>3, PieceConcat
  <2>7. ScopeEndsAt(f \o a \o x, Len(f \o a) + 1)
    BY <2>6, ScopeEndsLast DEF x
  <2>8. f \o a \o x \in Seq(HandlerSteps)
    BY <2>4, <2>6, Regroup DEF Piece
  <2> QED BY <2>1, <2>5, <2>7, <2>8, <1>3
<1> QED BY <1>1, <1>2, <1>3 DEF OpensScope

\* Every handler is a sequence of steps, and asks what there is to ask.
LEMMA ScriptTyped ==
  ASSUME NEW kind \in Kinds, NEW scoped \in BOOLEAN
  PROVE  /\ Script(kind, scoped) \in Seq(HandlerSteps)
         /\ Asks(Script(kind, scoped)) \subseteq Questions
<1> DEFINE s == Script(kind, scoped)
<1>1. s \in Seq(HandlerSteps)
  BY ScopelessScript, ScopedScript DEF Piece
<1>2. \A i \in DOMAIN s : s[i].do \in {"enforce", "can"} => s[i].q \in Questions
  <2> HIDE DEF s
  <2>1. \A i \in DOMAIN s : s[i] \in HandlerSteps
    BY <1>1
  <2> QED BY <2>1 DEF HandlerSteps, Doing
<1> QED BY <1>1, <1>2 DEF Asks

\* Where the closing of a request is in its script.
ClosesAt(s, f, t, b) ==
  /\ f + Len(t) + Len(b) = Len(s)
  /\ \A i \in 1..Len(t) : s[f + i] = t[i]
  /\ \A i \in 1..f : s[i].do \notin Writing /\ (s[i].do = "can" => i + s[i].over <= f)
  /\ \A i \in (f + Len(t) + 1)..Len(s) : s[i].do \notin Writing

Place(kind, scoped) ==
  CHOOSE f \in 0..Len(Script(kind, scoped)) :
    ClosesAt(Script(kind, scoped), f, Closing(kind, scoped), Remaining(kind))

\* A script that closes does so at some place.
LEMMA PlaceExists ==
  ASSUME NEW s, NEW t, NEW b, Closes(s, t, b)
  PROVE  \E f \in 0..Len(s) : ClosesAt(s, f, t, b)
<1> PICK a : Piece(a, Writing) /\ s = a \o t \o b
  BY DEF Closes
<1>1. a \in Seq(HandlerSteps) /\ t \in Seq(HandlerSteps) /\ b \in Seq(HandlerSteps)
  BY DEF Piece, Closes
<1>2. /\ s \in Seq(HandlerSteps) /\ Len(s) = Len(a) + Len(t) + Len(b)
      /\ \A i \in 1..Len(a) : s[i] = a[i]
      /\ \A i \in 1..Len(t) : s[Len(a) + i] = t[i]
      /\ \A i \in (Len(a) + Len(t) + 1)..Len(s) :
           s[i] = b[i - (Len(a) + Len(t))] /\ i - (Len(a) + Len(t)) \in DOMAIN b
  <2>1. a \o t \in Seq(HandlerSteps) /\ Len(a \o t) = Len(a) + Len(t)
    BY <1>1
  <2>2. \A i \in 1..Len(a) : (a \o t)[i] = a[i]
    BY <1>1
  <2>3. \A i \in 1..Len(t) : (a \o t)[Len(a) + i] = t[i]
    BY <1>1
  <2> QED BY <1>1, <2>1, <2>2, <2>3
<1>3. \A i \in 1..Len(a) : s[i].do \notin Writing /\ (s[i].do = "can" => i + s[i].over <= Len(a))
  BY <1>1, <1>2 DEF Piece
<1>4. \A i \in (Len(a) + Len(t) + 1)..Len(s) : s[i].do \notin Writing
  BY <1>2 DEF Closes, Piece
<1>5. Len(a) \in 0..Len(s)
  BY <1>1, <1>2
<1> QED BY <1>1, <1>2, <1>3, <1>4, <1>5 DEF ClosesAt

\* Place is one of them.
LEMMA ClosingPlace ==
  ASSUME NEW kind \in Answering, NEW scoped \in BOOLEAN
  PROVE  /\ Place(kind, scoped) \in 0..Len(Script(kind, scoped))
         /\ ClosesAt(Script(kind, scoped), Place(kind, scoped),
                     Closing(kind, scoped), Remaining(kind))
<1>1. \E f \in 0..Len(Script(kind, scoped)) :
        ClosesAt(Script(kind, scoped), f, Closing(kind, scoped), Remaining(kind))
  BY ScriptCloses, PlaceExists
<1> QED BY <1>1 DEF Place

\* Two steps by name.
Asking(q) == [do |-> "enforce", q |-> q]
Simply(w) == [do |-> w]

\* What the closings are, step by step.
LEMMA ClosingSteps ==
  ASSUME NEW kind \in Answering, NEW scoped \in BOOLEAN, NEW t, t = Closing(kind, scoped)
  PROVE  \/ kind = "tasks.list" /\ Len(t) = 1 /\ t[1] = Asking("invoke")
         \/ /\ kind \in {"keys.read", "inspection"} /\ Len(t) = 2
            /\ t[1] = Asking("invoke") /\ t[2] = Simply("query")
         \/ /\ kind = "prepared" /\ Len(t) = 3
            /\ t[1] = Asking("list") /\ t[2] = Asking("invoke") /\ t[3] = Simply("query")
         \/ /\ kind = "schedule" /\ Len(t) = 4
            /\ t[1] = Asking("invoke") /\ t[2] = Asking("write") /\ t[3] = Asking("list")
            /\ t[4] = Simply("effect")
         \/ /\ kind = "tasks.get"
            /\ Len(t) = 2 /\ t[1] = Asking("job") /\ t[2] = Asking("invoke")
         \/ /\ kind = "tasks.retry" /\ Len(t) = 3
            /\ t[1] = Asking("invoke") /\ t[2] = Asking("job") /\ t[3] = Simply("effect")
         \/ /\ kind = "tasks.cancel" /\ Len(t) = 3
            /\ t[1] = Asking("job") /\ t[2] = Asking("invoke") /\ t[3] = Simply("effect")
         \/ /\ kind = "keys.revoke" /\ Len(t) = 3
            /\ t[1] = Asking("invoke") /\ t[2] = Asking("write") /\ t[3] = Simply("effect")
         \/ /\ kind = "credential" /\ Len(t) = 2
            /\ t[1] = Asking("invoke") /\ t[2] = Simply("effect")
         \/ /\ kind \in {"greet", "status"} /\ Len(t) = 5
            /\ t[1] = Asking("invoke") /\ t[2] = Asking("same") /\ t[3] = Asking("session")
            /\ t[4] = Asking("administrator") /\ t[5] = Asking("invoke")
         \/ /\ kind = "status" /\ Len(t) = 3
            /\ t[1] = Asking("invoke") /\ t[2] = Asking("administrator") /\ t[3] = Simply("finish")
         \/ /\ kind = "inspect" /\ Len(t) = 4
            /\ t[1] = Asking("same") /\ t[2] = Asking("admin")
            /\ t[3] = Simply("visible") /\ t[4] = Asking("list")
         \/ /\ kind = "preference" /\ Len(t) = 2
            /\ t[1] = Asking("same") /\ t[2] = Simply("effect")
         \/ /\ kind = "default" /\ Len(t) = 3
            /\ t[1] = Asking("same") /\ t[2] = Asking("configure") /\ t[3] = Simply("effect")
<1> USE DEF Enforce, Effect, Query, Asking, Simply
<1>1. CASE kind = "tasks.list"
  <2>1. t = Enforce("invoke")
    BY <1>1 DEF Closing
  <2> QED BY <2>1, <1>1
<1>13. CASE kind \in {"keys.read", "inspection"}
  <2>1. t = Enforce("invoke") \o Query
    BY <1>13 DEF Closing
  <2> QED BY <2>1, <1>13
<1>14. CASE kind = "prepared"
  <2>1. t = Enforce("list") \o Enforce("invoke") \o Query
    BY <1>14 DEF Closing
  <2> QED BY <2>1, <1>14
<1>15. CASE kind = "schedule"
  <2>1. t = Enforce("invoke") \o Enforce("write") \o Enforce("list") \o Effect
    BY <1>15 DEF Closing
  <2> QED BY <2>1, <1>15
<1>2. CASE kind = "tasks.get"
  <2>1. t = Enforce("job") \o Enforce("invoke")
    BY <1>2 DEF Closing
  <2> QED BY <2>1, <1>2
<1>3. CASE kind = "tasks.retry"
  <2>1. t = Enforce("invoke") \o Enforce("job") \o Effect
    BY <1>3 DEF Closing
  <2> QED BY <2>1, <1>3
<1>4. CASE kind = "tasks.cancel"
  <2>1. t = Enforce("job") \o Enforce("invoke") \o Effect
    BY <1>4 DEF Closing
  <2> QED BY <2>1, <1>4
<1>5. CASE kind = "keys.revoke"
  <2>1. t = Enforce("invoke") \o Enforce("write") \o Effect
    BY <1>5 DEF Closing
  <2> QED BY <2>1, <1>5
<1>6. CASE kind = "credential"
  <2>1. t = Enforce("invoke") \o Effect
    BY <1>6 DEF Closing
  <2> QED BY <2>1, <1>6
<1>7. CASE kind = "greet" \/ (kind = "status" /\ ~scoped)
  <2>1. t = EnforceRuntime
    BY <1>7 DEF Closing
  <2>2. Len(t) = 5 /\ t[1] = Asking("invoke") /\ t[2] = Asking("same") /\ t[3] = Asking("session")
        /\ t[4] = Asking("administrator") /\ t[5] = Asking("invoke")
    BY <2>1 DEF EnforceRuntime
  <2> QED BY <2>2, <1>7
<1>8. CASE kind = "status" /\ scoped
  <2>1. t = Enforce("invoke") \o Enforce("administrator") \o <<[do |-> "finish"]>>
    BY <1>8 DEF Closing
  <2> QED BY <2>1, <1>8
<1>9. CASE kind = "inspect"
  <2>1. t = CheckCurrent \o <<[do |-> "visible"]>> \o Enforce("list")
    BY <1>9 DEF Closing
  <2>2. Len(t) = 4 /\ t[1] = Asking("same") /\ t[2] = Asking("admin")
        /\ t[3] = Simply("visible") /\ t[4] = Asking("list")
    BY <2>1 DEF CheckCurrent
  <2> QED BY <2>2, <1>9
<1>10. CASE kind = "preference"
  <2>1. t = Enforce("same") \o Effect
    BY <1>10 DEF Closing
  <2> QED BY <2>1, <1>10
<1>11. CASE kind = "default"
  <2>1. t = Enforce("same") \o Enforce("configure") \o Effect
    BY <1>11 DEF Closing
  <2> QED BY <2>1, <1>11
<1>12. kind \in {"tasks.list", "tasks.get", "tasks.retry", "tasks.cancel", "keys.read",
                 "inspection", "schedule", "keys.revoke", "greet", "status", "inspect", "preference",
                 "default",
                 "credential", "prepared"}
  BY DEF Answering, Reads, Writes
<1> QED BY <1>1, <1>2, <1>3, <1>4, <1>5, <1>6, <1>7, <1>8, <1>9, <1>10, <1>11, <1>12,
            <1>13, <1>14, <1>15

\* What a closing may hold: questions, and a write at the end of it.
LEMMA ClosingShape ==
  ASSUME NEW kind \in Answering, NEW scoped \in BOOLEAN, NEW t, t = Closing(kind, scoped)
  PROVE  /\ t \in Seq(HandlerSteps)
         /\ \A i \in DOMAIN t : t[i].do \in {"enforce", "effect", "query", "visible", "finish"}
         /\ \A i \in DOMAIN t : t[i].do \in {"effect", "query"} => i = Len(t)
         /\ \A i \in DOMAIN t : t[i].do = "visible" =>
               kind = "inspect" /\ i + 1 = Len(t) /\ t[i + 1].q = "list"
<1>1. t \in Seq(HandlerSteps)
  BY ScriptCloses DEF Closes
<1>2. DOMAIN t = 1..Len(t)
  BY <1>1
<1>3. /\ t[1].do = "enforce"
      /\ Len(t) >= 2 => t[2].do = "enforce" \/ (t[2].do \in {"effect", "query"} /\ Len(t) = 2)
      /\ Len(t) >= 3 => \/ t[3].do = "enforce"
                        \/ t[3].do \in {"effect", "query", "finish"} /\ Len(t) = 3
                        \/ t[3].do = "visible" /\ kind = "inspect" /\ Len(t) = 4 /\ t[4].q = "list"
      /\ Len(t) >= 4 => t[4].do = "enforce" \/ (t[4].do = "effect" /\ Len(t) = 4)
      /\ Len(t) >= 5 => t[5].do = "enforce"
  BY ClosingSteps, SMTT(40) DEF Asking, Simply
<1>4. \A i \in 1..Len(t) : i \in {1, 2, 3, 4, 5}
  <2>1. Len(t) \in {1, 2, 3, 4, 5}
    BY ClosingSteps
  <2>2. \A n \in {1, 2, 3, 4, 5} : \A i \in 1..n : i \in {1, 2, 3, 4, 5}
    OBVIOUS
  <2> QED BY <2>1, <2>2
<1> QED BY <1>1, <1>2, <1>3, <1>4

\* Every question that the answer of a request, or its write, requires is among them.
LEMMA ClosingAsks ==
  ASSUME req.kind \in Answering, req.scoped \in BOOLEAN, NEW t, t = Closing(req.kind, req.scoped),
         NEW q \in Requires
  PROVE  \E i \in DOMAIN t : /\ t[i].do = "enforce" /\ t[i].q = q
                             /\ q = "list" /\ req.kind = "inspect" => req.shows
<1>1. t \in Seq(HandlerSteps) /\ DOMAIN t = 1..Len(t)
  BY ClosingShape
<1>2. /\ \/ Len(t) >= 1 /\ t[1] = Asking(q)
         \/ Len(t) >= 2 /\ t[2] = Asking(q)
         \/ Len(t) >= 3 /\ t[3] = Asking(q)
         \/ Len(t) >= 4 /\ t[4] = Asking(q)
      /\ q = "list" /\ req.kind = "inspect" => req.shows
      /\ Len(t) \in Nat
  BY <1>1, ClosingSteps DEF Requires
<1>3. Asking(q).do = "enforce" /\ Asking(q).q = q
  BY DEF Asking
<1> QED BY <1>1, <1>2, <1>3

-----------------------------------------------------------------------------
(* The invariant.                                                             *)

\* A scope is left open only before the end of it that lies ahead.
ScopeEndsAhead ==
  Running /\ req.scope = "open" =>
    \E r \in 1..Len(Steps) : ScopeEndsAt(Steps, r) /\ req.pc <= r

\* Before its end, only the Runtime's status finishes a scope of its own.
FinishedByStatus == Running /\ req.scope = "finished" => req.kind = "status"

\* What the closing of a request has asked was granted since the last await.
AskedIsFresh ==
  Running /\ req.kind \in Answering =>
    LET t == Closing(req.kind, req.scoped)
        f == Place(req.kind, req.scoped)
    IN  req.pc <= f + Len(t) + 1 =>
          \A i \in 1..Len(t) :
            /\ f + i < req.pc
            /\ t[i].do = "enforce" /\ (t[i].q = "list" /\ req.kind = "inspect" => req.shows)
            => t[i].q \in ever

\* What a scope granted it will replay, and nothing is built on a scope that there is not.
ReliedIsAsked ==
  /\ req.relied \subseteq req.asked
  /\ Running /\ req.scope \in {"none", "closed"} => req.relied = {}

\* The inductive invariant of a request.
RequestInv ==
  /\ RequestTypeOK
  /\ granted \subseteq ever
  /\ ScopeEndsAhead /\ FinishedByStatus /\ ScopesEnd
  /\ ReliedIsAsked
  /\ AskedIsFresh

\* The step a request is at.
LEMMA StepTyped ==
  ASSUME RequestTypeOK, req.pc \in DOMAIN Steps
  PROVE  /\ Step \in HandlerSteps
         /\ Step.do \in {"enforce", "can"} => Step.q \in Questions
         /\ Step.do = "can" => Step.over \in Nat
<1>1. Steps \in Seq(HandlerSteps)
  BY ScriptTyped DEF RequestTypeOK, Requests, Steps
<1>2. Step \in HandlerSteps
  BY <1>1 DEF Step
<1> QED BY <1>2 DEF HandlerSteps, Doing

\* What a scope may be.
ScopeStates == {"none", "open", "registered", "finished", "closed"}

\* The changes that the steps make to a request keep it one.
LEMMA RequestChanges ==
  ASSUME NEW r \in Requests
  PROVE  /\ \A n \in Nat : [r EXCEPT !.pc = n] \in Requests
         /\ \A n \in Nat, b \in BOOLEAN : [r EXCEPT !.pc = n, !.shows = b] \in Requests
         /\ \A n \in Nat, g \in SUBSET (0..1) : [r EXCEPT !.pc = n, !.seen = g] \in Requests
         /\ \A n \in Nat, c \in ScopeStates : [r EXCEPT !.pc = n, !.scope = c] \in Requests
         /\ \A n \in Nat, a \in SUBSET Questions, b \in SUBSET Questions :
              [r EXCEPT !.pc = n, !.asked = a, !.relied = b] \in Requests
         /\ \A c \in ScopeStates :
              [r EXCEPT !.scope = c, !.scoped = FALSE, !.pc = 1, !.asked = {}, !.relied = {}]
                \in Requests
         /\ \A w \in Results, c \in ScopeStates : [r EXCEPT !.result = w, !.scope = c] \in Requests
<1> USE DEF ScopeStates
<1>1. ASSUME NEW n \in Nat, NEW s, s = [r EXCEPT !.pc = n]
      PROVE  /\ s \in Requests
             /\ \A b \in BOOLEAN : [s EXCEPT !.shows = b] \in Requests
             /\ \A g \in SUBSET (0..1) : [s EXCEPT !.seen = g] \in Requests
             /\ \A c \in ScopeStates : [s EXCEPT !.scope = c] \in Requests
             /\ \A a \in SUBSET Questions : [s EXCEPT !.asked = a] \in Requests
  <2>1. s \in Requests
    BY <1>1 DEF Requests
  <2> QED BY <2>1 DEF Requests
<1>2. ASSUME NEW n \in Nat, NEW a \in SUBSET Questions, NEW s, s = [r EXCEPT !.pc = n, !.asked = a]
      PROVE  \A b \in SUBSET Questions : [s EXCEPT !.relied = b] \in Requests
  <2>1. s \in Requests
    BY <1>2 DEF Requests
  <2> QED BY <2>1 DEF Requests
<1>3. ASSUME NEW c \in ScopeStates, NEW s,
             s = [r EXCEPT !.scope = c, !.scoped = FALSE, !.pc = 1, !.asked = {}]
      PROVE  [s EXCEPT !.relied = {}] \in Requests
  <2>1. s \in Requests
    BY <1>3 DEF Requests
  <2> QED BY <2>1 DEF Requests
<1>4. ASSUME NEW w \in Results, NEW c \in ScopeStates
      PROVE  [r EXCEPT !.result = w, !.scope = c] \in Requests
  BY DEF Requests
<1> QED BY <1>1, <1>2, <1>3, <1>4

\* Every step keeps the type.
LEMMA RequestTypeStep ==
  ASSUME RequestTypeOK, RequestNext
  PROVE  RequestTypeOK'
<1> USE DEF RequestTypeOK
<1>0. /\ \A n \in 1..2 : req.pc + n \in Nat
      /\ req.asked \in SUBSET Questions /\ req.relied \in SUBSET Questions
      /\ req.seen \in SUBSET (0..1)
      /\ req.scope \in ScopeStates /\ ScopeClosed(req.scope) \in ScopeStates
      /\ req.pc + 1 \in Nat
  BY DEF Requests, ScopeStates, ScopeClosed
<1>1. ASSUME NEW result \in Results, Fail(result) PROVE req' \in Requests
  BY <1>1 DEF Fail, ScopeClosed, Requests
<1>2. ASSUME NEW n \in 1..2, Advance(n) PROVE req' \in Requests
  BY <1>2 DEF Advance, Requests
<1>3. ASSUME Grant, Step.q \in Questions
      PROVE  req' \in Requests
  <2>1. /\ (IF Scoping THEN req.asked \cup {Step.q} ELSE req.asked) \in SUBSET Questions
        /\ (IF Scoping THEN req.relied \cup {Step.q} ELSE req.relied) \in SUBSET Questions
    BY <1>0, <1>3
  <2> QED BY <1>0, <1>3, <2>1, RequestChanges, Zenon DEF Grant
<1>4. CASE EnforceGranted
  BY <1>3, <1>4 DEF EnforceGranted
<1>5. CASE EnforceDenied
  <2>1. PICK result \in Refusals(Step.q) : Fail(result)
    BY <1>5 DEF EnforceDenied
  <2>2. result \in Results
    BY <2>1 DEF Refusals, Results, Denials
  <2> QED BY <1>1, <1>5, <2>1, <2>2 DEF EnforceDenied
<1>6. CASE CanGranted
  BY <1>3, <1>6 DEF CanGranted
<1>7. CASE CanDenied
  <2>1. req.pc + 1 + Step.over \in Nat
    BY <1>0, <1>7, StepTyped DEF CanDenied, At
  <2>3. CASE Scoping
    <3>1. req' \in Requests
      <4>1. req' = [req EXCEPT !.scope = ScopeClosed(req.scope), !.scoped = FALSE, !.pc = 1,
                               !.asked = {}, !.relied = {}]
        BY <1>7, <2>3 DEF CanDenied
      <4> QED BY <1>0, <4>1, RequestChanges, Zenon
    <3> QED BY <1>7, <3>1 DEF CanDenied
  <2>4. CASE ~Scoping
    <3> DEFINE b == req.shows /\ ~(req.kind = "inspect" /\ Step.q = "list")
    <3>1. req' = [req EXCEPT !.pc = req.pc + 1 + Step.over, !.shows = b]
      BY <1>7, <2>4 DEF CanDenied
    <3>2. b \in BOOLEAN
      OBVIOUS
    <3> HIDE DEF b
    <3>3. req' \in Requests
      BY <2>1, <3>1, <3>2, RequestChanges, Zenon
    <3> QED BY <1>7, <3>3 DEF CanDenied
  <2> QED BY <2>3, <2>4
<1>8. CASE Unavailable \/ Limited \/ Execute \/ Dispatch \/ SampleCompared \/ Revisit \/ Awaited
  <2>1. {"SERVICE_UNAVAILABLE", "TOO_MANY_REQUESTS", "CONFLICT"} \subseteq Results
    BY DEF Results, Denials
  <2>2. (\E result \in Results : Fail(result)) \/ (\E n \in 1..2 : Advance(n))
    BY <1>8, <2>1 DEF Unavailable, Limited, Execute, Dispatch, SampleCompared, Revisit, Awaited
  <2>3. /\ ever' = granted \/ UNCHANGED ever
        /\ UNCHANGED <<granted, generation>>
    BY <1>8 DEF Unavailable, Limited, Execute, Dispatch, SampleCompared, Revisit, Awaited
  <2> QED BY <1>1, <1>2, <2>2, <2>3
<1>9. CASE Sampled
  <2>1. req.seen \cup {generation} \in SUBSET (0..1)
    BY <1>0
  <2>2. req' \in Requests
    BY <1>0, <1>9, <2>1, RequestChanges, Zenon DEF Sampled
  <2> QED BY <1>9, <2>2 DEF Sampled
<1>10. CASE Begin \/ Registered
  <2>1. "open" \in ScopeStates /\ "registered" \in ScopeStates
    BY DEF ScopeStates
  <2>2. PICK c \in ScopeStates : req' = [req EXCEPT !.pc = req.pc + 1, !.scope = c]
    BY <1>10, <2>1 DEF Begin, Registered
  <2>3. req' \in Requests
    BY <1>0, <2>2, RequestChanges, Zenon
  <2> QED BY <1>10, <2>3 DEF Begin, Registered
<1>11. CASE Finish \/ Disclose
  <2>1. "FORBIDDEN" \in Results /\ "ok" \in Results /\ "finished" \in ScopeStates
    BY DEF Results, Denials, ScopeStates
  <2>2. CASE Fail("FORBIDDEN")
    BY <1>1, <1>11, <2>1, <2>2 DEF Finish, Disclose
  <2>3. CASE ~Fail("FORBIDDEN") /\ Finish
    <3>1. req' = [req EXCEPT !.pc = req.pc + 1, !.scope = "finished"]
      BY <2>3 DEF Finish
    <3>2. req' \in Requests
      BY <1>0, <2>1, <3>1, RequestChanges, Zenon
    <3> QED BY <2>3, <3>2 DEF Finish
  <2>4. CASE ~Fail("FORBIDDEN") /\ Disclose
    <3>1. req' = [req EXCEPT !.result = "ok",
                            !.scope = IF req.scope = "registered" THEN "finished" ELSE req.scope]
      BY <2>4 DEF Disclose
    <3>3. (IF req.scope = "registered" THEN "finished" ELSE req.scope) \in ScopeStates
      BY <1>0, <2>1
    <3>4. req' \in Requests
      BY <2>1, <3>1, <3>3, RequestChanges, Zenon
    <3> QED BY <2>4, <3>4 DEF Disclose
  <2> QED BY <1>11, <2>2, <2>3, <2>4
<1>12. CASE CallerAborts
  <2>1. "gone" \in Results
    BY DEF Results
  <2>2. req' \in Requests
    BY <1>0, <1>12, <2>1, RequestChanges, Zenon DEF CallerAborts
  <2> QED BY <1>12, <2>2 DEF CallerAborts
<1>13. CASE GrantsChange
  <2>1. Asks(Script(req.kind, req.scoped)) \subseteq Questions
    BY ScriptTyped DEF Requests
  <2> QED BY <1>13, <2>1 DEF GrantsChange
<1>14. CASE Restart
  BY <1>14 DEF Restart
<1> QED BY <1>4, <1>5, <1>6, <1>7, <1>8, <1>9, <1>10, <1>11, <1>12, <1>13, <1>14 DEF RequestNext

\* A request that fails has closed its scope, and is built on what it was.
LEMMA AfterFailure ==
  ASSUME RequestTypeOK, NEW w \in Results \ {"none", "ok"}, Fail(w)
  PROVE  /\ ~Running' /\ req'.scope \notin {"open", "registered"} /\ req'.result = w
         /\ req'.relied = req.relied /\ req'.asked = req.asked
  BY DEF Fail, ScopeClosed, RequestTypeOK, Requests, Running

\* The request goes on.
GoesOn == Running' /\ req'.kind = req.kind

\* What a step is: a failure, the end of the request, or one that goes on.
LEMMA RequestMoves ==
  ASSUME RequestTypeOK, RequestNext
  PROVE  /\ Running
         /\ \/ \E w \in Results \ {"none", "ok"} : Fail(w)
            \/ CallerAborts
            \/ Disclose /\ req'.result = "ok"
            \/ GoesOn
<1> USE DEF At, Running, GoesOn, RequestTypeOK
<1>1. CASE EnforceDenied
  <2>1. Refusals(Step.q) \subseteq Results \ {"none", "ok"}
    BY DEF Refusals, Results, Denials
  <2> QED BY <1>1, <2>1 DEF EnforceDenied
<1>2. CASE Unavailable \/ Limited \/ Execute \/ Dispatch \/ SampleCompared \/ Revisit \/ Awaited \/ Finish
  <2>1. {"SERVICE_UNAVAILABLE", "TOO_MANY_REQUESTS", "CONFLICT", "FORBIDDEN"}
          \subseteq Results \ {"none", "ok"}
    BY DEF Results, Denials
  <2>2. ASSUME NEW n \in Nat, Advance(n) PROVE req'.result = req.result /\ req'.kind = req.kind
    BY <2>2 DEF Advance, Requests
  <2> QED BY <1>2, <2>1, <2>2
          DEF Unavailable, Limited, Execute, Dispatch, SampleCompared, Revisit, Awaited, Finish, Requests
<1>3. CASE EnforceGranted \/ CanGranted \/ Sampled \/ Begin \/ Registered
  BY <1>3 DEF EnforceGranted, CanGranted, Grant, Sampled, Begin, Registered, Requests
<1>4. CASE CanDenied
  BY <1>4 DEF CanDenied, Requests
<1>5. CASE Disclose
  <2>1. "FORBIDDEN" \in Results \ {"none", "ok"}
    BY DEF Results, Denials
  <2> QED BY <1>5, <2>1 DEF Disclose, Requests
<1>6. CASE CallerAborts
  BY <1>6 DEF CallerAborts
<1>7. CASE GrantsChange \/ Restart
  BY <1>7 DEF GrantsChange, Restart
<1> QED BY <1>1, <1>2, <1>3, <1>4, <1>5, <1>6, <1>7 DEF RequestNext

\* Every step keeps what is known of the questions an answer is built on.
LEMMA ReliedStep ==
  ASSUME RequestTypeOK, ReliedIsAsked, RequestNext
  PROVE  ReliedIsAsked'
<1> USE DEF RequestTypeOK, ReliedIsAsked, Running
<1>0. req \in Requests /\ req.result = "none"
  BY RequestMoves
<1>1. CASE \E w \in Results \ {"none", "ok"} : Fail(w)
  BY <1>1, AfterFailure
<1>2. CASE EnforceGranted \/ CanGranted
  <2>1. /\ req'.asked = IF Scoping THEN req.asked \cup {Step.q} ELSE req.asked
        /\ req'.relied = IF Scoping THEN req.relied \cup {Step.q} ELSE req.relied
        /\ req'.scope = req.scope /\ req'.result = req.result
    BY <1>0, <1>2 DEF EnforceGranted, CanGranted, Grant, Requests
  <2>2. Scoping => req.scope \notin {"none", "closed"}
    BY DEF Scoping
  <2> QED BY <1>0, <2>1, <2>2
<1>3. CASE CanDenied
  <2>1. CASE Scoping
    <3>1. req'.asked = {} /\ req'.relied = {}
      BY <1>0, <1>3, <2>1 DEF CanDenied, Requests
    <3> QED BY <3>1
  <2>2. CASE ~Scoping
    <3>1. /\ req'.asked = req.asked /\ req'.relied = req.relied
          /\ req'.scope = req.scope /\ req'.result = req.result
      BY <1>0, <1>3, <2>2 DEF CanDenied, Requests
    <3> QED BY <1>0, <3>1
  <2> QED BY <2>1, <2>2
<1>4. CASE Awaited \/ Limited \/ Execute \/ Dispatch \/ SampleCompared \/ Revisit \/ Sampled
  <2>1. (\E w \in Results \ {"none", "ok"} : Fail(w)) \/ (\E n \in 1..2 : Advance(n)) \/ Sampled
    <3>1. {"TOO_MANY_REQUESTS", "CONFLICT"} \subseteq Results \ {"none", "ok"}
      BY DEF Results, Denials
    <3> QED BY <1>4, <3>1 DEF Awaited, Limited, Execute, Dispatch, SampleCompared, Revisit
  <2>2. CASE ~\E w \in Results \ {"none", "ok"} : Fail(w)
    <3>1. /\ req'.asked = req.asked /\ req'.relied = req.relied
          /\ req'.scope = req.scope /\ req'.result = req.result
      BY <1>0, <2>1, <2>2 DEF Advance, Sampled, Requests
    <3> QED BY <1>0, <3>1
  <2> QED BY <1>1, <2>2
<1>5. CASE Begin \/ Registered \/ Finish \/ Disclose
  <2>1. CASE ~\E w \in Results \ {"none", "ok"} : Fail(w)
    <3>1. "FORBIDDEN" \in Results \ {"none", "ok"}
      BY DEF Results, Denials
    <3>2. /\ req'.asked = req.asked /\ req'.relied = req.relied
          /\ req'.scope \in {"none", "closed"} => req.scope = req'.scope
      BY <1>0, <1>5, <2>1, <3>1 DEF Begin, Registered, Finish, Disclose, Requests
    <3> QED BY <1>0, <3>2
  <2> QED BY <1>1, <2>1
<1>6. CASE CallerAborts
  <2>1. req'.asked = req.asked /\ req'.relied = req.relied /\ req'.result = "gone"
    BY <1>0, <1>6 DEF CallerAborts, Requests
  <2> QED BY <2>1
<1>7. CASE GrantsChange \/ Restart
  BY <1>7 DEF GrantsChange, Restart
<1>8. CASE EnforceDenied \/ Unavailable
  <2>1. /\ Refusals(Step.q) \subseteq Results \ {"none", "ok"}
        /\ "SERVICE_UNAVAILABLE" \in Results \ {"none", "ok"}
    BY DEF Refusals, Results, Denials
  <2> QED BY <1>1, <1>8, <2>1 DEF EnforceDenied, Unavailable
<1> QED BY <1>2, <1>3, <1>4, <1>5, <1>6, <1>7, <1>8 DEF RequestNext

\* What is granted now was granted since the last await; only Auth and the host change it.
LEMMA GrantedStep ==
  ASSUME RequestTypeOK, granted \subseteq ever, RequestNext
  PROVE  /\ granted' \subseteq ever'
         /\ granted' = granted \/ (ever \subseteq ever' /\ UNCHANGED req)
  BY DEF RequestNext, EnforceGranted, EnforceDenied, CanGranted, CanDenied, Unavailable, Awaited,
         Limited, Execute, Dispatch, Sampled, SampleCompared, Revisit, Begin, Registered, Finish, Disclose,
         CallerAborts, GrantsChange, Restart

\* What a step that goes on does to where the request is in its script.
Keeps == req'.kind = req.kind /\ req'.scoped = req.scoped
\* On to the next step, past steps that were skipped, past what is hidden, from the start again,
\* or past a step of a scope.
Passes ==
  /\ req.pc \in DOMAIN Steps /\ Step.do \notin OfScopes
  /\ Step.do = "visible" => req.shows
  /\ Step.do = "enforce" => Step.q \in granted
  /\ Keeps /\ req'.pc = req.pc + 1 /\ req'.scope = req.scope /\ req'.shows = req.shows
Skips ==
  /\ req.pc \in DOMAIN Steps /\ Step.do = "can" /\ ~Scoping
  /\ Keeps /\ req'.pc = req.pc + 1 + Step.over /\ req'.scope = req.scope
  /\ req'.shows => req.shows
Hides ==
  /\ req.pc \in DOMAIN Steps /\ Step.do = "visible" /\ ~req.shows
  /\ Keeps /\ req'.pc = req.pc + 2 /\ req'.scope = req.scope /\ req'.shows = req.shows
Starts ==
  /\ req'.kind = req.kind /\ req'.pc = 1 /\ req'.scope = "closed" /\ req'.shows = req.shows
Scopes ==
  /\ req.pc \in DOMAIN Steps /\ Keeps /\ req'.pc = req.pc + 1 /\ req'.shows = req.shows
  /\ \/ Step.do = "begin" /\ req'.scope = "open"
     \/ Step.do = "register" /\ req'.scope = "registered"
     \/ Step.do = "finish" /\ req'.scope = "finished"

\* Every step that goes on is one of these, and only an await of something else forgets.
LEMMA Movement ==
  ASSUME RequestTypeOK, RequestNext, GoesOn
  PROVE  /\ UNCHANGED req \/ Passes \/ Skips \/ Hides \/ Starts \/ Scopes
         /\ \/ ever \subseteq ever'
            \/ /\ req.pc \in DOMAIN Steps /\ Step.do \in {"await", "limit", "sample"}
               /\ Passes
<1> USE DEF GoesOn, Running, At, Keeps, RequestTypeOK
<1>0. req \in Requests /\ req.result = "none"
  BY RequestMoves
<1>1. CASE EnforceGranted
  <2>1. Passes
    BY <1>0, <1>1 DEF EnforceGranted, Grant, Passes, Requests, OfScopes
  <2> QED BY <1>1, <2>1 DEF EnforceGranted
<1>2. CASE CanGranted
  <2>1. Passes
    BY <1>0, <1>2 DEF CanGranted, Grant, Passes, Requests, OfScopes
  <2> QED BY <1>2, <2>1 DEF CanGranted
<1>3. CASE CanDenied
  <2>1. CASE Scoping
    <3>1. Starts
      BY <1>0, <1>3, <2>1 DEF CanDenied, Starts, Requests, Scoping, ScopeClosed
    <3> QED BY <1>3, <3>1 DEF CanDenied
  <2>2. CASE ~Scoping
    <3>1. Skips
      BY <1>0, <1>3, <2>2 DEF CanDenied, Skips, Requests
    <3> QED BY <1>3, <3>1 DEF CanDenied
  <2> QED BY <2>1, <2>2
<1>4. CASE Awaited \/ Limited \/ Sampled
  <2>1. Advance(1) \/ req' = [req EXCEPT !.pc = @ + 1, !.seen = @ \cup {generation}]
    BY <1>0, <1>4 DEF Awaited, Limited, Sampled, Fail, Requests
  <2>2. req.pc \in DOMAIN Steps /\ Step.do \in {"await", "limit", "sample"}
    BY <1>4 DEF Awaited, Limited, Sampled
  <2>3. Passes
    BY <1>0, <2>1, <2>2 DEF Advance, Passes, Requests, OfScopes
  <2> QED BY <2>2, <2>3
<1>5. CASE Execute \/ Dispatch \/ SampleCompared
  <2>1. Advance(1)
    BY <1>0, <1>5 DEF Execute, Dispatch, SampleCompared, Fail, Requests
  <2>2. Passes
    BY <1>0, <1>5, <2>1 DEF Advance, Passes, Requests, OfScopes, Execute, Dispatch,
           SampleCompared
  <2> QED BY <1>5, <2>2 DEF Execute, Dispatch, SampleCompared
<1>6. CASE Revisit
  <2>1. Passes \/ Hides
    BY <1>0, <1>6 DEF Revisit, Advance, Passes, Hides, Requests, OfScopes
  <2> QED BY <1>6, <2>1 DEF Revisit
<1>7. CASE Begin \/ Registered \/ Finish
  <2>1. ~Fail("FORBIDDEN")
    BY <1>0 DEF Fail, Requests
  <2>2. Scopes
    BY <1>0, <1>7, <2>1 DEF Begin, Registered, Finish, Scopes, Requests
  <2> QED BY <1>7, <2>2 DEF Begin, Registered, Finish
<1>8. CASE GrantsChange \/ Restart
  BY <1>8 DEF GrantsChange, Restart
<1>9. CASE EnforceDenied \/ Unavailable \/ CallerAborts \/ Disclose
  <2>1. \A w : Fail(w) => req'.result = w
    BY <1>0 DEF Fail, Requests
  <2>2. req'.result # "none"
    BY <1>0, <1>9, <2>1 DEF EnforceDenied, Unavailable, CallerAborts, Disclose, Refusals, Requests
  <2> QED BY <2>2
<1> QED BY <1>1, <1>2, <1>3, <1>4, <1>5, <1>6, <1>7, <1>8, <1>9 DEF RequestNext

\* Every step keeps what is known of the scope.
LEMMA ScopeStep ==
  ASSUME RequestTypeOK, granted \subseteq ever, ScopeEndsAhead, FinishedByStatus, RequestNext
  PROVE  ScopeEndsAhead' /\ FinishedByStatus' /\ ScopesEnd'
<1> USE DEF RequestTypeOK
<1>0. /\ req.kind \in Kinds /\ req.scoped \in BOOLEAN /\ req.pc \in Nat /\ Running
      /\ Steps \in Seq(HandlerSteps)
  BY RequestMoves, ScriptTyped DEF Requests, Steps
<1>1. CASE \E w \in Results \ {"none", "ok"} : Fail(w)
  <2>1. ~Running' /\ req'.scope \notin {"open", "registered"} /\ req'.result # "ok"
    BY <1>1, AfterFailure
  <2> QED BY <2>1 DEF ScopeEndsAhead, FinishedByStatus, ScopesEnd
<1>2. CASE CallerAborts
  <2>1. ~Running' /\ req'.scope \notin {"open", "registered"} /\ req'.result # "ok"
    BY <1>2 DEF CallerAborts, ScopeClosed, Requests, Running
  <2> QED BY <2>1 DEF ScopeEndsAhead, FinishedByStatus, ScopesEnd
<1>3. CASE Disclose /\ req'.result = "ok"
  <2>1. /\ req.pc = Len(Steps) + 1
        /\ req.scope = "registered" => req.asked \subseteq granted
        /\ req' = [req EXCEPT !.result = "ok",
                             !.scope = IF @ = "registered" THEN "finished" ELSE @]
        /\ ever' = ever
    BY <1>3 DEF Disclose, Fail, Requests
  <2>2. req.scope # "open"
    BY <2>1, <1>0 DEF ScopeEndsAhead
  <2>3. /\ req'.result = "ok" /\ req'.asked = req.asked /\ req'.kind = req.kind
        /\ req'.scope = IF req.scope = "registered" THEN "finished" ELSE req.scope
    BY <2>1 DEF Requests
  <2>4. req.scope = "finished" => req.kind = "status"
    BY <1>0 DEF FinishedByStatus
  <2> QED BY <2>1, <2>2, <2>3, <2>4, <1>0 DEF ScopeEndsAhead, FinishedByStatus, ScopesEnd, Running
<1>4. CASE GoesOn
  <2>1. ScopesEnd'
    BY <1>4 DEF GoesOn, ScopesEnd, Running
  <2>2. CASE UNCHANGED req
    BY <2>1, <2>2 DEF ScopeEndsAhead, FinishedByStatus, Running, Steps
  <2>3. CASE Starts
    BY <2>1, <2>3 DEF Starts, ScopeEndsAhead, FinishedByStatus
  <2>4. ASSUME Keeps PROVE Steps' = Steps
    BY <2>4 DEF Keeps, Steps
  <2>5. CASE Passes \/ Skips \/ Hides
    <3>1. FinishedByStatus'
      BY <1>0, <2>5 DEF Passes, Skips, Hides, Keeps, FinishedByStatus
    <3>2. ASSUME req'.scope = "open"
          PROVE  \E r \in 1..Len(Steps) : ScopeEndsAt(Steps, r) /\ req'.pc <= r
      <4>1. req.scope = "open" /\ req.pc \in DOMAIN Steps
        BY <2>5, <3>2 DEF Passes, Skips, Hides
      <4>2. PICK r \in 1..Len(Steps) : ScopeEndsAt(Steps, r) /\ req.pc <= r
        BY <1>0, <4>1 DEF ScopeEndsAhead
      <4>3. req.pc # r
        <5>1. Steps[r].do \in {"register", "finish"}
          BY <4>2 DEF ScopeEndsAt
        <5> QED BY <5>1, <2>5 DEF Passes, Skips, Hides, Step, OfScopes
      <4>4. req.pc \in 1..(r - 1)
        BY <4>1, <4>2, <4>3, <1>0
      <4>5. Step.do \notin Exits /\ (Step.do = "can" => req.pc + Step.over < r)
        BY <4>2, <4>4 DEF ScopeEndsAt, Step
      <4>6. req'.pc <= r
        <5>1. CASE Passes
          BY <5>1, <4>4 DEF Passes
        <5>2. CASE Skips
          <6>1. Step.over \in Nat
            BY <4>1, <5>2, StepTyped DEF Skips
          <6> QED BY <5>2, <6>1, <4>4, <4>5 DEF Skips
        <5>3. CASE Hides
          BY <5>3, <4>5 DEF Hides, Exits
        <5> QED BY <2>5, <5>1, <5>2, <5>3
      <4> QED BY <4>2, <4>6
    <3>3. Keeps
      BY <2>5 DEF Passes, Skips, Hides
    <3>4. ScopeEndsAhead'
      BY <2>4, <3>2, <3>3 DEF ScopeEndsAhead
    <3> QED BY <2>1, <3>1, <3>4
  <2>6. CASE Scopes
    <3>1. Step.do \in OfScopes /\ Keeps /\ req'.pc = req.pc + 1 /\ req.pc \in DOMAIN Steps
      BY <2>6 DEF Scopes, OfScopes
    <3>2. OpensScope(req.kind, req.scoped)
      <4>1. ASSUME Piece(Steps, OfScopes) PROVE FALSE
        BY <3>1, <4>1 DEF Piece, Step
      <4> QED BY <1>0, <4>1, ScopelessScript DEF Steps
    <3>3. PICK r : ScopeEndsAt(Steps, r) /\ (Steps[r].do = "finish" => req.kind = "status")
      BY <1>0, <3>2, ScopedScript DEF Steps
    <3>4. /\ r \in 1..Len(Steps) /\ Steps[r].do \in {"register", "finish"}
          /\ \A i \in 1..(r - 1) : Steps[i].do \notin Exits
          /\ \A i \in (r + 1)..Len(Steps) : Steps[i].do \notin OfScopes
      BY <3>3, <1>0 DEF ScopeEndsAt
    <3>5. req.pc <= r
      BY <3>1, <3>4, <1>0 DEF Step
    <3>6. CASE Step.do = "begin" /\ req'.scope = "open"
      <4>1. req.pc # r
        BY <3>4, <3>6 DEF Step
      <4>2. req'.pc <= r
        BY <3>1, <3>4, <3>5, <4>1, <1>0
      <4>3. ScopeEndsAhead'
        BY <2>4, <3>1, <3>3, <3>4, <4>2 DEF ScopeEndsAhead
      <4> QED BY <2>1, <3>6, <4>3 DEF FinishedByStatus
    <3>7. CASE Step.do = "register" /\ req'.scope = "registered"
      BY <2>1, <3>7 DEF FinishedByStatus, ScopeEndsAhead
    <3>8. CASE Step.do = "finish" /\ req'.scope = "finished"
      <4>1. req.pc = r
        BY <3>1, <3>4, <3>5, <3>8, <1>0 DEF Step, Exits
      <4>2. req.kind = "status"
        BY <3>3, <3>8, <4>1 DEF Step
      <4> QED BY <2>1, <3>1, <3>8, <4>2 DEF FinishedByStatus, ScopeEndsAhead, Keeps
    <3> QED BY <2>6, <3>6, <3>7, <3>8 DEF Scopes
  <2> QED BY <1>4, <2>2, <2>3, <2>5, <2>6, Movement
<1> QED BY <1>1, <1>2, <1>3, <1>4, RequestMoves

\* Every step keeps what the closing has asked fresh.
LEMMA FreshStep ==
  ASSUME RequestTypeOK, granted \subseteq ever, AskedIsFresh, RequestNext
  PROVE  AskedIsFresh'
<1> USE DEF RequestTypeOK
<1>0. /\ req.kind \in Kinds /\ req.scoped \in BOOLEAN /\ req.pc \in Nat /\ Running
      /\ Steps \in Seq(HandlerSteps) /\ granted' \subseteq ever'
      /\ req'.kind \in Kinds /\ req'.scoped \in BOOLEAN
  BY RequestMoves, RequestTypeStep, ScriptTyped, GrantedStep DEF Requests, Steps
<1>1. CASE ~GoesOn
  <2>1. ~Running'
    <3>1. CASE \E w \in Results \ {"none", "ok"} : Fail(w)
      BY <3>1, AfterFailure
    <3>2. CASE CallerAborts
      BY <3>2 DEF CallerAborts, Requests, Running
    <3> QED BY <1>1, <3>1, <3>2, RequestMoves DEF Running
  <2> QED BY <2>1 DEF AskedIsFresh
<1>2. CASE UNCHANGED req /\ GoesOn
  <2>1. ever \subseteq ever'
    BY <1>0, <1>2, Movement DEF Passes
  <2> QED BY <1>0, <1>2, <2>1 DEF AskedIsFresh
<1>3. CASE Starts
  <2>1. ASSUME req'.kind \in Answering,
               NEW t, t = Closing(req'.kind, req'.scoped), NEW i \in 1..Len(t)
        PROVE  ~(Place(req'.kind, req'.scoped) + i < req'.pc)
    <3>1. Place(req'.kind, req'.scoped) \in 0..Len(Script(req'.kind, req'.scoped)) /\ Len(t) \in Nat
      BY <1>0, <2>1, ClosingPlace, ClosingShape
    <3> QED BY <1>3, <3>1 DEF Starts
  <2> QED BY <2>1 DEF AskedIsFresh
<1>4. CASE GoesOn /\ (Passes \/ Skips \/ Hides \/ Scopes)
  <2>0. Keeps /\ req.pc \in 1..Len(Steps) /\ (req'.shows => req.shows)
    BY <1>0, <1>4 DEF Passes, Skips, Hides, Scopes
  <2> SUFFICES ASSUME req.kind \in Answering,
                      NEW t, t = Closing(req.kind, req.scoped),
                      NEW f, f = Place(req.kind, req.scoped), req'.pc <= f + Len(t) + 1,
                      NEW i \in 1..Len(t), f + i < req'.pc,
                      t[i].do = "enforce", t[i].q = "list" /\ req.kind = "inspect" => req'.shows
               PROVE  t[i].q \in ever'
    BY <2>0 DEF AskedIsFresh, Keeps
  <2>1. /\ f \in Nat /\ Len(t) \in Nat /\ t \in Seq(HandlerSteps)
        /\ ClosesAt(Steps, f, t, Remaining(req.kind))
    BY <1>0, ClosingPlace, ClosingShape DEF Steps
  <2>2. req.pc > f
    <3> SUFFICES ASSUME ~(req.pc > f) PROVE FALSE
      OBVIOUS
    <3>0. req.pc \in 1..f
      BY <1>0, <2>0, <2>1
    <3>1. Step.do \notin Writing /\ (Step.do = "can" => req.pc + Step.over <= f)
      <4>1. \A n \in 1..f : Steps[n].do \notin Writing
                            /\ (Steps[n].do = "can" => n + Steps[n].over <= f)
        BY <2>1 DEF ClosesAt
      <4> QED BY <3>0, <4>1 DEF Step
    <3>2. req'.pc <= f + 1
      <4>1. CASE Passes \/ Scopes
        BY <1>0, <2>1, <4>1 DEF Passes, Scopes
      <4>2. CASE Skips
        <5>1. Step.over \in Nat
          BY <4>2, StepTyped DEF Skips
        <5> QED BY <1>0, <2>1, <3>1, <4>2, <5>1 DEF Skips
      <4>3. CASE Hides
        BY <3>1, <4>3 DEF Hides, Writing
      <4> QED BY <1>4, <4>1, <4>2, <4>3
    <3> QED BY <3>2, <2>1, <1>0, RequestTypeStep DEF Requests
  <2> DEFINE j == req.pc - f
  <2>3. req.pc < req'.pc
    <3>1. Step.do = "can" => Step.over \in Nat
      BY <1>0, <2>0, StepTyped
    <3> QED BY <1>0, <1>4, <3>1 DEF Passes, Skips, Hides, Scopes
  <2>4. j \in 1..Len(t) /\ req.pc = f + j
    BY <1>0, <2>1, <2>2, <2>3, RequestTypeStep DEF Requests
  <2>5. Step = t[j]
    BY <2>1, <2>4 DEF ClosesAt, Step
  <2> HIDE DEF j
  <2>6. /\ t[j].do \in {"enforce", "effect", "query", "visible", "finish"}
        /\ t[j].do = "visible" => t[j + 1].q = "list" /\ req.kind = "inspect"
    <3>1. j \in DOMAIN t
      BY <2>1, <2>4
    <3> QED BY <1>0, <3>1, ClosingShape
  <2>7. ever \subseteq ever' /\ ~Skips
    BY <1>4, <2>5, <2>6, Movement DEF Skips
  <2>8. CASE i < j
    <3>1. req.pc <= f + Len(t) + 1 /\ f + i < req.pc
      BY <2>1, <2>4, <2>8
    <3>2. t[i].q \in ever
      BY <1>0, <2>0, <3>1 DEF AskedIsFresh
    <3> QED BY <2>7, <3>2
  <2>9. CASE i = j
    BY <1>0, <1>4, <2>5, <2>7, <2>9 DEF Passes, Hides, Scopes
  <2>10. CASE i > j
    <3>1. Hides
      BY <1>4, <2>1, <2>4, <2>7, <2>10 DEF Passes, Scopes
    <3>2. i = j + 1
      BY <2>1, <2>4, <2>10, <3>1 DEF Hides
    <3> QED BY <2>5, <2>6, <3>1, <3>2 DEF Hides
  <2> QED BY <2>4, <2>8, <2>9, <2>10
<1> QED BY <1>1, <1>2, <1>3, <1>4, Movement

\* What is known of a request holds of one that has just been admitted.
LEMMA RequestStarts ==
  ASSUME RequestInit
  PROVE  RequestInv
<1> PICK kind \in Kinds, scoped \in Scoped :
      req = [kind |-> kind, scoped |-> scoped, pc |-> 1, scope |-> "none", asked |-> {},
             relied |-> {}, shows |-> TRUE, seen |-> {}, result |-> "none"]
  BY DEF RequestInit
<1>1. RequestTypeOK /\ granted \subseteq ever
  BY ScopedAssumption DEF RequestInit, RequestTypeOK, Requests, Results
<1>2. ScopeEndsAhead /\ FinishedByStatus /\ ScopesEnd /\ ReliedIsAsked
  BY DEF ScopeEndsAhead, FinishedByStatus, ScopesEnd, ReliedIsAsked, Running
<1>3. ASSUME req.kind \in Answering,
             NEW t, t = Closing(req.kind, req.scoped), NEW i \in 1..Len(t)
      PROVE  ~(Place(req.kind, req.scoped) + i < req.pc)
  <2>1. Place(req.kind, req.scoped) \in 0..Len(Script(req.kind, req.scoped)) /\ Len(t) \in Nat
    BY <1>1, <1>3, ClosingPlace, ClosingShape DEF RequestTypeOK, Requests
  <2> QED BY <2>1
<1> QED BY <1>1, <1>2, <1>3 DEF RequestInv, AskedIsFresh

\* And every step keeps it.
LEMMA RequestStep ==
  ASSUME RequestInv, [RequestNext]_requestVars
  PROVE  RequestInv'
<1>1. CASE RequestNext
  BY <1>1, RequestTypeStep, GrantedStep, ScopeStep, ReliedStep, FreshStep DEF RequestInv
<1>2. CASE UNCHANGED requestVars
  BY <1>2 DEF requestVars, RequestInv, RequestTypeOK, ScopeEndsAhead, FinishedByStatus, ScopesEnd,
         ReliedIsAsked, AskedIsFresh, Running, Steps
<1> QED BY <1>1, <1>2

\* The inductive invariant of one request: where a scope ends, and what was asked since the last
\* await, whatever the host or Auth does meanwhile.
THEOREM RequestsInductive == RequestSpec => []RequestInv
<1> QED BY RequestStarts, RequestStep, PTL DEF RequestSpec

\* The handlers, their scopes and their questions keep their type, on every deployment.
THEOREM RequestsAreTyped == RequestSpec => []RequestTypeOK
<1>1. RequestInv => RequestTypeOK
  BY DEF RequestInv
<1> QED BY <1>1, RequestsInductive, PTL

\* No read scope survives its request: closeRead in the catch of whoever began it, finishRead
\* before anything is disclosed.
THEOREM ScopesEndWithTheirRequest == RequestSpec => []ScopesEnd
<1>1. RequestInv => ScopesEnd
  BY DEF RequestInv
<1> QED BY <1>1, RequestsInductive, PTL

\* What an answer is built on out of a read scope holds together: it is granted at the moment the
\* scope is finished (finishRead), or the scope was retired and all of it asked afresh.
THEOREM ScopedAnswersAgree == RequestSpec => ScopedAnswersHoldTogether
<1>1. ASSUME RequestInv, [RequestNext]_requestVars, Finish, req'.result = "none"
      PROVE  req.relied \subseteq granted
  <2>1. ~Fail("FORBIDDEN")
    BY <1>1 DEF Fail, RequestInv, RequestTypeOK, Requests
  <2> QED BY <1>1, <2>1 DEF Finish, RequestInv, ReliedIsAsked
<1>2. ASSUME RequestInv, [RequestNext]_requestVars, Disclose, req'.result = "ok",
             req.scope # "finished"
      PROVE  req.relied \subseteq granted
  <2>0. /\ Running /\ req.pc = Len(Steps) + 1 /\ req.pc \in Nat /\ Len(Steps) \in Nat
        /\ req.scope \in ScopeStates
    <3>1. Steps \in Seq(HandlerSteps)
      BY <1>2, ScriptTyped DEF RequestInv, RequestTypeOK, Requests, Steps
    <3> QED BY <1>2, <3>1 DEF RequestInv, RequestTypeOK, Requests, Disclose, ScopeStates
  <2>1. req.scope # "open"
    BY <1>2, <2>0 DEF RequestInv, ScopeEndsAhead
  <2>2. CASE req.scope = "registered"
    <3>1. ~Fail("FORBIDDEN")
      BY <1>2 DEF Fail, RequestInv, RequestTypeOK, Requests
    <3> QED BY <1>2, <2>2, <3>1 DEF Disclose, RequestInv, ReliedIsAsked
  <2>3. CASE req.scope \in {"none", "closed"}
    BY <1>2, <2>0, <2>3 DEF RequestInv, ReliedIsAsked
  <2> QED BY <1>2, <2>0, <2>1, <2>2, <2>3 DEF ScopeStates
<1> QED BY <1>1, <1>2, RequestsInductive, PTL DEF RequestSpec, ScopedAnswersHoldTogether

\* Where a request of the kinds that need authority is, when it writes or answers.
LEMMA ClosingDone ==
  ASSUME RequestInv, Running, req.kind \in Answering,
         NEW t, t = Closing(req.kind, req.scoped), NEW f, f = Place(req.kind, req.scoped),
         f + Len(t) <= req.pc, req.pc <= f + Len(t) + 1,
         req.pc = f + Len(t) => t[Len(t)].do # "enforce"
  PROVE  Requires \subseteq ever
<1>0. req.scoped \in BOOLEAN /\ req.kind \in Kinds /\ req.pc \in Nat
  BY DEF RequestInv, RequestTypeOK, Requests
<1>1. f \in Nat /\ Len(t) \in Nat /\ DOMAIN t = 1..Len(t)
  BY <1>0, ClosingPlace, ClosingShape
<1> SUFFICES ASSUME NEW q \in Requires PROVE q \in ever
  OBVIOUS
<1>2. PICK i \in DOMAIN t : /\ t[i].do = "enforce" /\ t[i].q = q
                            /\ q = "list" /\ req.kind = "inspect" => req.shows
  BY <1>0, ClosingAsks
<1>3. f + i < req.pc
  <2>1. req.pc = f + Len(t) => i # Len(t)
    BY <1>2
  <2> QED BY <1>0, <1>1, <1>2, <2>1
<1> QED BY <1>0, <1>1, <1>2, <1>3 DEF RequestInv, AskedIsFresh

\* Every call of a provider for the caller, and every answer of a read that is checked again,
\* happens on authority granted at some moment after the last await of anything else, for every
\* kind of request and deployment.
THEOREM AuthorityStaysFresh == RequestSpec => AuthorityIsFresh
<1>1. ASSUME RequestInv, [RequestNext]_requestVars, Execute \/ Dispatch
      PROVE  Requires \subseteq ever
  <2>0. /\ req.scoped \in BOOLEAN /\ req.kind \in Kinds /\ req.pc \in Nat /\ Running
        /\ Steps \in Seq(HandlerSteps) /\ req.pc \in 1..Len(Steps)
        /\ Step.do \in {"effect", "query"}
    BY <1>1, ScriptTyped DEF RequestInv, RequestTypeOK, Requests, Execute, Dispatch, At, Steps
  <2>1. CASE req.kind \notin Answering
    BY <2>1 DEF Requires, Answering, Reads, Writes
  <2>2. CASE req.kind \in Answering
    <3> DEFINE t == Closing(req.kind, req.scoped)
               f == Place(req.kind, req.scoped)
               j == req.pc - f
    <3>1. f \in Nat /\ Len(t) \in Nat /\ ClosesAt(Steps, f, t, Remaining(req.kind))
          /\ DOMAIN t = 1..Len(t)
      BY <2>0, <2>2, ClosingPlace, ClosingShape DEF Steps
    <3>2. \A i \in DOMAIN t : t[i].do \in {"effect", "query"} => i = Len(t)
      BY <2>0, <2>2, ClosingShape
    <3> HIDE DEF t, f
    <3>3. j \in 1..Len(t) /\ Step = t[j] /\ req.pc = f + j
      BY <2>0, <3>1 DEF ClosesAt, Step, Writing
    <3>4. j = Len(t)
      BY <2>0, <3>1, <3>2, <3>3
    <3> QED BY <1>1, <2>0, <2>2, <3>1, <3>3, <3>4, ClosingDone DEF t, f
  <2> QED BY <2>1, <2>2
<1>2. ASSUME RequestInv, Disclose, req'.result = "ok", req.kind \in Rechecked
      PROVE  Requires \subseteq ever
  <2>0. /\ req.scoped \in BOOLEAN /\ req.kind \in Kinds /\ req.pc \in Nat /\ Running
        /\ Steps \in Seq(HandlerSteps) /\ req.pc = Len(Steps) + 1 /\ req.kind \in Answering
    BY <1>2, ScriptTyped
       DEF RequestInv, RequestTypeOK, Requests, Disclose, Steps, Answering, Rechecked, Reads
  <2> DEFINE t == Closing(req.kind, req.scoped)
             f == Place(req.kind, req.scoped)
  <2>1. f \in Nat /\ Len(t) \in Nat /\ ClosesAt(Steps, f, t, Remaining(req.kind))
    BY <2>0, ClosingPlace, ClosingShape DEF Steps
  <2>2. Remaining(req.kind) = <<>>
    BY <1>2 DEF Remaining, Calling, Writes, Rechecked
  <2> HIDE DEF t, f
  <2>3. req.pc = f + Len(t) + 1
    BY <2>0, <2>1, <2>2 DEF ClosesAt
  <2> QED BY <1>2, <2>0, <2>1, <2>3, ClosingDone DEF t, f
<1> QED BY <1>1, <1>2, RequestsInductive, PTL DEF RequestSpec, AuthorityIsFresh
=============================================================================
