------------------------ MODULE AgentConversationProofs ------------------------
(* For any number of keys, texts and copies: no text of the composer is run    *)
(* twice, as long as a retry is refused for its text only; and whether it is or*)
(* not, no session read puts anything older on the screen.                     *)
EXTENDS AgentConversation, SequenceTheorems, FiniteSetTheorems, TLAPS

\* The messages there are were made from texts and keys of the tab.
MadeHere ==
  /\ runs \in Seq(Message) /\ wire \subseteq Message
  /\ draft \in Drafts /\ keys \in 0..MaxKeys
  /\ attempt \in Message \cup {NoAttempt}

\* The submission whose outcome is unknown is of the text in the composer.
PendingIsShown == attempt # NoAttempt => attempt.draft = draft /\ attempt.key <= keys

\* What may still arrive is a copy of that submission, was accepted before, or is refused.
CopyOf(m, a) ==
  a # NoAttempt /\ m.key = a.key /\ m.draft = a.draft /\ m.try <= a.try
OnlyPendingArrives ==
  \A m \in wire : m.key <= keys /\ (CopyOf(m, attempt) \/ Accepted(m.key) \/ m.draft \in Unfit)

\* A copy arrives once, and what has run is fit and was sent.
CopiesArriveOnce ==
  \A i \in 1..Len(runs) :
    /\ runs[i] \notin wire /\ runs[i].key <= keys /\ runs[i].draft \notin Unfit
    /\ attempt # NoAttempt /\ runs[i].key = attempt.key => CopyOf(runs[i], attempt)

\* The text in the composer has been run by that submission only.
PendingRan ==
  \A i \in 1..Len(runs) :
    /\ runs[i].draft <= draft
    /\ runs[i].draft = draft => attempt # NoAttempt /\ runs[i].key = attempt.key

\* Nothing is sent before there is a session.
SessionFirst ==
  /\ ~session => runs = <<>> /\ wire = {}
  /\ writer = "creating" => ~session
  /\ writer \in {"creating", "starting"} => attempt # NoAttempt

IInv ==
  /\ MadeHere /\ PendingIsShown /\ OnlyPendingArrives /\ CopiesArriveOnce
  /\ PendingRan /\ SessionFirst /\ OneRunPerDraft

composed == <<runs, wire, draft, keys, attempt, session>>

USE ConversationAssumption

\* The steps that neither write nor serve a submission leave it alone.
LEMMA Elsewhere ==
  ASSUME IInv, UNCHANGED composed,
         writer' \notin {"creating", "starting"} \/ writer' = writer
  PROVE  IInv'
BY DEF IInv, composed, MadeHere, PendingIsShown, OnlyPendingArrives, CopiesArriveOnce, CopyOf,
       PendingRan, SessionFirst, OneRunPerDraft, Accepted

\* No text was run that is newer than the composer's.
LEMMA TextsRun ==
  ASSUME IInv
  PROVE  \A i \in 1..Len(runs) : runs[i].draft <= draft /\ runs[i].draft \in Int
<1>1. \A i \in 1..Len(runs) : runs[i] \in Message
  BY ElementOfSeq DEF IInv, MadeHere
<1> QED
  BY <1>1 DEF IInv, PendingRan, Message

\* A submission that arrives is a copy of the pending one, or does nothing.
LEMMA ArriveKeeps ==
  ASSUME IInv, NEW m \in wire, Arrive(m)
  PROVE  IInv'
<1>1. /\ UNCHANGED <<draft, keys, attempt, session, writer>> /\ wire' = wire \ {m}
      /\ m \in Message /\ m.key <= keys
  BY DEF Arrive, composer, IInv, MadeHere, OnlyPendingArrives
<1>2. session
  BY DEF IInv, SessionFirst
<1>3. CASE UNCHANGED runs
  BY <1>1, <1>2, <1>3 DEF IInv, MadeHere, PendingIsShown, OnlyPendingArrives, CopiesArriveOnce,
                          CopyOf, PendingRan, SessionFirst, OneRunPerDraft, Accepted
<1>4. CASE ~Accepted(m.key) /\ m.draft \notin Unfit /\ runs' = Append(runs, m)
  <2>1. runs \in Seq(Message)
    BY DEF IInv, MadeHere
  <2>2. /\ runs' \in Seq(Message) /\ Len(runs') = Len(runs) + 1 /\ Len(runs) \in Nat
        /\ \A i \in 1..Len(runs) : runs'[i] = runs[i]
        /\ runs'[Len(runs) + 1] = m
    BY <1>1, <1>4, <2>1, AppendProperties, LenProperties
  <2>3. CopyOf(m, attempt)
    BY <1>4 DEF IInv, OnlyPendingArrives
  <2>4. attempt # NoAttempt /\ m.key = attempt.key /\ m.draft = draft
    BY <1>1, <2>3 DEF IInv, PendingIsShown, CopyOf
  <2>5. \A i \in 1..Len(runs) : runs[i].draft # draft
    BY <1>4, <2>4 DEF IInv, PendingRan, Accepted
  <2>6. PendingRan'
    BY <1>1, <2>2, <2>4 DEF IInv, PendingRan, MadeHere, Drafts
  <2>7. OneRunPerDraft'
    BY <2>2, <2>4, <2>5 DEF IInv, OneRunPerDraft
  <2>8. OnlyPendingArrives'
    BY <1>1, <2>2 DEF IInv, OnlyPendingArrives, Accepted, CopyOf
  <2>9. CopiesArriveOnce'
    BY <1>1, <1>4, <2>2, <2>3 DEF IInv, CopiesArriveOnce, CopyOf
  <2> QED
    BY <1>1, <1>2, <2>2, <2>6, <2>7, <2>8, <2>9
       DEF IInv, MadeHere, PendingIsShown, SessionFirst
<1> QED
  BY <1>3, <1>4 DEF Arrive

\* A submission is new, or one more copy of the pending one.
LEMMA Dispatched ==
  ASSUME MadeHere, PendingIsShown, Send \/ Retry
  PROVE  /\ UNCHANGED <<runs, draft, session>>
         /\ keys <= keys' /\ keys \in Nat /\ keys' \in 0..MaxKeys
         /\ attempt' \in Message /\ attempt' # NoAttempt
         /\ attempt'.draft = draft /\ attempt'.key <= keys'
         /\ \/ attempt = NoAttempt /\ attempt'.key = keys + 1
            \/ /\ attempt # NoAttempt /\ attempt.key <= keys /\ attempt \in Message
               /\ attempt'.key = attempt.key /\ attempt'.draft = attempt.draft
               /\ attempt'.try = attempt.try + 1
         /\ session => wire' = wire \cup {attempt'} /\ writer' = "starting"
         /\ ~session => wire' = wire /\ writer' = "creating"
<1>1. CASE Send
  <2>1. /\ attempt' = [draft |-> draft, key |-> keys + 1, try |-> 1] /\ keys' = keys + 1
        /\ attempt = NoAttempt /\ UNCHANGED <<runs, draft, session>>
        /\ session => wire' = wire \cup {attempt'} /\ writer' = "starting"
        /\ ~session => wire' = wire /\ writer' = "creating"
    BY <1>1 DEF Send, Dispatch
  <2>2. draft \in 1..MaxDrafts /\ keys \in Nat /\ keys + 1 \in 1..MaxKeys /\ 1 \in 1..MaxTries
    BY <1>1 DEF Send, MadeHere, Drafts
  <2>3. /\ attempt' \in Message /\ attempt' # NoAttempt
        /\ attempt'.draft = draft /\ attempt'.key = keys + 1
    BY <2>1, <2>2 DEF Message, NoAttempt
  <2> QED
    BY <2>1, <2>2, <2>3
<1>2. CASE Retry
  <2>1. /\ attempt \in Message /\ attempt # NoAttempt /\ attempt.try < MaxTries /\ keys' = keys
        /\ attempt' = [attempt EXCEPT !.try = attempt.try + 1]
        /\ attempt.draft = draft /\ attempt.key <= keys
    BY <1>2 DEF Retry, Dispatch, MadeHere, PendingIsShown
  <2>2. /\ attempt' \in Message /\ attempt'.try = attempt.try + 1
        /\ attempt'.key = attempt.key /\ attempt'.draft = attempt.draft
    BY <2>1 DEF Message
  <2>3. attempt' # NoAttempt /\ keys \in Nat /\ keys \in 0..MaxKeys
    BY <2>2 DEF Message, NoAttempt, MadeHere
  <2> QED
    BY <1>2, <2>1, <2>2, <2>3 DEF Retry, Dispatch
<1> QED
  BY <1>1, <1>2

\* A new submission is of a text that has not been run.
LEMMA DispatchKeeps ==
  ASSUME IInv, Send \/ Retry
  PROVE  IInv'
<1> DEFINE m == attempt'
<1>1. /\ UNCHANGED <<runs, draft, session>>
      /\ keys <= keys' /\ keys \in Nat /\ keys' \in 0..MaxKeys
      /\ m \in Message /\ m # NoAttempt
      /\ m.draft = draft /\ m.key <= keys'
      /\ \/ attempt = NoAttempt /\ m.key = keys + 1
         \/ /\ attempt # NoAttempt /\ attempt.key <= keys /\ attempt \in Message
            /\ m.key = attempt.key /\ m.draft = attempt.draft /\ m.try = attempt.try + 1
      /\ session => wire' = wire \cup {m} /\ writer' = "starting"
      /\ ~session => wire' = wire /\ writer' = "creating"
  BY Dispatched DEF IInv
<1>2. /\ \A x \in wire : x \in Message /\ x.key \in Nat /\ x.try \in Nat
      /\ \A i \in 1..Len(runs) : runs[i] \in Message /\ runs[i].key \in Nat /\ runs[i].try \in Nat
  <2>1. wire \subseteq Message /\ \A i \in 1..Len(runs) : runs[i] \in Message
    BY ElementOfSeq DEF IInv, MadeHere
  <2> QED
    BY <2>1 DEF Message
<1>3. \A x : CopyOf(x, attempt) => CopyOf(x, attempt') \/ x.try \notin Nat
  BY <1>1 DEF CopyOf, Message
<1>4. CopyOf(m, attempt') /\ (attempt = NoAttempt => \A i \in 1..Len(runs) : runs[i].key # m.key)
  BY <1>1, <1>2 DEF CopyOf, Message, IInv, CopiesArriveOnce
<1>5. OnlyPendingArrives'
  BY <1>1, <1>2, <1>3, <1>4 DEF IInv, OnlyPendingArrives, Accepted
<1>6. CopiesArriveOnce'
  <2> SUFFICES ASSUME NEW i \in 1..Len(runs)
               PROVE  /\ runs[i] \notin wire' /\ runs[i].key <= keys'
                      /\ runs[i].draft \notin Unfit
                      /\ runs[i].key = m.key => CopyOf(runs[i], attempt')
    BY <1>1 DEF CopiesArriveOnce
  <2>1. /\ runs[i] \notin wire /\ runs[i].key <= keys /\ runs[i].draft \notin Unfit
        /\ attempt # NoAttempt /\ runs[i].key = attempt.key => CopyOf(runs[i], attempt)
    BY DEF IInv, CopiesArriveOnce
  <2>2. runs[i] # m
    <3>1. CASE attempt = NoAttempt
      BY <1>4, <3>1
    <3>2. CASE attempt # NoAttempt
      BY <1>1, <1>2, <2>1, <3>2 DEF CopyOf, Message
    <3> QED
      BY <3>1, <3>2
  <2> QED
    BY <1>1, <1>2, <1>3, <1>4, <2>1, <2>2
<1>7. MadeHere' /\ PendingIsShown' /\ OneRunPerDraft'
  BY <1>1 DEF IInv, MadeHere, PendingIsShown, OneRunPerDraft
<1>8. PendingRan'
  BY <1>1 DEF IInv, PendingRan
<1>9. SessionFirst'
  BY <1>1 DEF IInv, SessionFirst
<1> QED
  BY <1>5, <1>6, <1>7, <1>8, <1>9 DEF IInv

\* A submission is given up if it has not been run and cannot be: before it is sent, when
\* its only copy is refused, or when its text is.
LEMMA GiveUpKeeps ==
  ASSUME IInv, GiveUp, CreateFails \/ (StartRefused /\ ~Lapses)
  PROVE  IInv'
<1>1. /\ UNCHANGED <<runs, draft, keys, session>> /\ attempt' = NoAttempt /\ writer' = "idle"
  BY DEF GiveUp
<1>2. CASE CreateFails
  <2>1. runs = <<>> /\ wire = {} /\ wire' = {}
    BY <1>2 DEF CreateFails, IInv, SessionFirst
  <2> QED
    BY <1>1, <2>1 DEF IInv, MadeHere, PendingIsShown, OnlyPendingArrives, CopiesArriveOnce,
                      PendingRan, SessionFirst, OneRunPerDraft
<1>3. CASE StartRefused /\ ~Lapses
  <2>1. /\ attempt \in wire /\ wire' = wire \ {attempt} /\ attempt # NoAttempt
        /\ attempt.try = 1 \/ attempt.draft \in Unfit
        /\ attempt \in Message /\ attempt.draft = draft
    BY <1>3 DEF StartRefused, IInv, SessionFirst, MadeHere, PendingIsShown
  <2>2. ASSUME NEW x \in Message, CopyOf(x, attempt), attempt.draft \notin Unfit
        PROVE  x = attempt
    BY <2>1, <2>2 DEF CopyOf, Message
  <2>3. \A x \in wire' : x \in Message /\ x.key <= keys /\ (Accepted(x.key) \/ x.draft \in Unfit)
    <3>1. \A x \in wire' : /\ x \in Message /\ x # attempt /\ x.key <= keys
                           /\ CopyOf(x, attempt) \/ Accepted(x.key) \/ x.draft \in Unfit
      BY <2>1 DEF IInv, MadeHere, OnlyPendingArrives
    <3>2. \A x \in wire' : CopyOf(x, attempt) => x.draft \in Unfit
      BY <2>2, <3>1 DEF CopyOf
    <3> QED
      BY <3>1, <3>2
  <2>4. \A i \in 1..Len(runs) : runs[i].draft # draft
    <3> SUFFICES ASSUME NEW i \in 1..Len(runs), runs[i].draft = draft
                 PROVE  FALSE
      OBVIOUS
    <3>1. /\ runs[i].key = attempt.key /\ runs[i] \in Message /\ runs[i].draft \notin Unfit
          /\ runs[i] \notin wire /\ CopyOf(runs[i], attempt)
      BY <2>1, ElementOfSeq DEF IInv, PendingRan, CopiesArriveOnce, MadeHere
    <3> QED
      BY <2>1, <2>2, <3>1
  <2>5. OnlyPendingArrives'
    BY <1>1, <2>3 DEF OnlyPendingArrives, Accepted
  <2>6. CopiesArriveOnce' /\ PendingRan'
    BY <1>1, <2>1, <2>4 DEF IInv, CopiesArriveOnce, PendingRan
  <2> QED
    BY <1>1, <2>1, <2>5, <2>6 DEF IInv, MadeHere, PendingIsShown, SessionFirst, OneRunPerDraft
<1> QED
  BY <1>2, <1>3

\* An accepted submission makes way for another text.
LEMMA StartReturnsKeeps ==
  ASSUME IInv, StartReturns
  PROVE  IInv'
<1>1. /\ UNCHANGED <<runs, wire, keys, session>> /\ attempt' = NoAttempt /\ writer' = "idle"
      /\ draft' = draft + 1 /\ writer = "starting" /\ Accepted(attempt.key)
  BY DEF StartReturns, service, Accepted
<1>2. draft \in 1..MaxDrafts
  BY <1>1 DEF IInv, SessionFirst, PendingIsShown, MadeHere, Message
<1>3. \A m \in wire : m.key <= keys /\ (Accepted(m.key) \/ m.draft \in Unfit)
  BY <1>1 DEF IInv, OnlyPendingArrives, CopyOf
<1>4. \A i \in 1..Len(runs) : runs[i].draft <= draft /\ runs[i].draft \in Int
  BY TextsRun
<1>5. draft' \in Drafts /\ draft' \in Int /\ draft < draft' /\ draft \in Int
  BY <1>1, <1>2 DEF Drafts
<1>6. PendingRan'
  BY <1>1, <1>4, <1>5 DEF PendingRan
<1>7. OnlyPendingArrives' /\ CopiesArriveOnce'
  BY <1>1, <1>3 DEF IInv, OnlyPendingArrives, CopiesArriveOnce, Accepted
<1>8. MadeHere' /\ PendingIsShown' /\ SessionFirst' /\ OneRunPerDraft'
  BY <1>1, <1>5 DEF IInv, MadeHere, PendingIsShown, SessionFirst, OneRunPerDraft
<1> QED
  BY <1>6, <1>7, <1>8 DEF IInv

\* So does one that is not pending.
LEMMA EditKeeps ==
  ASSUME IInv, Edit
  PROVE  IInv'
<1>1. /\ UNCHANGED <<runs, wire, keys, session, attempt, writer>> /\ attempt = NoAttempt
      /\ draft' = draft + 1 /\ draft <= MaxDrafts
  BY DEF Edit, service
<1>2. \A i \in 1..Len(runs) : runs[i].draft <= draft /\ runs[i].draft \in Int
  BY TextsRun
<1>3. draft' \in Drafts /\ draft' \in Int /\ draft < draft' /\ draft \in Int
  BY <1>1 DEF Drafts, IInv, MadeHere
<1>4. PendingRan'
  BY <1>1, <1>2, <1>3 DEF PendingRan
<1>5. OnlyPendingArrives' /\ CopiesArriveOnce'
  BY <1>1 DEF IInv, OnlyPendingArrives, CopiesArriveOnce, CopyOf, Accepted
<1>6. MadeHere' /\ PendingIsShown' /\ SessionFirst' /\ OneRunPerDraft'
  BY <1>1, <1>3 DEF IInv, MadeHere, PendingIsShown, SessionFirst, OneRunPerDraft
<1> QED
  BY <1>4, <1>5, <1>6 DEF IInv

\* With the session, the first submission is sent.
LEMMA CreatedKeeps ==
  ASSUME IInv, writer = "creating", UNCHANGED <<runs, draft, keys, attempt>>, session',
         writer' = "starting", wire' = wire \cup {attempt}
  PROVE  IInv'
<1>1. /\ runs = <<>> /\ wire = {} /\ attempt # NoAttempt /\ attempt \in Message
      /\ attempt.key <= keys
  BY DEF IInv, SessionFirst, MadeHere, PendingIsShown
<1>2. CopyOf(attempt, attempt)
  BY <1>1 DEF CopyOf, Message
<1>3. OnlyPendingArrives' /\ CopiesArriveOnce'
  BY <1>1, <1>2 DEF OnlyPendingArrives, CopiesArriveOnce, CopyOf
<1> QED
  BY <1>1, <1>3 DEF IInv, MadeHere, PendingIsShown, PendingRan, SessionFirst, OneRunPerDraft

\* Every step, while a retry is refused for its text only.
LEMMA StepKeeps ==
  ASSUME IInv, ~Lapses, [Next]_vars
  PROVE  IInv'
<1>1. CASE UNCHANGED vars
  BY <1>1, Elsewhere DEF vars, service, composer, composed
<1>2. CASE Service
  <2>1. CASE \E m \in wire : Arrive(m)
    BY <2>1, ArriveKeeps
  <2>2. CASE FinishRun \/ HandleCancel \/ FrameWatch \/ \E r \in Readers : ServeRead(r)
    BY <2>2, Elsewhere DEF FinishRun, HandleCancel, FrameWatch, ServeRead, service, composer, composed
  <2> QED
    BY <1>2, <2>1, <2>2 DEF Service
<1>3. CASE Write
  <2>1. CASE Send \/ Retry
    BY <2>1, DispatchKeeps
  <2>2. CASE CreateReturns
    <3>1. /\ UNCHANGED <<runs, draft, keys, attempt>> /\ writer = "creating"
          /\ session' /\ writer' = "starting" /\ wire' = wire \cup {attempt}
      BY <2>2 DEF CreateReturns, IInv, SessionFirst
    <3> QED
      BY <3>1, CreatedKeeps
  <2>3. CASE CreateFails
    BY <2>3, GiveUpKeeps DEF CreateFails
  <2>4. CASE StartReturns
    BY <2>4, StartReturnsKeeps
  <2>5. CASE StartRefused
    BY <2>5, GiveUpKeeps DEF StartRefused
  <2>6. CASE StartUnknown
    <3>1. /\ UNCHANGED <<runs, draft, keys, attempt, session>>
          /\ writer' = "idle" /\ wire' \subseteq wire
      BY <2>6 DEF StartUnknown, composer
    <3> QED
      BY <3>1 DEF IInv, MadeHere, PendingIsShown, OnlyPendingArrives, CopiesArriveOnce, CopyOf,
                  PendingRan, SessionFirst, OneRunPerDraft, Accepted
  <2>7. CASE Edit
    BY <2>7, EditKeeps
  <2>8. CASE Stop \/ StopReturns \/ StopFails \/ Decide \/ DecideEnds \/ WriterReads \/ WriterReadFails
    BY <2>8, Elsewhere DEF Stop, StopReturns, StopFails, Decide, DecideEnds, WriterReads,
                           WriterReadFails, service, composer, composed
  <2> QED
    BY <1>3, <2>1, <2>2, <2>3, <2>4, <2>5, <2>6, <2>7, <2>8 DEF Write
<1>4. CASE Watch
  BY <1>4, Elsewhere DEF Watch, WatchSnapshot, WatchTool, WatchEnds, WatchResnapshot, WatchBreaks,
     WatchAsks, WatcherReads, WatcherReadFails, Reconnect, Toggle, Effect, service, composer, composed
<1> QED
  BY <1>1, <1>2, <1>3, <1>4 DEF Next

\* The first text has not been run.
LEMMA Initially == Init => IInv
<1> SUFFICES ASSUME Init PROVE IInv
  OBVIOUS
<1>1. runs \in Seq(Message) /\ Len(runs) = 0
  BY EmptySeq DEF Init
<1> QED
  BY <1>1 DEF Init, IInv, MadeHere, PendingIsShown, OnlyPendingArrives, CopiesArriveOnce,
              PendingRan, SessionFirst, OneRunPerDraft, Drafts, Accepted

\* Whatever answers and submissions are lost, late or repeated, and however often the
\* user retries: a text is run once, if a retry is refused for its text only
\* (conversation.ts: send).
THEOREM RunsOnce == ~Lapses => (Spec => []OneRunPerDraft)
<1>1. ~Lapses /\ IInv /\ [Next]_vars => IInv'
  BY StepKeeps
<1>2. IInv => OneRunPerDraft
  BY DEF IInv
<1> SUFFICES ASSUME ~Lapses PROVE Spec => []OneRunPerDraft
  OBVIOUS
<1>3. IInv /\ [Next]_vars => IInv'
  BY <1>1
<1> QED
  BY Initially, <1>2, <1>3, PTL DEF Spec
--------------------------------------------------------------------------------
(* What is on the screen, and on its way there, whether or not keys lapse.      *)

\* The tab's submissions and the service's runs; a key has one run.
Sent ==
  /\ MadeHere /\ PendingIsShown
  /\ \A i, j \in 1..Len(runs) : runs[i].key = runs[j].key => i = j
  /\ running \in BOOLEAN /\ (running => runs # <<>>)
  /\ session \in BOOLEAN /\ visible \in BOOLEAN /\ reconnect \in BOOLEAN /\ late \in BOOLEAN
  /\ writer \in {"idle", "creating", "starting", "stopping", "deciding",
                 "refreshing", "lastRefresh"}
  /\ writer \in {"creating", "starting"} => attempt # NoAttempt

\* The reads and the watchers that have learned no more than n.
ReadUpTo(n) == {NoRead} \cup [state : {"asked"}, value : {0}, latest : BOOLEAN]
                        \cup [state : {"served"}, value : 0..n, latest : BOOLEAN]
WatchUpTo(n) ==
  [pc : {"off", "open", "follow", "more", "last", "resnapshot", "broken"}, frame : {0}]
    \cup [pc : {"framed"}, frame : 0..n]

\* Whatever the tab has learned was true of the service at some time.
LearnedUpTo(n) ==
  /\ reads \in [Readers -> ReadUpTo(n)] /\ watch \in WatchUpTo(n)
  /\ reply \in 0..n /\ shown \in 0..n /\ run \in 0..n

\* One of the reads is to be shown, and what it has read is as late as what is shown.
LatestIsAhead ==
  /\ reads["writer"].latest => ~reads["watcher"].latest
  /\ reads["writer"].state # "none" => writer \in {"refreshing", "lastRefresh"}
  /\ \A r \in Readers : reads[r].latest /\ reads[r].state = "served" =>
       reads[r].value >= shown /\ RunIn(reads[r].value) >= RunIn(run)

Ahead == Sent /\ LearnedUpTo(Now) /\ LatestIsAhead

\* Every number is of a run: 2i - 1 or 2i for run i.
LEMMA Halves ==
  ASSUME NEW p \in Nat
  PROVE  /\ RunIn(p) \in Nat /\ p <= 2 * RunIn(p) /\ 2 * RunIn(p) - 1 <= p
BY DEF RunIn

LEMMA RunsInOrder ==
  ASSUME NEW p \in Nat, NEW q \in Nat, p <= q
  PROVE  RunIn(p) <= RunIn(q)
BY Halves

\* What is answered of run i is about run i, and not beyond what is answered of the session.
LEMMA StatusIsOf ==
  ASSUME NEW i \in Nat, NEW p \in Nat, NEW n \in Nat, p <= n, 2 * i - 1 <= n
  PROVE  StatusOf(i, p) \in 0..n /\ RunIn(StatusOf(i, p)) = i
<1>1. CASE 2 * i <= p
  <2>1. StatusOf(i, p) = 2 * i /\ 2 * i \in 0..n
    BY <1>1 DEF StatusOf
  <2>2. RunIn(2 * i) = i
    BY DEF RunIn
  <2> QED
    BY <2>1, <2>2
<1>2. CASE ~(2 * i <= p)
  <2>1. StatusOf(i, p) = 2 * i - 1 /\ 2 * i - 1 \in 0..n
    BY <1>2 DEF StatusOf
  <2>2. RunIn(2 * i - 1) = i
    BY DEF RunIn
  <2> QED
    BY <2>1, <2>2
<1> QED
  BY <1>1, <1>2

LEMMA NowIsSome ==
  ASSUME Sent
  PROVE  Now \in Nat /\ Len(runs) \in Nat /\ 2 * Len(runs) - 1 <= Now
<1>1. runs \in Seq(Message) /\ running \in BOOLEAN
  BY DEF Sent, MadeHere
<1>2. Len(runs) \in Nat
  BY <1>1, LenProperties
<1>3. running => Len(runs) # 0
  BY <1>1, EmptySeq DEF Sent
<1> QED
  BY <1>1, <1>2, <1>3 DEF Now

\* What is learned stays true.
LEMMA LearnedStays ==
  ASSUME NEW m \in Nat, NEW n \in Nat, m <= n, LearnedUpTo(m)
  PROVE  LearnedUpTo(n)
<1>1. 0..m \subseteq 0..n
  OBVIOUS
<1>2. ReadUpTo(m) \subseteq ReadUpTo(n)
  BY <1>1 DEF ReadUpTo
<1>3. WatchUpTo(m) \subseteq WatchUpTo(n)
  BY <1>1 DEF WatchUpTo
<1> QED
  BY <1>1, <1>2, <1>3 DEF LearnedUpTo
\* Steps that neither submit nor serve anything.
LEMMA SentElsewhere ==
  ASSUME Sent, UNCHANGED <<service, composer>>,
         writer' = writer \/ writer' \in {"idle", "stopping", "deciding", "refreshing", "lastRefresh"},
         visible' \in BOOLEAN, reconnect' \in BOOLEAN, late' \in BOOLEAN
  PROVE  Sent' /\ Now' = Now
BY DEF Sent, MadeHere, PendingIsShown, service, composer, Now

LEMMA RewatchIs ==
  ASSUME Sent, Rewatch
  PROVE  watch' \in {Off, Opened} /\ reconnect' \in BOOLEAN
BY DEF Rewatch, Sent

LEMMA SentArrive ==
  ASSUME Sent, NEW m \in wire, Arrive(m)
  PROVE  Sent' /\ Now' \in Nat /\ Now <= Now'
<1>1. /\ UNCHANGED <<composer, writer, visible, reconnect, late>> /\ wire' \subseteq wire
      /\ m \in Message /\ runs \in Seq(Message)
  BY DEF Arrive, Sent, MadeHere
<1>2. CASE UNCHANGED <<runs, running>>
  BY <1>1, <1>2, NowIsSome DEF Sent, MadeHere, PendingIsShown, composer, Now
<1>3. CASE ~Accepted(m.key) /\ ~running /\ runs' = Append(runs, m) /\ running'
  <2>1. /\ runs' \in Seq(Message) /\ Len(runs') = Len(runs) + 1 /\ Len(runs) \in Nat
        /\ \A i \in 1..Len(runs) : runs'[i] = runs[i]
        /\ runs'[Len(runs) + 1] = m
    BY <1>1, <1>3, AppendProperties, LenProperties
  <2>2. \A i, j \in 1..Len(runs') : runs'[i].key = runs'[j].key => i = j
    BY <1>3, <2>1 DEF Sent, Accepted
  <2>3. runs' # <<>>
    BY <2>1, EmptySeq
  <2>4. Now' = Now + 1 /\ Now \in Nat
    BY <1>3, <2>1 DEF Now
  <2>5. MadeHere' /\ PendingIsShown'
    BY <1>1, <2>1 DEF Sent, MadeHere, PendingIsShown, composer
  <2>6. running' = TRUE
    BY <1>1, <1>3 DEF Arrive
  <2> QED
    BY <1>1, <2>2, <2>3, <2>4, <2>5, <2>6 DEF Sent, composer
<1> QED
  BY <1>2, <1>3 DEF Arrive

\* The steps of a submission, and a new text.
LEMMA SentOn ==
  ASSUME Sent, \/ Send \/ Retry \/ CreateReturns \/ CreateFails \/ StartReturns
               \/ StartRefused \/ StartUnknown \/ Edit
  PROVE  Sent' /\ Now' = Now
<1>1. UNCHANGED <<runs, running>>
  BY DEF Send, Retry, Dispatch, CreateReturns, CreateFails, GiveUp, StartReturns, StartRefused,
         StartUnknown, Edit, service
<1>2. Now' = Now
  BY <1>1 DEF Now
<1>3. CASE Send \/ Retry
  <2>1. /\ UNCHANGED <<draft, session, visible, reconnect, late>>
        /\ keys' \in 0..MaxKeys /\ keys <= keys'
        /\ attempt' \in Message /\ attempt'.draft = draft /\ attempt'.key <= keys'
        /\ writer' \in {"creating", "starting"} /\ wire' \subseteq wire \cup {attempt'}
    <3>1. UNCHANGED <<visible, reconnect, late>>
      BY <1>3 DEF Send, Retry, Dispatch
    <3> QED
      BY <1>3, <3>1, Dispatched DEF Sent
  <2>2. attempt' # NoAttempt
    BY <1>3, Dispatched DEF Sent
  <2> QED
    BY <1>1, <1>2, <2>1, <2>2 DEF Sent, MadeHere, PendingIsShown
<1>4. CASE CreateReturns
  <2>1. /\ UNCHANGED <<draft, keys, attempt, visible, reconnect, late>> /\ session' = TRUE
        /\ writer' = "starting" /\ wire' = wire \cup {attempt} /\ attempt # NoAttempt
    BY <1>4 DEF CreateReturns, Sent
  <2> QED
    BY <1>1, <1>2, <2>1 DEF Sent, MadeHere, PendingIsShown
<1>5. CASE CreateFails \/ StartRefused
  <2>1. /\ UNCHANGED <<draft, keys, session, visible, reconnect, late>>
        /\ writer' = "idle" /\ wire' \subseteq wire /\ attempt' = NoAttempt
    BY <1>5 DEF CreateFails, StartRefused, GiveUp
  <2> QED
    BY <1>1, <1>2, <2>1 DEF Sent, MadeHere, PendingIsShown
<1>6. CASE StartReturns
  <2>1. /\ UNCHANGED <<wire, keys, session, visible>>
        /\ writer' = "idle" /\ attempt' = NoAttempt /\ draft' = draft + 1
        /\ late' \in BOOLEAN /\ writer = "starting"
    BY <1>6 DEF StartReturns, service, Sent
  <2>2. draft' \in Drafts
    BY <2>1 DEF Sent, PendingIsShown, MadeHere, Message, Drafts, NoAttempt
  <2>3. reconnect' \in BOOLEAN
    BY <1>6, RewatchIs DEF StartReturns
  <2> QED
    BY <1>1, <1>2, <2>1, <2>2, <2>3 DEF Sent, MadeHere, PendingIsShown
<1>7. CASE StartUnknown
  <2>1. /\ UNCHANGED <<draft, keys, session, attempt, visible, reconnect>>
        /\ writer' = "idle" /\ wire' \subseteq wire /\ late' \in BOOLEAN
    BY <1>7 DEF StartUnknown, composer, Sent
  <2> QED
    BY <1>1, <1>2, <2>1 DEF Sent, MadeHere, PendingIsShown
<1>8. CASE Edit
  <2>1. /\ UNCHANGED <<wire, keys, session, attempt, writer, visible, reconnect, late>>
        /\ draft' \in Drafts /\ attempt = NoAttempt
    BY <1>8 DEF Edit, service, Sent, MadeHere, Drafts
  <2> QED
    BY <1>1, <1>2, <2>1 DEF Sent, MadeHere, PendingIsShown
<1> QED
  BY <1>3, <1>4, <1>5, <1>6, <1>7, <1>8
\* Asking for the session leaves nothing on its way that would be shown.
LEMMA AskKeeps ==
  ASSUME NEW n \in Nat, reads \in [Readers -> ReadUpTo(n)],
         NEW r \in {"none", "writer", "watcher"}, Ask(r)
  PROVE  /\ reads' \in [Readers -> ReadUpTo(n)]
         /\ reads'["writer"].latest => ~reads'["watcher"].latest
         /\ \A q \in Readers : reads'[q].latest => reads'[q].state # "served"
         /\ r # "writer" => reads'["writer"].state = reads["writer"].state
<1>1. ASSUME NEW q \in Readers
      PROVE  /\ Supersede(q) \in ReadUpTo(n) /\ ~Supersede(q).latest
             /\ Supersede(q).state = reads[q].state
  <2>1. reads[q] \in ReadUpTo(n)
    OBVIOUS
  <2>2. CASE reads[q] = NoRead
    <3>1. reads[q] \in [state : {"none"}, value : {0}, latest : {FALSE}]
      BY <2>2 DEF NoRead
    <3>2. Supersede(q) \in [state : {"none"}, value : {0}, latest : {FALSE}]
      BY <3>1 DEF Supersede
    <3>3. \A x \in [state : {"none"}, value : {0}, latest : {FALSE}] :
            x = [state |-> x.state, value |-> x.value, latest |-> x.latest]
      OBVIOUS
    <3>4. Supersede(q) = NoRead
      BY <3>2, <3>3 DEF NoRead
    <3> QED
      BY <2>2, <3>4 DEF ReadUpTo, NoRead
  <2>3. CASE reads[q] \in [state : {"asked"}, value : {0}, latest : BOOLEAN]
    BY <2>3 DEF Supersede, ReadUpTo
  <2>4. CASE reads[q] \in [state : {"served"}, value : 0..n, latest : BOOLEAN]
    BY <2>4 DEF Supersede, ReadUpTo
  <2> QED
    BY <2>1, <2>2, <2>3, <2>4 DEF ReadUpTo
<1>2. Asked \in ReadUpTo(n) /\ Asked.state = "asked" /\ NoRead \in ReadUpTo(n) /\ ~NoRead.latest
  BY DEF Asked, ReadUpTo, NoRead
<1>3. \A q \in Readers : \/ q = r /\ reads'[q] = Asked
                         \/ q # r /\ q = "watcher" /\ reads'[q] = NoRead
                         \/ q # r /\ reads'[q] = Supersede(q)
  <2> SUFFICES ASSUME NEW q \in Readers
               PROVE  reads'[q] = IF q = r THEN Asked
                                  ELSE IF q = "watcher" /\ ~SameRun THEN NoRead ELSE Supersede(q)
    OBVIOUS
  <2> QED
    BY DEF Ask
<1>4. reads' \in [Readers -> ReadUpTo(n)]
  BY <1>1, <1>2 DEF Ask
<1> QED
  BY <1>1, <1>2, <1>3, <1>4 DEF Readers

\* Having an answer leaves the others, unless the watcher's is for another run.
LEMMA SettleKeeps ==
  ASSUME NEW n \in Nat, reads \in [Readers -> ReadUpTo(n)],
         NEW r \in {"none", "writer", "watcher"}, Settle(r)
  PROVE  /\ reads' \in [Readers -> ReadUpTo(n)]
         /\ \A q \in Readers : \/ reads'[q] = NoRead
                               \/ reads'[q] = reads[q] /\ q # r /\ (q = "watcher" => SameRun)
<1>1. NoRead \in ReadUpTo(n)
  BY DEF ReadUpTo
<1>2. reads' \in [Readers -> ReadUpTo(n)]
  BY <1>1 DEF Settle
<1>3. ASSUME NEW q \in Readers
      PROVE  reads'[q] = IF q = r \/ (q = "watcher" /\ ~SameRun) THEN NoRead ELSE reads[q]
  BY DEF Settle
<1> QED
  BY <1>2, <1>3

LEMMA NothingRead == ~NoRead.latest /\ NoRead.state = "none"
BY DEF NoRead

\* A read is asked for: what is on the screen may have changed, with the service's leave.
LEMMA AheadAsking ==
  ASSUME Ahead, Sent', Now' = Now, NEW r \in {"none", "writer", "watcher"}, Ask(r),
         shown' \in 0..Now, run' \in 0..Now, reply' \in 0..Now, watch' \in WatchUpTo(Now),
         IF r = "writer" THEN writer' \in {"refreshing", "lastRefresh"}
         ELSE writer' = writer \/ writer \notin {"refreshing", "lastRefresh"}
  PROVE  Ahead'
<1>1. Now \in Nat /\ reads \in [Readers -> ReadUpTo(Now)]
  BY NowIsSome DEF Ahead, LearnedUpTo
<1>2. LearnedUpTo(Now)'
  BY <1>1, AskKeeps DEF LearnedUpTo
<1>3. reads'["writer"].state # "none" => writer' \in {"refreshing", "lastRefresh"}
  BY <1>1, AskKeeps DEF Ahead, LatestIsAhead
<1>4. \A q \in Readers : ~(reads'[q].latest /\ reads'[q].state = "served")
  BY <1>1, AskKeeps
<1>5. LatestIsAhead'
  BY <1>1, <1>3, <1>4, AskKeeps DEF LatestIsAhead
<1> QED
  BY <1>2, <1>5 DEF Ahead

\* A read has been answered, or a write; the writer's read is not waited for then.
LEMMA AheadSettling ==
  ASSUME Ahead, Sent', Now' = Now, NEW r \in {"none", "writer", "watcher"}, Settle(r),
         shown' \in 0..Now, run' \in 0..Now, reply' \in 0..Now, watch' \in WatchUpTo(Now),
         writer' = writer \/ writer \notin {"refreshing", "lastRefresh"} \/ r = "writer",
         \/ shown' = shown /\ (SameRun \/ reads["writer"].state = "none" \/ r = "writer")
         \/ r # "none" /\ reads[r].latest
  PROVE  Ahead'
<1>1. Now \in Nat /\ reads \in [Readers -> ReadUpTo(Now)]
  BY NowIsSome DEF Ahead, LearnedUpTo
<1>2. LearnedUpTo(Now)'
  BY <1>1, SettleKeeps DEF LearnedUpTo
<1>3. \A q \in Readers : \/ reads'[q] = NoRead
                         \/ reads'[q] = reads[q] /\ q # r /\ (q = "watcher" => SameRun)
  BY <1>1, SettleKeeps
<1>4. /\ reads'["writer"].latest => ~reads'["watcher"].latest
      /\ reads'["writer"].state # "none" => writer' \in {"refreshing", "lastRefresh"}
  BY <1>3, NothingRead DEF Ahead, LatestIsAhead, Readers
<1>5. ASSUME NEW q \in Readers, reads'[q].latest, reads'[q].state = "served"
      PROVE  reads'[q].value >= shown' /\ RunIn(reads'[q].value) >= RunIn(run')
  <2>1. reads'[q] = reads[q] /\ q # r /\ (q = "watcher" => SameRun)
    BY <1>3, <1>5, NothingRead
  <2>2. ~(r # "none" /\ reads[r].latest)
    BY <1>5, <2>1 DEF Ahead, LatestIsAhead, Readers
  <2>3. shown' = shown /\ SameRun
    BY <1>5, <2>1, <2>2 DEF Readers
  <2> QED
    BY <1>5, <2>1, <2>3 DEF Ahead, LatestIsAhead, SameRun
<1> QED
  BY <1>2, <1>4, <1>5 DEF Ahead, LatestIsAhead
LEMMA WatchersIdle ==
  ASSUME NEW n \in Nat
  PROVE  /\ Off \in WatchUpTo(n) /\ Opened \in WatchUpTo(n)
         /\ \A pc \in {"follow", "more", "last", "resnapshot", "broken"} :
              [pc |-> pc, frame |-> 0] \in WatchUpTo(n)
BY DEF Off, Opened, WatchUpTo

\* What is shown changes with the answers that arrive only.
LEMMA AheadUnmoved ==
  ASSUME Ahead, Sent', Now' \in Nat, Now <= Now', UNCHANGED <<screen, reads, watch>>, reply' \in 0..Now',
         writer' = writer \/ writer \notin {"refreshing", "lastRefresh"}
  PROVE  Ahead'
<1>1. Now \in Nat /\ Now' \in Nat
  BY NowIsSome DEF Ahead
<1>2. reads \in [Readers -> ReadUpTo(Now')] /\ watch \in WatchUpTo(Now')
      /\ shown \in 0..Now' /\ run \in 0..Now'
  <2>1. \A n \in Nat : Now <= n => LearnedUpTo(n)
    BY <1>1, LearnedStays DEF Ahead
  <2> QED
    BY <1>1, <2>1 DEF LearnedUpTo
<1>3. LearnedUpTo(Now)'
  BY <1>2 DEF LearnedUpTo, screen
<1>4. LatestIsAhead'
  BY DEF Ahead, LatestIsAhead, screen
<1> QED
  BY <1>3, <1>4 DEF Ahead

LEMMA AheadServe ==
  ASSUME Ahead, NEW r \in Readers, ServeRead(r)
  PROVE  Ahead'
<1>1. Sent' /\ Now' = Now
  BY SentElsewhere DEF ServeRead, Overtake, Ahead, Sent
<1>2. Now \in Nat /\ shown \in 0..Now /\ run \in 0..Now /\ reads \in [Readers -> ReadUpTo(Now)]
      /\ reads[r].state = "asked" /\ Now \in 0..Now
  BY NowIsSome DEF Ahead, LearnedUpTo, ServeRead
<1>3. reads[r] \in [state : {"asked"}, value : {0}, latest : BOOLEAN]
  <2>1. reads[r] \in ReadUpTo(Now) /\ reads[r] # NoRead
    BY <1>2, NothingRead
  <2> QED
    BY <1>2, <2>1 DEF ReadUpTo
<1> DEFINE served == [reads[r] EXCEPT !.state = "served", !.value = Now]
<1>4. served \in [state : {"served"}, value : 0..Now, latest : BOOLEAN]
      /\ served.value = Now /\ served.latest = reads[r].latest
  BY <1>2, <1>3
<1>5. reads' = [reads EXCEPT ![r] = served]
  BY DEF ServeRead
<1>6. served \in ReadUpTo(Now)
  BY <1>4 DEF ReadUpTo
<1> HIDE DEF served
<1>7. reads' \in [Readers -> ReadUpTo(Now)]
  BY <1>2, <1>5, <1>6
<1>8. LearnedUpTo(Now)'
  BY <1>1, <1>7 DEF Ahead, LearnedUpTo, ServeRead, screen
<1>9. UNCHANGED <<writer, shown, run>>
  BY DEF ServeRead, screen
<1>10. RunIn(Now) >= RunIn(run) /\ Now >= shown
  BY <1>2, RunsInOrder, Halves
<1>11. \A q \in Readers : reads'[q] = IF q = r THEN served ELSE reads[q]
  BY <1>2, <1>5
<1>12. \A q \in Readers : reads'[q].latest = reads[q].latest
  BY <1>4, <1>11
<1>13. reads'["writer"].state # "none" => reads["writer"].state # "none"
  BY <1>2, <1>11 DEF Readers
<1>14. LatestIsAhead'
  BY <1>4, <1>9, <1>10, <1>11, <1>12, <1>13 DEF Ahead, LatestIsAhead, Readers
<1> QED
  BY <1>1, <1>8, <1>14 DEF Ahead

LEMMA AheadService ==
  ASSUME Ahead, Service
  PROVE  Ahead'
<1>1. Now \in Nat /\ run \in 0..Now /\ reply \in 0..Now
  BY NowIsSome DEF Ahead, LearnedUpTo
<1>2. CASE \E m \in wire : Arrive(m)
  <2>1. PICK m \in wire : Arrive(m)
    BY <1>2
  <2>2. Sent' /\ Now' \in Nat /\ Now <= Now'
    BY <2>1, SentArrive DEF Ahead
  <2> QED
    BY <1>1, <2>1, <2>2, AheadUnmoved DEF Arrive
<1>3. CASE FinishRun
  <2>1. Len(runs) \in Nat /\ Now' = Now + 1
    BY <1>3, NowIsSome DEF Ahead, FinishRun, Now
  <2>2. Sent'
    BY <1>3 DEF Ahead, Sent, MadeHere, PendingIsShown, FinishRun, composer
  <2> QED
    BY <1>1, <1>3, <2>1, <2>2, AheadUnmoved DEF FinishRun
<1>4. CASE HandleCancel
  <2>1. Sent' /\ Now' = Now
    BY <1>4, SentElsewhere DEF HandleCancel, Ahead, Sent
  <2>2. RunIn(run) \in Nat /\ 2 * RunIn(run) - 1 <= Now
    BY <1>1, Halves
  <2>3. reply' \in 0..Now
    BY <1>1, <1>4, <2>2, StatusIsOf DEF HandleCancel
  <2> QED
    BY <1>1, <1>4, <2>1, <2>3, AheadUnmoved DEF HandleCancel
<1>5. CASE FrameWatch
  <2>1. Sent' /\ Now' = Now
    BY <1>5, SentElsewhere DEF FrameWatch, Overtake, Ahead, Sent
  <2>2. watch' \in WatchUpTo(Now)
    <3>1. [pc |-> "framed", frame |-> Now] \in [pc : {"framed"}, frame : 0..Now]
      BY <1>1
    <3> QED
      BY <1>5, <3>1 DEF FrameWatch, WatchUpTo
  <2> QED
    BY <1>5, <2>1, <2>2 DEF FrameWatch, Ahead, LearnedUpTo, LatestIsAhead, screen
<1>6. CASE \E r \in Readers : ServeRead(r)
  BY <1>6, AheadServe
<1> QED
  BY <1>2, <1>3, <1>4, <1>5, <1>6 DEF Service
\* What is shown of a read is what was read.
LEMMA ShowIs ==
  ASSUME Ahead, NEW r \in Readers, reads[r].state = "served", Show(r)
  PROVE  /\ shown' \in 0..Now /\ run' \in 0..Now
         /\ shown' >= shown /\ RunIn(run') >= RunIn(run)
         /\ reads[r].latest \/ UNCHANGED <<shown, run>>
<1>1. /\ Now \in Nat /\ shown \in 0..Now /\ run \in 0..Now
      /\ reads[r] \in ReadUpTo(Now) /\ reads[r] # NoRead
  BY NowIsSome, NothingRead DEF Ahead, LearnedUpTo
<1>2. reads[r].value \in 0..Now /\ reads[r].latest \in BOOLEAN
  BY <1>1 DEF ReadUpTo
<1>3. run \in Nat /\ RunIn(run) \in Nat
  <2>1. run \in Nat
    BY <1>1
  <2> QED
    BY <2>1, Halves
<1>4. CASE reads[r].latest
  <2>1. /\ shown' = reads[r].value
        /\ run' = IF reads[r].value = 0 THEN run ELSE reads[r].value
    BY <1>4 DEF Show
  <2>2. reads[r].value >= shown /\ RunIn(reads[r].value) >= RunIn(run)
    BY <1>4 DEF Ahead, LatestIsAhead
  <2>3. run' \in 0..Now /\ RunIn(run') >= RunIn(run)
    BY <1>1, <1>2, <1>3, <2>1, <2>2
  <2> QED
    BY <1>2, <1>4, <2>1, <2>2, <2>3
<1>5. CASE ~reads[r].latest
  BY <1>1, <1>3, <1>5 DEF Show, screen
<1> QED
  BY <1>4, <1>5

LEMMA AheadStartReturns ==
  ASSUME Ahead, StartReturns
  PROVE  Ahead'
<1>1. Sent' /\ Now' = Now
  BY SentOn DEF Ahead
<1>2. Now \in Nat /\ Len(runs) \in Nat /\ 2 * Len(runs) - 1 <= Now
  BY NowIsSome DEF Ahead
<1>3. PICK i \in 1..Len(runs) : run' \in {StatusOf(i, Now), 2 * i - 1}
  BY DEF StartReturns
<1>4. i \in Nat /\ 2 * i - 1 \in 0..Now
  BY <1>2
<1>5. StatusOf(i, Now) \in 0..Now
  <2>1. Now <= Now /\ 2 * i - 1 <= Now
    BY <1>2, <1>4
  <2> QED
    BY <1>2, <1>4, <2>1, StatusIsOf
<1>6. watch' \in WatchUpTo(Now)
  BY <1>2, RewatchIs, WatchersIdle DEF StartReturns, Ahead, LearnedUpTo
<1>7. reads["writer"].state = "none" /\ Settle("none") /\ UNCHANGED <<shown, reply>>
      /\ writer \notin {"refreshing", "lastRefresh"}
  BY DEF StartReturns, Ahead, LatestIsAhead
<1> QED
  BY <1>1, <1>3, <1>4, <1>5, <1>6, <1>7, AheadSettling DEF Ahead, LearnedUpTo

LEMMA AheadStopReturns ==
  ASSUME Ahead, StopReturns
  PROVE  Ahead'
<1>1. /\ Now \in Nat /\ shown' = shown /\ run' \in 0..Now /\ reply' = 0 /\ reply' \in 0..Now
      /\ shown \in 0..Now /\ writer \notin {"refreshing", "lastRefresh"}
      /\ reads["writer"].state = "none"
  BY NowIsSome DEF StopReturns, Ahead, LearnedUpTo, LatestIsAhead
<1>2. watch' \in WatchUpTo(Now) /\ reconnect' \in BOOLEAN
  BY <1>1, RewatchIs, WatchersIdle DEF StopReturns, Ahead, LearnedUpTo, Sent
<1>3. /\ UNCHANGED <<service, composer, visible, late>>
      /\ writer' \in {"idle", "lastRefresh"}
  BY DEF StopReturns
<1>4. Sent' /\ Now' = Now
  BY <1>2, <1>3, SentElsewhere DEF Ahead, Sent
<1>5. CASE writer' = "idle" /\ Settle("none")
  BY <1>1, <1>2, <1>4, <1>5, AheadSettling
<1>6. CASE writer' = "lastRefresh" /\ Ask("writer")
  BY <1>1, <1>2, <1>4, <1>6, AheadAsking
<1> QED
  BY <1>5, <1>6 DEF StopReturns

LEMMA AheadWriterReads ==
  ASSUME Ahead, WriterReads
  PROVE  Ahead' /\ shown' >= shown /\ RunIn(run') >= RunIn(run)
<1>1. "writer" \in Readers /\ reads["writer"].state = "served" /\ Show("writer")
  BY DEF WriterReads, Readers
<1>2. Now \in Nat /\ reply' \in 0..Now
  BY NowIsSome DEF WriterReads, Ahead, LearnedUpTo
<1>3. watch' \in WatchUpTo(Now) /\ reconnect' \in BOOLEAN
  BY <1>2, RewatchIs, WatchersIdle DEF WriterReads, Ahead, LearnedUpTo, Sent
<1>4. UNCHANGED <<service, composer, visible, late>> /\ writer' = "idle" /\ Settle("writer")
  BY DEF WriterReads
<1>5. Sent' /\ Now' = Now
  BY <1>3, <1>4, SentElsewhere DEF Ahead, Sent
<1>6. Ahead'
  BY <1>1, <1>2, <1>3, <1>4, <1>5, ShowIs, AheadSettling
<1> QED
  BY <1>1, <1>6, ShowIs

LEMMA AheadWriterReadFails ==
  ASSUME Ahead, WriterReadFails
  PROVE  Ahead'
<1>1. /\ UNCHANGED <<service, composer, reply, screen, watch, visible, reconnect>>
      /\ writer' \in {"idle", "lastRefresh"} /\ late' \in BOOLEAN
  BY DEF WriterReadFails, Ahead, Sent
<1>2. Sent' /\ Now' = Now
  BY <1>1, SentElsewhere DEF Ahead, Sent
<1>3. /\ shown' \in 0..Now /\ run' \in 0..Now /\ reply' \in 0..Now
      /\ watch' \in WatchUpTo(Now) /\ shown' = shown
  BY <1>1 DEF Ahead, LearnedUpTo, screen
<1>4. CASE writer' = "lastRefresh" /\ Ask("writer")
  BY <1>2, <1>3, <1>4, AheadAsking
<1>5. CASE Settle("writer")
  BY <1>2, <1>3, <1>5, AheadSettling
<1> QED
  BY <1>4, <1>5 DEF WriterReadFails

LEMMA AheadWrite ==
  ASSUME Ahead, Write
  PROVE  Ahead'
<1>1. Now \in Nat /\ reply \in 0..Now /\ 0 \in 0..Now
  BY NowIsSome DEF Ahead, LearnedUpTo
<1>2. CASE Send \/ Retry \/ CreateReturns \/ CreateFails \/ StartRefused \/ StartUnknown \/ Edit
  <2>1. Sent' /\ Now' = Now
    BY <1>2, SentOn DEF Ahead
  <2>2. UNCHANGED <<screen, reads, watch, reply>>
    BY <1>2 DEF Send, Retry, Dispatch, CreateReturns, CreateFails, GiveUp, StartRefused,
                StartUnknown, Edit
  <2>3. writer' = writer \/ writer \notin {"refreshing", "lastRefresh"}
    BY <1>2 DEF Send, Retry, MayWrite, CreateReturns, CreateFails, StartRefused, StartUnknown, Edit
  <2> QED
    BY <1>1, <2>1, <2>2, <2>3, AheadUnmoved
<1>3. CASE Stop \/ StopFails \/ Decide
  <2>1. /\ UNCHANGED <<service, composer, screen, reads, watch, visible, reconnect, late>>
        /\ writer' \in {"idle", "stopping", "deciding"} /\ reply' \in {0, reply}
        /\ writer \notin {"refreshing", "lastRefresh"}
    BY <1>3 DEF Stop, StopFails, Decide, MayWrite
  <2>2. Sent' /\ Now' = Now
    BY <2>1, SentElsewhere DEF Ahead, Sent
  <2> QED
    BY <1>1, <2>1, <2>2, AheadUnmoved
<1>4. CASE DecideEnds
  <2>1. /\ UNCHANGED <<service, composer, reply, screen, watch, visible, reconnect, late>>
        /\ writer' \in {"refreshing", "lastRefresh"} /\ Ask("writer")
    BY <1>4 DEF DecideEnds
  <2>2. Sent' /\ Now' = Now
    BY <2>1, SentElsewhere DEF Ahead, Sent
  <2> QED
    BY <2>1, <2>2, AheadAsking DEF Ahead, LearnedUpTo, screen
<1> QED
  BY <1>2, <1>3, <1>4, AheadStartReturns, AheadStopReturns, AheadWriterReads,
     AheadWriterReadFails DEF Write
\* The watcher's steps.
LEMMA AheadWatchSnapshot ==
  ASSUME Ahead, WatchSnapshot
  PROVE  Ahead'
<1>1. Now \in Nat /\ run \in 0..Now /\ watch \in WatchUpTo(Now) /\ watch.pc = "framed"
  BY NowIsSome DEF WatchSnapshot, Ahead, LearnedUpTo
<1>2. watch.frame \in 0..Now
  BY <1>1 DEF WatchUpTo
<1>3. run \in Nat /\ watch.frame \in Nat /\ watch.frame <= Now /\ run <= Now
  BY <1>1, <1>2
<1>4. RunIn(run) \in Nat /\ 2 * RunIn(run) - 1 <= Now
  <2>1. RunIn(run) \in Nat /\ 2 * RunIn(run) - 1 <= run
    BY <1>3, Halves
  <2> QED
    BY <1>1, <1>3, <2>1
<1>5. Watched(watch.frame) \in 0..Now
  BY <1>1, <1>3, <1>4, StatusIsOf DEF Watched
<1>6. /\ UNCHANGED <<service, composer, writer, reply, visible, reconnect, late>>
      /\ shown' = watch.frame /\ run' = Watched(watch.frame) /\ Ask("none")
  BY DEF WatchSnapshot
<1>7. Sent' /\ Now' = Now
  BY <1>6, SentElsewhere DEF Ahead, Sent
<1>8. watch' \in WatchUpTo(Now)
  BY <1>1, WatchersIdle DEF WatchSnapshot
<1>9. reply' \in 0..Now
  BY <1>6 DEF Ahead, LearnedUpTo
<1> QED
  BY <1>2, <1>5, <1>6, <1>7, <1>8, <1>9, AheadAsking

LEMMA AheadWatchAsks ==
  ASSUME Ahead, NEW why \in {"more", "last", "resnapshot", "broken"}, WatchAsks(why)
  PROVE  Ahead'
<1>1. /\ UNCHANGED <<service, composer, writer, reply, screen, visible, reconnect, late>>
      /\ watch' = [pc |-> why, frame |-> 0] /\ Ask("watcher")
  BY DEF WatchAsks
<1>2. Sent' /\ Now' = Now
  BY <1>1, SentElsewhere DEF Ahead, Sent
<1>3. watch' \in WatchUpTo(Now)
  BY <1>1, NowIsSome, WatchersIdle DEF Ahead
<1>4. shown' \in 0..Now /\ run' \in 0..Now /\ reply' \in 0..Now
  BY <1>1 DEF Ahead, LearnedUpTo, screen
<1> QED
  BY <1>1, <1>2, <1>3, <1>4, AheadAsking

LEMMA AheadWatcherReads ==
  ASSUME Ahead, WatcherReads
  PROVE  Ahead' /\ shown' >= shown /\ RunIn(run') >= RunIn(run)
<1>1. /\ "watcher" \in Readers /\ reads["watcher"].state = "served" /\ Show("watcher")
      /\ UNCHANGED <<service, composer, writer, reply, visible, late>> /\ Settle("watcher")
  BY DEF WatcherReads, Readers
<1>2. Now \in Nat /\ reply' \in 0..Now
  BY <1>1, NowIsSome DEF Ahead, LearnedUpTo
<1>3. watch' \in WatchUpTo(Now) /\ reconnect' \in BOOLEAN
  <2>1. CASE Rewatch
    BY <1>2, <2>1, RewatchIs, WatchersIdle DEF Ahead
  <2>2. CASE ~Rewatch
    <3>1. /\ watch' \in {[pc |-> "follow", frame |-> 0], Off}
          /\ reconnect' = (reconnect \/ (/\ watch.pc \in {"resnapshot", "broken"}
                                         /\ IsRunning(Watched(reads["watcher"].value))))
      BY <2>2 DEF WatcherReads
    <3> QED
      BY <1>2, <3>1, WatchersIdle
  <2> QED
    BY <2>1, <2>2
<1>4. Sent' /\ Now' = Now
  BY <1>1, <1>3, SentElsewhere DEF Ahead, Sent
<1>5. shown' = shown => reads["watcher"].latest \/ SameRun
  BY <1>1, ShowIs DEF SameRun
<1>6. reads["watcher"].latest \/ UNCHANGED <<shown, run>>
  BY <1>1, ShowIs
<1>7. Ahead'
  BY <1>1, <1>2, <1>3, <1>4, <1>5, <1>6, ShowIs, AheadSettling
<1> QED
  BY <1>1, <1>7, ShowIs

LEMMA AheadWatch ==
  ASSUME Ahead, Watch
  PROVE  Ahead'
<1>1. CASE WatchTool \/ WatchEnds \/ WatchResnapshot \/ WatchBreaks
  BY <1>1, AheadWatchAsks DEF WatchTool, WatchEnds, WatchResnapshot, WatchBreaks
<1>2. CASE WatcherReadFails
  <2>1. CASE WatchAsks("broken")
    BY <2>1, AheadWatchAsks
  <2>2. CASE Settle("watcher") /\ ~WatchAsks("broken")
    <3>1. /\ UNCHANGED <<service, composer, writer, reply, screen, visible, late>>
          /\ watch' = Off /\ reconnect' = TRUE
      BY <1>2, <2>2 DEF WatcherReadFails
    <3>2. Sent' /\ Now' = Now
      BY <3>1, SentElsewhere DEF Ahead, Sent
    <3>3. /\ shown' \in 0..Now /\ run' \in 0..Now /\ reply' \in 0..Now
          /\ watch' \in WatchUpTo(Now) /\ shown' = shown /\ SameRun
      BY <3>1, NowIsSome, WatchersIdle DEF Ahead, LearnedUpTo, screen, SameRun
    <3> QED
      BY <2>2, <3>1, <3>2, <3>3, AheadSettling
  <2> QED
    BY <1>2, <2>1, <2>2 DEF WatcherReadFails
<1>3. CASE Reconnect \/ Toggle
  <2>1. /\ UNCHANGED <<service, composer, writer, reply, screen, late>> /\ Rewatch
        /\ reads' = [reads EXCEPT !["watcher"] = NoRead] /\ visible' \in BOOLEAN
    BY <1>3 DEF Reconnect, Toggle, Effect, Ahead, Sent
  <2>2. watch' \in WatchUpTo(Now) /\ reconnect' \in BOOLEAN
    BY <2>1, NowIsSome, RewatchIs, WatchersIdle DEF Ahead
  <2>3. Sent' /\ Now' = Now
    BY <2>1, <2>2, SentElsewhere DEF Ahead, Sent
  <2>4. /\ reads' \in [Readers -> ReadUpTo(Now)]
        /\ reads'["watcher"] = NoRead /\ reads'["writer"] = reads["writer"]
    BY <2>1 DEF Ahead, LearnedUpTo, ReadUpTo, Readers
  <2>5. LearnedUpTo(Now)'
    BY <2>1, <2>2, <2>3, <2>4 DEF Ahead, LearnedUpTo, screen
  <2>6. LatestIsAhead'
    BY <2>1, <2>4, NothingRead DEF Ahead, LatestIsAhead, Readers, screen
  <2> QED
    BY <2>3, <2>5, <2>6 DEF Ahead
<1> QED
  BY <1>1, <1>2, <1>3, AheadWatchSnapshot, AheadWatcherReads DEF Watch

LEMMA AheadSteps ==
  ASSUME Ahead, [Next]_vars
  PROVE  Ahead'
<1>1. CASE UNCHANGED vars
  BY <1>1 DEF vars, service, composer, screen, Ahead, Sent, MadeHere, PendingIsShown, LearnedUpTo,
              LatestIsAhead, Now
<1> QED
  BY <1>1, AheadService, AheadWrite, AheadWatch DEF Next

LEMMA InitiallyAhead == Init => Ahead
<1> SUFFICES ASSUME Init PROVE Ahead
  OBVIOUS
<1>1. runs \in Seq(Message) /\ Len(runs) = 0 /\ Now = 0
  BY EmptySeq DEF Init, Now
<1>2. MadeHere /\ PendingIsShown
  BY <1>1 DEF Init, MadeHere, PendingIsShown, Drafts
<1>3. reads \in [Readers -> ReadUpTo(0)]
  BY DEF Init, ReadUpTo
<1>4. LearnedUpTo(0)
  BY <1>3, WatchersIdle DEF Init, LearnedUpTo
<1>5. LatestIsAhead
  BY NothingRead DEF Init, LatestIsAhead, Readers
<1>6. \A i, j \in 1..Len(runs) : runs[i].key = runs[j].key => i = j
  <2>1. 1..Len(runs) = {}
    BY <1>1
  <2> QED
    BY <2>1
<1>7. Sent
  BY <1>2, <1>6 DEF Sent, Init
<1>8. LearnedUpTo(Now)
  BY <1>1, <1>4
<1> QED
  BY <1>5, <1>7, <1>8 DEF Ahead

LEMMA AlwaysAhead == Spec => []Ahead
BY InitiallyAhead, AheadSteps, PTL DEF Spec

\* Whatever answers come in between, and whether or not keys lapse: a session read that is shown
\* shows no older snapshot and no earlier run than the screen, for any number of texts and keys.
THEOREM ReadsGoForward == Spec => ReadNeverGoesBack
<1>1. Ahead /\ [Next]_vars => [WriterReads \/ WatcherReads =>
                                shown' >= shown /\ RunIn(run') >= RunIn(run)]_vars
  BY AheadWriterReads, AheadWatcherReads
<1> QED
  BY <1>1, AlwaysAhead, PTL DEF Spec, ReadNeverGoesBack

\* A key has one run, so no more runs than keys.
LEMMA RunsAreBounded == Ahead => Len(runs) <= MaxKeys
<1> SUFFICES ASSUME Ahead PROVE Len(runs) <= MaxKeys
  OBVIOUS
<1>1. runs \in Seq(Message) /\ Len(runs) \in Nat
  BY NowIsSome DEF Ahead, Sent, MadeHere
<1> DEFINE keyOf == [i \in 1..Len(runs) |-> runs[i].key]
<1>2. \A i \in 1..Len(runs) : runs[i] \in Message
  BY <1>1, ElementOfSeq
<1>3. keyOf \in Injection(1..Len(runs), 1..MaxKeys)
  BY <1>2 DEF Injection, IsInjective, Message, Ahead, Sent
<1>4. ASSUME NEW n \in Nat
      PROVE  IsFiniteSet(1..n) /\ Cardinality(1..n) = n
  <2>1. Cardinality(1..n) = IF 1 > n THEN 0 ELSE n - 1 + 1
    BY FS_Interval
  <2> QED
    BY <2>1, FS_Interval
<1>5. Cardinality(1..Len(runs)) <= Cardinality(1..MaxKeys)
  <2>1. IsFiniteSet(1..MaxKeys)
    BY <1>4
  <2> QED
    BY <1>3, <2>1, FS_Injection
<1>6. Cardinality(1..Len(runs)) = Len(runs) /\ Cardinality(1..MaxKeys) = MaxKeys
  BY <1>1, <1>4
<1> QED
  BY <1>5, <1>6

\* Every variable stays within its type, for any number of texts and keys.
THEOREM TypeCorrect == Spec => []TypeOK
<1>1. Ahead => TypeOK
  <2> SUFFICES ASSUME Ahead PROVE TypeOK
    OBVIOUS
  <2>1. Len(runs) <= MaxKeys /\ Len(runs) \in Nat /\ Now \in Nat
    BY RunsAreBounded, NowIsSome DEF Ahead
  <2>2. Now <= 2 * MaxKeys /\ 2 * MaxKeys \in Nat
    BY <2>1 DEF Now, Ahead, Sent
  <2>3. LearnedUpTo(2 * MaxKeys)
    BY <2>1, <2>2, LearnedStays DEF Ahead
  <2>4. reads \in [Readers -> ReadUpTo(2 * MaxKeys)] /\ watch \in WatchUpTo(2 * MaxKeys)
        /\ reply \in Progress /\ shown \in Progress /\ run \in Progress
    BY <2>3 DEF LearnedUpTo, Progress
  <2> QED
    BY <2>1, <2>4 DEF TypeOK, Ahead, Sent, MadeHere, ReadUpTo, WatchUpTo, Progress
<1> QED
  BY <1>1, AlwaysAhead, PTL
==============================================================================
