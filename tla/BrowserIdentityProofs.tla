-------------------------- MODULE BrowserIdentityProofs --------------------------
(* For any number of tabs and subjects, any environment: what a tab shows is of   *)
(* the scope that it admitted, which rests on its lease alone; and no write under *)
(* the lock leaves a tab with another's admission untold, a checked renewal is    *)
(* due when it is executed, and a waiting logout is not dropped, which rest on    *)
(* the lock and on the messages too.                                              *)
EXTENDS BrowserIdentity, TLAPS

\* Whose lease the parts of a tab belong to. An admission is of the scope that the
\* tab reads under, and ends the load; a page that reads or shows is within it; a
\* write at work has ended it, and so has a logout that waits, and a tab without a page.
Leased(r) ==
  /\ r.admission # None => /\ r.load = "none"
                           /\ r.bound = r.admission.scope
                           /\ r.admission.pages = r.admission.scope
  /\ r.shown # None => /\ r.state = "authenticated" /\ r.admission # None
                       /\ r.shown = r.admission.scope
  /\ r.read.live => /\ r.state = "authenticated" /\ r.admission # None
                    /\ r.read.bound = r.bound
  /\ r.op # NoOp /\ r.op.working => r.admission = None /\ r.load = "none"
  /\ LoggingOut(r) => r.admission = None /\ r.load = "none"
  /\ r.state \in {"away", "closed"} => /\ r.admission = None /\ r.load = "none"
                                      /\ r.op = NoOp

ServerOK ==
  /\ session \in Subjects \cup {None} /\ revision \in 0..MaxRevision
  /\ strays \subseteq Strays /\ ops \in Nat
  /\ around \in Environments

Good(r) == r \in TabState /\ Leased(r)
TabsOK == tab \in [Tabs -> TabState] /\ \A t \in Tabs : Leased(tab[t])

Phases == {"begin", "complete"}
InboxOK == inbox \in [Tabs -> Seq(Phases)]

IInv == ServerOK /\ TabsOK /\ InboxOK

USE EnvironmentsAssumption, NoneAssumption

--------------------------------------------------------------------------------
(* What a tab does to itself keeps its lease.                                    *)

LEMMA UnmountedKeeps ==
  ASSUME NEW r, Good(r)
  PROVE  /\ Good(Unmounted(r))
         /\ Unmounted(r).shown = None /\ ~Unmounted(r).read.live
         /\ Unmounted(r).admission = r.admission /\ Unmounted(r).op = r.op
         /\ Unmounted(r).load = r.load /\ Unmounted(r).missed = r.missed
<1> DEFINE u == Unmounted(r)
<1>1. /\ u \in TabState /\ u.shown = None /\ ~u.read.live
      /\ u.admission = r.admission /\ u.op = r.op /\ u.load = r.load /\ u.bound = r.bound
      /\ u.state = r.state /\ u.missed = r.missed
  BY DEF Good, TabState, Unmounted
<1> HIDE DEF u
<1>2. Leased(u)
  BY <1>1 DEF Good, Leased, LoggingOut
<1> QED
  BY <1>1, <1>2 DEF Good, u

\* The history is no part of a lease.
LEMMA MarkKeeps ==
  ASSUME NEW r \in TabState, NEW flag \in BOOLEAN
  PROVE  [r EXCEPT !.missed = flag] \in TabState
BY DEF TabState

\* Retiring ends the lease.
LEMMA RetiringEndsTheLease ==
  ASSUME NEW r \in TabState, NEW reason \in {"expired", "forbidden"}, NEW keep \in BOOLEAN
  PROVE  /\ Good(Retired(r, reason, keep))
         /\ Retired(r, reason, keep).admission = None /\ Retired(r, reason, keep).load = "none"
         /\ Retired(r, reason, keep).shown = None /\ ~Retired(r, reason, keep).read.live
         /\ keep => Retired(r, reason, keep).op = r.op
         /\ ~keep => Retired(r, reason, keep).op = NoOp
         /\ Retired(r, reason, keep).state \notin {"away", "closed"}
<1> DEFINE u == Unmounted(r)
           q == Retired(r, reason, keep)
<1>1. u \in TabState /\ u.shown = None /\ ~u.read.live /\ u.op = r.op
  BY DEF Unmounted, TabState
<1>2. q = [u EXCEPT !.state = IF keep THEN "loading" ELSE reason,
                    !.missed = FALSE, !.admission = None, !.bound = None, !.load = "none", !.check = "none",
                    !.who = IF reason = "expired" THEN None ELSE @,
                    !.op = IF keep THEN @ ELSE NoOp]
  BY DEF Retired
<1> HIDE DEF u, q
<1>3. /\ q.admission = None /\ q.bound = None /\ q.load = "none" /\ q.check = "none"
      /\ q.shown = u.shown /\ q.read = u.read /\ q.state = IF keep THEN "loading" ELSE reason
      /\ q.who \in Subjects \cup {None} /\ q.op = IF keep THEN r.op ELSE NoOp
  BY <1>1, <1>2 DEF TabState
<1>4. q \in TabState
  <2>1. PICK state \in {"loading", "expired", "forbidden"}, who \in Subjects \cup {None},
             op \in Operation \cup {NoOp} :
          q = [u EXCEPT !.state = state, !.missed = FALSE, !.admission = None, !.bound = None, !.load = "none",
                        !.check = "none", !.who = who, !.op = op]
    <3>1. /\ u.who \in Subjects \cup {None} /\ u.op \in Operation \cup {NoOp}
          /\ NoOp \in Operation \cup {NoOp}
      BY <1>1 DEF TabState
    <3> QED
      BY <1>2, <3>1
  <2> DEFINE k == [u EXCEPT !.state = state]
             v == [k EXCEPT !.missed = FALSE]
             w == [v EXCEPT !.admission = None, !.bound = None]
             l == [w EXCEPT !.load = "none"]
             x == [l EXCEPT !.check = "none"]
             y == [x EXCEPT !.who = who]
  <2>k. k \in TabState
    BY <1>1 DEF TabState
  <2> HIDE DEF k
  <2>2. v \in TabState
    BY <2>k, MarkKeeps
  <2> HIDE DEF v
  <2>3. w \in TabState
    BY <2>2 DEF TabState
  <2> HIDE DEF w
  <2>l. l \in TabState
    BY <2>3 DEF TabState
  <2> HIDE DEF l
  <2>4. x \in TabState
    BY <2>l DEF TabState
  <2> HIDE DEF x
  <2>5. y \in TabState
    BY <2>4 DEF TabState
  <2> HIDE DEF y
  <2>6. [y EXCEPT !.op = op] \in TabState
    BY <2>5 DEF TabState
  <2> QED
    BY <2>1, <2>6 DEF k, v, w, l, x, y
<1> QED
  BY <1>1, <1>3, <1>4 DEF Good, Leased, q, LoggingOut

LEMMA RetiredKeeps ==
  ASSUME NEW r, Good(r), NEW reason \in {"expired", "forbidden"}, NEW keep \in BOOLEAN
  PROVE  /\ Good(Retired(r, reason, keep))
         /\ Retired(r, reason, keep).admission = None /\ Retired(r, reason, keep).load = "none"
         /\ Retired(r, reason, keep).shown = None /\ ~Retired(r, reason, keep).read.live
         /\ keep => Retired(r, reason, keep).op = r.op
         /\ ~keep => Retired(r, reason, keep).op = NoOp
         /\ Retired(r, reason, keep).state \notin {"away", "closed"}
BY RetiringEndsTheLease DEF Good

LEMMA MountedKeeps ==
  ASSUME NEW r, Good(r)
  PROVE  Good(Mounted(r)) /\ Mounted(r).admission = None /\ Mounted(r).op = NoOp
<1> DEFINE q == Retired(r, "expired", FALSE)
<1>1. /\ Good(q) /\ q.admission = None /\ q.shown = None /\ ~q.read.live /\ q.op = NoOp
  BY RetiredKeeps
<1>2. Mounted(r) = [q EXCEPT !.state = "loading", !.load = "entry"]
  BY DEF Mounted
<1> HIDE DEF q
<1>3. ~LoggingOut(q)
  <2>1. NoOp.kind # "logout"
    BY DEF NoOp
  <2> QED
    BY <1>1, <2>1 DEF LoggingOut
<1> DEFINE m == Mounted(r)
<1>4. /\ m \in TabState /\ m.admission = q.admission /\ m.shown = q.shown /\ m.read = q.read
      /\ m.op = q.op /\ m.state = "loading"
  BY <1>1, <1>2 DEF Good, TabState
<1> HIDE DEF m
<1> QED
  BY <1>1, <1>3, <1>4 DEF Good, Leased, LoggingOut, m

LEMMA GivenKeeps ==
  ASSUME NEW t \in Tabs, NEW r, Good(r), NEW answered
  PROVE  Good(Given(t, r, answered)) /\ Given(t, r, answered).op = r.op
         /\ Given(t, r, answered).admission = r.admission
         /\ Given(t, r, answered).load = r.load /\ Given(t, r, answered).missed = r.missed
<1>1. r \in TabState /\ NoRead \in [asked : BOOLEAN, live : BOOLEAN, bound : Scope \cup {None}]
      /\ ~NoRead.live
  BY DEF Good, NoRead
<1>2. Given(t, r, answered) \in {r, [r EXCEPT !.read = NoRead]}
  BY DEF Given
<1> HIDE DEF NoRead
<1> QED
  BY <1>1, <1>2 DEF Good, Leased, TabState, LoggingOut

\* A write that passes a tab by leaves it as it is.
LEMMA OverlookedKeeps ==
  ASSUME NEW r, Good(r)
  PROVE  /\ Good(Overlooked(r)) /\ Overlooked(r).missed
         /\ Overlooked(r).op = r.op /\ Overlooked(r).admission = r.admission
<1> DEFINE q == Overlooked(r)
<1>1. /\ q \in TabState /\ q.missed /\ q.state = r.state /\ q.admission = r.admission
      /\ q.load = r.load /\ q.bound = r.bound /\ q.shown = r.shown /\ q.read = r.read
      /\ q.op = r.op
  BY DEF Good, TabState, Overlooked
<1> HIDE DEF q
<1>2. Leased(q)
  BY <1>1 DEF Good, Leased, LoggingOut
<1> QED
  BY <1>1, <1>2 DEF Good, q

--------------------------------------------------------------------------------
(* What one step of a tab may do: the lock, the messages, the session.           *)

Alone == \A j, k \in held : Exclusive(j) => k = j
Working(r) == r.op # NoOp /\ r.op.working

\* A tab at work told the others when it began.
Began(t) ==
  /\ <<t, "op">> \in held
  /\ tab'[t].op.kind = "renew" /\ around.status => due
  /\ \A u \in Tabs \ {t} : tab[u].admission # None /\ {t, u} \cap around.deaf = {} => inbox'[u] # <<>>

\* The other tabs are passed by at most.
Others(t) == \A u \in Tabs \ {t} : tab'[u] \in {tab[u], Overlooked(tab[u])}

Step(t) ==
  /\ Others(t)
  /\ Alone => Alone'
  /\ \A u \in Tabs \ {t} : <<u, "op">> \in held => <<u, "op">> \in held'
  /\ tab'[t].op # NoOp /\ <<t, "op">> \in held => <<t, "op">> \in held'

\* What was on its way to the others still is.
Talks(t) == \A u \in Tabs \ {t} : inbox[u] # <<>> => inbox'[u] # <<>>
Stores(t) == \A u \in Tabs \ {t} : u \in changed => u \in changed'

\* A step writes nothing, and a write that it gives up goes on alone;
Writeless(t) ==
  /\ UNCHANGED <<session, due>>
  /\ \A s \in strays' \ strays :
       Working(tab[t]) /\ s = [op |-> tab[t].op, missed |-> tab[t].missed]

\* or it is the end of a write under the lock, and whom the channel does not reach is told
\* by the storage or passed by;
Wrote(t) ==
  /\ Working(tab[t]) /\ ~Working(tab'[t])
  /\ \A s \in strays' : s.missed
  /\ session' # session =>
       \A u \in Tabs \ {t} : tab[u].admission # None =>
         {t, u} \cap around.deaf = {} \/ u \in changed' \/ tab'[u].missed

\* or a write without the lock, which passes everybody by.
Slipped(t) ==
  /\ tab'[t].admission = None /\ ~Working(tab'[t])
  /\ \A s \in strays' : s.missed
  /\ \A u \in Tabs \ {t} : tab[u].admission # None \/ Working(tab[u]) => tab'[u].missed

Shape(t) ==
  /\ Step(t) /\ Talks(t) /\ Stores(t)
  /\ \/ tab'[t].admission = None
     \/ /\ tab'[t].admission = tab[t].admission /\ inbox'[t] = inbox[t]
        /\ UNCHANGED changed /\ tab'[t].missed = tab[t].missed
     \/ <<t, "load">> \in held /\ tab'[t].admission.scope.subject = session /\ UNCHANGED session
  /\ Writeless(t) \/ Wrote(t) \/ Slipped(t)
  /\ Working(tab'[t]) => \/ /\ Working(tab[t]) /\ tab'[t].op = tab[t].op
                            /\ tab[t].op.kind = "renew" => tab'[t].missed = tab[t].missed
                         \/ Began(t)
  /\ LoggingOut(tab[t]) /\ ~tab[t].op.working /\ tab'[t].op = NoOp => Retry(t) \/ Close(t)

\* What t may become while it stays or leaves.
Mild(t, q) ==
  /\ q.op \in {tab[t].op, NoOp}
  /\ q.op = NoOp /\ LoggingOut(tab[t]) => tab[t].op.working \/ Retry(t)
  /\ \/ q.admission \in {None, tab[t].admission}
     \/ <<t, "load">> \in held /\ q.admission.scope.subject = session
  /\ \/ q.missed = tab[t].missed
     \/ q.admission = None /\ (q.op = NoOp \/ LoggingOut(tab[t]))

LEMMA NoOpIsNothing == NoOp.kind # "logout" /\ NoOp \notin Operation
BY DEF NoOp, Operation, Kinds

LEMMA SameOpIsMild ==
  ASSUME NEW t \in Tabs, NEW q, q.op = tab[t].op, q.admission \in {None, tab[t].admission},
         q.missed = tab[t].missed
  PROVE  Mild(t, q)
BY NoOpIsNothing DEF Mild, LoggingOut

LEMMA RetiredIsMild ==
  ASSUME NEW t \in Tabs, Good(tab[t]), NEW reason \in {"expired", "forbidden"}, NEW keep \in BOOLEAN,
         LoggingOut(tab[t]) <=> keep
  PROVE  Mild(t, Retired(tab[t], reason, keep))
BY RetiredKeeps, NoOpIsNothing DEF Mild, LoggingOut

LEMMA MountedIsMild ==
  ASSUME NEW t \in Tabs, Good(tab[t]), LoggingOut(tab[t]) => tab[t].op.working \/ Retry(t)
  PROVE  Mild(t, Mounted(tab[t]))
BY MountedKeeps DEF Mild

\* Whoever is granted the lock is alone with it, or shares it with readers only.
LEMMA GrantedIsAlone ==
  ASSUME NEW h, NEW q, \A j, k \in h : Exclusive(j) => k = j
  PROVE  /\ h \subseteq Granted(h, q)[1]
         /\ \A j, k \in Granted(h, q)[1] : Exclusive(j) => k = j
<1>1. CASE \E job \in h : Exclusive(job)
  BY <1>1 DEF Granted
<1>2. CASE ~(\E job \in h : Exclusive(job)) /\ h = {} /\ q # <<>> /\ Exclusive(Head(q))
  BY <1>2 DEF Granted
<1>3. CASE ~(\E job \in h : Exclusive(job)) /\ ~(h = {} /\ q # <<>> /\ Exclusive(Head(q)))
  <2>1. Granted(h, q)[1] = h \cup {q[i] : i \in Sharing(q)}
    BY <1>3 DEF Granted
  <2>2. \A i \in Sharing(q) : ~Exclusive(q[i])
    BY DEF Sharing
  <2> QED
    BY <1>3, <2>1, <2>2
<1> QED
  BY <1>1, <1>2, <1>3

LEMMA LockKeeps ==
  ASSUME NEW t \in Tabs, NEW dropped, NEW asked, Lock(t, dropped, asked)
  PROVE  /\ Alone => Alone'
         /\ \A u \in Tabs \ {t} : <<u, "op">> \in held => <<u, "op">> \in held'
         /\ "op" \notin dropped => (<<t, "op">> \in held => <<t, "op">> \in held')
<1> DEFINE rest == held \ ({t} \X dropped)
<1>1. PICK q : held' = Granted(rest, q)[1]
  BY DEF Lock
<1>2. ASSUME Alone
      PROVE  rest \subseteq held' /\ Alone'
  BY <1>1, <1>2, GrantedIsAlone DEF Alone
<1>3. rest \subseteq held'
  BY <1>1 DEF Granted
<1> QED
  BY <1>2, <1>3

\* A tab that becomes what keeps its lease leaves the others where they are.
LEMMA BecomeKeeps ==
  ASSUME TabsOK, NEW t \in Tabs, NEW r, Good(r), NEW answered, NEW asked,
         Become(t, r, answered, asked), "op" \notin answered
  PROVE  /\ TabsOK' /\ Step(t)
         /\ tab'[t].op = r.op /\ tab'[t].admission = r.admission /\ tab'[t].missed = r.missed
<1>1. /\ Good(Given(t, r, answered)) /\ Given(t, r, answered).op = r.op
      /\ Given(t, r, answered).admission = r.admission
      /\ Given(t, r, answered).missed = r.missed
  BY GivenKeeps
<1>2. tab' = [tab EXCEPT ![t] = Given(t, r, answered)]
  BY DEF Become
<1>3. TabsOK' /\ tab'[t] = Given(t, r, answered) /\ \A u \in Tabs \ {t} : tab'[u] = tab[u]
  BY <1>1, <1>2 DEF TabsOK, Good
<1>4. r.op # NoOp => "op" \notin Released(t, r, answered)
  BY DEF Released
<1>5. Step(t)
  BY <1>1, <1>3, <1>4, LockKeeps DEF Become, Step, Others
<1> QED
  BY <1>1, <1>3, <1>5

\* So does one that writes, and passes others by.
LEMMA BesideKeeps ==
  ASSUME TabsOK, NEW t \in Tabs, NEW r, Good(r), NEW missing, NEW dropped, NEW asked,
         tab' = Beside(t, r, missing), Lock(t, dropped, asked), r.op # NoOp => "op" \notin dropped
  PROVE  /\ TabsOK' /\ Step(t)
         /\ tab'[t].op = r.op /\ tab'[t].admission = r.admission
         /\ \A u \in (Open \cap missing) \ {t} : tab'[u].missed
<1> DEFINE g == Given(t, r, {})
<1>1. Good(g) /\ g.op = r.op /\ g.admission = r.admission
  BY GivenKeeps
<1>2. tab' = [u \in Tabs |-> IF u = t THEN g
                            ELSE IF u \in Open \cap missing THEN Overlooked(tab[u]) ELSE tab[u]]
  BY DEF Beside
<1> HIDE DEF g
<1>3. \A u \in Tabs : Good(tab[u]) /\ Good(Overlooked(tab[u])) /\ Overlooked(tab[u]).missed
  BY OverlookedKeeps DEF TabsOK, Good
<1>4. tab'[t] = g /\ Others(t)
  BY <1>2 DEF Others
<1>m. ASSUME NEW u \in (Open \cap missing) \ {t} PROVE tab'[u].missed
  <2>1. u \in Tabs /\ tab'[u] = Overlooked(tab[u])
    BY <1>2 DEF Open
  <2> QED
    BY <1>3, <2>1
<1>5. TabsOK'
  BY <1>1, <1>2, <1>3 DEF TabsOK, Good
<1>6. Step(t)
  BY <1>1, <1>4, LockKeeps DEF Step
<1> QED
  BY <1>1, <1>4, <1>5, <1>6, <1>m

\* The messages of a step add to the other inboxes.
LEMMA NotifyTalks ==
  ASSUME InboxOK, NEW t \in Tabs, NEW phases \in Seq(Phases), NEW boxes \in [Tabs -> Seq(Phases)],
         \A u \in Tabs \ {t} : boxes[u] = inbox[u], Notify(t, phases, boxes)
  PROVE  InboxOK' /\ Talks(t) /\ inbox'[t] = boxes[t]
<1>1. \A u \in Tabs : boxes[u] \o phases \in Seq(Phases)
  OBVIOUS
<1>2. \A u \in Tabs : inbox'[u] \in {boxes[u], boxes[u] \o phases}
  BY DEF Notify
<1>3. InboxOK'
  BY <1>1 DEF InboxOK, Notify
<1>4. inbox'[t] = boxes[t]
  BY DEF Notify
<1>5. ASSUME NEW u \in Tabs \ {t}, inbox[u] # <<>>
      PROVE  inbox'[u] # <<>>
  <2>1. boxes[u] \in Seq(Phases) /\ boxes[u] # <<>>
    BY <1>5
  <2>2. boxes[u] \o phases # <<>>
    BY <2>1
  <2> QED
    BY <1>2, <2>1, <2>2
<1> QED
  BY <1>3, <1>4, <1>5 DEF Talks

LEMMA MildShape ==
  ASSUME NEW t \in Tabs, NEW r, Mild(t, r), Step(t), Talks(t), Stores(t), Writeless(t),
         tab'[t].op = r.op, tab'[t].admission = r.admission, tab'[t].missed = r.missed,
         r.admission = None \/ UNCHANGED <<inbox, changed>>
  PROVE  Shape(t)
<1>1. UNCHANGED session
  BY DEF Writeless
<1>2. \/ tab'[t].admission = None
      \/ /\ tab'[t].admission = tab[t].admission /\ inbox'[t] = inbox[t]
         /\ UNCHANGED changed /\ tab'[t].missed = tab[t].missed
      \/ <<t, "load">> \in held /\ tab'[t].admission.scope.subject = session /\ UNCHANGED session
  BY <1>1 DEF Mild
<1>3. Working(tab'[t]) => /\ Working(tab[t]) /\ tab'[t].op = tab[t].op
                          /\ tab[t].op.kind = "renew" => tab'[t].missed = tab[t].missed
  BY DEF Mild, Working, LoggingOut
<1>4. LoggingOut(tab[t]) /\ ~tab[t].op.working /\ tab'[t].op = NoOp => Retry(t) \/ Close(t)
  BY DEF Mild
<1> QED
  BY <1>2, <1>3, <1>4 DEF Shape

\* Within its lease a tab says nothing and writes nothing.
LEMMA StayKeeps ==
  ASSUME IInv, UNCHANGED around, NEW t \in Tabs, NEW r, Good(r), Mild(t, r), NEW answered, NEW asked,
         Stay(t, r, answered, asked), "op" \notin answered
  PROVE  IInv' /\ Shape(t)
<1>1. /\ TabsOK' /\ Step(t) /\ tab'[t].op = r.op /\ tab'[t].admission = r.admission
      /\ tab'[t].missed = r.missed
  BY BecomeKeeps DEF IInv, Stay
<1>2. /\ ServerOK' /\ InboxOK' /\ Talks(t) /\ Stores(t) /\ Writeless(t)
      /\ UNCHANGED <<session, due, inbox, changed>>
  BY DEF IInv, ServerOK, InboxOK, Talks, Stores, Writeless, Stay, server
<1>3. Shape(t)
  BY <1>1, <1>2, MildShape
<1> QED
  BY <1>1, <1>2, <1>3 DEF IInv

\* A write that a tab gives up goes on as it was.
LEMMA StrayKeeps ==
  ASSUME IInv, NEW t \in Tabs, NEW r, Stray(t, r), UNCHANGED <<session, due>>
  PROVE  strays' \subseteq Strays /\ Writeless(t)
<1>1. tab[t].op \in Operation \cup {NoOp} /\ tab[t].missed \in BOOLEAN
  BY DEF IInv, TabsOK, TabState
<1>2. Aborts(t, r) => Working(tab[t])
  BY DEF Aborts, Working
<1>3. CASE Aborts(t, r)
  BY <1>1, <1>2, <1>3 DEF IInv, ServerOK, Stray, Strays, Writeless, Working
<1>4. CASE ~Aborts(t, r)
  BY <1>4 DEF IInv, ServerOK, Stray, Writeless
<1> QED
  BY <1>3, <1>4

LEMMA LeaveKeeps ==
  ASSUME IInv, UNCHANGED around, NEW t \in Tabs, NEW r, Good(r), Mild(t, r), r.admission = None,
         NEW answered, "op" \notin answered, NEW boxes \in [Tabs -> Seq(Phases)],
         \A u \in Tabs \ {t} : boxes[u] = inbox[u], Stores(t),
         Leave(t, r, answered, boxes)
  PROVE  IInv' /\ Shape(t)
<1> DEFINE said == answered \cup (IF r.load = "entry" THEN {"load"} ELSE {})
<1>0. "op" \notin said
  OBVIOUS
<1>1. /\ TabsOK' /\ Step(t) /\ tab'[t].op = r.op /\ tab'[t].admission = r.admission
      /\ tab'[t].missed = r.missed
  BY <1>0, BecomeKeeps DEF IInv, Leave
<1>3. strays' \subseteq Strays /\ Writeless(t)
  BY StrayKeeps DEF Leave
<1>4. ServerOK' /\ UNCHANGED <<session, due>>
  BY <1>3 DEF IInv, ServerOK, Leave
<1>5. InboxOK' /\ Talks(t)
  <2>1. <<"complete">> \in Seq(Phases) /\ <<>> \in Seq(Phases)
    BY DEF Phases
  <2>2. LastWords(t, r) \in Seq(Phases)
    BY <2>1 DEF LastWords
  <2> QED
    BY <2>2, NotifyTalks DEF IInv, Leave
<1>6. Shape(t)
  BY <1>1, <1>3, <1>5, MildShape
<1> QED
  BY <1>1, <1>4, <1>5, <1>6 DEF IInv

\* A request answered under another scope retires the tab.
LEMMA DisownKeeps ==
  ASSUME IInv, UNCHANGED around, NEW t \in Tabs, Disown(t)
  PROVE  IInv' /\ Shape(t)
<1> DEFINE r == Retired(tab[t], "expired", LoggingOut(tab[t]))
<1>1. Good(tab[t])
  BY DEF IInv, TabsOK, Good
<1>2. Good(r) /\ r.admission = None
  BY <1>1, RetiredKeeps DEF LoggingOut
<1>3. Mild(t, r)
  BY <1>1, RetiredIsMild DEF LoggingOut
<1>4. Leave(t, r, {"read"}, inbox)
  BY DEF Disown
<1>5. inbox \in [Tabs -> Seq(Phases)] /\ Stores(t)
  BY DEF IInv, InboxOK, Disown, Tell, Stores
<1> HIDE DEF r
<1> QED
  BY <1>2, <1>3, <1>4, <1>5, LeaveKeeps

--------------------------------------------------------------------------------
(* What the tabs do.                                                             *)

LEMMA HereIsScope ==
  ASSUME ServerOK, session # None
  PROVE  Here \in Scope
BY DEF ServerOK, Here, Scope

LEMMA LoadKeeps ==
  ASSUME IInv, UNCHANGED around, NEW t \in Tabs, Load(t)
  PROVE  IInv' /\ Shape(t)
<1> DEFINE r == tab[t]
<1>1. /\ Good(r) /\ r.load # "none" /\ r.admission = None /\ r.shown = None /\ ~r.read.live
      /\ ~(r.op # NoOp /\ r.op.working) /\ ~LoggingOut(r) /\ r.state \notin {"away", "closed"}
  <2>1. Good(r)
    BY DEF IInv, TabsOK, Good
  <2>2. r.load # "none"
    BY DEF Load, LoadFails, LoadUnauthenticated, LoadForbidden, LoadAbsent, LoadSession, LoadEntry,
           LoadPages, Loading
  <2> QED
    BY <2>1, <2>2 DEF Good, Leased
<1>2. session # None => Here \in Scope
  BY HereIsScope DEF IInv
<1> HIDE DEF r
<1>3. ASSUME NEW q, q \in TabState, q.admission = None, q.shown = r.shown, q.read = r.read, q.op = r.op,
             q.state \notin {"away", "closed"}, q.missed = r.missed
      PROVE  Good(q) /\ Mild(t, q)
  <2>1. Good(q)
    BY <1>1, <1>3 DEF Good, Leased, LoggingOut
  <2>2. Mild(t, q)
    BY <1>3, SameOpIsMild DEF r
  <2> QED
    BY <2>1, <2>2
<1>4. CASE LoadFails(t)
  <2> DEFINE f == [r EXCEPT !.state = "unavailable", !.load = "none"]
  <2>1. /\ f \in TabState /\ f.admission = None /\ f.shown = r.shown /\ f.read = r.read /\ f.op = r.op
        /\ f.state \notin {"away", "closed"} /\ f.missed = r.missed
    BY <1>1 DEF Good, TabState
  <2>2. Stay(t, f, {"load"}, <<>>)
    BY <1>4 DEF LoadFails, r
  <2> HIDE DEF f
  <2> QED
    BY <1>3, <2>1, <2>2, StayKeeps
<1>5. CASE LoadUnauthenticated(t)
  <2> DEFINE f == [r EXCEPT !.state = "expired", !.load = "none"]
  <2>1. /\ f \in TabState /\ f.admission = None /\ f.shown = r.shown /\ f.read = r.read /\ f.op = r.op
        /\ f.state \notin {"away", "closed"} /\ f.missed = r.missed
    BY <1>1 DEF Good, TabState
  <2>2. Disown(t) \/ Stay(t, f, {"load"}, <<>>)
    BY <1>5 DEF LoadUnauthenticated, r
  <2> HIDE DEF f
  <2> QED
    BY <1>3, <2>1, <2>2, StayKeeps, DisownKeeps
<1>6. CASE LoadForbidden(t)
  <2> DEFINE f == [r EXCEPT !.state = "forbidden", !.load = "none"]
  <2>1. /\ f \in TabState /\ f.admission = None /\ f.shown = r.shown /\ f.read = r.read /\ f.op = r.op
        /\ f.state \notin {"away", "closed"} /\ f.missed = r.missed
    BY <1>1 DEF Good, TabState
  <2> DEFINE g == [f EXCEPT !.check = "quiet"]
             h == [f EXCEPT !.who = session]
  <2>2. \/ Stay(t, g, {"load"}, <<"check">>)
        \/ Stay(t, f, {"load"}, <<>>)
        \/ Stay(t, h, {"load"}, <<>>)
    BY <1>6 DEF LoadForbidden, r
  <2>3. session \in Subjects
    BY <1>6 DEF LoadForbidden, IInv, ServerOK
  <2> HIDE DEF f
  <2>4. /\ g \in TabState /\ g.admission = None /\ g.shown = r.shown /\ g.read = r.read /\ g.op = r.op
        /\ g.state \notin {"away", "closed"} /\ g.missed = r.missed
    BY <2>1 DEF TabState
  <2>5. /\ h \in TabState /\ h.admission = None /\ h.shown = r.shown /\ h.read = r.read /\ h.op = r.op
        /\ h.state \notin {"away", "closed"} /\ h.missed = r.missed
    BY <2>1, <2>3 DEF TabState
  <2> HIDE DEF g, h
  <2>6. Good(f) /\ Mild(t, f) /\ Good(g) /\ Mild(t, g) /\ Good(h) /\ Mild(t, h)
    BY <1>3, <2>1, <2>4, <2>5
  <2> QED
    BY <2>2, <2>6, StayKeeps
<1>7. CASE LoadAbsent(t)
  <2> DEFINE f == [r EXCEPT !.load = "session"]
  <2>1. /\ f \in TabState /\ f.admission = None /\ f.shown = r.shown /\ f.read = r.read /\ f.op = r.op
        /\ f.state \notin {"away", "closed"} /\ f.missed = r.missed
    BY <1>1 DEF Good, TabState
  <2>2. Stay(t, f, {"load"}, <<"load">>)
    BY <1>7 DEF LoadAbsent, r
  <2> HIDE DEF f
  <2> QED
    BY <1>3, <2>1, <2>2, StayKeeps
<1>8. CASE LoadSession(t)
  <2>1. session \in Subjects
    BY <1>8 DEF LoadSession, IInv, ServerOK
  <2> DEFINE f == [r EXCEPT !.load = "pages", !.who = session]
  <2>2. /\ f \in TabState /\ f.admission = None /\ f.shown = r.shown /\ f.read = r.read /\ f.op = r.op
        /\ f.state \notin {"away", "closed"} /\ f.missed = r.missed
    BY <1>1, <2>1 DEF Good, TabState
  <2> DEFINE g == [f EXCEPT !.bound = Here]
  <2>3. g = [r EXCEPT !.load = "pages", !.who = session, !.bound = Here]
    BY DEF g, f
  <2>4. Stay(t, g, {"load"}, <<"load">>)
    BY <1>8, <2>3 DEF LoadSession, r
  <2>5. Here \in Scope
    BY <1>2, <2>1
  <2> HIDE DEF f
  <2>6. /\ g \in TabState /\ g.admission = None /\ g.shown = r.shown /\ g.read = r.read /\ g.op = r.op
        /\ g.state \notin {"away", "closed"} /\ g.missed = r.missed
    BY <2>2, <2>5 DEF TabState
  <2> HIDE DEF g
  <2> QED
    BY <1>3, <2>4, <2>6, StayKeeps
<1>9. ASSUME NEW scope \in Scope, scope = Here, <<t, "load">> \in held
      PROVE  Good(Admitted(r, scope)) /\ Mild(t, Admitted(r, scope))
  <2> DEFINE f == [r EXCEPT !.state = "authenticated", !.load = "none"]
             g == [f EXCEPT !.who = scope.subject, !.bound = scope]
             q == [g EXCEPT !.admission = [scope |-> scope, pages |-> Here]]
  <2>1. f \in TabState
    BY <1>1 DEF Good, TabState
  <2>2. f.load = "none" /\ f.shown = r.shown /\ f.read = r.read /\ f.op = r.op /\ f.missed = r.missed
    BY <1>1 DEF Good, TabState
  <2> HIDE DEF f
  <2>3. scope.subject \in Subjects
    BY DEF Scope
  <2>4. g \in TabState
    BY <2>1, <2>3 DEF TabState
  <2>5. g.bound = scope /\ g.load = f.load /\ g.shown = f.shown /\ g.read = f.read /\ g.op = f.op
        /\ g.missed = f.missed
    BY <2>1 DEF TabState
  <2> HIDE DEF g
  <2>6. q \in TabState
    BY <1>9, <2>4 DEF TabState
  <2>7. /\ q.admission = [scope |-> scope, pages |-> Here] /\ q.bound = g.bound
        /\ q.load = g.load /\ q.shown = g.shown /\ q.read = g.read /\ q.op = g.op
        /\ q.missed = g.missed
    BY <2>4 DEF TabState
  <2>8. q.admission.scope = scope /\ q.admission.pages = Here
    BY <2>7
  <2> HIDE DEF q
  <2>9. q.state = g.state /\ g.state = f.state /\ f.state = "authenticated"
    BY <1>1, <2>1, <2>4 DEF TabState, q, g, f, Good
  <2>10. Leased(q)
    BY <1>1, <1>9, <2>2, <2>5, <2>7, <2>8, <2>9 DEF Leased, LoggingOut
  <2>11. q.op = tab[t].op /\ q.admission.scope.subject = session /\ q.missed = tab[t].missed
    BY <1>9, <2>2, <2>5, <2>7, <2>8 DEF Here, r
  <2>12. Mild(t, q)
    BY <1>1, <1>9, <2>11 DEF Mild, r
  <2>13. Admitted(r, scope) = q
    BY DEF Admitted, q, g, f
  <2> QED
    BY <2>6, <2>10, <2>12, <2>13 DEF Good
<1>10. CASE LoadEntry(t)
  <2>1. Good(Admitted(r, Here)) /\ Mild(t, Admitted(r, Here))
    BY <1>2, <1>9, <1>10 DEF LoadEntry, Loading
  <2> QED
    BY <1>10, <2>1, StayKeeps DEF LoadEntry, r
<1>11. CASE LoadPages(t)
  <2>1. CASE Answered(tab[t].bound)
    <3>1. Good(Admitted(r, tab[t].bound)) /\ Mild(t, Admitted(r, tab[t].bound))
      BY <1>2, <1>9, <1>11, <2>1 DEF LoadPages, Loading, Answered
    <3> QED
      BY <1>11, <2>1, <3>1, StayKeeps DEF LoadPages, r
  <2>2. CASE ~Answered(tab[t].bound)
    BY <1>11, <2>2, DisownKeeps DEF LoadPages
  <2> QED
    BY <2>1, <2>2
<1> QED
  BY <1>4, <1>5, <1>6, <1>7, <1>8, <1>10, <1>11 DEF Load

\* A change of the fields that no lease is about.
LEMMA SameLease ==
  ASSUME NEW r, Good(r), NEW q \in TabState,
         q.admission = r.admission, q.bound = r.bound, q.load = r.load, q.shown = r.shown,
         q.read = r.read,
         \/ q.op = r.op \/ q.op = NoOp
         \/ ~q.op.working /\ ~LoggingOut(q) /\ r.state \notin {"away", "closed"},
         \/ q.state = r.state \/ q.state = "authenticated"
         \/ /\ q.shown = None /\ ~q.read.live
            /\ q.state \notin {"away", "closed"}
                 \/ (q.admission = None /\ q.load = "none" /\ q.op = NoOp)
  PROVE  Good(q)
BY DEF Good, Leased, LoggingOut, NoOp

LEMMA UncheckedKeeps ==
  ASSUME NEW r, Good(r)
  PROVE  /\ Good(Unchecked(r))
         /\ Unchecked(r).op = r.op /\ Unchecked(r).admission = r.admission
         /\ Unchecked(r).missed = r.missed
<1>1. /\ Good(Unmounted(r)) /\ Unmounted(r).shown = None /\ ~Unmounted(r).read.live
      /\ Unmounted(r).op = r.op /\ Unmounted(r).admission = r.admission
      /\ Unmounted(r).missed = r.missed
  BY UnmountedKeeps
<1> DEFINE u == Unmounted(r)
           loud == [u EXCEPT !.state = "unavailable", !.check = "none"]
           quiet == [r EXCEPT !.check = "none"]
<1>2. Good(loud) /\ loud.op = r.op /\ loud.admission = r.admission /\ loud.missed = r.missed
  <2> DEFINE q == loud
  <2>0. u \in TabState
    BY <1>1 DEF Good
  <2> HIDE DEF u
  <2>1. q \in TabState /\ q.admission = u.admission /\ q.bound = u.bound /\ q.load = u.load
        /\ q.shown = u.shown /\ q.read = u.read /\ q.op = u.op /\ q.state = "unavailable"
        /\ q.missed = u.missed
    BY <2>0 DEF TabState
  <2> HIDE DEF q
  <2>2. Good(q)
    BY <1>1, <2>1, SameLease DEF u
  <2> QED
    BY <1>1, <2>1, <2>2 DEF q, u
<1>3. Good(quiet) /\ quiet.op = r.op /\ quiet.admission = r.admission /\ quiet.missed = r.missed
  <2> DEFINE q == quiet
  <2>1. q \in TabState /\ q.admission = r.admission /\ q.bound = r.bound /\ q.load = r.load
        /\ q.shown = r.shown /\ q.read = r.read /\ q.op = r.op /\ q.state = r.state
        /\ q.missed = r.missed
    BY DEF Good, TabState
  <2> HIDE DEF q
  <2>2. Good(q)
    BY <2>1, SameLease
  <2> QED
    BY <2>1, <2>2 DEF q
<1>4. Unchecked(r) \in {loud, quiet}
  BY DEF Unchecked
<1> HIDE DEF loud, quiet
<1> QED
  BY <1>2, <1>3, <1>4

LEMMA CheckKeeps ==
  ASSUME IInv, UNCHANGED around, NEW t \in Tabs, Focus(t) \/ Check(t)
  PROVE  IInv' /\ Shape(t)
<1> DEFINE r == tab[t]
           retired(reason) == Retired(r, reason, LoggingOut(r))
           loud == [r EXCEPT !.check = "loud"]
           fine == [r EXCEPT !.state = "authenticated", !.check = "none"]
<1>1. Good(r)
  BY DEF IInv, TabsOK, Good
<1>2. ASSUME NEW reason \in {"expired", "forbidden"}
      PROVE  /\ Good(retired(reason)) /\ Mild(t, retired(reason))
             /\ retired(reason).admission = None
  BY <1>1, RetiredKeeps, RetiredIsMild DEF LoggingOut
<1>3. Good(Unchecked(r)) /\ Mild(t, Unchecked(r))
  BY <1>1, UncheckedKeeps, SameOpIsMild
<1>i. inbox \in [Tabs -> Seq(Phases)]
  BY DEF IInv, InboxOK
<1>6. CASE Focus(t)
  <2>0. \E asked : Stay(t, loud, {}, asked)
    BY <1>6 DEF Focus
  <2> HIDE DEF r
  <2>1. loud \in TabState /\ loud.admission = r.admission /\ loud.bound = r.bound
        /\ loud.load = r.load /\ loud.shown = r.shown /\ loud.read = r.read /\ loud.op = r.op
        /\ loud.state = r.state /\ loud.missed = r.missed
    BY <1>1 DEF Good, TabState
  <2> HIDE DEF loud
  <2>2. Good(loud) /\ Mild(t, loud)
    BY <1>1, <2>1, SameLease, SameOpIsMild DEF r
  <2> QED
    BY <2>0, <2>2, StayKeeps
<1>7. CASE Check(t)
  <2>1. \/ Stay(t, Unchecked(r), {"check"}, <<>>)
        \/ Stay(t, fine, {"check"}, <<>>)
        \/ Leave(t, retired("expired"), {}, inbox) /\ UNCHANGED changed
        \/ Leave(t, retired("forbidden"), {}, inbox) /\ UNCHANGED changed
    BY <1>7 DEF Check
  <2> HIDE DEF r
  <2>2. fine \in TabState /\ fine.admission = r.admission /\ fine.bound = r.bound
        /\ fine.load = r.load /\ fine.shown = r.shown /\ fine.read = r.read /\ fine.op = r.op
        /\ fine.state = "authenticated" /\ fine.missed = r.missed
    BY <1>1 DEF Good, TabState
  <2> HIDE DEF fine
  <2>3. Good(fine) /\ Mild(t, fine)
    BY <1>1, <2>2, SameLease, SameOpIsMild DEF r
  <2> HIDE DEF retired
  <2>4. CASE /\ Leave(t, retired("expired"), {}, inbox) \/ Leave(t, retired("forbidden"), {}, inbox)
             /\ UNCHANGED changed
    <3>s. Stores(t)
      BY <2>4 DEF Stores
    <3>1. PICK reason \in {"expired", "forbidden"} : Leave(t, retired(reason), {}, inbox)
      BY <2>4
    <3>2. Good(retired(reason)) /\ Mild(t, retired(reason)) /\ retired(reason).admission = None
      BY <1>2
    <3> QED
      BY <1>i, <3>s, <3>1, <3>2, LeaveKeeps
  <2> QED
    BY <1>3, <2>1, <2>3, <2>4, StayKeeps
<1> QED
  BY <1>6, <1>7

\* What a page is given is of the scope that its tab admitted.
LEMMA ReadKeeps ==
  ASSUME IInv, UNCHANGED around, NEW t \in Tabs, Read(t) \/ ReadAnswers(t)
  PROVE  IInv' /\ Shape(t)
<1> DEFINE r == tab[t]
           over == [r EXCEPT !.read = NoRead]
<1>1. Good(r)
  BY DEF IInv, TabsOK, Good
<1>r. NoRead \in [asked : BOOLEAN, live : BOOLEAN, bound : Scope \cup {None}] /\ ~NoRead.live
  BY DEF NoRead
<1> HIDE DEF r, NoRead
<1>2. /\ over \in TabState /\ over.read = NoRead
      /\ over.admission = r.admission /\ over.bound = r.bound /\ over.load = r.load
      /\ over.shown = r.shown /\ over.op = r.op /\ over.state = r.state /\ over.check = r.check
      /\ over.missed = r.missed
  BY <1>1, <1>r DEF Good, TabState
<1> HIDE DEF over
<1> DEFINE quiet == [over EXCEPT !.check = "quiet"]
<1>3. Good(over) /\ Mild(t, over)
  <2>1. Good(over)
    BY <1>1, <1>2, <1>r DEF Good, Leased, LoggingOut
  <2> QED
    BY <1>2, <2>1, SameOpIsMild DEF r
<1>4. Good(quiet) /\ Mild(t, quiet)
  <2> DEFINE q == quiet
  <2>1. q \in TabState /\ q.admission = over.admission /\ q.bound = over.bound /\ q.load = over.load
        /\ q.shown = over.shown /\ q.read = over.read /\ q.op = over.op /\ q.state = over.state
        /\ q.missed = over.missed
    BY <1>2 DEF TabState
  <2> HIDE DEF q
  <2>2. Good(q)
    BY <1>3, <2>1, SameLease
  <2>3. Mild(t, q)
    BY <1>2, <2>1, SameOpIsMild DEF r
  <2> QED
    BY <2>2, <2>3 DEF q
<1>5. CASE Read(t)
  <2> DEFINE q == [r EXCEPT !.read = [asked |-> TRUE, live |-> TRUE, bound |-> r.bound]]
  <2>1. r.state = "authenticated" /\ r.admission # None
    BY <1>5 DEF Read, r
  <2>2. r.bound \in Scope \cup {None}
    BY <1>1 DEF Good, TabState
  <2>3. /\ q \in TabState /\ q.read = [asked |-> TRUE, live |-> TRUE, bound |-> r.bound]
        /\ q.admission = r.admission /\ q.bound = r.bound /\ q.load = r.load
        /\ q.shown = r.shown /\ q.op = r.op /\ q.state = r.state /\ q.missed = r.missed
    BY <1>1, <2>2 DEF Good, TabState
  <2> HIDE DEF q
  <2>4. Good(q)
    BY <1>1, <2>1, <2>3 DEF Good, Leased, LoggingOut
  <2>5. Mild(t, q)
    BY <2>3, SameOpIsMild DEF r
  <2>6. Stay(t, q, {}, <<"read">>)
    BY <1>5 DEF Read, r, q
  <2> QED
    BY <2>4, <2>5, <2>6, StayKeeps
<1>6. CASE ReadLate(t) \/ ReadFails(t) \/ ReadForbidden(t)
  <2>1. \/ Stay(t, over, {"read"}, <<>>)
        \/ Stay(t, quiet, {"read"}, <<"check">>)
    BY <1>6 DEF ReadLate, ReadFails, ReadForbidden, over, r
  <2> HIDE DEF quiet
  <2> QED
    BY <1>3, <1>4, <2>1, StayKeeps
<1>7. CASE ReadReturns(t)
  <2>1. CASE session # None /\ access /\ Answered(r.read.bound)
    <3> DEFINE q == [r EXCEPT !.read = NoRead, !.shown = Here]
    <3>1. Here \in Scope
      BY <2>1, HereIsScope DEF IInv
    <3>2. r.read.live /\ Stay(t, q, {"read"}, <<>>)
      BY <1>7, <2>1 DEF ReadReturns, r
    <3>3. q = [over EXCEPT !.shown = Here]
      BY DEF over
    <3> HIDE DEF q
    <3>4. /\ q \in TabState /\ q.shown = Here /\ q.read = NoRead
          /\ q.admission = r.admission /\ q.bound = r.bound /\ q.load = r.load
          /\ q.op = r.op /\ q.state = r.state /\ q.missed = r.missed
      BY <1>2, <3>1, <3>3 DEF TabState
    <3>5. r.read.bound = Here
      BY <2>1 DEF Answered
    <3>6. Good(q)
      BY <1>1, <1>r, <3>2, <3>4, <3>5 DEF Good, Leased, LoggingOut
    <3>7. Mild(t, q)
      BY <3>4, SameOpIsMild DEF r
    <3> QED
      BY <3>2, <3>6, <3>7, StayKeeps
  <2>2. CASE ~(session # None /\ access /\ Answered(r.read.bound))
    BY <1>7, <2>2, DisownKeeps DEF ReadReturns, r
  <2> QED
    BY <2>1, <2>2
<1> QED
  BY <1>5, <1>6, <1>7 DEF ReadAnswers

\* A write at work has ended the lease of its tab.
LEMMA DispatchKeeps ==
  ASSUME IInv, UNCHANGED around, NEW t \in Tabs, Dispatch(t), tab[t].op # NoOp,
         <<t, "op">> \in held, tab[t].op.kind = "renew" /\ around.status => due
  PROVE  IInv' /\ Shape(t)
<1> DEFINE r == Retired(tab[t], "expired", TRUE)
           g == Given(t, r, {})
           q == [g EXCEPT !.op.working = TRUE]
<1>1. Good(tab[t])
  BY DEF IInv, TabsOK, Good
<1>2. Good(r) /\ r.admission = None /\ r.load = "none" /\ r.op = tab[t].op
  BY <1>1, RetiredKeeps
<1>4. tab' = [tab EXCEPT ![t] = q]
  BY DEF Dispatch
<1> HIDE DEF r
<1>3. Good(g) /\ g.admission = None /\ g.load = "none" /\ g.op = tab[t].op
  BY <1>2, GivenKeeps
<1> HIDE DEF g
<1>5. g \in TabState /\ g.op \in Operation
  BY <1>3 DEF Good, TabState
<1> DEFINE op == [g.op EXCEPT !.working = TRUE]
<1>6. op \in Operation /\ op.kind = g.op.kind /\ op # NoOp
  BY <1>5, NoOpIsNothing DEF Operation
<1>7. q = [g EXCEPT !.op = op]
  OBVIOUS
<1> HIDE DEF op, q
<1>t. q \in TabState
  BY <1>5, <1>6, <1>7 DEF TabState
<1>8. /\ q \in TabState /\ q.admission = None /\ q.load = "none"
      /\ q.shown = g.shown /\ q.read = g.read /\ q.op = op /\ q.state = g.state
  BY <1>3, <1>5, <1>7, <1>t DEF TabState
<1>s. g.state \notin {"away", "closed"}
  BY <1>3, <1>5, NoOpIsNothing DEF Good, Leased
<1>9. Good(q)
  BY <1>3, <1>8, <1>s DEF Good, Leased
<1>10. TabsOK' /\ tab'[t] = q /\ \A u \in Tabs \ {t} : tab'[u] = tab[u]
  BY <1>4, <1>9 DEF IInv, TabsOK, Good
<1>11. ServerOK'
  BY DEF IInv, ServerOK, Dispatch, server
<1>12. Lock(t, Released(t, r, {}), <<>>) /\ Notify(t, <<"begin">>, inbox)
  BY DEF Dispatch, r
<1>13. "op" \notin Released(t, r, {})
  BY <1>2 DEF Released
<1>14. Step(t)
  BY <1>10, <1>12, <1>13, LockKeeps DEF Step, Others
<1>15. InboxOK' /\ Talks(t) /\ Stores(t) /\ Writeless(t)
  <2>1. <<"begin">> \in Seq(Phases) /\ inbox \in [Tabs -> Seq(Phases)]
    BY DEF Phases, IInv, InboxOK
  <2>2. Stores(t) /\ Writeless(t)
    BY DEF Dispatch, server, Stores, Writeless
  <2> QED
    BY <1>12, <2>1, <2>2, NotifyTalks DEF IInv
<1>16. ASSUME NEW u \in Tabs \ {t}, tab[u].admission # None, {t, u} \cap around.deaf = {}
       PROVE  inbox'[u] # <<>>
  <2>0. tab[u].state \notin {"away", "closed"}
    BY <1>16 DEF IInv, TabsOK, Leased
  <2>1. inbox'[u] = inbox[u] \o <<"begin">>
    BY <1>12, <1>16, <2>0 DEF Notify, Open
  <2>2. inbox[u] \in Seq(Phases) /\ <<"begin">> \in Seq(Phases)
    BY DEF IInv, InboxOK, Phases
  <2> QED
    BY <2>1, <2>2
<1>17. tab'[t].op.kind = tab[t].op.kind /\ tab'[t].op # NoOp /\ tab'[t].admission = None
  BY <1>3, <1>6, <1>8, <1>10
<1>18. Began(t)
  BY <1>16, <1>17 DEF Began
<1>19. Shape(t)
  BY <1>14, <1>15, <1>17, <1>18 DEF Shape
<1> QED
  BY <1>10, <1>11, <1>15, <1>19 DEF IInv

LEMMA SubmitKeeps ==
  ASSUME IInv, UNCHANGED around, NEW t \in Tabs, NEW kind \in Kinds,
         NEW as \in Subjects \cup {None}, Submit(t, kind, as)
  PROVE  IInv' /\ Shape(t)
<1> DEFINE r == tab[t]
           op == [kind |-> kind, as |-> as, expected |-> r.who, working |-> FALSE,
                  nth |-> ops]
           s == [r EXCEPT !.op = op]
<1>1. Good(r)
  BY DEF IInv, TabsOK, Good
<1>2. \/ kind # "logout" /\ Become(t, s, {}, <<"op">>)
      \/ Become(t, Retired(s, "expired", TRUE), {}, <<"op">>)
  BY DEF Submit
<1>3. /\ ServerOK' /\ InboxOK' /\ Talks(t) /\ Stores(t) /\ Writeless(t)
      /\ UNCHANGED <<inbox, changed>>
  BY DEF IInv, ServerOK, InboxOK, Talks, Stores, Writeless, Submit
<1>n. r.op = NoOp /\ r.state \notin {"away", "closed"} /\ ops \in Nat
  BY DEF Submit, IInv, ServerOK
<1> HIDE DEF r
<1>4. op \in Operation /\ ~op.working
  BY <1>1, <1>n DEF Good, TabState, Operation
<1> HIDE DEF op
<1>5. s \in TabState /\ s.admission = r.admission /\ s.bound = r.bound /\ s.load = r.load
      /\ s.shown = r.shown /\ s.read = r.read /\ s.op = op /\ s.state = r.state
      /\ s.missed = r.missed
  BY <1>1, <1>4 DEF Good, TabState
<1> HIDE DEF s
<1>6. kind # "logout" => Good(s)
  BY <1>1, <1>4, <1>5, <1>n, SameLease DEF op, LoggingOut
<1> DEFINE q == Retired(s, "expired", TRUE)
<1>7. Good(q) /\ q.op = op /\ q.admission = None
  BY <1>5, RetiringEndsTheLease
<1> HIDE DEF q
<1>8. /\ TabsOK' /\ Step(t)
      /\ tab'[t].op = op
      /\ tab'[t].admission = None \/ (tab'[t].admission = r.admission /\ tab'[t].missed = r.missed)
  <2>1. CASE kind # "logout" /\ Become(t, s, {}, <<"op">>)
    BY <1>5, <1>6, <2>1, BecomeKeeps DEF IInv
  <2>2. CASE Become(t, q, {}, <<"op">>)
    BY <1>7, <2>2, BecomeKeeps DEF IInv
  <2> QED
    BY <1>2, <2>1, <2>2 DEF q
<1>9. Shape(t)
  BY <1>3, <1>4, <1>8, <1>n, NoOpIsNothing DEF Shape, Working, LoggingOut, r
<1> QED
  BY <1>3, <1>8, <1>9 DEF IInv

\* The server executes what its record of an operation says.
LEMMA ExecuteKeeps ==
  ASSUME NEW op \in Operation, Execute(op), session \in Subjects \cup {None}
  PROVE  session' \in Subjects \cup {None}
BY DEF Execute, Operation

LEMMA OperateKeeps ==
  ASSUME IInv, UNCHANGED around, NEW t \in Tabs, Operate(t)
  PROVE  IInv' /\ Shape(t)
<1> DEFINE r == tab[t]
           over == Over(r)
<1>1. Good(r)
  BY DEF IInv, TabsOK, Good
<1>2. r.op # NoOp /\ <<t, "op">> \in held
  BY DEF Operate, Begin, CheckDue, ReadsDeadlines, Work, Succeed, Refused, Unanswered, Holding
<1>3. r.op \in Operation
  BY <1>1, <1>2 DEF Good, TabState
<1>4. Good(Mounted(r)) /\ Mounted(r).admission = None /\ Mounted(r).op = NoOp
  BY <1>1, MountedKeeps
<1>i. inbox \in [Tabs -> Seq(Phases)]
  BY DEF IInv, InboxOK
<1>5. /\ over \in TabState /\ over.op = NoOp
      /\ over.admission = r.admission /\ over.bound = r.bound /\ over.load = r.load
      /\ over.shown = r.shown /\ over.read = r.read /\ over.state = r.state
      /\ over.missed = r.missed
  BY <1>1 DEF Over, Good, TabState
<1> HIDE DEF over
<1>6. Good(over)
  BY <1>1, <1>5, SameLease
<1>7. ASSUME ~LoggingOut(r)
      PROVE  /\ Good(over) /\ Mild(t, over)
             /\ Good([Unmounted(over) EXCEPT !.state = "expired"])
             /\ Mild(t, [Unmounted(over) EXCEPT !.state = "expired"])
  <2> DEFINE u == Unmounted(over)
             q == [u EXCEPT !.state = "expired"]
  <2>1. /\ Good(u) /\ u \in TabState /\ u.shown = None /\ ~u.read.live
        /\ u.admission = over.admission /\ u.op = over.op /\ u.missed = over.missed
    BY <1>6, UnmountedKeeps DEF Good
  <2> HIDE DEF u
  <2>2. q \in TabState /\ q.admission = u.admission /\ q.bound = u.bound /\ q.load = u.load
        /\ q.shown = u.shown /\ q.read = u.read /\ q.op = u.op /\ q.state = "expired"
        /\ q.missed = u.missed
    BY <2>1 DEF TabState
  <2> HIDE DEF q
  <2>3. Good(q)
    BY <2>1, <2>2, SameLease
  <2>4. Mild(t, q) /\ Mild(t, over)
    BY <1>5, <1>7, <2>1, <2>2 DEF Mild, r
  <2> QED
    BY <1>6, <2>3, <2>4 DEF q, u
<1>8. ASSUME r.op.working, NEW state \in {"expired", "unavailable"}
      PROVE  /\ Good([over EXCEPT !.state = state])
             /\ [over EXCEPT !.state = state].admission = None
             /\ [over EXCEPT !.state = state].op = NoOp
  <2> DEFINE q == [over EXCEPT !.state = state]
  <2>1. r.shown = None /\ ~r.read.live /\ r.admission = None
    BY <1>1, <1>2, <1>8 DEF Good, Leased
  <2>2. q \in TabState /\ q.admission = over.admission /\ q.bound = over.bound /\ q.load = over.load
        /\ q.shown = over.shown /\ q.read = over.read /\ q.op = over.op /\ q.state = state
    BY <1>5 DEF TabState
  <2> HIDE DEF q
  <2>3. Good(q)
    BY <1>5, <1>6, <2>1, <2>2, SameLease
  <2> QED
    BY <1>5, <2>1, <2>2, <2>3 DEF q
\* A write at work ends: the tab is without a lease, and says so.
<1>e. ASSUME r.op.working, Notify(t, <<"complete">>, inbox), Stores(t), Writeless(t) \/ Wrote(t),
             TabsOK', Step(t), tab'[t].op = NoOp, tab'[t].admission = None, ServerOK'
      PROVE  IInv' /\ Shape(t)
  <2>2. <<"complete">> \in Seq(Phases)
    BY DEF Phases
  <2>3. InboxOK' /\ Talks(t)
    BY <1>e, <1>i, <2>2, NotifyTalks DEF IInv
  <2>4. ~Working(tab'[t])
    BY <1>e DEF Working
  <2>5. LoggingOut(tab[t]) => tab[t].op.working
    BY <1>e DEF r
  <2>6. Shape(t)
    BY <1>e, <2>3, <2>4, <2>5 DEF Shape
  <2> QED
    BY <1>e, <2>3, <2>6 DEF IInv
<1>w. ASSUME r.op.working, tab'[t].op = NoOp PROVE Working(tab[t]) /\ ~Working(tab'[t])
  BY <1>2, <1>w DEF Working, r
<1>p. Passed(strays) \subseteq Strays /\ \A s \in Passed(strays) : s.missed
  BY DEF Passed, Strays, IInv, ServerOK
<1>9. CASE Begin(t)
  BY <1>2, <1>9, DispatchKeeps DEF Begin
<1>10. CASE CheckDue(t)
  <2>1. ~LoggingOut(r)
    BY <1>10 DEF CheckDue, LoggingOut
  <2>2. \/ Dispatch(t) /\ due
        \/ Stay(t, over, {}, <<>>)
        \/ Stay(t, [Unmounted(over) EXCEPT !.state = "expired"], {}, <<>>)
        \/ Leave(t, Mounted(r), {}, inbox) /\ UNCHANGED changed
    BY <1>10 DEF CheckDue, RenewalDue, over
  <2>3. Mild(t, Mounted(r))
    BY <1>1, <2>1, MountedIsMild
  <2>4. CASE Dispatch(t) /\ due
    BY <1>2, <2>4, DispatchKeeps
  <2>5. CASE Leave(t, Mounted(r), {}, inbox) /\ UNCHANGED changed
    <3>1. Stores(t)
      BY <2>5 DEF Stores
    <3> QED
      BY <1>4, <1>i, <2>3, <2>5, <3>1, LeaveKeeps
  <2> QED
    BY <1>7, <2>1, <2>2, <2>4, <2>5, StayKeeps
<1>11. CASE Succeed(t)
  <2>1. session' \in Subjects \cup {None}
    BY <1>3, <1>11, ExecuteKeeps DEF Succeed, IInv, ServerOK
  <2>2. ServerOK'
    BY <1>11, <1>p, <2>1 DEF Succeed, IInv, ServerOK
  <2>3. /\ r.op.working /\ Become(t, Mounted(r), {}, <<"load">>)
        /\ Notify(t, <<"complete">>, inbox)
    BY <1>11 DEF Succeed
  <2>4. TabsOK' /\ Step(t) /\ tab'[t].op = NoOp /\ tab'[t].admission = None
    BY <1>4, <2>3, BecomeKeeps DEF IInv
  <2>5. Stores(t)
    BY <1>11 DEF Succeed, Stores, Tell
  <2>6. ASSUME session' # session, NEW u \in Tabs \ {t}, tab[u].admission # None
        PROVE  u \in changed'
    <3>1. r.op.kind # "renew"
      BY <1>11, <2>6 DEF Succeed, Execute
    <3>2. Tell(t)
      BY <1>11, <3>1 DEF Succeed, r
    <3>3. u \in Open
      BY <2>6 DEF IInv, TabsOK, Leased, Open
    <3> QED
      BY <3>2, <3>3 DEF Tell
  <2>7. Wrote(t)
    BY <1>11, <1>p, <1>w, <2>3, <2>4, <2>6 DEF Wrote, Succeed
  <2> QED
    BY <1>e, <2>2, <2>3, <2>4, <2>5, <2>7
<1>12. CASE Refused(t)
  <2> DEFINE q == [over EXCEPT !.state = "expired"]
  <2>1. /\ r.op.working /\ Become(t, q, {}, <<>>) /\ Notify(t, <<"complete">>, inbox)
    BY <1>12 DEF Refused, over
  <2>2. Good(q) /\ q.admission = None /\ q.op = NoOp
    BY <1>8, <2>1
  <2>3. ServerOK' /\ Stores(t) /\ Writeless(t)
    BY <1>12 DEF Refused, IInv, ServerOK, server, Stores, Writeless
  <2> HIDE DEF q
  <2>4. TabsOK' /\ Step(t) /\ tab'[t].op = NoOp /\ tab'[t].admission = None
    BY <2>1, <2>2, BecomeKeeps DEF IInv
  <2> QED
    BY <1>e, <2>1, <2>3, <2>4
<1>13. CASE Unanswered(t)
  <2> DEFINE q == IF r.op.kind = "renew" THEN Mounted(r)
                  ELSE [over EXCEPT !.state = IF r.op.kind = "logout" THEN "unavailable"
                                              ELSE "expired"]
             asked == IF r.op.kind = "renew" THEN <<"load">> ELSE <<>>
  <2>1. r.op.working /\ Notify(t, <<"complete">>, inbox) /\ Lock(t, Released(t, q, {}), asked)
    BY <1>13 DEF Unanswered, over, r
  <2>2. /\ UNCHANGED <<revision, ops, changed>>
        /\ \/ /\ Accepts(r.op) /\ Execute(r.op) /\ strays' = Passed(strays)
              /\ tab' = Beside(t, q, Unreached(t))
           \/ UNCHANGED <<session, due, strays>> /\ tab' = Beside(t, q, {})
    BY <1>13 DEF Unanswered, over, r
  <2>3. Good(q) /\ q.admission = None /\ q.op = NoOp
    <3>1. CASE r.op.kind = "renew"
      BY <1>4, <3>1
    <3>2. CASE r.op.kind # "renew"
      <4>1. PICK state \in {"expired", "unavailable"} : q = [over EXCEPT !.state = state]
        BY <3>2
      <4> HIDE DEF q
      <4> QED
        BY <1>8, <2>1, <4>1
    <3> QED
      BY <3>1, <3>2
  <2> HIDE DEF q, asked
  <2>4. PICK missing \in {Unreached(t), {}} : tab' = Beside(t, q, missing)
    BY <2>2
  <2>5. /\ TabsOK' /\ Step(t) /\ tab'[t].op = NoOp /\ tab'[t].admission = None
        /\ \A u \in (Open \cap missing) \ {t} : tab'[u].missed
    BY <2>1, <2>3, <2>4, BesideKeeps DEF IInv
  <2>6. session' \in Subjects \cup {None} /\ strays' \subseteq Strays
    BY <1>3, <1>p, <2>2, ExecuteKeeps DEF IInv, ServerOK
  <2>7. ServerOK' /\ Stores(t)
    BY <2>2, <2>6 DEF IInv, ServerOK, Stores
  <2>8. Writeless(t) \/ Wrote(t)
    <3>1. CASE UNCHANGED <<session, due, strays>>
      BY <3>1 DEF Writeless
    <3>2. CASE strays' = Passed(strays) /\ tab' = Beside(t, q, Unreached(t))
      <4>1. \A u \in (Open \cap Unreached(t)) \ {t} : tab'[u].missed
        BY <2>1, <2>3, <3>2, BesideKeeps DEF IInv
      <4>2. ASSUME NEW u \in Tabs \ {t}, tab[u].admission # None
            PROVE  {t, u} \cap around.deaf = {} \/ tab'[u].missed
        <5>1. u \in Open
          BY <4>2 DEF IInv, TabsOK, Leased, Open
        <5> QED
          BY <4>1, <5>1 DEF Unreached
      <4> QED
        BY <1>p, <1>w, <2>1, <2>5, <3>2, <4>2 DEF Wrote
    <3> QED
      BY <2>2, <3>1, <3>2
  <2> QED
    BY <1>e, <2>1, <2>5, <2>7, <2>8
<1> QED
  BY <1>9, <1>10, <1>11, <1>12, <1>13 DEF Operate, Work

\* Whatever a tab hears or its user does instead ends the lease.
LEMMA RemountKeeps ==
  ASSUME IInv, UNCHANGED around, NEW t \in Tabs, Retry(t) \/ Return(t) \/ Listen(t)
  PROVE  IInv' /\ Shape(t)
<1> DEFINE r == tab[t]
<1>1. Good(r)
  BY DEF IInv, TabsOK, Good
<1>i. inbox \in [Tabs -> Seq(Phases)]
  BY DEF IInv, InboxOK
<1>2. /\ Good(Mounted(r)) /\ Mounted(r).admission = None
      /\ ~LoggingOut(r) \/ Retry(t) => Mild(t, Mounted(r))
  BY <1>1, MountedKeeps, MountedIsMild
<1> DEFINE ended == Retired(r, "expired", LoggingOut(r))
<1>3. Good(ended) /\ ended.admission = None /\ Mild(t, ended)
  BY <1>1, RetiredKeeps, RetiredIsMild DEF LoggingOut
<1>5. Good(Changed(r)) /\ Changed(r).admission = None /\ Mild(t, Changed(r))
  <2>1. LoggingOut(r) => ended = Retired(r, "expired", TRUE)
    BY DEF LoggingOut
  <2> HIDE DEF ended
  <2>2. Changed(r) = IF LoggingOut(r) THEN ended ELSE Mounted(r)
    BY <2>1 DEF Changed
  <2> QED
    BY <1>2, <1>3, <2>2
<1>6. CASE Retry(t)
  BY <1>2, <1>6, <1>i, LeaveKeeps DEF Retry, Stores
<1>7. CASE Return(t) \/ HearChange(t)
  <2>1. Stores(t) /\ Leave(t, Changed(r), {}, inbox)
    BY <1>7 DEF Return, HearChange, Stores
  <2> HIDE DEF r
  <2> QED
    BY <1>5, <1>i, <2>1, LeaveKeeps
<1>8. CASE Hear(t)
  <2>c. Stores(t) /\ UNCHANGED changed
    BY <1>8 DEF Hear, Stores
  <2> DEFINE boxes == [inbox EXCEPT ![t] = Tail(@)]
  <2>1. /\ boxes \in [Tabs -> Seq(Phases)]
        /\ \A u \in Tabs \ {t} : boxes[u] = inbox[u]
    BY <1>8, <1>i DEF Hear
  <2>2. \/ Leave(t, ended, {}, boxes)
        \/ LoggingOut(r) /\ inbox' = boxes /\ UNCHANGED <<server, tab, held, queue>>
        \/ ~LoggingOut(r) /\ Leave(t, Mounted(r), {}, boxes)
    BY <1>8 DEF Hear
  <2> HIDE DEF boxes, ended
  <2>3. CASE Leave(t, ended, {}, boxes)
    BY <1>3, <2>c, <2>1, <2>3, LeaveKeeps
  <2>4. CASE ~LoggingOut(r) /\ Leave(t, Mounted(r), {}, boxes)
    BY <1>2, <2>c, <2>1, <2>4, LeaveKeeps
  <2>5. CASE LoggingOut(r) /\ inbox' = boxes /\ UNCHANGED <<server, tab, held, queue>>
    <3>1. ServerOK' /\ TabsOK' /\ InboxOK'
      BY <2>1, <2>5 DEF IInv, ServerOK, TabsOK, InboxOK, server
    <3>2. r.admission = None
      BY <1>1, <2>5 DEF Good, Leased
    <3>3. Step(t) /\ Talks(t)
      BY <2>1, <2>5 DEF Step, Others, Talks, Alone, Exclusive
    <3>4. Writeless(t) /\ UNCHANGED tab
      BY <2>5 DEF server, Writeless
    <3>5. r.op # NoOp
      BY <2>5, NoOpIsNothing DEF LoggingOut
    <3>6. Shape(t)
      BY <2>c, <3>2, <3>3, <3>4, <3>5 DEF Shape, Working
    <3> QED
      BY <3>1, <3>6 DEF IInv
  <2> QED
    BY <2>2, <2>3, <2>4, <2>5
<1> QED
  BY <1>6, <1>7, <1>8 DEF Listen

\* A page that is gone has no lease, and its tab tells and hears nothing.
LEMMA UnloadKeeps ==
  ASSUME IInv, UNCHANGED around, NEW t \in Tabs, Close(t) \/ Redirect(t)
  PROVE  IInv' /\ Shape(t)
<1>1. Good(tab[t])
  BY DEF IInv, TabsOK, Good
<1>2. PICK state \in {"away", "closed"} : Unload(t, state)
  BY DEF Close, Redirect
<1> DEFINE u == Retired(tab[t], "expired", FALSE)
           q == [u EXCEPT !.state = state]
<1>3. Good(u) /\ u \in TabState /\ u.shown = None /\ ~u.read.live /\ u.admission = None
      /\ u.load = "none" /\ u.op = NoOp
  BY <1>1, RetiredKeeps DEF Good
<1>4. /\ Become(t, q, {"read"}, <<>>) /\ Stray(t, q)
      /\ inbox' = [inbox EXCEPT ![t] = <<>>] /\ changed' = changed \ {t}
      /\ UNCHANGED <<session, due, revision, access>>
  BY <1>2 DEF Unload
<1> HIDE DEF u
<1>5. q \in TabState /\ q.admission = u.admission /\ q.bound = u.bound /\ q.load = u.load
      /\ q.shown = u.shown /\ q.read = u.read /\ q.op = u.op /\ q.state \in {"away", "closed"}
  BY <1>3 DEF TabState
<1> HIDE DEF q
<1>6. Good(q) /\ q.admission = None /\ q.op = NoOp
  BY <1>3, <1>5, SameLease
<1>7. TabsOK' /\ Step(t) /\ tab'[t].op = NoOp /\ tab'[t].admission = None
  BY <1>4, <1>6, BecomeKeeps DEF IInv
<1>8. strays' \subseteq Strays /\ Writeless(t)
  BY <1>4, StrayKeeps
<1>9. ServerOK'
  BY <1>4, <1>8 DEF IInv, ServerOK, Close, Redirect
<1>10. InboxOK' /\ Talks(t) /\ Stores(t)
  BY <1>4 DEF IInv, InboxOK, Talks, Stores
<1>11. LoggingOut(tab[t]) => Close(t)
  BY NoOpIsNothing DEF Redirect, LoggingOut
<1>12. ~Working(tab'[t])
  BY <1>7 DEF Working
<1>13. Shape(t)
  BY <1>7, <1>8, <1>10, <1>11, <1>12 DEF Shape
<1> QED
  BY <1>7, <1>9, <1>10, <1>13 DEF IInv

\* A tab that comes back is new; whoever it was signed in for, the others are passed by.
LEMMA LandKeeps ==
  ASSUME IInv, UNCHANGED around, NEW t \in Tabs, Land(t)
  PROVE  IInv' /\ Shape(t)
<1> DEFINE q == Mounted(tab[t])
<1>1. Good(tab[t])
  BY DEF IInv, TabsOK, Good
<1>2. Good(q) /\ q.admission = None /\ q.op = NoOp
  BY <1>1, MountedKeeps
<1>3. /\ tab[t].state = "away" /\ Lock(t, {}, <<"load">>)
      /\ UNCHANGED <<revision, ops, inbox, changed>>
      /\ \/ session' \in Subjects /\ strays' = Passed(strays) /\ tab' = Beside(t, q, Tabs)
         \/ UNCHANGED <<session, due, strays>> /\ tab' = Beside(t, q, {})
  BY DEF Land
<1> HIDE DEF q
<1>4. PICK missing \in {Tabs, {}} : tab' = Beside(t, q, missing)
  BY <1>3
<1>5. TabsOK' /\ Step(t) /\ tab'[t].op = NoOp /\ tab'[t].admission = None
  BY <1>2, <1>3, <1>4, BesideKeeps DEF IInv
<1>6. Passed(strays) \subseteq Strays /\ \A s \in Passed(strays) : s.missed
  BY DEF Passed, Strays, IInv, ServerOK
<1>7. ServerOK' /\ InboxOK' /\ Talks(t) /\ Stores(t)
  BY <1>3, <1>6 DEF IInv, ServerOK, InboxOK, Talks, Stores
<1>8. Writeless(t) \/ Slipped(t)
  <2>1. CASE UNCHANGED <<session, due, strays>>
    BY <2>1 DEF Writeless
  <2>2. CASE strays' = Passed(strays) /\ tab' = Beside(t, q, Tabs)
    <3>1. \A u \in (Open \cap Tabs) \ {t} : tab'[u].missed
      BY <1>2, <1>3, <2>2, BesideKeeps DEF IInv
    <3>2. ASSUME NEW u \in Tabs, tab[u].admission # None \/ Working(tab[u])
          PROVE  u \in Open
      BY <3>2 DEF IInv, TabsOK, Leased, Open, Working
    <3> QED
      BY <1>5, <1>6, <2>2, <3>1, <3>2 DEF Slipped, Working
  <2> QED
    BY <1>3, <2>1, <2>2
<1>9. tab[t].op = NoOp
  BY <1>1, <1>3 DEF Good, Leased
<1>10. ~Working(tab'[t]) /\ ~LoggingOut(tab[t])
  BY <1>5, <1>9, NoOpIsNothing DEF Working, LoggingOut
<1>11. Shape(t)
  BY <1>5, <1>7, <1>8, <1>10 DEF Shape
<1> QED
  BY <1>5, <1>7, <1>11 DEF IInv

\* A write that nobody waits for passes everybody by; else the server leaves the tabs alone.
LEMMA ServerKeeps ==
  ASSUME IInv, UNCHANGED around, Server
  PROVE  /\ IInv' /\ UNCHANGED <<held, inbox, changed>>
         /\ \/ UNCHANGED <<strays, tab>> /\ (session' = None \/ (UNCHANGED session /\ (due => due')))
            \/ UNCHANGED <<session, due, tab>> /\ strays' \subseteq strays
            \/ /\ \A s \in strays' : s.missed
               /\ \A t \in Tabs : tab'[t] \in {tab[t], Overlooked(tab[t])}
               /\ \A t \in Tabs : tab[t].admission # None \/ Working(tab[t]) => tab'[t].missed
<1>0. UNCHANGED <<held, inbox, changed>> /\ InboxOK'
  BY DEF Server, IInv, InboxOK
<1>1. CASE BecomesDue \/ Expires \/ PermissionsChange
  <2>1. UNCHANGED <<strays, ops, tab>> /\ (session' = None \/ (UNCHANGED session /\ (due => due')))
    BY <1>1 DEF BecomesDue, Expires, PermissionsChange
  <2>2. session' \in Subjects \cup {None}
    BY <2>1 DEF IInv, ServerOK
  <2>3. revision' \in 0..MaxRevision
    <3>1. around.revisions \in 0..MaxRevision
      BY DEF IInv, ServerOK, Environment
    <3> QED
      BY <1>1, <3>1, TabsAssumption DEF BecomesDue, Expires, PermissionsChange, IInv, ServerOK
  <2> QED
    BY <1>0, <2>1, <2>2, <2>3 DEF IInv, ServerOK, TabsOK
<1>2. CASE StrayLands
  <2>1. PICK s \in strays : Lands(s)
    BY <1>2 DEF StrayLands
  <2>2. CASE ~Accepts(s.op)
    BY <1>0, <2>1, <2>2 DEF Lands, IInv, ServerOK, TabsOK
  <2>3. CASE Accepts(s.op)
    <3>1. /\ Execute(s.op) /\ strays' = Passed(strays \ {s}) /\ UNCHANGED <<revision, ops>>
          /\ tab' = [t \in Tabs |-> IF t \in Open THEN Overlooked(tab[t]) ELSE tab[t]]
      BY <2>1, <2>3 DEF Lands
    <3>2. \A t \in Tabs : Good(tab[t]) /\ Good(Overlooked(tab[t])) /\ Overlooked(tab[t]).missed
      BY OverlookedKeeps DEF IInv, TabsOK, Good
    <3>3. ASSUME NEW t \in Tabs, tab[t].admission # None \/ Working(tab[t])
          PROVE  t \in Open
      BY <3>2, <3>3 DEF Good, Leased, Open, Working
    <3>4. strays' \subseteq Strays /\ \A x \in strays' : x.missed
      BY <3>1 DEF Passed, Strays, IInv, ServerOK
    <3>5. session' \in Subjects \cup {None}
      BY <3>1, ExecuteKeeps DEF IInv, ServerOK, Strays
    <3>6. TabsOK'
      BY <3>1, <3>2 DEF TabsOK, Good
    <3>7. ServerOK'
      BY <3>1, <3>4, <3>5 DEF IInv, ServerOK
    <3>8. \A t \in Tabs : tab'[t] \in {tab[t], Overlooked(tab[t])}
      BY <3>1
    <3>9. \A t \in Tabs : tab[t].admission # None \/ Working(tab[t]) => tab'[t].missed
      BY <3>1, <3>2, <3>3
    <3> QED
      BY <1>0, <3>4, <3>6, <3>7, <3>8, <3>9 DEF IInv
  <2> QED
    BY <2>2, <2>3
<1> QED
  BY <1>1, <1>2 DEF Server

--------------------------------------------------------------------------------
LEMMA Initially == Init => IInv
<1> SUFFICES ASSUME Init PROVE IInv
  OBVIOUS
<1> DEFINE r == [state |-> "loading", admission |-> None, who |-> None, bound |-> None,
                 load |-> "entry", check |-> "none", read |-> NoRead, shown |-> None, op |-> NoOp,
                 missed |-> FALSE]
<1>1. r \in TabState
  BY DEF TabState, NoRead
<1>2. Leased(r)
  BY DEF Leased, NoRead, LoggingOut, NoOp
<1>3. tab = [t \in Tabs |-> r]
  BY DEF Init
<1> HIDE DEF r
<1>4. TabsOK
  BY <1>1, <1>2, <1>3 DEF TabsOK
<1>5. ServerOK
  BY TabsAssumption DEF Init, ServerOK
<1>6. InboxOK
  BY DEF Init, InboxOK
<1> QED
  BY <1>4, <1>5, <1>6 DEF IInv

\* Every step keeps the leases, and is the server's or a tab's.
LEMMA EveryStep ==
  ASSUME IInv, [Next]_vars
  PROVE  /\ IInv' /\ UNCHANGED around
         /\ \/ UNCHANGED vars
            \/ Server
            \/ \E t \in Tabs : Shape(t)
<1>1. CASE UNCHANGED vars
  BY <1>1 DEF vars, IInv, ServerOK, TabsOK, InboxOK
<1>2. CASE Server /\ UNCHANGED around
  BY <1>2, ServerKeeps
<1>3. ASSUME NEW t \in Tabs, User(t), UNCHANGED around
      PROVE  IInv' /\ Shape(t)
  BY <1>3, CheckKeeps, ReadKeeps, RemountKeeps, UnloadKeeps, LandKeeps, SubmitKeeps
     DEF User, Renewing, Kinds
<1>4. ASSUME NEW t \in Tabs, Reacts(t), UNCHANGED around
      PROVE  IInv' /\ Shape(t)
  BY <1>4, LoadKeeps, CheckKeeps, ReadKeeps, OperateKeeps, RemountKeeps DEF Reacts
<1> QED
  BY <1>1, <1>2, <1>3, <1>4 DEF Next

\* Whatever answers and messages come, the parts of every tab stay within its lease
\* (browser-admission.ts: useConsoleAdmission).
THEOREM Inductive == Spec => []IInv
<1>1. IInv /\ [Next]_vars => IInv'
  BY EveryStep
<1> QED
  BY Initially, <1>1, PTL DEF Spec

\* Whoever logs in or out in whatever tab, and whenever answers and messages come: no
\* page shows what was read under another scope than its tab admitted.
THEOREM PagesShowTheirOwn == Spec => []PageShowsItsOwn
<1>1. IInv => PageShowsItsOwn
  BY DEF IInv, TabsOK, Leased, PageShowsItsOwn
<1> QED
  BY Inductive, <1>1, PTL

--------------------------------------------------------------------------------
(* What the lock and the messages promise.                                       *)

\* A tab writes under the exclusive lock.
WritersHold == \A t \in Tabs : Working(tab[t]) => <<t, "op">> \in held

\* While it does, every tab that the channel reaches and that is still admitted has been told.
Warned ==
  \A t, u \in Tabs :
    t # u /\ Working(tab[u]) /\ tab[t].admission # None /\ {t, u} \cap around.deaf = {}
      => inbox[t] # <<>>

\* A renewal at work, or given up at work, is due, unless another write has passed it by or the
\* session is over.
DueAtWork ==
  around.status =>
    /\ \A t \in Tabs : Working(tab[t]) /\ tab[t].op.kind = "renew" /\ ~tab[t].missed
                       => due \/ session = None
    /\ \A s \in strays : s.op.kind = "renew" /\ ~s.missed => due \/ session = None

Told == Alone /\ WritersHold /\ Warned /\ DueAtWork /\ StaleIsTold

LEMMA InitiallyTold == Init => Told
<1> SUFFICES ASSUME Init PROVE Told
  OBVIOUS
<1>1. strays = {} /\ \A t \in Tabs : tab[t].op = NoOp /\ tab[t].admission = None
  BY DEF Init
<1>2. Alone
  BY DEF Init, Alone, Exclusive
<1> QED
  BY <1>1, <1>2 DEF Told, WritersHold, Warned, DueAtWork, StaleIsTold, Stale, Working

\* What the server does by itself passes the admitted tabs by, or leaves none of them stale.
LEMMA ServerTells ==
  ASSUME IInv, Told, Server, UNCHANGED around
  PROVE  Told'
<1>1. /\ UNCHANGED <<held, inbox, changed, around>>
      /\ \/ UNCHANGED <<strays, tab>> /\ (session' = None \/ (UNCHANGED session /\ (due => due')))
         \/ UNCHANGED <<session, due, tab>> /\ strays' \subseteq strays
         \/ /\ \A s \in strays' : s.missed
            /\ \A t \in Tabs : tab'[t] \in {tab[t], Overlooked(tab[t])}
            /\ \A t \in Tabs : tab[t].admission # None \/ Working(tab[t]) => tab'[t].missed
  BY ServerKeeps
<1>2. \A t \in Tabs : tab'[t].op = tab[t].op /\ tab'[t].admission = tab[t].admission
  BY <1>1, OverlookedKeeps DEF IInv, TabsOK, Good
<1>3. Alone' /\ WritersHold' /\ Warned'
  BY <1>1, <1>2 DEF Told, Alone, WritersHold, Warned, Working
<1>4. DueAtWork'
  BY <1>1, <1>2 DEF Told, DueAtWork, Working
<1>5. StaleIsTold'
  BY <1>1, <1>2 DEF Told, StaleIsTold, Stale
<1> QED
  BY <1>3, <1>4, <1>5 DEF Told

LEMMA TabTells ==
  ASSUME IInv, IInv', Told, NEW a \in Tabs, Shape(a), UNCHANGED around
  PROVE  Told'
<1>1. /\ \A t \in Tabs \ {a} : /\ tab'[t].op = tab[t].op /\ tab'[t].admission = tab[t].admission
                               /\ tab[t].missed => tab'[t].missed
      /\ \A t \in Tabs \ {a} : inbox[t] # <<>> => inbox'[t] # <<>>
      /\ \A t \in Tabs \ {a} : t \in changed => t \in changed'
      /\ UNCHANGED around
  BY OverlookedKeeps DEF Shape, Step, Others, Talks, Stores, IInv, TabsOK, Good
<1>2. Alone'
  BY DEF Told, Shape, Step
<1>3. WritersHold'
  BY <1>1 DEF Told, WritersHold, Shape, Step, Working, Began
\* The lock keeps everybody else from writing.
<1>4. ASSUME NEW t \in Tabs \ {a}, Working(tab[t])
      PROVE  ~Working(tab[a]) /\ <<a, "load">> \notin held
  BY <1>4 DEF Told, Alone, WritersHold, Exclusive
<1>5. Warned'
  <2> SUFFICES ASSUME NEW t \in Tabs, NEW u \in Tabs, t # u, {t, u} \cap around.deaf = {},
                      Working(tab'[u]), tab'[t].admission # None
               PROVE  inbox'[t] # <<>>
    BY <1>1 DEF Warned
  <2>1. CASE a \notin {t, u}
    BY <1>1, <2>1 DEF Told, Warned, Working
  <2>2. CASE a = u
    <3>1. tab[t].admission # None
      BY <1>1, <2>2
    <3>2. CASE Working(tab[a])
      BY <1>1, <2>2, <3>1, <3>2 DEF Told, Warned
    <3>3. CASE Began(a)
      BY <2>2, <3>1, <3>3 DEF Began
    <3> QED
      BY <2>2, <3>2, <3>3 DEF Shape
  <2>3. CASE a = t
    <3>1. Working(tab[u]) /\ <<a, "load">> \notin held
      BY <1>1, <1>4, <2>3 DEF Working
    <3>2. tab'[a].admission = tab[a].admission /\ inbox'[a] = inbox[a]
      BY <2>3, <3>1 DEF Shape
    <3> QED
      BY <2>3, <3>1, <3>2 DEF Told, Warned
  <2> QED
    BY <2>1, <2>2, <2>3
<1>6. DueAtWork'
  <2> SUFFICES ASSUME around.status
               PROVE  /\ \A t \in Tabs : Working(tab'[t]) /\ tab'[t].op.kind = "renew"
                                         /\ ~tab'[t].missed => due' \/ session' = None
                      /\ \A s \in strays' : s.op.kind = "renew" /\ ~s.missed
                                            => due' \/ session' = None
    BY DEF DueAtWork
  <2>1. ASSUME NEW t \in Tabs, Working(tab'[t]), tab'[t].op.kind = "renew", ~tab'[t].missed
        PROVE  due' \/ session' = None
    <3>1. UNCHANGED <<session, due>>
      <4>1. CASE Slipped(a) /\ t # a
        BY <1>1, <2>1, <4>1 DEF Slipped, Working
      <4>2. CASE t = a
        <5>1. ~Wrote(a) /\ ~Slipped(a)
          BY <2>1, <4>2 DEF Wrote, Slipped
        <5> QED
          BY <2>1, <4>2, <5>1 DEF Shape, Writeless
      <4>3. CASE t # a /\ ~Slipped(a)
        <5>1. ~Wrote(a)
          BY <1>1, <1>4, <2>1, <4>3 DEF Wrote, Working
        <5> QED
          BY <4>3, <5>1 DEF Shape, Writeless
      <4> QED
        BY <4>1, <4>2, <4>3 DEF Shape
    <3>2. CASE t # a
      BY <1>1, <2>1, <3>1, <3>2 DEF Told, DueAtWork, Working
    <3>3. CASE t = a /\ Working(tab[a]) /\ tab'[a].op = tab[a].op
      <4>1. tab'[a].missed = tab[a].missed \/ Began(a)
        BY <2>1, <3>3 DEF Shape
      <4> QED
        BY <2>1, <3>1, <3>3, <4>1 DEF Told, DueAtWork, Began
    <3>4. CASE t = a /\ Began(a)
      BY <2>1, <3>1, <3>4 DEF Began
    <3> QED
      BY <2>1, <3>2, <3>3, <3>4 DEF Shape
  <2>2. ASSUME NEW s \in strays', s.op.kind = "renew", ~s.missed
        PROVE  due' \/ session' = None
    <3>1. Writeless(a)
      BY <2>2 DEF Shape, Wrote, Slipped
    <3>2. CASE s \in strays
      BY <2>2, <3>1, <3>2 DEF Writeless, Told, DueAtWork
    <3>3. CASE s \notin strays
      <4>1. /\ Working(tab[a]) /\ s = [op |-> tab[a].op, missed |-> tab[a].missed]
            /\ UNCHANGED <<session, due>>
        BY <3>1, <3>3 DEF Writeless
      <4>2. s.op = tab[a].op /\ s.missed = tab[a].missed
        BY <4>1
      <4> QED
        BY <2>2, <4>1, <4>2 DEF Told, DueAtWork
    <3> QED
      BY <3>2, <3>3
  <2> QED
    BY <2>1, <2>2
<1>7. StaleIsTold'
  <2> SUFFICES ASSUME NEW t \in Tabs, Stale(t)'
               PROVE  inbox'[t] # <<>> \/ t \in changed' \/ tab'[t].missed
    BY DEF StaleIsTold
  <2>1. tab'[t].admission # None /\ session' # None /\ tab'[t].admission.scope.subject # session'
    BY DEF Stale
  <2>2. CASE t # a
    <3>1. tab[t].admission # None /\ tab'[t].admission = tab[t].admission
      BY <1>1, <2>1, <2>2
    <3>2. CASE UNCHANGED session
      BY <1>1, <2>1, <2>2, <3>1, <3>2 DEF Told, StaleIsTold, Stale
    <3>3. CASE Wrote(a) /\ session' # session
      <4>1. {a, t} \cap around.deaf = {} \/ t \in changed' \/ tab'[t].missed
        BY <2>2, <3>1, <3>3 DEF Wrote
      <4>2. {a, t} \cap around.deaf = {} => inbox[t] # <<>>
        BY <2>2, <3>1, <3>3 DEF Wrote, Told, Warned
      <4> QED
        BY <1>1, <2>2, <4>1, <4>2
    <3>4. CASE Slipped(a)
      BY <2>2, <3>1, <3>4 DEF Slipped
    <3> QED
      BY <3>2, <3>3, <3>4 DEF Shape, Writeless
  <2>3. CASE t = a
    <3>1. /\ tab'[a].admission = tab[a].admission /\ inbox'[a] = inbox[a]
          /\ UNCHANGED changed /\ tab'[a].missed = tab[a].missed
      BY <2>1, <2>3 DEF Shape
    <3>2. ~Working(tab[a])
      BY <2>1, <2>3, <3>1 DEF IInv, TabsOK, Leased, Working
    <3>3. UNCHANGED session
      BY <2>1, <2>3, <3>2 DEF Shape, Wrote, Writeless, Slipped
    <3> QED
      BY <2>1, <2>3, <3>1, <3>3 DEF Told, StaleIsTold, Stale
  <2> QED
    BY <2>2, <2>3
<1> QED
  BY <1>2, <1>3, <1>5, <1>6, <1>7 DEF Told

\* The lock and the messages keep their promises, on top of the leases.
THEOREM InductivelyTold == Spec => []Told
<1>1. IInv /\ Told /\ [Next]_vars => Told'
  <2> SUFFICES ASSUME IInv, Told, [Next]_vars PROVE Told'
    OBVIOUS
  <2>1. IInv' /\ UNCHANGED around
    BY EveryStep
  <2>2. CASE UNCHANGED vars
    BY <2>2 DEF vars, Told, Alone, WritersHold, Warned, DueAtWork, StaleIsTold, Stale
  <2>3. CASE Server
    BY <2>1, <2>3, ServerTells
  <2>4. ASSUME NEW t \in Tabs, Shape(t)
        PROVE  Told'
    BY <2>1, <2>4, TabTells
  <2> QED
    BY <2>2, <2>3, <2>4, EveryStep
<1> QED
  BY InitiallyTold, Inductive, <1>1, PTL DEF Spec

\* A tab that is admitted as one subject while the cookie is another's has been told, by a message
\* or by the storage, or is marked as passed by: every writer under the lock tells everybody before
\* it writes or when it is done, and nobody is admitted before it lets go of the lock.
THEOREM TheStaleAreTold == Spec => []StaleIsTold
<1>1. Told => StaleIsTold
  BY DEF Told
<1> QED
  BY InductivelyTold, <1>1, PTL

\* Where the deadlines are published, every renewal that is executed was due, whether its tab
\* still waits for it or has given it up, unless another write came in between: what was read
\* again under the exclusive lock is still so, however many tabs queue to renew.
THEOREM RenewalsAreDue == Spec => RenewsWhenDue
<1> DEFINE Due ==
      around.status =>
        /\ \A t \in Tabs : tab[t].op.kind = "renew" /\ Succeed(t) => due \/ tab[t].missed
        /\ \A s \in strays : s.op.kind = "renew" /\ Accepts(s.op) /\ Lands(s) => due \/ s.missed
<1>1. Told /\ [Next]_vars => [Due]_vars
  <2> SUFFICES ASSUME Told, around.status
               PROVE  /\ \A t \in Tabs : tab[t].op.kind = "renew" /\ Succeed(t)
                                         => due \/ tab[t].missed
                      /\ \A s \in strays : s.op.kind = "renew" /\ Accepts(s.op) /\ Lands(s)
                                            => due \/ s.missed
    OBVIOUS
  <2>1. ASSUME NEW t \in Tabs, tab[t].op.kind = "renew", Succeed(t)
        PROVE  due \/ tab[t].missed
    <3>1. Working(tab[t])
      BY <2>1 DEF Succeed, Holding, Working
    <3>2. session # None
      BY <2>1 DEF Succeed, Accepts
    <3> QED
      BY <2>1, <3>1, <3>2 DEF Told, DueAtWork
  <2>2. ASSUME NEW s \in strays, s.op.kind = "renew", Accepts(s.op)
        PROVE  due \/ s.missed
    BY <2>2 DEF Accepts, Told, DueAtWork
  <2> QED
    BY <2>1, <2>2
<1> QED
  BY InductivelyTold, <1>1, PTL DEF Spec, RenewsWhenDue

\* No transition of another tab, no message and no answer drops a logout that still waits
\* for the lock: only its user does, or the closing of its tab.
THEOREM LogoutsSurvive == Spec => LogoutSurvives
<1> DEFINE Kept == \A t \in Tabs : tab[t].op.kind = "logout" /\ ~tab[t].op.working
                                   /\ tab'[t].op = NoOp => Retry(t) \/ Close(t)
<1>1. IInv /\ [Next]_vars => [Kept]_vars
  <2> SUFFICES ASSUME IInv, [Next]_vars, NEW t \in Tabs, tab[t].op.kind = "logout",
                      ~tab[t].op.working, tab'[t].op = NoOp
               PROVE  Retry(t) \/ Close(t)
    OBVIOUS
  <2>0. \A u \in Tabs : Overlooked(tab[u]).op = tab[u].op
    BY OverlookedKeeps DEF IInv, TabsOK, Good
  <2>1. tab'[t].op # tab[t].op
    BY NoOpIsNothing
  <2>2. ~(Server /\ UNCHANGED around) /\ ~UNCHANGED vars
    BY <2>0, <2>1, ServerKeeps DEF vars
  <2>3. PICK a \in Tabs : Shape(a)
    BY <2>2, EveryStep
  <2>4. a = t
    BY <2>0, <2>1, <2>3 DEF Shape, Step, Others
  <2> QED
    BY <2>3, <2>4 DEF Shape, LoggingOut
<1> QED
  BY Inductive, <1>1, PTL DEF Spec, LogoutSurvives
================================================================================
