---------------------------- MODULE BrowserIdentity ----------------------------
(* The tabs of one origin share a session cookie. Every tab admits the session   *)
(* it finds, reads under a shared lock, and writes the cookie (login, logout,    *)
(* renewal) under the exclusive lock, telling the others with messages that may  *)
(* be missed; or it signs in by a redirect, with neither lock nor message:       *)
(* console-authoring/src/{browser-admission,identity-transition,session-fetch,   *)
(* session-renewal}.ts.                                                          *)
EXTENDS Naturals, Sequences, SequencesExt, FiniteSets

CONSTANTS
  Tabs,          \* the tabs open on the origin
  Subjects,      \* who may log in
  None,          \* no session, no admission, no operation
  MaxRevision,   \* how often the permissions of the subjects may change
  Environments   \* see Environment: what surrounds the tabs, and the bounds there

Environment ==
  [deaf      : SUBSET Tabs,       \* tabs without a BroadcastChannel
   legacy    : BOOLEAN,           \* the server has no /admission
   status    : BOOLEAN,           \* the server publishes a session's deadlines
   watched   : SUBSET Tabs,       \* tabs the user looks at: they have the focus and a page that reads
   ops       : Nat,               \* bound: how many sign-ins and writes the tabs begin together
   revisions : 0..MaxRevision]    \* bound: how often the permissions change

ASSUME TabsAssumption == IsFiniteSet(Tabs) /\ MaxRevision \in Nat
ASSUME EnvironmentsAssumption == Environments \subseteq Environment
ASSUME NoneAssumption == None \notin Subjects

VARIABLES
  session,   \* whose session the cookie stands for
  due,       \* the server would renew that session now
  revision,  \* the permission revision
  access,    \* the subject may use the Console
  strays,    \* writes whose tab gave up, which the server may still execute
  ops,       \* operations begun
  held,      \* the Web Lock: the jobs that hold it
  queue,     \* the jobs that wait for it
  tab,       \* what each tab's useConsoleAdmission holds
  inbox,     \* broadcast phases on their way to a tab
  changed,   \* tabs with a storage event on its way
  around     \* the environment

vars == <<session, due, revision, access, strays, ops, held, queue, tab, inbox, changed, around>>
server == <<session, due, revision, access, strays, ops>>

Scope == [subject : Subjects, revision : 0..MaxRevision]
Here == [subject |-> session, revision |-> revision]

Kinds == {"login", "logout", "renew"}
NoOp == [kind |-> "none"]
Operation == [kind : Kinds, as : Subjects \cup {None}, expected : Subjects \cup {None},
              working : BOOLEAN, nth : Nat]
\* missed is history: a write that nobody announced passed by since the operation was at work.
Strays == [op : Operation, missed : BOOLEAN]
NoRead == [asked |-> FALSE, live |-> FALSE, bound |-> None]

TabState ==
  [state     : {"loading", "authenticated", "unavailable", "expired", "forbidden", "away", "closed"},
   admission : [scope : Scope, pages : Scope] \cup {None},
   who       : Subjects \cup {None},              \* session?.subject
   bound     : Scope \cup {None},                 \* ordinaryScope
   load      : {"none", "entry", "session", "pages"},
   check     : {"none", "quiet", "loud"},         \* a revalidation, and whether focus awaits it
   read      : [asked : BOOLEAN, live : BOOLEAN, bound : Scope \cup {None}],
   shown     : Scope \cup {None},                 \* the scope of what the page was given
   op        : Operation \cup {NoOp},
   missed    : BOOLEAN]    \* history: a write that nobody announced passed by since the last retire

TypeOK ==
  /\ session \in Subjects \cup {None} /\ due \in BOOLEAN
  /\ revision \in 0..MaxRevision /\ access \in BOOLEAN
  /\ strays \subseteq Strays /\ ops \in 0..around.ops
  /\ held \subseteq Tabs \X {"load", "check", "read", "op"}
  /\ Range(queue) \subseteq Tabs \X {"load", "check", "read", "op"}
  /\ tab \in [Tabs -> TabState]
  /\ inbox \in [Tabs -> Seq({"begin", "complete"})]
  /\ changed \subseteq Tabs /\ around \in Environments

--------------------------------------------------------------------------------
\* The lock (external: the Web Locks of the browser): first come first served,
\* an operation alone, everything else together.
Exclusive(job) == job[2] = "op"

Sharing(q) == {i \in DOMAIN q : ~Exclusive(q[i]) /\ \A j \in 1..(i - 1) : ~Exclusive(q[j])}

Granted(h, q) ==
  IF \E job \in h : Exclusive(job) THEN <<h, q>>
  ELSE IF h = {} /\ q # <<>> /\ Exclusive(Head(q)) THEN <<{Head(q)}, Tail(q)>>
  ELSE <<h \cup {q[i] : i \in Sharing(q)}, SubSeq(q, Cardinality(Sharing(q)) + 1, Len(q))>>

\* t lets go of some jobs and asks for others.
Lock(t, dropped, asked) ==
  LET gone == {t} \X dropped
      next == Granted(held \ gone,
                      SelectSeq(queue, LAMBDA job : job \notin gone)
                        \o [i \in DOMAIN asked |-> <<t, asked[i]>>])
  IN held' = next[1] /\ queue' = next[2]

Open == {t \in Tabs : tab[t].state \notin {"away", "closed"}}

\* notify: a tab without a channel neither hears nor says.
Notify(t, phases, boxes) ==
  inbox' = [u \in Tabs |-> IF u \in Open \ {t} /\ {t, u} \cap around.deaf = {}
                           THEN boxes[u] \o phases ELSE boxes[u]]

\* broadcastConsoleSessionChange: a storage event in the other tabs.
Tell(t) == changed' = changed \cup (Open \ {t})

--------------------------------------------------------------------------------
\* What a tab does to itself.
\* MUTANT: pendingLogout is not consulted.
LoggingOutForgotten(r) == FALSE

LoggingOut(r) == r.op.kind = "logout"

\* A write that nobody announces passes a tab by.
Overlooked(r) == [r EXCEPT !.missed = TRUE]

Unmounted(r) == [r EXCEPT !.shown = None, !.read.live = FALSE]

\* MUTANT: retire does not reset the admission.
RetiredShowing(r, reason, keep) ==
  [Unmounted(r) EXCEPT !.state = IF keep THEN "loading" ELSE reason,
                       !.missed = FALSE, !.bound = None, !.load = "none", !.check = "none",
                       !.who = IF reason = "expired" THEN None ELSE @,
                       !.op = IF keep THEN @ ELSE NoOp]

\* retire
Retired(r, reason, keep) ==
  [Unmounted(r) EXCEPT !.state = IF keep THEN "loading" ELSE reason,
                       !.missed = FALSE, !.admission = None, !.bound = None, !.load = "none", !.check = "none",
                       !.who = IF reason = "expired" THEN None ELSE @,
                       !.op = IF keep THEN @ ELSE NoOp]

\* setAttempt: the cleanup of the effect, and the effect again.
Mounted(r) == [Retired(r, "expired", FALSE) EXCEPT !.state = "loading", !.load = "entry"]

\* A read that is given up leaves the queue; on its way it keeps the lock until its transport
\* resolves.
Lingers(t, answered) == <<t, "read">> \in held /\ "read" \notin answered
Given(t, r, answered) == IF r.read.live \/ Lingers(t, answered) THEN r ELSE [r EXCEPT !.read = NoRead]
Released(t, r, answered) ==
  answered \cup (IF r.load = "none" THEN {"load"} ELSE {}) \cup (IF r.check = "none" THEN {"check"} ELSE {})
           \cup (IF r.op = NoOp THEN {"op"} ELSE {})
           \cup (IF r.read.live \/ Lingers(t, answered) THEN {} ELSE {"read"})

\* An operation that is aborted at work: its request may still be executed, and its finally
\* block says complete.
Aborts(t, r) == tab[t].op # NoOp /\ r.op = NoOp /\ tab[t].op.working
Stray(t, r) ==
  strays' = strays \cup (IF Aborts(t, r) THEN {[op |-> tab[t].op, missed |-> tab[t].missed]} ELSE {})
LastWords(t, r) == IF Aborts(t, r) THEN <<"complete">> ELSE <<>>

\* t becomes r: requests that it does not wait for any more let go of the lock, the answered
\* ones do, and the asked ones queue.
Become(t, r, answered, asked) ==
  /\ tab' = [tab EXCEPT ![t] = Given(t, r, answered)]
  /\ Lock(t, Released(t, r, answered), asked)

\* Within its lease.
Stay(t, r, answered, asked) ==
  Become(t, r, answered, asked) /\ UNCHANGED <<server, inbox, changed>>

\* When its lease is over; boxes are the inboxes but for the last words.
Leave(t, r, answered, boxes) ==
  /\ Become(t, r, answered \cup (IF r.load = "entry" THEN {"load"} ELSE {}),
            IF r.load = "entry" THEN <<"load">> ELSE <<>>)
  /\ Stray(t, r)
  /\ Notify(t, LastWords(t, r), boxes)
  /\ UNCHANGED <<session, due, revision, access, ops>>

--------------------------------------------------------------------------------
Init ==
  /\ session \in Subjects /\ due = TRUE
  /\ revision = 0 /\ access = TRUE
  /\ strays = {} /\ ops = 0
  /\ tab = [t \in Tabs |->
                           [state |-> "loading", admission |-> None, who |-> None, bound |-> None,
                            load |-> "entry", check |-> "none", read |-> NoRead, shown |-> None,
                            op |-> NoOp, missed |-> FALSE]]
  /\ held = Tabs \X {"load"} /\ queue = <<>>
  /\ inbox = [t \in Tabs |-> <<>>] /\ changed = {}
  /\ around \in Environments

\* A scoped request of t answered 401 or 412, or under another scope than it was sent under:
\* retireSessionReads, broadcastConsoleSessionChange and, by its local event, retire.
Disown(t) ==
  LET r == Retired(tab[t], "expired", LoggingOut(tab[t])) IN
  Leave(t, r, {"read"}, inbox) /\ Tell(t)

\* load -------------------------------------------------------------------------
Loading(t) == tab[t].load # "none" /\ <<t, "load">> \in held
Spoken(t) == tab[t].load = "entry" => ~around.legacy

LoadFails(t) ==
  /\ Loading(t)
  /\ Stay(t, [tab[t] EXCEPT !.state = "unavailable", !.load = "none"], {"load"}, <<>>)

LoadUnauthenticated(t) ==
  /\ Loading(t) /\ session = None /\ Spoken(t)
  /\ IF tab[t].load = "pages" THEN Disown(t)
     ELSE Stay(t, [tab[t] EXCEPT !.state = "expired", !.load = "none"], {"load"}, <<>>)

LoadForbidden(t) ==
  /\ Loading(t) /\ session # None /\ ~access /\ Spoken(t)
  /\ LET r == [tab[t] EXCEPT !.state = "forbidden", !.load = "none"] IN
     IF r.load = "pages" /\ r.check = "none"
     THEN Stay(t, [r EXCEPT !.check = "quiet"], {"load"}, <<"check">>)
     ELSE Stay(t, IF tab[t].load = "pages" THEN r ELSE [r EXCEPT !.who = session], {"load"}, <<>>)

\* The protocol without /admission: session and pages are two requests.
LoadAbsent(t) ==
  /\ Loading(t) /\ tab[t].load = "entry" /\ around.legacy
  /\ Stay(t, [tab[t] EXCEPT !.load = "session"], {"load"}, <<"load">>)

LoadSession(t) ==
  /\ Loading(t) /\ tab[t].load = "session" /\ session # None /\ access
  /\ Stay(t, [tab[t] EXCEPT !.load = "pages", !.who = session, !.bound = Here], {"load"}, <<"load">>)

Admitted(r, scope) ==
  [r EXCEPT !.state = "authenticated", !.load = "none", !.who = scope.subject, !.bound = scope,
            !.admission = [scope |-> scope, pages |-> Here]]

LoadEntry(t) ==
  /\ Loading(t) /\ tab[t].load = "entry" /\ ~around.legacy /\ session # None /\ access
  /\ Stay(t, Admitted(tab[t], Here), {"load"}, <<>>)

\* MUTANT: the scope header of an answer is not compared.
AnsweredAnyhow(bound) == TRUE

Answered(bound) == bound = Here

LoadPages(t) ==
  /\ Loading(t) /\ tab[t].load = "pages" /\ session # None /\ access
  /\ IF Answered(tab[t].bound) THEN Stay(t, Admitted(tab[t], tab[t].bound), {"load"}, <<>>)
     ELSE Disown(t)

Load(t) == \/ LoadFails(t) \/ LoadUnauthenticated(t) \/ LoadForbidden(t) \/ LoadAbsent(t)
           \/ LoadSession(t) \/ LoadEntry(t) \/ LoadPages(t)

\* validateSession ---------------------------------------------------------------
Focus(t) ==
  LET r == tab[t] IN
  /\ t \in around.watched /\ r.bound # None /\ r.check # "loud"
  /\ Stay(t, [r EXCEPT !.check = "loud"], {}, IF r.check = "none" THEN <<"check">> ELSE <<>>)

\* An error: a focus shows it, a denied read ignores it.
Unchecked(r) == IF r.check = "loud" THEN [Unmounted(r) EXCEPT !.state = "unavailable", !.check = "none"]
                ELSE [r EXCEPT !.check = "none"]

Check(t) ==
  LET r == tab[t]
      retire(reason) == LET q == Retired(r, reason, LoggingOut(r)) IN
        Leave(t, q, {}, inbox) /\ UNCHANGED changed
  IN
  /\ <<t, "check">> \in held
  /\ \/ Stay(t, Unchecked(r), {"check"}, <<>>)
     \/ /\ session = None
        /\ IF r.admission # None THEN retire("expired") ELSE Stay(t, Unchecked(r), {"check"}, <<>>)
     \/ session # None /\ ~access /\ retire("forbidden")
     \/ session # None /\ access /\ r.bound # Here /\ retire("expired")
     \/ /\ session # None /\ access /\ r.bound = Here
        /\ Stay(t, [r EXCEPT !.state = "authenticated", !.check = "none"], {"check"}, <<>>)

\* sessionFetch by a page ----------------------------------------------------------
Read(t) ==
  LET r == tab[t] IN
  /\ t \in around.watched /\ r.state = "authenticated" /\ r.admission # None /\ ~r.read.asked
  /\ Stay(t, [r EXCEPT !.read = [asked |-> TRUE, live |-> TRUE, bound |-> r.bound]], {}, <<"read">>)

Reading(t) == <<t, "read">> \in held

\* The transport resolves after the read was given up: nothing is done with it.
ReadLate(t) ==
  /\ Reading(t) /\ ~tab[t].read.live
  /\ Stay(t, [tab[t] EXCEPT !.read = NoRead], {"read"}, <<>>)

ReadFails(t) ==
  /\ Reading(t) /\ tab[t].read.live
  /\ Stay(t, [tab[t] EXCEPT !.read = NoRead], {"read"}, <<>>)

\* 403: revalidate, without waiting for it.
ReadForbidden(t) ==
  LET r == [tab[t] EXCEPT !.read = NoRead] IN
  /\ Reading(t) /\ tab[t].read.live /\ session # None
  /\ IF r.check = "none" THEN Stay(t, [r EXCEPT !.check = "quiet"], {"read"}, <<"check">>)
     ELSE Stay(t, r, {"read"}, <<>>)

ReadReturns(t) ==
  LET r == tab[t] IN
  /\ Reading(t) /\ r.read.live
  /\ IF session # None /\ access /\ Answered(r.read.bound)
     THEN Stay(t, [r EXCEPT !.read = NoRead, !.shown = Here], {"read"}, <<>>)
     ELSE (session = None \/ access) /\ Disown(t)

ReadAnswers(t) == ReadLate(t) \/ ReadFails(t) \/ ReadForbidden(t) \/ ReadReturns(t)

\* act -----------------------------------------------------------------------------
\* The buttons: a login when there is no session to show, the others when there is.
Submit(t, kind, as) ==
  LET r == tab[t]
      op == [kind |-> kind, as |-> as, expected |-> r.who, working |-> FALSE, nth |-> ops]
      s == [r EXCEPT !.op = op]
  IN
  /\ r.op = NoOp /\ ops < around.ops /\ ops' = ops + 1
  /\ \/ kind = "login" /\ as # None /\ r.state = "expired"
     \/ kind = "renew" /\ as = None /\ r.state = "authenticated"
     \/ kind = "logout" /\ as = None /\ r.state \in {"authenticated", "unavailable", "forbidden"}
  /\ Become(t, IF kind = "logout" THEN Retired(s, "expired", TRUE) ELSE s, {}, <<"op">>)
  /\ UNCHANGED <<session, due, revision, access, strays, inbox, changed>>

Holding(t) == tab[t].op # NoOp /\ <<t, "op">> \in held
Over(r) == [r EXCEPT !.op = NoOp]

\* The server's subject check; a login says whom it makes the session of.
Accepts(op) == op.kind = "login" \/ (session # None /\ op.expected \in {None, session})
Execute(op) ==
  /\ session' = (CASE op.kind = "login" -> op.as [] op.kind = "logout" -> None [] OTHER -> session)
  /\ due' = FALSE

\* A write that is executed passes the writes by that nobody waits for.
Passed(ss) == {[s EXCEPT !.missed = TRUE] : s \in ss}

\* The tabs when t becomes r, answered, and a write passes some of the others by.
Beside(t, r, missing) ==
  [u \in Tabs |-> IF u = t THEN Given(t, r, {})
                  ELSE IF u \in Open \cap missing THEN Overlooked(tab[u])
                  ELSE tab[u]]

\* The lock is granted: the others are told, and the tab retires its own admission.
Dispatch(t) ==
  /\ tab' = [tab EXCEPT ![t] = [Given(t, Retired(tab[t], "expired", TRUE), {}) EXCEPT !.op.working = TRUE]]
  /\ Lock(t, Released(t, Retired(tab[t], "expired", TRUE), {}), <<>>)
  /\ Notify(t, <<"begin">>, inbox)
  /\ UNCHANGED <<server, changed>>

\* withIdentityTransition: so is a renewal when the server publishes no deadlines.
Begin(t) ==
  Holding(t) /\ ~tab[t].op.working /\ (tab[t].op.kind = "renew" => ~around.status) /\ Dispatch(t)

\* sessionRenewalDue, of the deadlines as they are now.
\* MUTANT: the deadlines that were read before the tab queued are trusted.
RenewalDueBefore == TRUE

RenewalDue == due

\* The deadlines are read by a plain fetch, which needs no lock.
\* MUTANT: they are read by sessionFetch, which asks for the shared lock.
ReadsDeadlinesShared(t) == Holding(t) /\ <<t, "check">> \in held

ReadsDeadlines(t) == Holding(t)

\* needed(): the deadlines, read again under the exclusive lock.
CheckDue(t) ==
  LET r == tab[t] IN
  /\ ReadsDeadlines(t) /\ ~r.op.working /\ r.op.kind = "renew" /\ around.status
  /\ \/ Accepts(r.op) /\ RenewalDue /\ Dispatch(t)
     \/ Accepts(r.op) /\ ~RenewalDue /\ Stay(t, Over(r), {}, <<>>)
     \/ ~Accepts(r.op) /\ Stay(t, [Unmounted(Over(r)) EXCEPT !.state = "expired"], {}, <<>>)
     \/ Leave(t, Mounted(r), {}, inbox) /\ UNCHANGED changed

\* The action was accepted. The local events retire the tab once more.
Succeed(t) ==
  LET op == tab[t].op IN
  /\ Holding(t) /\ op.working /\ Accepts(op) /\ Execute(op) /\ strays' = Passed(strays)
  /\ Become(t, Mounted(tab[t]), {}, <<"load">>)
  /\ Notify(t, <<"complete">>, inbox)
  /\ IF op.kind = "renew" THEN UNCHANGED changed ELSE Tell(t)
  /\ UNCHANGED <<revision, access, ops>>

\* The action was refused, or its answer did not come.
Refused(t) ==
  LET op == tab[t].op IN
  /\ Holding(t) /\ op.working /\ (Accepts(op) => op.kind = "login")
  /\ Become(t, [Over(tab[t]) EXCEPT !.state = "expired"], {}, <<>>)
  /\ Notify(t, <<"complete">>, inbox)
  /\ UNCHANGED <<server, changed>>

\* When it was executed nobody tells the tabs that the channel does not reach.
Unreached(t) == {u \in Tabs : {t, u} \cap around.deaf # {}}

Unanswered(t) ==
  LET op == tab[t].op
      r  == IF op.kind = "renew" THEN Mounted(tab[t])
            ELSE [Over(tab[t]) EXCEPT !.state = IF op.kind = "logout" THEN "unavailable" ELSE "expired"]
  IN
  /\ Holding(t) /\ op.working
  /\ \/ /\ Accepts(op) /\ Execute(op) /\ strays' = Passed(strays)
        /\ tab' = Beside(t, r, Unreached(t))
     \/ UNCHANGED <<session, due, strays>> /\ tab' = Beside(t, r, {})
  /\ Lock(t, Released(t, r, {}), IF op.kind = "renew" THEN <<"load">> ELSE <<>>)
  /\ Notify(t, <<"complete">>, inbox)
  /\ UNCHANGED <<revision, access, ops, changed>>

Work(t) == Succeed(t) \/ Refused(t) \/ Unanswered(t)

\* cancel and retry.
Retry(t) ==
  /\ t \in Open /\ tab[t].state # "authenticated"
  /\ tab[t].op # NoOp \/ tab[t].load = "none"
  /\ Leave(t, Mounted(tab[t]), {}, inbox) /\ UNCHANGED changed

\* What other tabs say -----------------------------------------------------------------
Hear(t) ==
  LET r == tab[t]
      boxes == [inbox EXCEPT ![t] = Tail(@)]
      begin == Retired(r, "expired", LoggingOut(r))
  IN
  /\ inbox[t] # <<>> /\ t \in Open /\ UNCHANGED changed
  /\ IF Head(inbox[t]) = "begin" THEN Leave(t, begin, {}, boxes)
     ELSE IF LoggingOut(r) THEN inbox' = boxes /\ UNCHANGED <<server, tab, held, queue>>
     ELSE Leave(t, Mounted(r), {}, boxes)

Changed(r) == IF LoggingOut(r) THEN Retired(r, "expired", TRUE) ELSE Mounted(r)

HearChange(t) ==
  /\ t \in changed \cap Open /\ changed' = changed \ {t}
  /\ Leave(t, Changed(tab[t]), {}, inbox)

\* pagehide and pageshow: the page returns from the browser's cache.
Return(t) ==
  /\ t \in Open /\ UNCHANGED changed
  /\ Leave(t, Changed(tab[t]), {}, inbox)

\* The page is gone: what it waited for lets go, and nobody says complete for it.
Unload(t, state) ==
  LET r == [Retired(tab[t], "expired", FALSE) EXCEPT !.state = state] IN
  /\ t \in Open
  /\ Become(t, r, {"read"}, <<>>) /\ Stray(t, r)
  /\ inbox' = [inbox EXCEPT ![t] = <<>>] /\ changed' = changed \ {t}
  /\ UNCHANGED <<session, due, revision, access>>

Close(t) == Unload(t, "closed") /\ UNCHANGED ops

\* redirect: the tab leaves for the page where its user signs in.
Redirect(t) ==
  /\ tab[t].state = "expired" /\ tab[t].op = NoOp /\ ops < around.ops /\ ops' = ops + 1
  /\ Unload(t, "away")

\* It comes back as a new page, signed in or not. The server sets the cookie in its answer to
\* that navigation: no tab holds the lock for it, and none is told.
Land(t) ==
  /\ tab[t].state = "away"
  /\ \/ /\ session' \in Subjects /\ due' = FALSE /\ strays' = Passed(strays)
        /\ tab' = Beside(t, Mounted(tab[t]), Tabs)
     \/ UNCHANGED <<session, due, strays>> /\ tab' = Beside(t, Mounted(tab[t]), {})
  /\ Lock(t, {}, <<"load">>)
  /\ UNCHANGED <<revision, access, ops, inbox, changed>>

\* The server ---------------------------------------------------------------------------
BecomesDue == session # None /\ ~due /\ due' = TRUE
              /\ UNCHANGED <<session, revision, access, strays, ops, tab>>
Expires == session # None /\ session' = None /\ due' = FALSE
           /\ UNCHANGED <<revision, access, strays, ops, tab>>
PermissionsChange == revision < around.revisions /\ revision' = revision + 1 /\ access' \in BOOLEAN
                     /\ UNCHANGED <<session, due, strays, ops, tab>>
\* A write that nobody waits for arrives after all: nobody is told.
Lands(s) ==
  /\ IF Accepts(s.op)
     THEN /\ Execute(s.op) /\ strays' = Passed(strays \ {s})
          /\ tab' = [t \in Tabs |-> IF t \in Open THEN Overlooked(tab[t]) ELSE tab[t]]
     ELSE strays' = strays \ {s} /\ UNCHANGED <<session, due, tab>>
  /\ UNCHANGED <<revision, access, ops>>
StrayLands == \E s \in strays : Lands(s)

Server == /\ BecomesDue \/ Expires \/ PermissionsChange \/ StrayLands
          /\ UNCHANGED <<held, queue, inbox, changed>>

\* startSessionRenewal: a timer and the user's presence look at the deadlines and ask for a
\* renewal; so does a button, whenever its user likes.
Renewing(t) == Submit(t, "renew", None)

User(t) == \/ Focus(t) \/ Read(t) \/ Retry(t) \/ Return(t) \/ Close(t) \/ Redirect(t) \/ Land(t)
           \/ \E as \in Subjects : Submit(t, "login", as)
           \/ Submit(t, "logout", None) \/ Renewing(t)

Operate(t) == Begin(t) \/ CheckDue(t) \/ Work(t)
Listen(t) == Hear(t) \/ HearChange(t)
Reacts(t) == Load(t) \/ Check(t) \/ ReadAnswers(t) \/ Operate(t) \/ Listen(t)

Next == (Server \/ \E t \in Tabs : User(t) \/ Reacts(t)) /\ UNCHANGED around

Spec == Init /\ [][Next]_vars

--------------------------------------------------------------------------------
\* What a page shows was read under the scope that its tab admitted, and so was the catalog of
\* pages: an answer under another scope (x-lenso-read-scope), or one that comes after its lease,
\* is never handed on, whoever logs in or out meanwhile.
PageShowsItsOwn ==
  \A t \in Tabs :
    /\ tab[t].admission # None => tab[t].admission.pages = tab[t].admission.scope
    /\ tab[t].shown # None => /\ tab[t].state = "authenticated" /\ tab[t].admission # None
                              /\ tab[t].shown = tab[t].admission.scope

\* Where the server publishes its deadlines, an executed renewal finds the session due, in its
\* tab or after its tab gave up: of two tabs that find it due, the second asks again under the
\* lock and lets it be. Only another write that came between the second look and the renewal,
\* one that nobody waited for or that took no lock, can have made it early.
RenewsWhenDue ==
  [][around.status =>
       /\ \A t \in Tabs : tab[t].op.kind = "renew" /\ Succeed(t) => due \/ tab[t].missed
       /\ \A s \in strays : s.op.kind = "renew" /\ Accepts(s.op) /\ Lands(s) => due \/ s.missed]_vars

\* A logout that waits for the lock is dropped by its user only, or with its tab: not by the
\* transition that is before it, nor by what other tabs say.
LogoutSurvives ==
  [][\A t \in Tabs : tab[t].op.kind = "logout" /\ ~tab[t].op.working /\ tab'[t].op = NoOp
                     => Retry(t) \/ Close(t)]_vars

\* Whoever waits for the lock waits for somebody who can go on without it: no tab queues behind
\* itself, nor two of them behind each other.
LockMovesOn ==
  queue # <<>> => \E t \in Tabs : ENABLED (Load(t) \/ Check(t) \/ ReadAnswers(t) \/ Operate(t))

\* A tab that is admitted as somebody else than the cookie's subject has been told: a message
\* or, where the channel does not reach, a storage event is on its way to it. The writes that
\* announce nothing are excepted for the tabs that they pass by: a sign-in by redirect, a write
\* that comes after its tab gave up, and one without an answer for a tab out of the channel's
\* reach. Such a tab goes on as itself until its next request (see PageShowsItsOwn).
Stale(t) == tab[t].admission # None /\ session # None /\ tab[t].admission.scope.subject # session
StaleIsTold ==
  \A t \in Tabs : Stale(t) => inbox[t] # <<>> \/ t \in changed \/ tab[t].missed
================================================================================
