---------------------------- MODULE DashboardLog ----------------------------
(***************************************************************************)
(* What a dashboard repository promises for one scope, whatever stores it: *)
(* the saves it accepts form one gap-free log, a mutation id is accepted   *)
(* at most once, and the answer an attempt gets says something that stays  *)
(* true.  The repositories of packages/console-dashboard/src are shown to  *)
(* implement this specification.                                           *)
(***************************************************************************)
EXTENDS Naturals, Sequences

CONSTANTS
  Attempts,     \* calls of DashboardStore.save, retries included
  Requests,     \* [id, expected, doc]: what a caller may send
  Documents,
  NoRequest

VARIABLES
  log,          \* accepted saves; the index is the revision
  request,      \* what each attempt sent
  answer        \* what each attempt was told

vars == <<log, request, answer>>

\* canonicalJson({expectedRevision, document}): it tells apart what a reused
\* mutation id stands for.
Fingerprint(r) == [expected |-> r.expected, doc |-> r.doc]

Answered(status) == [status |-> status]
Saved(revision, doc) == [status |-> "saved", revision |-> revision, doc |-> doc]
Pending == Answered("pending")

Asked(a) == request[a] # NoRequest
Holds(id) == \E n \in DOMAIN log : log[n].id = id
Wrote(a) == \E n \in DOMAIN log : log[n].by = a

Init ==
  /\ log = <<>>
  /\ request = [a \in Attempts |-> NoRequest]
  /\ answer = [a \in Attempts |-> Pending]

\* A caller's expected revision is one it has read, so never a later one.
Submit(a, r) ==
  /\ request[a] = NoRequest
  /\ r.expected <= Len(log)
  /\ request' = [request EXCEPT ![a] = r]
  /\ UNCHANGED <<log, answer>>

\* A save takes effect at most once per id, on the revision it expects, and
\* never for an attempt that was already refused or acknowledged.  A local
\* store answers in the same step.
Accept(a) ==
  /\ Asked(a)
  /\ answer[a].status \in {"pending", "unknown", "lost"}
  /\ ~Holds(request[a].id)
  /\ request[a].expected = Len(log)
  /\ \E doc \in Documents :
       /\ log' = Append(log, [id |-> request[a].id, doc |-> doc, by |-> a,
                              fingerprint |-> Fingerprint(request[a])])
       /\ \/ answer' = answer
          \/ /\ answer[a] = Pending
             /\ answer' = [answer EXCEPT ![a] = Saved(Len(log'), doc)]
  /\ UNCHANGED request

Answer(a, value) ==
  /\ Asked(a)
  /\ answer[a] = Pending
  /\ answer' = [answer EXCEPT ![a] = value]
  /\ UNCHANGED <<log, request>>

\* The attempt is told the snapshot its id stands for, its own or a twin's.
Acknowledge(a) ==
  /\ Asked(a)
  /\ \E n \in DOMAIN log :
       /\ log[n].id = request[a].id
       /\ log[n].fingerprint = Fingerprint(request[a])
       /\ Answer(a, Saved(n, log[n].doc))

\* A conflict is only reported to a caller whose revision is out of date.
Conflict(a) ==
  /\ Asked(a)
  /\ ~Wrote(a)
  /\ request[a].expected < Len(log)
  /\ Answer(a, Answered("conflict"))

Collide(a) ==
  /\ Asked(a)
  /\ \E n \in DOMAIN log :
       /\ log[n].id = request[a].id
       /\ log[n].fingerprint # Fingerprint(request[a])
  /\ Answer(a, Answered("collision"))

\* A definite refusal: nothing of this attempt was, or will be, stored.
Refuse(a) == ~Wrote(a) /\ Answer(a, Answered("refused"))

\* The caller learns nothing; its save may still be accepted later.
Lose(a, status) == Answer(a, Answered(status))

Next ==
  \E a \in Attempts :
    \/ \E r \in Requests : Submit(a, r)
    \/ Accept(a)
    \/ Acknowledge(a)
    \/ Conflict(a)
    \/ Collide(a)
    \/ Refuse(a)
    \/ \E status \in {"unknown", "lost"} : Lose(a, status)

Spec == Init /\ [][Next]_vars
=============================================================================
