------------------------------ MODULE TaskPage ------------------------------
(***************************************************************************)
(* The task page: the list of jobs read again every three seconds, one job *)
(* open in a dialog and read again with it, and the retry or cancellation  *)
(* of that job.  The queue goes on meanwhile; every answer may come late,  *)
(* out of order or not at all, and a write nobody confirmed may have been  *)
(* carried out or be carried out later.                                    *)
(***************************************************************************)
EXTENDS Naturals, FiniteSets

CONSTANTS Jobs, MaxCalls, MaxSteps,  \* bounds: calls under way, the queue's steps
          None

VARIABLES jobs,      \* the queue: the state of every job
          steps,     \* how often the queue moved by itself
          tasks,     \* the page
          requests   \* the page's calls under way

vars == <<jobs, steps, tasks, requests>>

Active == {"pending"}
States == Active \cup {"failed", "done", "cancelled"}
Offered(state) == CASE state = "failed" -> {"retry"}
                    [] state \in Active -> {"cancel"}
                    [] OTHER -> {}

Init ==
  /\ jobs \in [Jobs -> {"pending", "failed"}] /\ steps = 0
  /\ tasks = [online |-> TRUE, rows |-> None, loading |-> TRUE,
              selected |-> None, reading |-> FALSE, failed |-> FALSE,
              action |-> None, busy |-> FALSE, unsure |-> {}]
  /\ requests = {[kind |-> "list", job |-> None, late |-> FALSE, lost |-> FALSE]}

Request(kind, job) == [kind |-> kind, job |-> job, late |-> FALSE, lost |-> FALSE]

(* A read begun anew takes the version of the one under way: the answer to *)
(* that one, if it still comes, is late.                                   *)
Outrun(kind, set) ==
  {IF r.kind = kind THEN [r EXCEPT !.late = TRUE] ELSE r : r \in set}

Ask(kind, job, set) == Outrun(kind, set) \cup {Request(kind, job)}
Sent(set) == Cardinality(set) <= MaxCalls /\ requests' = set

Load ==
  /\ ~tasks.loading /\ tasks.selected = None
  /\ tasks' = [tasks EXCEPT !.loading = TRUE]
  /\ Sent(Ask("list", None, requests)) /\ UNCHANGED <<jobs, steps>>

View(job) ==
  /\ tasks.rows # None /\ tasks.selected = None
  /\ tasks' = [tasks EXCEPT !.selected = [job |-> job, state |-> tasks.rows[job]],
                            !.action = None, !.failed = FALSE, !.reading = TRUE]
  /\ Sent(Ask("get", job, requests)) /\ UNCHANGED <<jobs, steps>>

CheckStatus ==
  /\ tasks.selected # None /\ tasks.failed /\ ~tasks.busy
  /\ tasks' = [tasks EXCEPT !.action = None, !.failed = FALSE, !.reading = TRUE]
  /\ Sent(Ask("get", tasks.selected.job, requests)) /\ UNCHANGED <<jobs, steps>>

(* Every three seconds, on focus and when the network is back, unless      *)
(* something is being read, submitted or confirmed.                        *)
MayRefresh ==
  /\ tasks.online /\ ~tasks.loading /\ ~tasks.reading
  /\ ~tasks.busy /\ tasks.action = None

Refresh ==
  /\ MayRefresh
  /\ IF tasks.selected = None
     THEN /\ tasks' = [tasks EXCEPT !.loading = TRUE]
          /\ Sent(Ask("list", None, requests))
     ELSE /\ tasks' = [tasks EXCEPT !.loading = TRUE, !.failed = FALSE,
                                    !.reading = TRUE]
          /\ Sent(Ask("get", tasks.selected.job, Ask("list", None, requests)))
  /\ UNCHANGED <<jobs, steps>>

Connection ==
  /\ tasks' = [tasks EXCEPT !.online = ~@]
  /\ UNCHANGED <<jobs, steps, requests>>

Settled == tasks.online /\ ~tasks.busy /\ ~tasks.reading /\ ~tasks.failed

AskAction(action) ==
  /\ tasks.selected # None /\ tasks.action = None /\ Settled
  /\ action \in Offered(tasks.selected.state)
  /\ tasks' = [tasks EXCEPT !.action = action]
  /\ UNCHANGED <<jobs, steps, requests>>

Back ==
  /\ tasks.action # None /\ ~tasks.busy
  /\ tasks' = [tasks EXCEPT !.action = None]
  /\ UNCHANGED <<jobs, steps, requests>>

CloseAnyway ==
  /\ tasks.selected # None
  /\ tasks' = [tasks EXCEPT !.selected = None, !.action = None]
  /\ requests' = Outrun("get", requests)
  /\ UNCHANGED <<jobs, steps>>

(* Closing the dialog gives up the read of the job it shows.               *)
Close ==
  /\ tasks.selected # None /\ ~tasks.busy
  /\ tasks' = [tasks EXCEPT !.selected = None, !.action = None]
  /\ requests' = Outrun("get", requests)
  /\ UNCHANGED <<jobs, steps>>

Execute ==
  /\ tasks.selected # None /\ tasks.action # None /\ Settled
  /\ tasks.action \in Offered(tasks.selected.state)
  /\ tasks' = [tasks EXCEPT !.busy = TRUE]
  /\ Sent(requests \cup {Request(tasks.action, tasks.selected.job)})
  /\ UNCHANGED <<jobs, steps>>

(* What an answered read shows.                                            *)
Shown(r) ==
  IF r.kind = "list" THEN [tasks EXCEPT !.rows = jobs, !.loading = FALSE]
  ELSE [tasks EXCEPT !.selected = [job |-> r.job, state |-> jobs[r.job]],
                     !.reading = FALSE, !.unsure = @ \ {r.job},
                     !.rows = IF @ = None THEN None
                              ELSE [@ EXCEPT ![r.job] = jobs[r.job]]]

Unread(r) ==
  IF r.kind = "list" THEN [tasks EXCEPT !.loading = FALSE]
  ELSE [tasks EXCEPT !.failed = TRUE, !.reading = FALSE]

Timely(r) == ~r.late

ReadAnswers(r) ==
  /\ r.kind \in {"list", "get"}
  /\ tasks' \in IF Timely(r) THEN {Shown(r), Unread(r)} ELSE {tasks}
  /\ requests' = requests \ {r}
  /\ UNCHANGED <<jobs, steps>>

(* A confirmed write is followed by a read of its job and of the list, and *)
(* the dialog stays busy until both are answered; a read that fails then   *)
(* says nothing of the write.                                              *)
Write(r) == r.kind \in {"retry", "cancel"}
Carried(r) == IF r.kind = "retry" THEN "pending" ELSE "cancelled"

WriteAnswers(r) ==
  /\ Write(r)
  /\ jobs' = IF r.kind \in Offered(jobs[r.job])
             THEN [jobs EXCEPT ![r.job] = Carried(r)] ELSE jobs
  /\ IF r.lost \/ (r.kind = "retry" /\ jobs[r.job] # "failed")
     THEN /\ tasks' = IF r.lost THEN tasks
                      ELSE [tasks EXCEPT !.action = None, !.failed = TRUE,
                                         !.busy = FALSE, !.unsure = @ \cup {r.job}]
          /\ requests' = requests \ {r}
     ELSE /\ tasks' = [tasks EXCEPT !.action = None]
          /\ requests' = (requests \ {r}) \cup {Request("reconcile", r.job)}
  /\ UNCHANGED steps

Reconciled(r) ==
  /\ r.kind = "reconcile"
  /\ tasks' \in {[tasks EXCEPT !.selected = [job |-> r.job, state |-> jobs[r.job]],
                               !.unsure = @ \ {r.job}, !.loading = TRUE],
                 [tasks EXCEPT !.failed = TRUE, !.loading = TRUE]}
  /\ requests' = Outrun("list", requests \ {r}) \cup {Request("relist", None)}
  /\ UNCHANGED <<jobs, steps>>

Relisted(r) ==
  /\ r.kind = "relist"
  /\ \/ tasks' = [tasks EXCEPT !.rows = jobs, !.loading = FALSE, !.busy = FALSE]
     \/ tasks' = [tasks EXCEPT !.loading = FALSE, !.busy = FALSE]
  /\ requests' = requests \ {r}
  /\ UNCHANGED <<jobs, steps>>

(* The write was refused, or nobody can tell: it may still arrive.         *)
Unconfirmed ==
  [tasks EXCEPT !.action = None, !.failed = TRUE, !.busy = FALSE]

WriteLost(r) ==
  /\ Write(r) /\ ~r.lost
  /\ tasks' = [Unconfirmed EXCEPT !.unsure = @ \cup {r.job}]
  /\ \/ requests' = requests \ {r} /\ UNCHANGED jobs
     \/ requests' = (requests \ {r}) \cup {[r EXCEPT !.lost = TRUE]} /\ UNCHANGED jobs
     \/ /\ requests' = requests \ {r}
        /\ r.kind \in Offered(jobs[r.job])
        /\ jobs' = [jobs EXCEPT ![r.job] = Carried(r)]
  /\ UNCHANGED steps

Work(job) ==
  /\ steps < MaxSteps /\ jobs[job] \in Active
  /\ \E state \in {"failed", "done"} : jobs' = [jobs EXCEPT ![job] = state]
  /\ steps' = steps + 1 /\ UNCHANGED <<tasks, requests>>

Answers(r) ==
  ReadAnswers(r) \/ WriteAnswers(r) \/ Reconciled(r) \/ Relisted(r) \/ WriteLost(r)

Next ==
  \/ Load \/ CheckStatus \/ Refresh \/ Connection \/ Back \/ Close \/ Execute
  \/ \E job \in Jobs : View(job) \/ Work(job)
  \/ \E action \in {"retry", "cancel"} : AskAction(action)
  \/ \E r \in requests : Answers(r)

Spec == Init /\ [][Next]_vars

(* The timer fires for as long as the page is mounted, and a call is       *)
(* answered, refused or timed out in the end.                              *)
Fairness == WF_vars(Refresh) /\ WF_vars(\E r \in requests : Answers(r))
FairSpec == Spec /\ Fairness

TypeOK ==
  /\ jobs \in [Jobs -> States] /\ steps \in 0..MaxSteps
  /\ tasks.action \in {None, "retry", "cancel"}
  /\ tasks.rows = None \/ tasks.rows \in [Jobs -> States]
  /\ tasks.selected # None => tasks.selected.job \in Jobs

(* The dialog keeps to the job it was opened for: while something is asked *)
(* of a job, submitted or read back, nothing that arrives changes which    *)
(* job that is, and the page is busy exactly while it waits for its own    *)
(* write and the reads that follow it (react.tsx:105, :216, :448).         *)
DialogKeepsItsJob ==
  /\ tasks.busy => tasks.selected # None
  /\ tasks.busy <=> \E r \in requests :
        ~r.lost /\ r.kind \in {"retry", "cancel", "reconcile", "relist"}
  /\ \A r \in requests :
        (r.kind = "get" /\ ~r.late) \/ (~r.lost /\ (Write(r) \/ r.kind = "reconcile"))
          => tasks.selected # None /\ tasks.selected.job = r.job

(* A job whose retry or cancellation nobody confirmed is read before       *)
(* anything else is asked of it (react.tsx:239).                           *)
LooksBeforeRepeating ==
      \A r \in requests' \ requests :
        Write(r) /\ ~r.lost => r.job \notin tasks.unsure

(* README.md:4 of the package: "Reads refresh every three seconds while    *)
(* the page is visible".  Connected and with no dialog open, the list is   *)
(* read again.                                                             *)
Idle == tasks.online /\ tasks.selected = None
ReadsGoOn == [](Idle => <>(tasks.loading \/ ~Idle))
=============================================================================
