------------------------ MODULE DashboardRepositories ------------------------
(***************************************************************************)
(* The two repositories that live in the process that serves the calls, the*)
(* memory one and PostgreSQL.  They share no state: a behaviour is of one  *)
(* of them, and the other's variables stand still.  Both keep the row and  *)
(* the mutations of DashboardStorage, and both promise DashboardLog.       *)
(***************************************************************************)
EXTENDS DashboardStorage

CONSTANTS
  Clients,          \* the calls that PostgreSQL serves,
  ClientRequests,   \* and what they may ask
  PoolSizes, Free, NoHolder

VARIABLES
  repository,                                      \* the one this behaviour is of
  tail, prior, released, copy,                     \* memory's chain and copies
  pool, connected, session, holder, wrote, failure \* PostgreSQL's pool and sessions

Memory == INSTANCE DashboardMemory
Postgres == INSTANCE DashboardPostgres
              WITH Attempts <- Clients, Requests <- ClientRequests

ASSUME RepositoriesAssumption ==
  /\ Clients \subseteq Attempts /\ ClientRequests \subseteq Requests
  /\ Memory!FreeAssumption /\ Postgres!PoolAssumption

ofMemory   == <<tail, prior, released, copy>>
ofPostgres == <<pool, connected, session, holder, wrote, failure>>
vars       == <<repository, stored, local, ofMemory, ofPostgres>>

InMemory   == repository = "memory"
InPostgres == repository = "postgres"

Init ==
  \/ InMemory /\ Memory!Init
     /\ pool = 0 /\ connected = {} /\ session = <<>> /\ holder = NoHolder
     /\ wrote = <<>> /\ failure = <<>>
  \/ InPostgres /\ Postgres!Init
     /\ tail = Free /\ prior = <<>> /\ released = {} /\ copy = <<>>

Next ==
  /\ UNCHANGED repository
  /\ \/ InMemory /\ Memory!Next /\ UNCHANGED ofPostgres
     \/ InPostgres /\ Postgres!Next /\ UNCHANGED ofMemory

Client(a) == InPostgres /\ (Postgres!Load(a) \/ Postgres!Run(a) \/ Postgres!Persist(a))

\* Each repository's own fairness.
Fairness ==
  /\ \A a \in Attempts : WF_<<Memory!vars>>(InMemory /\ Memory!Step(a))
  /\ \A a \in Clients : /\ WF_<<Postgres!vars>>(Client(a))
                        /\ WF_<<Postgres!vars>>(InPostgres /\ Postgres!Server(a))

Spec == Init /\ [][Next]_vars /\ Fairness

-----------------------------------------------------------------------------
(* Only one of them can be writing: in memory no two calls work on a copy   *)
(* of the state at once (server.ts), in PostgreSQL whoever may still commit *)
(* a write holds the scope's lock, a dead session included (postgres.ts:119)*)
OneWriterAtATime ==
  /\ InMemory => Memory!OneCopyAtATime
  /\ InPostgres => Postgres!LockCoversWrites

(* Whatever fails, is lost or overlaps, what both do is a run of the log of *)
(* DashboardLog: what a repository promises the dashboard store.            *)
Asked(a) == IF a \in DOMAIN pc THEN request[a] ELSE NoRequest
Told(a)  == IF a \in DOMAIN pc THEN answer[a] ELSE Pending

Promise == INSTANCE DashboardLog
             WITH log <- Log, request <- [a \in Attempts |-> Asked(a)],
                  answer <- [a \in Attempts |-> Told(a)]
ImplementsLog == Promise!Spec

(* Every call settles: along the chain whatever became of the calls before  *)
(* it, and in PostgreSQL although the calls wait for the pool's connections *)
(* and for a lock that a dead session may hold (postgres.ts:114-205).       *)
EveryAttemptSettles ==
  \A a \in Attempts : a \in DOMAIN pc /\ pc[a] # "idle" ~> a \in DOMAIN pc /\ pc[a] = "done"
=============================================================================
