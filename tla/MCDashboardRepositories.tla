----------------------- MODULE MCDashboardRepositories -----------------------
(* Memory serves three calls, so that one arrives while a second runs and a *)
(* third waits, and the chain is deleted and begun again; PostgreSQL two, a *)
(* retry and a race, over a pool of one connection, for which they wait, and*)
(* over a pool of two, where they wait for the scope's lock.                *)
EXTENDS DashboardRepositories

CONSTANTS m1, m2, x, y

Asks(id, expected, doc) == [id |-> id, expected |-> expected, doc |-> doc]
MCRequests == {Asks(m1, 0, x), Asks(m1, 0, y), Asks(m2, 0, y), Asks(m2, 1, y)}
MCClientRequests == MCRequests \ {Asks(m1, 0, y)}
=============================================================================
