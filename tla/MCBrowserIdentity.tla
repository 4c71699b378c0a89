--------------------------- MODULE MCBrowserIdentity ---------------------------
\* Two tabs. In the first environment both sign in and write the cookie and nobody reads, and in
\* the second, where the channel does not reach the second tab, the first may read too. In the
\* others one tab signs in or writes while the first reads, with a server of today and with one
\* without /admission and without a status of the session.
EXTENDS BrowserIdentity, TLC

CONSTANTS t1, t2

MCSymmetry == Permutations(Subjects)   \* nothing tells one subject from the other

MCEnvironments ==
  {[deaf |-> {}, legacy |-> FALSE, status |-> TRUE, watched |-> {}, ops |-> 2, revisions |-> 0],
   [deaf |-> {t2}, legacy |-> FALSE, status |-> TRUE, watched |-> {t1}, ops |-> 2, revisions |-> 0],
   [deaf |-> {}, legacy |-> FALSE, status |-> TRUE, watched |-> {t1}, ops |-> 1, revisions |-> 1],
   [deaf |-> {t2}, legacy |-> TRUE, status |-> FALSE, watched |-> {t1}, ops |-> 1, revisions |-> 1]}
================================================================================
