---------------------------- MODULE PageActions -----------------------------
(***************************************************************************)
(* What a page lends to the frame around it: the actions of a selection,   *)
(* or its commands, published by the scopes mounted on the page and run    *)
(* through handles the Dock and the Command palette may hold longer than   *)
(* the page lives; and the context a page activation hands out.            *)
(***************************************************************************)
EXTENDS Naturals

CONSTANTS Seats,    \* places in the page tree where a scope can be mounted
          Ids, None,
          MaxKey    \* bound: activations of one seat

VARIABLES scopes,   \* what each seat committed, and under which activation
          frame     \* what the frame shows, the palette, and the last action run

vars == <<scopes, frame>>

Leases == [seat : Seats, key : 0..MaxKey]
Lease(s) == [seat |-> s, key |-> scopes[s].key]
Values == [busy : SUBSET Ids, ids : SUBSET Ids]

Set(fields) == frame' = [f \in DOMAIN frame |->
                 IF f \in DOMAIN fields THEN fields[f] ELSE frame[f]]

Init ==
  /\ scopes = [s \in Seats |-> [key |-> 0, value |-> None, context |-> 0]]
  /\ frame = [shown |-> None, open |-> FALSE, path |-> 0, aborted |-> FALSE,
              ran |-> None]

Clear(shown, lease) ==
  IF shown # None /\ shown.owner = lease THEN None ELSE shown

ClearAlways(shown, lease) == None

Withdraw(shown, lease) == Clear(shown, lease)

(* A scope is rendered, renders again, is given a new key, or goes: what   *)
(* it showed is withdrawn and what it offers now is shown instead.         *)
Commit(s, key, value) ==
  /\ key \in scopes[s].key..MaxKey
  /\ scopes' = [scopes EXCEPT ![s].key = key, ![s].value = value]
  /\ Set([ran |-> None, shown |->
       IF value = None THEN Withdraw(frame.shown, Lease(s))
       ELSE [owner |-> [seat |-> s, key |-> key],
             ids |-> value.ids, busy |-> value.busy]])

Owned(lease) == ~frame.aborted /\ frame.shown # None /\ frame.shown.owner = lease
OwnedByAny(lease) == ~frame.aborted
IsCurrent(lease) == Owned(lease)

Alive(lease) == scopes[lease.seat].value # None /\ Lease(lease.seat) = lease

(* A handle kept by the Dock, or by a row of the palette: it is looked up  *)
(* among what its scope has committed by now.                              *)
Invoke(lease, id) ==
  IF /\ Alive(lease) /\ IsCurrent(lease)
     /\ id \in scopes[lease.seat].value.ids \ scopes[lease.seat].value.busy
  THEN [lease |-> lease, id |-> id] ELSE None

Press(lease, id) ==
  /\ ~frame.open
  /\ Set([ran |-> Invoke(lease, id)])
  /\ UNCHANGED scopes

Retained(lease) == Alive(lease)
RetainedAlways(lease) == TRUE
Dispatches(lease) == Retained(lease)

(* The page context's handle: after its activation closed it does nothing. *)
SetContext(lease, n) ==
  /\ lease.key <= scopes[lease.seat].key
  /\ scopes' = IF Dispatches(lease) THEN [scopes EXCEPT ![lease.seat].context = n]
               ELSE scopes
  /\ Set([ran |-> None])

(* The Command palette.  Closing it gives the focus back to where it was,  *)
(* unless the page changed underneath.                                     *)
Show ==
  /\ ~frame.aborted /\ ~frame.open
  /\ Set([open |-> TRUE, ran |-> None]) /\ UNCHANGED scopes

Close ==
  /\ frame.open
  /\ Set([open |-> FALSE, ran |-> None]) /\ UNCHANGED scopes

Choose(id) ==
  /\ frame.open /\ frame.shown # None /\ id \in frame.shown.ids \ frame.shown.busy
  /\ Set([open |-> FALSE, ran |-> Invoke(frame.shown.owner, id)])
  /\ UNCHANGED scopes

(* A destination, from the palette or the Dock, or the address bar.        *)
Navigate ==
  /\ Set([path |-> 1 - frame.path, open |-> FALSE, ran |-> None])
  /\ UNCHANGED scopes

Destination == ~frame.aborted /\ Navigate
Abort == Set([aborted |-> TRUE, ran |-> None]) /\ UNCHANGED scopes

Next ==
  \/ \E s \in Seats, key \in 0..MaxKey, value \in Values \cup {None} : Commit(s, key, value)
  \/ \E lease \in Leases :
       (\E id \in Ids : Press(lease, id)) \/ (\E n \in 0..1 : SetContext(lease, n))
  \/ Show \/ Close \/ Navigate \/ Destination \/ Abort
  \/ \E id \in Ids : Choose(id)

Spec == Init /\ [][Next]_vars

TypeOK ==
  /\ \A s \in Seats : scopes[s].value \in Values \cup {None}
  /\ frame.shown \in {None} \cup [owner : Leases, ids : SUBSET Ids, busy : SUBSET Ids]

(* The frame shows what a mounted scope offers now, and a handle left over *)
(* from an earlier selection, page or activation reaches nothing: what     *)
(* runs is on the page and not busy.  One scope's leaving takes nothing    *)
(* away from another that is shown (console-action-scope.tsx:76, :150),    *)
(* and no handle writes into a later activation's context                  *)
(* (console-page-context.tsx:64).                                          *)
HandlesReachThePage ==
      /\ frame'.shown # None =>
           LET s == frame'.shown.owner.seat IN
             /\ frame'.shown.owner.key = scopes'[s].key
             /\ scopes'[s].value = [ids |-> frame'.shown.ids, busy |-> frame'.shown.busy]
      /\ frame'.ran # None =>
           /\ frame.shown # None /\ frame.shown.owner = frame'.ran.lease
           /\ frame'.ran.id \in frame.shown.ids \ frame.shown.busy
      /\ \A s \in Seats :
           /\ frame.shown # None /\ frame.shown.owner.seat = s
                /\ scopes'[s] = scopes[s] /\ frame'.shown # frame.shown =>
                frame'.shown # None
           /\ scopes'[s].context # scopes[s].context => scopes[s].value # None
=============================================================================
