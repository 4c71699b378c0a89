---------------------------- MODULE SchedulePanel ----------------------------
(***************************************************************************)
(* The schedules under the task list: read, paused, resumed or cancelled   *)
(* at the revision the person saw.  The scheduler refuses a revision that  *)
(* has passed; a change nobody confirmed blocks every other one until its  *)
(* own schedule has been read.                                             *)
(***************************************************************************)
EXTENDS Naturals

CONSTANTS Schedules, None,
          MaxRevision  \* bound: revisions that are changed once more

VARIABLES schedules,  \* the scheduler: state and revision of every schedule
          panel       \* the panel and its one call under way

vars == <<schedules, panel>>

Ended == {"cancelled"}
States == {"active", "paused"} \cup Ended
Results == [pause |-> "paused", resume |-> "active", cancel |-> "cancelled"]
Possible(state) == CASE state = "active" -> {"pause", "cancel"}
                     [] state = "paused" -> {"resume", "cancel"}
                     [] state \in Ended -> {}

Init ==
  /\ schedules = [s \in Schedules |-> [state |-> "active", revision |-> 1]]
  /\ panel = [items |-> None, call |-> [kind |-> "read", checked |-> None],
              error |-> FALSE, confirmation |-> None, uncertain |-> None,
              offline |-> FALSE, adrift |-> {}]

Pending == panel.call # None

Set(fields) == panel' = [f \in DOMAIN panel |->
                 IF f \in DOMAIN fields THEN fields[f] ELSE panel[f]]

Change(item, action) == [item EXCEPT !.state = Results[action],
                                     !.revision = @ + 1]

(* Reading again; after an unconfirmed change, its schedule by name too,   *)
(* for its absence from a bounded list proves nothing.                     *)
Read ==
  /\ ~Pending /\ ~panel.offline /\ panel.confirmation = None
  /\ Set([call |-> [kind |-> "read", checked |-> panel.uncertain],
          error |-> FALSE])
  /\ UNCHANGED schedules

ReadAnswers ==
  /\ Pending /\ panel.call.kind = "read"
  /\ \/ Set([items |-> schedules, call |-> None, uncertain |->
               IF panel.call.checked = None THEN panel.uncertain ELSE None])
     \/ Set([error |-> TRUE, call |-> None])
  /\ UNCHANGED schedules

Changeable == ~Pending /\ ~panel.offline /\ panel.uncertain = None

Ask(s, action) ==
  /\ Changeable /\ ~panel.error /\ panel.items # None
  /\ panel.confirmation = None
  /\ action \in Possible(panel.items[s].state)
  /\ panel.items[s].revision <= MaxRevision
  /\ Set([confirmation |-> [schedule |-> s, action |-> action,
                            revision |-> panel.items[s].revision]])
  /\ UNCHANGED schedules

Back ==
  /\ panel.confirmation # None /\ ~Pending
  /\ Set([confirmation |-> None]) /\ UNCHANGED schedules

Execute ==
  /\ Changeable /\ panel.confirmation # None
  /\ Set([call |-> [kind |-> "change", checked |-> None]])
  /\ UNCHANGED schedules

Asked == panel.confirmation

Admitted ==
  /\ schedules[Asked.schedule].revision = Asked.revision
  /\ Asked.action \in Possible(schedules[Asked.schedule].state)

Changed == [schedules EXCEPT ![Asked.schedule] = Change(@, Asked.action)]

Confirmed ==
  /\ Pending /\ panel.call.kind = "change" /\ Admitted
  /\ schedules' = Changed
  /\ Set([items |-> [panel.items EXCEPT ![Asked.schedule] = schedules'[Asked.schedule]],
          call |-> None, confirmation |-> None])

UnsureQuietly == [call |-> None, confirmation |-> None]

(* No answer, or a refusal: uncertain which of the two.  The request may   *)
(* have been carried out, or still be on its way.                          *)
Unsure == [uncertain |-> Asked.schedule, call |-> None, confirmation |-> None]

Lost ==
  /\ Pending /\ panel.call.kind = "change"
  /\ \/ /\ schedules' = IF Admitted THEN Changed ELSE schedules
        /\ Set(Unsure)
     \/ /\ Set([x \in DOMAIN Unsure \cup {"adrift"} |->
                  IF x = "adrift" THEN panel.adrift \cup {Asked} ELSE Unsure[x]])
        /\ UNCHANGED schedules

Arrives(c) ==
  /\ Set([adrift |-> panel.adrift \ {c}])
  /\ schedules' =
       IF /\ schedules[c.schedule].revision = c.revision
          /\ c.action \in Possible(schedules[c.schedule].state)
       THEN [schedules EXCEPT ![c.schedule] = Change(@, c.action)] ELSE schedules

Connection == Set([offline |-> ~panel.offline]) /\ UNCHANGED schedules

Elsewhere(s, action) ==
  /\ schedules[s].revision <= MaxRevision /\ action \in Possible(schedules[s].state)
  /\ schedules' = [schedules EXCEPT ![s] = Change(@, action)]
  /\ UNCHANGED panel

Next ==
  \/ Read \/ ReadAnswers \/ Back \/ Execute \/ Confirmed \/ Lost \/ Connection
  \/ \E s \in Schedules, action \in DOMAIN Results : Ask(s, action) \/ Elsewhere(s, action)
  \/ \E c \in panel.adrift : Arrives(c)

Spec == Init /\ [][Next]_vars

TypeOK ==
  /\ schedules \in [Schedules -> [state : States, revision : Nat]]
  /\ panel.items \in {None} \cup [Schedules -> [state : States, revision : Nat]]
  /\ panel.uncertain \in Schedules \cup {None}

(* A change that is confirmed later than the person decided on it still    *)
(* takes effect only on the state they saw (schedules.tsx:101): whatever   *)
(* happened to the schedule meanwhile, by another hand or by a change of   *)
(* this panel that seemed lost, it is refused.  And while one change is    *)
(* adrift no other is sent before its schedule was read (schedules.tsx:86, *)
(* :160).                                                                  *)
ChangesWhatWasSeen ==
      /\ Confirmed => /\ panel.items # None
                      /\ panel.items[Asked.schedule] = schedules[Asked.schedule]
      /\ Execute => panel.uncertain = None
      /\ \A c \in panel'.adrift \ panel.adrift : panel'.uncertain = c.schedule
      /\ panel'.uncertain = None /\ panel.uncertain # None =>
           panel'.items[panel.uncertain] = schedules[panel.uncertain]
=============================================================================
