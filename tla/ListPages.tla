------------------------------ MODULE ListPages ------------------------------
(* Two pages that only read, whose answers may come late or be refusals.    *)
(* The audit page: records read page by page under a filter, and one record *)
(* opened, or the one it relates to.                                        *)
(* The plugin manager: a page of the catalog, put together from two reads   *)
(* of every target by a few workers.  A target that cannot be read fails    *)
(* the whole load; a load the page has left behind ends unheard.            *)
EXTENDS Naturals, FiniteSets, Sequences

CONSTANTS Events, Filters, NoFilter, Pages,  \* Pages: how many a filter has
          MaxTargets, Workers,
          MaxLoads,                          \* bound: loads the pages start
          None

PagesAssumption == Pages \in Nat \ {0} /\ NoFilter \in Filters

VARIABLES audit,  \* the audit page
          reads,  \* its reads under way
          loads,  \* every load: what it has read, what each worker waits for
          page    \* the list, or the details of one target's plugin

List(filter, cursor) ==
  [kind |-> "query", filter |-> filter, cursor |-> cursor, late |-> FALSE]
Get(event) == [kind |-> "get", event |-> event, late |-> FALSE]
Late(r) == [r EXCEPT !.late = TRUE]

AuditInit ==
  /\ audit = [page |-> None, filter |-> NoFilter, cursor |-> 0, pending |-> TRUE,
              open |-> FALSE, asked |-> None, detail |-> None, error |-> FALSE]
  /\ reads = {List(NoFilter, 0)}

(* A list read gives up the page, the dialog and every read before it.     *)
LoadRecords(filter, cursor) ==
  /\ ~audit.pending /\ ~audit.open
  /\ audit' = [audit EXCEPT !.page = None, !.pending = TRUE, !.error = FALSE,
                            !.open = FALSE, !.detail = None]
  /\ reads' = {Late(r) : r \in reads} \cup {List(filter, cursor)}

Apply(filter) == LoadRecords(filter, 0)
FirstPage == audit.cursor > 0 /\ LoadRecords(audit.filter, 0)
NextPage ==
  /\ audit.page # None /\ audit.cursor + 1 < Pages
  /\ LoadRecords(audit.filter, audit.cursor + 1)

Inspect(event) ==
  /\ audit' = [audit EXCEPT !.open = TRUE, !.asked = event, !.detail = None]
  /\ reads' = {IF r.kind = "get" THEN Late(r) ELSE r : r \in reads} \cup {Get(event)}

InspectRow(event) == audit.page # None /\ ~audit.open /\ Inspect(event)
InspectRelated(event) ==
  /\ audit.open /\ audit.detail # None /\ event # audit.detail
  /\ Inspect(event)

Close ==
  /\ audit.open
  /\ audit' = [audit EXCEPT !.open = FALSE]
  /\ reads' = {IF r.kind = "get" THEN Late(r) ELSE r : r \in reads}

AnyTime(r) == TRUE
Timely(r) == ~r.late

RecordsAnswer(r) ==
  /\ audit' \in
       IF ~Timely(r) THEN {audit}
       ELSE IF r.kind = "get" THEN {[audit EXCEPT !.detail = r.event], audit}
       ELSE {[audit EXCEPT !.page = [filter |-> r.filter, cursor |-> r.cursor],
                           !.filter = r.filter, !.cursor = r.cursor,
                           !.pending = FALSE],
             [audit EXCEPT !.error = TRUE, !.pending = FALSE]}
  /\ reads' = reads \ {r}

AuditNext ==
  \/ \E filter \in Filters : Apply(filter)
  \/ FirstPage \/ NextPage \/ Close
  \/ \E event \in Events : InspectRow(event) \/ InspectRelated(event)
  \/ \E r \in reads : RecordsAnswer(r)

(* What is shown is what was asked for last: the rows belong to the filter *)
(* and the place the page buttons go on from, the open record is the one   *)
(* that was opened, and no record outlives its list (react.tsx:61, :86).   *)
ShowsWhatWasAsked ==
  /\ audit.page # None => audit.page = [filter |-> audit.filter, cursor |-> audit.cursor]
  /\ audit.open => audit.page # None
  /\ audit.open /\ audit.detail # None => audit.detail = audit.asked

-----------------------------------------------------------------------------
(* The plugin manager.                                                      *)

Reads == {"plugins", "catalog"}
Idle == [target |-> 0, waits |-> {}]
Fresh == [status |-> "targets", targets |-> 0, next |-> 1, read |-> {},
          workers |-> [w \in 1..Workers |-> Idle]]
Waiting(load) == {w \in 1..Workers : load.workers[w].waits # {}}
InFlight(load) == UNION {load.workers[w].waits \X {w} : w \in 1..Workers}

Set(fields) == page' = [f \in DOMAIN page |->
                 IF f \in DOMAIN fields THEN fields[f] ELSE page[f]]

CatalogInit ==
  /\ loads = <<Fresh>>
  /\ page = [load |-> 1, left |-> FALSE, snapshot |-> None, error |-> FALSE,
             loading |-> TRUE, detail |-> 0]

Asks(target) == [target |-> target, waits |-> Reads]

(* A worker takes the next target and asks for both its reads at once.     *)
Take(load, w) ==
  IF load.next > load.targets THEN [load EXCEPT !.workers[w] = Idle]
  ELSE [load EXCEPT !.workers[w] = Asks(load.next), !.next = @ + 1]

Targets(l, n) ==
  /\ loads[l].status = "targets"
  /\ loads' = [loads EXCEPT ![l] =
       [@ EXCEPT !.status = "reading", !.targets = n,
                 !.next = (IF n < Workers THEN n ELSE Workers) + 1,
                 !.workers = [w \in 1..Workers |-> IF w <= n THEN Asks(w) ELSE Idle]]]
  /\ UNCHANGED page

EitherRead(waits, read) == {}
BothReads(waits, read) == waits \ {read}
Remaining(waits, read) == BothReads(waits, read)

Answers(l, w, read) ==
  /\ loads[l].status = "reading" /\ read \in loads[l].workers[w].waits
  /\ LET left == Remaining(loads[l].workers[w].waits, read) IN
       loads' = [loads EXCEPT ![l] =
         LET now == [@ EXCEPT !.workers[w].waits = left,
                              !.read = @ \cup {<<loads[l].workers[w].target, read>>}]
         IN  IF left # {} THEN now ELSE Take(now, w)]
  /\ UNCHANGED page

FailAlone(load) == [load EXCEPT !.next = load.targets + 1]
FailAll(load) == [Fresh EXCEPT !.status = "failed"]
Failed(load) == FailAll(load)

(* One read is refused, or the load is aborted: its siblings go with it.   *)
Fails(l) ==
  /\ loads[l].status = "targets" \/ Waiting(loads[l]) # {}
  /\ loads' = [loads EXCEPT ![l] = Failed(@)]
  /\ UNCHANGED page

Heard(l) == l = page.load /\ ~page.left
HeardAlways(l) == TRUE
Current(l) == Heard(l)

Finished(l) == loads[l].status = "reading" /\ Waiting(loads[l]) = {}

Ends(l) ==
  /\ Finished(l) \/ loads[l].status = "failed"
  /\ loads' = [loads EXCEPT ![l] = [Fresh EXCEPT !.status = "over"]]
  /\ IF ~Current(l) THEN UNCHANGED page
     ELSE IF Finished(l)
     THEN Set([snapshot |-> [load |-> l, targets |-> loads[l].targets, read |-> loads[l].read],
               loading |-> FALSE])
     ELSE Set([error |-> TRUE, loading |-> FALSE])

(* Trying again, or another activation of the page: the list or a detail.  *)
Load(snapshot, detail) ==
  /\ Len(loads) < MaxLoads /\ ~page.left
  /\ loads' = Append([l \in DOMAIN loads |->
                       IF loads[l].status = "over" \/ Finished(l) THEN loads[l]
                       ELSE Failed(loads[l])], Fresh)
  /\ Set([snapshot |-> snapshot, detail |-> detail, load |-> Len(loads) + 1,
          loading |-> TRUE, error |-> FALSE])

Retry == page.error /\ ~page.loading /\ Load(page.snapshot, page.detail)
Remount == Load(None, page.detail)

Shown == ~page.loading /\ ~page.error /\ page.snapshot # None
Listed(target) == Shown /\ <<target, "plugins">> \in page.snapshot.read

OpenPlugin(target) ==
  /\ page.detail = 0 /\ Listed(target)
  /\ Load(None, target)

Return == page.detail # 0 /\ Load(None, 0)

Leave == Set([left |-> TRUE]) /\ UNCHANGED loads

CatalogNext ==
  \/ \E l \in DOMAIN loads :
       \/ \E n \in 0..MaxTargets : Targets(l, n)
       \/ \E w \in 1..Workers, read \in Reads : Answers(l, w, read)
       \/ Fails(l) \/ Ends(l)
  \/ Retry \/ Remount \/ Return \/ Leave
  \/ \E target \in 1..MaxTargets : OpenPlugin(target)

(* The page shows one whole load, its own: every target it lists was read, *)
(* both ways.  No load keeps more than two reads a worker in flight, and   *)
(* one that failed starts no other (catalog-loader.ts:41, :55, :60;        *)
(* plugin-manager.tsx:50, :112).                                           *)
CatalogIsWhole ==
  /\ Shown => /\ page.snapshot.load = page.load
              /\ page.snapshot.read = (1..page.snapshot.targets) \X Reads
  /\ \A l \in DOMAIN loads :
       /\ Cardinality(InFlight(loads[l])) <= 2 * Workers
       /\ loads[l].status = "reading" =>
            {t \in 1..loads[l].next - 1 : ~(\A read \in Reads : <<t, read>> \in loads[l].read)}
              = {loads[l].workers[w].target : w \in Waiting(loads[l])}

-----------------------------------------------------------------------------
TypeOK ==
  /\ audit.page \in {None} \cup [filter : Filters, cursor : 0..Pages - 1]
  /\ audit.detail \in Events \cup {None}

Init == AuditInit /\ CatalogInit
Next == \/ AuditNext /\ UNCHANGED <<loads, page>>
        \/ CatalogNext /\ UNCHANGED <<audit, reads>>
Spec == Init /\ [][Next]_<<audit, reads, loads, page>>
=============================================================================
