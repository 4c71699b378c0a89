----------------------------- MODULE OwnerPages -----------------------------
(***************************************************************************)
(* The Shell's pages: which owner-built page the location shows under the  *)
(* present admission, how its module is loaded, how one page opens another *)
(* and hands something over to it, and the runtime that keeps what a page  *)
(* has read until its admission retires.  Navigation takes its time.       *)
(***************************************************************************)
EXTENDS Naturals

CONSTANTS Mounts, Segments, Settings, None,
          MaxAdmission  \* bound: admissions of one visit

VARIABLES pages

vars == <<pages>>

Hrefs == Mounts \X Segments
Locations == Hrefs \cup {Settings}

Set(fields) == pages' = [f \in DOMAIN pages |->
                           IF f \in DOMAIN fields THEN fields[f] ELSE pages[f]]

Init ==
  pages = [admission |-> 0, mounts |-> {}, location |-> Settings, pending |-> None,
           travel |-> None, loads |-> {}, shown |-> None, styles |-> {},
           arrived |-> None, live |-> FALSE, runtimes |-> {}, cached |-> {},
           reading |-> None]

Admitted == pages.mounts # {}
MountAt(p) ==
  IF p.location \in Hrefs THEN (IF p.location[1] \in p.mounts THEN p.location[1] ELSE None)
  ELSE None
Key(p) == [mount |-> MountAt(p), admission |-> p.admission]

HandoffFor(p) ==
  IF /\ p.pending # None /\ MountAt(p) # None
     /\ p.pending.admission = p.admission /\ p.pending.href = p.location
  THEN p.pending.value ELSE None

KeepMatching(p) == IF HandoffFor(p) = None THEN None ELSE p.pending
KeepAll(p) == p.pending
Kept(p) == KeepMatching(p)

(* The runtime of a mount is made when its page first comes, and stays when*)
(* the page goes: it is the admission that ends it.                        *)
Mounted(p)  == [p EXCEPT !.runtimes = @ \cup {MountAt(p)}]
Standing(p) == p.live /\ MountAt(p) # None

(* Another location, or admission: a handoff for somewhere else is dropped,*)
(* and with another mount its page goes, its styles and its read, and      *)
(* another is loaded. Nothing is shown whose admission has retired.        *)
Unmounted(p) == [p EXCEPT !.shown = None, !.styles = {}, !.reading = None]

Rendered(p) ==
  LET now == [p EXCEPT !.pending = Kept(p)] IN
    IF ~Standing(p) THEN Unmounted(now)
    ELSE IF Key(p) = Key(pages) THEN Mounted(now)
    ELSE Mounted([Unmounted(now) EXCEPT !.loads = @ \cup {Key(p)}])

RetiredUncleared(p) ==      \* mutant: the caches are left
  [p EXCEPT !.live = FALSE, !.runtimes = {}]

(* The signal of the admission ends every runtime at once, rendered or not.*)
Retired(p) == [p EXCEPT !.live = FALSE, !.runtimes = {}, !.cached = {}]

Retire == pages.live /\ pages' = Retired(pages)

(* The provider of another admission ends the runtimes of the one before.  *)
Admit(mounts) ==
  /\ pages.admission < MaxAdmission
  /\ pages' = Rendered([Retired(pages) EXCEPT !.admission = @ + 1, !.mounts = mounts,
                                              !.live = TRUE])

Refresh == pages.mounts # {} /\ Admit(pages.mounts)
SignOut == Admitted /\ pages' = Rendered([Retired(pages) EXCEPT !.mounts = {}])

(* A journey ends, or the person goes elsewhere by themselves.             *)
Arrive ==
  /\ pages.travel # None
  /\ pages' = Rendered([pages EXCEPT !.location = pages.travel.to, !.travel = None,
                                     !.arrived = pages.travel])

Visit(location) ==
  /\ location # pages.location
  /\ pages' = Rendered([pages EXCEPT !.location = location, !.travel = None,
                           !.arrived = IF pages.travel # None /\ pages.travel.to = location
                                       THEN pages.travel ELSE None])

Live(key) == pages.live /\ key = Key(pages) /\ key.mount # None
Travel(to, value, pending) ==
  Set([pending |-> pending,
       travel |-> [to |-> to, value |-> value, admission |-> pages.admission]])

(* A page goes somewhere of its own, or to the settings.  What is held     *)
(* from a page that has gone is refused.                                   *)
Go(key, segment) ==
  /\ Live(key) /\ pages.shown = key /\ Travel(<<key.mount, segment>>, None, None)

OpenSettings(key) ==
  /\ Live(key) /\ pages.shown = key /\ Travel(Settings, None, None)

OpenWorkspace(key, href, value) ==
  /\ Live(key) /\ pages.shown = key /\ href[1] \in pages.mounts
  /\ Travel(href, value, IF value = None THEN None
       ELSE [admission |-> pages.admission, href |-> href, value |-> value])

Active(key) == Live(key)
ActiveAlways(key) == TRUE
StillActive(key) == Active(key)

Loaded(key) ==
  /\ key \in pages.loads
  /\ IF StillActive(key)
     THEN Set([loads |-> pages.loads \ {key}, shown |-> key,
               styles |-> pages.styles \cup {key}])
     ELSE Set([loads |-> pages.loads \ {key}])

NotLoaded(key) ==
  /\ key \in pages.loads /\ Set([loads |-> pages.loads \ {key}])

(* A read of the page on show; its answer is kept by the runtime it is of, *)
(* and by none that has retired.                                           *)
Read(key) ==
  /\ Live(key) /\ pages.shown = key /\ pages.reading = None /\ key \notin pages.cached
  /\ Set([reading |-> key])

ReadAnswers ==
  /\ pages.reading # None
  /\ Set([reading |-> None,
          cached |-> pages.cached \cup IF Live(pages.reading) THEN {pages.reading} ELSE {}])

Keys == [mount : Mounts, admission : 1..MaxAdmission]

Next ==
  \/ \E mounts \in SUBSET Mounts \ {{}} : Admit(mounts)
  \/ Refresh \/ SignOut \/ Retire \/ Arrive \/ ReadAnswers
  \/ \E location \in Locations : Visit(location)
  \/ \E key \in Keys :
       \/ Loaded(key) \/ NotLoaded(key) \/ OpenSettings(key) \/ Read(key)
       \/ \E segment \in Segments : Go(key, segment)
       \/ \E href \in Hrefs, value \in {None, "handoff"} : OpenWorkspace(key, href, value)

Spec == Init /\ [][Next]_vars

(* The page on show is the one its location names under this admission,    *)
(* and only its styles are in place; a handoff reaches nobody but the page *)
(* it was opened with, once, and not a later visit or admission; and what  *)
(* was read is in the runtimes of this admission, and gone once it retired *)
(* (console-admission.tsx:46, :123, :354, browser.tsx:119, :188).          *)
PagesAreTheirOwn ==
  /\ \A key \in pages.cached : /\ pages.live /\ key.admission = pages.admission
                               /\ key.mount \in pages.runtimes
  /\ pages.live /\ pages.shown # None => pages.shown.mount \in pages.runtimes
  /\ pages.shown # None => pages.shown = Key(pages)
  /\ pages.styles \subseteq {Key(pages)}
  /\ HandoffFor(pages) # None =>
       LET came == pages.arrived IN
         \/ pages.travel # None /\ pages.travel.to = pages.location
         \/ /\ came # None /\ came.value = HandoffFor(pages)
            /\ came.to = pages.location /\ came.admission = pages.admission

(* Under one admission a page that is left and visited again finds what it *)
(* had read (browser.tsx:168, :242).                                       *)
DataIsKept == pages'.live /\ pages'.admission = pages.admission
                => pages.cached \subseteq pages'.cached
=============================================================================
