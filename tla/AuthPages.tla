------------------------------ MODULE AuthPages ------------------------------
(***************************************************************************)
(* The Auth pages: the list of sessions read page by page, one session and *)
(* its revocation, the subjects, the consent an OAuth client asks for and  *)
(* the list of connected applications.  One page is open at a time; what   *)
(* it shows, and every call it has made, belong to its mount.  Calls are   *)
(* answered in any order, also after the page that made them is gone, and  *)
(* a write whose answer is lost may have happened or happen later.         *)
(* Sessions and connections are named by their place in the list, and kept *)
(* alike: a record with a revision, revoked or not.                        *)
(***************************************************************************)
EXTENDS Naturals, FiniteSets

CONSTANTS Count,        \* how many sessions, and how many connections, exist
          Requests,     \* the consent requests a client may have opened
          MaxRevision, MaxMounts,  \* bounds: changes, pages opened
          MaxCalls,     \* bound: calls under way at once
          None

CountAssumption == Count \in Nat \ {0}

VARIABLES records,   \* the sessions, or the connections, the Auth service keeps
          auth,      \* the open page
          calls      \* the calls under way

vars == <<records, auth, calls>>

Ids == 1..Count
Lists == {"sessions", "subjects", "applications"}
Subject(view) == CASE view \in Lists -> {None}
                   [] view = "session" -> Ids
                   [] view = "consent" -> Requests
Views == Lists \cup {"session", "consent"}
Reads == {"load", "more", "refresh"}
Writes == {"revoke", "approve", "deny", "disconnect"}

Fresh(view, id, mount) ==
  [view |-> view, id |-> id, mount |-> mount, load |-> "loading",
   seen |-> None, rows |-> 0, selected |-> {}, inspected |-> None,
   asked |-> None, outcome |-> "idle", query |-> FALSE, went |-> None]

Call(kind, id, revision) ==
  [kind |-> kind, id |-> id, revision |-> revision, mount |-> auth.mount,
   done |-> "no", lost |-> FALSE]

Send(kind, id, revision) ==
  /\ Cardinality(calls) < MaxCalls
  /\ calls' = calls \cup {Call(kind, id, revision)}

Init ==
  /\ records = [i \in Ids |-> [revision |-> 1, revoked |-> FALSE]]
  /\ \E view \in Views : \E id \in Subject(view) : auth = Fresh(view, id, 1)
  /\ calls = {Call("load", auth.id, None)}

(* Another page, another parameter or another identity: the effects start  *)
(* over under a new key or epoch, and ask for what the page shows.  Reads  *)
(* still under way are aborted.                                            *)
Open(view, id) ==
  /\ auth.mount < MaxMounts
  /\ auth' = Fresh(view, id, auth.mount + 1)
  /\ calls' = {c \in calls : c.kind \in Writes} \cup
       {[Call("load", id, None) EXCEPT !.mount = auth.mount + 1]}
  /\ UNCHANGED records

Page(view) == auth.view = view /\ auth.load = "ready"
Keep == UNCHANGED records
Show(fields) == auth' = [f \in DOMAIN auth |->
                           IF f \in DOMAIN fields THEN fields[f] ELSE auth[f]]

(* The session list: more rows, a selection, and one selected row opened.  *)
LoadMore ==
  /\ Page("sessions") /\ auth.outcome # "running" /\ auth.rows < Count
  /\ Show([outcome |-> "running"]) /\ Send("more", None, None) /\ Keep

Select(ids) ==
  /\ Page("sessions") /\ ids \subseteq 1..auth.rows
  /\ Show([selected |-> ids]) /\ UNCHANGED calls /\ Keep

Inspect(id) ==
  /\ Page("sessions") /\ auth.selected = {id}
  /\ Open("session", id)

(* Subjects and applications are narrowed to what matches the query; the   *)
(* applications' table is locked while one of them is open.                *)
Search ==
  /\ Page("subjects") \/ (Page("applications") /\ auth.inspected = None)
  /\ Show([query |-> ~auth.query]) /\ UNCHANGED calls /\ Keep

(* One session: the dialog keeps what was read when it was opened.         *)
AskRevoke ==
  /\ Page("session") /\ ~auth.seen.revoked
  /\ auth.outcome \notin {"running", "error", "revoked"}
  /\ Show([asked |-> [id |-> auth.id, revision |-> auth.seen.revision]])
  /\ UNCHANGED calls /\ Keep

Revoke ==
  /\ Page("session") /\ auth.asked # None
  /\ auth.asked.id = auth.id
  /\ auth.outcome \notin {"running", "error", "revoked"}
  /\ Show([outcome |-> "running"])
  /\ Send("revoke", auth.asked.id, auth.asked.revision) /\ Keep

(* What the page says of the revocation.                                   *)
Revocation ==
  IF auth.outcome = "error" THEN "unknown"
  ELSE IF auth.seen.revoked \/ auth.outcome = "revoked" THEN "revoked"
  ELSE "not revoked"

Cancel ==
  /\ auth.view = "session" /\ auth.asked # None /\ auth.outcome # "running"
  /\ Show([asked |-> None]) /\ UNCHANGED calls /\ Keep

Return ==
  /\ auth.view = "session" /\ auth.outcome # "running"
  /\ Open("sessions", None)

(* The consent page: the answer is given once at a time.                   *)
Decide(kind) ==
  /\ Page("consent") /\ auth.outcome # "running"
  /\ Show([outcome |-> "running"]) /\ Send(kind, auth.id, None) /\ Keep

(* Connected applications: one open in the drawer, its revocation asked in *)
(* a dialog over it; neither closes while the call is under way.           *)
InspectGrant(id) ==
  /\ Page("applications") /\ auth.inspected = None
  /\ Show([inspected |-> [id |-> id, revoked |-> auth.seen[id].revoked]])
  /\ UNCHANGED calls /\ Keep

CloseGrantAnyway ==
  /\ auth.inspected # None /\ auth.outcome # "running"
  /\ Show([inspected |-> None]) /\ UNCHANGED calls /\ Keep

CloseGrant ==
  /\ auth.inspected # None /\ auth.outcome # "running" /\ auth.asked = None
  /\ Show([inspected |-> None]) /\ UNCHANGED calls /\ Keep

AskDisconnect ==
  /\ Page("applications") /\ auth.inspected # None
  /\ ~auth.inspected.revoked
  /\ auth.outcome # "running" /\ auth.asked = None
  /\ Show([asked |-> [id |-> auth.inspected.id, revision |-> None]])
  /\ UNCHANGED calls /\ Keep

Disconnect ==
  /\ Page("applications") /\ auth.asked # None /\ auth.outcome # "running"
  /\ Show([outcome |-> "running"])
  /\ Send("disconnect", auth.asked.id, None) /\ Keep

CancelDisconnect ==
  /\ auth.view = "applications" /\ auth.asked # None
  /\ auth.outcome # "running"
  /\ Show([asked |-> None]) /\ UNCHANGED calls /\ Keep

(* The services: a revocation holds only at the revision it names.         *)
Revoked(r) ==
  IF r.revoked THEN r ELSE [revision |-> r.revision + 1, revoked |-> TRUE]

Perform(c) ==
  /\ c.kind \in Writes /\ c.done = "no"
  /\ LET s == records[c.id]
         result == IF c.kind # "revoke" THEN "changed"
                   ELSE IF s.revision # c.revision THEN "refused"
                   ELSE IF s.revoked THEN "unchanged" ELSE "changed"
     IN /\ calls' = (calls \ {c}) \cup {[c EXCEPT !.done = result]}
        /\ records' = IF result = "changed" /\ c.kind \in {"revoke", "disconnect"}
                      THEN [records EXCEPT ![c.id] = Revoked(@)] ELSE records
  /\ UNCHANGED auth

Elsewhere(id) ==
  /\ records[id].revision < MaxRevision
  /\ \/ records' = [records EXCEPT ![id].revision = @ + 1]
     \/ records' = [records EXCEPT ![id] = Revoked(@)]
  /\ UNCHANGED <<auth, calls>>

(* What an answer changes on the page that asked.                          *)
Loaded(c) ==
  CASE c.kind = "load" /\ auth.view = "sessions" ->
         [load |-> "ready", rows |-> 1, outcome |-> "idle"]
    [] c.kind = "load" /\ auth.view = "session" ->
         [load |-> "ready", seen |-> records[auth.id]]
    [] c.kind = "load" /\ auth.view = "applications" ->
         [load |-> "ready", seen |-> records]
    [] c.kind = "load" /\ auth.view \in {"subjects", "consent"} -> [load |-> "ready"]
    [] c.kind = "more" -> [rows |-> auth.rows + 1, outcome |-> "idle"]
    [] c.kind = "refresh" ->
         [seen |-> records, asked |-> None, outcome |-> "idle",
          inspected |-> [auth.inspected EXCEPT !.revoked = @ \/ records[auth.inspected.id].revoked]]

Told(c) ==
  CASE c.kind = "revoke" ->
         [outcome |-> IF c.done = "changed" THEN "revoked" ELSE "unchanged",
          asked |-> None]
    [] c.kind \in {"approve", "deny"} -> [outcome |-> "idle", went |-> c.id]
    [] c.kind = "disconnect" -> [went |-> None]

FailedQuietly(c) ==
  CASE c.kind = "load" -> [load |-> "error"]
    [] c.kind = "revoke" -> [outcome |-> "unchanged", asked |-> None]
    [] OTHER -> [outcome |-> "error"]

Failed(c) ==
  CASE c.kind = "load" -> [load |-> "error"]
    [] c.kind = "revoke" -> [outcome |-> "error", asked |-> None]
    [] OTHER -> [outcome |-> "error"]

HeardAnyway(c) == ~c.lost
Heard(c) == c.mount = auth.mount /\ ~c.lost

Update(c, fields) == IF Heard(c) THEN Show(fields) ELSE UNCHANGED auth

Answer(c) ==
  /\ IF c.kind \in Reads THEN Update(c, Loaded(c))
     ELSE c.done \in {"changed", "unchanged"} /\ Update(c, Told(c))
  /\ calls' = (calls \ {c}) \cup
       (IF c.kind = "disconnect" /\ Heard(c)
        THEN {Call("refresh", None, None)} ELSE {})
  /\ Keep

(* Refused, lost on the way there, lost on the way back, or late: a call   *)
(* that was not carried out yet may still be.                              *)
Fail(c) ==
  /\ Update(c, Failed(c))
  /\ \/ calls' = calls \ {c}
     \/ /\ c.kind \in Writes /\ c.done = "no" /\ ~c.lost
        /\ calls' = (calls \ {c}) \cup {[c EXCEPT !.lost = TRUE]}
  /\ Keep

Next ==
  \/ \E view \in Views : \E id \in Subject(view) : Open(view, id)
  \/ LoadMore \/ Search \/ AskRevoke \/ Revoke \/ Cancel \/ Return
  \/ CloseGrant \/ AskDisconnect \/ Disconnect \/ CancelDisconnect
  \/ \E ids \in SUBSET Ids : Select(ids)
  \/ \E id \in Ids : Inspect(id) \/ InspectGrant(id) \/ Elsewhere(id)
  \/ \E kind \in {"approve", "deny"} : Decide(kind)
  \/ \E c \in calls : Perform(c) \/ Answer(c) \/ Fail(c)

Spec == Init /\ [][Next]_vars

TypeOK ==
  /\ records \in [Ids -> [revision : Nat, revoked : BOOLEAN]]
  /\ auth.view \in Views /\ auth.id \in Subject(auth.view)
  /\ auth.load \in {"loading", "error", "ready"}
  /\ auth.outcome \in {"idle", "running", "revoked", "unchanged", "error"}
  /\ \A c \in calls : c.kind \in Reads \cup Writes

(* A dialog stands for what is open under it (pages.tsx:519, :709;         *)
(* oauth-react.tsx:217): the session the page is about, the connection in  *)
(* the drawer.  Nothing behind it changes it, whatever arrives meanwhile,  *)
(* only the rows read so far are selected (pages.tsx:182), and a session   *)
(* called revoked is revoked (pages.tsx:666).                              *)
AsksAboutWhatIsOpen ==
  /\ auth.asked # None =>
       \/ auth.view = "session" /\ auth.asked.id = auth.id
       \/ /\ auth.view = "applications" /\ auth.inspected # None
          /\ auth.asked.id = auth.inspected.id
  /\ auth.selected \subseteq 1..auth.rows
  /\ auth.view = "session" /\ auth.load = "ready" =>
       (Revocation = "revoked" => records[auth.id].revoked)
  /\ auth.outcome = "running" =>
       \E c \in calls : c.mount = auth.mount /\ c.kind # "load"

New == {c \in calls' \ calls : c.kind \in Writes /\ c.done = "no" /\ ~c.lost}

(* What a page sends is what it shows: a revocation names the session and  *)
(* the revision the person read, a disconnection the connection in the     *)
(* drawer, a decision the request on the page; and what comes back from    *)
(* another page's call takes nobody away (pages.tsx:530,                   *)
(* oauth-react.tsx:77).                                                    *)
ActsOnWhatIsShown ==
      /\ \A c \in New :
           /\ auth.load = "ready"
           /\ c.kind = "revoke" =>
                c.id = auth.id /\ c.revision = auth.seen.revision
           /\ c.kind \in {"approve", "deny"} => c.id = auth.id
           /\ c.kind = "disconnect" =>
                auth.inspected # None /\ c.id = auth.inspected.id
      /\ auth'.went # None => auth'.went = auth'.id

(* A session whose revocation could not be confirmed is not revoked again  *)
(* by the page that cannot tell, while the first may still take effect;    *)
(* and no page has two writes under way (pages.tsx:523,                    *)
(* oauth-react.tsx:63, :179).                                              *)
LooksBeforeRevoking ==
      \A c \in New, d \in calls :
        d.kind \in Writes /\ d.mount = c.mount =>
          d.lost /\ c.kind # "revoke"
=============================================================================
