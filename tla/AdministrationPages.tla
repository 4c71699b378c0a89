------------------------- MODULE AdministrationPages -------------------------
(* The administration pages in the browser: directory, access and agent     *)
(* tokens. Every page hangs below one read of the operator's permissions    *)
(* (Frame) and rebuilds when they change; it shows the rows of one scoped   *)
(* read, and asks for one write at a time through useWrites: confirm, send, *)
(* reread. A write the page cannot account for blocks the page until it has *)
(* been reloaded. Reads answer late and in any order with what the server   *)
(* then holds; a request may be applied although its answer is lost.        *)
EXTENDS Naturals

CONSTANTS MaxRevision,   \* bound on the server's writes
          None

VARIABLES directory,     \* the server: its revision, the operator's rights
          desk           \* the page the operator is looking at

vars == <<directory, desk>>

Routes == {"identity", "access", "agent"}
Writes ==                \* where each write is asked for
  [membersSet |-> {"add", "member"}, membersPromote |-> {"add", "member"},
   membersRevoke |-> {"member"}, rolesCreate |-> {"creator"},
   rolesSave |-> {"role"}, usersDisable |-> {"user"},
   sessionsRevoke |-> {"user"}, tokensIssue |-> {"issue"},
   tokensRotate |-> {"token"}, tokensRevoke |-> {"token"}]
Surfaces == [identity |-> {"user"}, access |-> {"add", "member", "creator", "role"},
             agent |-> {"issue", "token", "event"}]
Delivers == {"tokensIssue", "tokensRotate"}

Rows    == 0..MaxRevision \cup {None}
Request == [kind : DOMAIN Writes, seen : Rows, expected : Rows,
            at : {"server", "applied", "refused"}]

TypeOK ==
  /\ directory \in [revision : 0..MaxRevision, rights : {"full", "read"},
                    orphan : Request \cup {None}]
  /\ desk.route \in Routes /\ desk.run \in {"idle", "sent", "settling", "reloading"}
  /\ desk.rows.data \in Rows /\ desk.asking \in Request \cup {None}
  /\ desk.sent \in Request \cup {None}
  /\ desk.open \in Surfaces[desk.route] \cup {None}
  /\ desk.doubt \in {"none", "here", "left"}

-----------------------------------------------------------------------------
(* Reads. What a read shows while it is first asked for, answered, failed.  *)

Asked(r)       == [r EXCEPT !.busy = TRUE]
Answered(r, v) == [data |-> v, busy |-> FALSE, failed |-> FALSE]
Failed(r)      == [r EXCEPT !.busy = FALSE, !.failed = TRUE]
Denied(r)      == [data |-> None, busy |-> FALSE, failed |-> TRUE]
Unread         == [data |-> None, busy |-> TRUE, failed |-> FALSE]

Shown(r) == r.data # None /\ ~r.failed     \* ReadState renders its children

(* A page as it is first rendered. The rows may come from the cache. Only   *)
(* the history, doubt, is no state of the page: it says whether a write the *)
(* operator sent is unaccounted for, here or on a page that has gone.       *)
Fresh(route, info, rows, query, doubt) ==
  [route |-> route, info |-> info, rows |-> rows, query |-> query,
   open |-> None, base |-> None, created |-> FALSE, asking |-> None,
   sent |-> None, run |-> "idle", filled |-> FALSE, blocked |-> FALSE, delivery |-> None,
   ready |-> FALSE, doubt |-> doubt]

(* The directory page takes its query from the address; a malformed one is  *)
(* the empty query.                                                         *)
DirectoryLocation(route) == IF route = "identity" THEN {"first", "next"} ELSE {"first"}

Init ==
  /\ directory = [revision |-> 0, rights |-> "full", orphan |-> None]
  /\ \E route \in Routes : \E q \in DirectoryLocation(route) :
       desk = Fresh(route, Unread, Unread, q, "none")

-----------------------------------------------------------------------------
(* useWrites.                                                               *)

Pending  == desk.run # "idle"
Disabled == Pending \/ desk.blocked \/ desk.asking # None
Allowed(action) == Shown(desk.info) /\ desk.info.data = "full"

(* The controls of useWrites are drawn in the open surface, or on the page; *)
(* the surfaces of the access page hang below its rows.                     *)
Controls ==
  /\ Shown(desk.info)
  /\ desk.route = "access" /\ desk.open # None => Shown(desk.rows)

Confirm(request) ==
  /\ ~Disabled
  /\ desk' = [desk EXCEPT !.asking = request]
  /\ UNCHANGED directory

Cancel ==
  /\ Controls /\ desk.asking # None /\ ~Pending
  /\ desk' = [desk EXCEPT !.asking = None, !.ready = TRUE]
  /\ UNCHANGED directory

(* deliver clears the delivery before it asks for the next credential.      *)
Execute ==
  /\ Controls /\ ~Pending /\ ~desk.blocked /\ desk.asking # None
  /\ desk' = [desk EXCEPT !.run = "sent", !.sent = desk.asking,
                          !.ready = @ /\ desk.asking.kind \notin Delivers,
                          !.delivery = IF desk.asking.kind \in Delivers
                                       THEN None ELSE @]
  /\ UNCHANGED directory

Invalidated == [desk EXCEPT !.info = Asked(@), !.rows = Asked(@)]

Succeeds ==
  /\ desk.run = "sent" /\ desk.sent.at = "applied"
  /\ desk' = [Invalidated EXCEPT !.run = "settling", !.sent = None,
                !.created  = @ \/ desk.sent.kind = "rolesCreate",
                !.delivery = IF desk.sent.kind \in Delivers THEN "secret" ELSE @]
  /\ UNCHANGED directory

(* The server names the fields it refused: nothing was applied.             *)
Invalid ==
  /\ desk.run = "sent" /\ desk.sent.at = "refused"
  /\ desk' = [desk EXCEPT !.run = "idle", !.sent = None, !.asking = None,
                          !.ready = TRUE]
  /\ UNCHANGED directory

FailsUnblocked ==        \* mutant: the page stays writable once it has reread
  /\ desk.run = "sent"
  /\ desk' = [Invalidated EXCEPT !.run = "settling", !.sent = None, !.doubt = "here"]
  /\ directory' = [directory EXCEPT
       !.orphan = IF @ = None /\ desk.sent.at = "server" THEN desk.sent ELSE @]

(* Any other error: a conflict, or an answer that never came.               *)
Fails ==
  /\ desk.run = "sent"
  /\ desk' = [Invalidated EXCEPT !.run = "settling", !.sent = None,
                                 !.blocked = TRUE, !.doubt = "here"]
  /\ directory' = [directory EXCEPT
       !.orphan = IF @ = None /\ desk.sent.at = "server" THEN desk.sent ELSE @]

Settle ==
  /\ desk.run = "settling" /\ ~desk.info.busy /\ ~desk.rows.busy
  /\ desk' = [desk EXCEPT !.run = "idle", !.asking = None, !.ready = TRUE]
  /\ UNCHANGED directory

Reload ==
  /\ Controls /\ desk.blocked /\ ~Pending
  /\ desk' = [Invalidated EXCEPT !.run = "reloading"]
  /\ UNCHANGED directory

ReloadEnds ==
  /\ desk.run = "reloading" /\ ~desk.info.busy /\ ~desk.rows.busy
  /\ desk' = IF desk.rows.failed THEN [desk EXCEPT !.run = "idle"]
             ELSE [desk EXCEPT !.run = "idle", !.blocked = FALSE, !.query = "first"]
  /\ UNCHANGED directory

-----------------------------------------------------------------------------
(* What the operator does on the pages.                                     *)

(* The surfaces of the access page and the detail of an identity hang below *)
(* their rows; a token's drawer needs the token, though stale.              *)
Drawn(surface) ==
  CASE surface \in {"issue", "event"} -> TRUE
    [] surface = "token" -> desk.rows.data # None
    [] OTHER -> Shown(desk.rows)

Opened(surface) ==
  [desk EXCEPT !.open = surface, !.created = FALSE,
               !.base = IF surface = "role" THEN desk.rows.data ELSE None,
               !.filled = surface \in {"member", "user", "issue", "token"}]

Open(surface) ==
  /\ Shown(desk.info) /\ desk.open = None /\ desk.asking = None
  /\ surface \in Surfaces[desk.route] /\ Drawn(surface)
  /\ UNCHANGED directory

OpenMember ==
  \/ Open("add") /\ Allowed("members.write") /\ ~Disabled /\ desk' = Opened("add")
  \/ Open("member") /\ ~Pending /\ desk' = Opened("member")

OpenRole ==
  \/ /\ Open("creator") /\ Allowed("roles.write") /\ ~Disabled
     /\ \E kept \in BOOLEAN :              \* an earlier draft is still there
          desk' = [Opened("creator") EXCEPT !.filled = kept]
  \/ Open("role") /\ ~Pending /\ desk' = Opened("role")

OpenIssue ==
  /\ Open("issue") /\ Allowed("tokens.issue") /\ ~Disabled /\ desk.delivery = None
  /\ desk' = Opened("issue")

OpenToken == Open("token") /\ desk' = Opened("token")
OpenEvent == Open("event") /\ desk' = Opened("event")

(* A page that goes takes its block and what it was waiting for with it.    *)
Left == IF desk.doubt # "none" \/ desk.run = "sent" THEN "left" ELSE "none"

(* The detail of an identity is a page of its own, below the same Frame.    *)
OpenIdentity ==
  /\ Open("user")
  /\ desk' = [Fresh("identity", desk.info, Unread, desk.query, Left) EXCEPT
                 !.open = "user", !.filled = TRUE]

(* What the forms still need, or what has been changed in them.             *)
Form(surface, filled) ==
  /\ desk.open = surface /\ Drawn(surface) /\ Shown(desk.info)
  /\ desk.filled # filled
  /\ desk' = [desk EXCEPT !.filled = filled]
  /\ UNCHANGED directory

PickIdentity      == Form("add", TRUE)
DescribeRole      == desk.asking = None /\ ~Disabled /\ Form("creator", TRUE)
ChangePermissions == ~Disabled /\ \E changed \in BOOLEAN : Form("role", changed)
ChooseScopes      == ~Disabled /\ \E some \in BOOLEAN : Form("issue", some)

(* The surfaces stay open while a write is asked for or under way, and      *)
(* those of a token while its credential is on display.                     *)
Close ==
  /\ desk.open \notin {None, "user"} /\ Shown(desk.info)
  /\ desk.open # "event" => desk.asking = None /\ ~Pending
  /\ desk.open \in {"issue", "token"} => desk.delivery = None
  /\ desk' = [desk EXCEPT !.open = None, !.base = None, !.created = FALSE,
                          !.filled = FALSE]
  /\ UNCHANGED directory

(* RoleCreator closes itself once its role has been created.                *)
CreatorCloses ==
  /\ desk.open = "creator" /\ desk.created /\ Shown(desk.info)
  /\ Shown(desk.rows) /\ ~Disabled
  /\ desk' = [desk EXCEPT !.open = None, !.created = FALSE, !.filled = FALSE]
  /\ UNCHANGED directory

(* A write is asked for on what the page shows and carries that revision;   *)
(* a role's permissions are edited from the revision its editor was keyed   *)
(* to; a new token has no earlier revision.                                 *)
Wanted(kind) ==
  [kind |-> kind, at |-> "server",
   seen     |-> IF kind = "rolesSave" THEN desk.base ELSE desk.rows.data,
   expected |-> IF kind = "tokensIssue" THEN None ELSE desk.rows.data]

AskFor(kind) ==
  /\ desk.open \in Writes[kind] /\ Drawn(desk.open) /\ desk.filled
  /\ Allowed(kind)
  /\ Confirm(Wanted(kind))

AskMembership ==
  /\ ~desk.rows.busy
  /\ \E kind \in {"membersSet", "membersPromote"} : AskFor(kind)
AskRemoval == ~desk.rows.busy /\ AskFor("membersRevoke")
AskDisable == ~desk.rows.busy /\ AskFor("usersDisable")
AskSession == ~desk.rows.busy /\ AskFor("sessionsRevoke")
AskSave    == AskFor("rolesSave")
AskCreate  == ~desk.created /\ AskFor("rolesCreate")
AskIssue   == desk.delivery = None /\ AskFor("tokensIssue")

AskToken ==
  /\ ~desk.rows.busy /\ desk.delivery = None
  /\ \E kind \in {"tokensRotate", "tokensRevoke"} : AskFor(kind)

DismissCredential ==
  /\ desk.delivery # None /\ ~Pending /\ desk.ready /\ Shown(desk.info)
  /\ desk' = [desk EXCEPT !.delivery = None,
                          !.open = IF @ = "issue" THEN None ELSE @]
  /\ UNCHANGED directory

(* Another page of rows, a search or a filter: another read. A search or a  *)
(* filter begins on the first page.                                         *)
Turn(query) ==
  /\ Shown(desk.info) /\ desk.asking = None
  /\ desk' = [desk EXCEPT !.query = query, !.rows = Unread]
  /\ UNCHANGED directory

SearchDirectory == desk.route = "identity" /\ desk.open = None /\ Turn("first")
NextIdentities ==
  /\ desk.route = "identity" /\ desk.open = None
  /\ Shown(desk.rows) /\ ~desk.rows.busy /\ Turn("next")
NextSessions == desk.open = "user" /\ Shown(desk.rows) /\ Turn("next")
NextTokens   == desk.route = "agent" /\ desk.open = None /\ Shown(desk.rows) /\ Turn("next")

Refetch ==
  \/ /\ desk.info.failed /\ ~desk.info.busy
     /\ desk' = [desk EXCEPT !.info = Asked(@)]
     /\ UNCHANGED directory
  \/ /\ Shown(desk.info) /\ desk.rows.failed /\ ~desk.rows.busy
     /\ desk' = [desk EXCEPT !.rows = Asked(@)]
     /\ UNCHANGED directory

-----------------------------------------------------------------------------
(* Answers to the reads. RoleEditor is keyed by the revision it edits;      *)
(* RoleCreator and RoleEditor go with the rows they hang below. Rows the    *)
(* operator asked to reload settle a doubt; on another page, any rows do.   *)

Looked(d, rows) == Shown(rows) /\ (d.run = "reloading" \/ d.doubt = "left")

Rekey(d, rows) ==
  [d EXCEPT !.rows = rows,
            !.base    = IF d.open = "role" THEN rows.data ELSE None,
            !.created = @ /\ Shown(rows),
            !.filled  = IF d.open = "role" THEN @ /\ rows.data = d.base
                        ELSE @ /\ (d.open = "creator" => Shown(rows)),
            !.doubt   = IF Looked(d, rows) THEN "none" ELSE @]

RowsAnswer ==
  /\ desk.rows.busy /\ Shown(desk.info)
  /\ \E rows \in {Answered(desk.rows, directory.revision), Failed(desk.rows),
                  Denied(desk.rows)} :
       desk' = Rekey(desk, rows)
  /\ UNCHANGED directory

(* Frame is keyed by the permissions: other permissions, or none, rebuild   *)
(* the page. What its predecessor sent may still arrive.                    *)
Rebuilt(info) ==
  Fresh(desk.route, info, IF desk.rows.data = None THEN Unread ELSE Asked(desk.rows),
        "first", Left)

Abandoned ==
  IF desk.run = "sent" /\ desk.sent.at = "server" THEN desk.sent ELSE directory.orphan

InfoAnswers ==
  /\ desk.info.busy
  /\ \E info \in {Answered(desk.info, directory.rights), Failed(desk.info)} :
       /\ desk' = IF Shown(info) /\ Shown(desk.info) /\ info.data = desk.info.data
                  THEN [desk EXCEPT !.info = info] ELSE Rebuilt(info)
       /\ directory' = [directory EXCEPT
            !.orphan = IF desk'.sent = None THEN Abandoned ELSE @]

(* Another page, or from an identity back to the directory: the page goes   *)
(* with its block and its confirmation, whatever it has under way.          *)
Leave ==
  /\ desk.asking = None \/ desk.run # "idle"
  /\ \/ \E route \in Routes \ {desk.route} :
            desk' = Fresh(route, Asked(desk.info), Unread, "first", Left)
     \/ /\ desk.open = "user"
        /\ desk' = Fresh(desk.route, desk.info, Unread, desk.query, Left)
  /\ directory' = [directory EXCEPT !.orphan = Abandoned]

-----------------------------------------------------------------------------
(* The server checks the revision a write expects.                          *)

Current(request) == request.expected \in {None, directory.revision}

ServerTakes ==
  \/ /\ desk.run = "sent" /\ desk.sent.at = "server"
     /\ \/ /\ Current(desk.sent) /\ directory.revision < MaxRevision
           /\ directory' = [directory EXCEPT !.revision = @ + 1]
           /\ desk' = [desk EXCEPT !.sent.at = "applied"]
        \/ /\ desk' = [desk EXCEPT !.sent.at = "refused"]
           /\ UNCHANGED directory
  \/ /\ directory.orphan # None
     /\ directory' = [directory EXCEPT !.orphan = None,
          !.revision = IF Current(directory.orphan) /\ @ < MaxRevision THEN @ + 1 ELSE @]
     /\ UNCHANGED desk

OthersWrite ==
  /\ directory.revision < MaxRevision
  /\ \E rights \in {"full", "read"} :
       directory' = [directory EXCEPT !.revision = @ + 1, !.rights = rights]
  /\ UNCHANGED desk

Answers == RowsAnswer \/ InfoAnswers \/ Succeeds \/ Invalid \/ Fails

Next ==
  \/ OpenMember \/ OpenRole \/ OpenIssue \/ OpenToken \/ OpenEvent \/ OpenIdentity
  \/ PickIdentity \/ DescribeRole \/ ChangePermissions \/ ChooseScopes
  \/ AskMembership \/ AskRemoval \/ AskDisable \/ AskSession \/ AskSave
  \/ AskCreate \/ AskIssue \/ AskToken
  \/ Cancel \/ Execute \/ Settle \/ Reload \/ ReloadEnds
  \/ SearchDirectory \/ NextIdentities \/ NextSessions \/ NextTokens
  \/ Close \/ CreatorCloses \/ DismissCredential \/ Refetch \/ Leave
  \/ Answers \/ ServerTakes \/ OthersWrite

Spec == Init /\ [][Next]_vars

-----------------------------------------------------------------------------
(* A write is applied only while the server holds what the operator saw     *)
(* when asking for it, except a new token, which replaces nothing: a draft  *)
(* or a confirmation that outlives a reread is refused, never passed off    *)
(* as a decision on the newer state.                                        *)
DecidedOnWhatIs ==
     desk.run = "sent" /\ desk.sent.at = "server"
     /\ desk'.run = "sent" /\ desk'.sent.at = "applied"
       => \/ desk.sent.kind = "tokensIssue"
          \/ desk.sent.seen + 1 = directory'.revision

(* After a write whose outcome the page does not know the page sends no     *)
(* other until the operator has asked for a reload and its rows have        *)
(* arrived. The block is the page's own: it goes with the page, when the    *)
(* operator leaves it or its permissions, read again, fail or have changed, *)
(* and no reload need be asked for then (the comment on useWrites says it   *)
(* must). What still holds is that memberships, identities and sessions are *)
(* written to only after rows read since then have been shown; a role is    *)
(* saved from, and a token issued, rotated or revoked beside, older ones.   *)
FromOlderRows == {"rolesCreate", "rolesSave", "tokensIssue", "tokensRotate", "tokensRevoke"}

LooksBeforeRepeating ==
     desk.run # "sent" /\ desk'.run = "sent"
       => /\ desk.doubt # "here"
          /\ desk.doubt = "left" => desk.asking.kind \in FromOlderRows

(* A credential, shown only once, is replaced by no other: it goes when the *)
(* operator dismisses it on display, or with the page.                      *)
CredentialIsSeen ==
     desk.delivery # None /\ desk'.delivery # desk.delivery
       => \/ desk.ready /\ desk.run = "idle" /\ desk'.run = "idle"
          \/ desk'.info # desk.info \/ desk'.route # desk.route
=============================================================================
