----------------------------- MODULE ShellRoutes -----------------------------
(* What the Shell makes of an address: the page it shows, the way it says   *)
(* no, and the destinations it offers, all under the access of the person   *)
(* at that moment. A page that was left may still hold its navigation.      *)
EXTENDS FiniteSets, Naturals

CONSTANTS Pages,        \* routes of the model, its Settings page among them
          Index,        \* that page
          Groups,       \* sequence of page groups: [tabs, related (page |-> its tab)]
          Items,        \* navigation: [page, pages]
          SettingPages, \* pages that are entries of the Settings page
          Scopes,       \* people
          MaxHeld,      \* bound on the pages that were left
          None

VARIABLES session,      \* ConsoleSessionAdapter
          path,         \* the page whose pattern the address matches, if any
          mount,        \* the activation of the page that is shown
          held          \* activations of pages that were left

vars == <<session, path, mount, held>>

-----------------------------------------------------------------------------
States == {"loading", "ready", "authentication-required", "unavailable"}
Permitted(s) == s.state = "ready"
CanAccess(s, p) == p \in s.access
RouteAllowed(s, p) == Permitted(s) /\ p # None /\ CanAccess(s, p)

Status(s, p) ==
  IF ~Permitted(s) THEN s.state
  ELSE IF p = None THEN "not-found"
  ELSE IF ~RouteAllowed(s, p) THEN "forbidden" ELSE None

Reachable(pages) == IF Permitted(session) THEN {p \in pages : CanAccess(session, p)} ELSE {}

Navigation == Reachable({i.page : i \in Items})
Entries    == Reachable(SettingPages)

(* The first group that has the page among its tabs, or beside them.        *)
Having(p) == {i \in DOMAIN Groups : p \in Groups[i].tabs \cup DOMAIN Groups[i].related}
Group == IF RouteAllowed(session, path) /\ Having(path) # {}
         THEN Groups[CHOOSE i \in Having(path) : \A j \in Having(path) : i <= j].tabs
         ELSE {}
VisibleTabs == Reachable(Group)

(* The way back to the Settings page, from an entry or a tab beside it.     *)
SettingsReturn ==
  /\ RouteAllowed(session, Index)
  /\ \E entry \in Entries : entry = path \/ entry \in Group

PageNavigation == IF Cardinality(VisibleTabs) > 1 THEN VisibleTabs ELSE {}

Context ==
  IF SettingsReturn THEN IF PageNavigation # {} THEN "tabs" ELSE "object"
  ELSE IF PageNavigation # {} THEN "fallback"
  ELSE IF RouteAllowed(session, path) THEN "label" ELSE None

Offered ==
  Navigation \cup PageNavigation \cup (IF SettingsReturn THEN {Index} ELSE {})
    \cup (IF RouteAllowed(session, path) /\ path = Index THEN Entries ELSE {})

-----------------------------------------------------------------------------
(* A page is mounted for an address and a person; whatever ends that ends   *)
(* its activation.                                                          *)

SamePage(s, p)  == mount # None /\ mount.page = p
SameScope(s, p) == SamePage(s, p) /\ mount.scope = s.scope

Activation(s, p) ==
  IF Status(s, p) # None THEN None
  ELSE IF SameScope(s, p) THEN mount
  ELSE [page |-> p, scope |-> s.scope, key |-> Cardinality(held) + 1]

Render(s, p) ==
  /\ session' = s /\ path' = p /\ mount' = Activation(s, p)
  /\ held' = held \cup ({mount} \ {None, Activation(s, p)})
  /\ Cardinality(held') <= MaxHeld

Init ==
  /\ \E scope \in Scopes : session = [state |-> "loading", access |-> {}, scope |-> scope]
  /\ path \in Pages \cup {None} /\ mount = None /\ held = {}

Follow(p) == p \in Offered /\ p # path /\ Render(session, p)
Type(p)   == p # path /\ Render(session, p)

(* navigation.go of a page, or an entry pressed on the Settings page.       *)
IsCurrent(a) == a = mount
Go(a, p) == IsCurrent(a) /\ p # path /\ Render(session, p)

SessionChanges(state) == state # session.state /\ Render([session EXCEPT !.state = state], path)
AccessChanges(p) ==
  Render([session EXCEPT !.access = IF p \in @ THEN @ \ {p} ELSE @ \cup {p}], path)
ScopeChanges(scope)   == scope # session.scope /\ Render([session EXCEPT !.scope = scope], path)

Next ==
  \/ \E p \in Pages : Follow(p)
  \/ \E p \in Pages \cup {None} : Type(p)
  \/ \E a \in held \cup ({mount} \ {None}), p \in Pages : Go(a, p)
  \/ \E state \in States : SessionChanges(state)
  \/ \E p \in Pages : AccessChanges(p)
  \/ \E scope \in Scopes : ScopeChanges(scope)

Spec == Init /\ [][Next]_vars

-----------------------------------------------------------------------------
(* A page is mounted for who is there now and the address there is now, and *)
(* for nobody it is closed to; and whatever the Shell offers opens, because *)
(* the lists and the page ask the same question: navigation, tabs, Settings *)
(* and the way back (console-shell.tsx:455-470, :485-507, :527-601, :875).  *)
NothingOfferedIsClosed ==
  /\ mount # None => /\ mount.page = path /\ mount.scope = session.scope
                     /\ Permitted(session) /\ CanAccess(session, path)
  /\ \A p \in Offered : Status(session, p) = None
  /\ Context \in {"tabs", "object", "fallback", "label"} => mount # None

(* A page that was left, and one that is left and opened again, is another  *)
(* activation: what it still holds moves nobody (console-shell.tsx:211-219, *)
(* console-settings.tsx:186-199).                                           *)
LeftPagesMoveNobody ==    \A a \in held, p \in Pages : ~Go(a, p)
=============================================================================
