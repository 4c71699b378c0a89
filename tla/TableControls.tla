---------------------------- MODULE TableControls ----------------------------
(* The controls of a page's tables, in two parts.                           *)
(* The filter editor of a table: the page owns the filter that is applied;  *)
(* the editor works on a draft, a tree of groups and conditions, and hands  *)
(* it over only when every condition of it is complete. A tree is a         *)
(* function from node ids to nodes, 0 being its root.                       *)
(* Which table has the controls in the corners of the page: there may be    *)
(* several tables; scrolling, the focus, an explicit choice and whatever is *)
(* open decide together, one animation frame at a time, and a change that   *)
(* nobody asked for has to last a while before it is carried out. Anything  *)
(* that changes on the page may ask for another frame.                      *)
EXTENDS Naturals, FiniteSets

CONSTANTS MaxNodes,      \* consoleFilterLimits.nodes
          MaxDepth,      \* consoleFilterLimits.depth
          Embedded,      \* the tables inside the page's own
          None

VARIABLES filters,       \* the applied filter and the editor's draft of it
          host           \* ConsoleTableHost and what is open on the page

Fields == {"state", "total"}     \* an enum with options, and a number
Ids    == 0..MaxNodes

IsGroup(node) == node.is = "group"
Group(up)     == [is |-> "group", up |-> up, any |-> FALSE]
Nothing       == [id \in {0} |-> Group(None)]

(* createConsoleFilterCondition: an enum starts at its first option, any    *)
(* other field is empty. good holds the bounds that are well formed.        *)
Condition(field, up) ==
  [is |-> field, up |-> up, between |-> FALSE,
   good |-> IF field = "state" THEN {0} ELSE {}]

Operators(field) == IF field = "state" THEN {FALSE} ELSE {FALSE, TRUE}

ValidCondition(node) ==
  /\ node.between \in Operators(node.is)
  /\ IF node.between THEN node.good = {0, 1} ELSE 0 \in node.good

Children(tree, id) == {n \in DOMAIN tree \ {0} : tree[n].up = id}
Conditions(tree)   == {n \in DOMAIN tree : ~IsGroup(tree[n])}

Depth(tree) ==
  LET depth[n \in DOMAIN tree] ==
        IF n = 0 THEN 1 ELSE depth[tree[n].up] + IF IsGroup(tree[n]) THEN 1 ELSE 0
  IN  depth

Within(tree, id) ==      \* the node and everything below it
  LET under[n \in DOMAIN tree] == n = id \/ (n # 0 /\ under[tree[n].up])
  IN  {n \in DOMAIN tree : under[n]}

Keep(tree, ids) == [n \in ids |-> tree[n]]

Validates(tree) ==
  /\ Cardinality(DOMAIN tree) <= MaxNodes
  /\ \A n \in DOMAIN tree : Depth(tree)[n] <= MaxDepth
  /\ \A n \in Conditions(tree) : ValidCondition(tree[n])

-----------------------------------------------------------------------------
(* What a filter says of a row whose conditions hold as match tells.        *)

HasConditions(tree, id) == Within(tree, id) \cap Conditions(tree) # {}

EvaluateAll(tree, match) ==   \* mutant: empty groups take part
  LET says[n \in DOMAIN tree] ==
        IF ~IsGroup(tree[n]) THEN match[n]
        ELSE LET asked == Children(tree, n)
             IN  IF tree[n].any THEN asked = {} \/ \E c \in asked : says[c]
                                ELSE \A c \in asked : says[c]
  IN  says[0]

Evaluate(tree, match) ==
  LET says[n \in DOMAIN tree] ==
        IF ~IsGroup(tree[n]) THEN match[n]
        ELSE LET asked == {c \in Children(tree, n) : HasConditions(tree, c)}
             IN  IF tree[n].any THEN asked = {} \/ \E c \in asked : says[c]
                                ELSE \A c \in asked : says[c]
  IN  says[0]

(* The label of the closed editor: a lone condition, or how many there are. *)
Summary(tree) ==
  LET lone == Children(tree, 0) \cap Conditions(tree)
  IN  IF Conditions(tree) = {} THEN "filters"
      ELSE IF \E n \in lone : Children(tree, 0) = {n} /\ ValidCondition(tree[n])
           THEN "condition" ELSE "custom"

-----------------------------------------------------------------------------
FiltersInit ==
  \E grouping \in BOOLEAN :
    filters = [applied |-> Nothing, draft |-> Nothing, open |-> FALSE, error |-> FALSE,
               attempted |-> FALSE, editing |-> {}, grouping |-> grouping]

Open ==
  /\ ~filters.open
  /\ filters' = [filters EXCEPT !.open = TRUE, !.draft = filters.applied,
                   !.error = FALSE, !.attempted = FALSE, !.editing = {}]

(* Cancel, the cross, Escape or a press outside: the draft is forgotten.    *)
Close ==
  /\ filters.open
  /\ filters' = [filters EXCEPT !.open = FALSE, !.editing = {}, !.draft = Nothing]

(* After a failed attempt every group unfolds its first unfinished          *)
(* condition, also when what was unfinished has just been completed.        *)
FirstInvalid(tree, id) ==
  LET wrong == {n \in Children(tree, id) \cap Conditions(tree) : ~ValidCondition(tree[n])}
  IN  {n \in wrong : \A m \in wrong : n <= m}

Unfolded(before, tree, editing) ==
  UNION {LET shown == editing \cap Children(tree, g)
             now   == FirstInvalid(tree, g)
         IN  IF now # {} /\ (g \notin DOMAIN before \/ now # FirstInvalid(before, g))
             THEN now ELSE shown
         : g \in DOMAIN tree \ Conditions(tree)}

Drafted(tree, editing) ==
  [filters EXCEPT !.draft = tree, !.error = FALSE,
     !.editing = IF filters.attempted THEN Unfolded(filters.draft, tree, editing)
                 ELSE editing]

Groups      == DOMAIN filters.draft \ Conditions(filters.draft)
CanAdd      == Cardinality(DOMAIN filters.draft) < MaxNodes
CanAddIn(g) == CanAdd /\ filters.editing \cap Children(filters.draft, g) = {}
FreshId     == CHOOSE n \in Ids \ DOMAIN filters.draft :
                 \A m \in Ids \ DOMAIN filters.draft : n <= m
With(id, node) ==
  [n \in DOMAIN filters.draft \cup {id} |-> IF n = id THEN node ELSE filters.draft[n]]

(* Without groups a field has one condition: choosing it again edits that.  *)
AddCondition(g, field) ==
  /\ filters.open /\ g \in Groups /\ CanAddIn(g)
  /\ LET same == {n \in Children(filters.draft, g) \cap Conditions(filters.draft) :
                    ~filters.grouping /\ filters.draft[n].is = field}
     IN  filters' = IF same # {}
                    THEN [filters EXCEPT !.editing = @ \cup same]
                    ELSE Drafted(With(FreshId, Condition(field, g)),
                                 filters.editing \cup {FreshId})

AddGroup(g) ==
  /\ filters.open /\ filters.grouping /\ g \in Groups /\ CanAddIn(g)
  /\ Depth(filters.draft)[g] < MaxDepth
  /\ filters' = Drafted(With(FreshId, Group(g)), filters.editing)

ChangeLogic(g) ==
  /\ filters.open /\ filters.grouping /\ g \in Groups
  /\ filters' = Drafted([filters.draft EXCEPT ![g].any = ~@], filters.editing)

(* A group shows one condition unfolded.                                    *)
Edit(n) ==
  /\ filters.open /\ n \in Conditions(filters.draft) \ filters.editing
  /\ filters' = [filters EXCEPT !.editing =
                   (@ \ Children(filters.draft, filters.draft[n].up)) \cup {n}]

Collapse(n) ==
  /\ filters.open /\ n \in filters.editing
  /\ filters' = [filters EXCEPT !.editing = @ \ {n}]

Change(n, node) ==
  /\ filters.open
  /\ filters' = Drafted([filters.draft EXCEPT ![n] = node], filters.editing)

ChangeAnyField(n) ==     \* mutant: the fields of its neighbours are offered
  \E field \in Fields : Change(n, Condition(field, filters.draft[n].up))

(* Without groups the fields its neighbours have are not offered.           *)
ChangeField(n) ==
  \E field \in Fields :
    /\ filters.grouping \/ \A peer \in Children(filters.draft, filters.draft[n].up) \ {n} :
                              filters.draft[peer].is # field
    /\ Change(n, Condition(field, filters.draft[n].up))

(* Between keeps the value as its lower bound; leaving it keeps that one.   *)
ChangeOperator(n) ==
  \E between \in Operators(filters.draft[n].is) :
    Change(n, [filters.draft[n] EXCEPT !.between = between,
                 !.good = IF between /\ filters.draft[n].between THEN @ ELSE @ \cap {0}])

ChangeValue(n) ==
  \E bound \in IF filters.draft[n].between THEN {0, 1} ELSE {0} :
    \/ Change(n, [filters.draft[n] EXCEPT !.good = @ \cup {bound}])
    \/ Change(n, [filters.draft[n] EXCEPT !.good = @ \ {bound}])

Remove(n) ==
  /\ filters.open /\ n # 0
  /\ LET gone == Within(filters.draft, n)
     IN  filters' = Drafted(Keep(filters.draft, DOMAIN filters.draft \ gone),
                     (filters.editing \ gone) \ Children(filters.draft, filters.draft[n].up))

Clear ==
  /\ filters.open /\ Children(filters.draft, 0) # {}
  /\ filters' = [filters EXCEPT !.draft = Nothing, !.attempted = FALSE,
                                !.error = FALSE, !.editing = {}]

Apply ==
  /\ filters.open
  /\ filters' =
       IF Validates(filters.draft)
       THEN [filters EXCEPT !.applied = filters.draft, !.open = FALSE, !.error = FALSE,
                            !.editing = {}, !.draft = Nothing]
       ELSE [filters EXCEPT !.error = TRUE, !.attempted = TRUE,
               !.editing = UNION {LET wrong == FirstInvalid(filters.draft, g)
                                  IN  IF wrong # {} THEN wrong
                                      ELSE @ \cap Children(filters.draft, g) : g \in Groups}]

(* The page resets its filter, whatever the editor is doing.                *)
OwnerResets == filters' = [filters EXCEPT !.applied = Nothing]

FiltersNext ==
  \/ Open \/ Close \/ Clear \/ Apply \/ OwnerResets
  \/ \E g \in Groups : AddGroup(g) \/ ChangeLogic(g) \/ \E f \in Fields : AddCondition(g, f)
  \/ \E n \in Conditions(filters.draft) : Edit(n) \/ Collapse(n)
  \/ \E n \in filters.editing : ChangeField(n) \/ ChangeOperator(n) \/ ChangeValue(n)
  \/ \E n \in DOMAIN filters.draft : Remove(n)

-----------------------------------------------------------------------------
(* The editor never builds a draft its own limits would refuse, nor, without*)
(* groups, two conditions on one field; and a group that holds no condition *)
(* says nothing, however deep it is: the applied filter passes the rows it  *)
(* would pass without it.                                                   *)
FiltersAreSound ==
  /\ Validates(filters.applied)
  /\ Cardinality(DOMAIN filters.draft) <= MaxNodes
  /\ \A n \in DOMAIN filters.draft : Depth(filters.draft)[n] <= MaxDepth
  /\ filters.grouping \/ \A m, n \in Conditions(filters.draft) :
                            filters.draft[m].is = filters.draft[n].is => m = n
  /\ LET tree   == filters.applied
         pruned == Keep(tree, {n \in DOMAIN tree : n = 0 \/ HasConditions(tree, n)})
     IN  \A match \in [Conditions(tree) -> BOOLEAN] :
           Evaluate(tree, match) = EvaluateAll(pruned, match)

-----------------------------------------------------------------------------
(* Which table has the controls.                                            *)
Tables   == {"page"} \cup Embedded
Scrolls  == {"top"} \cup Embedded           \* the table scrolled to
Overlays == {"none", "filters", "menu", "dialog"}
Gone     == "gone"       \* the id of a table whose scope has changed

HostInit ==
  host = [entries |-> {}, active |-> None, explicit |-> None, locked |-> None,
          pending |-> "unset", waited |-> FALSE, focus |-> "body", scroll |-> "top",
          pressed |-> FALSE, overlay |-> "none", search |-> FALSE]

-----------------------------------------------------------------------------
(* viewportCoverage: 2 is enough to gain the controls, 1 to keep them.      *)
Coverage(t) ==
  CASE t = host.scroll -> 2
    [] host.scroll \notin {t, "top"} -> 1
    [] OTHER -> 0

Incumbent == host.active \in host.entries
Page      == IF "page" \in host.entries THEN "page" ELSE None

(* A table is locked while its page says so or its own menu is open.        *)
Held ==
  Incumbent /\ \/ host.overlay # "none" \/ host.pressed
               \/ host.locked = host.active

ByPosition ==
  LET eligible == {t \in host.entries \cap Embedded : Coverage(t) = 2}
  IN  IF Incumbent /\ host.active \in Embedded /\ Coverage(host.active) >= 1
      THEN {host.active}
      ELSE IF eligible # {} THEN eligible ELSE {Page}

ChooseExplicitFirst ==   \* mutant: the choice is looked at before the locks
  IF host.explicit \in host.entries THEN {host.explicit}
  ELSE IF Held THEN {host.active}
  ELSE IF host.focus = "input" THEN {Page}
  ELSE IF host.focus \in host.entries THEN {host.focus}
  ELSE ByPosition

ChooseTableContext ==
  IF Held THEN {host.active}
  ELSE IF host.explicit \in host.entries THEN {host.explicit}
  ELSE IF host.focus = "input" THEN {Page}
  ELSE IF host.focus \in host.entries THEN {host.focus}
  ELSE ByPosition

Immediate(next) ==
  \/ host.focus # "body" \/ host.explicit # None
  \/ ~Incumbent /\ next \notin Embedded

EvaluateContext ==
  /\ host.entries # {}
  /\ \E next \in ChooseTableContext :
       host' = IF Immediate(next) \/ (next = host.pending /\ host.waited)
               THEN [host EXCEPT !.active = next, !.pending = next,
                       !.waited = @ /\ next = host.pending,
                       \* a page's foreground goes with the controls
                       !.search = @ /\ next = host.active]
               ELSE [host EXCEPT !.pending = next,
                       !.waited = @ /\ next = host.pending]

DwellPasses ==
  /\ host.pending # "unset" /\ ~host.waited
  /\ host' = [host EXCEPT !.waited = TRUE]

-----------------------------------------------------------------------------
(* Tables come and go. The listeners are then set up anew: what they knew   *)
(* of a press and of a pending change is lost.                              *)
Renewed(entries, explicit) ==
  [host EXCEPT !.entries = entries, !.pressed = FALSE, !.pending = "unset",
     !.waited = FALSE, !.explicit = IF explicit \in entries THEN explicit ELSE None,
     !.active = IF entries = {} THEN None ELSE @]

Register(t) ==
  /\ t \notin host.entries
  /\ host' = Renewed(host.entries \cup {t}, host.explicit)

(* What was open in the table closes with it; its scope's name is another.  *)
Torn(t, next) ==
  [next EXCEPT !.overlay = IF host.active = t /\ @ \in {"filters", "menu"} THEN "none" ELSE @,
               !.search  = @ /\ host.active # t]

Unregister(t) ==
  /\ t \in host.entries
  /\ host' = Torn(t, [Renewed(host.entries \ {t}, host.explicit) EXCEPT
               !.active = IF @ = t THEN Gone ELSE @,
               !.locked = IF @ = t THEN None ELSE @,
               !.focus  = IF @ = t THEN "body" ELSE @])

ScopeChanges(t) ==
  /\ t \in host.entries
  /\ host' = Torn(t, [Renewed(host.entries, IF host.explicit = t THEN None ELSE host.explicit)
               EXCEPT !.active = IF @ = t THEN Gone ELSE @])

(* The button of an embedded table, and the choice in the customization     *)
(* menu, which closes it.                                                   *)
Choose(t) ==
  /\ \/ t \in host.entries \cap Embedded /\ host.overlay \in {"none", "filters"}
     \/ t \in host.entries \cup {None} /\ host.overlay = "menu"
  /\ host' = [Renewed(host.entries, t) EXCEPT
                !.overlay = IF @ = "menu" THEN "none" ELSE @]

Lock(t) ==
  /\ t \in host.entries /\ host.locked = None
  /\ host' = [host EXCEPT !.locked = t]

Unlock == host.locked # None /\ host' = [host EXCEPT !.locked = None]

(* Filters and customization hang in the corner of the active table. Focus  *)
(* in the filters closes the search beside them.                            *)
OpenFilters ==
  /\ Incumbent /\ host.overlay = "none"
  /\ host' = [host EXCEPT !.overlay = "filters", !.search = FALSE, !.focus = "input"]

OpenMenu ==
  /\ Incumbent /\ host.overlay = "none"
  /\ host' = [host EXCEPT !.overlay = "menu", !.focus = host.active]

OpenDialog ==
  /\ host.overlay = "none"
  /\ host' = [host EXCEPT !.overlay = "dialog"]

CloseOverlay ==
  /\ host.overlay # "none"
  /\ \E focus \in {"body"} \cup (host.entries \cap {host.active}) :
       host' = [host EXCEPT !.overlay = "none", !.focus = focus]

OpenSearch ==
  /\ Incumbent /\ ~host.search
  /\ host' = [host EXCEPT !.search = TRUE, !.focus = host.active]

CollapseSearch ==
  /\ host.search
  /\ host' = [host EXCEPT !.search = FALSE, !.focus = host.active]

Press   == ~host.pressed /\ host' = [host EXCEPT !.pressed = TRUE]
Release == host.pressed /\ host' = [host EXCEPT !.pressed = FALSE]

Focus(where) ==
  /\ where \in host.entries \cup {"body", "input"} /\ host.overlay = "none"
  /\ where # host.focus /\ host' = [host EXCEPT !.focus = where]

Scroll(t) == t # host.scroll /\ host' = [host EXCEPT !.scroll = t]

HostNext ==
  \/ EvaluateContext \/ DwellPasses \/ Unlock \/ Press \/ Release
  \/ OpenFilters \/ OpenMenu \/ OpenDialog \/ CloseOverlay
  \/ OpenSearch \/ CollapseSearch \/ Choose(None)
  \/ \E t \in Tables : Register(t) \/ Unregister(t) \/ ScopeChanges(t)
                       \/ Choose(t) \/ Lock(t) \/ Focus(t)
  \/ \E where \in {"body", "input"} : Focus(where)
  \/ \E t \in Scrolls : Scroll(t)

-----------------------------------------------------------------------------
(* While filters or a menu are open, a dialog asks, the pointer is down or  *)
(* the table's page holds it, no other table takes its controls, whatever   *)
(* is scrolled, focused, chosen or mounted meanwhile.                       *)
ControlsStayPut ==
     Held /\ host'.active # host.active => host'.active \in {Gone, None}

-----------------------------------------------------------------------------
TypeOK ==
  /\ DOMAIN filters.draft \subseteq Ids /\ 0 \in DOMAIN filters.draft
  /\ filters.open \in BOOLEAN /\ filters.grouping \in BOOLEAN
  /\ filters.attempted \in BOOLEAN /\ filters.error \in BOOLEAN
  /\ filters.editing \subseteq Conditions(filters.draft)
  /\ host.entries \subseteq Tables /\ host.active \in Tables \cup {None, Gone}
  /\ host.explicit \in Tables \cup {None} /\ host.locked \in Tables \cup {None}
  /\ host.pending \in Tables \cup {None, "unset"} /\ host.waited \in BOOLEAN
  /\ host.focus \in Tables \cup {"body", "input"} /\ host.scroll \in Scrolls
  /\ host.pressed \in BOOLEAN /\ host.overlay \in Overlays /\ host.search \in BOOLEAN

Init == FiltersInit /\ HostInit
Next == \/ FiltersNext /\ UNCHANGED host
        \/ HostNext /\ UNCHANGED filters
Spec == Init /\ [][Next]_<<filters, host>>
=============================================================================
