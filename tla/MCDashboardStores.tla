--------------------------- MODULE MCDashboardStores ---------------------------
(* Authorized: two principals, one of whom loses and regains a widget while *)
(* it saves; the second is served where the definition of one is missing.   *)
(* Audited: two attempts that race or retry one mutation, and a third that  *)
(* goes to the store directly, with the same id or ahead of them.           *)
EXTENDS DashboardStores, TLC

CONSTANTS m1, m2, i1, i2, clock, chart, left, right, empty, c1, c2, alice, bob

MCCells == [widget : {clock, chart}, config : {empty, c1, c2}, place : {left, right}]
MCDocuments ==
  {doc \in [{i1, i2} -> MCCells \cup {Absent}] :
     doc[i1] # Absent /\ doc[i2] # Absent => doc[i1].place # doc[i2].place}
Cell(w, c, p) == [widget |-> w, config |-> c, place |-> p]
Doc(one, other) == (i1 :> one) @@ (i2 :> other)
MCDefaults == Doc(Cell(clock, c1, left), Cell(chart, c1, right))

Rewritten == Doc(Cell(clock, c2, left), Cell(chart, empty, right))
Swapped == Doc(Cell(clock, c1, right), Cell(chart, c2, left))
Removed == Doc(Cell(clock, c2, left), Absent)

Ask(id, expected, doc) == [id |-> id, expected |-> expected, doc |-> doc]
Saves == {Ask(m1, 0, Rewritten), Ask(m1, 0, Removed), Ask(m2, 0, Swapped),
          Ask(m2, 1, Removed)}
MCSends == {Ask(m1, 0, c1), Ask(m1, 0, c2), Ask(m2, 0, c1)}

Everything == [read |-> TRUE, write |-> TRUE, widgets |-> {clock, chart}]
Limited == [read |-> TRUE, write |-> TRUE, widgets |-> {clock}]
Viewer == [read |-> TRUE, write |-> FALSE, widgets |-> {clock, chart}]
MCGrants == {Everything, Limited, Viewer}
MCInitialGrant == (alice :> Everything) @@ (bob :> Limited)

MCPrincipalOf == ("a1" :> alice) @@ ("a2" :> bob)
MCDefinedFor == ("a1" :> {clock, chart}) @@ ("a2" :> {clock})
MCParse == (empty :> Refused) @@ (c1 :> c1) @@ (c2 :> c2)
=============================================================================
