----------------------------- MODULE ConsoleDock -----------------------------
(* The plugins' views in the dock. The host shows at most one; leaving it   *)
(* asks the view first, and the view may take its time over the answer. The *)
(* views that do not fit the bar are in a menu, which acts once it closed.  *)
(* Beside it, two parts of the frame that travel, and are in use only at    *)
(* rest: the pane of the dock with the surface under it, and the bar that   *)
(* names the task at hand.                                                  *)
EXTENDS Integers, Sequences

CONSTANTS Views, Trays,  \* the plugins' views, and those that have a tray
          MaxExits,      \* bound on unanswered questions
          Boxes,         \* natural geometries of a surface
          Objects,       \* the objects a page can name
          None, Between

VARIABLES dock,          \* ConsoleDockViewHost, its owners and the menu
          pane,          \* the pane under one key
          surface,       \* DockShape, and what DockSurface renders it with
          bar            \* ContextSurface

(* A presentation is an object of its own: showing a view, opening its tray *)
(* and closing it each make another.                                        *)
Presentations == [view : Views, expanded : BOOLEAN]

(* An exit in question: the presentation it is of, what happens afterwards, *)
(* and whether exitSequence still stands where the question put it.         *)
Exits == [of : Presentations, next : Views \cup {None}, current : BOOLEAN]

TypeOK ==
  /\ dock.offered \subseteq Views /\ dock.failed \subseteq Views
  /\ dock.cover \in {"none", "overlay", "selection"}
  /\ dock.shown \in Presentations \cup {None}
  /\ dock.exits \in Seq(Exits) /\ Len(dock.exits) <= MaxExits
  /\ dock.menu \in Views \cup {None, "open"}
  /\ dock.ready \in BOOLEAN /\ dock.focus \in {"body", "page", "dock", "view"}
  /\ dock.owed \in {None} \cup [of : Views, was : {"body", "page", "dock", "view"}]

(* The Shell's own overlays hide the view; so does work on a selection,     *)
(* which also blocks the entries.                                           *)
Mounted(offered, exits) ==
  [offered |-> offered, cover |-> "none", failed |-> {}, shown |-> None, menu |-> None,
   exits |-> exits, ready |-> TRUE, focus |-> "body", owed |-> None]

Init == dock = Mounted(Views, <<>>)

Blocked(d) == d.cover = "selection"
Active(d)  == IF d.cover # "none" THEN None ELSE d.shown
Visible    == Active(dock)

-----------------------------------------------------------------------------
(* Every render is committed: a view that is no longer offered goes, an     *)
(* exit in question of another presentation is void, and the focus that is  *)
(* owed to the navigation is given back once that is ready for it, unless   *)
(* it moved meanwhile or the entry of the view is gone.                     *)

Void(exits) == [i \in DOMAIN exits |-> [exits[i] EXCEPT !.current = FALSE]]

LeaseOfView(before, after, exits) ==   \* mutant: void with the view only
  IF Active(after) = None THEN Void(exits) ELSE exits

Lease(before, after, exits) ==
  IF Active(before) # Active(after) THEN Void(exits) ELSE exits

Return(d) ==
  IF d.owed = None \/ d.shown # None THEN d
  ELSE IF d.owed.of \notin d.offered THEN [d EXCEPT !.owed = None]
  ELSE IF ~d.ready THEN d
  ELSE [d EXCEPT !.owed = None,
                 !.focus = IF @ \in {d.owed.was, "body"} THEN "dock" ELSE @]

Leave(d) ==
  [d EXCEPT !.shown = None, !.owed = [of |-> d.shown.view, was |-> d.focus],
            !.focus = IF @ = "view" THEN "body" ELSE @]

Commit(next) ==
  LET gone == next.shown # None /\ next.shown.view \notin next.offered
      kept == IF gone THEN Leave(next) ELSE next
      new  == Active(kept) # Active(dock)
  IN  dock' = Return([kept EXCEPT !.exits = Lease(dock, kept, @),
                        \* the pane that is left has to make room first
                        !.ready = @ /\ ~(new /\ (Active(kept) = None) # (Visible = None))])

Open(d, v) ==
  IF Blocked(d) \/ v \notin d.offered THEN d
  ELSE [d EXCEPT !.shown = [view |-> v, expanded |-> FALSE], !.owed = None]

(* requestExit: a view without a guard, a failed one and a guard that knows *)
(* its answer are done at once; a guard that throws answers no.             *)
RequestExit(next) ==
  /\ Visible # None
  /\ LET asked == [dock EXCEPT !.exits = Void(@)]
         done  == IF next # None THEN Open(asked, next) ELSE Leave(asked)
     IN  \/ Commit(done)
         \/ /\ Visible.view \notin dock.failed
            /\ \/ Commit(asked)
               \/ /\ Len(dock.exits) < MaxExits
                  /\ Commit([asked EXCEPT !.exits = Append(@,
                       [of |-> Visible, next |-> next, current |-> TRUE])])

Answers(i, allowed) ==
  /\ i \in DOMAIN dock.exits
  /\ LET exit == dock.exits[i]
         told == [dock EXCEPT !.exits = SubSeq(@, 1, i - 1) \o SubSeq(@, i + 1, Len(@))]
     IN  Commit(IF ~(allowed /\ exit.current) THEN told
                ELSE IF exit.next = None THEN Leave(told)
                ELSE Open(told, exit.next))

-----------------------------------------------------------------------------
(* What the user does. The entries are in the bar, and in the sidebar where *)
(* a view leaves them in reach; while the Shell hides the view that is      *)
(* shown nobody is there to be asked, and nothing happens.                  *)

Shown      == IF dock.shown = None THEN None ELSE dock.shown.view
Invokes(v) == v \in dock.offered \ {Shown} /\ ~Blocked(dock)

InvokeEntry(v) ==
  /\ Invokes(v) /\ dock.menu = None
  /\ IF dock.shown = None THEN Commit(Open(dock, v)) ELSE RequestExit(v)

OpenMenu ==
  /\ dock.ready /\ dock.shown = None /\ dock.menu = None /\ dock.cover = "none"
  /\ Commit([dock EXCEPT !.menu = "open", !.focus = "dock", !.owed = None])

ChooseInMenu(v) == dock.menu = "open" /\ Invokes(v) /\ Commit([dock EXCEPT !.menu = v])

(* onOpenChangeComplete: the choice is looked up among what is offered now. *)
MenuClosed ==
  /\ dock.menu # None
  /\ Commit(IF dock.menu \in dock.offered /\ Invokes(dock.menu)
            THEN Open([dock EXCEPT !.menu = None, !.focus = "dock"], dock.menu)
            ELSE [dock EXCEPT !.menu = None])

BackButton == Visible # None /\ dock.ready /\ RequestExit(None)

Expand ==
  /\ Visible # None /\ ~Visible.expanded /\ Visible.view \in Trays \ dock.failed
  /\ Commit([dock EXCEPT !.shown.expanded = TRUE])

Collapse ==
  /\ Visible # None /\ Visible.expanded
  /\ Commit([dock EXCEPT !.shown.expanded = FALSE, !.focus = "view"])

Escape == Visible # None /\ IF Visible.expanded THEN Collapse ELSE RequestExit(None)

(* A press anywhere, or the focus moving on, forgets what is owed.          *)
MoveFocus(where) ==
  /\ dock.focus # where /\ where = "view" => Visible # None /\ dock.ready
  /\ where = "dock" => Visible = None
  /\ Commit([dock EXCEPT !.focus = where, !.owed = None])

-----------------------------------------------------------------------------
(* What happens to the dock. Its geometry settles; the view that is then    *)
(* shown takes the focus from the entry that opened it. A second later what *)
(* is owed lapses.                                                          *)

Settles ==
  /\ ~dock.ready
  /\ Commit([dock EXCEPT !.ready = TRUE,
       !.focus = IF Visible # None /\ @ \in {"body", "dock"} THEN "view" ELSE @])

Lapses == dock.owed # None /\ dock' = [dock EXCEPT !.owed = None]

Withdraw(v) == v \in dock.offered /\ Commit([dock EXCEPT !.offered = @ \ {v},
                                                         !.failed = @ \ {v}])
Offer(v)    == v \notin dock.offered /\ Commit([dock EXCEPT !.offered = @ \cup {v}])

(* Another route: what was shown there goes. Another scope has a host of    *)
(* its own, and finds none of the leases of the one before.                 *)
Navigate    == dock.shown # None /\ Commit(Leave(dock))
ChangeScope == dock' = Mounted(dock.offered, Void(dock.exits))

Cover(by) ==
  /\ by # dock.cover
  /\ Commit([dock EXCEPT !.cover = by, !.menu = IF by = "none" THEN @ ELSE None])

(* A view that throws is replaced by a message under a lease of its own.    *)
Fail(v) ==
  /\ v \in dock.offered \ dock.failed /\ v = Shown
  /\ Commit([dock EXCEPT !.failed = @ \cup {v}, !.exits = Void(@)])

Next ==
  \/ BackButton \/ Expand \/ Collapse \/ Escape \/ OpenMenu \/ MenuClosed
  \/ Settles \/ Lapses \/ Navigate \/ ChangeScope
  \/ \E v \in Views : InvokeEntry(v) \/ ChooseInMenu(v) \/ Withdraw(v) \/ Offer(v) \/ Fail(v)
  \/ \E by \in {"none", "overlay", "selection"} : Cover(by)
  \/ \E i \in 1..MaxExits, allowed \in BOOLEAN : Answers(i, allowed)
  \/ \E where \in {"page", "dock", "view"} : MoveFocus(where)

Spec == Init /\ [][Next]_dock

-----------------------------------------------------------------------------
(* How the bar is filled: the views, a menu for those that do not fit, the  *)
(* destinations, the directory's button and, while Meta is held, a chevron  *)
(* on either side.                                                          *)

Room(capacity, taken) == IF capacity > taken THEN capacity - taken ELSE 0

VisibleLeadingAll(room, leading) ==    \* mutant: the menu's button not counted
  IF leading > room THEN room ELSE leading

VisibleLeading(room, leading) ==
  IF leading > room THEN Room(room, 1) ELSE leading

Filled(capacity, leading, modules, overflow, held) ==
  LET views == VisibleLeading(Room(capacity, overflow + 2 * held), leading)
      slots == views + IF leading > views THEN 1 ELSE 0
      room  == Room(capacity, slots + overflow + 2 * held)
  IN  [views |-> views, slots |-> slots, modules |-> IF modules <= room THEN modules ELSE room]

(* Nothing is pushed out of the bar, whose room is measured, unless the     *)
(* chevrons are in it; and no view is out of reach.                         *)
BarFits ==
  \A capacity \in 2..5, leading \in 0..6, modules \in {0, 6}, overflow, held \in {0, 1} :
    LET filled == Filled(capacity, leading, modules, overflow, held)
    IN  /\ held = 0 => filled.slots + filled.modules + overflow <= capacity
        /\ filled.views = leading \/ filled.slots = filled.views + 1

(* An answer that comes late takes away only what the question was about:   *)
(* it was the last one asked, and the view still looks as it did then.      *)
LateAnswersAreHarmless ==
     \A i \in DOMAIN dock.exits :
       Answers(i, TRUE) /\ dock'.shown # dock.shown
         => i = Len(dock.exits) /\ dock.shown = dock.exits[i].of /\ Visible # None

-----------------------------------------------------------------------------
(* A pane of the dock fades in or out while the surface under it travels to *)
(* the shape its content needs. The two meet in one motion value, and no    *)
(* order of renders, reversals, resizes and frames may leave a pane that is *)
(* there to stay out of use, or let a pane be used that is not to be seen.  *)

Whole == 2   \* opacity and progress of 1; lower values are on the way

PaneMounted(instant) ==
  [present |-> TRUE, instant |-> instant, immediate |-> FALSE, moving |-> TRUE,
   opacity |-> IF instant THEN Whole ELSE 0, ready |-> instant, gone |-> FALSE]

(* DockSurface mounts instantly, whatever it is, and renders at once again. *)
Opened(instant) == [PaneMounted(TRUE) EXCEPT !.instant = instant]
Painted(instant, selection, box) ==
  [present |-> TRUE, instant |-> instant, target |-> box, visual |-> box,
   moving |-> FALSE, progress |-> Whole, revealing |-> FALSE, preserve |-> selection]

PaneInit == \E instant, selection \in BOOLEAN, box \in Boxes :
              pane = Opened(instant) /\ surface = Painted(instant, selection, box)

Aim(p)      == IF p.present THEN Whole ELSE 0
Operable(p) == p.present /\ (p.instant \/ p.ready)

-----------------------------------------------------------------------------
(* A change of the opacity, or of the surface's progress, is an event.      *)
Listens(p, progress) ==
  [p EXCEPT !.ready = p.present /\ p.opacity = Whole /\ progress = Whole]
Hears(p, before, after) == IF before = after THEN p ELSE Listens(p, after)

(* The pane's layout effect, which starts the fade again from where it is   *)
(* whenever what it depends on has changed.                                 *)
Fading(p) ==
  [p EXCEPT !.moving = TRUE,
            !.ready = p.present /\ (p.instant \/ @),
            !.opacity = IF p.present /\ p.instant THEN Whole
                        ELSE IF ~p.present /\ p.immediate THEN 0 ELSE @]

(* A leaving pane keeps its last properties; its presence alone tells it to *)
(* be quick.                                                                *)
Rendered(p, stays, instant) ==
  LET q == IF stays THEN [p EXCEPT !.present = TRUE, !.instant = instant, !.immediate = FALSE]
                    ELSE [p EXCEPT !.present = FALSE, !.immediate = instant]
  IN IF p.gone THEN (IF stays THEN PaneMounted(instant) ELSE p)
     ELSE IF q = p THEN p ELSE Fading(q)

(* DockShape.measure: where the shape has to go, and whether it travels.    *)
Resting(s, box) == [s EXCEPT !.target = box, !.visual = box, !.moving = FALSE,
                             !.progress = Whole, !.revealing = FALSE]
Travelling(s, box) == [s EXCEPT !.target = box, !.moving = TRUE,
                                !.progress = IF s.preserve THEN Whole ELSE 0]
Measure(s, box) ==
  IF ~s.present THEN [s EXCEPT !.moving = FALSE]
  ELSE IF s.target = box /\ ~s.instant
    THEN [s EXCEPT !.revealing = @ /\ s.progress # Whole]
  ELSE IF s.visual \in {None, box} \/ s.instant THEN Resting(s, box) ELSE Travelling(s, box)

(* The observer is set up again: an interrupted shape forgets its target.   *)
Observed(s) == [s EXCEPT !.moving = FALSE, !.target = None]

(* The shape's layout effects. A new content key is revealed at the end of  *)
(* the travel, unless it is a selection that only changes its size.         *)
Shaped(s, present, instant, moves, selection, changed, box) ==
  LET reveals == s.revealing \/ changed
      t == [s EXCEPT !.present = present, !.instant = instant,
                     !.revealing = reveals, !.preserve = selection /\ ~reveals]
      again == moves \/ present # s.present \/ instant # s.instant
  IN Measure(IF again THEN Observed(t) ELSE t, box)

-----------------------------------------------------------------------------
(* DockSurface renders: the pane's effect comes before the shape's. The     *)
(* pane stays or goes with the content key.                                 *)
Render(present, instant, moves, selection, stays, changed, box) ==
  /\ changed \/ stays = pane.present
  /\ LET s == Shaped(surface, present, instant, moves, selection, changed, box)
     IN /\ surface' = s
        /\ pane' = Hears(Rendered(pane, stays, instant), surface.progress, s.progress)

Moves(s) == surface' = s /\ pane' = Hears(pane, surface.progress, s.progress)

Resizes(box) == surface.present /\ Moves(Measure(surface, box))

Travels(reveal) ==
  /\ surface.moving
  /\ Moves([surface EXCEPT !.visual = Between,
                           !.progress = IF surface.preserve THEN Whole ELSE reveal])

Arrives ==
  /\ surface.moving
  /\ Moves([surface EXCEPT !.visual = surface.target, !.progress = Whole,
                           !.moving = FALSE, !.revealing = FALSE])

Fades ==
  /\ pane.moving /\ pane.opacity # Aim(pane)
  /\ pane' = Listens([pane EXCEPT !.opacity = IF pane.present THEN @ + 1 ELSE @ - 1],
                     surface.progress)
  /\ UNCHANGED surface

Completes ==
  /\ pane.moving /\ pane.opacity = Aim(pane)
  /\ pane' = [pane EXCEPT !.moving = FALSE, !.gone = ~pane.present,
                !.ready = IF pane.present THEN surface.progress = Whole ELSE @]
  /\ UNCHANGED surface

(* The dock has gone with its surface, and is shown anew.                   *)
Reopens(instant, selection, box) ==
  /\ ~surface.present
  /\ pane' = Opened(instant) /\ surface' = Painted(instant, selection, box)

PaneNext ==
  \/ \E present, instant, moves, selection, stays, changed \in BOOLEAN, box \in Boxes :
       Render(present, instant, moves, selection, stays, changed, box)
  \/ \E box \in Boxes : Resizes(box)
  \/ \E reveal \in 0..(Whole - 1) : Travels(reveal)
  \/ Arrives \/ Fades \/ Completes
  \/ \E instant, selection \in BOOLEAN, box \in Boxes : Reopens(instant, selection, box)

(* A pane is in use only when it is whole and there to stay, and once fade  *)
(* and shape have come to rest it is in use, in whatever order renders,     *)
(* reversals, resizes, interrupted travels and frames came                  *)
(* (console-dock.tsx:148-198, :218, console-dock-shape.tsx:126, :203).      *)
RestsInUse ==
  /\ Operable(pane) => pane.opacity = Whole
  /\ pane.present /\ ~pane.moving /\ surface.present /\ ~surface.moving => Operable(pane)

-----------------------------------------------------------------------------
(* The bar naming the task at hand shows tabs, or one object with a cap to  *)
(* go back. From one context to the next its skin travels to the new box;   *)
(* until it has arrived the content can be neither seen nor used.           *)

Tabs == "tabs"
Fallback == "fallback"
Contexts == Objects \cup {Tabs, Fallback}
Identity(context) == IF context = Fallback THEN Tabs ELSE context
HasReturns(context) == IF context = Fallback THEN {FALSE} ELSE BOOLEAN

Hidden == [context |-> None]

(* Mounting paints the surface where it belongs, at once.                  *)
BarMounted(context, return, box, top) ==
  [context |-> context, return |-> return, identity |-> Identity(context),
   continuous |-> context # Fallback \/ top, instant |-> FALSE,
   target |-> <<box, return>>, cap |-> return, travelling |-> FALSE,
   moving |-> FALSE, inert |-> FALSE]

BarInit == bar = Hidden

Finish(b) == [b EXCEPT !.travelling = FALSE, !.moving = FALSE, !.inert = FALSE,
                       !.cap = b.return]
SetOut(b) == [b EXCEPT !.travelling = TRUE, !.moving = TRUE, !.inert = TRUE]

(* Measuring: an unchanged target lets the travel go on; otherwise it is   *)
(* stopped and starts again from where the skin is, or ends.               *)
MeasureBar(b, before, box) ==
  LET next == <<box, b.return>>
      same == before.target = next
      changed == b.identity # before.identity
      shared == b.continuous /\ before.continuous
      now == [b EXCEPT !.target = next]
  IN  IF ~b.instant /\ b.travelling /\ same THEN b
      ELSE IF b.instant \/ ~shared \/ (~changed /\ same) THEN Finish(now)
      ELSE SetOut(now)

(* What the measuring depends on changed: the effect that carried it is    *)
(* taken down, and the travel stopped, before it measures again.           *)
Stopped(b, before) ==
  IF \A f \in {"identity", "continuous", "return", "instant"} : b[f] = before[f]
  THEN b ELSE [b EXCEPT !.moving = FALSE]

RenderBar(context, return, box, instant, top) ==
  /\ return \in HasReturns(context)
  /\ bar' = IF bar = Hidden THEN BarMounted(context, return, box, top)
            ELSE LET b == [bar EXCEPT !.context = context, !.return = return,
                             !.identity = Identity(context),
                             !.continuous = context # Fallback \/ top,
                             !.instant = instant, !.cap = bar.cap \/ return]
                 IN  MeasureBar(Stopped(b, bar), bar, box)

HideBar == bar # Hidden /\ bar' = Hidden
ResizeBar(box) == bar # Hidden /\ bar' = MeasureBar(bar, bar, box)

BarArrives == bar # Hidden /\ bar.moving /\ bar' = Finish(bar)

BarNext ==
  \/ \E context \in Contexts, return, instant, top \in BOOLEAN, box \in Boxes :
       RenderBar(context, return, box, instant, top)
  \/ HideBar \/ BarArrives
  \/ \E box \in Boxes : ResizeBar(box)

(* At rest the content is within reach and the cap is there exactly when   *)
(* there is somewhere to go back to (console-context-bar.tsx:136, :155).   *)
RestsWhole ==
  bar # Hidden /\ ~bar.travelling => ~bar.inert /\ bar.cap = bar.return
=============================================================================
