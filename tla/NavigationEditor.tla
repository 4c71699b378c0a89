-------------------------- MODULE NavigationEditor --------------------------
(* The launcher's editor: it works on a draft of every dock preset. Only the *)
(* destinations the person may see are shown as tiles; the draft keeps the  *)
(* pins of the others, which no edit of a tile may lose. A tile is dragged  *)
(* by pointer while the keyboard, Command and a save remain in reach.       *)
EXTENDS Naturals, Sequences, SequencesExt

CONSTANTS Refs,          \* the destinations
          Hideable,      \* those a change of access may hide
          Ids,           \* the presets' ids
          MaxPresets,    \* 50 in the code
          MaxPins,       \* bound on the pins of all presets together
          None

VARIABLES editor         \* editDraft, and what the editor shows of it

Named == {"named", "blank"}

Presets == [id : Ids, name : Named, pins : Seq(Refs)]

TypeOK ==
  /\ editor.presets \in Seq(Presets) /\ editor.active \in Ids
  /\ editor.hidden \subseteq Hideable
  /\ editor.gesture \in {None} \cup
       [of : Refs, before : Seq(Refs), last : Refs \cup {None}]
  /\ editor.saving \in {None} \cup [presets : Seq(Presets), active : Ids]
  /\ {editor.naming, editor.deleting, editor.adding, editor.suspended} \subseteq BOOLEAN

Start(presets, active, hidden) ==
  [presets |-> presets, active |-> active, hidden |-> hidden, gesture |-> None,
   naming |-> FALSE, deleting |-> FALSE, adding |-> FALSE, saving |-> None,
   suspended |-> FALSE]

Preset(id, pins) == [id |-> id, name |-> "named", pins |-> pins]

Init ==
  \E id \in Ids, pins \in {SetToSeq(Refs), SetToSeq(Refs \ Hideable)} :
    editor = Start(<<Preset(id, pins)>>, id, Hideable)

-----------------------------------------------------------------------------
Active  == CHOOSE i \in DOMAIN editor.presets : editor.presets[i].id = editor.active
Pins    == editor.presets[Active].pins
Blank(presets) == \E i \in DOMAIN presets : presets[i].name = "blank"
Total   == FoldSeq(LAMBDA p, n : n + Len(p.pins), 0, editor.presets)
Tiles(pins) == SelectSeq(pins, LAMBDA r : r \notin editor.hidden)
Place(pins, ref) == CHOOSE i \in DOMAIN pins : pins[i] = ref

(* updateConsoleDockPins: of the preset that is active.                     *)
Pinned(pins) == [editor EXCEPT !.presets[Active].pins = pins]

MoveAmongTiles(pins, of, target) ==   \* mutant: the tiles' order replaces the pins'
  LET from == IndexFirstSubSeq(<<of>>, Tiles(pins))
      to   == IndexFirstSubSeq(<<target>>, Tiles(pins))
  IN  IF from = 0 \/ to = 0 \/ from = to THEN pins
      ELSE InsertAt(RemoveAt(Tiles(pins), from), to, of)

(* moveConsolePin: by the places in the draft, where hidden pins count.     *)
Move(pins, of, target) ==
  IF of \notin Range(pins) \/ target \notin Range(pins) \/ of = target THEN pins
  ELSE InsertAt(RemoveAt(pins, Place(pins, of)), Place(pins, target), of)

(* finish: a drag that is given up puts the draft back. (All of it: while   *)
(* the pointer holds a tile the editor's menus, fields and picker are left  *)
(* alone here, so that only the tiles can have changed.)                    *)
Finish(cancel) ==
  IF editor.gesture # None /\ cancel
  THEN [Pinned(editor.gesture.before) EXCEPT !.gesture = None]
  ELSE [editor EXCEPT !.gesture = None]

-----------------------------------------------------------------------------
(* The tiles. While a save is under way nothing can be reached, and while   *)
(* Command is open neither.                                                 *)

Open   == editor.saving = None /\ ~editor.suspended
Listed == Open /\ ~editor.adding
Idle   == Open /\ editor.gesture = None
Shown  == Range(Pins) \ editor.hidden

Lift(of) ==
  /\ Idle /\ Listed /\ of \in Shown
  /\ editor' = [editor EXCEPT !.gesture = [of |-> of, before |-> Pins, last |-> None]]

(* The pointer over a tile: what was moved past is not moved past again     *)
(* until the pointer has been back over the dragged one.                    *)
DragOver(tile) ==
  /\ Open /\ editor.gesture # None /\ tile \in Shown /\ ~editor.adding
  /\ LET g == editor.gesture
     IN  editor' = IF tile = g.of THEN [editor EXCEPT !.gesture.last = None]
                   ELSE IF tile = g.last THEN editor
                   ELSE [Pinned(Move(Pins, g.of, tile)) EXCEPT !.gesture.last = tile]

Drop       == Open /\ editor.gesture # None /\ editor' = Finish(FALSE)
CancelDrag == Open /\ editor.gesture # None /\ editor' = Finish(TRUE)

(* The arrow keys move a tile past its neighbour among the tiles.           *)
ArrowKey(of, target) ==
  /\ Listed /\ {of, target} \subseteq Shown
  /\ \E i \in 1..Len(Tiles(Pins)) - 1 :
       {of, target} = {Tiles(Pins)[i], Tiles(Pins)[i + 1]}
  /\ editor' = Pinned(Move(Pins, of, target))

Unpin(of) == Listed /\ of \in Shown /\ editor' = Pinned(RemoveAt(Pins, Place(Pins, of)))

OpenPicker  == Idle /\ ~editor.adding /\ editor' = [editor EXCEPT !.adding = TRUE]
ClosePicker == Idle /\ editor.adding /\ editor' = [editor EXCEPT !.adding = FALSE]

Add(ref) ==
  /\ Idle /\ editor.adding /\ Total < MaxPins /\ ref \notin editor.hidden \cup Range(Pins)
  /\ editor' = [Pinned(Append(Pins, ref)) EXCEPT !.adding = FALSE]

-----------------------------------------------------------------------------
(* The presets.                                                             *)

SwitchPreset(id) ==
  /\ Idle /\ ~Blank(editor.presets) /\ id # editor.active
  /\ \E i \in DOMAIN editor.presets : editor.presets[i].id = id
  /\ editor' = [editor EXCEPT !.active = id, !.naming = FALSE, !.deleting = FALSE]

RenamePreset == Idle /\ ~editor.naming /\ editor' = [editor EXCEPT !.naming = TRUE]

TypeName(name) ==
  /\ Idle /\ editor.naming
  /\ editor' = [editor EXCEPT !.presets[Active].name = name]

NewPreset(id) ==
  /\ Idle /\ ~Blank(editor.presets) /\ Len(editor.presets) < MaxPresets
  /\ \A i \in DOMAIN editor.presets : editor.presets[i].id # id
  /\ editor' = [editor EXCEPT !.presets = Append(@, Preset(id, <<>>)), !.active = id,
                              !.naming = TRUE, !.deleting = FALSE]

DeletePreset ==
  /\ Idle /\ Len(editor.presets) > 1 /\ ~editor.deleting
  /\ editor' = [editor EXCEPT !.deleting = TRUE]

KeepPreset == Idle /\ editor.deleting /\ editor' = [editor EXCEPT !.deleting = FALSE]

ConfirmDelete ==
  /\ Idle /\ editor.deleting
  /\ LET remaining == RemoveAt(editor.presets, Active)
     IN  editor' = [editor EXCEPT !.presets = remaining, !.active = remaining[1].id,
                                  !.deleting = FALSE, !.naming = FALSE]

-----------------------------------------------------------------------------
(* A save, and Command, give up a drag; what is saved is the draft as it    *)
(* was then. A save that is carried out closes the editor; the next one     *)
(* starts from what is stored.                                              *)

Saving ==
  [Finish(TRUE) EXCEPT !.saving = [presets |-> editor.presets, active |-> editor.active]]

SaveAnyway == Open /\ editor' = Saving       \* mutant: a name is not asked for

Save == Open /\ ~Blank(editor.presets) /\ editor' = Saving

SaveAnswers(saved) ==
  /\ editor.saving # None
  /\ editor' = IF saved THEN Start(editor.saving.presets, editor.saving.active, editor.hidden)
               ELSE [editor EXCEPT !.saving = None]

Suspend == ~editor.suspended /\ editor' = [Finish(TRUE) EXCEPT !.suspended = TRUE]
Resume  == editor.suspended /\ editor' = [editor EXCEPT !.suspended = FALSE]

AccessChanges(ref) ==
  editor' = [editor EXCEPT !.hidden = IF ref \in @ THEN @ \ {ref} ELSE @ \cup {ref}]

Next ==
  \/ \E ref \in Refs : Lift(ref) \/ DragOver(ref) \/ Unpin(ref) \/ Add(ref)
  \/ \E of, target \in Refs : ArrowKey(of, target)
  \/ \E id \in Ids : SwitchPreset(id) \/ NewPreset(id)
  \/ \E name \in Named : TypeName(name)
  \/ \E ref \in Hideable : AccessChanges(ref)
  \/ \E saved \in BOOLEAN : SaveAnswers(saved)
  \/ Drop \/ CancelDrag \/ OpenPicker \/ ClosePicker \/ RenamePreset \/ DeletePreset
  \/ KeepPreset \/ ConfirmDelete \/ Save \/ Suspend \/ Resume

Spec == Init /\ [][Next]_editor

-----------------------------------------------------------------------------
(* There is always an active preset, no destination is pinned twice in one, *)
(* and what is being saved has a name: no name, no save.                    *)
PresetsAreWhole ==
  /\ editor.presets # <<>> /\ editor.active \in {p.id : p \in Range(editor.presets)}
  /\ \A p \in Range(editor.presets) : IsInjective(p.pins)
  /\ editor.saving # None => ~Blank(editor.saving.presets)

(* The pins of destinations the person cannot see stay, in their order,     *)
(* whatever is done to the tiles between them, until the editor closes or a *)
(* drag is given up, which puts back what was there at its start. The tile  *)
(* in hand may be hidden by then: it is moved all the same.                 *)
Unseen ==
  IF editor.gesture = None THEN editor.hidden ELSE editor.hidden \ {editor.gesture.of}

Order(pins) == {pair \in Unseen \X Unseen :
                  \E i, j \in DOMAIN pins : i <= j /\ pair = <<pins[i], pins[j]>>}

HiddenPinsStay ==
     \A p \in Range(editor.presets), q \in Range(editor'.presets) :
       p.id = q.id /\ (editor.gesture # None => editor'.gesture # None) /\ editor.saving = None
         => Order(q.pins) = Order(p.pins)
=============================================================================
