--------------------------- MODULE DashboardEditor ---------------------------
(* The dashboard page: a draft of the saved dashboard, edited by pointer and *)
(* keyboard, saved under a mutation id that a retry repeats. The store is   *)
(* another program: a save may be carried out and its answer be lost, other *)
(* tabs save too, and what the person may not see it puts back by itself.   *)
EXTENDS Integers, Sequences

CONSTANTS Instances,     \* the ids of widget instances
          Configs,       \* their configurations
          DefaultConfig,
          Columns,       \* the grid, of one row here
          Defaults,      \* services.defaults: the instances in it, each config and place
          MaxLayouts, MaxRevision, MaxMutations,   \* bounds
          None

VARIABLES board          \* Dashboard, and the store behind it

Places == [at : 1..Columns, size : 1..2]

(* A document: the instances' configs, and a place for each of them.        *)
Documents == UNION {[config : [ids -> Configs], place : [ids -> Places]] : ids \in SUBSET Instances}

Snapshots == [revision : 1..MaxRevision, doc : Documents, restricted : SUBSET Instances]
Inputs    == [expected : 1..MaxRevision, id : 1..MaxMutations, doc : Documents]
Questions == {"discard", "defaults", "reload"} \cup Instances

(* validateDocument: a place in the grid each, and no two overlap.          *)
Apart(p, q) == p.at + p.size <= q.at \/ q.at + q.size <= p.at

Valid(doc) ==
  /\ DOMAIN doc.place = DOMAIN doc.config
  /\ \A i \in DOMAIN doc.place :
       /\ doc.place[i].at >= 1 /\ doc.place[i].at + doc.place[i].size <= Columns + 1
       /\ doc.place[i].size \in 1..2                 \* the definition's sizes
       /\ \A j \in DOMAIN doc.place \ {i} : Apart(doc.place[i], doc.place[j])

TypeOK ==
  /\ board.stored \in Seq(Documents) /\ Len(board.stored) \in 1..MaxRevision
  /\ board.done \in [1..MaxMutations -> 0..MaxRevision] /\ board.minted \in 0..MaxMutations
  /\ board.snapshot \in Snapshots \cup {None} /\ (board.draft = None <=> board.snapshot = None)
  /\ board.draft # None => /\ board.draft.doc \in Documents
                           /\ Len(board.draft.layouts) <= MaxLayouts
  /\ {board.call, board.retry} \subseteq Inputs \cup {None}
  /\ board.confirm \in Questions \cup {None} /\ board.selected \in Instances \cup {None}
  /\ {board.editing, board.adding, board.loading, board.error, board.hides} \subseteq BOOLEAN

-----------------------------------------------------------------------------
(* The store. An instance that a person may not see stays as it is, even    *)
(* when the draft has lost it.                                              *)

Hidden == IF board.hides THEN {CHOOSE i \in DOMAIN Defaults.config : TRUE} ELSE {}

Keeping(doc, ids, from) ==   \* doc, with what from has of ids
  LET held == ids \cap DOMAIN from.config
      own  == DOMAIN doc.config \ ids
  IN  [config |-> [i \in own \cup held |-> IF i \in own THEN doc.config[i] ELSE from.config[i]],
       place  |-> [i \in own \cup held |-> IF i \in own THEN doc.place[i] ELSE from.place[i]]]

Without(doc, i) == [config |-> [j \in DOMAIN doc.config \ {i} |-> doc.config[j]],
                    place  |-> [j \in DOMAIN doc.place \ {i} |-> doc.place[j]]]

Latest == board.stored[Len(board.stored)]

Snapshot(revision) == [revision |-> revision, doc |-> board.stored[revision],
                       restricted |-> Hidden \cap DOMAIN board.stored[revision].config]

Merged(input) == Keeping(input.doc, Hidden, Latest)

Admits(input) ==
  /\ input.expected = Len(board.stored) /\ input.expected < MaxRevision
  /\ Valid(Merged(input))

(* What becomes of a save: it was carried out before, it is now, or not.    *)
Outcomes(input) ==
  IF board.done[input.id] # 0 \/ ~Admits(input) THEN {board}
  ELSE {board, [board EXCEPT !.stored = Append(@, Merged(input)),
                             !.done[input.id] = input.expected + 1]}

OtherTabSaves ==
  /\ Len(board.stored) < MaxRevision
  /\ \E i \in DOMAIN Latest.config \ Hidden :
       board' = [board EXCEPT !.stored = Append(@, Without(Latest, i))]

-----------------------------------------------------------------------------
(* Reading. The page of another permission is another page.                 *)

Draft(doc) == [doc |-> doc, layouts |-> <<>>]

Mounted(b) ==
  [b EXCEPT !.snapshot = None, !.draft = None, !.call = None, !.retry = None,
            !.confirm = None, !.selected = None, !.editing = FALSE, !.adding = FALSE,
            !.loading = TRUE, !.error = FALSE]

Init ==
  \E hides \in BOOLEAN :
    board = [stored |-> <<Defaults>>, done |-> [id \in 1..MaxMutations |-> 0], minted |-> 0,
             snapshot |-> None, draft |-> None, call |-> None, retry |-> None,
             confirm |-> None, selected |-> None, editing |-> FALSE, adding |-> FALSE,
             loading |-> TRUE, error |-> FALSE, hides |-> hides]

Shows(b, snapshot) ==    \* what the store answered is what the page shows now
  [b EXCEPT !.snapshot = snapshot, !.draft = Draft(snapshot.doc), !.retry = None,
            !.editing = FALSE, !.selected = None]

ReadAnswers(answered) ==
  /\ board.loading
  /\ board' = IF answered
              THEN [Shows(board, Snapshot(Len(board.stored))) EXCEPT !.loading = FALSE,
                                                                     !.error = FALSE]
              ELSE [board EXCEPT !.loading = FALSE, !.error = TRUE]

PermissionChanges ==
  \E after \in IF board.call = None THEN {board} ELSE Outcomes(board.call) :
    board' = [Mounted(after) EXCEPT !.hides = ~@]

-----------------------------------------------------------------------------
(* Editing. A dialog covers the page; nothing changes while a save runs, or *)
(* while a question is open.                                                *)

Running   == board.call # None
Dirty     == board.draft # None /\ board.draft.doc # board.snapshot.doc
Uncovered == board.confirm = None /\ board.selected = None /\ ~board.adding

Changeable == board.draft # None /\ ~Running /\ board.confirm = None

(* change: an operation that is refused leaves the draft, and the retry.    *)
ChangedSilently(draft) ==    \* mutant: the retry is kept
  IF ~Changeable THEN board
  ELSE IF Valid(draft.doc) THEN [board EXCEPT !.draft = draft, !.error = FALSE]
  ELSE [board EXCEPT !.error = TRUE]

Changed(draft) ==
  IF ~Changeable THEN board
  ELSE IF Valid(draft.doc)
       THEN [board EXCEPT !.draft = draft, !.retry = None, !.error = FALSE]
       ELSE [board EXCEPT !.error = TRUE]

Laid(place) ==           \* setLayout
  IF place = board.draft.doc.place THEN board.draft
  ELSE [doc |-> [board.draft.doc EXCEPT !.place = place],
        layouts |-> Append(board.draft.layouts, board.draft.doc.place)]

StartEditing ==
  /\ Uncovered /\ ~board.editing /\ board.snapshot # None /\ ~board.loading
  /\ board' = [board EXCEPT !.editing = TRUE]

Select(i) ==
  /\ Uncovered /\ board.editing /\ ~Running
  /\ i \in DOMAIN board.draft.doc.config \ board.snapshot.restricted
  /\ board' = [board EXCEPT !.selected = i]

CloseSettings == board.selected # None /\ board' = [board EXCEPT !.selected = None]

(* By pointer: onDragStop and onResizeStop.                                 *)
Drag(i, place) ==
  /\ Uncovered /\ board.editing /\ ~Running /\ Len(board.draft.layouts) < MaxLayouts
  /\ i \in DOMAIN board.draft.doc.place \ board.snapshot.restricted
  /\ board' = Changed(Laid([board.draft.doc.place EXCEPT ![i] = place]))

(* In the settings: canChangeGeometry leaves only what is possible.         *)
Geometry(field, delta) ==
  /\ board.selected # None /\ ~Running /\ Len(board.draft.layouts) < MaxLayouts
  /\ LET place == board.draft.doc.place
         next  == [place EXCEPT ![board.selected][field] = @ + delta]
     IN  /\ Valid([board.draft.doc EXCEPT !.place = next])
         /\ board' = Changed(Laid(next))

Configure(config) ==
  /\ board.selected # None /\ config # board.draft.doc.config[board.selected]
  /\ board' = Changed([board.draft EXCEPT !.doc.config[board.selected] = config])

OpenAdding == /\ Uncovered /\ board.editing /\ ~Running /\ ~board.loading
              /\ board' = [board EXCEPT !.adding = TRUE]

CloseAdding == board.adding /\ board' = [board EXCEPT !.adding = FALSE]

(* Below what is there, under an id of its own.                             *)
Add(i) ==
  /\ board.adding /\ ~Running
  /\ i \notin DOMAIN board.draft.doc.place \cup DOMAIN board.snapshot.doc.place
  /\ \A n \in DOMAIN board.draft.layouts : i \notin DOMAIN board.draft.layouts[n]
  /\ LET doc  == board.draft.doc
         ids  == DOMAIN doc.place \cup {i}
         free == {c \in 1..Columns + 1 : \A j \in DOMAIN doc.place :
                    c >= doc.place[j].at + doc.place[j].size}
         at   == CHOOSE c \in free : \A d \in free : c <= d
         next == [config |-> [j \in ids |-> IF j = i THEN DefaultConfig ELSE doc.config[j]],
                  place  |-> [j \in ids |-> IF j = i THEN [at |-> at, size |-> 1]
                                            ELSE doc.place[j]]]
     IN  board' = [Changed([board.draft EXCEPT !.doc = next]) EXCEPT
                     !.adding = FALSE, !.selected = IF Valid(next) THEN i ELSE @]

(* undoLayout: the instances there are now, where they were then. The       *)
(* layout it takes off its list is gone even when it does not fit any more. *)
UndoLayout ==
  /\ Uncovered /\ board.editing /\ ~Running /\ board.draft.layouts # <<>>
  /\ LET doc   == board.draft.doc
         steps == board.draft.layouts
         old   == steps[Len(steps)]
         rest  == SubSeq(steps, 1, Len(steps) - 1)
         place == [i \in DOMAIN doc.place |-> IF i \in DOMAIN old THEN old[i] ELSE doc.place[i]]
         next  == [doc |-> [doc EXCEPT !.place = place], layouts |-> rest]
     IN  board' = IF Valid(next.doc) THEN Changed(next)
                  ELSE [board EXCEPT !.draft.layouts = rest, !.error = TRUE]

-----------------------------------------------------------------------------
(* Questions, and what is done when they are answered.                      *)

Ask(question) ==
  /\ Uncovered /\ ~Running /\ ~board.loading
  /\ board' = [board EXCEPT !.confirm = question]

Discarded(b) == [b EXCEPT !.draft = Draft(b.snapshot.doc), !.editing = FALSE,
                          !.selected = None, !.retry = None, !.error = FALSE]

CancelAtOnce ==          \* mutant: never asks
  Uncovered /\ board.editing /\ ~Running /\ board' = Discarded(board)

CancelEditing ==
  /\ Uncovered /\ board.editing /\ ~Running
  /\ IF Dirty THEN Ask("discard") ELSE board' = Discarded(board)

AskRemoval(i) ==
  /\ board.editing /\ board.draft # None
  /\ i \in DOMAIN board.draft.doc.config \ board.snapshot.restricted /\ Ask(i)

AskDefaults == board.editing /\ board.draft # None /\ Ask("defaults")
AskReload   == board.error /\ Ask("reload")
Decline     == board.confirm # None /\ board' = [board EXCEPT !.confirm = None]

Confirmed(b, i) ==       \* the dialog has closed before its action runs
  /\ board.confirm = i /\ board' = [b EXCEPT !.confirm = None]

ConfirmDiscard == Confirmed(Discarded(board), "discard")

ConfirmRemoval(i) ==
  Confirmed([board EXCEPT !.draft.doc = Without(@, i), !.retry = None, !.error = FALSE,
                          !.selected = IF @ = i THEN None ELSE @], i)

ConfirmDefaults ==
  /\ board.draft # None /\ Len(board.draft.layouts) < MaxLayouts
  /\ Confirmed([board EXCEPT
       !.draft = [doc |-> Defaults, layouts |-> Append(@.layouts, @.doc.place)],
       !.retry = None, !.error = FALSE, !.selected = None], "defaults")

ConfirmReload == Confirmed([board EXCEPT !.loading = TRUE], "reload")

-----------------------------------------------------------------------------
(* Saving: a retry repeats the call that failed.                            *)

Save ==
  /\ Uncovered /\ board.editing /\ Dirty /\ ~Running /\ ~board.loading
  /\ board.retry = None => board.minted < MaxMutations
  /\ LET fresh == [expected |-> board.snapshot.revision, id |-> board.minted + 1,
                   doc |-> board.draft.doc]
         input == IF board.retry = None THEN fresh ELSE board.retry
     IN  board' = [board EXCEPT !.call = input, !.retry = input, !.error = FALSE,
                                !.minted = IF @ < input.id THEN input.id ELSE @]

SaveAnswers(answered) ==
  /\ Running
  /\ \E after \in Outcomes(board.call) :
       LET revision == after.done[board.call.id]
           told     == [after EXCEPT !.call = None]
       IN  board' = IF answered /\ revision # 0
                    THEN Shows(told, [revision |-> revision, doc |-> after.stored[revision],
                                      restricted |-> Hidden \cap DOMAIN after.stored[revision].config])
                    ELSE [told EXCEPT !.error = TRUE]

Next ==
  \/ \E answered \in BOOLEAN : ReadAnswers(answered) \/ SaveAnswers(answered)
  \/ OtherTabSaves \/ PermissionChanges \/ StartEditing \/ CloseSettings \/ OpenAdding
  \/ CloseAdding \/ UndoLayout \/ CancelEditing \/ AskDefaults \/ AskReload \/ Decline
  \/ ConfirmDiscard \/ ConfirmDefaults \/ ConfirmReload \/ Save
  \/ \E i \in Instances : Select(i) \/ Add(i) \/ AskRemoval(i) \/ ConfirmRemoval(i)
  \/ \E i \in Instances, place \in Places : Drag(i, place)
  \/ \E config \in Configs : Configure(config)
  \/ \E field \in {"at", "size"}, delta \in {-1, 1} : Geometry(field, delta)

Spec == Init /\ [][Next]_board

-----------------------------------------------------------------------------
(* The draft can always be saved as it stands, after any mixture of edits   *)
(* and undone layouts; and the save that a retry would repeat is one of the *)
(* draft that is on the page.                                               *)
DraftIsSound ==
  /\ board.draft # None => Valid(board.draft.doc)
  /\ board.retry # None => board.retry.doc = board.draft.doc

(* Who leaves the editor with changes has asked for it, or finds in the     *)
(* store what was on the page.                                              *)
EditsAreKept ==
     board.editing /\ ~board'.editing /\ Dirty /\ ~PermissionChanges
       => \/ board.confirm = "discard" \/ board.loading
          \/ board'.snapshot.doc = Keeping(board.draft.doc, Hidden, board'.snapshot.doc)
=============================================================================
