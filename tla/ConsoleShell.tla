---------------------------- MODULE ConsoleShell ----------------------------
(* The Shell around the pages: the launcher, the Command list and the       *)
(* editor that share the dock, and the preferences they change. These are   *)
(* read once per scope and saved against the revision that was read; other  *)
(* tabs save theirs, and any call may fail or answer too late.              *)
EXTENDS Naturals, Sequences

CONSTANTS Scopes,        \* the people who sign in
          Values,        \* preferences: mode, position and presets
          Default,       \* navigationDefaults
          MaxRevision,   \* bound on the versions of the stored preferences
          MaxCalls,      \* bound on unanswered calls of the store
          None

VARIABLES shell,         \* ConsoleShell and useConsolePreferences
          stored         \* scope |-> its versions in ConsolePreferenceStore

vars == <<shell, stored>>

(* A read, or a save of value against a revision. live tells whether the    *)
(* epoch that made the call is still the current one, written whether the   *)
(* store has carried a save out.                                            *)
Calls == [scope : Scopes, value : Values \cup {None}, against : 0..MaxRevision,
          live : BOOLEAN, written : 0..MaxRevision]

TypeOK ==
  /\ stored \in [Scopes -> Seq(Values)]
  /\ \A s \in Scopes : Len(stored[s]) \in 1..MaxRevision
  /\ shell.scope \in Scopes /\ shell.ready \in BOOLEAN
  /\ shell.launcher \in BOOLEAN /\ shell.command \in BOOLEAN
  /\ shell.editing \in Values \cup {None} /\ shell.draft \in Values \cup {None}
  /\ shell.revision \in 0..MaxRevision /\ shell.value \in Values
  /\ shell.loaded \in BOOLEAN /\ shell.busy \in BOOLEAN /\ shell.error \in BOOLEAN
  /\ shell.calls \in Seq(Calls) /\ Len(shell.calls) <= MaxCalls

-----------------------------------------------------------------------------
(* An epoch: the defaults until the store has answered, and no draft. What  *)
(* the epoch before still waits for no longer concerns it.                  *)

Read(scope) == [scope |-> scope, value |-> None, against |-> 0, live |-> TRUE, written |-> 0]

Retired(calls) == [i \in DOMAIN calls |-> [calls[i] EXCEPT !.live = FALSE]]

Epoch(s) ==
  [s EXCEPT !.draft = None, !.error = FALSE, !.busy = FALSE, !.loaded = FALSE,
            !.revision = 0, !.value = Default, !.editing = None,
            !.calls = Append(Retired(@), Read(s.scope))]

Closed(s) == [s EXCEPT !.launcher = FALSE, !.command = FALSE, !.editing = None]

Init ==
  /\ stored = [s \in Scopes |-> <<Default>>]
  /\ \E scope \in Scopes :
       shell = Epoch([scope |-> scope, ready |-> TRUE, launcher |-> FALSE,
                      command |-> FALSE, editing |-> None, draft |-> None, error |-> FALSE,
                      busy |-> FALSE, loaded |-> FALSE, revision |-> 0, value |-> Default,
                      calls |-> <<>>])

Value == IF shell.draft # None THEN shell.draft ELSE shell.value

-----------------------------------------------------------------------------
(* useConsolePreferences.                                                   *)

CanSave == shell.loaded /\ ~shell.busy /\ Len(shell.calls) < MaxCalls

Saving(s, next) ==
  [s EXCEPT !.busy = TRUE, !.error = FALSE,
     !.calls = Append(@, [scope |-> s.scope, value |-> next, against |-> s.revision,
                          live |-> TRUE, written |-> 0])]

Remaining(i) == SubSeq(shell.calls, 1, i - 1) \o SubSeq(shell.calls, i + 1, Len(shell.calls))

ReadAnswers(i) ==
  /\ i \in DOMAIN shell.calls /\ shell.calls[i].value = None
  /\ LET call == shell.calls[i]
         told == [shell EXCEPT !.calls = Remaining(i)]
         last == Len(stored[call.scope])
     IN  shell' \in IF ~call.live THEN {told}
                    ELSE {[told EXCEPT !.error = TRUE],
                          [told EXCEPT !.loaded = TRUE, !.value = stored[call.scope][last],
                                       !.revision = last]}
  /\ UNCHANGED stored

(* The store carries a save out when the revision is still the same.        *)
StoreSaves(i) ==
  /\ i \in DOMAIN shell.calls
  /\ LET call == shell.calls[i]
     IN  /\ call.value # None /\ call.written = 0
         /\ call.against = Len(stored[call.scope]) /\ call.against < MaxRevision
         /\ stored' = [stored EXCEPT ![call.scope] = Append(@, call.value)]
         /\ shell' = [shell EXCEPT !.calls[i].written = call.against + 1]

SavedAnyway(call, told) ==   \* mutant: the epoch is not looked at
  [told EXCEPT !.busy = FALSE, !.draft = None, !.editing = None,
               !.value = call.value, !.revision = call.written]

Saved(call, told) ==
  IF ~call.live THEN told
  ELSE [told EXCEPT !.busy = FALSE, !.draft = None, !.editing = None,
                    !.value = call.value, !.revision = call.written]

SaveAnswers(i) ==
  /\ i \in DOMAIN shell.calls /\ shell.calls[i].written # 0
  /\ shell' = Saved(shell.calls[i], [shell EXCEPT !.calls = Remaining(i)])
  /\ UNCHANGED stored

(* A conflict, an answer that does not say what was asked, or none at all:  *)
(* the save may have been carried out all the same.                         *)
SaveFails(i) ==
  /\ i \in DOMAIN shell.calls /\ shell.calls[i].value # None
  /\ LET told == [shell EXCEPT !.calls = Remaining(i)]
     IN  shell' = IF shell.calls[i].live THEN [told EXCEPT !.busy = FALSE, !.error = TRUE]
                  ELSE told
  /\ UNCHANGED stored

OtherTabSaves(scope, value) ==
  /\ Len(stored[scope]) < MaxRevision
  /\ stored' = [stored EXCEPT ![scope] = Append(@, value)]
  /\ UNCHANGED shell

-----------------------------------------------------------------------------
(* The dock's own views. Command covers the launcher; while one edits, the  *)
(* launcher does not close. To follow a destination closes the launcher or  *)
(* Command, whichever it is in.                                             *)

ChangeOpen(open) ==
  /\ shell.launcher # open /\ ~shell.command /\ (shell.editing # None => open)
  /\ shell' = [shell EXCEPT !.launcher = open] /\ UNCHANGED stored

OpenCommand ==
  /\ shell.ready /\ ~shell.command
  /\ shell' = [shell EXCEPT !.command = TRUE] /\ UNCHANGED stored

CloseCommand == shell.command /\ shell' = [shell EXCEPT !.command = FALSE] /\ UNCHANGED stored

(* A preset, from the dock, the launcher or Command, and the mode: changed  *)
(* on the page and saved at once.                                           *)
SelectPreset(value) ==
  /\ shell.ready /\ CanSave /\ shell.editing = None /\ value # Value
  /\ shell' = Saving([shell EXCEPT !.draft = value, !.command = FALSE], value)
  /\ UNCHANGED stored

(* changeView: the editor works on a draft of its own, which a failed save, *)
(* a conflict included, leaves as it is.                                    *)
StartEditing ==
  /\ shell.ready /\ shell.loaded /\ ~shell.busy /\ ~shell.command /\ shell.editing = None
  /\ shell' = [shell EXCEPT !.launcher = TRUE, !.editing = Value] /\ UNCHANGED stored

Editing == shell.editing # None /\ ~shell.command /\ ~shell.busy

Edit(value) ==
  /\ Editing /\ value # shell.editing
  /\ shell' = [shell EXCEPT !.editing = value] /\ UNCHANGED stored

CancelEditing ==         \* or Escape
  /\ Editing /\ shell' = [shell EXCEPT !.editing = None] /\ UNCHANGED stored

SaveEdits == Editing /\ CanSave /\ shell' = Saving(shell, shell.editing) /\ UNCHANGED stored

(* Discards the draft that was not saved.                                   *)
Reload ==
  /\ shell.error /\ ~shell.busy /\ ~shell.command /\ shell.launcher /\ shell.ready
  /\ Len(shell.calls) < MaxCalls
  /\ shell' = Epoch(shell) /\ UNCHANGED stored

-----------------------------------------------------------------------------
(* The session. Another scope is another epoch; while it is not ready the   *)
(* dock is not there, and what was open has closed.                         *)

ChangeScope(scope) ==
  /\ scope # shell.scope /\ Len(shell.calls) < MaxCalls
  /\ shell' = Epoch([Closed(shell) EXCEPT !.scope = scope]) /\ UNCHANGED stored

SessionChanges ==
  shell' = [Closed(shell) EXCEPT !.ready = ~@] /\ UNCHANGED stored

Next ==
  \/ \E i \in 1..MaxCalls : ReadAnswers(i) \/ StoreSaves(i) \/ SaveAnswers(i) \/ SaveFails(i)
  \/ \E open \in BOOLEAN : ChangeOpen(open)
  \/ OpenCommand \/ CloseCommand \/ StartEditing \/ CancelEditing \/ SaveEdits
  \/ Reload \/ SessionChanges
  \/ \E value \in Values : SelectPreset(value) \/ Edit(value)
  \/ \E scope \in Scopes : ChangeScope(scope) \/ \E value \in Values : OtherTabSaves(scope, value)

Spec == Init /\ [][Next]_vars

-----------------------------------------------------------------------------
(* The preferences on the page are a version that was stored for the person *)
(* who is signed in, whichever calls answer late; a change of them that is  *)
(* not stored is being saved, or the page says that it was not.             *)
PreferencesAreOwn ==
  /\ shell.loaded => /\ shell.revision \in DOMAIN stored[shell.scope]
                     /\ shell.value = stored[shell.scope][shell.revision]
  /\ shell.draft # None => shell.busy \/ shell.error

(* Edits end because the person says so or is gone, or are stored.          *)
EditsAreKept ==
     shell.editing # None /\ shell'.editing = None
       => \/ CancelEditing \/ Reload \/ SessionChanges
          \/ \E scope \in Scopes : ChangeScope(scope)
          \/ shell'.loaded /\ shell'.value = shell.editing
=============================================================================
