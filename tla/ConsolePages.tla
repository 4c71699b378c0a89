---------------------------- MODULE ConsolePages ----------------------------
(* The pages and the frame around them, one after the other: they share no  *)
(* state, so a behaviour is one of them, and the variables are lent to the  *)
(* one it is. Each property is one hazard, asked of every page that is      *)
(* exposed to it.                                                           *)
EXTENDS Naturals, FiniteSets

CONSTANTS
  None, Settings,
  \* people, pages, and what they see
  Scopes, Mounts, Segments, RoutePages, Index, RouteGroups, Items, SettingPages,
  Preferences, Default, Count, Requests, Jobs, Schedules, Records, Filters, NoFilter,
  RecordPages,
  Runs, Run, Sessions, Loading, SignedOut,
  \* the parts of the frame
  DockViews, Trays, Boxes, Objects, Between, Seats, ActionIds, Refs, Hideable, PresetIds,
  Instances, Configs, DefaultConfig, Columns, Defaults, MaxNodes, MaxDepth, Embedded,
  \* bounds
  MaxRevision, MaxChanges, MaxScopes, MaxSaves, MaxMounts, MaxCalls, MaxSteps,
  MaxTargets, Workers, MaxLoads, MaxClients, MaxSequence, MaxAdmission, MaxLease,
  MaxHeld, MaxKey, MaxExits, MaxPresets, MaxPins, MaxLayouts, MaxMutations

VARIABLES surface,                       \* the page or part this behaviour is of
          first, second, third, fourth   \* its state

Administration == INSTANCE AdministrationPages WITH directory <- first, desk <- second
Authorizing == INSTANCE AuthPages WITH records <- first, auth <- second, calls <- third
Tasks == INSTANCE TaskPage
  WITH jobs <- first, steps <- second, tasks <- third, requests <- fourth
Scheduling == INSTANCE SchedulePanel
  WITH MaxRevision <- MaxChanges, schedules <- first, panel <- second
Lists == INSTANCE ListPages
  WITH Events <- Records, Pages <- RecordPages,
       audit <- first, reads <- second, loads <- first, page <- second
Setup == INSTANCE SetupPage WITH host <- first, adrift <- second, page <- third
Agent == INSTANCE AgentClient
  WITH MaxRevision <- MaxScopes, watch <- first, command <- second,
       host <- first, saved <- second, calls <- third
Admitted == INSTANCE OwnerPages WITH pages <- first
Contexts == INSTANCE OperationContexts
  WITH host <- first, call <- second, panel <- first, inspects <- second
Shell == INSTANCE ConsoleShell
  WITH Values <- Preferences, shell <- first, stored <- second
Routes == INSTANCE ShellRoutes
  WITH Pages <- RoutePages, Groups <- RouteGroups,
       session <- first, path <- second, mount <- third, held <- fourth
Actions == INSTANCE PageActions WITH Ids <- ActionIds, scopes <- first, frame <- second
Dock == INSTANCE ConsoleDock
  WITH Views <- DockViews, dock <- first, pane <- first, surface <- second, bar <- first
Editing == INSTANCE NavigationEditor WITH Ids <- PresetIds, editor <- first
Board == INSTANCE DashboardEditor WITH MaxRevision <- MaxSaves, board <- first
Tables == INSTANCE TableControls WITH filters <- first, host <- first

ASSUME PagesAssumptions ==
  /\ Authorizing!CountAssumption /\ Lists!PagesAssumption /\ Default \in Preferences
  /\ IsFiniteSet(Refs) /\ MaxMutations \in Nat
  /\ Instances \cap {None, "discard", "defaults", "reload"} = {}
  \* nothing is told from everything
  /\ None \notin Nat \cup Mounts \cup Jobs \cup Schedules \cup RoutePages \cup {"result"}
  /\ None \notin Routes!States \cup {"tabs", "object", "fallback", "label", "not-found",
                                    "forbidden", "role", "user", "issue", "token",
                                    "apply", "activate", "discard", "defaults", "reload"}
  /\ None \notin [page : RoutePages, scope : Scopes, key : Nat]
  /\ None \notin [to : Admitted!Locations, value : {None, "handoff"}, admission : Nat]
  /\ None \notin [filter : Filters, cursor : Nat]
  /\ None \notin [job : Jobs, state : Tasks!States]
  /\ None \notin Scopes \cup [client : Nat, status : Setup!Answers]
  /\ None \notin Actions!Values
  /\ None \notin [owner : [seat : Seats, key : Nat], ids : SUBSET ActionIds,
                  busy : SUBSET ActionIds]

-----------------------------------------------------------------------------
vars == <<surface, first, second, third, fourth>>

Init ==
  \/ surface = "administration" /\ Administration!Init
        /\ third = None /\ fourth = None
  \/ surface = "sessions" /\ Authorizing!Init /\ fourth = None
  \/ surface = "tasks" /\ Tasks!Init
  \/ surface = "schedules" /\ Scheduling!Init
        /\ third = None /\ fourth = None
  \/ surface = "audit" /\ Lists!AuditInit /\ third = None /\ fourth = None
  \/ surface = "catalog" /\ Lists!CatalogInit /\ third = None /\ fourth = None
  \/ surface = "setup" /\ Setup!Init /\ fourth = None
  \/ surface = "resume" /\ Agent!ResumeInit /\ fourth = None
  \/ surface = "watch" /\ Agent!WatchInit /\ third = None /\ fourth = None
  \/ surface = "admitted" /\ Admitted!Init
        /\ second = None /\ third = None /\ fourth = None
  \/ surface = "inspect" /\ Contexts!PanelInit /\ third = None /\ fourth = None
  \/ surface = "tools" /\ Contexts!ToolInit /\ third = None /\ fourth = None
  \/ surface = "shell" /\ Shell!Init /\ third = None /\ fourth = None
  \/ surface = "routes" /\ Routes!Init
  \/ surface = "actions" /\ Actions!Init /\ third = None /\ fourth = None
  \/ surface = "context" /\ Dock!BarInit
        /\ second = None /\ third = None /\ fourth = None
  \/ surface = "dock" /\ Dock!Init
        /\ second = None /\ third = None /\ fourth = None
  \/ surface = "pane" /\ Dock!PaneInit /\ third = None /\ fourth = None
  \/ surface = "presets" /\ Editing!Init
        /\ second = None /\ third = None /\ fourth = None
  \/ surface = "board" /\ Board!Init
        /\ second = None /\ third = None /\ fourth = None
  \/ surface = "filters" /\ Tables!FiltersInit
        /\ second = None /\ third = None /\ fourth = None
  \/ surface = "controls" /\ Tables!HostInit
        /\ second = None /\ third = None /\ fourth = None

Next ==
  /\ UNCHANGED surface
  /\ \/ surface = "administration" /\ Administration!Next
        /\ UNCHANGED <<third, fourth>>
     \/ surface = "sessions" /\ Authorizing!Next /\ UNCHANGED fourth
     \/ surface = "tasks" /\ Tasks!Next
     \/ surface = "schedules" /\ Scheduling!Next
        /\ UNCHANGED <<third, fourth>>
     \/ surface = "audit" /\ Lists!AuditNext /\ UNCHANGED <<third, fourth>>
     \/ surface = "catalog" /\ Lists!CatalogNext /\ UNCHANGED <<third, fourth>>
     \/ surface = "setup" /\ Setup!Next /\ UNCHANGED fourth
     \/ surface = "resume" /\ Agent!ResumeNext /\ UNCHANGED fourth
     \/ surface = "watch" /\ Agent!WatchNext /\ UNCHANGED <<third, fourth>>
     \/ surface = "admitted" /\ Admitted!Next
        /\ UNCHANGED <<second, third, fourth>>
     \/ surface = "inspect" /\ Contexts!PanelNext /\ UNCHANGED <<third, fourth>>
     \/ surface = "tools" /\ Contexts!ToolNext /\ UNCHANGED <<third, fourth>>
     \/ surface = "shell" /\ Shell!Next /\ UNCHANGED <<third, fourth>>
     \/ surface = "routes" /\ Routes!Next
     \/ surface = "actions" /\ Actions!Next /\ UNCHANGED <<third, fourth>>
     \/ surface = "context" /\ Dock!BarNext
        /\ UNCHANGED <<second, third, fourth>>
     \/ surface = "dock" /\ Dock!Next /\ UNCHANGED <<second, third, fourth>>
     \/ surface = "pane" /\ Dock!PaneNext /\ UNCHANGED <<third, fourth>>
     \/ surface = "presets" /\ Editing!Next
        /\ UNCHANGED <<second, third, fourth>>
     \/ surface = "board" /\ Board!Next
        /\ UNCHANGED <<second, third, fourth>>
     \/ surface = "filters" /\ Tables!FiltersNext
        /\ UNCHANGED <<second, third, fourth>>
     \/ surface = "controls" /\ Tables!HostNext
        /\ UNCHANGED <<second, third, fourth>>

Spec == Init /\ [][Next]_vars

-----------------------------------------------------------------------------
(* What is on the screen belongs to the person, the address, the object and *)
(* the question it is shown for, whichever answers arrive late: preferences *)
(* (console-preferences.ts:253), the page and the ways out of it            *)
(* (console-shell.tsx:485), admitted pages (console-admission.tsx:354),     *)
(* audit rows (console-audit/react.tsx:99), dialogs over sessions and jobs  *)
(* (pages.tsx:544, console-tasks/react.tsx:216), operation contexts         *)
(* (operation-context.tsx:225), and what an Agent's tool is told            *)
(* (context-tools.ts:174).                                                  *)
ShowsItsOwn ==
  /\ surface = "shell" => Shell!PreferencesAreOwn
  /\ surface = "routes" => Routes!NothingOfferedIsClosed
  /\ surface = "admitted" => Admitted!PagesAreTheirOwn
  /\ surface = "audit" => Lists!ShowsWhatWasAsked
  /\ surface = "sessions" => Authorizing!AsksAboutWhatIsOpen
  /\ surface = "tasks" => Tasks!DialogKeepsItsJob
  /\ surface = "inspect" => Contexts!InspectsItsOwn
  /\ surface = "tools" => Contexts!ToldOfItsPage

(* What is put together from many steps is whole at each of them: a filter  *)
(* (console-filter-model.ts:292), the presets (console-navigation-editor),  *)
(* a dashboard's draft (draft.ts:34), the plugin catalog read by concurrent *)
(* workers (catalog-loader.ts:55), the dock's fading panes                  *)
(* (console-dock.tsx:148) and the context bar on its way                    *)
(* (console-context-bar.tsx:116).                                           *)
StaysWhole ==
  /\ surface = "filters" => Tables!FiltersAreSound
  /\ surface = "presets" => Editing!PresetsAreWhole
  /\ surface = "board" => Board!DraftIsSound
  /\ surface = "catalog" => Lists!CatalogIsWhole
  /\ surface = "pane" => Dock!RestsInUse
  /\ surface = "context" => Dock!RestsWhole

(* What a page does is what the person saw and chose, though time passes    *)
(* between seeing, asking and being answered: administration writes         *)
(* (administration-pages.tsx:2165), revocations and consents (pages.tsx:530)*)
(* changes of schedules (schedules.tsx:101), published actions              *)
(* (console-action-scope.tsx:76), first setup (console-initialization.tsx   *)
(* :207), resumed conversations (session-resume.ts:106), an agent's frames  *)
(* (client.ts:384), navigation of a page that was left (console-shell.tsx   *)
(* :214).                                                                   *)
ActsOnWhatIsShown ==
  [][ /\ surface = "administration" => Administration!DecidedOnWhatIs
      /\ surface = "sessions" => Authorizing!ActsOnWhatIsShown
      /\ surface = "schedules" => Scheduling!ChangesWhatWasSeen
      /\ surface = "actions" => Actions!HandlesReachThePage
      /\ surface = "setup" => Setup!NothingIsAssumed
      /\ surface = "resume" => Agent!SessionsStayInTheirScope
      /\ surface = "watch" => Agent!FramesComeInOrder
      /\ surface = "routes" => Routes!LeftPagesMoveNobody ]_vars

(* After a write whose outcome nobody knows the page looks before it writes *)
(* again (administration-pages.tsx:615, pages.tsx:523,                      *)
(* console-tasks/react.tsx:239): an administration page as long as it is    *)
(* there (what holds of the page after it is said in AdministrationPages),  *)
(* the page of a session before another revocation, the task page before    *)
(* another call about the job. Consents and the disconnection of an         *)
(* application are not held up by the code, and nothing is said of them.    *)
LooksBeforeRepeating ==
  [][ /\ surface = "administration" => Administration!LooksBeforeRepeating
      /\ surface = "sessions" => Authorizing!LooksBeforeRevoking
      /\ surface = "tasks" => Tasks!LooksBeforeRepeating ]_vars

(* Neither a late answer nor something that happens beside it takes away    *)
(* what the person is at: a credential shown once                           *)
(* (administration-pages.tsx:3040), edits of preferences and dashboards     *)
(* (console-shell.tsx:1127, dashboard.tsx:254), pins of destinations hidden *)
(* for now (console-model.ts:351), the open view of the dock                *)
(* (console-dock-view.tsx:440), a table's open controls                     *)
(* (console-table-model.ts:58), what a page has read when the person comes  *)
(* back to it (browser.tsx:168).                                            *)
NothingIsLostUnasked ==
  [][ /\ surface = "administration" => Administration!CredentialIsSeen
      /\ surface = "shell" => Shell!EditsAreKept
      /\ surface = "board" => Board!EditsAreKept
      /\ surface = "presets" => Editing!HiddenPinsStay
      /\ surface = "dock" => Dock!LateAnswersAreHarmless
      /\ surface = "admitted" => Admitted!DataIsKept
      /\ surface = "controls" => Tables!ControlsStayPut ]_vars
=============================================================================
