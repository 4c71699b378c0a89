------------------------ MODULE MCAdministrationAccess ------------------------
(* An owner, a deputy he makes an administrator, and a third account; an   *)
(* agent of the deputy; one custom role that is granted and rewritten.     *)
EXTENDS AdministrationAccess, TLC

CONSTANTS owner, deputy, other, custom

Ask(method, caller, subject, role, permissions) ==
  [method |-> method, caller |-> caller, entry |-> "human", scopes |-> {},
   subject |-> subject, role |-> role, permissions |-> permissions]

ByAgent(r) == [r EXCEPT !.entry = "agent", !.scopes = ReadOnly \cup {"members.write"}]

MCRequests ==
  {Ask("membersPromote", owner, deputy, "administrator", {}),
   Ask("membersPromote", owner, other, custom, {}),
   Ask("membersSet", deputy, other, custom, {}),
   ByAgent(Ask("membersSet", deputy, other, "readonly", {})),
   Ask("membersRevoke", owner, owner, "readonly", {}),
   Ask("membersRevoke", owner, deputy, "readonly", {}),
   Ask("usersDisable", owner, other, "readonly", {}),
   Ask("rolesSave", owner, deputy, custom, Actions \ {"members.promote"}),
   Ask("accessRead", deputy, other, "readonly", {})}

Symmetry == Permutations(Calls)
=============================================================================
