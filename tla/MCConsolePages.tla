--------------------------- MODULE MCConsolePages ---------------------------
(* Each page with one to three of everything, which is enough for an answer *)
(* that comes after another, a page that is left and come back to, and two  *)
(* people who take turns.                                                   *)
EXTENDS ConsolePages

(* Two groups of tabs with one in common, and a page that only one of the   *)
(* tabs leads to.                                                           *)
TabGroups ==
  <<[tabs |-> {"list", "keys"}, related |-> [p \in {"detail"} |-> "list"]],
    [tabs |-> {"home", "keys"}, related |-> [p \in {} |-> "home"]]>>
NavigationItems ==
  {[page |-> "list", pages |-> {"list", "keys", "detail"}],
   [page |-> "home", pages |-> {"home"}], [page |-> "index", pages |-> {"index"}]}
OneWidget == [config |-> [i \in {"i1"} |-> "c1"],
              place |-> [i \in {"i1"} |-> [at |-> 1, size |-> 1]]]

(* The bar is filled for a room that is measured, whatever else the dock    *)
(* does (console-dock.tsx:542): TLC evaluates this once, for every room.    *)
ASSUME BarFits == Dock!BarFits
=============================================================================
