-------------------------- MODULE MCModuleRegistry --------------------------
(***************************************************************************)
(* ModuleRegistry with manifests that meet every early return: two modules *)
(* that share an interface, one without interfaces, one that declares an   *)
(* interface twice and one that does not validate.                         *)
(***************************************************************************)
EXTENDS ModuleRegistry

CONSTANTS two, newer, empty, same, twice, malformed, x, y

Entry(key, version) == [key |-> key, version |-> version]

Manifests ==
    [m \in {two, newer, empty, same, twice, malformed} |->
        CASE m = two   -> [query |-> FALSE, valid |-> TRUE, entries |-> <<Entry(x, 1), Entry(y, 1)>>]
          [] m = newer -> [query |-> TRUE, valid |-> TRUE, entries |-> <<Entry(x, 2)>>]
          [] m = empty -> [query |-> TRUE, valid |-> TRUE, entries |-> <<>>]
          [] m = same  -> [query |-> FALSE, valid |-> TRUE, entries |-> <<Entry(x, 2), Entry(y, 1)>>]
          [] m = twice -> [query |-> FALSE, valid |-> TRUE, entries |-> <<Entry(x, 1), Entry(x, 1)>>]
          [] OTHER     -> [query |-> TRUE, valid |-> FALSE, entries |-> <<>>]]

MCControls == {two, newer, empty, same, twice, malformed}
=============================================================================
