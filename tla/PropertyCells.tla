--------------------------- MODULE PropertyCells ---------------------------
(***************************************************************************)
(* What a callback object promises about its own (Parent) properties, as  *)
(* spec.md describes lazy materialization: each name is a cell, either    *)
(* unresolved or holding a value with attributes.                          *)
(*                                                                         *)
(*  - Resolution happens at most once per cell and yields a fresh          *)
(*    callable (a static function materialized on first read).             *)
(*  - A script write fills an unresolved cell with no attributes, or       *)
(*    replaces the value of a resolved one that is not read-only, keeping  *)
(*    its attributes.                                                      *)
(*  - A removal empties a resolved cell that is not DontDelete.            *)
(*                                                                         *)
(* Nothing else changes a cell; in particular no read does, once the cell *)
(* is resolved.                                                            *)
(***************************************************************************)
EXTENDS Naturals

CONSTANTS
    Names,          \* property names
    Values,         \* values a script writes
    Callables(_),   \* Callables(k): the callables that can be the k-th made
    Attributes,     \* property attributes
    Nothing,        \* the value of an unresolved cell
    MaxMade         \* bound on callables made

VARIABLES
    cell,           \* cell[n]: Unresolved or [val, attrs]
    made            \* callables made so far

Unresolved == [val |-> Nothing, attrs |-> {}]

Init ==
    /\ cell = [n \in Names |-> Unresolved]
    /\ made = 0

(* A first read of n materializes a fresh callable with the entry's       *)
(* attributes.                                                             *)
Resolve(n) ==
    /\ cell[n] = Unresolved
    /\ made < MaxMade
    /\ made' = made + 1
    /\ \E f \in Callables(made + 1), a \in SUBSET Attributes :
          cell' = [cell EXCEPT ![n] = [val |-> f, attrs |-> a]]

(* A script write.                                                          *)
Write(n) ==
    /\ "ReadOnly" \notin cell[n].attrs
    /\ \E v \in Values : cell' = [cell EXCEPT ![n] = [val |-> v, attrs |-> @.attrs]]
    /\ UNCHANGED made

(* A removal.                                                               *)
Remove(n) ==
    /\ cell[n] # Unresolved
    /\ "DontDelete" \notin cell[n].attrs
    /\ cell' = [cell EXCEPT ![n] = Unresolved]
    /\ UNCHANGED made

Next == \E n \in Names : Resolve(n) \/ Write(n) \/ Remove(n)

Spec == Init /\ [][Next]_<<cell, made>>

=============================================================================
