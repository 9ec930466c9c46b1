---------------------------- MODULE MCPaperOrders ----------------------------
(* Instances of PaperOrders for TLC. *)
EXTENDS PaperOrders, TLC

CONSTANTS s1, s2, o1, o2, o3, c1, c2, c3, c4, c5, c6, c7

(* Orders are interchangeable, and so are signals.  Calls are interchangeable *)
(* too: a position is named by the call that inserted it, whichever it was. *)
Symmetric == Permutations(Signals) \union Permutations(Orders) \union Permutations(Calls)

=============================================================================
