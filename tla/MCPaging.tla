------------------------------ MODULE MCPaging ------------------------------
(***************************************************************************)
(* Instances of Paging for TLC.                                            *)
(***************************************************************************)
EXTENDS Paging, TLC

CONSTANTS d1,       \* a client: the walks of several do not interact
          w1, w2    \* writers

\* Walks from the first page, in pages of each size; walks that begin behind
\* the last row, so far that the offset wraps around to a row, or to less than
\* zero, or not that far; sizes and pages the validators refuse.
AllWalks ==
  [table : Tables, first : {1}, size : {1, 2}]
    \cup {[table |-> "accounts", first |-> MaxInt, size |-> 3],
          [table |-> "entries", first |-> MaxInt, size |-> 2],
          [table |-> "accounts", first |-> 3, size |-> 2],
          [table |-> "entries", first |-> 0, size |-> 1],
          [table |-> "entries", first |-> 1, size |-> 3],
          [table |-> "accounts", first |-> 1, size |-> 0]}

WriterSymmetry == Permutations(Writers)
=============================================================================
