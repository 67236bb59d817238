---------------------------- MODULE MCComputeLoop ----------------------------
(* Compute on every demand of a small range.                                *)
EXTENDS ComputeLoop

\* A max_workers written past the app may be anything Atoi accepts.
MCMaxValues == {-1, 0, 1, 2, 3, 4, 5, 7}
=============================================================================
