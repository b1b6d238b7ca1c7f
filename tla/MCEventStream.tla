----------------------------- MODULE MCEventStream -----------------------------
(* Small instances of EventStream for TLC.                                 *)
EXTENDS EventStream, TLC

\* Streams run the same code.
Symmetry == Permutations(Streams)
===============================================================================
