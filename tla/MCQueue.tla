------------------------------ MODULE MCQueue ------------------------------
(***************************************************************************)
(* Instances of BoundedBlockingQueue for TLC: which threads, elements and  *)
(* capacities the runs use is set in the .cfg files.                       *)
(***************************************************************************)
EXTENDS BoundedBlockingQueue, TLC

\* Threads of one role and elements are interchangeable: no definition of the
\* queue orders or names them.  Only for runs without liveness properties.
Symmetry ==
  Permutations(Producers) \cup Permutations(Consumers)
    \cup Permutations(Closers) \cup Permutations(Items)
=============================================================================
