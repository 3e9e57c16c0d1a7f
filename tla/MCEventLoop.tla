---------------------------- MODULE MCEventLoop ----------------------------
(* Instances of EventLoop for TLC. *)
EXTENDS EventLoop, TLC

\* Coroutines, storage and operation names are interchangeable.
Symmetry ==
    Permutations(Coroutines) \cup Permutations(Listeners)
        \cup Permutations(Signals) \cup Permutations(OpIds)

============================================================================
