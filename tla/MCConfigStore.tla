--------------------------- MODULE MCConfigStore ---------------------------
(* Instances of ConfigStore for TLC. *)
EXTENDS ConfigStore, TLC

\* Updaters, inodes and session keys are interchangeable.
Symmetry == Permutations(Updaters) \cup Permutations(Inodes)
                \cup Permutations(SessionKeys)

=============================================================================
