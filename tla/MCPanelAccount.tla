--------------------------- MODULE MCPanelAccount ---------------------------
(* Instances of PanelAccount for TLC. *)
EXTENDS PanelAccount, TLC

\* Requests, user names and passwords are interchangeable.
Symmetry == Permutations(Handlers) \cup Permutations(Users) \cup Permutations(Passwords)

=============================================================================
