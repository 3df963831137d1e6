--------------------------- MODULE MCUserRecords ---------------------------
(* UserRecords for TLC. *)
EXTENDS UserRecords, TLC

\* Requests and accounts are interchangeable.
MCSymmetry == Permutations(Procs) \cup Permutations(UserIds)

=============================================================================
