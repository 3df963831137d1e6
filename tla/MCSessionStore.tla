--------------------------- MODULE MCSessionStore ---------------------------
(* Small instances of the Redis session store for TLC. *)
EXTENDS SessionStore, TLC

\* Identifiers are interchangeable: they are only compared for equality.
Symmetry == Permutations(Users) \cup Permutations(Sessions)
              \cup Permutations(JTIs)

=============================================================================
