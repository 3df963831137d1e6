------------------------- MODULE MCAccountWorkflows -------------------------
(* Small instances of the account workflows for TLC. *)
EXTENDS AccountWorkflows, TLC

\* Identifiers and requests are only compared for equality.
Symmetry == Permutations(Clients) \cup Permutations(Managers)
              \cup Permutations(Sessions) \cup Permutations(JTIs)

\* Two more claims that overlapping changes break, as SuspensionFailsClosed:
\* TLC refutes each in the instance of MCAccountTwoManagers.cfg.

\* The tombstone of a deletion holds ("a late login cannot create a usable
\* session", DeleteUser).
DeletionFailsClosed ==
    \A u \in Users : row[u].status = "deleted" => ShutOut(u)

\* Whoever is active and not about to be suspended or deleted may log in
\* (ChangeStatus).
ActivationLetsIn ==
    \A u \in Users : row[u].status = "active" /\ access[u].blocked
                        => Blocking(u)

=============================================================================
