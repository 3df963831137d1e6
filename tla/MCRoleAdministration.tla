------------------------ MODULE MCRoleAdministration ------------------------
(***************************************************************************)
(* Instances of RoleAdministration for TLC: the pairs and filters clients  *)
(* submit, and the symmetry of users and requests.                         *)
(***************************************************************************)
EXTENDS RoleAdministration, TLC

MCGrantable == {<<"operator", "user:change_role">>,
                <<"operator", "user:read">>}

\* One of the submitted pairs has an empty action.
MCEmptyAction == {<<"operator", "user:read">>, <<"admin", "">>}

MCFilters == {{}, {"admin", Unparsable}}

Symmetry == Permutations(Users) \cup Permutations(Requests)
=============================================================================
