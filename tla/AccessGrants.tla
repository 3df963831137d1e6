---------------------------- MODULE AccessGrants ----------------------------
(***************************************************************************)
(* What the session store promises to the rest of the program, without     *)
(* keys, lifetimes or generations: a set of token identities that are      *)
(* honoured.  An identity is honoured from the moment it is issued until   *)
(* it is renewed, withdrawn or its user is blocked, and never again after. *)
(***************************************************************************)

CONSTANTS Users, Sessions, JTIs, Versions

VARIABLES
    issued,     \* identities handed out so far
    honoured,   \* identities a request may use now
    blocked     \* users who can neither use nor obtain an identity

grants == <<issued, honoured, blocked>>

Identities == [user: Users, sid: Sessions, jti: JTIs, cred: Versions]

Of(u) == {c \in honoured : c.user = u}
Unused(j) == \A c \in issued : c.jti # j

Init ==
    /\ issued = {}
    /\ honoured = {}
    /\ blocked = {}

\* A login: a new session of a user who is not blocked.
Grant(c) ==
    /\ c.user \notin blocked
    /\ Unused(c.jti)
    /\ \A d \in issued : d.sid # c.sid
    /\ issued' = issued \cup {c}
    /\ honoured' = honoured \cup {c}
    /\ UNCHANGED blocked

\* A refresh: the identity that was presented stops being honoured in the
\* same step in which its successor starts.
Renew(c, j) ==
    LET d == [c EXCEPT !.jti = j]
    IN  /\ c \in honoured
        /\ Unused(j)
        /\ issued' = issued \cup {d}
        /\ honoured' = (honoured \ {c}) \cup {d}
        /\ UNCHANGED blocked

\* Logout, revocation, expiry: some identities stop being honoured.
Withdraw ==
    /\ honoured' \subseteq honoured
    /\ UNCHANGED <<issued, blocked>>

\* Suspension or deletion: the user is shut out in one step.
Block(u) ==
    /\ blocked' = blocked \cup {u}
    /\ honoured' = honoured \ Of(u)
    /\ UNCHANGED issued

\* Reactivation gives nothing back.
Unblock(u) ==
    /\ blocked' = blocked \ {u}
    /\ UNCHANGED <<issued, honoured>>

\* The store lost its data: nothing is honoured and no block is remembered.
Forget ==
    /\ honoured' = {}
    /\ blocked' = {}
    /\ UNCHANGED issued

Next ==
    \/ \E c \in Identities : Grant(c)
    \/ \E c \in Identities, j \in JTIs : Renew(c, j)
    \/ Withdraw
    \/ \E u \in Users : Block(u) \/ Unblock(u)
    \/ Forget

Spec == Init /\ [][Next]_grants

=============================================================================
