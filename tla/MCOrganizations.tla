--------------------------- MODULE MCOrganizations ---------------------------
(***************************************************************************)
(* Instances of Organizations for TLC.  Identifiers are drawn at random by *)
(* the code and only compared for equality, so permuting those of one kind *)
(* does not change a behaviour.                                            *)
(***************************************************************************)
EXTENDS Organizations, TLC

Symmetry == Permutations(User) \cup Permutations(Organization)
                \cup Permutations(Membership) \cup Permutations(Invitation)
                \cup Permutations(Request)

\* How often something has come to an end: an account anonymized, a membership
\* revoked, an invitation expired.  The instance explores what follows one.
Endings ==
    Cardinality({u \in User : accounts[u] = "anonymized"})
    + Cardinality({m \in Membership : Exists(memberships, m) /\ memberships[m].revoked})
    + Cardinality({i \in Invitation : Exists(invitations, i) /\ invitations[i].expired})

OneEnding == Endings <= 1
=============================================================================
