-------------------------- MODULE OwnedOrganization --------------------------
(***************************************************************************)
(* What a shared organization promises the people in it: it always has an  *)
(* owner, and people come, go and change role one at a time.               *)
(*                                                                         *)
(* No requests, locks, invitations or historical rows are mentioned.       *)
(***************************************************************************)
EXTENDS Integers

CONSTANTS Organization, User

VARIABLE roster   \* the role of each account in each organization, or "none"

Absent == [u \in User |-> "none"]
Owners(o) == {u \in User : roster[o][u] = "owner"}

Init == roster = [o \in Organization |-> Absent]

\* An organization begins with one owner and nobody else.
Found(o, u) ==
    /\ roster[o] = Absent
    /\ roster' = [roster EXCEPT ![o][u] = "owner"]

\* Somebody joins, never as an owner.
Join(o, u) ==
    /\ roster[o] # Absent
    /\ roster[o][u] = "none"
    /\ \E role \in {"admin", "member"} : roster' = [roster EXCEPT ![o][u] = role]

\* One member leaves or is given another role, and an owner remains.
Change(o, u) ==
    /\ roster[o][u] # "none"
    /\ \E role \in {"none", "member", "admin", "owner"} :
        /\ roster' = [roster EXCEPT ![o][u] = role]
        /\ role # "owner" => Owners(o) \ {u} # {}

Next ==
    /\ roster' # roster
    /\ \E o \in Organization, u \in User : Found(o, u) \/ Join(o, u) \/ Change(o, u)

Spec == Init /\ [][Next]_roster
============================================================================
