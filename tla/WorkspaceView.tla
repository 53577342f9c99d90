---------------------------- MODULE WorkspaceView ----------------------------
(***************************************************************************)
(* What a workspace shows the person it belongs to.  A change of its links *)
(* that no other overtakes leaves it showing contents of the sources it is *)
(* linked to and of no other, and all it has shown of those.  One that was *)
(* computed before another took effect may show any stored contents, until *)
(* the links change next.                                                  *)
(*                                                                         *)
(* New contents may appear late: they are shown when the links change.     *)
(***************************************************************************)
EXTENDS Integers

CONSTANTS Workspace, Source, Content, FeedOf

VARIABLES
    stored,   \* the contents there are
    linked,   \* the sources each workspace is linked to
    shown,    \* the contents each workspace shows
    unsettled \* the workspaces whose last change of links was overtaken

Of(S) == {c \in Content : FeedOf[c] \in S}

Init ==
    /\ stored = {}
    /\ linked = [w \in Workspace |-> {}]
    /\ shown = [w \in Workspace |-> {}]
    /\ unsettled = {}

\* Contents arrive, and no workspace shows them yet.
Publish ==
    /\ \E S \in SUBSET Content : stored' = stored \cup S
    /\ UNCHANGED <<linked, shown, unsettled>>

\* One source is linked to a workspace or unlinked from it.
LinksChange(w) ==
    \E s \in Source : \/ linked' = [linked EXCEPT ![w] = @ \cup {s}]
                      \/ linked' = [linked EXCEPT ![w] = @ \ {s}]

\* The links change and the contents are chosen anew.
Relink(w) ==
    /\ LinksChange(w)
    /\ \E new \in SUBSET (stored \cap Of(linked'[w])) :
        /\ shown[w] \cap Of(linked'[w]) \subseteq new
        /\ shown' = [shown EXCEPT ![w] = new]
    /\ unsettled' = unsettled \ {w}
    /\ UNCHANGED stored

\* The links change and the contents are those chosen before another change.
Overtake(w) ==
    /\ LinksChange(w)
    /\ \E new \in SUBSET stored : shown' = [shown EXCEPT ![w] = new]
    /\ unsettled' = unsettled \cup {w}
    /\ UNCHANGED stored

\* A source without contents disappears from the workspaces linked to it.
Withdraw(s) ==
    /\ Of({s}) \cap stored = {}
    /\ linked' = [w \in Workspace |-> linked[w] \ {s}]
    /\ UNCHANGED <<stored, shown, unsettled>>

Next ==
    \/ Publish
    \/ \E w \in Workspace : Relink(w) \/ Overtake(w)
    \/ \E s \in Source : Withdraw(s)

Spec == Init /\ [][Next]_<<stored, linked, shown, unsettled>>
============================================================================
