------------------------------- MODULE WalkTrail -------------------------------
(***************************************************************************)
(* What live tracking promises of the samples the server has accepted and  *)
(* shown: each is held until it is stored, and what is stored is what a    *)
(* flush has read of the polyline with samples of its own.  A flush whose  *)
(* view is the polyline of the moment loses nothing; one whose view is     *)
(* older undoes what was stored since, and may bring back what was undone. *)
(* The death of the process loses what is held.                            *)
(***************************************************************************)
CONSTANT Sample

VARIABLES
    held,      \* accepted, not stored
    stored,    \* in the polyline of the walk
    views      \* what the flushes under way have read of the polyline

Init ==
    /\ held = {}
    /\ stored = {}
    /\ views = {}

Accept(t) ==
    /\ t \notin held \cup stored
    /\ held' = held \cup {t}
    /\ UNCHANGED <<stored, views>>

Look ==
    /\ views' = views \cup {stored}
    /\ UNCHANGED <<held, stored>>

(* The samples S are stored over the view v.  Of those undone by that, the *)
(* ones that a failed flush has kept are held again.                       *)
Store(v, S) ==
    /\ S \subseteq held \cup stored
    /\ stored' = v \cup S
    /\ held \ stored' \subseteq held'
    /\ held' \subseteq (held \cup stored) \ stored'
    /\ views' \in {views, views \ {v}}

GiveUp(v) ==
    /\ views' = views \ {v}
    /\ UNCHANGED <<held, stored>>

Crash ==
    /\ held' = {}
    /\ views' = {}
    /\ UNCHANGED stored

Next ==
    \/ \E t \in Sample : Accept(t)
    \/ Look
    \/ \E v \in views : GiveUp(v) \/ \E S \in SUBSET Sample : Store(v, S)
    \/ Crash

Spec == Init /\ [][Next]_<<held, stored, views>>

=============================================================================
