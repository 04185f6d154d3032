----------------------------- MODULE SessionBadge -----------------------------
(***************************************************************************)
(* What a session promises to listeners that draw its status badge         *)
(* (event.go: "subscribers update the UI badge from Event.State").  The    *)
(* session moves through its life one legal step at a time; each badge     *)
(* follows, possibly late and possibly skipping states (events may be      *)
(* dropped), but it never moves back, never shows a state that cannot lie  *)
(* on the session's way, and never runs ahead of it.                       *)
(***************************************************************************)
EXTENDS SessionStates

CONSTANT Subscribers  (* the listeners                                     *)

VARIABLES phase,  (* the state of the session                              *)
          badge   (* the last state each listener was told                 *)

badgeVars == <<phase, badge>>

BadgeInit == /\ phase = Connecting
             /\ badge = [s \in Subscribers |-> Connecting]

(* The session takes one step of its life.                                 *)
Advance == /\ phase' \in Successors[phase]
           /\ badge' = badge

(* A listener learns of a state on the way from its badge to the phase.    *)
Show(s) == /\ \E t \in Later[badge[s]] :
                /\ Reaches(t, phase)
                /\ badge' = [badge EXCEPT ![s] = t]
           /\ phase' = phase

BadgeNext == Advance \/ \E s \in Subscribers : Show(s)

BadgeSpec == BadgeInit /\ [][BadgeNext]_badgeVars
=============================================================================
