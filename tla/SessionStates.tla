---------------------------- MODULE SessionStates ----------------------------
(***************************************************************************)
(* The life of one terminal session, as the State constants of             *)
(* internal/session/session.go name it, and the order in which the code    *)
(* can move through them.  Constant-level: every session module extends it. *)
(***************************************************************************)
EXTENDS Naturals

Connecting     == "connecting"
Authenticating == "authenticating"
Established    == "established"
Closing        == "closing"
Closed         == "closed"
Failed         == "failed"

States == {Connecting, Authenticating, Established, Closing, Closed, Failed}

(***************************************************************************)
(* One step of the life.  Close may cut in anywhere before Closing, and a  *)
(* failed session can still be closed by its owner.                        *)
(***************************************************************************)
Successors == [s \in States |->
    CASE s = Connecting     -> {Authenticating, Failed, Closing}
      [] s = Authenticating -> {Established, Failed, Closing}
      [] s = Established    -> {Closing}
      [] s = Failed         -> {Closing}
      [] s = Closing        -> {Closed}
      [] s = Closed         -> {}]

(* The transitive closure of Successors: what may still come after s.      *)
Later == [s \in States |->
    CASE s = Connecting     -> States \ {Connecting}
      [] s = Authenticating -> {Established, Failed, Closing, Closed}
      [] s = Established    -> {Closing, Closed}
      [] s = Failed         -> {Closing, Closed}
      [] s = Closing        -> {Closed}
      [] s = Closed         -> {}]

(* b is s or may come after it.                                            *)
Reaches(s, b) == b = s \/ b \in Later[s]
=============================================================================
