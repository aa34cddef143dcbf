-------------------------- MODULE MCSessionCommit --------------------------
(* The session commit for TLC: session.cfg has two faults and no write that  *)
(* lands late, session_cancelled.cfg one cancelled call whose write does,    *)
(* and the fairness; session_blocked.cfg checks what the documentation says. *)
EXTENDS SessionCommit
=============================================================================
