-------------------------- MODULE MCSessionManager --------------------------
(***************************************************************************)
(* SessionManager with two worker threads and two sessions to go between;  *)
(* one thread, or one session, where that is enough to show a finding.     *)
(***************************************************************************)
EXTENDS SessionManager

CONSTANTS c1, c2, extended, programming

OneCaller == {c1}
TwoCallers == {c1, c2}
OneSession == {extended}
TwoSessions == {extended, programming}

=============================================================================
