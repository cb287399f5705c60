------------------------ MODULE MCSessionSupervisor ------------------------
(* Model-checking instance of SessionSupervisor.  The loop is checked with *)
(* the code's MAX_RETRY_COUNT = 10 for one session (sessions share no     *)
(* state in this module), and with two sessions and a smaller bound for   *)
(* what depends on all sessions together (ManagerReturns).                *)
EXTENDS SessionSupervisor

CONSTANTS s1, s2

OneSession == {s1}
TwoSessions == {s1, s2}

\* No argument, a positive duration written with a '+', and zero.
MCArgs == {<<"crypto-feeder">>, <<"crypto-feeder", "+5">>, <<"crypto-feeder", "0">>}

=============================================================================
