-------------------------- MODULE MCSafeLoopClients --------------------------
(* One call on each client for TLC; calls share nothing.                       *)
EXTENDS SafeLoopClients

MCRequests   == {"operator", "cli"}
MCByOperator == {"operator"}
=============================================================================
