--------------------------- MODULE MCStratumSession ---------------------------
(* Two jobs, so that a session can announce the job of the one before it or  *)
(* another one.  All counters of the code keep their real limits.            *)
EXTENDS StratumSession

\* everything goes wrong except that every notification is well formed
WellFormed == AllFaults \ {"badnotify"}
=============================================================================
