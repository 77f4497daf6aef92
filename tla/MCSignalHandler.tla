--------------------------- MODULE MCSignalHandler ---------------------------
(* Two threads, SIGINT and one other signal: see MCSignalHandler.cfg.      *)
EXTENDS SignalHandler
=============================================================================
