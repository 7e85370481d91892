----------------------------- MODULE MCLifecycle -----------------------------
(* The three programs that drive a port, each with every failure of        *)
(* port_configure, and rxer_test's loop with and without an end.           *)
EXTENDS Lifecycle
=============================================================================
