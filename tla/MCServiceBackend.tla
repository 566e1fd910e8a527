-------------------------- MODULE MCServiceBackend --------------------------
(* Goroutines that share one client of the context service.                *)
EXTENDS ServiceBackend

CONSTANTS a, b

TwoCallers == {a, b}
=============================================================================
