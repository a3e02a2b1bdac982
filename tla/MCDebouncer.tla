----------------------------- MODULE MCDebouncer -----------------------------
(* The debouncer alone, with callers that Trigger and Stop at any time:     *)
(* one key, and three timers, so that a late callback meets a successor.    *)
EXTENDS Debouncer
=============================================================================
