---------------------------- MODULE MCLifecycle -----------------------------
(* Lifecycle for TLC: three sessions at one time and a queue of two.        *)
EXTENDS Lifecycle

CONSTANTS s1, s2, s3
=============================================================================
