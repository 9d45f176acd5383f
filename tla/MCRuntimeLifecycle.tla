------------------------- MODULE MCRuntimeLifecycle -------------------------
(* Two application threads and three runtimes one after the other.         *)
EXTENDS RuntimeLifecycle
=============================================================================
