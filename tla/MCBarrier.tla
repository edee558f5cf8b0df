----------------------------- MODULE MCBarrier ------------------------------
(* Barrier on four threads. *)
EXTENDS Barrier

CONSTANTS t1, t2, t3, t4

FourThreads == {t1, t2, t3, t4}

=============================================================================
