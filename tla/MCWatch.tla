------------------------------ MODULE MCWatch ------------------------------
(* The watch of a small cluster, for model checking: the master process and *)
(* one server more, and the faults of the runs.                             *)
EXTENDS Watch

Any == {"crash", "restart", "break"}

OneFault == <<Any>>
OneFaultOrSilence == <<Any \union {"silence"}>>
ProcessFaultFirst == <<{"crash", "restart"}, Any>>
=============================================================================
