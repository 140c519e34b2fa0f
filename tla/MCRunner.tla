------------------------------ MODULE MCRunner ------------------------------
(* Small instances for the runs of Runner.                                  *)
EXTENDS Runner, TLC

(* One plugin without a priority, two with. *)
SomePriorities == "second" :> 0 @@ "third" :> 1
=============================================================================
