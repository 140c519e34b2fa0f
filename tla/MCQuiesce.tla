------------------------------ MODULE MCQuiesce ------------------------------
(* Small namespaces for the runs of Quiesce.                                *)
EXTENDS Quiesce, TLC

(* Two callers compete for a StatefulSet and a DaemonSet. *)
PairObjs == {"sts", "ds"}
PairKind == "sts" :> "StatefulSet" @@ "ds" :> "DaemonSet"
PairOwner == [o \in PairObjs |-> None]

(* Every order of sweeps matters for a CronJob with its Job; a Deployment   *)
(* has a ReplicaSet that lags behind; and nobody sweeps the bare            *)
(* ReplicationController.                                                   *)
LiveObjs == {"cron", "job", "dep", "rs", "bare"}
LiveKind == "cron" :> "CronJob" @@ "job" :> "Job"
         @@ "dep" :> "Deployment" @@ "rs" :> "ReplicaSet"
         @@ "bare" :> "ReplicationController"
LiveOwner == "cron" :> None @@ "job" :> "cron" @@ "dep" :> None @@ "rs" :> "dep"
          @@ "bare" :> None

(* One Job, for a disagreement between a comment and the code. *)
OneObj == {"obj"}
OneOwner == [o \in OneObj |-> None]
OneJob == "obj" :> "Job"

Symmetry == Permutations(Procs)
=============================================================================
