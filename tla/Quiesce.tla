------------------------------- MODULE Quiesce -------------------------------
(***************************************************************************)
(* state_transfer/quiesce.go: QuiesceApplications stops every workload of  *)
(* a namespace before its volumes are copied and UnQuiesceApplications     *)
(* starts them again.  Each operation is a sequence of sweeps, one per     *)
(* kind; a sweep lists the namespace once and then updates the listed      *)
(* items one by one from that snapshot.  Callers, users and the cluster's  *)
(* controllers interleave between any two API calls.                       *)
(*                                                                         *)
(* A workload is the part of an API object that the sweeps read or write:  *)
(*   val  replicas / parallelism; 1 or 0 for a CronJob that is not or is   *)
(*        suspended; the user's part of a DaemonSet's node selector        *)
(*   key  the quiesce key is in the DaemonSet's node selector              *)
(*   ann  what the preQuiesce annotation records, NoAnn when absent        *)
(***************************************************************************)
EXTENDS Integers, Sequences, Functions

CONSTANTS
  Objs,         \* the API objects of the namespace
  KindOf,       \* KindOf[o]: the kind of o
  Owner,        \* Owner[o]: the object o is owned by, None if there is none
  None,
  Procs,        \* concurrent callers of the two operations
  MaxReplicas,  \* bound on replica counts and on distinct node selectors
  MaxEdits      \* bound on the edits users make in a behaviour

(* Sweeps that visit the Jobs before the CronJobs that create them, sweeps  *)
(* that forget the Deployments, and an end without the sweep of the Jobs.   *)
StagesJobsFirst == << "Job", "CronJob", "DeploymentConfig", "Deployment",
                      "StatefulSet", "ReplicaSet", "DaemonSet" >>
StagesNoDeployments == << "CronJob", "DeploymentConfig", "StatefulSet",
                          "ReplicaSet", "DaemonSet", "Job" >>
StagesNoJobs == << "CronJob", "DeploymentConfig", "Deployment", "StatefulSet",
                   "ReplicaSet", "DaemonSet" >>

(* The order of the sweeps in both operations. *)
Stages == << "CronJob", "DeploymentConfig", "Deployment", "StatefulSet",
             "ReplicaSet", "DaemonSet", "Job" >>

(* The owner kinds whose pods the final wait counts. *)
PodKinds == {"ReplicationController", "StatefulSet", "ReplicaSet",
             "DaemonSet", "Job"}

(* "Other" stands for pods that are bare or run by a custom controller. *)
Kinds == {"CronJob", "DeploymentConfig", "Deployment", "Other"} \cup PodKinds

NoAnn == -1

ASSUME QuiesceAssumption ==
  /\ KindOf \in [Objs -> Kinds]
  /\ None \notin Objs
  /\ Owner \in [Objs -> Objs \cup {None}]
  /\ \A o \in Objs : Owner[o] # None =>
       \/ KindOf[o] = "ReplicaSet" /\ KindOf[Owner[o]] = "Deployment"
       \/ KindOf[o] = "ReplicationController" /\ KindOf[Owner[o]] = "DeploymentConfig"
       \/ KindOf[o] = "Job" /\ KindOf[Owner[o]] = "CronJob"
  /\ MaxReplicas \in Nat \ {0}
  /\ MaxEdits \in Nat

VARIABLES
  \* the cluster
  objs,        \* the workloads
  exists,      \* the objects that exist (a CronJob creates its Job)
  pods,        \* per object: whether it has pods the wait does not skip
  \* the callers
  pc,          \* "idle", "list", "update", "poll", "done" or "failed"
  op,          \* the operation being run or last run
  stage,       \* the sweep it is in, an index of Stages
  listed,      \* snapshot of the items of the sweep still to be visited
  stale,       \* listed items whose resourceVersion has moved since
  \* history, read by properties only
  opposed,     \* objects a user or an opposite operation wrote meanwhile
  want,        \* the setting the user last chose for each object
  overridden,  \* objects whose choice the annotation no longer can express
  edits        \* number of user edits so far

cluster == << objs, exists, pods >>
callers == << pc, op, stage, listed, stale >>
history == << opposed, want, overridden, edits >>
vars == << cluster, callers, history >>

Ops == {"quiesce", "unquiesce"}
Workload == [val : 0..MaxReplicas, key : BOOLEAN, ann : {NoAnn} \cup 0..MaxReplicas]
Listing == UNION { [S -> Workload] : S \in SUBSET Objs }

TypeOK ==
  /\ objs \in [Objs -> Workload]
  /\ exists \subseteq Objs
  /\ pods \in [Objs -> {"none", "active"}]
  /\ pc \in [Procs -> {"idle", "list", "update", "poll", "done", "failed"}]
  /\ op \in [Procs -> Ops]
  /\ stage \in [Procs -> 1..Len(Stages)]
  /\ listed \in [Procs -> Listing]
  /\ stale \in [Procs -> SUBSET Objs]
  /\ opposed \in [Procs -> SUBSET Objs]
  /\ want \in [Objs -> 0..MaxReplicas]
  /\ overridden \subseteq Objs
  /\ edits \in 0..MaxEdits

-----------------------------------------------------------------------------
(* What the sweeps decide for one listed item and what they write.          *)

OwnedReplicaSet(o) == KindOf[o] = "ReplicaSet" /\ Owner[o] # None

Stopped(o, w) == IF KindOf[o] = "DaemonSet" THEN w.key ELSE w.val = 0

(* What a quiesce sweep writes: DeploymentConfigs to ReplicaSets and Jobs,  *)
(* DaemonSets, CronJobs.                                                    *)
SaveReplicas(w) == [val |-> 0, key |-> w.key, ann |-> w.val]
SaveSelector(w) == [val |-> w.val, key |-> TRUE, ann |-> w.val]
SuspendCronJob(w) == [val |-> 0, key |-> w.key, ann |-> 1]

(* What an unquiesce sweep writes; a running count is left as it is.        *)
RestoreReplicas(w) ==
  [val |-> IF w.val = 0 THEN w.ann ELSE w.val, key |-> w.key, ann |-> NoAnn]
RestoreSelector(w) == [val |-> w.ann, key |-> FALSE, ann |-> NoAnn]
ResumeCronJob(w) == [val |-> 1, key |-> w.key, ann |-> NoAnn]

(* A quiesce sweep that does not skip what is stopped already. *)
ToQuiesceAgain(o, w) == ~OwnedReplicaSet(o)

(* The items a quiesce sweep does not skip.  The guards of CronJobs and     *)
(* Jobs compare pointers to fresh variables and never skip.                 *)
ToQuiesce(o, w) ==
  \/ KindOf[o] \in {"CronJob", "Job"}
  \/ ~Stopped(o, w) /\ ~OwnedReplicaSet(o)

(* An unquiesce sweep that does not look for the annotation. *)
ToUnquiesceAlways(o, w) == ~OwnedReplicaSet(o)

(* The items an unquiesce sweep does not skip. *)
ToUnquiesce(o, w) ==
  /\ w.ann # NoAnn
  /\ ~OwnedReplicaSet(o)
  /\ KindOf[o] = "DaemonSet" => w.key

Quiesced(o, w) ==
  CASE KindOf[o] = "DaemonSet" -> SaveSelector(w)
    [] KindOf[o] = "CronJob"   -> SuspendCronJob(w)
    [] OTHER                   -> SaveReplicas(w)

Unquiesced(o, w) ==
  CASE KindOf[o] = "DaemonSet" -> RestoreSelector(w)
    [] KindOf[o] = "CronJob"   -> ResumeCronJob(w)
    [] OTHER                   -> RestoreReplicas(w)

Selected(k, o, w) == IF k = "quiesce" THEN ToQuiesce(o, w) ELSE ToUnquiesce(o, w)
Rewritten(k, o, w) == IF k = "quiesce" THEN Quiesced(o, w) ELSE Unquiesced(o, w)

-----------------------------------------------------------------------------
EmptyListing == [o \in {} |-> NoAnn]

InitialVals(o) ==
  CASE KindOf[o] = "CronJob" -> 0..1
    [] KindOf[o] = "Other"   -> {1}
    [] OTHER                 -> 0..MaxReplicas

Init ==
  /\ exists = { o \in Objs : KindOf[o] = "Job" => Owner[o] = None }
  /\ want \in { f \in [Objs -> 0..MaxReplicas] : \A o \in Objs :
                   IF Owner[o] = None THEN f[o] \in InitialVals(o)
                   ELSE f[o] = IF o \in exists THEN f[Owner[o]] ELSE 0 }
  /\ objs = [o \in Objs |-> [val |-> want[o], key |-> FALSE, ann |-> NoAnn]]
  /\ pods = [o \in Objs |-> "none"]
  /\ pc = [p \in Procs |-> "idle"]
  /\ op = [p \in Procs |-> "quiesce"]
  /\ stage = [p \in Procs |-> 1]
  /\ listed = [p \in Procs |-> EmptyListing]
  /\ stale = [p \in Procs |-> {}]
  /\ opposed = [p \in Procs |-> {}]
  /\ overridden = {}
  /\ edits = 0

-----------------------------------------------------------------------------
(* The callers.                                                             *)

(* A caller starts an operation; a failed one may be retried. *)
Begin(p, k) ==
  /\ pc[p] \in {"idle", "done", "failed"}
  /\ pc' = [pc EXCEPT ![p] = "list"]
  /\ op' = [op EXCEPT ![p] = k]
  /\ stage' = [stage EXCEPT ![p] = 1]
  /\ opposed' = [opposed EXCEPT ![p] = {}]
  /\ UNCHANGED << cluster, listed, stale, want, overridden, edits >>

Items(k) == { o \in exists : KindOf[o] = k }

(* c.List at the head of a sweep: one snapshot of the kind's items. *)
List(p) ==
  /\ pc[p] = "list"
  /\ pc' = [pc EXCEPT ![p] = "update"]
  /\ listed' = [listed EXCEPT ![p] = Restrict(objs, Items(Stages[stage[p]]))]
  /\ UNCHANGED << cluster, op, stage, stale, history >>

Visiting(p, o) == pc[p] = "update" /\ o \in DOMAIN listed[p]
Without(f, o) == Restrict(f, DOMAIN f \ {o})

(* `continue`: the snapshot says there is nothing to do for this item. *)
SkipItem(p, o) ==
  /\ Visiting(p, o)
  /\ ~Selected(op[p], o, listed[p][o])
  /\ listed' = [listed EXCEPT ![p] = Without(@, o)]
  /\ UNCHANGED << cluster, pc, op, stage, stale, history >>

(* An API server that takes any version of an object for the latest. *)
MovedNever(S) == stale

(* Writing the objects S moves their resourceVersion: whoever has listed   *)
(* them holds a stale copy.                                                 *)
Moved(S) == [q \in Procs |-> stale[q] \cup (S \cap DOMAIN listed[q])]

(* History: o was written against the operations of the callers in P. *)
Opposing(P, o) ==
  [q \in Procs |-> IF q \in P /\ pc[q] \notin {"idle", "failed"}
                   THEN opposed[q] \cup {o} ELSE opposed[q]]

(* c.Update succeeds on the listed version of the item; the reply may still *)
(* be lost, and then the caller returns an error for a write that happened. *)
WriteItem(p, o) ==
  /\ Visiting(p, o)
  /\ Selected(op[p], o, listed[p][o])
  /\ o \notin stale[p]
  /\ objs' = [objs EXCEPT ![o] = Rewritten(op[p], o, listed[p][o])]
  /\ opposed' = Opposing({ q \in Procs : op[q] # op[p] }, o)
  /\ \/ /\ listed' = [listed EXCEPT ![p] = Without(@, o)]
        /\ stale' = Moved({o})
        /\ UNCHANGED pc
     \/ /\ listed' = [listed EXCEPT ![p] = EmptyListing]
        /\ stale' = [Moved({o}) EXCEPT ![p] = {}]
        /\ pc' = [pc EXCEPT ![p] = "failed"]
  /\ UNCHANGED << exists, pods, op, stage, want, overridden, edits >>

Return(p, result) ==
  /\ pc' = [pc EXCEPT ![p] = result]
  /\ listed' = [listed EXCEPT ![p] = EmptyListing]
  /\ stale' = [stale EXCEPT ![p] = {}]
  /\ UNCHANGED << cluster, op, stage, history >>

(* A sweep that goes on to the next item after a Conflict. *)
ConflictIgnored(p, o) ==
  /\ Visiting(p, o)
  /\ Selected(op[p], o, listed[p][o])
  /\ o \in stale[p]
  /\ listed' = [listed EXCEPT ![p] = Without(@, o)]
  /\ UNCHANGED << cluster, pc, op, stage, stale, history >>

(* c.Update of an object that moved since the List: a Conflict, returned.   *)
ConflictItem(p, o) ==
  /\ Visiting(p, o)
  /\ Selected(op[p], o, listed[p][o])
  /\ o \in stale[p]
  /\ Return(p, "failed")

(* Sweeps still to come; one over a kind the namespace never has is a no-op *)
(* and is passed over.                                                      *)
Later(p) == { i \in DOMAIN Stages :
                i > stage[p] /\ \E o \in Objs : KindOf[o] = Stages[i] }

(* The sweep ends; after the last one quiesce waits and unquiesce returns.  *)
EndSweep(p) ==
  /\ pc[p] = "update"
  /\ DOMAIN listed[p] = {}
  /\ \/ \E i \in Later(p) :
           /\ \A j \in Later(p) : i <= j
           /\ stage' = [stage EXCEPT ![p] = i]
           /\ pc' = [pc EXCEPT ![p] = "list"]
     \/ /\ Later(p) = {}
        /\ pc' = [pc EXCEPT ![p] = IF op[p] = "quiesce" THEN "poll" ELSE "done"]
        /\ UNCHANGED stage
  /\ stale' = [stale EXCEPT ![p] = {}]
  /\ UNCHANGED << cluster, op, listed, history >>

(* ensureQuiescedPodsTerminated: pods that no counted kind owns are ignored;*)
(* ended ones are, whatever owns them, and so are none in pods.             *)
PodsTerminated ==
  \A o \in Objs : KindOf[o] \in PodKinds => pods[o] # "active"

(* The wait ends; while pods are active it sleeps and asks again.           *)
PollDone(p) ==
  /\ pc[p] = "poll"
  /\ PodsTerminated
  /\ Return(p, "done")

(* An API call fails, or the process dies: nothing is rolled back.          *)
Abort(p) ==
  /\ pc[p] \in {"list", "update", "poll"}
  /\ Return(p, "failed")

CallerStep(p) ==
  \/ List(p)
  \/ \E o \in Objs : SkipItem(p, o) \/ WriteItem(p, o) \/ ConflictItem(p, o)
  \/ EndSweep(p)
  \/ PollDone(p)

-----------------------------------------------------------------------------
(* Users.                                                                   *)

(* The user sets val of o, and key; annotations are not the user's. *)
UserEdit(o, v, key) ==
  /\ edits < MaxEdits
  /\ edits' = edits + 1
  /\ o \in exists
  /\ << v, key >> # << objs[o].val, objs[o].key >>
  /\ objs' = [objs EXCEPT ![o] = [val |-> v, key |-> key, ann |-> objs[o].ann]]
  /\ want' = [want EXCEPT ![o] = v]
  /\ stale' = Moved({o})
  /\ opposed' = Opposing(Procs, o)
  /\ UNCHANGED << exists, pods, pc, op, stage, listed >>

(* A user scales, suspends or resumes a workload.  Setting it to zero while *)
(* an annotation is present looks exactly like our own quiesce.             *)
UserScale(o, v) ==
  /\ KindOf[o] \notin {"DaemonSet", "Other"}
  /\ Owner[o] = None \/ KindOf[o] = "Job"
  /\ v \in InitialVals(o)
  /\ UserEdit(o, v, FALSE)
  /\ overridden' = IF v = 0 /\ objs[o].ann # NoAnn
                   THEN overridden \cup {o} ELSE overridden \ {o}

(* A user replaces a DaemonSet's node selector, the quiesce key included.   *)
UserReplaceSelector(o, v) ==
  /\ KindOf[o] = "DaemonSet"
  /\ UserEdit(o, v, FALSE)
  /\ overridden' = overridden \ {o}

(* A user edits the other keys of the selector of a quiesced DaemonSet.     *)
UserPatchSelector(o, v) ==
  /\ KindOf[o] = "DaemonSet"
  /\ objs[o].key
  /\ UserEdit(o, v, TRUE)
  /\ overridden' = overridden \cup {o}

UserStep ==
  \E o \in Objs, v \in 0..MaxReplicas :
    UserScale(o, v) \/ UserReplaceSelector(o, v) \/ UserPatchSelector(o, v)

-----------------------------------------------------------------------------
(* The cluster's controllers.  Each of their writes moves resourceVersions. *)

(* Deployments scale their ReplicaSet and copy their annotations to it;     *)
(* DeploymentConfigs scale their ReplicationController.                     *)
Propagate(o) ==
  /\ KindOf[o] \in {"ReplicaSet", "ReplicationController"}
  /\ Owner[o] # None
  /\ objs[o] # objs[Owner[o]]
  /\ objs' = [objs EXCEPT ![o] = objs[Owner[o]]]
  /\ want' = [want EXCEPT ![o] = objs[Owner[o]].val]
  /\ stale' = Moved({o, Owner[o]})
  /\ UNCHANGED << exists, pods, pc, op, stage, listed, opposed, overridden, edits >>

(* A CronJob that is not suspended creates its Job. *)
CronJobFires(o) ==
  /\ KindOf[o] = "Job"
  /\ o \notin exists
  /\ ~Stopped(Owner[o], objs[Owner[o]])
  /\ exists' = exists \cup {o}
  /\ objs' = [objs EXCEPT ![o] = [val |-> 1, key |-> FALSE, ann |-> NoAnn]]
  /\ want' = [want EXCEPT ![o] = 1]
  /\ stale' = Moved({Owner[o]})
  /\ UNCHANGED << pods, pc, op, stage, listed, opposed, overridden, edits >>

PodStep(o, from, to) ==
  /\ o \in exists
  /\ KindOf[o] \in PodKinds \cup {"Other"}
  /\ pods[o] = from
  /\ pods' = [pods EXCEPT ![o] = to]
  /\ stale' = Moved({o, Owner[o]})
  /\ UNCHANGED << objs, exists, pc, op, stage, listed, history >>

(* Pods are started and, when they have ended, replaced. *)
PodStart(o) == ~Stopped(o, objs[o]) /\ PodStep(o, "none", "active")

(* The pods of a workload that is stopped are deleted. *)
PodStop(o) == Stopped(o, objs[o]) /\ PodStep(o, "active", "none")

(* The pods of any workload reach a phase that the wait skips: a Job's are  *)
(* done in the end, others fail when they are evicted or their node goes.   *)
PodEnd(o) == PodStep(o, "active", "none")

ControllerStep ==
  \E o \in Objs : \/ Propagate(o) \/ CronJobFires(o)
                  \/ PodStart(o) \/ PodStop(o) \/ PodEnd(o)

Next ==
  \/ \E p \in Procs : CallerStep(p) \/ Abort(p) \/ \E k \in Ops : Begin(p, k)
  \/ UserStep
  \/ ControllerStep

Spec == Init /\ [][Next]_vars

(* A caller that was not killed goes on, and controllers do their work.     *)
Fairness ==
  /\ \A p \in Procs : WF_vars(CallerStep(p))
  /\ \A o \in Objs : WF_vars(Propagate(o)) /\ WF_vars(PodStop(o))

FairSpec == Spec /\ Fairness
-----------------------------------------------------------------------------
(* Correctness.                                                             *)

(* What an unquiesce sweep that visits the object leaves of it. *)
AfterUnquiesce(o, w) == IF ToUnquiesce(o, w) THEN Unquiesced(o, w) ELSE w

(* The workloads whose user setting the annotations are meant to preserve.  *)
(* Jobs, and CronJobs their user suspended, are excluded: for them the code *)
(* does not keep the promise (see JobsScaledBackUp).                        *)
Restorable(o) ==
  \/ KindOf[o] \in {"DeploymentConfig", "Deployment", "StatefulSet", "DaemonSet"}
  \/ KindOf[o] = "ReplicaSet" /\ Owner[o] = None
  \/ KindOf[o] = "CronJob" /\ want[o] = 1

(* Whatever callers, conflicts, lost replies and crashes interleave, the    *)
(* setting the user last chose is either in the spec or in the annotation   *)
(* from which unquiesce will restore it (quiesce*/unQuiesce* loop bodies).  *)
IntentRecoverable ==
  \A o \in Objs : Restorable(o) /\ o \notin overridden =>
    LET w == AfterUnquiesce(o, objs[o]) IN w.val = want[o] /\ ~w.key

(* p has completed the operation k and nobody worked against it on o.       *)
Completed(p, k, o) ==
  /\ pc[p] = "done"
  /\ op[p] = k
  /\ o \in exists \ opposed[p]
  /\ Owner[o] \notin opposed[p]

(* When QuiesceApplications returns without error every workload it sweeps  *)
(* is stopped and has no active pod, Jobs created by CronJobs during the    *)
(* operation included, and this stays so until somebody starts one.         *)
QuiesceHolds ==
  \A p \in Procs, o \in Objs :
    Completed(p, "quiesce", o) /\ KindOf[o] \in Range(Stages) /\ ~OwnedReplicaSet(o)
      => Stopped(o, objs[o]) /\ pods[o] # "active"

RestoredBy(p, o) ==
  Completed(p, "unquiesce", o) /\ o \notin overridden => objs[o].val = want[o] /\ ~objs[o].key

(* When UnQuiesceApplications returns without error, whatever failed before *)
(* it, every restorable workload runs as its user last set it.              *)
UnquiesceRestores == \A p \in Procs, o \in Objs : Restorable(o) => RestoredBy(p, o)

(* "Scales all Jobs back up" (unQuiesceJobs): as UnquiesceRestores, for     *)
(* Jobs.                                                                    *)
JobsScaledBackUp == \A p \in Procs, o \in Objs : KindOf[o] = "Job" => RestoredBy(p, o)

(* "Only set replica count if currently 0": whoever is not the user never   *)
(* replaces a running workload's replica count by another one; a count set  *)
(* while a sweep holds an older snapshot is not overwritten.                *)
RunningCountsKept ==
  [][edits' = edits =>
       \A o \in exists : Owner[o] = None /\ KindOf[o] # "DaemonSet" =>
         objs'[o].val \in {0, objs[o].val} \/ objs[o].val = 0]_vars

Running(p) == pc[p] \in {"list", "update", "poll"}

(* A ReplicationController without a DeploymentConfig: no sweep scales it,  *)
(* and the wait counts its pods.                                            *)
Bare(o) == KindOf[o] = "ReplicationController" /\ Owner[o] = None

(* An operation whose process lives returns.  Two exceptions, both for the  *)
(* wait of a quiesce, which has no limit: somebody works against it, and it *)
(* does not stop a workload a second time; or a bare ReplicationController  *)
(* runs pods.                                                               *)
OperationReturns ==
  \A p \in Procs :
    Running(p) ~> \/ ~Running(p)
                  \/ op[p] = "quiesce" /\ opposed[p] # {}
                  \/ op[p] = "quiesce" /\ \E o \in Objs :
                       Bare(o) /\ ~Stopped(o, objs[o]) /\ pods[o] = "active"

(* QuiesceApplications may return while a controller lags: pods of a scaled *)
(* down Deployment may still appear.  Unless somebody works against the     *)
(* quiesce, all pods that the wait counts do stop and none is started again,*)
(* those of bare ReplicationControllers excepted.                           *)
PodsSettled == \A o \in Objs : KindOf[o] \in PodKinds /\ ~Bare(o) => pods[o] # "active"
QuiesceSettles ==
  \A p \in Procs :
    pc[p] = "done" /\ op[p] = "quiesce"
      ~> pc[p] # "done" \/ opposed[p] # {} \/ [](pc[p] = "done" /\ opposed[p] = {} => PodsSettled)
=============================================================================
