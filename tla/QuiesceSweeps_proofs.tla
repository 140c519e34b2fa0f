------------------------- MODULE QuiesceSweeps_proofs -------------------------
(***************************************************************************)
(* Theorems about what completed operations of Quiesce have achieved, for  *)
(* any namespace, any number of callers and any bounds: a quiesce that has *)
(* returned leaves everything it sweeps stopped, an unquiesce has restored *)
(* what users had set, and neither replaces a running count by another.    *)
(***************************************************************************)
EXTENDS Quiesce_proofs

(***************************************************************************)
(* What a sweep leaves behind.  A caller's operation has passed an object  *)
(* once its sweep of the object's kind has visited it or ended; unless     *)
(* somebody works against the operation the object is then settled: no     *)
(* later step of the same operation, of another caller or of a controller  *)
(* undoes it.                                                              *)
(***************************************************************************)
StageOf(kind) ==
  CASE kind = "CronJob"          -> 1
    [] kind = "DeploymentConfig" -> 2
    [] kind = "Deployment"       -> 3
    [] kind = "StatefulSet"      -> 4
    [] kind = "ReplicaSet"       -> 5
    [] kind = "DaemonSet"        -> 6
    [] kind = "Job"              -> 7

Swept(o) == KindOf[o] \in Range(Stages) /\ ~OwnedReplicaSet(o)

Unopposed(p, o) == o \in exists \ opposed[p] /\ Owner[o] \notin opposed[p]

Passed(p, o) ==
  \/ pc[p] \in {"poll", "done"}
  \/ pc[p] \in {"list", "update"} /\ StageOf(KindOf[o]) < stage[p]
  \/ pc[p] = "update" /\ KindOf[o] = Stages[stage[p]] /\ o \notin DOMAIN listed[p]

Settled(k, o, w) == IF k = "quiesce" THEN Stopped(o, w) ELSE ~ToUnquiesce(o, w)

(* Only Jobs of CronJobs come into being, CronJobs are suspended or not,    *)
(* and no other kinds than the ones that can have pods have any.            *)
OnlyJobsAppear == \A o \in Objs \ exists : KindOf[o] = "Job" /\ Owner[o] # None
CronJobsBinary == \A o \in Objs : KindOf[o] = "CronJob" => objs[o].val \in {0, 1}
PodsOfKinds == \A o \in Objs : pods[o] = "active" => KindOf[o] \in PodKinds \cup {"Other"}

(* A sweep lists objects of its own kind; what p has passed is settled;     *)
(* what its snapshot shows as settled, and the sweep will skip, still is;   *)
(* and the wait of a quiesce was not in vain.                               *)
SweepOf(p) ==
  /\ \A o \in DOMAIN listed[p] : pc[p] = "update" /\ KindOf[o] = Stages[stage[p]]
  /\ \A o \in Objs : Passed(p, o) /\ Unopposed(p, o) /\ Swept(o) =>
       Settled(op[p], o, objs[o])
  /\ \A o \in DOMAIN listed[p] :
       Unopposed(p, o) /\ Swept(o) /\ Settled(op[p], o, listed[p][o]) =>
         Settled(op[p], o, objs[o])
  /\ \A o \in Objs :
       pc[p] = "done" /\ op[p] = "quiesce" /\ Unopposed(p, o) /\ Swept(o) =>
         pods[o] # "active"

ClusterInv == OnlyJobsAppear /\ CronJobsBinary /\ PodsOfKinds
SInv == ClusterInv /\ \A p \in Procs : SweepOf(p)

-----------------------------------------------------------------------------
(* The stages are the kinds that are swept, each once. *)
LEMMA StagesOrder ==
  /\ Len(Stages) = 7
  /\ DOMAIN Stages = 1..7
  /\ \A i \in 1..7 : Stages[i] \in Range(Stages) /\ StageOf(Stages[i]) = i
  /\ \A k \in Range(Stages) : StageOf(k) \in 1..7 /\ Stages[StageOf(k)] = k
<1>1. Len(Stages) = 7 /\ DOMAIN Stages = 1..7
  BY DEF Stages
<1>2. Range(Stages) = {"CronJob", "DeploymentConfig", "Deployment", "StatefulSet",
                       "ReplicaSet", "DaemonSet", "Job"}
  BY DEF Stages, Range
<1>3. /\ Stages[1] = "CronJob" /\ Stages[2] = "DeploymentConfig" /\ Stages[3] = "Deployment"
      /\ Stages[4] = "StatefulSet" /\ Stages[5] = "ReplicaSet" /\ Stages[6] = "DaemonSet"
      /\ Stages[7] = "Job"
  BY DEF Stages
<1>4. /\ StageOf("CronJob") = 1 /\ StageOf("DeploymentConfig") = 2
      /\ StageOf("Deployment") = 3 /\ StageOf("StatefulSet") = 4
      /\ StageOf("ReplicaSet") = 5 /\ StageOf("DaemonSet") = 6 /\ StageOf("Job") = 7
  BY DEF StageOf
<1>5. \A i \in 1..7 : i = 1 \/ i = 2 \/ i = 3 \/ i = 4 \/ i = 5 \/ i = 6 \/ i = 7
  OBVIOUS
<1> QED
  BY <1>1, <1>2, <1>3, <1>4, <1>5

(* What a sweep writes is settled for its operation, and so is what it      *)
(* skips.                                                                   *)
LEMMA RewrittenSettled ==
  ASSUME NEW k \in Ops, NEW o \in Objs, NEW w \in Workload, Selected(k, o, w)
  PROVE  Settled(k, o, Rewritten(k, o, w))
<1>1. CASE k = "quiesce"
  <2>1. CASE KindOf[o] = "DaemonSet"
    <3>1. Rewritten(k, o, w) = [val |-> w.val, key |-> TRUE, ann |-> w.val]
      BY <1>1, <2>1, SavedFields DEF Rewritten, Quiesced
    <3> QED
      BY <1>1, <2>1, <3>1 DEF Settled, Stopped
  <2>2. CASE KindOf[o] # "DaemonSet"
    <3>1. Rewritten(k, o, w).val = 0
      BY <1>1, <2>2, SavedFields DEF Rewritten, Quiesced
    <3> QED
      BY <1>1, <2>2, <3>1 DEF Settled, Stopped
  <2> QED
    BY <2>1, <2>2
<1>2. CASE k = "unquiesce"
  <2>1. Rewritten(k, o, w).ann = NoAnn
    BY <1>2, RestoredFields DEF Rewritten, Unquiesced
  <2> QED
    BY <1>2, <2>1 DEF Settled, ToUnquiesce
<1> QED
  BY <1>1, <1>2 DEF Ops

LEMMA SkippedSettled ==
  ASSUME NEW k \in Ops, NEW o \in Objs, NEW w, ~Selected(k, o, w), Swept(o)
  PROVE  Settled(k, o, w)
BY DEF Ops, Selected, Settled, ToQuiesce, Swept

-----------------------------------------------------------------------------
(* SweepOf(p) in the next state, with the primes at the variables. *)
LEMMA SweepAfter ==
  ASSUME NEW p \in Procs,
         \A o \in DOMAIN listed'[p] : pc'[p] = "update" /\ KindOf[o] = Stages[stage'[p]],
         \A o \in Objs : Passed(p, o)' /\ Unopposed(p, o)' /\ Swept(o) =>
           Settled(op'[p], o, objs'[o]),
         \A o \in DOMAIN listed'[p] :
           Unopposed(p, o)' /\ Swept(o) /\ Settled(op'[p], o, listed'[p][o]) =>
             Settled(op'[p], o, objs'[o]),
         \A o \in Objs :
           pc'[p] = "done" /\ op'[p] = "quiesce" /\ Unopposed(p, o)' /\ Swept(o) =>
             pods'[o] # "active"
  PROVE  SweepOf(p)'
BY DEF SweepOf, Settled, Stopped, ToUnquiesce, Swept, OwnedReplicaSet

(* A step that leaves p where it is: what p has passed or listed keeps its  *)
(* value, is settled anew, or is no longer promised.                        *)
LEMMA SweepKept ==
  ASSUME NEW p \in Procs, SweepOf(p), listed[p] \in Listing,
         pc'[p] = pc[p], op'[p] = op[p], stage'[p] = stage[p], listed'[p] = listed[p],
         \A o \in Objs :
           Unopposed(p, o)' /\ Swept(o) /\ (Passed(p, o) \/ o \in DOMAIN listed[p]) =>
             /\ \/ Unopposed(p, o) /\ objs'[o] = objs[o]
                \/ Settled(op[p], o, objs'[o])
             /\ op[p] = "quiesce" =>
                  pods'[o] # "active" \/ (Unopposed(p, o) /\ pods'[o] = pods[o])
  PROVE  SweepOf(p)'
<1>1. DOMAIN listed[p] \subseteq Objs
  BY ListingValues
<1>2. \A o \in Objs : Passed(p, o)' <=> Passed(p, o)
  BY DEF Passed
<1>3. \A o \in Objs : pc[p] = "done" => Passed(p, o)
  BY DEF Passed
<1>4. \A o \in DOMAIN listed'[p] : pc'[p] = "update" /\ KindOf[o] = Stages[stage'[p]]
  BY DEF SweepOf
<1>5. ASSUME NEW o \in Objs, Passed(p, o)', Unopposed(p, o)', Swept(o)
      PROVE  Settled(op'[p], o, objs'[o])
  <2>1. Passed(p, o)
    BY <1>2, <1>5
  <2> QED
    BY <1>5, <2>1 DEF SweepOf
<1>6. ASSUME NEW o \in DOMAIN listed'[p], Unopposed(p, o)', Swept(o),
             Settled(op'[p], o, listed'[p][o])
      PROVE  Settled(op'[p], o, objs'[o])
  BY <1>1, <1>6 DEF SweepOf
<1>7. ASSUME NEW o \in Objs, pc'[p] = "done", op'[p] = "quiesce", Unopposed(p, o)', Swept(o)
      PROVE  pods'[o] # "active"
  <2>1. Passed(p, o)
    BY <1>3, <1>7
  <2> QED
    BY <1>7, <2>1 DEF SweepOf
<1> QED
  BY <1>4, <1>5, <1>6, <1>7, SweepAfter

(* A step of another caller that writes no object. *)
LEMMA SweepOfOthers ==
  ASSUME IInv, SInv, NEW p \in Procs, UNCHANGED << objs, exists, pods >>,
         pc'[p] = pc[p], op'[p] = op[p], stage'[p] = stage[p], listed'[p] = listed[p],
         opposed'[p] = opposed[p]
  PROVE  SweepOf(p)'
<1>1. \A o \in Objs : Unopposed(p, o)' <=> Unopposed(p, o)
  BY DEF Unopposed
<1>2. listed[p] \in Listing /\ SweepOf(p)
  BY DEF IInv, TypeOK, SInv
<1> QED
  BY <1>1, <1>2, SweepKept

(* Steps that change neither objects nor pods. *)
LEMMA ClusterKept ==
  ASSUME SInv, UNCHANGED << objs, exists, pods >>
  PROVE  ClusterInv'
BY DEF SInv, ClusterInv, OnlyJobsAppear, CronJobsBinary, PodsOfKinds

-----------------------------------------------------------------------------
LEMMA InitSInv == Init => SInv
<1> SUFFICES ASSUME Init PROVE SInv
  OBVIOUS
<1>1. OnlyJobsAppear
  BY DEF Init, OnlyJobsAppear
<1>2. CronJobsBinary
  <2> SUFFICES ASSUME NEW o \in Objs, KindOf[o] = "CronJob" PROVE objs[o].val \in {0, 1}
    BY DEF CronJobsBinary
  <2>1. Owner[o] = None
    BY QuiesceAssumption
  <2>2. want[o] \in 0..1 /\ objs[o].val = want[o]
    BY <2>1 DEF Init, InitialVals
  <2> QED
    BY <2>2
<1>3. PodsOfKinds
  BY DEF Init, PodsOfKinds
<1>4. ASSUME NEW p \in Procs PROVE SweepOf(p)
  BY EmptyIsListing DEF Init, SweepOf, Passed
<1> QED
  BY <1>1, <1>2, <1>3, <1>4 DEF SInv, ClusterInv

(* The caller p begins again: it has passed nothing. *)
LEMMA BeginSInv ==
  ASSUME IInv, SInv, NEW p \in Procs, NEW k \in Ops, Begin(p, k)
  PROVE  SInv'
<1> USE DEF Begin, cluster
<1>1. ASSUME NEW q \in Procs \ {p} PROVE SweepOf(q)'
  BY SweepOfOthers DEF IInv, TypeOK
<1>2. SweepOf(p)'
  <2>1. pc'[p] = "list" /\ stage'[p] = 1 /\ listed'[p] = listed[p]
    BY DEF IInv, TypeOK
  <2>2. DOMAIN listed[p] = {}
    BY DEF SInv, SweepOf
  <2>3. ASSUME NEW o \in Objs, Swept(o) PROVE ~Passed(p, o)'
    <3>1. StageOf(KindOf[o]) \in 1..7
      BY <2>3, StagesOrder DEF Swept
    <3> QED
      BY <2>1, <3>1 DEF Passed
  <2> QED
    BY <2>1, <2>2, <2>3, SweepAfter
<1> QED
  BY <1>1, <1>2, ClusterKept DEF SInv

(* At the head of a sweep p has passed what the earlier sweeps did.         *)
LEMMA ListSInv ==
  ASSUME IInv, SInv, NEW p \in Procs, List(p)
  PROVE  SInv'
<1> DEFINE S == Items(Stages[stage[p]])
<1>1. /\ pc' = [pc EXCEPT ![p] = "update"]
      /\ listed' = [listed EXCEPT ![p] = Restrict(objs, S)]
      /\ UNCHANGED << objs, exists, pods, op, stage, stale, opposed >>
      /\ pc[p] = "list"
  BY DEF List, cluster, history
<1>2. ASSUME NEW q \in Procs \ {p} PROVE SweepOf(q)'
  BY <1>1, SweepOfOthers DEF IInv, TypeOK
<1>3. SweepOf(p)'
  <2>1. S \in SUBSET Objs
    BY DEF Items, IInv, TypeOK
  <2>2. DOMAIN listed'[p] = S /\ \A o \in S : listed'[p][o] = objs[o]
    BY <1>1, <2>1, SnapshotIsListing DEF IInv, TypeOK
  <2>3. pc'[p] = "update" /\ op'[p] = op[p] /\ stage'[p] = stage[p]
    BY <1>1 DEF IInv, TypeOK
  <2>4. \A o \in Objs : Unopposed(p, o)' <=> Unopposed(p, o)
    BY <1>1 DEF Unopposed
  <2>5. \A o \in DOMAIN listed'[p] : KindOf[o] = Stages[stage'[p]]
    BY <2>2, <2>3 DEF Items
  <2>6. ASSUME NEW o \in Objs, Passed(p, o)', Unopposed(p, o)', Swept(o)
        PROVE  Settled(op'[p], o, objs'[o])
    <3>1. o \in exists
      BY <1>1, <2>6 DEF Unopposed
    <3>2. ~(KindOf[o] = Stages[stage[p]] /\ o \notin DOMAIN listed'[p])
      BY <2>2, <3>1 DEF Items
    <3>3. Passed(p, o)
      BY <1>1, <2>3, <2>6, <3>2 DEF Passed
    <3> QED
      BY <1>1, <2>3, <2>4, <2>6, <3>3 DEF SInv, SweepOf
  <2>7. ASSUME NEW o \in DOMAIN listed'[p], Settled(op'[p], o, listed'[p][o])
        PROVE  Settled(op'[p], o, objs'[o])
    BY <1>1, <2>2, <2>7
  <2> QED
    BY <2>3, <2>5, <2>6, <2>7, SweepAfter
<1> QED
  BY <1>1, <1>2, <1>3, ClusterKept DEF SInv

(* An item that p does not select is settled, in the snapshot and still.    *)
LEMMA SkipItemSInv ==
  ASSUME IInv, SInv, NEW p \in Procs, NEW x \in Objs, SkipItem(p, x)
  PROVE  SInv'
<1>1. /\ UNCHANGED << objs, exists, pods, pc, op, stage, stale, opposed >>
      /\ pc[p] = "update" /\ x \in DOMAIN listed[p]
      /\ ~Selected(op[p], x, listed[p][x])
      /\ listed' = [listed EXCEPT ![p] = Without(listed[p], x)]
  BY DEF SkipItem, Visiting, cluster, history
<1>2. ASSUME NEW q \in Procs \ {p} PROVE SweepOf(q)'
  BY <1>1, SweepOfOthers DEF IInv, TypeOK
<1>3. SweepOf(p)'
  <2>1. /\ DOMAIN listed'[p] = DOMAIN listed[p] \ {x}
        /\ \A o \in DOMAIN listed'[p] : listed'[p][o] = listed[p][o]
    BY <1>1, WithoutListing DEF IInv, TypeOK
  <2>2. SweepOf(p) /\ op[p] \in Ops
    BY DEF SInv, IInv, TypeOK
  <2>3. \A o \in Objs : Unopposed(p, o)' <=> Unopposed(p, o)
    BY <1>1 DEF Unopposed
  <2>4. ASSUME NEW o \in Objs, Passed(p, o)', Unopposed(p, o)', Swept(o)
        PROVE  Settled(op'[p], o, objs'[o])
    <3>1. CASE o = x
      <4>1. Settled(op[p], o, listed[p][o])
        BY <1>1, <2>2, <2>4, <3>1, SkippedSettled
      <4> QED
        BY <1>1, <2>2, <2>3, <2>4, <3>1, <4>1 DEF SweepOf
    <3>2. CASE o # x
      <4>1. Passed(p, o)
        BY <1>1, <2>1, <2>4, <3>2 DEF Passed
      <4> QED
        BY <1>1, <2>2, <2>3, <2>4, <4>1 DEF SweepOf
    <3> QED
      BY <3>1, <3>2
  <2>5. \A o \in DOMAIN listed'[p] : pc'[p] = "update" /\ KindOf[o] = Stages[stage'[p]]
    BY <1>1, <2>1, <2>2 DEF SweepOf
  <2>6. ASSUME NEW o \in DOMAIN listed'[p], Unopposed(p, o)', Swept(o),
               Settled(op'[p], o, listed'[p][o])
        PROVE  Settled(op'[p], o, objs'[o])
    <3>1. o \in Objs
      BY <2>1, ListingValues DEF IInv, TypeOK
    <3> QED
      BY <1>1, <2>1, <2>2, <2>3, <2>6, <3>1 DEF SweepOf
  <2> QED
    BY <1>1, <2>4, <2>5, <2>6, SweepAfter
<1> QED
  BY <1>1, <1>2, <1>3, ClusterKept DEF SInv

(* An operation that fails promises nothing. *)
LEMMA FailsSInv ==
  ASSUME IInv, SInv, NEW p \in Procs, Return(p, "failed")
  PROVE  SInv'
<1> USE DEF Return, cluster, history
<1>1. ASSUME NEW q \in Procs \ {p} PROVE SweepOf(q)'
  BY SweepOfOthers DEF IInv, TypeOK
<1>2. pc'[p] = "failed" /\ DOMAIN listed'[p] = {}
  BY EmptyIsListing DEF IInv, TypeOK
<1>3. SweepOf(p)'
  BY <1>2, SweepAfter DEF Passed
<1> QED
  BY <1>1, <1>3, ClusterKept DEF SInv

(* The wait of a quiesce ends when no pod of a counted kind is active.      *)
LEMMA PollDoneSInv ==
  ASSUME IInv, SInv, NEW p \in Procs, PollDone(p)
  PROVE  SInv'
<1> USE DEF PollDone, Return, cluster, history
<1>1. ASSUME NEW q \in Procs \ {p} PROVE SweepOf(q)'
  BY SweepOfOthers DEF IInv, TypeOK
<1>2. pc[p] = "poll" /\ pc'[p] = "done" /\ DOMAIN listed'[p] = {} /\ op'[p] = op[p]
  BY EmptyIsListing DEF IInv, TypeOK
<1>3. \A o \in Objs : Unopposed(p, o)' <=> Unopposed(p, o)
  BY DEF Unopposed
<1>4. ASSUME NEW o \in Objs, Unopposed(p, o)', Swept(o)
      PROVE  Settled(op'[p], o, objs'[o])
  BY <1>2, <1>3, <1>4 DEF SInv, SweepOf, Passed
<1>5. ASSUME NEW o \in Objs, Swept(o) PROVE pods'[o] # "active"
  <2>1. KindOf[o] # "Other"
    BY <1>5 DEF Swept, Range, Stages
  <2> QED
    BY <2>1 DEF PodsTerminated, SInv, ClusterInv, PodsOfKinds
<1>6. SweepOf(p)'
  BY <1>2, <1>4, <1>5, SweepAfter
<1> QED
  BY <1>1, <1>6, ClusterKept DEF SInv

(* Between two sweeps nothing is left behind: the kinds passed over have no *)
(* objects.                                                                 *)
LEMMA EndSweepSInv ==
  ASSUME IInv, SInv, NEW p \in Procs, EndSweep(p)
  PROVE  SInv'
<1> USE DEF EndSweep, cluster, history
<1>1. ASSUME NEW q \in Procs \ {p} PROVE SweepOf(q)'
  BY SweepOfOthers DEF IInv, TypeOK
<1>2. /\ pc[p] = "update" /\ DOMAIN listed[p] = {} /\ listed'[p] = listed[p]
      /\ op'[p] = op[p] /\ SweepOf(p) /\ stage[p] \in 1..7
  BY StagesOrder DEF IInv, TypeOK, SInv
<1>3. \A o \in Objs : Unopposed(p, o)' <=> Unopposed(p, o)
  BY DEF Unopposed
<1>4. ASSUME NEW o \in Objs, Passed(p, o)', Swept(o) PROVE Passed(p, o)
  <2> DEFINE n == StageOf(KindOf[o])
  <2>1. n \in 1..7 /\ Stages[n] = KindOf[o] /\ KindOf[o] = Stages[n]
    BY <1>4, StagesOrder DEF Swept
  <2> HIDE DEF n
  <2>2. n > stage[p] => n \in Later(p)
    BY <2>1, StagesOrder DEF Later
  <2>3. n <= stage[p]
    <3>1. CASE Later(p) = {}
      BY <1>2, <2>1, <2>2, <3>1
    <3>2. CASE \E i \in Later(p) : /\ \A j \in Later(p) : i <= j
                                   /\ stage' = [stage EXCEPT ![p] = i]
                                   /\ pc' = [pc EXCEPT ![p] = "list"]
      <4>1. PICK i \in Later(p) : /\ \A j \in Later(p) : i <= j
                                  /\ stage' = [stage EXCEPT ![p] = i]
                                  /\ pc' = [pc EXCEPT ![p] = "list"]
        BY <3>2
      <4>2. pc'[p] = "list" /\ stage'[p] = i /\ i \in 1..7
        BY <4>1, StagesOrder DEF IInv, TypeOK, Later
      <4>3. n < i
        BY <1>4, <4>2 DEF Passed, n
      <4> QED
        BY <1>2, <2>1, <2>2, <4>1, <4>2, <4>3
    <3> QED
      BY <3>1, <3>2
  <2>4. n < stage[p] \/ KindOf[o] = Stages[stage[p]]
    BY <1>2, <2>1, <2>3
  <2> QED
    BY <1>2, <2>4 DEF Passed, n
<1>5. pc'[p] = "done" => op[p] # "quiesce"
  BY DEF IInv, TypeOK
<1>6. SweepOf(p)'
  BY <1>2, <1>3, <1>4, <1>5, SweepAfter DEF SweepOf
<1> QED
  BY <1>1, <1>6, ClusterKept DEF SInv

(* A write settles the object for the writer and for all callers that run   *)
(* the same operation; the others know that somebody worked against them.   *)
LEMMA WriteItemSInv ==
  ASSUME IInv, SInv, NEW p \in Procs, NEW x \in Objs, WriteItem(p, x)
  PROVE  SInv'
<1> DEFINE w == objs[x]
           y == Rewritten(op[p], x, w)
<1>1. /\ listed[p][x] = w /\ Selected(op[p], x, w) /\ x \in DOMAIN listed[p]
      /\ w \in Workload /\ op[p] \in Ops /\ pc[p] = "update"
  BY DEF WriteItem, Visiting, IInv, ListedFresh, TypeOK
<1>2. /\ objs' = [objs EXCEPT ![x] = y]
      /\ opposed' = Opposing({ q \in Procs : op[q] # op[p] }, x)
      /\ UNCHANGED << exists, pods, op, stage >>
  BY <1>1 DEF WriteItem
<1> HIDE DEF y
<1>3. objs'[x] = y /\ \A o \in Objs \ {x} : objs'[o] = objs[o]
  BY <1>2 DEF IInv, TypeOK
<1>4. Settled(op[p], x, objs'[x])
  BY <1>1, <1>3, RewrittenSettled DEF y
<1>5. \A q \in Procs : opposed[q] \subseteq opposed'[q]
  BY <1>2 DEF Opposing
<1>6. \A q \in Procs, o \in Objs : Unopposed(q, o)' => Unopposed(q, o)
  BY <1>2, <1>5 DEF Unopposed
<1>7. ASSUME NEW q \in Procs \ {p} PROVE SweepOf(q)'
  <2>1. pc'[q] = pc[q] /\ op'[q] = op[q] /\ stage'[q] = stage[q] /\ listed'[q] = listed[q]
    BY <1>2 DEF WriteItem, IInv, TypeOK
  <2>2. listed[q] \in Listing /\ SweepOf(q)
    BY DEF IInv, TypeOK, SInv
  <2>3. ASSUME NEW o \in Objs, Unopposed(q, o)', Passed(q, o) \/ o \in DOMAIN listed[q]
        PROVE  \/ Unopposed(q, o) /\ objs'[o] = objs[o]
               \/ Settled(op[q], o, objs'[o])
    <3>1. CASE o = x /\ op[q] # op[p]
      <4>1. pc[q] \notin {"idle", "failed"}
        BY <2>2, <2>3 DEF Passed, SweepOf
      <4>2. x \in opposed'[q]
        BY <1>2, <3>1, <4>1 DEF Opposing
      <4> QED
        BY <2>3, <3>1, <4>2 DEF Unopposed
    <3>2. CASE o = x /\ op[q] = op[p]
      BY <1>4, <3>2
    <3>3. CASE o # x
      BY <1>3, <1>6, <2>3, <3>3
    <3> QED
      BY <3>1, <3>2, <3>3
  <2> QED
    BY <1>2, <1>6, <2>1, <2>2, <2>3, SweepKept
<1>8. SweepOf(p)'
  <2>1. op'[p] = op[p] /\ stage'[p] = stage[p] /\ SweepOf(p)
    BY <1>2 DEF SInv
  <2>2. CASE listed' = [listed EXCEPT ![p] = Without(listed[p], x)] /\ UNCHANGED pc
    <3>1. /\ DOMAIN listed'[p] = DOMAIN listed[p] \ {x}
          /\ \A o \in DOMAIN listed'[p] : listed'[p][o] = listed[p][o]
      BY <2>2, WithoutListing DEF IInv, TypeOK
    <3>2. \A o \in DOMAIN listed'[p] : pc'[p] = "update" /\ KindOf[o] = Stages[stage'[p]]
      BY <2>1, <2>2, <3>1 DEF SweepOf
    <3>3. ASSUME NEW o \in Objs, Passed(p, o)', Unopposed(p, o)', Swept(o)
          PROVE  Settled(op'[p], o, objs'[o])
      <4>1. CASE o = x
        BY <1>4, <2>1, <4>1
      <4>2. CASE o # x
        <5>1. Passed(p, o)
          BY <2>1, <2>2, <3>1, <3>3, <4>2 DEF Passed
        <5> QED
          BY <1>3, <1>6, <2>1, <3>3, <4>2, <5>1 DEF SweepOf
      <4> QED
        BY <4>1, <4>2
    <3>4. ASSUME NEW o \in DOMAIN listed'[p], Unopposed(p, o)', Swept(o),
                 Settled(op'[p], o, listed'[p][o])
          PROVE  Settled(op'[p], o, objs'[o])
      <4>1. o \in Objs /\ o # x
        BY <3>1, ListingValues DEF IInv, TypeOK
      <4> QED
        BY <1>3, <1>6, <2>1, <3>1, <3>4, <4>1 DEF SweepOf
    <3> QED
      BY <1>1, <2>2, <3>2, <3>3, <3>4, SweepAfter
  <2>3. CASE listed' = [listed EXCEPT ![p] = EmptyListing] /\ pc' = [pc EXCEPT ![p] = "failed"]
    <3>1. pc'[p] = "failed" /\ DOMAIN listed'[p] = {}
      BY <2>3, EmptyIsListing DEF IInv, TypeOK
    <3> QED
      BY <3>1, SweepAfter DEF Passed
  <2> QED
    BY <2>2, <2>3 DEF WriteItem
<1>9. ClusterInv'
  <2>1. KindOf[x] = "CronJob" => y.val \in {0, 1}
    <3>1. SuspendCronJob(w).val = 0 /\ ResumeCronJob(w).val = 1
      BY <1>1, SavedFields, RestoredFields
    <3> QED
      BY <3>1 DEF y, Rewritten, Quiesced, Unquiesced
  <2>2. CronJobsBinary'
    BY <1>3, <2>1 DEF SInv, ClusterInv, CronJobsBinary
  <2> QED
    BY <1>2, <2>2 DEF SInv, ClusterInv, OnlyJobsAppear, PodsOfKinds
<1> QED
  BY <1>7, <1>8, <1>9 DEF SInv

(* A user's edit is against every operation that is running or has ended.   *)
LEMMA UserEditSInv ==
  ASSUME IInv, SInv, NEW x \in Objs, NEW v \in 0..MaxReplicas, NEW key \in BOOLEAN,
         UserEdit(x, v, key), KindOf[x] = "CronJob" => v \in {0, 1}
  PROVE  SInv'
<1> USE DEF UserEdit
<1>1. /\ objs'[x] = [val |-> v, key |-> key, ann |-> objs[x].ann]
      /\ \A o \in Objs \ {x} : objs'[o] = objs[o]
  BY DEF IInv, TypeOK
<1>2. \A q \in Procs : /\ opposed[q] \subseteq opposed'[q]
                       /\ pc[q] \notin {"idle", "failed"} => x \in opposed'[q]
  BY DEF Opposing
<1>3. ASSUME NEW q \in Procs PROVE SweepOf(q)'
  <2>1. listed[q] \in Listing /\ SweepOf(q)
    BY DEF IInv, TypeOK, SInv
  <2>2. \A o \in Objs : Unopposed(q, o)' => Unopposed(q, o)
    BY <1>2 DEF Unopposed
  <2>3. ASSUME NEW o \in Objs, Unopposed(q, o)', Passed(q, o) \/ o \in DOMAIN listed[q]
        PROVE  o # x
    <3>1. pc[q] \notin {"idle", "failed"}
      BY <2>1, <2>3 DEF Passed, SweepOf
    <3> QED
      BY <1>2, <2>3, <3>1 DEF Unopposed
  <2> QED
    BY <1>1, <2>1, <2>2, <2>3, SweepKept
<1>4. ClusterInv'
  BY <1>1 DEF SInv, ClusterInv, OnlyJobsAppear, CronJobsBinary, PodsOfKinds
<1> QED
  BY <1>3, <1>4 DEF SInv

LEMMA UserStepSInv ==
  ASSUME IInv, SInv, UserStep
  PROVE  SInv'
<1>1. PICK o \in Objs, v \in 0..MaxReplicas :
        UserScale(o, v) \/ UserReplaceSelector(o, v) \/ UserPatchSelector(o, v)
  BY DEF UserStep
<1>2. ASSUME UserScale(o, v), KindOf[o] = "CronJob" PROVE v \in {0, 1}
  BY <1>2 DEF UserScale, InitialVals
<1> QED
  BY <1>1, <1>2, UserEditSInv DEF UserScale, UserReplaceSelector, UserPatchSelector

(* Deployments and DeploymentConfigs write only what no sweep visits.       *)
LEMMA PropagateSInv ==
  ASSUME IInv, SInv, NEW x \in Objs, Propagate(x)
  PROVE  SInv'
<1> USE DEF Propagate
<1>1. \A o \in Objs \ {x} : objs'[o] = objs[o]
  BY DEF IInv, TypeOK
<1>2. ~Swept(x) /\ KindOf[x] # "CronJob"
  BY DEF Swept, OwnedReplicaSet, Range, Stages
<1>3. ASSUME NEW q \in Procs PROVE SweepOf(q)'
  <2>1. listed[q] \in Listing /\ SweepOf(q)
    BY DEF IInv, TypeOK, SInv
  <2>2. \A o \in Objs : Unopposed(q, o)' <=> Unopposed(q, o)
    BY DEF Unopposed
  <2> QED
    BY <1>1, <1>2, <2>1, <2>2, SweepKept
<1>4. ClusterInv'
  BY <1>1, <1>2 DEF SInv, ClusterInv, OnlyJobsAppear, CronJobsBinary, PodsOfKinds
<1> QED
  BY <1>3, <1>4 DEF SInv

(* An operation that has passed the Jobs has passed the CronJobs before     *)
(* them: a quiesce that nobody worked against has suspended them, and none  *)
(* can create a Job behind its back.                                        *)
LEMMA CronJobFiresSInv ==
  ASSUME IInv, SInv, NEW x \in Objs, CronJobFires(x)
  PROVE  SInv'
<1> USE DEF CronJobFires
<1>1. /\ objs'[x] = [val |-> 1, key |-> FALSE, ann |-> NoAnn]
      /\ \A o \in Objs \ {x} : objs'[o] = objs[o]
  BY DEF IInv, TypeOK
<1>2. Owner[x] \in Objs /\ KindOf[Owner[x]] = "CronJob" /\ Owner[Owner[x]] = None
  BY QuiesceAssumption DEF SInv, ClusterInv, OnlyJobsAppear
<1>3. ASSUME NEW q \in Procs PROVE SweepOf(q)'
  <2>1. listed[q] \in Listing /\ SweepOf(q) /\ opposed[q] \subseteq Objs /\ op[q] \in Ops
    BY DEF IInv, TypeOK, SInv
  <2>2. \A o \in Objs \ {x} : Unopposed(q, o)' <=> Unopposed(q, o)
    BY DEF Unopposed
  <2>3. x \notin DOMAIN listed[q]
    BY DEF IInv, ListedExist
  <2>4. ASSUME Unopposed(q, x)', Passed(q, x)
        PROVE  op[q] = "unquiesce"
    <3> DEFINE c == Owner[x]
    <3>1. Unopposed(q, c)
      <4>1. c \in exists
        BY <1>2 DEF SInv, ClusterInv, OnlyJobsAppear
      <4>2. c \notin opposed[q]
        BY <2>4 DEF Unopposed
      <4>3. Owner[c] \notin opposed[q]
        BY <1>2, <2>1, QuiesceAssumption
      <4> QED
        BY <4>1, <4>2, <4>3 DEF Unopposed
    <3>2. KindOf[c] = "CronJob"
      BY <1>2
    <3> HIDE DEF c
    <3>3. StageOf("CronJob") = 1 /\ StageOf("Job") = 7 /\ stage[q] \in 1..7
      BY StagesOrder DEF StageOf, IInv, TypeOK
    <3>4. Stages[stage[q]] = "Job" => stage[q] = 7
      BY <3>3, StagesOrder
    <3>5. Passed(q, c)
      BY <2>4, <3>2, <3>3, <3>4 DEF Passed
    <3>6. Swept(c)
      BY <3>2, StagesOrder DEF Swept, OwnedReplicaSet, Range, Stages
    <3>7. Settled(op[q], c, objs[c])
      BY <1>2, <2>1, <3>1, <3>5, <3>6 DEF SweepOf, c
    <3> QED
      BY <2>1, <3>7 DEF Settled, Ops, c
  <2>5. ~ToUnquiesce(x, objs'[x])
    BY <1>1 DEF ToUnquiesce
  <2>6. ASSUME Unopposed(q, x)', Passed(q, x)
        PROVE  Settled(op[q], x, objs'[x]) /\ op[q] # "quiesce"
    BY <2>4, <2>5, <2>6 DEF Settled
  <2> QED
    BY <1>1, <2>1, <2>2, <2>3, <2>6, SweepKept
<1>4. ClusterInv'
  BY <1>1 DEF SInv, ClusterInv, OnlyJobsAppear, CronJobsBinary, PodsOfKinds
<1> QED
  BY <1>3, <1>4 DEF SInv

(* Pods only start where a workload runs, which is not where a quiesce has  *)
(* passed.                                                                  *)
LEMMA PodStepSInv ==
  ASSUME IInv, SInv, NEW x \in Objs, NEW from, NEW to \in {"none", "active"},
         PodStep(x, from, to), to = "active" => ~Stopped(x, objs[x])
  PROVE  SInv'
<1> USE DEF PodStep, history
<1>1. pods'[x] = to /\ \A o \in Objs \ {x} : pods'[o] = pods[o]
  BY DEF IInv, TypeOK
<1>2. ASSUME NEW q \in Procs PROVE SweepOf(q)'
  <2>1. listed[q] \in Listing /\ SweepOf(q)
    BY DEF IInv, TypeOK, SInv
  <2>2. \A o \in Objs : Unopposed(q, o)' <=> Unopposed(q, o)
    BY DEF Unopposed
  <2>3. ~(pc[q] = "done" /\ op[q] = "quiesce" /\ Unopposed(q, x) /\ Swept(x) /\ to = "active")
    BY <2>1 DEF SweepOf, Passed, Settled
  <2>4. \A o \in Objs : Passed(q, o)' <=> Passed(q, o)
    BY DEF Passed
  <2>5. \A o \in DOMAIN listed[q] : o \in Objs
    BY <2>1, ListingValues
  <2>6. \A o \in Objs : pc'[q] = "done" /\ op'[q] = "quiesce" /\ Unopposed(q, o)' /\ Swept(o)
          => pods'[o] # "active"
    BY <1>1, <2>1, <2>2, <2>3 DEF SweepOf
  <2> QED
    BY <2>1, <2>2, <2>4, <2>5, <2>6, SweepAfter DEF SweepOf
<1>3. ClusterInv'
  BY <1>1 DEF SInv, ClusterInv, OnlyJobsAppear, CronJobsBinary, PodsOfKinds
<1> QED
  BY <1>2, <1>3 DEF SInv

-----------------------------------------------------------------------------
(* SInv is preserved by every step that IInv describes. *)
LEMMA NextSInv == IInv /\ SInv /\ [Next]_vars => SInv'
<1> SUFFICES ASSUME IInv, SInv, [Next]_vars PROVE SInv'
  OBVIOUS
<1>1. ASSUME NEW p \in Procs, CallerStep(p) PROVE SInv'
  <2>1. CASE List(p)
    BY <2>1, ListSInv
  <2>2. ASSUME NEW o \in Objs, SkipItem(p, o) PROVE SInv'
    BY <2>2, SkipItemSInv
  <2>3. ASSUME NEW o \in Objs, WriteItem(p, o) PROVE SInv'
    BY <2>3, WriteItemSInv
  <2>4. ASSUME NEW o \in Objs, ConflictItem(p, o) PROVE SInv'
    BY <2>4, FailsSInv DEF ConflictItem
  <2>5. CASE EndSweep(p)
    BY <2>5, EndSweepSInv
  <2>6. CASE PollDone(p)
    BY <2>6, PollDoneSInv
  <2> QED
    BY <1>1, <2>1, <2>2, <2>3, <2>4, <2>5, <2>6 DEF CallerStep
<1>2. ASSUME NEW p \in Procs, Abort(p) PROVE SInv'
  BY <1>2, FailsSInv DEF Abort
<1>3. ASSUME NEW p \in Procs, NEW k \in Ops, Begin(p, k) PROVE SInv'
  BY <1>3, BeginSInv
<1>4. CASE UserStep
  BY <1>4, UserStepSInv
<1>5. CASE ControllerStep
  <2>1. ASSUME NEW o \in Objs, PodStart(o) \/ PodStop(o) \/ PodEnd(o) PROVE SInv'
    BY <2>1, PodStepSInv DEF PodStart, PodStop, PodEnd
  <2> QED
    BY <1>5, <2>1, PropagateSInv, CronJobFiresSInv DEF ControllerStep
<1>6. CASE UNCHANGED vars
  <2>1. ASSUME NEW q \in Procs PROVE SweepOf(q)'
    BY <1>6, SweepOfOthers DEF vars, cluster, callers, history
  <2> QED
    BY <1>6, <2>1, ClusterKept DEF vars, cluster, SInv
<1> QED
  BY <1>1, <1>2, <1>3, <1>4, <1>5, <1>6 DEF Next

LEMMA SInvHolds == Spec => []SInv
BY IInvHolds, InitSInv, NextSInv, PTL DEF Spec

(* A quiesce that has returned without error leaves every workload it       *)
(* sweeps stopped and without active pods, Jobs that CronJobs created       *)
(* during the operation included, as long as nobody works against it.       *)
THEOREM QuiesceCompletes == Spec => []QuiesceHolds
<1>1. SInv => QuiesceHolds
  <2> SUFFICES ASSUME SInv, NEW p \in Procs, NEW o \in Objs,
                      Completed(p, "quiesce", o), Swept(o)
               PROVE  Stopped(o, objs[o]) /\ pods[o] # "active"
    BY DEF QuiesceHolds, Swept
  <2>1. Passed(p, o) /\ Unopposed(p, o) /\ op[p] = "quiesce" /\ pc[p] = "done"
    BY DEF Completed, Passed, Unopposed
  <2> QED
    BY <2>1 DEF SInv, SweepOf, Settled
<1> QED
  BY <1>1, SInvHolds, PTL

(* An unquiesce that has returned without error has restored what the user  *)
(* last set, whatever failed, was retried or ran at the same time: what it  *)
(* has passed carries no annotation, and then the spec holds the intent.    *)
THEOREM UnquiesceCompletes == Spec => []UnquiesceRestores
<1>1. IInv /\ SInv => UnquiesceRestores
  <2> SUFFICES ASSUME IInv, SInv, NEW p \in Procs, NEW o \in Objs, Restorable(o),
                      Completed(p, "unquiesce", o), o \notin overridden
               PROVE  objs[o].val = want[o] /\ ~objs[o].key
    BY DEF UnquiesceRestores, RestoredBy
  <2>1. Passed(p, o) /\ Unopposed(p, o) /\ op[p] = "unquiesce"
    BY DEF Completed, Passed, Unopposed
  <2>2. Swept(o)
    BY DEF Restorable, Swept, OwnedReplicaSet, Range, Stages
  <2>3. ~ToUnquiesce(o, objs[o])
    BY <2>1, <2>2 DEF SInv, SweepOf, Settled
  <2> QED
    BY <2>3 DEF IInv, IntentRecoverable, AfterUnquiesce
<1> QED
  BY <1>1, IInvHolds, SInvHolds, PTL

(* One step of anybody but a user on the count of a workload nobody owns.   *)
LEMMA CountKept ==
  ASSUME IInv, SInv, [Next]_vars, edits' = edits,
         NEW o \in exists, Owner[o] = None, KindOf[o] # "DaemonSet"
  PROVE  objs'[o].val \in {0, objs[o].val} \/ objs[o].val = 0
<1>1. o \in Objs /\ edits \in Nat
  BY QuiesceAssumption DEF IInv, TypeOK
<1>2. ASSUME NEW p \in Procs, NEW x \in Objs, WriteItem(p, x)
      PROVE  objs'[o].val \in {0, objs[o].val} \/ objs[o].val = 0
  <2> DEFINE w == objs[x]
  <2>1. /\ w \in Workload /\ op[p] \in Ops
        /\ objs' = [objs EXCEPT ![x] = Rewritten(op[p], x, w)]
    BY <1>2 DEF WriteItem, Visiting, IInv, ListedFresh, TypeOK
  <2>2. CASE o # x
    BY <1>1, <2>1, <2>2 DEF IInv, TypeOK
  <2>3. CASE o = x /\ op[p] = "quiesce"
    <3>1. Quiesced(x, w).val = 0
      BY <2>1, <2>3, SavedFields DEF Quiesced
    <3> QED
      BY <1>1, <2>1, <2>3, <3>1 DEF IInv, TypeOK, Rewritten
  <2>4. CASE o = x /\ op[p] # "quiesce"
    <3>1. /\ ResumeCronJob(w).val = 1
          /\ RestoreReplicas(w).val = IF w.val = 0 THEN w.ann ELSE w.val
      BY <2>1, RestoredFields
    <3>2. KindOf[x] = "CronJob" => w.val \in {0, 1}
      BY DEF SInv, ClusterInv, CronJobsBinary
    <3>3. Unquiesced(x, w).val = w.val \/ w.val = 0
      BY <2>4, <3>1, <3>2 DEF Unquiesced
    <3> QED
      BY <1>1, <2>1, <2>4, <3>3 DEF IInv, TypeOK, Rewritten
  <2> QED
    BY <2>2, <2>3, <2>4
<1>3. ASSUME NEW x \in Objs, Propagate(x) \/ CronJobFires(x)
      PROVE  objs'[o] = objs[o]
  BY <1>1, <1>3 DEF Propagate, CronJobFires, IInv, TypeOK
<1>4. ~UserStep
  <2>1. \A x, v, key : UserEdit(x, v, key) => edits' = edits + 1
    BY DEF UserEdit
  <2>2. UserStep => edits' = edits + 1
    BY <2>1 DEF UserStep, UserScale, UserReplaceSelector, UserPatchSelector
  <2> QED
    BY <1>1, <2>2
<1>5. ASSUME UNCHANGED objs
      PROVE  objs'[o].val \in {0, objs[o].val} \/ objs[o].val = 0
  BY <1>5
<1>6. ASSUME NEW p \in Procs, CallerStep(p)
      PROVE  UNCHANGED objs \/ \E x \in Objs : WriteItem(p, x)
  BY <1>6 DEF CallerStep, List, SkipItem, ConflictItem, EndSweep, PollDone, Return, cluster
<1>7. ASSUME NEW p \in Procs, Abort(p) \/ \E k \in Ops : Begin(p, k)
      PROVE  UNCHANGED objs
  BY <1>7 DEF Abort, Begin, Return, cluster
<1>8. ASSUME NEW x \in Objs, PodStart(x) \/ PodStop(x) \/ PodEnd(x)
      PROVE  UNCHANGED objs
  BY <1>8 DEF PodStart, PodStop, PodEnd, PodStep
<1>9. CASE UNCHANGED vars
  BY <1>9, <1>5 DEF vars, cluster
<1> QED
  BY <1>2, <1>3, <1>4, <1>5, <1>6, <1>7, <1>8, <1>9 DEF Next, ControllerStep

(* Whoever is not the user never replaces a running count by another one:   *)
(* sweeps stop a workload or restore a stopped one, and nothing else, also  *)
(* from a stale snapshot or a stale annotation.                             *)
THEOREM CountsSurvive == Spec => RunningCountsKept
<1>1. IInv /\ SInv /\ [Next]_vars =>
        [edits' = edits =>
           \A o \in exists : Owner[o] = None /\ KindOf[o] # "DaemonSet" =>
             objs'[o].val \in {0, objs[o].val} \/ objs[o].val = 0]_vars
  BY CountKept
<1> QED
  BY <1>1, IInvHolds, SInvHolds, PTL DEF Spec, RunningCountsKept
=============================================================================
