--------------------------- MODULE Quiesce_proofs ---------------------------
(***************************************************************************)
(* Theorems about Quiesce, for any namespace, any number of callers and    *)
(* any bounds: the type invariant, and that no interleaving of quiesces,   *)
(* unquiesces, users and controllers loses the setting a user chose.       *)
(***************************************************************************)
EXTENDS Quiesce, TLAPS

(* Restricting a listing gives a listing of the smaller set. *)
LEMMA RestrictListing ==
  ASSUME NEW f \in Listing, NEW S \in SUBSET DOMAIN f
  PROVE  /\ Restrict(f, S) \in Listing
         /\ DOMAIN Restrict(f, S) = S
         /\ \A o \in S : Restrict(f, S)[o] = f[o]
<1>1. PICK T \in SUBSET Objs : f \in [T -> Workload]
  BY DEF Listing
<1>2. Restrict(f, S) \in [S -> Workload]
  BY <1>1 DEF Restrict
<1>3. S \in SUBSET Objs
  BY <1>1
<1> QED
  BY <1>2, <1>3 DEF Restrict, Listing

(* The empty listing and the snapshot of a sweep are listings. *)
LEMMA EmptyIsListing == EmptyListing \in Listing /\ DOMAIN EmptyListing = {}
<1>1. EmptyListing \in [{} -> Workload]
  BY DEF EmptyListing
<1> QED
  BY <1>1 DEF Listing, EmptyListing

LEMMA SnapshotIsListing ==
  ASSUME NEW f \in [Objs -> Workload], NEW S \in SUBSET Objs
  PROVE  /\ Restrict(f, S) \in Listing
         /\ DOMAIN Restrict(f, S) = S
         /\ \A o \in S : Restrict(f, S)[o] = f[o]
<1>1. f \in Listing
  BY DEF Listing
<1> QED
  BY <1>1, RestrictListing

(* The domain of a listing is a set of objects, its values are workloads. *)
LEMMA ListingValues ==
  ASSUME NEW f \in Listing
  PROVE  DOMAIN f \subseteq Objs /\ \A o \in DOMAIN f : f[o] \in Workload
BY DEF Listing

(* The quiesce key is only in selectors of DaemonSets with an annotation. *)
KeyAnnotated(o, w) == w.key => KindOf[o] = "DaemonSet" /\ w.ann # NoAnn

(* The fields of what the sweeps write. *)
LEMMA SavedFields ==
  ASSUME NEW w \in Workload
  PROVE  /\ SaveReplicas(w) = [val |-> 0, key |-> w.key, ann |-> w.val]
         /\ SaveSelector(w) = [val |-> w.val, key |-> TRUE, ann |-> w.val]
         /\ SuspendCronJob(w) = [val |-> 0, key |-> w.key, ann |-> 1]
BY DEF Workload, SaveReplicas, SaveSelector, SuspendCronJob

LEMMA RestoredFields ==
  ASSUME NEW w \in Workload
  PROVE  /\ RestoreReplicas(w) = [val |-> IF w.val = 0 THEN w.ann ELSE w.val,
                                  key |-> w.key, ann |-> NoAnn]
         /\ RestoreSelector(w) = [val |-> w.ann, key |-> FALSE, ann |-> NoAnn]
         /\ ResumeCronJob(w) = [val |-> 1, key |-> w.key, ann |-> NoAnn]
BY DEF Workload, RestoreReplicas, RestoreSelector, ResumeCronJob

LEMMA WorkloadFields ==
  ASSUME NEW w \in Workload
  PROVE  /\ w.val \in 0..MaxReplicas /\ w.val # NoAnn
         /\ w.key \in BOOLEAN
         /\ w.ann = NoAnn \/ w.ann \in 0..MaxReplicas
BY QuiesceAssumption DEF Workload, NoAnn

LEMMA IsWorkload ==
  ASSUME NEW v \in 0..MaxReplicas, NEW b \in BOOLEAN, NEW a \in {NoAnn} \cup 0..MaxReplicas
  PROVE  [val |-> v, key |-> b, ann |-> a] \in Workload
BY DEF Workload

(* What an unquiesce leaves of an annotated object, and of one without. *)
LEMMA UnquiescedFields ==
  ASSUME NEW o \in Objs, NEW w \in Workload, KeyAnnotated(o, w), ToUnquiesce(o, w)
  PROVE  /\ Unquiesced(o, w) \in Workload
         /\ Unquiesced(o, w).ann = NoAnn
         /\ ~Unquiesced(o, w).key
         /\ Unquiesced(o, w).val =
              IF KindOf[o] = "CronJob" THEN 1
              ELSE IF KindOf[o] = "DaemonSet" \/ w.val = 0 THEN w.ann ELSE w.val
<1>1. w.ann \in 0..MaxReplicas
  BY WorkloadFields DEF ToUnquiesce
<1>2. 1 \in 0..MaxReplicas
  BY QuiesceAssumption
<1>3. CASE KindOf[o] = "DaemonSet"
  <2>1. Unquiesced(o, w) = [val |-> w.ann, key |-> FALSE, ann |-> NoAnn]
    BY <1>3, RestoredFields DEF Unquiesced
  <2>2. Unquiesced(o, w) \in Workload
    BY <1>1, <2>1 DEF Workload
  <2> QED
    BY <1>3, <2>1, <2>2
<1>4. CASE KindOf[o] = "CronJob"
  <2>1. Unquiesced(o, w) = [val |-> 1, key |-> FALSE, ann |-> NoAnn]
    BY <1>4, RestoredFields, WorkloadFields DEF Unquiesced, KeyAnnotated
  <2>2. Unquiesced(o, w) \in Workload
    BY <1>2, <2>1 DEF Workload
  <2> QED
    BY <1>4, <2>1, <2>2
<1>5. CASE KindOf[o] \notin {"DaemonSet", "CronJob"}
  <2> DEFINE v == IF w.val = 0 THEN w.ann ELSE w.val
  <2>1. Unquiesced(o, w) = [val |-> v, key |-> FALSE, ann |-> NoAnn]
    BY <1>5, RestoredFields, WorkloadFields DEF Unquiesced, KeyAnnotated
  <2>2. v \in 0..MaxReplicas
    BY <1>1, WorkloadFields
  <2>3. Unquiesced(o, w) \in Workload
    BY <2>1, <2>2 DEF Workload
  <2> QED
    BY <1>5, <2>1, <2>3
<1> QED
  BY <1>3, <1>4, <1>5

(* One rewriting by a sweep of either operation yields a workload in which *)
(* the key is annotated, and does not change what an unquiesce would leave *)
(* in the end (an unquiesced CronJob is always active).                    *)
LEMMA RewritingKeepsIntent ==
  ASSUME NEW o \in Objs, NEW w \in Workload, NEW k \in Ops,
         KeyAnnotated(o, w), Selected(k, o, w)
  PROVE  LET x == Rewritten(k, o, w)
         IN  /\ x \in Workload
             /\ KeyAnnotated(o, x)
             /\ ~OwnedReplicaSet(o) => ~AfterUnquiesce(o, x).key
             /\ KindOf[o] = "CronJob" => AfterUnquiesce(o, x).val = 1
             /\ KindOf[o] \notin {"CronJob", "Job"} =>
                  AfterUnquiesce(o, x).val = AfterUnquiesce(o, w).val
<1> DEFINE x == Rewritten(k, o, w)
<1> HIDE DEF x
<1>0. x = Rewritten(k, o, w)
  BY DEF x
<1>1. CASE k = "quiesce"
  <2>1. ToQuiesce(o, w) /\ x = Quiesced(o, w)
    BY <1>0, <1>1 DEF Selected, Rewritten
  <2>2. ~OwnedReplicaSet(o)
    BY <2>1 DEF ToQuiesce, OwnedReplicaSet
  <2>3. /\ x \in Workload /\ x.ann # NoAnn /\ KeyAnnotated(o, x)
        /\ KindOf[o] = "DaemonSet" => x.key /\ x.ann = w.val
        /\ KindOf[o] \notin {"DaemonSet", "CronJob"} => x.val = 0 /\ x.ann = w.val
    <3>1. CASE KindOf[o] = "DaemonSet"
      <4>1. x = [val |-> w.val, key |-> TRUE, ann |-> w.val]
        BY <2>1, <3>1, SavedFields DEF Quiesced
      <4> QED
        BY <3>1, <4>1, WorkloadFields, IsWorkload DEF KeyAnnotated
    <3>2. CASE KindOf[o] = "CronJob"
      <4>1. x = [val |-> 0, key |-> FALSE, ann |-> 1]
        BY <2>1, <3>2, SavedFields, WorkloadFields DEF Quiesced, KeyAnnotated
      <4>2. 0 \in 0..MaxReplicas /\ 1 \in 0..MaxReplicas /\ 1 # NoAnn
        BY QuiesceAssumption DEF NoAnn
      <4> QED
        BY <3>2, <4>1, <4>2, IsWorkload DEF KeyAnnotated
    <3>3. CASE KindOf[o] \notin {"DaemonSet", "CronJob"}
      <4>1. x = [val |-> 0, key |-> FALSE, ann |-> w.val]
        BY <2>1, <3>3, SavedFields, WorkloadFields DEF Quiesced, KeyAnnotated
      <4>2. 0 \in 0..MaxReplicas
        BY QuiesceAssumption
      <4> QED
        BY <3>3, <4>1, <4>2, WorkloadFields, IsWorkload DEF KeyAnnotated
    <3> QED
      BY <3>1, <3>2, <3>3
  <2>4. ToUnquiesce(o, x)
    BY <2>2, <2>3 DEF ToUnquiesce
  <2>5. AfterUnquiesce(o, x) = Unquiesced(o, x)
    BY <2>4 DEF AfterUnquiesce
  <2>6. KindOf[o] \notin {"CronJob", "Job"} => AfterUnquiesce(o, w).val = w.val
    <3>1. SUFFICES ASSUME KindOf[o] \notin {"CronJob", "Job"}, ToUnquiesce(o, w)
                   PROVE  Unquiesced(o, w).val = w.val
      BY DEF AfterUnquiesce
    <3>2. ~Stopped(o, w)
      BY <2>1, <3>1 DEF ToQuiesce
    <3> QED
      BY <3>1, <3>2, UnquiescedFields DEF Stopped, ToUnquiesce
  <2> QED
    BY <1>0, <2>3, <2>4, <2>5, <2>6, UnquiescedFields
<1>2. CASE k = "unquiesce"
  <2>1. ToUnquiesce(o, w) /\ x = Unquiesced(o, w)
    BY <1>0, <1>2 DEF Selected, Rewritten
  <2>2. x \in Workload /\ x.ann = NoAnn /\ ~x.key /\ (KindOf[o] = "CronJob" => x.val = 1)
    BY <2>1, UnquiescedFields
  <2>3. AfterUnquiesce(o, x) = x /\ AfterUnquiesce(o, w) = x
    BY <2>1, <2>2 DEF AfterUnquiesce, ToUnquiesce
  <2> QED
    BY <1>0, <2>2, <2>3 DEF KeyAnnotated
<1> QED
  BY <1>1, <1>2 DEF Ops
-----------------------------------------------------------------------------
(* The inductive invariant: an item that has not moved since the List is   *)
(* listed as it is now, so that what a sweep decides and writes from its   *)
(* snapshot is what it would decide and write from the current object.     *)
KeysAnnotated == \A o \in Objs : KeyAnnotated(o, objs[o])
ListedExist == \A p \in Procs : DOMAIN listed[p] \subseteq exists
ListedFresh == \A p \in Procs : \A o \in DOMAIN listed[p] :
                 o \notin stale[p] => listed[p][o] = objs[o]
IInv == TypeOK /\ KeysAnnotated /\ ListedExist /\ ListedFresh /\ IntentRecoverable

(* Every initial state satisfies it. *)
LEMMA InitIInv == Init => IInv
<1> SUFFICES ASSUME Init PROVE IInv
  OBVIOUS
<1> USE QuiesceAssumption DEF Init
<1>1. /\ want \in [Objs -> 0..MaxReplicas]
      /\ \A o \in Objs : objs[o] = [val |-> want[o], key |-> FALSE, ann |-> NoAnn]
  OBVIOUS
<1>2. TypeOK
  <2>1. objs \in [Objs -> Workload]
    BY <1>1 DEF Workload
  <2>2. listed \in [Procs -> Listing]
    BY EmptyIsListing
  <2> QED
    BY <1>1, <2>1, <2>2 DEF TypeOK, Ops, Stages
<1>3. KeysAnnotated
  BY <1>1 DEF KeysAnnotated, KeyAnnotated
<1>4. ListedExist /\ ListedFresh
  BY EmptyIsListing DEF ListedExist, ListedFresh
<1>5. IntentRecoverable
  BY <1>1 DEF IntentRecoverable, AfterUnquiesce, ToUnquiesce
<1> QED
  BY <1>2, <1>3, <1>4, <1>5 DEF IInv

(* Steps that write no object and list nothing new. *)
LEMMA ListingShrinks ==
  ASSUME IInv, NEW p \in Procs, NEW f \in Listing,
         DOMAIN f \subseteq DOMAIN listed[p], \A o \in DOMAIN f : f[o] = listed[p][o],
         listed' = [listed EXCEPT ![p] = f], UNCHANGED << objs, exists >>,
         stale' \in [Procs -> SUBSET Objs],
         \A q \in Procs : DOMAIN listed'[q] \cap stale[q] \subseteq stale'[q]
  PROVE  listed' \in [Procs -> Listing] /\ ListedExist' /\ ListedFresh'
BY DEF IInv, TypeOK, ListedExist, ListedFresh

(* Moved and Opposing record objects. *)
LEMMA MovedType ==
  ASSUME TypeOK, NEW S
  PROVE  /\ Moved(S) \in [Procs -> SUBSET Objs]
         /\ \A q \in Procs : stale[q] \subseteq Moved(S)[q]
         /\ \A q \in Procs : S \cap DOMAIN listed[q] \subseteq Moved(S)[q]
<1>1. \A q \in Procs : DOMAIN listed[q] \subseteq Objs
  BY ListingValues DEF TypeOK
<1> QED
  BY <1>1 DEF TypeOK, Moved

LEMMA OpposingType ==
  ASSUME TypeOK, NEW P, NEW o \in Objs
  PROVE  Opposing(P, o) \in [Procs -> SUBSET Objs]
BY DEF TypeOK, Opposing

(* Steps of the environment that write the objects S and no listing. *)
LEMMA ObjectsWritten ==
  ASSUME IInv, NEW S, UNCHANGED listed, stale' = Moved(S),
         \A o \in exists \ S : objs'[o] = objs[o], exists \subseteq exists'
  PROVE  stale' \in [Procs -> SUBSET Objs] /\ ListedExist' /\ ListedFresh'
<1>1. stale' \in [Procs -> SUBSET Objs]
  BY MovedType DEF IInv
<1>2. ListedExist'
  BY DEF IInv, ListedExist
<1>3. ListedFresh'
  <2> SUFFICES ASSUME NEW p \in Procs, NEW o \in DOMAIN listed[p], o \notin stale'[p]
               PROVE  listed[p][o] = objs'[o]
    BY DEF ListedFresh
  <2>1. o \in exists
    BY DEF IInv, ListedExist
  <2>2. o \notin stale[p] /\ o \notin S
    BY MovedType DEF IInv
  <2> QED
    BY <2>1, <2>2 DEF IInv, ListedFresh
<1> QED
  BY <1>1, <1>2, <1>3

(* Steps that touch neither objects nor what users want of them. *)
LEMMA ObjectsKept ==
  ASSUME IInv, UNCHANGED << objs, want, overridden >>
  PROVE  KeysAnnotated' /\ IntentRecoverable'
BY DEF IInv, KeysAnnotated, KeyAnnotated, IntentRecoverable, Restorable,
       AfterUnquiesce, ToUnquiesce, Unquiesced

LEMMA BeginIInv ==
  ASSUME IInv, NEW p \in Procs, NEW k \in Ops, Begin(p, k)
  PROVE  IInv'
<1> USE DEF Begin, cluster
<1>1. TypeOK'
  BY DEF IInv, TypeOK, Stages
<1>2. ListedExist' /\ ListedFresh'
  BY DEF IInv, ListedExist, ListedFresh
<1> QED
  BY <1>1, <1>2, ObjectsKept DEF IInv

LEMMA ListIInv ==
  ASSUME IInv, NEW p \in Procs, List(p)
  PROVE  IInv'
<1> DEFINE S == Items(Stages[stage[p]])
<1> HIDE DEF S
<1>1. S \subseteq exists /\ S \in SUBSET Objs
  BY DEF S, Items, IInv, TypeOK
<1>2. /\ listed' = [listed EXCEPT ![p] = Restrict(objs, S)]
      /\ pc' = [pc EXCEPT ![p] = "update"]
      /\ UNCHANGED << cluster, op, stage, stale, history >>
  BY DEF List, S
<1>3. /\ Restrict(objs, S) \in Listing
      /\ DOMAIN Restrict(objs, S) = S
      /\ \A o \in S : Restrict(objs, S)[o] = objs[o]
  BY <1>1, SnapshotIsListing DEF IInv, TypeOK
<1>4. TypeOK'
  BY <1>2, <1>3 DEF IInv, TypeOK, cluster, history
<1>5. ListedExist' /\ ListedFresh'
  BY <1>1, <1>2, <1>3 DEF IInv, TypeOK, ListedExist, ListedFresh, cluster
<1>6. KeysAnnotated' /\ IntentRecoverable'
  BY <1>2, ObjectsKept DEF cluster, history
<1> QED
  BY <1>4, <1>5, <1>6 DEF IInv

(* Dropping a visited item from a listing. *)
LEMMA WithoutListing ==
  ASSUME IInv, NEW p \in Procs, NEW o
  PROVE  LET f == Without(listed[p], o)
         IN  /\ f \in Listing
             /\ DOMAIN f = DOMAIN listed[p] \ {o}
             /\ \A x \in DOMAIN f : f[x] = listed[p][x]
<1>1. listed[p] \in Listing
  BY DEF IInv, TypeOK
<1> QED
  BY <1>1, RestrictListing DEF Without

LEMMA SkipItemIInv ==
  ASSUME IInv, NEW p \in Procs, NEW o \in Objs, SkipItem(p, o)
  PROVE  IInv'
<1> USE DEF SkipItem, cluster, history
<1>1. listed' \in [Procs -> Listing] /\ ListedExist' /\ ListedFresh'
  <2> DEFINE f == Without(listed[p], o)
  <2>1. stale' \in [Procs -> SUBSET Objs]
    BY DEF IInv, TypeOK
  <2>2. f \in Listing /\ DOMAIN f \subseteq DOMAIN listed[p]
        /\ \A x \in DOMAIN f : f[x] = listed[p][x]
    BY WithoutListing
  <2>3. listed' = [listed EXCEPT ![p] = f]
    OBVIOUS
  <2> HIDE DEF f
  <2> QED
    BY <2>1, <2>2, <2>3, ListingShrinks
<1>2. TypeOK'
  BY <1>1 DEF IInv, TypeOK
<1> QED
  BY <1>1, <1>2, ObjectsKept DEF IInv

LEMMA ReturnIInv ==
  ASSUME IInv, NEW p \in Procs, NEW result \in {"done", "failed"}, Return(p, result)
  PROVE  IInv'
<1> USE DEF Return, cluster, history
<1>1. listed' \in [Procs -> Listing] /\ ListedExist' /\ ListedFresh'
  <2>1. stale' \in [Procs -> SUBSET Objs]
    BY DEF IInv, TypeOK
  <2>2. \A q \in Procs : DOMAIN listed'[q] \cap stale[q] \subseteq stale'[q]
    BY EmptyIsListing DEF IInv, TypeOK
  <2> QED
    BY <2>1, <2>2, EmptyIsListing, ListingShrinks
<1>2. TypeOK'
  BY <1>1 DEF IInv, TypeOK
<1> QED
  BY <1>1, <1>2, ObjectsKept DEF IInv

LEMMA EndSweepIInv ==
  ASSUME IInv, NEW p \in Procs, EndSweep(p)
  PROVE  IInv'
<1> USE DEF EndSweep, cluster, history
<1>1. stale' \in [Procs -> SUBSET Objs]
  BY DEF IInv, TypeOK
<1>2. stage' \in [Procs -> 1..Len(Stages)]
  BY DEF IInv, TypeOK, Later, Stages
<1>3. pc' \in [Procs -> {"idle", "list", "update", "poll", "done", "failed"}]
  BY DEF IInv, TypeOK
<1>4. TypeOK'
  BY <1>1, <1>2, <1>3 DEF IInv, TypeOK
<1>5. ListedExist' /\ ListedFresh'
  BY DEF IInv, TypeOK, ListedExist, ListedFresh
<1> QED
  BY <1>4, <1>5, ObjectsKept DEF IInv

(* A successful update writes from a fresh copy. *)
LEMMA WriteItemIInv ==
  ASSUME IInv, NEW p \in Procs, NEW o \in Objs, WriteItem(p, o)
  PROVE  IInv'
<1> DEFINE w == objs[o]
           x == Rewritten(op[p], o, w)
<1>1. /\ listed[p][o] = w /\ Selected(op[p], o, w) /\ o \in DOMAIN listed[p]
      /\ w \in Workload /\ KeyAnnotated(o, w) /\ op[p] \in Ops
  BY DEF WriteItem, Visiting, IInv, ListedFresh, TypeOK, KeysAnnotated
<1>2. objs' = [objs EXCEPT ![o] = x]
  BY <1>1 DEF WriteItem
<1> HIDE DEF x
<1>3. /\ x \in Workload
      /\ KeyAnnotated(o, x)
      /\ ~OwnedReplicaSet(o) => ~AfterUnquiesce(o, x).key
      /\ KindOf[o] = "CronJob" => AfterUnquiesce(o, x).val = 1
      /\ KindOf[o] \notin {"CronJob", "Job"} =>
           AfterUnquiesce(o, x).val = AfterUnquiesce(o, w).val
  BY <1>1, RewritingKeepsIntent DEF x
<1>4. /\ opposed' \in [Procs -> SUBSET Objs]
      /\ UNCHANGED << exists, pods, op, stage, want, overridden, edits >>
  BY OpposingType DEF WriteItem, IInv
<1>5. /\ listed' \in [Procs -> Listing]
      /\ stale' \in [Procs -> SUBSET Objs]
      /\ pc' \in [Procs -> {"idle", "list", "update", "poll", "done", "failed"}]
      /\ \A q \in Procs \ {p} : listed'[q] = listed[q] /\ stale'[q] = Moved({o})[q]
      /\ DOMAIN listed'[p] \subseteq DOMAIN listed[p] \ {o}
      /\ \A y \in DOMAIN listed'[p] : listed'[p][y] = listed[p][y] /\ stale[p] \subseteq stale'[p]
  <2>1. Moved({o}) \in [Procs -> SUBSET Objs] /\ stale[p] \subseteq Moved({o})[p]
    BY MovedType DEF IInv
  <2>2. CASE /\ listed' = [listed EXCEPT ![p] = Without(@, o)]
             /\ stale' = Moved({o})
             /\ UNCHANGED pc
    <3> DEFINE f == Without(listed[p], o)
    <3>1. f \in Listing /\ DOMAIN f = DOMAIN listed[p] \ {o}
          /\ \A y \in DOMAIN f : f[y] = listed[p][y]
      BY WithoutListing
    <3>2. listed' = [listed EXCEPT ![p] = f]
      BY <2>2
    <3> HIDE DEF f
    <3> QED
      BY <2>1, <2>2, <3>1, <3>2 DEF IInv, TypeOK
  <2>3. CASE /\ listed' = [listed EXCEPT ![p] = EmptyListing]
             /\ stale' = [Moved({o}) EXCEPT ![p] = {}]
             /\ pc' = [pc EXCEPT ![p] = "failed"]
    BY <2>1, <2>3, EmptyIsListing DEF IInv, TypeOK
  <2> QED
    BY <2>2, <2>3 DEF WriteItem
<1>6. TypeOK'
  BY <1>2, <1>3, <1>4, <1>5 DEF IInv, TypeOK
<1>7. KeysAnnotated'
  BY <1>2, <1>3 DEF IInv, TypeOK, KeysAnnotated, KeyAnnotated
<1>8. ListedExist'
  BY <1>4, <1>5 DEF IInv, ListedExist
<1>9. ListedFresh'
  <2> SUFFICES ASSUME NEW q \in Procs, NEW y \in DOMAIN listed'[q], y \notin stale'[q]
               PROVE  listed'[q][y] = objs'[y]
    BY DEF ListedFresh
  <2>1. CASE q = p
    BY <1>2, <1>5, <2>1 DEF IInv, TypeOK, ListedFresh
  <2>2. CASE q # p
    <3>1. y \in DOMAIN listed[q] /\ y \notin stale[q] /\ y # o
      BY <1>5, <2>2, MovedType DEF IInv
    <3> QED
      BY <1>2, <1>5, <2>2, <3>1 DEF IInv, TypeOK, ListedFresh
  <2> QED
    BY <2>1, <2>2
<1>10. IntentRecoverable'
  <2> SUFFICES ASSUME NEW y \in Objs, Restorable(y)', y \notin overridden'
               PROVE  /\ AfterUnquiesce(y, objs'[y]).val = want'[y]
                      /\ ~AfterUnquiesce(y, objs'[y]).key
    BY DEF IntentRecoverable, AfterUnquiesce, ToUnquiesce, Unquiesced
  <2>1. Restorable(y) /\ y \notin overridden
    BY <1>4 DEF Restorable
  <2>2. AfterUnquiesce(y, objs[y]).val = want[y] /\ ~AfterUnquiesce(y, objs[y]).key
    BY <2>1 DEF IInv, IntentRecoverable
  <2>3. CASE y = o
    <3>1. ~OwnedReplicaSet(o) /\ KindOf[o] # "Job" /\ (KindOf[o] = "CronJob" => want[o] = 1)
      BY <2>1, <2>3 DEF Restorable, OwnedReplicaSet
    <3>2. objs'[o] = x
      BY <1>2 DEF IInv, TypeOK
    <3> QED
      BY <1>3, <1>4, <2>2, <2>3, <3>1, <3>2
  <2>4. CASE y # o
    BY <1>2, <1>4, <2>2, <2>4 DEF IInv, TypeOK
  <2> QED
    BY <2>3, <2>4
<1> QED
  BY <1>6, <1>7, <1>8, <1>9, <1>10 DEF IInv

(* Intent is a matter of each object and its own history alone. *)
LEMMA IntentOf ==
  ASSUME IInv, NEW o \in Objs, \A y \in Objs \ {o} :
           objs'[y] = objs[y] /\ want'[y] = want[y] /\ (y \in overridden <=> y \in overridden'),
         Restorable(o)' /\ o \notin overridden' =>
           AfterUnquiesce(o, objs'[o]).val = want'[o] /\ ~AfterUnquiesce(o, objs'[o]).key
  PROVE  IntentRecoverable'
BY DEF IInv, IntentRecoverable, Restorable, AfterUnquiesce, ToUnquiesce, Unquiesced

(* An edit by a user: the quiesce key is kept at most. *)
LEMMA UserEditIInv ==
  ASSUME IInv, NEW o \in Objs, NEW v \in 0..MaxReplicas, NEW key \in BOOLEAN,
         key => objs[o].key, UserEdit(o, v, key), overridden' \subseteq Objs
  PROVE  TypeOK' /\ KeysAnnotated' /\ ListedExist' /\ ListedFresh'
<1> USE DEF UserEdit
<1>1. [val |-> v, key |-> key, ann |-> objs[o].ann] \in Workload
  BY DEF IInv, TypeOK, Workload
<1>2. edits' \in 0..MaxEdits
  BY QuiesceAssumption DEF IInv, TypeOK
<1>3. stale' \in [Procs -> SUBSET Objs] /\ ListedExist' /\ ListedFresh'
  <2>1. \A y \in exists \ {o} : objs'[y] = objs[y]
    BY DEF IInv, TypeOK
  <2> QED
    BY <2>1, ObjectsWritten
<1>4. TypeOK'
  BY <1>1, <1>2, <1>3, OpposingType DEF IInv, TypeOK
<1>5. KeysAnnotated'
  BY DEF IInv, TypeOK, KeysAnnotated, KeyAnnotated
<1> QED
  BY <1>3, <1>4, <1>5

LEMMA UserStepIInv ==
  ASSUME IInv, UserStep
  PROVE  IInv'
<1>1. PICK o \in Objs, v \in 0..MaxReplicas :
        UserScale(o, v) \/ UserReplaceSelector(o, v) \/ UserPatchSelector(o, v)
  BY DEF UserStep
<1> DEFINE w == objs'[o]
<1>2. ASSUME NEW key \in BOOLEAN, UserEdit(o, v, key)
      PROVE  /\ w = [val |-> v, key |-> key, ann |-> objs[o].ann] /\ want'[o] = v
             /\ \A y \in Objs \ {o} : objs'[y] = objs[y] /\ want'[y] = want[y]
  BY <1>2 DEF UserEdit, IInv, TypeOK
<1>3. CASE UserScale(o, v)
  <2> USE DEF UserScale
  <2>1. overridden' \subseteq Objs /\ \A y \in Objs \ {o} : y \in overridden <=> y \in overridden'
    BY <1>3 DEF IInv, TypeOK
  <2>2. TypeOK' /\ KeysAnnotated' /\ ListedExist' /\ ListedFresh'
    BY <1>3, <2>1, UserEditIInv
  <2>3. w = [val |-> v, key |-> FALSE, ann |-> objs[o].ann] /\ want'[o] = v
    BY <1>2, <1>3
  <2>4. o \notin overridden' => v # 0 \/ w.ann = NoAnn
    BY <1>3, <2>3
  <2>5. o \notin overridden' => AfterUnquiesce(o, w).val = v /\ ~AfterUnquiesce(o, w).key
    <3>1. CASE KindOf[o] = "CronJob"
      <4>1. v \in 0..1
        BY <1>3, <3>1 DEF InitialVals
      <4> QED
        BY <2>3, <2>4, <3>1, <4>1 DEF AfterUnquiesce, ToUnquiesce, Unquiesced, ResumeCronJob
    <3>2. CASE KindOf[o] # "CronJob"
      BY <1>3, <2>3, <2>4, <3>2 DEF AfterUnquiesce, ToUnquiesce, Unquiesced, RestoreReplicas
    <3> QED
      BY <3>1, <3>2
  <2> QED
    BY <1>2, <1>3, <2>1, <2>2, <2>3, <2>5, IntentOf DEF IInv
<1>4. CASE UserReplaceSelector(o, v)
  <2> USE DEF UserReplaceSelector
  <2>1. overridden' \subseteq Objs /\ \A y \in Objs \ {o} : y \in overridden <=> y \in overridden'
    BY <1>4 DEF IInv, TypeOK
  <2>2. TypeOK' /\ KeysAnnotated' /\ ListedExist' /\ ListedFresh'
    BY <1>4, <2>1, UserEditIInv
  <2>3. w = [val |-> v, key |-> FALSE, ann |-> objs[o].ann] /\ want'[o] = v
    BY <1>2, <1>4
  <2>4. AfterUnquiesce(o, w).val = v /\ ~AfterUnquiesce(o, w).key
    BY <1>4, <2>3 DEF AfterUnquiesce, ToUnquiesce
  <2> QED
    BY <1>2, <1>4, <2>1, <2>2, <2>3, <2>4, IntentOf DEF IInv
<1>5. CASE UserPatchSelector(o, v)
  <2> USE DEF UserPatchSelector
  <2>1. /\ overridden' \subseteq Objs /\ o \in overridden'
        /\ \A y \in Objs \ {o} : y \in overridden <=> y \in overridden'
    BY <1>5 DEF IInv, TypeOK
  <2>2. TypeOK' /\ KeysAnnotated' /\ ListedExist' /\ ListedFresh'
    BY <1>5, <2>1, UserEditIInv
  <2> QED
    BY <1>2, <1>5, <2>1, <2>2, IntentOf DEF IInv
<1> QED
  BY <1>1, <1>3, <1>4, <1>5

LEMMA PropagateIInv ==
  ASSUME IInv, NEW o \in Objs, Propagate(o)
  PROVE  IInv'
<1> USE QuiesceAssumption DEF Propagate
<1>1. Owner[o] \in Objs /\ objs[Owner[o]] \in Workload
      /\ KindOf[Owner[o]] \in {"Deployment", "DeploymentConfig"}
  <2>1. Owner[o] \in Objs
    OBVIOUS
  <2>2. KindOf[Owner[o]] \in {"Deployment", "DeploymentConfig"}
    OBVIOUS
  <2> QED
    BY <2>1, <2>2 DEF IInv, TypeOK
<1>2. stale' \in [Procs -> SUBSET Objs] /\ ListedExist' /\ ListedFresh'
  <2>1. \A y \in exists \ {o, Owner[o]} : objs'[y] = objs[y]
    BY DEF IInv, TypeOK
  <2> QED
    BY <2>1, ObjectsWritten
<1>3. TypeOK'
  BY <1>1, <1>2, WorkloadFields DEF IInv, TypeOK
<1>4. KeysAnnotated'
  BY <1>1 DEF IInv, TypeOK, KeysAnnotated, KeyAnnotated
<1>5. IntentRecoverable'
  <2>1. ~Restorable(o)'
    BY DEF Restorable
  <2>2. \A y \in Objs \ {o} : objs'[y] = objs[y] /\ want'[y] = want[y]
    BY DEF IInv, TypeOK
  <2> QED
    BY <2>1, <2>2, IntentOf
<1> QED
  BY <1>2, <1>3, <1>4, <1>5 DEF IInv

LEMMA CronJobFiresIInv ==
  ASSUME IInv, NEW o \in Objs, CronJobFires(o)
  PROVE  IInv'
<1> USE QuiesceAssumption DEF CronJobFires
<1>1. [val |-> 1, key |-> FALSE, ann |-> NoAnn] \in Workload /\ 1 \in 0..MaxReplicas
  BY DEF Workload
<1>2. stale' \in [Procs -> SUBSET Objs] /\ ListedExist' /\ ListedFresh'
  <2>1. \A y \in exists \ {Owner[o]} : objs'[y] = objs[y]
    BY DEF IInv, TypeOK
  <2> QED
    BY <2>1, ObjectsWritten
<1>3. TypeOK'
  BY <1>1, <1>2 DEF IInv, TypeOK
<1>4. KeysAnnotated'
  BY DEF IInv, TypeOK, KeysAnnotated, KeyAnnotated
<1>5. IntentRecoverable'
  <2>1. ~Restorable(o)'
    BY DEF Restorable
  <2>2. \A y \in Objs \ {o} : objs'[y] = objs[y] /\ want'[y] = want[y]
    BY DEF IInv, TypeOK
  <2> QED
    BY <2>1, <2>2, IntentOf
<1> QED
  BY <1>2, <1>3, <1>4, <1>5 DEF IInv

LEMMA PodStepIInv ==
  ASSUME IInv, NEW o \in Objs, NEW from, NEW to \in {"none", "active"},
         PodStep(o, from, to)
  PROVE  IInv'
<1> USE DEF PodStep, history
<1>1. stale' \in [Procs -> SUBSET Objs] /\ ListedExist' /\ ListedFresh'
  BY ObjectsWritten
<1>2. TypeOK'
  BY <1>1 DEF IInv, TypeOK
<1> QED
  BY <1>1, <1>2, ObjectsKept DEF IInv

-----------------------------------------------------------------------------
(* IInv is inductive. *)
LEMMA NextIInv == IInv /\ [Next]_vars => IInv'
<1> SUFFICES ASSUME IInv, [Next]_vars PROVE IInv'
  OBVIOUS
<1>1. ASSUME NEW p \in Procs, CallerStep(p) PROVE IInv'
  <2>1. CASE List(p)
    BY <2>1, ListIInv
  <2>2. ASSUME NEW o \in Objs, SkipItem(p, o) PROVE IInv'
    BY <2>2, SkipItemIInv
  <2>3. ASSUME NEW o \in Objs, WriteItem(p, o) PROVE IInv'
    BY <2>3, WriteItemIInv
  <2>4. ASSUME NEW o \in Objs, ConflictItem(p, o) PROVE IInv'
    BY <2>4, ReturnIInv DEF ConflictItem
  <2>5. CASE EndSweep(p)
    BY <2>5, EndSweepIInv
  <2>6. CASE PollDone(p)
    BY <2>6, ReturnIInv DEF PollDone
  <2> QED
    BY <1>1, <2>1, <2>2, <2>3, <2>4, <2>5, <2>6 DEF CallerStep
<1>2. ASSUME NEW p \in Procs, Abort(p) PROVE IInv'
  BY <1>2, ReturnIInv DEF Abort
<1>3. ASSUME NEW p \in Procs, NEW k \in Ops, Begin(p, k) PROVE IInv'
  BY <1>3, BeginIInv
<1>4. CASE UserStep
  BY <1>4, UserStepIInv
<1>5. CASE ControllerStep
  BY <1>5, PropagateIInv, CronJobFiresIInv, PodStepIInv
  DEF ControllerStep, PodStart, PodStop, PodEnd
<1>6. CASE UNCHANGED vars
  <2>1. TypeOK' /\ ListedExist' /\ ListedFresh'
    BY <1>6 DEF vars, cluster, callers, history, IInv, TypeOK, ListedExist, ListedFresh
  <2> QED
    BY <1>6, <2>1, ObjectsKept DEF vars, cluster, history, IInv
<1> QED
  BY <1>1, <1>2, <1>3, <1>4, <1>5, <1>6 DEF Next

LEMMA IInvHolds == Spec => []IInv
BY InitIInv, NextIInv, PTL DEF Spec

(* Type correctness of the quiesce model. *)
THEOREM TypeCorrect == Spec => []TypeOK
<1>1. IInv => TypeOK
  BY DEF IInv
<1> QED
  BY <1>1, IInvHolds, PTL

(* Whatever interleaves with the sweeps of any number of callers, conflicts, *)
(* lost replies and crashes included, the user's setting of every workload   *)
(* can be restored (quiesce* and unQuiesce* loop bodies).                    *)
THEOREM IntentNeverLost == Spec => []IntentRecoverable
<1>1. IInv => IntentRecoverable
  BY DEF IInv
<1> QED
  BY <1>1, IInvHolds, PTL
=============================================================================
