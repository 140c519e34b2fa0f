-------------------------- MODULE IndirectTransfer --------------------------
(***************************************************************************)
(* state_transfer/transfer/indirect: a volume goes to cloud storage and    *)
(* from there to its destination, each time by a pod that runs rclone      *)
(* sync.  A transfer of the library is Upload, Download, CleanupCloudData  *)
(* and Cleanup, and the questions whether a pod is complete; the caller    *)
(* asks them in that order and, when a call fails or its process dies,     *)
(* cleans up, waits until the pods are gone and starts over.               *)
(*                                                                         *)
(* The contents of a volume or of a path of the store are the set of       *)
(* sources its files come from, and whether they are all there.            *)
(***************************************************************************)
EXTENDS Naturals, FiniteSets

CONSTANTS
  Transfers,    \* the pairs of claims; the caller works on all at once
  Source, Dest, \* the claims of a pair: a namespace and a name
  Truncated,    \* a claim's name as it is cut to fit into the name of a pod
  Encrypt,      \* Options.Encrypt
  CryptPath,    \* the path behind the remote "encrypted:" of a pair's secret
  Empty,        \* the contents of a fresh destination, to VolumeCopy
  MaxFaults     \* bound on failed calls, lost answers, failed pods, crashes

(* Two pairs differ in their sources and in their destinations, and the     *)
(* crypt section of a pair's secret names the path of its source.           *)
Path(t) == Source[t]
ASSUME PairsAssumption ==
  /\ MaxFaults \in Nat /\ Encrypt \in BOOLEAN
  /\ \A t, u \in Transfers : t # u => Source[t] # Source[u] /\ Dest[t] # Dest[u]
  /\ \A t \in Transfers : /\ CryptPath[t] = Path(t)
                          /\ Source[t] = <<Source[t][1], Source[t][2]>>
                          /\ Dest[t] = <<Dest[t][1], Dest[t][2]>>
                          /\ {Source[t][2], Dest[t][2]} \subseteq DOMAIN Truncated
  /\ Empty \notin Transfers

VARIABLES
  pods,     \* the pods of both clusters
  secrets,  \* the secrets with rclone.conf
  cloud,    \* contents of the paths of the store, by the source they are for
  dst,      \* contents of the destinations
  pc,       \* where the caller is with a pair
  call,     \* its call of Cleanup: what it has listed and not yet deleted
  faults

vars == <<pods, secrets, cloud, dst, pc, call, faults>>
objects == <<pods, secrets>>
data == <<cloud, dst>>

Sides == {"source", "dest"}
Kinds == {"upload", "download", "cleanup"}
Side(kind) == IF kind = "upload" THEN "source" ELSE "dest"
Claim(t, side) == IF side = "source" THEN Source[t] ELSE Dest[t]
Phases == {"Pending", "Running", "Succeeded", "Failed"}

-----------------------------------------------------------------------------
(* Contents. *)

Nothing == [of |-> {}, whole |-> TRUE]
Whole(t) == [of |-> {t}, whole |-> TRUE]
\* What is behind when a sync from one to the other stops half-way.
Fragment(from, to) == IF from = to THEN to ELSE [of |-> from.of \cup to.of, whole |-> FALSE]

\* The path the remote of a pair is in.
RemoteByName(t) == LET n == Source[t][2] IN CHOOSE s \in {Source[u] : u \in Transfers} : s[2] = n
Remote(t) == IF Encrypt THEN CryptPath[t] ELSE Path(t)

-----------------------------------------------------------------------------
(* Pods. *)

Untruncated(t, kind) == Claim(t, Side(kind))[2]
PodName(t, kind) == Truncated[Claim(t, Side(kind))[2]]
buildPod(t, kind) ==
  [kind |-> kind, name |-> PodName(t, kind), namespace |-> Claim(t, Side(kind))[1],
   for |-> Claim(t, Side(kind))[2], by |-> t, phase |-> "Pending", deleted |-> FALSE]
Name(p) == [kind |-> p.kind, name |-> p.name, namespace |-> p.namespace]
SameName(p, q) == Name(p) = Name(q)
PodsOf(t) == {p \in pods : p.by = t}

(* Secrets: the caller names one of its own for each pair and side, and     *)
(* labels it like a pod.                                                    *)
secret(t, side) ==
  [side |-> side, namespace |-> Claim(t, side)[1], for |-> Claim(t, side)[2], by |-> t]
SecretsOf(t) == {s \in secrets : s.by = t}

\* The selector of Cleanup: the labels all pods and secrets share, and the
\* claim's name.
LabelsShared(t, side, o) == TRUE
Labels(t, side, o) == o.for = Claim(t, side)[2]
InNamespace(t, side, o) == o.namespace = Claim(t, side)[1]
MatchingTransfers(t, side) ==
  {p \in pods : /\ Side(p.kind) = side /\ p.kind # "cleanup"
                /\ InNamespace(t, side, p) /\ Labels(t, side, p)}
Matching(t, side) ==
  {p \in pods : Side(p.kind) = side /\ InNamespace(t, side, p) /\ Labels(t, side, p)}
MatchingSecrets(t, side) ==
  {s \in secrets : s.side = side /\ InNamespace(t, side, s) /\ Labels(t, side, s)}

-----------------------------------------------------------------------------
(* The caller and the API server. *)

NoCall == [at |-> "none", left |-> {}]
Goto(t, step) == /\ pc' = [pc EXCEPT ![t] = step]
                 /\ call' = [call EXCEPT ![t] = NoCall]
Fault == faults < MaxFaults /\ faults' = faults + 1
Fails(t) == Fault /\ Goto(t, "failed")

\* The call of t is answered: as it went, or with an error although it may have
\* been carried out.
Create(t, kind, next) ==
  LET p == buildPod(t, kind)
  IN  \/ \E q \in pods : SameName(p, q)
         /\ Goto(t, "failed") /\ UNCHANGED <<pods, faults>>
      \/ /\ ~\E q \in pods : SameName(p, q)
         /\ pods' = pods \cup {p}
         /\ \/ Goto(t, next) /\ UNCHANGED faults
            \/ Fails(t)
      \/ Fails(t) /\ UNCHANGED pods

Init ==
  /\ pods = {}
  /\ secrets = {}
  /\ cloud = [s \in {Path(t) : t \in Transfers} |-> Nothing]
  /\ dst = [t \in Transfers |-> Nothing]
  /\ pc = [t \in Transfers |-> "failed"]
  /\ call = [t \in Transfers |-> NoCall]
  /\ faults = 0

\* Cleanup of one side: list the pods of the claim and delete them one by one,
\* then the same for its secrets.  A pod is deleted by its name: whichever pod
\* has that name by then.  It goes on until the cluster has stopped it.  After a
\* failure the rest is left.  (To fail before the first List is like a Crash.)
Progress(t, at, left) ==
  call' = [call EXCEPT ![t] = [at |-> at, left |-> left]] /\ UNCHANGED <<pc, faults>>
Marked(p) == [p EXCEPT !.deleted = TRUE]
ListPods(t, side) ==
  /\ call[t].at = "none"
  /\ Progress(t, "pods", {Name(p) : p \in Matching(t, side)})
  /\ UNCHANGED objects
DeletePod(t) ==
  /\ call[t].at = "pods"
  /\ \E name \in call[t].left :
       /\ pods' = {IF Name(p) = name THEN Marked(p) ELSE p : p \in pods}
       /\ Progress(t, "pods", call[t].left \ {name})
  /\ UNCHANGED secrets
ListSecrets(t, side) ==
  /\ call[t].at = "pods" /\ call[t].left = {}
  /\ Progress(t, "secrets", MatchingSecrets(t, side))
  /\ UNCHANGED objects
DeleteSecret(t) ==
  /\ call[t].at = "secrets"
  /\ \E s \in call[t].left :
       secrets' = secrets \ {s} /\ Progress(t, "secrets", call[t].left \ {s})
  /\ UNCHANGED pods
Return(t, next) ==
  /\ call[t].at = "secrets" /\ call[t].left = {}
  /\ Goto(t, next)
  /\ UNCHANGED <<objects, faults>>
CleanupFails(t) == call[t].at # "none" /\ Fails(t) /\ UNCHANGED objects

Cleanup(t, side, next) ==
  /\ \/ ListPods(t, side) \/ DeletePod(t)
     \/ ListSecrets(t, side) \/ DeleteSecret(t)
     \/ Return(t, next) \/ CleanupFails(t)
  /\ UNCHANGED data

StartOver(t) == pc[t] = "failed" /\ Cleanup(t, "source", "restarted")
CleanDest(t) == pc[t] = "restarted" /\ Cleanup(t, "dest", "swept")

\* The caller waits for its pods, and writes the secrets.
Prepare(t) ==
  /\ pc[t] = "swept" /\ PodsOf(t) = {}
  /\ secrets' = secrets \cup {secret(t, side) : side \in Sides}
  /\ Goto(t, "prepared")
  /\ UNCHANGED <<pods, data, faults>>

Upload(t) ==
  /\ pc[t] = "prepared" /\ Create(t, "upload", "uploading")
  /\ UNCHANGED <<secrets, data>>
Download(t) ==
  /\ pc[t] = "uploaded" /\ Create(t, "download", "downloading")
  /\ UNCHANGED <<secrets, data>>
CleanupCloudData(t) ==
  /\ pc[t] = "downloaded" /\ Create(t, "cleanup", "cleaning")
  /\ UNCHANGED <<secrets, data>>

\* A finished pod is complete; one that failed is an error as well, and so is
\* one that is not found.
AnyEnd(t, kind, next) ==
  /\ UNCHANGED <<objects, data>>
  /\ \/ /\ \E p \in pods : SameName(p, buildPod(t, kind)) /\ p.phase \in {"Succeeded", "Failed"}
        /\ Goto(t, next) /\ UNCHANGED faults
     \/ Fails(t)
isPodComplete(t, kind, next) ==
  /\ UNCHANGED <<objects, data>>
  /\ \/ \E p \in pods : /\ SameName(p, buildPod(t, kind))
                        /\ \/ p.phase = "Succeeded" /\ Goto(t, next)
                           \/ p.phase = "Failed" /\ Goto(t, "failed")
                        /\ UNCHANGED faults
     \/ /\ ~\E p \in pods : SameName(p, buildPod(t, kind))
        /\ Goto(t, "failed") /\ UNCHANGED faults
     \/ Fails(t)

IsUploadComplete(t)   == pc[t] = "uploading"   /\ isPodComplete(t, "upload", "uploaded")
IsDownloadComplete(t) == pc[t] = "downloading" /\ isPodComplete(t, "download", "downloaded")
IsCloudClean(t)       == pc[t] = "cleaning"    /\ isPodComplete(t, "cleanup", "cleaned")
TidySource(t) == pc[t] = "cleaned" /\ Cleanup(t, "source", "tidied")
TidyDest(t)   == pc[t] = "tidied" /\ Cleanup(t, "dest", "done")

CallerStep(t) ==
  \/ StartOver(t) \/ CleanDest(t) \/ Prepare(t)
  \/ Upload(t) \/ IsUploadComplete(t) \/ Download(t) \/ IsDownloadComplete(t)
  \/ CleanupCloudData(t) \/ IsCloudClean(t) \/ TidySource(t) \/ TidyDest(t)

Crash(t) ==
  /\ pc[t] \notin {"failed", "done"}
  /\ Fails(t)
  /\ UNCHANGED <<objects, data>>

-----------------------------------------------------------------------------
(* The pods run. *)

\* What is where the pod's rclone syncs from, and what it makes of its target.
From(p) == IF p.kind = "upload" THEN Whole(p.by)
           ELSE IF p.kind = "download" THEN cloud[Remote(p.by)] ELSE Nothing
Target(p) == IF p.kind = "upload" THEN Remote(p.by) ELSE Path(p.by)
Synced(from, to, complete) == IF complete THEN from ELSE Fragment(from, to)
Sync(p, complete) ==
  IF p.kind = "download"
  THEN /\ dst' = [dst EXCEPT ![p.by] = Synced(From(p), dst[p.by], complete)]
       /\ UNCHANGED cloud
  ELSE /\ cloud' = [cloud EXCEPT ![Target(p)] = Synced(From(p), cloud[Target(p)], complete)]
       /\ UNCHANGED dst

Becomes(p, phase) == pods' = (pods \ {p}) \cup {[p EXCEPT !.phase = phase]}

\* A pod starts when the secret it mounts is there.
Start(p) ==
  /\ p.phase = "Pending" /\ ~p.deleted /\ secret(p.by, Side(p.kind)) \in secrets
  /\ Becomes(p, "Running")
  /\ UNCHANGED <<secrets, data, pc, call, faults>>
Succeed(p) ==
  /\ p.phase = "Running"
  /\ Sync(p, TRUE) /\ Becomes(p, "Succeeded")
  /\ UNCHANGED <<secrets, pc, call, faults>>
Fail(p) ==
  /\ p.phase = "Running"
  /\ Fault /\ Sync(p, FALSE) /\ Becomes(p, "Failed")
  /\ UNCHANGED <<secrets, pc, call>>
\* A deleted pod is gone, perhaps in the middle of its work.
Gone(p) ==
  /\ p.deleted
  /\ pods' = pods \ {p}
  /\ IF p.phase = "Running" THEN Sync(p, FALSE) ELSE UNCHANGED data
  /\ UNCHANGED <<secrets, pc, call, faults>>

PodStep(p) == Start(p) \/ Succeed(p) \/ Fail(p) \/ Gone(p)

Next ==
  \/ \E t \in Transfers : CallerStep(t) \/ Crash(t)
  \/ \E p \in pods : PodStep(p)

Spec == Init /\ [][Next]_vars

\* The caller goes on, and the clusters start, run and remove pods.
Fairness ==
  /\ \A t \in Transfers : WF_vars(CallerStep(t))
  /\ \A t \in Transfers : WF_vars(\E p \in PodsOf(t) : PodStep(p))
FairSpec == Spec /\ Fairness

-----------------------------------------------------------------------------
(* Properties. *)

Steps == {"failed", "restarted", "swept", "prepared", "uploading", "uploaded", "downloading",
          "downloaded", "cleaning", "cleaned", "tidied", "done"}
Contents == [of : SUBSET Transfers, whole : BOOLEAN]
SecretSet == [side : Sides, namespace : {Claim(t, s)[1] : t \in Transfers, s \in Sides},
              for : {Claim(t, s)[2] : t \in Transfers, s \in Sides}, by : Transfers]

\* Pods have names a cluster accepts (truncatePodName), and no two of a
\* namespace have the same.
TypeOK ==
  /\ \A p \in pods : /\ p.name \in {Truncated[n] : n \in DOMAIN Truncated}
                     /\ p.phase \in Phases /\ p.kind \in Kinds /\ p.by \in Transfers
  /\ \A p, q \in pods : SameName(p, q) => p = q
  /\ secrets \subseteq SecretSet
  /\ cloud \in [{Path(t) : t \in Transfers} -> Contents]
  /\ dst \in [Transfers -> Contents]
  /\ pc \in [Transfers -> Steps]
  /\ \A t \in Transfers :
       \/ /\ call[t].at = "pods"
          /\ call[t].left \subseteq {Name(buildPod(u, k)) : u \in Transfers, k \in Kinds}
       \/ call[t].at = "secrets" /\ call[t].left \subseteq SecretSet
       \/ call[t] = NoCall
  /\ faults \in 0..MaxFaults

(* A pair no pod of which has the name of another pair's, cut as they are.   *)
Alone(t) ==
  \A u \in Transfers \ {t}, k \in Kinds : ~SameName(buildPod(t, k), buildPod(u, k))
Lone == {t \in Transfers : Alone(t)}

\* For the pairs that are alone the transfer implements VolumeCopy: a destination
\* is copied from its own source as a whole, part of a copy counts for nothing,
\* and what was copied is not taken back by a retry that finds the store half-way
\* (Upload, Download, CleanupCloudData over the path of the pair).
Seen(t) == IF dst[t] = Whole(t) THEN t
           ELSE IF dst[t].of \subseteq {t} THEN Empty ELSE dst[t]
Transfer == INSTANCE VolumeCopy WITH
  PVCs <- Lone, src <- [t \in Lone |-> t], dst <- [t \in Lone |-> Seen(t)]
CopiesOwnVolumes == Transfer!Spec

\* No file of one source gets into another's destination, also when pairs share
\* names of pods (Upload, Download: each pod mounts the claim and the secret of
\* its own pair, whoever polls or deletes it).
KeepsApart == \A t \in Transfers : dst[t].of \subseteq {t}

\* When the caller is through with a pair that is alone, the destination has its
\* data, the store has none of it, and no pod of it will still change either
\* (Cleanup, isPodComplete).
DoneIsCopiedAndClean ==
  \A t \in Lone : pc[t] = "done" =>
    /\ dst[t] = Whole(t)
    /\ cloud[Remote(t)] = Nothing
    /\ \A p \in PodsOf(t) : p.deleted /\ p.phase = "Succeeded"
    /\ SecretsOf(t) = {}

\* A pod is deleted only while the caller cleans up after a pair that has a pod
\* of this very name, and a secret only while it cleans up after its own pair,
\* also when pairs share namespaces and names of claims (Cleanup).
Cleans(t) == pc[t] \in {"failed", "restarted", "cleaned", "tidied"}
CleanupSparesOthers ==
  [][/\ \A p \in pods : ~p.deleted /\ Marked(p) \in pods' =>
          \E t \in Transfers : Cleans(t) /\ SameName(p, buildPod(t, p.kind))
     /\ \A t \in Transfers : SecretsOf(t) \subseteq secrets' \/ Cleans(t)]_vars

\* "Cleanup deletes transfer pods and secrets scoped by PVC label"
\* (cleanup.go:75): the pods it deletes are those of the claim.
CleanupIsScoped ==
  [][\A p \in pods : ~p.deleted /\ Marked(p) \in pods' => Cleans(p.by)]_vars

\* The caller gets through with every pair in the end, with finitely many failures,
\* also when its pods must wait for another pair's pods of the same name and are
\* deleted in their place (Cleanup, isPodComplete).
TransferCompletes == \A t \in Transfers : <>(pc[t] = "done")
=============================================================================
