# A TLA+ model of crane-lib

crane-lib is the Go library under the `crane` migration tool. It has no long
running process of its own: it is a set of operations that a controller or a
command line calls, most of them against the API servers of two Kubernetes
clusters. What is hard in it is what happens *between* its API calls: other
callers, users, the cluster's controllers, conflicts, lost replies, errors
half-way, and the same operation called again afterwards.

Contents: [inventory](#1-inventory), [the modules](#2-the-modules),
[Quiesce](#3-quiesce), [rsync over stunnel](#4-rsync-over-stunnel),
[the indirect transfer](#5-the-indirect-transfer), [the tunnel](#6-the-tunnel),
[the transform runner](#7-the-transform-runner),
[the Kubernetes plugin](#8-the-kubernetes-plugin-and-the-applier),
[BuildConfigs](#9-buildconfigs), [what is proved](#10-what-is-proved),
[findings](#11-findings), [not modelled](#12-what-is-not-modelled),
[running it](#13-running-it).

## 1. Inventory

For each part: the state it keeps, its operations, what it interacts with, what
makes it hard, and what would make it correct.

### State transfer (`state_transfer/`)

| part | state | operations | hard behaviour | correct when |
|---|---|---|---|---|
| **Application quiescing** `quiesce.go` | none in the process; an annotation on every stopped workload, a key in the node selector of DaemonSets | `QuiesceApplications`, `UnQuiesceApplications`: seven sweeps each, one per kind; then a wait for pods | list-then-update with optimistic concurrency; users, controllers and other callers in between; abort half-way; retries over its own annotations; unlimited wait | no user setting is ever lost; a completed quiesce leaves nothing running; a completed unquiesce restores what the user had; both return, as long as the wait of a quiesce has only pods it scaled down to wait for |
| **Endpoints** `endpoint/{service,route,ingress}` | a Service, Route or Ingress; hostname and port cached in the Go object | `Create`, `IsHealthy`, `Get...FromKubeObjects` | `AlreadyExists` tolerated without a look at the object; health checks fill fields that later steps read | a healthy endpoint has the hostname and port the client will dial |
| **Stunnel transport** `transport/stunnel`, `transport/transport.go` | config map and secret on each side; key, certificate and CA in memory | `CreateServer`, `CreateClient`, `GetTransportFromKubeObjects` | a new certificate per call but secrets that are only created; errors aggregated, later objects created although earlier ones failed; re-read from the cluster | both sides of a transport that was created successfully hold one certificate; what is re-read is what was created |
| **Null transport** `transport/null` | none | the interface's no-ops | - | - |
| **Rsync transfer** `transfer/rsync` | server pod, secret, config map; client pods per PVC; username and password in memory | `CreateServer`, `CreateClient`, `IsServerHealthy`, options that mutate pod specs | retries meet their own objects; `GenerateName`; options share slices | a retry completes what a failed call began; one writer per PVC; every option mutates the side it is named for |
| **Block rsync transfer** `transfer/blockrsync` | as rsync, for block PVCs | as rsync | in-place label changes | each PVC's server and client carry the labels they select by |
| **Rclone transfer** `transfer/rclone` | as rsync, with a password | as rsync | a new password per call, tolerated `AlreadyExists` | server and client use one password |
| **Indirect transfer** `transfer/indirect` | pods that copy to and from object storage, and the secret they mount | `Upload`, `Download`, `CleanupCloudData`, `Cleanup`, `Is...Complete` | pods of a failed attempt still run during the next; names are truncated; labels and remote paths shared | a destination gets its own source as a whole; a clean-up spares the others; a finished transfer leaves nothing behind |
| **PVC lists and helpers** `transfer/*.go`, `meta/` | none | filters, grouping by namespace, health of pods, label merges | map and slice aliasing | grouping is a partition of the list |

An application migration uses these in the order: quiesce, endpoint, transport
server, transfer server, transport client, transfer clients, and (on the
source or the target) unquiesce.

### Connection (`connect/tunnel_api`)

`Openvpn` builds a tunnel between two clusters: namespaces, secrets with
certificates, a deployment and a load balancer service on the server side, a
poll for the balancer's address, then the client side. State: the objects in
the two clusters. Every `Create` is unconditional, so a call that fails
half-way cannot be repeated; the poll gives up after 40 tries and leaves the
server behind. Correct when a call that succeeds has built both sides from one
set of certificates and a call that failed can be told from one that did not.

### Transformation (`transform/`)

| part | state | operations | hard behaviour | correct when |
|---|---|---|---|---|
| **Runner** `runner.go` | the plugins and their priorities | `Run`: every plugin on one object; whiteout, or a JSON patch from all plugins' operations | conflicting operations on one path are settled by priority, in the order of the plugins; errors collected | the result depends on priorities only where they exist; no two operations on a path survive; nothing that conflicts is lost unreported |
| **Kubernetes plugin** `kubernetes/` | options, kept in the plugin between requests | `Run`: whiteouts and patches per kind | options of one request leak into the next; early returns in the whiteout decision; a stage reads what an earlier one stripped | the applied result carries nothing that the code means to take away and runs nothing the user did not allow |
| **Grouping, new resources, kustomize output** `grouping.go`, `new_resource.go`, `kustomize/` | none | naming files, ordering, serialisation | two objects with one file name | file names are unique |
| **Binary plugins, plugin CLI** `binary-plugin/`, `cli/` | none | request and response over a child's stdin and stdout | failing children, output on stderr | a failing plugin is an error |
| **Utilities, JSON patch comparison** `util/`, `internal/` | none | registry replacement, operation equality | - | equality is an equivalence |

### Conversion and application

`convert/buildconfigs.go` turns BuildConfigs into Shipwright Builds, one after
the other, writing files into a directory: service account files are keyed by
account name only, the first error abandons the rest, and some errors are dropped. `apply/applier.go`
applies a patch file to an object. `apigroups`, `version`: tables.

The line-precise list of what is hard to test is `hazards` in `PROJECT.json`.

## 2. The modules

| module | what it models | abstract specification | proofs |
|---|---|---|---|
| `Quiesce` | both operations with users, controllers and other callers | - | `Quiesce_proofs`, `QuiesceSweeps_proofs` |
| `StunnelTransport`, `RsyncTransfer` (extends it) | objects made once or overwritten, aggregated errors, crash and retry, re-read; server and client pods | - | `RsyncTransfer_proofs` |
| `IndirectTransfer` | pods that copy through a store, with clean-up and retry | `VolumeCopy` | `IndirectTransfer_proofs` |
| `Tunnel` | the creation sequence with a failure at every call, concurrent and repeated calls | - | `Tunnel_proofs` |
| `Runner` | the plugins of a run and the settling of conflicts | - | `Runner_proofs` |
| `KubernetesPlugin` | requests with options, whiteouts, patches, the applier, several stages | - | `KubernetesPlugin_proofs` |
| `BuildConfigs` | the conversion loop, its reads of the cluster and the files it writes | - | `BuildConfigs_proofs` |

`VolumeCopy` is what the indirect transfer promises: data go from the source of a pair to
its destination and nowhere else. The `MC...` modules give the instances of the runs.

Runs use two callers wherever callers can overlap, the smallest number of objects
that lets each kind meet the one it depends on, and one outside change more
than is needed to make something stale.

## 3. Quiesce

`Quiesce.tla` models all of `state_transfer/quiesce.go`.

### State

* `objs[o]` is what the sweeps read or write of an API object. `val` is
  `spec.replicas` (Deployments, StatefulSets, ReplicaSets, DeploymentConfigs),
  `spec.parallelism` (Jobs), not-suspended as 1 or 0 (CronJobs), or the user's
  part of the node selector (DaemonSets, one number per distinct selector).
  `key` says that the quiesce key is in the selector; the annotation holds the
  user's part only, so `SaveSelector` and `RestoreSelector` do not nest. `ann` is the
  recorded value; the suspend annotation `"true"` is 1.
* `exists` grows when a CronJob creates its Job. `pods` tells whether an object has
  pods that the wait does not skip: one that has ended, whatever owns it, is as good as
  none, and a controller may start another. The phase `Unknown`, which the wait skips
  too, is left out: clusters have long ceased to set it. A pod that came back from it
  would be one the wait has missed.
* A caller is where it is (`pc`), the operation, the sweep (`stage`, an index of
  `Stages`) and `listed`, the items of the List it has not visited yet *as the List
  returned them*. `stale` says which of them have been written since: the
  resourceVersion the API server compares on Update.
* `want`, `opposed` and `overridden` are history for the properties.
  `want[o]` is the setting the user last chose. `opposed[p]` are the objects a
  user, or a caller running the opposite operation, wrote since `p` began: what is
  promised of `p`'s result does not extend to them. `overridden` are the objects
  for which the annotation cannot express what the user chose: the user set zero
  while an annotation was present, which is indistinguishable from our own
  quiesce, or edited the selector of a quiesced DaemonSet around our key.

### Actions

| action | code |
|---|---|
| `Begin` | a call of either operation, the retry of a failed one included |
| `List` | the `c.List` at the head of each sweep |
| `SkipItem` | the `continue`s of the loop bodies |
| `WriteItem` | annotation and spec changed, `c.Update` succeeded; its second disjunct is a lost reply: the write has happened and the caller returns an error |
| `ConflictItem` | `c.Update` returned Conflict, returned to the caller |
| `Abort` | any other error of an API call, or the caller's process dies; nothing is rolled back |
| `EndSweep` | from one sweep to the next; after the last, quiesce waits and unquiesce returns |
| `PollDone` | `ensureQuiescedPodsTerminated` finds no active pod of a counted kind |
| `UserScale`, `UserReplaceSelector`, `UserPatchSelector` | edits through the API server |
| `Propagate` | Deployments scale their ReplicaSet and copy annotations to it, DeploymentConfigs their ReplicationController |
| `CronJobFires`, `PodStart`, `PodStop`, `PodEnd` | controllers and the kubelet |

`ToQuiesce` and `ToUnquiesce` are the guards of the loop bodies; the ones of
`quiesceCronJobs` and `quiesceJobs` compare pointers with fresh variables and
are always taken, and that is how they are modelled. Items of one List are
visited in any order, which the order of a List does not restrict further for the
properties. Sweeps over kinds the instance has no object of are passed over;
they would List nothing.

The cluster's side (users, controllers, pods, resourceVersions) is not code of
the repository and is marked external in `PROJECT.json`.

### Runs

| run | instance | shows |
|---|---|---|
| `quiesce_pair` | 2 callers, StatefulSet and DaemonSet, replicas up to 2, 1 edit | `TypeOK`; `IntentRecoverable`: spec or annotation always holds the user's setting; `UnquiesceRestores`: a completed unquiesce restored it; `RunningCountsKept`: nobody but the user replaces a running count by another, stale annotations and snapshots notwithstanding |
| `quiesce_live` | 1 caller, CronJob with Job, Deployment with ReplicaSet, a ReplicationController of nobody's, 1 edit, `FairSpec` | `QuiesceHolds`: a completed quiesce leaves nothing it sweeps running, the Job created meanwhile included; `OperationReturns`: the unlimited wait ends, with the exceptions below; `QuiesceSettles`: pods a lagging controller still starts stop for good |
| `quiesce_job_undo` | one Job, 1 caller | the finding below |

Bounds. `MaxReplicas` 2 tells two running counts, and zero, apart, which is
all a sweep distinguishes; `quiesce_live` asks only what runs at all, and 1 is enough.
An edit makes a snapshot stale or, after a quiesce, an annotation. The model treats
DeploymentConfigs with their ReplicationControllers as Deployments with their
ReplicaSets, so only the latter are in an instance. Two callers give every overlap of
two operations; callers begin again after they end, so retries and sequences of
operations are unbounded. The theorems hold for all values of these constants.

Fairness (`FairSpec`). A caller whose process lives goes on: the code between
two calls does not block and `PollDone` is one round of a loop that sleeps and
asks again. ReplicaSet and ReplicationController sync and pod deletion
are reconcile loops. Nothing else is fair: nobody has to begin an operation,
edit, fail, start a pod, or run a CronJob.

`OperationReturns` has two exceptions, both for the wait of a quiesce. One somebody
works against: a workload scaled up during the wait is not scaled down again and the
wait then lasts as long as its pods. And one in a namespace where a ReplicationController
without a DeploymentConfig (`Bare`) runs pods: the wait counts them and no sweep scales
it (`quiesce.go:604`). Without this exception the property is violated, by the `bare` object
of `quiesce_live`. `QuiesceSettles` leaves the pods of such a controller out
as well. Deployment to ReplicaSet ownership is one to one; an old ReplicaSet
kept at zero for rollbacks takes no part in any of the properties.

## 4. Rsync over stunnel

`StunnelTransport.tla` models `transport/stunnel`, `RsyncTransfer.tla` extends it
with `transfer/rsync` and the pods.

### State

* `serverConf`, `clientConf`, `serverSecret`, `clientSecret`, `rsyncConf`,
  `rsyncSecret`, `server` are the seven objects in the two clusters. Each
  is reduced to what could differ between two writers of it: a secret to its
  certificate, the stunnel configs to their existence, the daemon's
  config and its pod to the transfer whose PVC list they were made from.
* All transfers between two namespaces with one prefix share these objects,
  since the code names them by prefix and namespace. That is why none is
  indexed by transfer.
* `handle[t]` is the `StunnelTransport` a caller has in memory: certificate,
  port, and how often the client container was customized. `certs` counts
  `GenerateSSLCert`.
* `pc[t]` is the API call the caller makes next, `errs[t]` whether the running
  operation's `errs` slice holds an error, `visited[t]` the turn of
  `createRsyncClient`'s loop.
* `clients` are client pods with the port their rsync dials and a phase. A pod that
  is *created* waits for what it mounts; *running*, its script waits for the port of
  its own stunnel and runs rsync once; then it has *succeeded*, has *failed* because
  the daemon or its module was not there, or is *broken*: the stunnel did not listen
  in 120 seconds, or the connection broke. The last is a fault and counts as one.
  Nothing runs a pod twice (`RestartPolicyNever`).
* `dst` says whose data a destination volume holds in full; what a broken client has
  copied counts for nothing.
* `LabelSafeName[p]`, a constant, is the sum of the destination claim's name, by which
  the daemon names the module, its path and the volume and the client its module.
  Nothing is assumed of it: two claims may have one sum.

### The caller

The library has no loop of its own; the model adds the caller the API is made for,
a controller that starts over after any failure, with an empty memory: look for the
transport (`GetTransport`), create server and client side if it is NotFound,
look for a healthy server (`IsServerHealthy`), create it otherwise, poll, create
the clients. With `Reread` an attempt that made the transport ends there and the
next one finds it; without, the same attempt goes on with the transport in
memory, as the repository's example does. Callers that are not `Patient` create
their clients as soon as `CreateServer` has returned. `Begin`, `Requeue`, `PollServer`,
`HasTransport`, `OnHealth` and `Crash` are this caller and are marked external.

### Actions

| action | code |
|---|---|
| `CreateServerConf`, `CreateServerSecret` | `createStunnelServerResources`: errors collected, the certificate replaced in memory before the Create |
| `CreateClientConf`, `CreateClientSecret` | `createClientResources` |
| `GetTransport` | `GetTransportFromKubeObjects` |
| `CreateRsyncConf`, `CreateRsyncSecret` | `createRsyncServerResources`: the first error skips the rest of it, but not the pod |
| `CreateRsyncPod` | `createRsyncServer`, which returns AlreadyExists after all |
| `IsServerHealthy`, `PollServer` | `IsPodHealthy`; every answer but healthy is an error there |
| `CreateClientPod` | one turn of the loop of `createRsyncClient`, `customizeTransportClientContainers` included |
| `CreateClientReturns` | the aggregate at its end |
| `ServerReady`, `ClientStarts` | kubelet, once all that a pod mounts exists |
| `ClientSucceeds`, `ClientFails`, `ClientBreaks` | the ways the script of a client pod ends (`client.go:61-63`) |

Every API call has, besides its result, the outcomes *failed* and *applied but
the reply was lost* (`Reply`). A container that mounts two volumes on one path is refused by
the API server (`Rejected`).

### Runs

| run | instance | shows |
|---|---|---|
| `rsync_shared` | 2 transfers of 2 and 1 volumes, one caller patient, 2 faults, 3 client pods | `TypeOK`; `SuccessLeavesObjects`: no success over missing objects; `ReadersAgree`: whoever has re-read the transport holds the certificate of the client's secret |
| `rsync_retry` | 1 volume, 4 faults, `FairSpec` | `SuccessMeansReachable`: a `CreateClient` without error leaves a client that finds the daemon and its module; `TransferCompletes`: a caller that starts over gets its volume copied, unless a client of it broke |

Bounds. `MaxFaults` counts failed calls, lost replies and crashes; without a bound
a caller may fail forever. Two faults hit every pair of calls of two interleaved
callers; four in a row leave behind every half-made set of objects one
caller can. `MaxPods` bounds the client pods, which multiply because a retry cannot
find the earlier ones (`GenerateName`): 6 is one pod more than four faults can
ask for, and 3 is a pod for every volume.

`rsync_shared` has `Reread = TRUE` and more than one volume, so it contains the refused
second pod; `rsync_retry` has one volume since a caller that
migrates two never succeeds (see the findings).

`ReadersAgree` is about what `Crt` and `Key` of a re-read transport answer. It fails as soon
as secrets are updated the way config maps are: a caller that looked for the transport before
the client's secret was there makes a second certificate and would overwrite the secret
that another one has read in between.

`TransferCompletes` has one exception, which the code makes: the library starts a client
and never looks at its exit code (`example_test.go` has a TODO there), so a fault that
strikes a running client leaves its volume uncopied although all calls have succeeded.
Which data a destination receives is not a property here: as long as the transfers run between
one pair of namespaces it follows from both sides' using one name for the volume.

Fairness (`FairSpec`). A caller goes on and starts over; the server pod becomes
ready once what it mounts exists; client pods start, and those that run succeed or
fail. Faults (`Crash`, lost replies, `ClientBreaks`) are never fair.

Assumptions about the caller and the clusters: the transfers run between one source and one
destination namespace (`validatePVCList` lets each have one of either), PVC pairs
have distinct destinations (a TODO of `validatePVCList`), lists hold
filesystem PVCs only, as `NewFilesystemPVCPairList` builds them; all callers
set the same `Username` and `Password`; a ready server stays ready; nobody
deletes objects; the endpoints of the transfers exist and share their labels, so
each leads to the daemon. The client's config names the endpoint of whoever updated it last;
two transports between two namespaces with different endpoints therefore use one
of them, and data still reaches the daemon.

## 5. The indirect transfer

`IndirectTransfer.tla` models `transfer/indirect`: rclone pods that upload a
volume to object storage, download it at the other side and empty the store.

### State

* `pods` are the pods of both clusters, each with the kind, the (cut) name, the
  namespace, the claim in its label, the pair it was made for, its phase, and
  whether it has been deleted: a deleted pod works on until the cluster stops it.
* `secrets` are the secrets with `rclone.conf`, labelled like the pods; a pod starts only
  when that of its pair and side exists.
* `cloud` and `dst` are the contents of the paths of the store and of the destinations:
  from which sources the files are, and whether as a whole. `rclone sync` makes its
  target equal to what it reads; one that is interrupted leaves a `Fragment`.
* `pc[t]` is where the caller is with pair `t`, and `call[t]` its call of `Cleanup`:
  the names of the pods, then the secrets, that it has listed and not yet deleted.

### The caller

The library gives the operations and leaves the order to its caller. The model's
caller uses them as their comments suggest: clean up both sides, wait until
the pods are gone, write the secrets, upload, download, clean the store, clean both sides.
When anything fails it starts over. `StartOver`, `CleanDest`, `Prepare`, `IsCloudClean`, `TidySource`, `TidyDest`
and `Crash` are this caller and external; `Cleanup`, which four of them call, is
the code's. The wait in `Prepare` is not in the library, which
returns from `Cleanup` once the deletions are accepted; without it an old
clean-up pod may empty the path of a new upload, and nothing below would hold.

| action | code |
|---|---|
| `Upload`, `Download`, `CleanupCloudData` | the functions, with `buildPod`; the Create may be refused because of the name, fail, or succeed unanswered |
| `IsUploadComplete`, `IsDownloadComplete` | `isPodComplete`: a failed pod is an error, and so is one that is not found |
| `Cleanup` | one request at a time: `ListPods` by labels and claim, `DeletePod` for each *by name*, so that it hits whichever pod has the name by then, `ListSecrets`, `DeleteSecret`, `Return`; `CleanupFails` leaves the rest |
| `Start`, `Succeed`, `Fail`, `Gone` | kubelet and rclone |

| run | instance | shows |
|---|---|---|
| `indirect` | 2 encrypted pairs, no name of a pod shared, 3 faults, `Spec` | `TypeOK`: pods have names a cluster takes, no two the same; `CopiesOwnVolumes`: the refinement of `VolumeCopy`; `DoneIsCopiedAndClean`: what is left when the caller is through; `CleanupIsScoped`: `Cleanup` deletes pods of its own pair |
| `indirect_cut` | the pairs' pods at the destination have equal names once cut, 1 fault, `FairSpec` | `KeepsApart`: no file gets into another's destination; `CleanupSparesOthers`: secrets are deleted in the clean-up of their own pair only, pods in that of a pair with a pod of this name; `TransferCompletes`: every caller comes to its end all the same |
| `indirect_scope` | the same, 1 fault | *violated*: `CleanupIsScoped`, that the pods deleted are those of the claim (section 11) |

In both instances the two sources have one name in different namespaces, and the two
destinations are in one namespace. In the second their names are
equal when cut: a pod of one pair is then refused as long as
one of the other has its name, each caller polls a name both may use, and each `Cleanup`
may delete the other's pod. Three faults let an attempt fail, its clean-up fail, and the
next attempt fail again; the collision costs states, and one fault is enough for a listed
pod to be gone when it is deleted.

What collisions break is more than the scope of `Cleanup`: a caller whose pod was
deleted may then poll the other's pod of that name, take its success for its own, and
empty the store with only a part copied. `CopiesOwnVolumes` and `DoneIsCopiedAndClean`
are therefore stated for the pairs that are `Alone` with their names of pods;
`KeepsApart`, `CleanupSparesOthers` and `TransferCompletes` are for all.

Fairness: the caller goes on with each pair, and each pair's pods are started, run
and removed. Faults are not fair.

Assumptions (`PairsAssumption`): sources are distinct and so are destinations; with
encryption the crypt section of a pair's secret names the path of its source, as
`indirect_test.go` writes it. `Upload` itself writes to `encrypted:` and leaves that
path to whoever wrote the secret: one section that names the bucket for all pairs would have them
delete each other's data. Claim names are short enough to be label values
(63 characters); longer ones are legal, and their pods would always be refused.

## 6. The tunnel

`Tunnel.tla` models `connect/tunnel_api/tunnel_api.go`. `objects[s][k]` is the
object of kind `k` on cluster `s`, with the call that made it and what it
carries: certificates, the address the client connects to, its proxy line,
what a deployment's pods need. A caller has the cluster and the kind it creates next
(`side`, `at`), and the certificates and the address in its copy of the options.

| action | code |
|---|---|
| `Begin` | `Openvpn` up to the first Create; certificates unless the options bring them |
| `Create`, `Refused`, `CreateFails` | one Create of `createOpenVPNServer`, `createRBAC`, `createOpenVPNClient`, in the order `After`: done, refused because of what exists, failed or unanswered. Only SecurityContextConstraints may exist already |
| `Poll`, `AddressFound`, `AddressFails` | the loop that waits for the load balancer; `MaxPolls` is 40 in the code |
| `AssignAddress`, `CleanUp`, `Crash` | the cloud, an operator, the process |

| run | instance | shows |
|---|---|---|
| `tunnel` | 2 callers with 2 calls each, both RBAC branches on each cluster, 1 fault, 2 deleted namespaces, 2 polls | `TypeOK`; `OneCallPerNamespace`: the namespace is a lock; `DeploymentsCanStart`: no deployment before what it needs; `SuccessIsTunnel`: a success is a client and a server that fit; `CallReturns` |

Nothing is idempotent here: after a failure every retry is refused at the
namespace until somebody deletes it. The properties say that this is also what
keeps two calls apart. One fault leaves a cluster at any point of the
sequence, two deletions clear both clusters, and two polls distinguish the last
from the others. A deleted namespace goes at once with its contents, and only while no call runs.

Fairness: a call under way goes on, since every request is answered and the
sleep ends. Nothing is assumed of the cloud, so `CallReturns` rests on the limit of the poll.

## 7. The transform runner

`Runner.tla` models `Run` and `sanitizePatches` of `transform/runner.go` with
`EqualOperation` of `transform/internal/jsonpatch`.

`ran`, `patches`, `haveWhiteOut`, `errs`, `newResources` are the locals of `Run`
(`errs` whether it is empty), `pos`, `patchMap`, `ignored` those of
`sanitizePatches`, `response` what `Run` returns. An operation is its path and
an element of `Acts`, its kind with its value or source, so two operations are
equal when both agree. A path may be missing; other errors of decoding a value
are left out, since patches have come through a JSON decoder.

| action | code |
|---|---|
| `RunPlugin` | one turn of the loop of `Run`: the plugin answers or fails, its operations get its name |
| `ReturnEarly` | the returns on errors, a whiteout, or no operations |
| `StartSanitizing` | the call of `sanitizePatches` |
| `MissingPath`, `FirstOnPath`, `Collision` | one turn of its loop |
| `Respond` | the operations of `patchMap`, in any order |

| run | instance | shows |
|---|---|---|
| `runner` | 3 plugins, of which 2 have priorities, 1 operation each, 2 paths, 2 acts | `TypeOK`; `HighestPriorityWins`; `NothingLost` |

Bounds. Three operations on one path are needed for a winner to be replaced
after it has replaced another, and for an equal operation to come between. Several operations of one plugin
behave as several plugins of one name, which the run includes, so one operation each is enough.

Nothing is fair here: the properties are about the answer, whenever it comes.

No property is about the order in which `Respond` returns the operations: the range
over the Go map at `runner.go:212` gives any, and neither a document nor a comment
promises the order of the plugin. What follows from another order is in section 11.

## 8. The Kubernetes plugin and the applier

`KubernetesPlugin.tla` models `transform/kubernetes/kubernetes.go`,
`transform/util` and `apply/applier.go`. An object is its group, kind, name and a
function from JSON pointers to leaf values; a patch is a sequence of operations on such paths;
an image is the sequence of its parts. `options` are the fields of the plugin,
which outlive a request; `object`, `answer` and `output` are the request in hand;
`original`, `stage` and `history` are observed for the properties.

What the code takes from others is assumed of the constants. `ObjectsAssumption`: an
exported object has the shape its schema gives it, as the API server serves it (every leaf below the top
and none below a leaf, `suspend` a leaf in a Job, claim names of workloads in their volumes, annotations that are strings, node
ports that are numbers of services that may have them). `RequestsAssumption`: keys split
into one part or more, as `strings.Split` does, and names in a rename map are not empty, which
`ProcessPVCMap` checks. `IndexAssumption`: a list is finite. `Unreadable` stands for a record of
kubectl (the last-applied annotation) that cannot be read, `Null` for a port name in it that is null.

| action | code |
|---|---|
| `Export` | the caller takes the next object |
| `Run` | `Run` with `setOptionalFields`, `getWhiteOuts` and `getKubernetesTransforms` (`Answer`): every operation of every patch; an error if the record of kubectl cannot be read or a typed copy cannot be made, a panic on a null port name |
| `ApplyPatches` | `Apply` under the options given to the patch library: paths created on add unless they run into a leaf, missing paths tolerated on remove and on nothing else; all operations or none (status "broken") |
| `NextStage` | the caller hands the output to the plugin again |

| run | instance | shows |
|---|---|---|
| `kubernetes` | 20 objects, one or more of every kind the code treats apart; 14 requests that set, keep or spoil each option; 3 requests, 2 stages | the properties below |

* `OptionsAreLatest`: an option is what the latest request that set it asked for,
  also when that request failed; the two strip flags start afresh.
* `PatchesApply`: claims and ports are read from typed copies and patched by
  index; the applier refuses the result only if the key of an added annotation goes
  on, after a slash, from another key (`Nested`), since keys are not escaped.
* `AppliedIsPortable`: the output has no identity, status, node or generated selector of
  the old cluster, but for what the user adds as an annotation; a Service has no cluster
  IP but "None", a load balancer no external IPs, and of the node ports those the user had
  asked for; Endpoints, EndpointSlices and claims pass only when the user names their kind.
  It does not say that nothing of the old cluster is left: the code leaves external IPs
  of other Services and health check ports, and does not look into Endpoints,
  EndpointSlices or claims (`volumeName`) that the user includes.
* `RunsOnlyByConsent`: no Job runs again unless marked idempotent or owned.
* `ReferencesRenamedOnce`: renames may swap names, the longest prefix wins.
* `SecondStageStable`: with its options unchanged a second stage changes nothing but
  the node ports, and `suspend` in a Job that lost its mark (`Unmarked`).

Three requests are one to set an option, one to spoil it and one to see which
of them holds. Objects meet no concurrency here; the order of requests and stages is the
hard part. Stopping after `MaxRequests` is the bound, so the run does not check deadlock.

What the properties except, because the code does so: a second stage loses
explicitly requested node ports, as the first one strips the annotation that records
them; images of CronJobs keep their registry; with an added annotation whose key has a slash
the annotations are no longer a map of strings, so that the next stage ends in an error for
workloads and RoleBindings, of which it makes a typed copy (`Undecodable`), and sees no
annotation of any other object; and a user
who writes a key of his own as `crane.konveyor.io~1job-idempotent` reaches the idempotent
mark, so that the Job goes through the first stage as marked and is suspended in the second.

## 9. BuildConfigs

`BuildConfigs.tla` models `convert/convert.go` and `convert/buildconfigs.go`.
`Lists` are the lists of BuildConfigs a namespace may hold, and `ListsAssumption`
says what a List of the API server is: BuildConfigs in one
namespace have different names. `bcs` is what the running call listed; the next call may
find any other list.
`tags`, `reference` and `secrets` are the rest of the cluster; `exports`, `accounts` and `builds`
the files, each absent, `Torn` (created, not yet written) or whole; `build`
the Build under construction. `lists` and `written` record what each call listed and
which call made a Build file; the code does not have them.

An image stream tag is `"tagged"` (its spec has a reference, the number `reference`),
`"bare"` (it has images, from pushes, and no spec reference) or `"absent"`.
`resolveImageStreamRef` returns the *name in the spec* (`Resolved`, `buildconfigs.go:836`), which a push
does not change and an edit does. For a bare tag it follows a nil pointer, and so
does `processOutput` for a BuildConfig without output (`:758`): the process dies
(`FromPanics`, `SourcePanics`, `OutputPanics`).

| action | code |
|---|---|
| `Start`, `StartFails` | `Convert`: the list and the directory |
| `CreateExport`, `WriteExport`, `ExportFails`, `EndExports` | `writeBuildConfigs`: a copy of each BuildConfig, one by one, whose write errors are dropped |
| `NextBuildConfig` | the loop of `convertBuildConfigs` |
| `From`, `FromFails`, `FromPanics` | `processStrategyFromField`, `processDockerStrategyFromField`, `resolveImageStreamRef` |
| `PullSecret`, `PullSecretFails`, `CreateAccount`, `WriteAccount`, `AccountFails` | `validatePullSecret`, `generateServiceAccountForPullSecret` |
| `StrategyParams`, `Source`, `SourcePanics` | the fields of the strategy; `processSource` |
| `OutputPanics`, `CreateBuild`, `WriteBuild`, `WriteBuildFails` | `processOutput`, `addRegistries`, `writeBuild`, whose result nobody reads |
| `ChangeTag`, `EditSecret`, `Crash` | others at the cluster; the process |

| run | instance | shows |
|---|---|---|
| `buildconfigs` | 12 lists of up to 2 BuildConfigs with every strategy, reference, source and output; 2 calls, 2 faults, 1 outside change (of the list, a tag or a secret) | `TypeOK`; `BuildIsTranslation`: a Build is made of the BuildConfig of its name, as the call that made it listed it; `BuildHasAccount`: no Build before its account; `SuccessIsComplete`: what a call without error has written |

Two BuildConfigs are enough for one to inherit something from the other and to
share an account; two calls for the second to meet the first's files, with
the BuildConfigs edited, exchanged or gone.

What a translation is (`IsTranslation`) is said without the operators of the conversion:
parameter by parameter, and for the source and the image by what they
have to agree with in the BuildConfig. It says *which* reference of a tag a base image has
only where the code determines it: a reference the tag once had in general, the one resolved during
the call after a success (unless it was changed during the call).

The limits of these properties are those of the code. The directory is never
cleaned, so Builds of BuildConfigs that are gone stay; `BuildIsTranslation` says what they
were made of. A shared account file is truncated before it is written anew, and if that
fails the Builds written before have a torn account, which `BuildHasAccount` accepts.
`SuccessIsComplete` excepts the writes whose errors the code drops (`quiet`). Two
more things are modelled as the code has them: the resolved image of an image source is
overwritten by its unresolved name (`buildconfigs.go:642`), and the parameter
for insecure registries gets the list of the blocked ones (`:792`). The volume
functions of the file have no caller.

## 10. What is proved

`Quiesce_proofs.tla`, for every namespace, every number of callers, every bound:

* `TypeCorrect`: `Spec => []TypeOK`.
* `IntentNeverLost`: `Spec => []IntentRecoverable`.

Assumptions: `QuiesceAssumption` in `Quiesce.tla` (ownership follows kinds,
bounds are numbers).

`IntentRecoverable` is not inductive: a caller writes back what it *listed*, and
nothing in the property relates the listing to the object. The inductive
invariant `IInv` adds `ListedFresh`: a listed item that is not stale equals the object, so
a write that the API server accepts is a function of the current object; `ListedExist`, and `KeysAnnotated`: a DaemonSet
with our key has the annotation, without which unquiesce could not restore it.
`RewritingKeepsIntent` then says that neither rewriting changes what unquiesce
would leave of an object, and each remaining action either leaves `val`, `key`
and `ann` alone or is a user's edit, after which `want` is what was written.

`QuiesceSweeps_proofs.tla`, under the same assumption:

* `QuiesceCompletes`: `Spec => []QuiesceHolds`.
* `UnquiesceCompletes`: `Spec => []UnquiesceRestores`.
* `CountsSurvive`: `Spec => RunningCountsKept`.

A result at the end of an operation is the sum of its sweeps, so the inductive
invariant `SInv` says what the place of a caller implies: objects of sweeps it is through
with are *settled* - as the operation leaves them - unless somebody worked against
it, and so are those of the present sweep that are not in `listed` any more. An object
that comes into being behind a sweep is a Job of a CronJob that was not yet suspended, so
Jobs are still to be swept: this is where the order of `Stages` is used. What another caller does to a settled object is either
the same (it stays settled) or the opposite (it is `opposed`).

`RsyncTransfer_proofs.tla`, for any transfers, PVC lists, failures and bounds:

* `SuccessIsReal`: `Spec => []SuccessLeavesObjects`.
* `WellTyped`: `Spec => []TypeOK`.
* `ReadersHoldTheSecret`: `Spec => []ReadersAgree`, if transports are re-read before
  they are used (`Reread`).
* `SuccessReachesDaemon`: `Spec => []SuccessMeansReachable`, with `Reread`, if all
  callers are patient and all transfers of the daemon list the same volumes (`SameVolumes`).

Assumptions: `StunnelAssumption`, `RsyncAssumption`.

For the first the inductive invariant `ObjectsInv` says what a caller's position implies
*while it has collected no error* (`Progress`); another caller's step cannot
falsify that because objects are only created or overwritten (`Kept`), which
`StepKeepsObjects` states once for all actions. What pods do leaves callers and objects
alone (`PodFrame`). `ReadersAgree` needs that the secret read was there (`AgreeInv`), that it
never changes afterwards (`SecretStays`), and that a caller which holds a transport after a
step held it before or has just read it (`HoldersRead`).

The hypotheses of `SuccessReachesDaemon` are what the run `rsync_retry` has, and
the code needs them: a transport that was only created has no port (section 11), a
client that does not wait for the daemon fails (section 11), and
the daemon has the modules of whoever created it first. `ReachInv` says that from
"ready" on a caller knows the port, that a daemon that was ready has its config
map, and that each volume the loop has visited without an error has its client, which has
not failed: while the daemon is healthy `ServesOwn` gives it its module. `TypeOK` bounds the
certificates, which is no fact about one caller: `Ledger` says that those made and
those that callers on their way will still make are paid for by faults and by callers that have begun.

`Runner_proofs.tla`, for any plugins, priorities, paths and operations:

* `PriorityDecides`: `Spec => []HighestPriorityWins`.
* `EveryOperationAccounted`: `Spec => []NothingLost`.
* `WellTyped`: `Spec => []TypeOK`.

Assumption: `RunnerAssumption` (priorities are numbers, `None` is not a path or
an operation). The inductive invariant says of the operations before `pos` what the
properties say of all: `patchMap` holds the winner of each path (`WinsSoFar`), and
each operation is equal to its path's winner or reported (`NoneLost`). A
collision keeps this because priorities are transitive (`ReplacesOrder`): what
could not replace the loser cannot replace the winner either.
`WellTyped` adds that the loop does not run past the operations collected, nor the
plugins past `MaxPlugins`.

`IndirectTransfer_proofs.tla`, for any pairs, any cut of the names, any failures:

* `IndirectImplementsCopy`: `Spec => CopiesOwnVolumes`, that is `Transfer!Spec`
  for the pairs in `Lone`.
* `FinishedIsCopiedAndClean`: `Spec => []DoneIsCopiedAndClean`.
* `CleanupSparesOtherNames`: `Spec => CleanupSparesOthers`.
* `AloneCleanupIsScoped`: `Spec => CleanupIsScoped`, if `Lone = Transfers`: what the
  run `indirect_scope` violates hangs on a collision of names.
* `DestinationsKeptApart`: `Spec => []KeepsApart`.
* `TypeCorrect`: `Spec => []TypeOK`.

Assumption: `PairsAssumption`. The properties speak of results; what makes them
inductive is what the caller of a pair that is alone may rely on while it waits (`Pair`). `Uploads`,
`Downloads` and `CleansUp` say for each step of the caller which pods of the pair there
are and what those that succeeded have made. `Undisturbed` holds at every
step, also after a failure: a download that can still run has the whole
upload before it, and no other pod of its pair can run. That is why a download of a
failed attempt, which may go on after the destination was complete, writes
only what is already there. `PodsFit` says that pods are as
they were built and no two have one name; since the label names the claim and a
claim names its pair, the selector of `Cleanup` finds exactly the pods of its pair
(`MatchingIsOwn`). What `Cleanup` then deletes by name is another matter: `Listed` says
that the list has names of its pair only, which are no names of a pair that is alone
(`NamesOfLone`), and `Progresses` what a clean-up has deleted of what it listed. The lemmas about one pair (`PodEnds`, `PodGoes`, `PodCreated`,
`StageCompletes`, ...) have no primes: they are about sets of pods and contents, and
the steps of the system instantiate them.

`Tunnel_proofs.tla`, for any callers, options, calls and bounds:

* `NamespaceIsLock`: `Spec => []OneCallPerNamespace`.
* `DeploymentsComeLast`: `Spec => []DeploymentsCanStart`.
* `SuccessBuildsTunnel`: `Spec => []SuccessIsTunnel`.
* `TypeCorrect`: `Spec => []TypeOK`.

Assumptions: `TunnelAssumption`, `NoObjectAssumption`. The inductive invariant adds
what a call knows of the cluster it works on: from its second object on the
namespace is its own (`HoldsLock`), the objects before the next one in the order
exist (`Placed`, `PlacedBySide`), a proxy line is that of its caller (`ProxyLines`), and a
running call has certificates (`HasCerts`). A namespace is deleted only
while no call runs, so nobody's knowledge becomes false.

For `SuccessBuildsTunnel`, `TInv` says where the parts of a tunnel come from: an object is of
a call that has begun and carries the certificates of that call, the
endpoint a caller has learnt is that of the service in its own namespace, and the server
side stands from the moment the caller turns to the client side.

`BuildConfigs_proofs.tla`, for any lists of BuildConfigs, tags, secrets and number of calls:

* `BuildsAreTranslations`: `Spec => []BuildIsTranslation`.
* `BuildsHaveAccounts`: `Spec => []BuildHasAccount`.
* `SuccessConverts`: `Spec => []SuccessIsComplete`.
* `WellTyped`: `Spec => []TypeOK`.

Assumptions: `ListsAssumption` (what a List returns), `FilesAssumption` (`NoFile` and
`Torn` are not Builds, `NoSource` is not a source), the bounds. The properties speak of files; `IInv` adds what the code
has in memory on its way to them. `BuildInv` says for each `pc` which parameters and
fields `build` has by now and that they come from `bcs[pos]` alone (`ParamsSoFar`,
`FieldsSoFar`): the variable is reset at one place only, so this is what a
field left over from the BuildConfig before would falsify. `CallInv` ties a file to the
list it was made from: the running call goes through `lists[runs]`, and a Build file is noted as
its own before it is written, so that the list of a later call says nothing of it (`ListsKept`). `DoneInv` says that the BuildConfigs before
`pos` are `Converted`, which the later ones leave alone because their names differ.
Accounts are the exception, they may be shared: `ServedInv` says that an account has the
secret of the *last* of its sharers before `pos`, which at the end is that of the
last of all.

`KubernetesPlugin_proofs.tla`, for any objects, requests, annotation keys, number of requests and stages:

* `WellTyped`: `Spec => []TypeOK`.
* `OptionsFollowRequests`: `Spec => []OptionsAreLatest`.
* `PatchesAlwaysApply`: `Spec => []PatchesApply`.
* `JobsNeedConsent`: `Spec => []RunsOnlyByConsent`.
* `ReferencesRenamed`: `Spec => []ReferencesRenamedOnce`.
* `AppliedPortable`: `Spec => []AppliedIsPortable`.
* `SecondStageSettles`: `Spec => []SecondStageStable`.

Assumptions: `ObjectsAssumption`, `RequestsAssumption`, `IndexAssumption` and
`BoundsAssumption` (section 8). The argument has three layers. The first is about patches in
general, for any order of their operations: what none touches stays (`Untouched`), what one removes
and none adds is gone (`Removed`), what all that touch it agree on has that value (`SetByAll`), what is there was there or
was put there (`Provenance`), and a patch goes through if what it replaces is out of reach of its removals and additions (`Accepted`).
`Apply` is a recursive function, and these are inductions over the length of the patch. The library's induction theorem
cannot be used (it takes an operator), so `Induct` derives a first-order one from the
well-foundedness of strict inclusion on finite sets. The second layer is the plugin: `TransformOps` gives the operations of an answer as a
set, `PathsReach` says where each kind of them may reach and `Replacements` that what
is replaced lies outside; `WellFormedStays` that a patched object is well formed again, which is what
a second stage relies on. The third is the export: `TypeInv` ties the answer to the options and the object,
`HistoryInv` the options to all requests so far, `ConsentInv` says that an object of a
later stage that has to be suspended already is, and `PortsInv` that it has no
node port the user did not want - the record of which is gone by then.

`SecondStageSettles` compares two answers. `RepeatInv` says that the object of the second
stage is the patched original, under options that agree with those of this request in the
four the transforms read (`SamePatches`, `NamesKept`). What is left is `Twice`: an object
`q` that is `o` patched with `k`, and patched with `k` again. Three arguments make every path of `q` stay:

* The parts of an answer do not meet (`Zones`, `LaterAdditions`): no later
  operation adds anything below the annotations or to what was stripped.
* Each part leaves itself nothing to do, because its condition is false of
  what it made: `StripsNothing`, `NoPodFields`, `NoJobFields`, `NoLocalSubjects`, `AddressesSettle` for what is
  removed, `RenamesNothing` and `ReplacesNoImage` for what is renamed (this needs that no new
  name is renamed in turn), `SuspensionSettles` for Jobs. Each condition is read from fields that other parts
  write as well, and only the mark of a Job can really change under it.
* The annotations are the one place where the second answer does work again:
  it adds and removes what the first did, in the same order, and `AnnotationsSettle` shows that
  the last operation on a key decides, in both.

`SecondPatch` puts them together. The proof found what the run had not: the property was first stated without
`Unmarked`, and `SuspensionSettles` cannot be proved for a Job whose mark an
escaped key removes. The request that does it is now in the instance, where TLC finds
the older form violated.

All safety properties of the passing runs are theorems. The
findings (section 11) are counterexamples and need no proof. The liveness properties
`OperationReturns`, `QuiesceSettles`, `CallReturns` and both `TransferCompletes`
are out of the prover's reach: they need fairness, and ENABLED has no rules in it.

## 11. Findings

Runs that end in a violation of a sentence of the code's own comments:

* `quiesce_job_undo`: `quiesceJobs` compares `job.Spec.Parallelism` with the
  address of a local, never skips, and a second quiesce records parallelism 0.
  `quiesceCronJobs` has the same comparison (`r.Spec.Suspend` with a fresh
  pointer): it marks CronJobs their user had suspended, and `unQuiesceCronJobs`
  resumes them. The model takes both guards as the code does.
* `indirect_scope`: `Cleanup` "deletes transfer pods and secrets scoped by PVC label"
  (`cleanup.go:75`), but what it deletes is the *name* of a pod it listed
  (`cleanup.go:91`). Names are cut at 63 characters, and a listed pod may be gone when
  its turn comes: the delete then hits the pod that another transfer has created under this name.

The others are in the models as the code has them, with no run of their own:

* The final wait of a quiesce counts pods of all ReplicationControllers and no sweep scales
  one without a DeploymentConfig (`quiesce.go:604`); if it runs pods the wait never ends,
  though it is to "ensure scaled down pods have terminated" (`:600`).
* A client "may error serveral times while servers come up"
  (`state_transfer/README.md:84`), but it runs rsync once and is never restarted
  (`rsync/client.go:62`, `:128`): one error and its volume is not copied. With a caller
  outside `Patient` `TransferCompletes` is violated without any fault.
* `Crt` "returns certificate used by the transport for encryption"
  (`transport.go:26`). A repeated `CreateServer` replaces the certificate in memory and keeps
  the secret (`stunnel/server.go:111`), and after a failure between the two secrets the
  client's gets a certificate the
  server does not use. The server does not verify its clients by default and data still flow.
* The port of a `StunnelTransport` is set only when it is re-read; used by the process
  that created it, the rsync client dials port 0 (`stunnel.go:154`, against
  `transport.go:29`). The runs have callers that re-read (`Reread`).
* `CreateClient` customizes the transport's shared container once per PVC; from the
  second PVC on the pod has two mounts on one path and is refused (`rsync/client.go:177`).
* With `disable-whiteout-owned` the default service account, the CA bundle and objects of
  the group `extensions` pass as well (`kubernetes.go:284`, against the help text at `:199`).
* Keys of added annotations are not escaped in the JSON pointer
  (`kubernetes.go:652`); `escapeJSONPointer` at `:613` is used for the plugin's own keys only.
  An escaped key, the only way to name an annotation with a slash, may name the idempotent
  mark, and a second stage then suspends a Job the first one let run.
* A flag that is not a Boolean is false; a PVC rename without a colon makes the
  process panic (`persistentvolumeclaims.go:29`); renaming the claim template of a
  StatefulSet does not rename the volume mounts that use it.
* `sanitizePatches` returns the operations in the random order of a Go map
  (`runner.go:212`). The applier makes the parents that an addition lacks
  (`applier.go:44`), so an addition of a map and then of a key in it still applies in the
  other order, but the map then overwrites the key; a replacement of what an earlier
  operation was to add is refused.
* `GroupBySourceNamespaces` loses the first PVC of every namespace
  (`pvc_list.go:202`); nothing calls it.
* A conversion dies of a nil pointer at an image stream tag without a spec
  reference (`buildconfigs.go:836`) and at a BuildConfig without output (`:758`).
* In the rclone transfer `IsServerHealthy` and `createRcloneServer` write a label into the
  map of the endpoint, which everything created later then carries.

`Restorable` excludes from the passing properties Jobs and the CronJobs their
user had suspended.

## 12. What is not modelled

* *Endpoints, null transport.* Each operation is one call and tolerates an object that
  exists; the transports take healthy endpoints as given.
* *Block rsync and rclone transfers.* The sequence of calls of the rsync transfer
  with other pod specs; a model would repeat `RsyncTransfer`. What is particular to
  rclone, a password per call, is in the hazards.
* *PVC lists, metadata helpers, resource grouping, kustomize output, API tables.*
  Functions from data to data or to text, without state.
* *Binary plugins and the plugin command line.* One child process and one document each way per
  request; what is left without the encoding is a call, which `Runner` lets fail.
* *Everywhere*: YAML and JSON encoding, container images and commands, the contents
  of certificates, logging, and the wording of errors.
* *In `Quiesce`*: Deployment pausing (the code does not read it), pods still
  terminating (they count as active until they are gone), and namespaces changing under `List`.
* *In `RsyncTransfer`*: transfers between several pairs of namespaces at once, which share
  the client's config on the source side and then need a prefix each; what a broken run
  leaves in a volume; options and mutations of pod specs, proxies, certificate
  verification, a second operation on the same in-memory transport without a re-read
  after a failure, and the retry of a client pod by hand.
* *In `IndirectTransfer`*: metadata arguments, security contexts, `KeepCloudData` (a
  TODO of the code), and pods that the cluster evicts.
* *In `Tunnel`*: a namespace that is still being deleted when a call begins, options
  with some certificates but not all (which make the process panic), and objects
  made by anyone but `Openvpn`.
* *In `KubernetesPlugin`*: volume mounts, JSON that does not parse, empty patch
  files, the plugin's metadata.

## 13. Running it

    tlc -workers 2 -config MCQuiescePair.cfg MCQuiesce
    tlc -workers 2 -config MCRsyncShared.cfg MCRsyncTransfer
    tlc -workers 2 -config MCIndirectTransfer.cfg MCIndirectTransfer
    tlc -workers 2 -config MCTunnel.cfg MCTunnel
    tlc -workers 2 -config MCRunner.cfg MCRunner
    tlc -workers 2 -config MCKubernetesPlugin.cfg MCKubernetesPlugin
    tlc -workers 2 -config MCBuildConfigs.cfg MCBuildConfigs
    tlapm Quiesce_proofs.tla

and likewise for the other configurations and `..._proofs` modules. The runs take
between seconds and three minutes.

`PROJECT.json` lists the runs with what they show, the mutants (a change of the
model that resembles a bug of the code, and the property that finds it), the
source lines each definition stands for, and the hazards.
