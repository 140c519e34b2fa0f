-------------------------- MODULE KubernetesPlugin --------------------------
(***************************************************************************)
(* The built-in transform plugin (transform/kubernetes/kubernetes.go) and  *)
(* the applier that carries its patches out (apply/applier.go).  One       *)
(* plugin instance answers every request of an export; an answer is a      *)
(* whiteout, a JSON patch or an error, and a multi-stage transform hands   *)
(* the patched object to the plugin again.                                 *)
(*                                                                         *)
(* An object is its group and kind, its name and its fields: a function    *)
(* from JSON pointers (sequences of unescaped parts) to leaf values.  An   *)
(* image is the sequence of its parts between slashes.                     *)
(***************************************************************************)
EXTENDS Integers, Sequences, FiniteSets, SequencesExt, FiniteSetsExt, Functions

CONSTANTS
  Objects,        \* the objects an export may hold
  Requests,       \* the extras of the requests: a value for some of the options
  Parts,          \* per annotation key, its parts between slashes
  Index,          \* the positions of a list, as JSON pointers write them
  Invalid,        \* a PVC rename map whose names are not DNS names
  Unpaired,       \* a PVC rename map with an entry that has no colon
  Unreadable,     \* a record of kubectl that is not JSON or has no numbers for ports
  Null,           \* the name of a port in such a record that is null
  MaxRequests, MaxStages  \* bounds on the requests and on the stages of an object

ASSUME BoundsAssumption == MaxRequests \in Nat /\ MaxStages \in Nat \ {0}
ASSUME IndexAssumption == IsFiniteSet(Index)

IsPath(p) == p \in Seq(Range(p))

\* What the parsing of the extras makes of them: of all the options only the
\* rename map is checked, and names in it are not empty.
ASSUME RequestsAssumption ==
  /\ <<>> \notin {Invalid, Unpaired}
  /\ \A a \in DOMAIN Parts : IsPath(Parts[a]) /\ Parts[a] # <<>>
  /\ \A r \in Requests : \A o \in DOMAIN r :
       /\ r[o] \in {Invalid, Unpaired} => o = "renames"
       /\ o = "add" => IsFiniteSet(DOMAIN r[o]) /\ DOMAIN r[o] \subseteq DOMAIN Parts
       /\ o = "remove" => IsFiniteSet(r[o]) /\ r[o] \subseteq DOMAIN Parts
       /\ o = "registry" => \A prefix \in DOMAIN r[o] : IsPath(prefix) /\ prefix # <<>> /\ IsPath(r[o][prefix])
       /\ o = "renames" /\ r[o] \notin {Invalid, Unpaired} => "" \notin DOMAIN r[o]

VARIABLES
  options,   \* the fields of KubernetesTransformPlugin
  object,    \* the object of the request
  answer,    \* the answer to the last request: its status and its patch
  output,    \* the object with the patch applied
  \* Observed, not read by the code:
  original,  \* the object as it was exported
  stage,     \* how many requests the object has been in
  history    \* the extras of every request the plugin answered

vars == <<options, object, answer, output, original, stage, history>>

ServiceAccountKey == "kubernetes.io/service-account.name"
AppliedKey == "kubectl.kubernetes.io/last-applied-configuration"
IdempotentKey == "crane.konveyor.io/job-idempotent"
ControllerKeys == {"batch.kubernetes.io/controller-uid", "controller-uid"}
AnnotationsAt == <<"metadata", "annotations">>

-----------------------------------------------------------------------------
(* Reading an object. *)

NoObject == [group |-> "", kind |-> "", name |-> "", fields |-> <<>>]
GK(o) == <<o.group, o.kind>>
Found(o, path) == \E p \in DOMAIN o.fields : IsPrefix(path, p)
Value(o, path) == IF path \in DOMAIN o.fields THEN o.fields[path] ELSE ""

\* The annotations, none of them if any is not a plain string.
AnnotationKeys(o) ==
  LET at == {p \in DOMAIN o.fields : IsPrefix(AnnotationsAt, p)}
  IN  IF \A p \in at : Len(p) = 3 THEN {p[3] : p \in at} ELSE {}
Annotated(o, key, value) == key \in AnnotationKeys(o) /\ o.fields[AnnotationsAt \o <<key>>] = value

Owned(o) == Found(o, <<"metadata", "ownerReferences">>)

\* The kinds that carry a pod specification, where it is, and where the patches
\* of the claims and of the images are sent.
Templated == {<<"apps", n>> : n \in {"DaemonSet", "Deployment", "ReplicaSet", "StatefulSet"}}
             \cup {<<"batch", "Job">>, <<"", "ReplicationController">>}
Workloads == Templated \cup {<<"", "Pod">>, <<"batch", "CronJob">>}
InTemplate == <<"spec", "template", "spec">>
PodSpec(gk) ==
  CASE gk = <<"", "Pod">>          -> <<"spec">>
    [] gk = <<"batch", "CronJob">> -> <<"spec", "jobTemplate">> \o InTemplate
    [] OTHER                       -> InTemplate
PVCPathGeneric(gk) == IF gk = <<"", "Pod">> THEN <<"spec">> ELSE InTemplate
PVCPath(gk) ==
  CASE gk = <<"batch", "CronJob">> -> <<"spec", "jobTemplate">> \o InTemplate
    [] gk = <<"", "Pod">>          -> <<"spec">>
    [] OTHER                       -> InTemplate

\* An image is rewritten in a Pod and in anything with a template under its
\* spec, which a CronJob has not.
IsPodSpecable(o) == Found(o, <<"spec", "template">>)

-----------------------------------------------------------------------------
(* The patches of an answer and their application. *)

RemovePath(path) == [op |-> "remove", path |-> path, value |-> ""]
AddPath(path, value) == [op |-> "add", path |-> path, value |-> value]
ReplacePath(path, value) == [op |-> "replace", path |-> path, value |-> value]
RemoveAll(paths) == SetToSeq({RemovePath(p) : p \in paths})
Without(fields, path) == Restrict(fields, {p \in DOMAIN fields : ~IsPrefix(path, p)})

With(fields, path, value) ==
  [p \in {path} \cup DOMAIN fields |-> IF p = path THEN value ELSE fields[p]]

\* Missing parents of an added path are created, and removing what is not there
\* is no error.  Replacing it is, and so is adding behind a leaf; then none of
\* the patch is carried out.
BehindLeaf(fields, path) == \E p \in DOMAIN fields : IsStrictPrefix(p, path)
ApplyOne(r, patch) ==
  CASE patch.op = "remove" ->
         [ok |-> r.ok, fields |-> Without(r.fields, patch.path)]
    [] patch.op = "add" ->
         IF BehindLeaf(r.fields, patch.path) THEN [ok |-> FALSE, fields |-> r.fields]
         ELSE [ok |-> r.ok, fields |-> With(Without(r.fields, patch.path), patch.path, patch.value)]
    [] OTHER ->
         IF patch.path \in DOMAIN r.fields
         THEN [ok |-> r.ok, fields |-> With(r.fields, patch.path, patch.value)]
         ELSE [ok |-> FALSE, fields |-> r.fields]
Decoded(o) == [ok |-> TRUE, fields |-> o.fields]
Apply(o, patches) ==
  LET after[i \in 0..Len(patches)] ==
        IF i = 0 THEN Decoded(o) ELSE ApplyOne(after[i - 1], patches[i])
  IN  after[Len(patches)]

StrippedFields ==
  {<<"metadata", f>> : f \in {"uid", "selfLink", "resourceVersion", "creationTimestamp",
                              "generation", "managedFields"}}
  \cup {AnnotationsAt \o <<c>> : c \in ControllerKeys \cup {AppliedKey}}
  \cup {<<"metadata", "labels", c>> : c \in ControllerKeys}
  \cup {<<"status">>}
stripFields(o) == RemoveAll({p \in StrippedFields : Found(o, p)})

\* The keys of the user go into the pointer as they are, so that a key with a
\* slash in it is read as a path.
addAnnotations(k) ==
  SetToSeq({AddPath(AnnotationsAt \o Parts[a], k.add[a]) : a \in DOMAIN k.add})
removeAnnotations(k) == RemoveAll({AnnotationsAt \o Parts[a] : a \in k.remove})

removePodFields(o) ==
  IF GK(o) # <<"", "Pod">> THEN <<>>
  ELSE RemoveAll({<<"spec", f>> : f \in {"nodeName", "nodeSelector", "priority"}})

\* Claims are renamed in the volumes and in the claim templates, at the index
\* they have there.
Claim(at, i) == at \o <<"volumes", i, "persistentVolumeClaim", "claimName">>
Template(i) == <<"spec", "volumeClaimTemplates", i, "metadata", "name">>
Renamed(k, o, read, write) ==
  LET at == {i \in Index : Value(o, read[i]) \in DOMAIN k.renames}
  IN  SetToSeq({ReplacePath(write[i], k.renames[Value(o, read[i])]) : i \in at})
RenamePVCs(k, o) ==
  IF GK(o) \notin Workloads THEN <<>>
  ELSE Renamed(k, o, [i \in Index |-> Claim(PodSpec(GK(o)), i)],
                     [i \in Index |-> Claim(PVCPath(GK(o)), i)])
renamePVCTemplates(k, o) ==
  LET names == [i \in Index |-> Template(i)]
  IN  IF GK(o) # <<"apps", "StatefulSet">> THEN <<>> ELSE Renamed(k, o, names, names)

\* The longest run of leading parts that has a replacement is replaced.
Replaceable(k, image) == {i \in DOMAIN image : SubSeq(image, 1, i) \in DOMAIN k.registry}
UpdatedAt(k, image, i) == k.registry[SubSeq(image, 1, i)] \o SubSeq(image, i + 1, Len(image))
UpdateShortest(k, image) == UpdatedAt(k, image, Min(Replaceable(k, image)))
UpdateImageRegistry(k, image) == UpdatedAt(k, image, Max(Replaceable(k, image)))
ImagePaths(o) ==
  {p \in DOMAIN o.fields : \E c \in {"containers", "initContainers"}, i \in Index :
                              p = PodSpec(GK(o)) \o <<c, i, "image">>}
UpdateImagesAnywhere(k, o) ==
  LET parts(image) == {ij \in (1..Len(image)) \X (1..Len(image)) : SubSeq(image, ij[1], ij[2]) \in DOMAIN k.registry}
      updated(image) == LET ij == CHOOSE x \in parts(image) : TRUE
                        IN  SubSeq(image, 1, ij[1] - 1) \o k.registry[SubSeq(image, ij[1], ij[2])]
                            \o SubSeq(image, ij[2] + 1, Len(image))
  IN  SetToSeq({ReplacePath(p, updated(o.fields[p])) : p \in {q \in ImagePaths(o) : parts(o.fields[q]) # {}}})
UpdateImages(k, o) ==
  IF ~(GK(o) = <<"", "Pod">> \/ IsPodSpecable(o)) THEN <<>>
  ELSE LET at == {p \in ImagePaths(o) : Replaceable(k, o.fields[p]) # {}}
       IN  SetToSeq({ReplacePath(p, UpdateImageRegistry(k, o.fields[p])) : p \in at})

\* A Job gets a new selector in the target cluster, unless the user manages it.
removeJobControllerUID(o) ==
  IF GK(o) # <<"batch", "Job">> THEN <<>>
  ELSE LET labels == <<"spec", "template", "metadata", "labels">>
           match  == <<"spec", "selector", "matchLabels">>
           selectors == IF Value(o, <<"spec", "manualSelector">>) = "true"
                        THEN {match \o <<c>> : c \in ControllerKeys}
                        ELSE {<<"spec", "selector">>}
       IN  RemoveAll({p \in selectors \cup {labels \o <<c>> : c \in ControllerKeys} : Found(o, p)})

suspendUnsetJob(o) ==
  IF /\ GK(o) = <<"batch", "Job">>
     /\ ~Owned(o)
     /\ ~Annotated(o, IdempotentKey, "true")
     /\ Value(o, <<"spec", "suspend">>) = ""
  THEN <<AddPath(<<"spec", "suspend">>, "true")>> ELSE <<>>
suspendStandaloneJob(o) ==
  IF /\ GK(o) = <<"batch", "Job">>
     /\ ~Owned(o)
     /\ ~Annotated(o, IdempotentKey, "true")
     /\ Value(o, <<"spec", "suspend">>) # "true"
  THEN <<AddPath(<<"spec", "suspend">>, "true")>> ELSE <<>>

\* Service accounts of the binding's own namespace lose their namespace.
Subjects(o) ==
  IF GK(o) # <<"rbac.authorization.k8s.io", "RoleBinding">> THEN <<>>
  ELSE LET local(i) == /\ Value(o, <<"subjects", i, "kind">>) = "ServiceAccount"
                       /\ Value(o, <<"subjects", i, "namespace">>) = Value(o, <<"metadata", "namespace">>)
       IN  RemoveAll({<<"subjects", i, "namespace">> : i \in {j \in Index : local(j)}})

AccountSecrets(o) ==
  IF GK(o) = <<"", "ServiceAccount">> /\ Found(o, <<"secrets">>) THEN <<RemovePath(<<"secrets">>)>> ELSE <<>>

\* The ports the user gave a node port, as kubectl recorded them: known by name
\* or, for one without a name, by the number.  A node port written as a string
\* counts as 0 (getNodePortInt).
Explicit(o) ==
  IF AppliedKey \in AnnotationKeys(o)
  THEN {p \in o.fields[AnnotationsAt \o <<AppliedKey>>] : p.nodePort \notin {"", "0"}} ELSE {}
IsExplicitByNumber(o, name, nodePort) == \E p \in Explicit(o) : p.nodePort = nodePort
IsExplicit(o, name, nodePort) ==
  \E p \in Explicit(o) : IF name = "" THEN p.name = "" /\ p.nodePort = nodePort ELSE p.name = name
NodePort(i) == <<"spec", "ports", i, "nodePort">>
getNodePortPatch(o) ==
  IF Value(o, <<"spec", "type">>) \in {"", "ExternalName"} THEN <<>>
  ELSE LET allocated(i) == /\ Value(o, NodePort(i)) \notin {"", "0"}
                           /\ ~IsExplicit(o, Value(o, <<"spec", "ports", i, "name">>), Value(o, NodePort(i)))
       IN  RemoveAll({NodePort(i) : i \in {j \in Index : allocated(j)}})
\* Reading the record ends in an error, or the process dies of the type assertion
\* on a name that is null.
RecordRead(o) ==
  /\ GK(o) = <<"", "Service">> /\ Value(o, <<"spec", "type">>) \notin {"", "ExternalName"}
  /\ Found(o, <<"spec", "ports">>) /\ AppliedKey \in AnnotationKeys(o)
RecordUnreadable(o) == RecordRead(o) /\ o.fields[AnnotationsAt \o <<AppliedKey>>] = Unreadable
RecordPanics(o) == RecordRead(o) /\ \E p \in Explicit(o) : p.name = Null
removeServiceFields(o) ==
  IF GK(o) # <<"", "Service">> THEN <<>>
  ELSE LET external == IF Value(o, <<"spec", "type">>) = "LoadBalancer" THEN {<<"spec", "externalIPs">>} ELSE {}
           bound(f, first) == IF Found(o, f) /\ Value(o, first) # "None" THEN {f} ELSE {}
           ip == <<"spec", "clusterIP">>
           ips == <<"spec", "clusterIPs">>
       IN  RemoveAll(external \cup bound(ip, ip) \cup bound(ips, ips \o <<"0">>)) \o getNodePortPatch(o)

\* The kinds that are read into a typed copy, in which an annotation is a string.
Typed == Workloads \cup {<<"rbac.authorization.k8s.io", "RoleBinding">>}
PlainAnnotations(o) == \A p \in DOMAIN o.fields : IsPrefix(AnnotationsAt, p) => Len(p) = 3
Undecodable(o) == GK(o) \in Typed /\ ~PlainAnnotations(o)

getKubernetesTransforms(k, o) ==
  stripFields(o) \o addAnnotations(k) \o removeAnnotations(k)
  \o removePodFields(o) \o RenamePVCs(k, o) \o renamePVCTemplates(k, o)
  \o removeJobControllerUID(o) \o suspendStandaloneJob(o)
  \o Subjects(o) \o AccountSecrets(o) \o UpdateImages(k, o) \o removeServiceFields(o)

\* What the API server, with the schema of each kind, and the marshalling of
\* objects see to, and what patches leave so.
IsClaim(p) ==
  /\ Len(p) > 1 /\ p[1] = "spec"
  /\ p[Len(p) - 1] = "persistentVolumeClaim" /\ p[Len(p)] = "claimName"
WellFormed(o) ==
  /\ \A p \in DOMAIN o.fields : IsPath(p) /\ p \notin {<<>>, <<"spec">>, <<"metadata">>, AnnotationsAt}
  /\ \A p \in ImagePaths(o) : IsPath(o.fields[p])
  /\ GK(o) \in Workloads =>
       /\ \A p \in DOMAIN o.fields : IsClaim(p) => \E i \in Index : p = Claim(PodSpec(GK(o)), i)
       /\ GK(o) # <<"apps", "StatefulSet">> => \A i \in Index : Template(i) \notin DOMAIN o.fields

\* Nothing is below a leaf, and suspend is one in a Job; an exported annotation
\* is a plain string, and node ports are numbers that services of some types have.
IsTree(o) ==
  \A p \in DOMAIN o.fields :
    /\ ~BehindLeaf(o.fields, p)
    /\ GK(o) = <<"batch", "Job">> => ~IsStrictPrefix(<<"spec", "suspend">>, p)
RealNodePorts(o) ==
  \A i \in Index : GK(o) = <<"", "Service">> /\ Found(o, NodePort(i)) =>
     /\ Value(o, NodePort(i)) \notin {"", "0"}
     /\ Value(o, <<"spec", "type">>) \notin {"", "ExternalName"}

ASSUME ObjectsAssumption ==
  \A o \in Objects :
    /\ o = [group |-> o.group, kind |-> o.kind, name |-> o.name, fields |-> o.fields]
    /\ o.kind # ""
    /\ WellFormed(o) /\ IsTree(o) /\ PlainAnnotations(o) /\ RealNodePorts(o)

-----------------------------------------------------------------------------
(* The options and the decision to leave an object out. *)

Defaults == [add |-> <<>>, remove |-> {}, registry |-> <<>>, keepOwned |-> FALSE, extra |-> {},
             only |-> {}, rbac |-> TRUE, bundle |-> TRUE, renames |-> <<>>]
Sticky == {"add", "remove", "registry", "extra", "only"}

\* A Boolean that cannot be parsed is false.
ParseBool(v) == v = "true"
Given(extras, o, default) == IF o \in DOMAIN extras THEN extras[o] ELSE default

\* The strip flags start from their defaults in every request, the other
\* options keep what an earlier request set.  The rename map comes last: when it
\* is refused, all the others are already set.
SetKeptFlags(extras) ==
  [o \in DOMAIN options |->
     CASE o \in {"rbac", "bundle", "keepOwned"} /\ o \in DOMAIN extras -> ParseBool(extras[o])
       [] o = "renames" /\ Given(extras, o, <<>>) = Invalid -> options[o]
       [] OTHER -> Given(extras, o, options[o])]
SetUnchecked(extras) ==
  [o \in DOMAIN options |->
     CASE o \in {"rbac", "bundle"} -> o \in DOMAIN extras => ParseBool(extras[o])
       [] o = "keepOwned" /\ o \in DOMAIN extras -> ParseBool(extras[o])
       [] OTHER -> Given(extras, o, options[o])]
setOptionalFields(extras) ==
  [o \in DOMAIN options |->
     CASE o \in {"rbac", "bundle"} -> o \in DOMAIN extras => ParseBool(extras[o])
       [] o = "keepOwned" /\ o \in DOMAIN extras -> ParseBool(extras[o])
       [] o = "renames" /\ Given(extras, o, <<>>) \in {Invalid, Unpaired} -> options[o]
       [] OTHER -> Given(extras, o, options[o])]

gksToWhiteout ==
  {<<"", n>> : n \in {"Endpoints", "Event", "PersistentVolumeClaim"}}
  \cup {<<"discovery.k8s.io", "EndpointSlice">>, <<"events.k8s.io", "Event">>}
  \cup {<<"operators.coreos.com", n>> :
          n \in {"Subscription", "InstallPlan", "ClusterServiceVersion", "CatalogSource",
                 "OperatorGroup", "OperatorCondition"}}

\* Selected out by kind, or a token the cluster generates for a service account.
ByKind(k, o) ==
  IF k.only # {} THEN GK(o) \notin k.only
  ELSE GK(o) \in gksToWhiteout \cup k.extra
GeneratedToken(o) ==
  /\ GK(o) = <<"", "Secret">>
  /\ Value(o, <<"type">>) \in {"kubernetes.io/service-account-token", "kubernetes.io/dockercfg"}
  /\ ServiceAccountKey \in AnnotationKeys(o)

\* What every namespace gets from the cluster by default.
DefaultAccount(o) ==
  \/ GK(o) = <<"", "ServiceAccount">> /\ o.name = "default"
  \/ GK(o) = <<"", "Secret">> /\ Annotated(o, ServiceAccountKey, "default")
DefaultBundle(o) == GK(o) = <<"", "ConfigMap">> /\ o.name = "kube-root-ca.crt"

\* Asking for owned objects switches all the tests after it off as well.
getWhiteOuts(k, o) ==
  \/ ByKind(k, o)
  \/ GeneratedToken(o)
  \/ /\ ~k.keepOwned
     /\ \/ Owned(o)
        \/ k.rbac /\ DefaultAccount(o)
        \/ k.bundle /\ DefaultBundle(o)
        \/ o.group = "extensions"

-----------------------------------------------------------------------------
(* Requests and answers. *)

Reply(status, patches) == answer' = [status |-> status, patches |-> patches]

Init ==
  /\ options = Defaults
  /\ object = NoObject /\ original = NoObject /\ output = NoObject
  /\ answer = [status |-> "none", patches |-> <<>>]
  /\ stage = 0 /\ history = <<>>

\* The next object of the export.
Export ==
  /\ answer.status \in {"none", "whiteout", "error", "applied"}
  /\ \E o \in Objects : object' = o /\ original' = o
  /\ output' = NoObject /\ stage' = 0
  /\ Reply("exported", <<>>)
  /\ UNCHANGED <<options, history>>

\* The answer for an object when the options are set.
Answer(k, o) ==
  IF getWhiteOuts(k, o) THEN Reply("whiteout", <<>>)
  ELSE IF Undecodable(o) \/ RecordUnreadable(o) THEN Reply("error", <<>>)
  ELSE IF RecordPanics(o) THEN Reply("panic", <<>>)
  ELSE Reply("patched", getKubernetesTransforms(k, o))

\* The plugin answers a request about the object.
Run ==
  /\ answer.status = "exported" /\ Len(history) < MaxRequests
  /\ \E extras \in Requests :
       /\ options' = setOptionalFields(extras)
       /\ history' = Append(history, extras)
       /\ CASE Given(extras, "renames", <<>>) = Unpaired -> Reply("panic", <<>>)
            [] Given(extras, "renames", <<>>) = Invalid  -> Reply("error", <<>>)
            [] OTHER -> Answer(options', object)
  /\ stage' = stage + 1
  /\ UNCHANGED <<object, original, output>>

\* The applier carries the patches out, all or none.
ApplyPatches ==
  /\ answer.status = "patched"
  /\ LET result == Apply(object, answer.patches)
     IN  IF result.ok
         THEN Reply("applied", answer.patches) /\ output' = [object EXCEPT !.fields = result.fields]
         ELSE Reply("broken", answer.patches) /\ UNCHANGED output
  /\ UNCHANGED <<options, object, original, stage, history>>

\* The next stage of the transform takes the output for its input.
NextStage ==
  /\ answer.status = "applied" /\ stage < MaxStages
  /\ object' = output /\ output' = NoObject
  /\ Reply("exported", <<>>)
  /\ UNCHANGED <<options, original, stage, history>>

Next == Export \/ Run \/ ApplyPatches \/ NextStage
Spec == Init /\ [][Next]_vars

-----------------------------------------------------------------------------
(* Properties. *)

Applied == answer.status = "applied"

\* The options have values the transforms can use, whatever the requests held
\* (setOptionalFields), and the bounds are kept.
TypeOK ==
  /\ DOMAIN options = DOMAIN Defaults
  /\ \A o \in {"keepOwned", "rbac", "bundle"} : options[o] \in BOOLEAN
  /\ options.renames \notin {Invalid, Unpaired}
  /\ answer.status \in {"none", "exported", "whiteout", "error", "panic", "patched", "applied", "broken"}
  /\ stage \in 0..MaxStages
  /\ Applied <=> output # NoObject

\* An option is what the latest request that set it asked for, whichever object
\* that request was about and however it ended; only the strip flags are those
\* of the last request alone (KubernetesTransformPlugin is one value for a whole
\* export, setOptionalFields writes into it).
Sets(i, o) == o \in DOMAIN history[i] /\ history[i][o] \notin {Invalid, Unpaired}
Latest(o, default) == LET at == {i \in DOMAIN history : Sets(i, o)}
                      IN  IF at = {} THEN default ELSE history[Max(at)][o]
OwnedAskedFor == Latest("keepOwned", "false") = "true"
OptionsAreLatest ==
  history # <<>> =>
    /\ \A o \in Sticky \cup {"renames"} : options[o] = Latest(o, Defaults[o])
    /\ options.keepOwned = OwnedAskedFor
    /\ \A o \in {"rbac", "bundle"} :
         options[o] = (o \in DOMAIN Last(history) => Last(history)[o] = "true")

\* A patch the plugin makes of an object can be carried out on that object, at
\* every stage (Run reads typed copies of the object, Apply works on its JSON; a
\* replaced path that is not there makes the applier refuse all).  It is refused
\* only when the key of an added annotation is, up to a slash, the key of another
\* one, on the object or added too (addAnnotations does not escape keys).
Nested(k, o) ==
  LET at(a) == AnnotationsAt \o Parts[a]
  IN  \E a \in DOMAIN k.add :
        \/ BehindLeaf(o.fields, at(a))
        \/ \E b \in DOMAIN k.add : IsStrictPrefix(at(b), at(a))
PatchesApply == answer.status = "broken" => Nested(options, object)

\* What leaves the applier is rid of what the code means to take away, whatever
\* other operations of the answer do: the identity, status, node, generated
\* selector and token, unless the user adds it as an annotation; of a Service the
\* cluster IPs that are not "None", the external IPs if it is a load balancer, and
\* all node ports but those the user had asked for when it was exported - none of
\* them invented at any stage, none of them lost at the first.  Kinds that are
\* nothing but addresses or volumes of the old cluster pass only if the user
\* names them.  Not taken away, by the code either: external IPs of other services,
\* health check ports, and what is in an object of such a named kind.
NodePortsOf(o) == {i \in Index : GK(o) = <<"", "Service">> /\ Found(o, NodePort(i))}
AppliedAt == AnnotationsAt \o <<AppliedKey>>
Wanted ==
  {i \in NodePortsOf(original) :
     /\ AppliedAt \in DOMAIN original.fields
     /\ \E asked \in original.fields[AppliedAt] :
          /\ asked.name = Value(original, <<"spec", "ports", i, "name">>)
          /\ asked.nodePort \notin {"", "0"}
          /\ asked.name = "" => asked.nodePort = Value(original, NodePort(i))}
Leftovers(o) ==
  StrippedFields
  \cup (CASE GK(o) = <<"", "Pod">> -> {<<"spec", f>> : f \in {"nodeName", "nodeSelector", "priority"}}
          [] GK(o) = <<"", "ServiceAccount">> -> {<<"secrets">>}
          [] GK(o) = <<"batch", "Job">> ->
               {<<"spec", "template", "metadata", "labels", c>> : c \in ControllerKeys}
               \cup {<<"spec", "selector", "matchLabels", c>> : c \in ControllerKeys}
          [] OTHER -> {})
ClusterBound ==
  {<<"", "Endpoints">>, <<"", "PersistentVolumeClaim">>, <<"discovery.k8s.io", "EndpointSlice">>}
AppliedIsPortable ==
  Applied =>
    /\ \A p \in Leftovers(output) :
         Found(output, p) => \E a \in DOMAIN options.add : IsPrefix(p, AnnotationsAt \o Parts[a])
    /\ GK(output) = <<"", "Service">> =>
         /\ Value(output, <<"spec", "clusterIP">>) \in {"", "None"}
         /\ Found(output, <<"spec", "clusterIPs">>) => Value(output, <<"spec", "clusterIPs">> \o <<"0">>) = "None"
         /\ Value(output, <<"spec", "type">>) = "LoadBalancer" => ~Found(output, <<"spec", "externalIPs">>)
    /\ GK(output) \in ClusterBound => GK(output) \in options.only
    /\ NodePortsOf(output) \subseteq Wanted
    /\ stage = 1 => NodePortsOf(output) = Wanted

\* Nothing runs in the target cluster that the user did not let run: a Job that
\* is not suspended was marked idempotent when it was exported, or has an
\* owner; and an object with an owner is there only if the latest request that
\* set disable-whiteout-owned asked for it (suspendStandaloneJob, getWhiteOuts).
RunsOnlyByConsent ==
  Applied =>
    /\ GK(original) = <<"batch", "Job">> /\ Value(output, <<"spec", "suspend">>) # "true"
         => Annotated(original, IdempotentKey, "true") \/ Owned(original)
    /\ Owned(original) => OwnedAskedFor

\* Claims and images are renamed once a stage, all from what the object had:
\* renames that swap two names do not meet in the middle, and an image keeps
\* its name behind the longest prefix that has a replacement.  The images of a
\* CronJob and the claims of kinds the plugin does not know stay (RenamePVCs,
\* renamePVCTemplates, UpdateImageRegistry).
ClaimsOf(o) == {p \in DOMAIN o.fields :
                  /\ GK(o) \in Workloads
                  /\ IsClaim(p) \/ \E i \in Index : p = Template(i)}
ReferencesRenamedOnce ==
  Applied =>
    /\ \A p \in ClaimsOf(object) :
         LET c == object.fields[p]
         IN  Value(output, p) = IF c \in DOMAIN options.renames THEN options.renames[c] ELSE c
    /\ \A p \in ImagePaths(object) :
         LET was == object.fields[p]
             now == Value(output, p)
         IN  \/ /\ now = was
                /\ \/ GK(object) = <<"batch", "CronJob">>
                   \/ ~\E prefix \in DOMAIN options.registry : IsPrefix(prefix, was)
             \/ \E prefix \in DOMAIN options.registry :
                  /\ IsPrefix(prefix, was)
                  /\ now = options.registry[prefix] \o SubSeq(was, Len(prefix) + 1, Len(was))
                  /\ \A other \in DOMAIN options.registry :
                       IsPrefix(other, was) => Len(other) <= Len(prefix)

\* A second stage with the options of the first changes nothing more, except
\* that node ports are gone (the record of which the user wanted went in the
\* first stage), that a Job is suspended whose idempotent mark the user's own
\* annotations took in the first stage, that renames apply again where a new name
\* is itself renamed, and that a slash in an added key hides the annotations (of a
\* kind that is not Typed; the others end in an error) or two keys add one
\* annotation.
Rerenamed ==
  \/ \E x \in DOMAIN options.renames : options.renames[x] \in DOMAIN options.renames
  \/ \E x, y \in DOMAIN options.registry :
       IsPrefix(y, options.registry[x]) \/ IsPrefix(options.registry[x], y)
Repeats ==
  /\ Applied /\ stage = 2
  /\ DOMAIN Last(history) \subseteq {"rbac", "bundle"}
  /\ ~Rerenamed
  /\ \A a, b \in DOMAIN options.add : Len(Parts[a]) = 1 /\ (Parts[a] = Parts[b] => a = b)
Unmarked ==
  Annotated(original, IdempotentKey, "true") /\ ~Annotated(object, IdempotentKey, "true")
SecondStageStable ==
  Repeats =>
    LET changing == {NodePort(i) : i \in NodePortsOf(object)}
                    \cup IF Unmarked THEN {<<"spec", "suspend">>} ELSE {}
    IN  Restrict(output.fields, DOMAIN output.fields \ changing)
          = Restrict(object.fields, DOMAIN object.fields \ changing)
=============================================================================
