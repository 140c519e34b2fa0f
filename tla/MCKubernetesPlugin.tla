------------------------- MODULE MCKubernetesPlugin -------------------------
(* Instances of KubernetesPlugin: one object of every kind the plugin treats     *)
(* apart, with the fields it looks for, and requests that set each option.       *)
EXTENDS KubernetesPlugin

Meta == (<<"metadata", "uid">> :> "u") @@ (<<"metadata", "resourceVersion">> :> "1")
Status == <<"status", "phase">> :> "x"
Note(key, value) == (AnnotationsAt \o <<key>>) :> value
Obj(group, kind, name, fields) ==
  [group |-> group, kind |-> kind, name |-> name, fields |-> fields @@ Meta]
OwnerRef == <<"metadata", "ownerReferences", "0">> :> "rs"

App == <<"docker.io", "foo", "app">>
Containers(gk) == ((PodSpec(gk) \o <<"containers", "0", "image">>) :> App)
                  @@ ((PodSpec(gk) \o <<"initContainers", "1", "image">>) :> <<"docker.io", "init">>)
Volumes(gk) == (Claim(PodSpec(gk), "0") :> "data") @@ (Claim(PodSpec(gk), "1") :> "logs")
Pods(gk) == Containers(gk) @@ Volumes(gk)
Work(group, kind, more) == Obj(group, kind, "w", Pods(<<group, kind>>) @@ more)

JobLabels == (<<"spec", "template", "metadata", "labels", "controller-uid">> :> "u")
             @@ (<<"spec", "selector", "matchLabels", "batch.kubernetes.io/controller-uid">> :> "u")
Port(i, name, number) ==
  (NodePort(i) :> number)
  @@ IF name = "" THEN <<>> ELSE <<"spec", "ports", i, "name">> :> name
Recorded(ports) == Note(AppliedKey, ports)
Type(t) == <<"spec", "type">> :> t

MCObjects ==
  { Work("", "Pod", Status @@ (<<"spec", "nodeName">> :> "n1") @@ (<<"spec", "priority">> :> "1")),
    Work("apps", "ReplicaSet", OwnerRef),
    Work("apps", "Deployment", Note("team", "old") @@ Note("example.com", "old") @@ Recorded({})),
    Work("extensions", "Deployment", Status),
    Work("batch", "CronJob", Status),
    Work("batch", "Job", JobLabels @@ Note("controller-uid", "u")
                         @@ (<<"spec", "suspend">> :> "false")),
    Work("batch", "Job", JobLabels @@ (<<"spec", "manualSelector">> :> "true")
                         @@ (<<"spec", "suspend">> :> "false") @@ Note(IdempotentKey, "true")),
    Work("batch", "Job", OwnerRef @@ JobLabels),
    Obj("apps", "StatefulSet", "s",
        Pods(<<"apps", "StatefulSet">>) @@ (Template("0") :> "logs") @@ (Template("1") :> "data")),
    Obj("rbac.authorization.k8s.io", "RoleBinding", "b",
        (<<"metadata", "namespace">> :> "ns")
        @@ (<<"subjects", "0", "kind">> :> "ServiceAccount") @@ (<<"subjects", "0", "namespace">> :> "ns")
        @@ (<<"subjects", "1", "kind">> :> "ServiceAccount") @@ (<<"subjects", "1", "namespace">> :> "other")),
    Obj("", "ServiceAccount", "default", <<"secrets", "0">> :> "default-token"),
    Obj("", "Secret", "t", (<<"type">> :> "kubernetes.io/dockercfg") @@ Note(ServiceAccountKey, "app")),
    Obj("", "Secret", "d", (<<"type">> :> "Opaque") @@ Note(ServiceAccountKey, "default")),
    Obj("", "ConfigMap", "kube-root-ca.crt", <<"data", "ca">> :> "x"),
    Obj("", "PersistentVolumeClaim", "data", Status),
    Obj("", "Service", "np", Type("NodePort") @@ Port("0", "web", "30001") @@ Port("1", "admin", "30002")
        @@ Recorded({[name |-> "web", nodePort |-> "30001"], [name |-> "admin", nodePort |-> ""],
                     [name |-> "old", nodePort |-> "30002"]})
        @@ (<<"spec", "clusterIP">> :> "10.0.0.1") @@ (<<"spec", "clusterIPs", "0">> :> "10.0.0.1")),
    Obj("", "Service", "lb", Type("LoadBalancer") @@ Port("0", "", "30001") @@ Port("1", "", "30003")
        @@ Recorded({[name |-> "", nodePort |-> "30003"]})
        @@ (<<"spec", "clusterIP">> :> "None") @@ (<<"spec", "clusterIPs", "0">> :> "None")
        @@ (<<"spec", "externalIPs", "0">> :> "1.1.1.1")),
    Obj("", "Service", "torn", Type("NodePort") @@ Port("0", "web", "30001") @@ Recorded(Unreadable)),
    Obj("", "Service", "null", Type("NodePort") @@ Port("0", "", "30001")
        @@ Recorded({[name |-> Null, nodePort |-> "30001"]})),
    Obj("", "Service", "name", Type("ExternalName")) }

Swap == ("data" :> "logs") @@ ("logs" :> "data")
Registry == (<<"docker.io">> :> <<"quay.io">>) @@ (<<"docker.io", "foo">> :> <<"quay.io", "bar">>)
MCRequests ==
  { <<>>,
    ("add" :> (("team" :> "new") @@ ("env" :> "prod"))) @@ ("remove" :> {"env"}),
    ("add" :> ("example.com/team" :> "new")),
    ("registry" :> Registry),
    ("remove" :> {"crane.konveyor.io~1job-idempotent"}),
    ("keepOwned" :> "true") @@ ("bundle" :> "false"),
    ("keepOwned" :> "yes please"),
    ("rbac" :> "false"),
    ("rbac" :> "yes please") @@ ("renames" :> Unpaired),
    ("extra" :> {<<"", "Service">>}),
    ("only" :> {<<"batch", "Job">>, <<"", "Service">>, <<"", "PersistentVolumeClaim">>}),
    ("renames" :> Swap) @@ ("registry" :> Registry),
    ("renames" :> ("data" :> "moved")) @@ ("registry" :> (<<"docker.io">> :> <<"mirror", "docker.io">>)),
    ("renames" :> Invalid) @@ ("bundle" :> "false") @@ ("remove" :> {"team"}) }

MCParts == ("team" :> <<"team">>) @@ ("env" :> <<"env">>)
           @@ ("example.com/team" :> <<"example.com", "team">>)
           @@ ("crane.konveyor.io~1job-idempotent" :> <<IdempotentKey>>)
=============================================================================
