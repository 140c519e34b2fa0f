---------------------------- MODULE Tunnel_proofs ----------------------------
(***************************************************************************)
(* Proofs about Tunnel, for any callers, options and bounds: the namespace *)
(* is a lock, and a deployment is created last of what its pods need.      *)
(***************************************************************************)
EXTENDS Tunnel, TLAPS

(* What a running call knows about the cluster it works on: from the second *)
(* object on, the namespace is its own, ...                                *)
HoldsLock(c) ==
  pc[c] = "create" /\ at[c] # "namespace" =>
    /\ objects[side[c]]["namespace"] # NoObject
    /\ objects[side[c]]["namespace"].call = Call(c)

(* ... the objects before the next one in the order are there, ...          *)
Placed(c) ==
  LET s == side[c]
      there(k) == objects[s][k] # NoObject
  IN  pc[c] = "create" =>
        /\ at[c] \in {"scc", "role", "binding", "secret", "config", "proxy", "deployment"} =>
             there("account")
        /\ at[c] = "scc" => minor[s] <= 11
        /\ at[c] = "role" => ~(minor[s] <= 11)
        /\ at[c] = "binding" => ~(minor[s] <= 11) /\ there("role")
        /\ at[c] \in {"secret", "config", "proxy", "deployment"} => Privileged(s)

(* ... and so are those only one of the clusters has.                       *)
PlacedBySide(c) ==
  LET s == side[c]
      there(k) == objects[s][k] # NoObject
  IN  pc[c] = "create" =>
        /\ s = "dst" => /\ at[c] \notin {"config", "proxy"}
                        /\ at[c] \notin {"namespace", "configmap"} => there("configmap")
                        /\ at[c] = "deployment" => there("secret")
        /\ s = "src" => /\ at[c] \notin {"configmap", "service", "proxied", "secret"}
                        /\ at[c] = "proxy" => HasCredentials(c)
                        /\ at[c] \in {"proxy", "deployment"} => there("config")
                        /\ at[c] = "deployment" /\ HasCredentials(c) => there("proxy")

(* The proxy line of an object is that of its caller's options.             *)
ProxyLines ==
  \A s \in Clusters, k \in Kinds :
    objects[s][k] # NoObject => objects[s][k].proxy = ProxyLine(objects[s][k].call[1])

(* A call under way has certificates.                                       *)
HasCerts == \A c \in Callers : Running(c) => certs[c] # NoCerts

IInv == /\ TypeOK
        /\ HasCerts
        /\ OneCallPerNamespace
        /\ ProxyLines
        /\ DeploymentsCanStart
        /\ \A c \in Callers : HoldsLock(c) /\ Placed(c) /\ PlacedBySide(c)

-----------------------------------------------------------------------------
(* A new object is one, from the running call.                              *)
LEMMA ObjectType ==
  ASSUME TypeOK, NEW c \in Callers, certs[c] # NoCerts
  PROVE  /\ Object(c) \in Objects /\ Object(c) # NoObject
         /\ Object(c).call = Call(c) /\ Object(c).call[1] = c
         /\ Object(c).proxy = ProxyLine(c) /\ Object(c).needs = Needs(side[c], c)
<1>1. Call(c) \in CallIds /\ Call(c)[1] = c
  BY DEF TypeOK, Call, CallIds
<1>2. certs[c] \in CertSets \ {NoCerts} /\ endpoint[c] \in CallIds \cup {NoObject}
  BY DEF TypeOK
<1>3. ProxyLine(c) \in {"none", "plain", "basic"}
  BY DEF ProxyLine
<1>4. Needs(side[c], c) \in SUBSET Kinds
  BY DEF Needs, ServerNeeds, ClientNeeds, Kinds
<1>5. Object(c) \in Objects
  BY <1>1, <1>2, <1>3, <1>4 DEF Object, Objects
<1>6. /\ Object(c).call = Call(c) /\ Object(c).proxy = ProxyLine(c)
      /\ Object(c).needs = Needs(side[c], c)
  BY DEF Object
<1> QED
  BY <1>1, <1>5, <1>6, NoObjectAssumption

(* Nothing that exists is overwritten.                                      *)
Grows == \A s \in Clusters, k \in Kinds :
           objects[s][k] # NoObject => objects'[s][k] = objects[s][k]

(* What one Create that the cluster accepts changes.                        *)
LEMMA PutFills ==
  ASSUME TypeOK, NEW s \in Clusters, NEW k \in Kinds, NEW o \in Objects,
         Accepts(s, k), Put(s, k, o)
  PROVE  /\ objects' \in [Clusters -> [Kinds -> Objects \cup {NoObject}]]
         /\ objects'[s][k] = o
         /\ \A s2 \in Clusters, k2 \in Kinds :
              s2 # s \/ k2 # k => objects'[s2][k2] = objects[s2][k2]
         /\ Grows
<1> DEFINE row == [objects[s] EXCEPT ![k] = o]
<1>1. objects \in [Clusters -> [Kinds -> Objects \cup {NoObject}]]
  BY DEF TypeOK
<1>2. row \in [Kinds -> Objects \cup {NoObject}] /\ row[k] = o
      /\ \A k2 \in Kinds : k2 # k => row[k2] = objects[s][k2]
  BY <1>1
<1>3. objects' = [objects EXCEPT ![s] = row]
  BY DEF Put
<1> HIDE DEF row
<1>4. objects'[s] = row /\ \A s2 \in Clusters : s2 # s => objects'[s2] = objects[s2]
  BY <1>1, <1>3
<1>5. objects' \in [Clusters -> [Kinds -> Objects \cup {NoObject}]]
  BY <1>1, <1>2, <1>3
<1>6. Grows
  BY <1>2, <1>4 DEF Grows, Accepts
<1> QED
  BY <1>2, <1>4, <1>5, <1>6

(* A Create by a call that holds the lock keeps what the clusters hold right. *)
LEMMA PutKeepsObjects ==
  ASSUME IInv, minor' = minor, NEW c \in Callers, pc[c] = "create",
         NEW s, NEW k, s = side[c], k = at[c], Accepts(s, k), Put(s, k, Object(c))
  PROVE  /\ objects' \in [Clusters -> [Kinds -> Objects \cup {NoObject}]]
         /\ Grows
         /\ objects'[s][k] = Object(c)
         /\ OneCallPerNamespace' /\ ProxyLines' /\ DeploymentsCanStart'
<1>1. s \in Clusters /\ k \in Kinds /\ TypeOK
  BY DEF IInv, TypeOK
<1>2. /\ Object(c) \in Objects /\ Object(c) # NoObject
      /\ Object(c).call = Call(c) /\ Object(c).call[1] = c
      /\ Object(c).proxy = ProxyLine(c) /\ Object(c).needs = Needs(s, c)
  BY <1>1, ObjectType DEF IInv, HasCerts, Running
<1>3. /\ objects' \in [Clusters -> [Kinds -> Objects \cup {NoObject}]]
      /\ objects'[s][k] = Object(c)
      /\ \A s2 \in Clusters, k2 \in Kinds :
           s2 # s \/ k2 # k => objects'[s2][k2] = objects[s2][k2]
      /\ Grows
  BY <1>1, <1>2, PutFills
<1>4. OneCallPerNamespace'
  <2> SUFFICES ASSUME NEW s2 \in Clusters, NEW k2 \in Namespaced, objects'[s2][k2] # NoObject
               PROVE  /\ objects'[s2]["namespace"] # NoObject
                      /\ objects'[s2][k2].call = objects'[s2]["namespace"].call
    BY DEF OneCallPerNamespace
  <2>0. "namespace" \in Kinds /\ k2 \in Kinds
    BY DEF Kinds, Namespaced
  <2>1. CASE s2 # s
    BY <1>3, <2>0, <2>1 DEF IInv, OneCallPerNamespace
  <2>2. CASE s2 = s /\ k = "namespace"
    <3>1. k2 = "namespace"
      BY <1>3, <2>0, <2>2 DEF IInv, OneCallPerNamespace, Accepts
    <3> QED
      BY <1>2, <1>3, <2>2, <3>1
  <2>3. CASE s2 = s /\ k # "namespace" /\ k2 = k
    BY <1>2, <1>3, <2>0, <2>3 DEF IInv, HoldsLock
  <2>4. CASE s2 = s /\ k # "namespace" /\ k2 # k
    BY <1>3, <2>0, <2>4 DEF IInv, OneCallPerNamespace
  <2> QED
    BY <2>1, <2>2, <2>3, <2>4
<1>5. ProxyLines'
  <2> SUFFICES ASSUME NEW s2 \in Clusters, NEW k2 \in Kinds, objects'[s2][k2] # NoObject
               PROVE  objects'[s2][k2].proxy = ProxyLine(objects'[s2][k2].call[1])
    BY DEF ProxyLines, ProxyLine, HasCredentials
  <2>1. CASE s2 = s /\ k2 = k
    BY <1>2, <1>3, <2>1
  <2>2. CASE s2 # s \/ k2 # k
    BY <1>3, <2>2 DEF IInv, ProxyLines
  <2> QED
    BY <2>1, <2>2
<1>6. DeploymentsCanStart'
  <2>0. /\ "deployment" \in Kinds /\ "account" \in Kinds /\ "scc" \in Kinds
        /\ "role" \in Kinds /\ "binding" \in Kinds /\ "secret" \in Kinds
        /\ "configmap" \in Kinds /\ "config" \in Kinds /\ "proxy" \in Kinds
    BY DEF Kinds
  <2> SUFFICES ASSUME NEW s2 \in Clusters, objects'[s2]["deployment"] # NoObject
               PROVE
                 /\ Privileged(s2)'
                 /\ \A k2 \in objects'[s2]["deployment"].needs : objects'[s2][k2] # NoObject
                 /\ s2 = "src" => /\ objects'[s2]["config"] # NoObject
                                  /\ objects'[s2]["config"].proxy = "basic" =>
                                       "proxy" \in objects'[s2]["deployment"].needs
    BY DEF DeploymentsCanStart, Privileged
  <2>1. CASE s2 # s \/ k # "deployment"
    <3>1. objects'[s2]["deployment"] = objects[s2]["deployment"]
      BY <1>3, <2>0, <2>1
    <3>2. /\ Privileged(s2)
          /\ \A k2 \in objects[s2]["deployment"].needs : objects[s2][k2] # NoObject
          /\ s2 = "src" => /\ objects[s2]["config"] # NoObject
                           /\ objects[s2]["config"].proxy = "basic" =>
                                "proxy" \in objects[s2]["deployment"].needs
      BY <3>1 DEF IInv, DeploymentsCanStart
    <3>3. \A k2 \in Kinds : objects[s2][k2] # NoObject => objects'[s2][k2] = objects[s2][k2]
      BY <1>3 DEF Grows
    <3>4. Privileged(s2)'
      BY <2>0, <3>2, <3>3 DEF Privileged
    <3>5. objects[s2]["deployment"].needs \subseteq Kinds
      <4>1. objects[s2]["deployment"] \in Objects
        BY <1>1, <2>0, <3>1 DEF TypeOK
      <4> QED
        BY <4>1 DEF Objects
    <3> QED
      BY <2>0, <3>1, <3>2, <3>3, <3>4, <3>5
  <2>2. CASE s2 = s /\ k = "deployment"
    <3>1. Placed(c) /\ PlacedBySide(c) /\ HoldsLock(c)
      BY DEF IInv
    <3>2. \A k2 \in Kinds : objects[s][k2] # NoObject => objects'[s][k2] = objects[s][k2]
      BY <1>1, <1>3 DEF Grows
    <3>3. objects[s]["account"] # NoObject /\ Privileged(s)
      BY <2>2, <3>1 DEF Placed
    <3>4. Privileged(s)'
      BY <2>0, <3>2, <3>3 DEF Privileged
    <3>5. s = "dst" => objects[s]["secret"] # NoObject /\ objects[s]["configmap"] # NoObject
      BY <2>2, <3>1 DEF PlacedBySide
    <3>6. s = "src" => /\ objects[s]["config"] # NoObject
                       /\ HasCredentials(c) => objects[s]["proxy"] # NoObject
      BY <2>2, <3>1 DEF PlacedBySide
    <3>7. s = "src" /\ objects[s]["config"].proxy = "basic" => HasCredentials(c)
      <4> SUFFICES ASSUME s = "src", objects[s]["config"].proxy = "basic"
                   PROVE  HasCredentials(c)
        OBVIOUS
      <4>1. objects[s]["config"].call = objects[s]["namespace"].call
        BY <1>1, <3>6 DEF IInv, OneCallPerNamespace, Namespaced, Kinds
      <4>2. objects[s]["config"].call[1] = c
        BY <2>2, <3>1, <4>1 DEF HoldsLock, Call
      <4>3. objects[s]["config"].proxy = ProxyLine(c)
        BY <1>1, <2>0, <3>6, <4>2 DEF IInv, ProxyLines
      <4> QED
        BY <4>3 DEF ProxyLine
    <3>8. objects'[s]["deployment"].needs = Needs(s, c)
      BY <1>2, <1>3, <2>2
    <3>9. \A k2 \in Needs(s, c) : objects'[s][k2] # NoObject
      BY <1>1, <2>0, <3>2, <3>3, <3>5, <3>6 DEF Needs, ServerNeeds, ClientNeeds, Clusters
    <3> QED
      BY <2>0, <2>2, <3>2, <3>4, <3>6, <3>7, <3>8, <3>9 DEF Needs, ClientNeeds
  <2> QED
    BY <2>1, <2>2
<1> QED
  BY <1>3, <1>4, <1>5, <1>6

-----------------------------------------------------------------------------
(* The order of creation, kind by kind.                                     *)
LEMMA AfterKinds ==
  ASSUME NEW s, NEW c
  PROVE  /\ After(s, c, "namespace") = IF s = "dst" THEN "configmap" ELSE "account"
         /\ After(s, c, "configmap") = "service"
         /\ After(s, c, "service") = "proxied"
         /\ After(s, c, "proxied") = "account"
         /\ After(s, c, "account") = IF minor[s] <= 11 THEN "scc" ELSE "role"
         /\ After(s, c, "role") = "binding"
         /\ After(s, c, "scc") = IF s = "dst" THEN "secret" ELSE "config"
         /\ After(s, c, "binding") = IF s = "dst" THEN "secret" ELSE "config"
         /\ After(s, c, "config") = IF HasCredentials(c) THEN "proxy" ELSE "deployment"
         /\ After(s, c, "secret") = "deployment"
         /\ After(s, c, "proxy") = "deployment"
         /\ After(s, c, "deployment") = "end"
<1>1. After(s, c, "namespace") = IF s = "dst" THEN "configmap" ELSE "account"
  BY DEF After, AfterRBAC
<1>2. After(s, c, "configmap") = "service"
  BY DEF After, AfterRBAC
<1>3. After(s, c, "service") = "proxied"
  BY DEF After, AfterRBAC
<1>4. After(s, c, "proxied") = "account"
  BY DEF After, AfterRBAC
<1>5. After(s, c, "account") = IF minor[s] <= 11 THEN "scc" ELSE "role"
  BY DEF After, AfterRBAC
<1>6. After(s, c, "role") = "binding"
  BY DEF After, AfterRBAC
<1>7. After(s, c, "scc") = IF s = "dst" THEN "secret" ELSE "config"
  BY DEF After, AfterRBAC
<1>8. After(s, c, "binding") = IF s = "dst" THEN "secret" ELSE "config"
  BY DEF After, AfterRBAC
<1>9. After(s, c, "config") = IF HasCredentials(c) THEN "proxy" ELSE "deployment"
  BY DEF After, AfterRBAC
<1>10. After(s, c, "secret") = "deployment"
  BY DEF After, AfterRBAC
<1>11. After(s, c, "proxy") = "deployment"
  BY DEF After, AfterRBAC
<1>12. After(s, c, "deployment") = "end"
  BY DEF After, AfterRBAC
<1> QED
  BY <1>1, <1>2, <1>3, <1>4, <1>5, <1>6, <1>7, <1>8, <1>9, <1>10, <1>11, <1>12

LEMMA AfterType ==
  ASSUME NEW s, NEW c, NEW k \in Kinds, After(s, c, k) # "end"
  PROVE  After(s, c, k) \in Kinds \ {"namespace"}
BY AfterKinds DEF Kinds

(* A caller that does nothing still knows what it knew.                     *)
LEMMA CallerKeeps ==
  ASSUME IInv, minor' = minor, Grows, NEW d \in Callers,
         pc'[d] = pc[d], side'[d] = side[d], at'[d] = at[d], calls'[d] = calls[d]
  PROVE  HoldsLock(d)' /\ Placed(d)' /\ PlacedBySide(d)'
<1>1. HoldsLock(d) /\ Placed(d) /\ PlacedBySide(d) /\ side[d] \in Clusters
  BY DEF IInv, TypeOK
<1>2. /\ "namespace" \in Kinds /\ "account" \in Kinds /\ "scc" \in Kinds
      /\ "role" \in Kinds /\ "binding" \in Kinds /\ "secret" \in Kinds
      /\ "configmap" \in Kinds /\ "config" \in Kinds /\ "proxy" \in Kinds
  BY DEF Kinds
<1>3. \A k \in Kinds : objects[side[d]][k] # NoObject =>
        objects'[side[d]][k] = objects[side[d]][k]
  BY <1>1 DEF Grows
<1>4. HoldsLock(d)'
  BY <1>1, <1>2, <1>3 DEF HoldsLock, Call
<1>5. Placed(d)'
  BY <1>1, <1>2, <1>3 DEF Placed, Privileged
<1>6. PlacedBySide(d)'
  BY <1>1, <1>2, <1>3 DEF PlacedBySide
<1> QED
  BY <1>4, <1>5, <1>6

(* A call that goes on to the next kind knows of the one it just made.      *)
LEMMA AdvanceKeeps ==
  ASSUME IInv, minor' = minor, Grows, NEW c \in Callers, pc[c] = "create", pc'[c] = "create",
         NEW s, NEW k, s = side[c], k = at[c], side'[c] = s, at'[c] = After(s, c, k),
         at'[c] # "end", Call(c)' = Call(c), objects'[s][k] # NoObject,
         k = "namespace" => objects'[s][k].call = Call(c)
  PROVE  HoldsLock(c)' /\ Placed(c)' /\ PlacedBySide(c)'
<1>1. /\ HoldsLock(c) /\ Placed(c) /\ PlacedBySide(c)
      /\ s \in Clusters /\ k \in Kinds
  BY DEF IInv, TypeOK
<1>2. /\ "namespace" \in Kinds /\ "account" \in Kinds /\ "scc" \in Kinds
      /\ "role" \in Kinds /\ "binding" \in Kinds /\ "secret" \in Kinds
      /\ "configmap" \in Kinds /\ "config" \in Kinds /\ "proxy" \in Kinds
  BY DEF Kinds
<1>3. \A k2 \in Kinds : objects[s][k2] # NoObject => objects'[s][k2] = objects[s][k2]
  BY <1>1 DEF Grows
<1>4. /\ k = "namespace" => at'[c] = IF s = "dst" THEN "configmap" ELSE "account"
      /\ k = "configmap" => at'[c] = "service"
      /\ k = "service" => at'[c] = "proxied"
      /\ k = "proxied" => at'[c] = "account"
      /\ k = "account" => at'[c] = IF minor[s] <= 11 THEN "scc" ELSE "role"
      /\ k = "role" => at'[c] = "binding"
      /\ k \in {"scc", "binding"} => at'[c] = IF s = "dst" THEN "secret" ELSE "config"
      /\ k = "config" => at'[c] = IF HasCredentials(c) THEN "proxy" ELSE "deployment"
      /\ k \in {"secret", "proxy"} => at'[c] = "deployment"
      /\ k # "deployment"
  BY AfterKinds
<1>5. HoldsLock(c)'
  BY <1>1, <1>2, <1>3 DEF HoldsLock
<1>6. Placed(c)'
  <2>1. at'[c] \in {"scc", "role", "binding", "secret", "config", "proxy", "deployment"} =>
          objects'[s]["account"] # NoObject
    BY <1>1, <1>2, <1>3, <1>4 DEF Placed, Kinds
  <2>2. /\ at'[c] = "scc" => minor[s] <= 11
        /\ at'[c] = "role" => ~(minor[s] <= 11)
        /\ at'[c] = "binding" => ~(minor[s] <= 11) /\ objects'[s]["role"] # NoObject
    BY <1>1, <1>4 DEF Placed, Kinds
  <2>3. at'[c] \in {"secret", "config", "proxy", "deployment"} =>
          IF minor[s] <= 11 THEN objects'[s]["scc"] # NoObject
          ELSE objects'[s]["role"] # NoObject /\ objects'[s]["binding"] # NoObject
    BY <1>1, <1>2, <1>3, <1>4 DEF Placed, Privileged, Kinds
  <2> QED
    BY <2>1, <2>2, <2>3 DEF Placed, Privileged
<1>7. PlacedBySide(c)'
  <2>1. s = "dst" => /\ at'[c] \notin {"config", "proxy"}
                     /\ at'[c] \notin {"namespace", "configmap"} =>
                          objects'[s]["configmap"] # NoObject
                     /\ at'[c] = "deployment" => objects'[s]["secret"] # NoObject
    BY <1>1, <1>2, <1>3, <1>4 DEF PlacedBySide, Kinds
  <2>2. s = "src" => /\ at'[c] \notin {"configmap", "service", "proxied", "secret"}
                     /\ at'[c] = "proxy" => HasCredentials(c)
                     /\ at'[c] \in {"proxy", "deployment"} => objects'[s]["config"] # NoObject
                     /\ at'[c] = "deployment" /\ HasCredentials(c) =>
                          objects'[s]["proxy"] # NoObject
    BY <1>1, <1>2, <1>3, <1>4 DEF PlacedBySide, Kinds
  <2> QED
    BY <2>1, <2>2 DEF PlacedBySide, HasCredentials
<1> QED
  BY <1>5, <1>6, <1>7

-----------------------------------------------------------------------------
LEMMA InitInv == Init => IInv
<1> SUFFICES ASSUME Init PROVE IInv
  OBVIOUS
<1>1. TypeOK
  BY TunnelAssumption DEF Init, TypeOK, Clusters, Kinds, CertSets, CallIds
<1>2. \A s \in Clusters, k \in Kinds : objects[s][k] = NoObject
  BY DEF Init
<1>3. OneCallPerNamespace /\ ProxyLines /\ DeploymentsCanStart
  BY <1>2 DEF OneCallPerNamespace, ProxyLines, DeploymentsCanStart, Namespaced, Kinds
<1>4. HasCerts /\ \A c \in Callers : HoldsLock(c) /\ Placed(c) /\ PlacedBySide(c)
  BY DEF Init, HasCerts, Running, HoldsLock, Placed, PlacedBySide
<1> QED
  BY <1>1, <1>3, <1>4 DEF IInv

(* A step that leaves the objects and every position alone, except for      *)
(* calls that end or wait.                                                  *)
LEMMA QuietStep ==
  ASSUME IInv, TypeOK', HasCerts', minor' = minor, objects' = objects,
         \A d \in Callers : \/ pc'[d] # "create"
                            \/ at'[d] = "namespace" /\ pc'[d] = "create"
                            \/ /\ pc'[d] = pc[d] /\ side'[d] = side[d] /\ at'[d] = at[d]
                               /\ calls'[d] = calls[d]
  PROVE  IInv'
<1>1. OneCallPerNamespace' /\ ProxyLines' /\ DeploymentsCanStart'
  BY DEF IInv, OneCallPerNamespace, ProxyLines, DeploymentsCanStart, Privileged,
         ProxyLine, HasCredentials
<1>2. ASSUME NEW d \in Callers
      PROVE  HoldsLock(d)' /\ Placed(d)' /\ PlacedBySide(d)'
  <2>1. CASE pc'[d] # "create"
    BY <2>1 DEF HoldsLock, Placed, PlacedBySide
  <2>2. CASE at'[d] = "namespace" /\ pc'[d] = "create"
    BY <2>2 DEF HoldsLock, Placed, PlacedBySide
  <2>3. CASE pc'[d] = pc[d] /\ side'[d] = side[d] /\ at'[d] = at[d] /\ calls'[d] = calls[d]
    BY <2>3, CallerKeeps DEF Grows
  <2> QED
    BY <2>1, <2>2, <2>3
<1> QED
  BY <1>1, <1>2 DEF IInv

-----------------------------------------------------------------------------
(* The end of a call is typed and quiet.                                    *)
LEMMA ReturnQuiet ==
  ASSUME IInv, NEW c \in Callers, NEW r \in {"ok", "error", "crashed"}, Return(c, r)
  PROVE  /\ pc' \in [Callers -> {"idle", "create", "address"}] /\ pc'[c] = "idle"
         /\ result' \in [Callers -> {"none", "running", "ok", "error", "crashed"}]
         /\ \A d \in Callers : pc'[d] = "idle" \/ pc'[d] = pc[d]
         /\ \A d \in Callers : d # c => pc'[d] = pc[d]
         /\ side' = side /\ at' = at /\ certs' = certs /\ endpoint' = endpoint
         /\ polls' = polls /\ calls' = calls
BY DEF IInv, TypeOK, Return

LEMMA BeginKeeps ==
  ASSUME IInv, NEW c \in Callers, Begin(c)
  PROVE  IInv'
<1>1. TypeOK
  BY DEF IInv
<1>2. calls[c] + 1 \in 1..MaxCalls /\ calls[c] + 1 \in 0..MaxCalls
  BY <1>1, TunnelAssumption DEF TypeOK, Begin
<1>3. CertsOf(c) \in CertSets /\ CertsOf(c) # NoCerts
  BY <1>2, TunnelAssumption DEF CertsOf, CertSets, CallIds
<1>4. TypeOK'
  <2>1. pc' \in [Callers -> {"idle", "create", "address"}]
        /\ side' \in [Callers -> Clusters] /\ at' \in [Callers -> Kinds]
    BY <1>1 DEF TypeOK, Begin, Clusters, Kinds
  <2>2. certs' \in [Callers -> CertSets] /\ calls' \in [Callers -> 0..MaxCalls]
    BY <1>1, <1>2, <1>3 DEF TypeOK, Begin
  <2>3. endpoint' \in [Callers -> CallIds \cup {NoObject}]
        /\ polls' \in [Callers -> 0..MaxPolls]
        /\ result' \in [Callers -> {"none", "running", "ok", "error", "crashed"}]
    BY <1>1, TunnelAssumption DEF TypeOK, Begin
  <2> QED
    BY <1>1, <2>1, <2>2, <2>3 DEF TypeOK, Begin
<1>5. HasCerts'
  BY <1>1, <1>3 DEF IInv, HasCerts, Running, Begin, TypeOK
<1>6. \A d \in Callers : \/ at'[d] = "namespace" /\ pc'[d] = "create"
                         \/ /\ pc'[d] = pc[d] /\ side'[d] = side[d] /\ at'[d] = at[d]
                            /\ calls'[d] = calls[d]
  BY <1>1 DEF TypeOK, Begin
<1> QED
  BY <1>4, <1>5, <1>6, QuietStep DEF Begin

LEMMA CreateKeeps ==
  ASSUME IInv, NEW c \in Callers, Create(c)
  PROVE  IInv'
<1>1. PICK s \in Clusters : s = side[c]
  BY DEF IInv, TypeOK
<1>2. PICK k \in Kinds : k = at[c]
  BY DEF IInv, TypeOK
<1>3. TypeOK /\ pc[c] = "create" /\ minor' = minor /\ certs' = certs /\ calls' = calls
  BY DEF IInv, Create, Advance, Return
<1>4. /\ objects' \in [Clusters -> [Kinds -> Objects \cup {NoObject}]]
      /\ Grows /\ objects'[s][k] # NoObject
      /\ k = "namespace" => objects'[s][k].call = Call(c)
      /\ OneCallPerNamespace' /\ ProxyLines' /\ DeploymentsCanStart'
  <2>1. CASE Accepts(s, k) /\ Put(s, k, Object(c))
    <3>1. Object(c) # NoObject /\ Object(c).call = Call(c)
      BY <1>3, ObjectType DEF IInv, HasCerts, Running
    <3> QED
      BY <1>1, <1>2, <1>3, <2>1, <3>1, PutKeepsObjects
  <2>2. CASE Tolerated(s, k) /\ UNCHANGED objects
    <3>1. objects' = objects
      BY <2>2
    <3>2. OneCallPerNamespace' /\ ProxyLines' /\ DeploymentsCanStart'
      BY <1>3, <3>1 DEF IInv, OneCallPerNamespace, ProxyLines, DeploymentsCanStart,
                        Privileged, ProxyLine, HasCredentials
    <3> QED
      BY <1>3, <2>2, <3>1, <3>2 DEF TypeOK, Tolerated, Grows
  <2> QED
    BY <1>1, <1>2, <2>1, <2>2 DEF Create
<1>5. \/ /\ at' = [at EXCEPT ![c] = After(s, c, k)] /\ After(s, c, k) # "end"
         /\ UNCHANGED <<pc, side, endpoint, polls, result>>
      \/ /\ pc' = [pc EXCEPT ![c] = "address"]
         /\ UNCHANGED <<side, at, endpoint, polls, result>>
      \/ Return(c, "ok")
  BY <1>1, <1>2 DEF Create, Advance
<1>6. TypeOK' /\ HasCerts' /\ side' = side
      /\ \A d \in Callers : /\ d # c => pc'[d] = pc[d] /\ at'[d] = at[d]
  <2>1. CASE /\ at' = [at EXCEPT ![c] = After(s, c, k)] /\ After(s, c, k) # "end"
             /\ UNCHANGED <<pc, side, endpoint, polls, result>>
    <3>1. at' \in [Callers -> Kinds] /\ \A d \in Callers : d # c => at'[d] = at[d]
      BY <1>2, <1>3, <2>1, AfterType DEF TypeOK
    <3> QED
      BY <1>3, <1>4, <2>1, <3>1 DEF TypeOK, IInv, HasCerts, Running, Create
  <2>2. CASE /\ pc' = [pc EXCEPT ![c] = "address"]
             /\ UNCHANGED <<side, at, endpoint, polls, result>>
    <3>1. /\ pc' \in [Callers -> {"idle", "create", "address"}]
          /\ \A d \in Callers : d # c => pc'[d] = pc[d]
          /\ \A d \in Callers : pc'[d] # "idle" => pc[d] # "idle"
      BY <1>3, <2>2 DEF TypeOK
    <3> QED
      BY <1>3, <1>4, <2>2, <3>1 DEF TypeOK, IInv, HasCerts, Running, Create
  <2>3. CASE Return(c, "ok")
    <3>1. /\ pc' \in [Callers -> {"idle", "create", "address"}] /\ pc'[c] = "idle"
          /\ result' \in [Callers -> {"none", "running", "ok", "error", "crashed"}]
          /\ \A d \in Callers : d # c => pc'[d] = pc[d]
          /\ side' = side /\ at' = at /\ endpoint' = endpoint /\ polls' = polls
      BY <2>3, ReturnQuiet
    <3> QED
      BY <1>3, <1>4, <3>1 DEF TypeOK, IInv, HasCerts, Running, Create
  <2> QED
    BY <1>5, <2>1, <2>2, <2>3
<1>7. ASSUME NEW d \in Callers
      PROVE  HoldsLock(d)' /\ Placed(d)' /\ PlacedBySide(d)'
  <2>1. CASE d # c
    BY <1>3, <1>4, <1>6, <2>1, CallerKeeps
  <2>2. CASE d = c /\ pc'[c] # "create"
    BY <2>2 DEF HoldsLock, Placed, PlacedBySide
  <2>3. CASE d = c /\ pc'[c] = "create"
    <3>1. at' = [at EXCEPT ![c] = After(s, c, k)] /\ After(s, c, k) # "end"
      BY <1>3, <1>5, <2>3 DEF TypeOK, Return
    <3>2. at'[c] = After(s, c, k)
      BY <1>3, <3>1 DEF TypeOK
    <3>3. Call(c)' = Call(c)
      BY <1>3 DEF Call
    <3>4. side'[c] = s
      BY <1>1, <1>6
    <3>5. HoldsLock(c)' /\ Placed(c)' /\ PlacedBySide(c)'
      BY <1>1, <1>2, <1>3, <1>4, <2>3, <3>1, <3>2, <3>3, <3>4, AdvanceKeeps
    <3> QED
      BY <2>3, <3>5
  <2> QED
    BY <2>1, <2>2, <2>3
<1> QED
  BY <1>4, <1>6, <1>7 DEF IInv

LEMMA CreateFailsKeeps ==
  ASSUME IInv, NEW c \in Callers, CreateFails(c)
  PROVE  IInv'
<1>1. TypeOK /\ pc[c] = "create" /\ minor' = minor /\ Return(c, "error")
  BY DEF IInv, CreateFails
<1>2. /\ pc' \in [Callers -> {"idle", "create", "address"}] /\ pc'[c] = "idle"
      /\ result' \in [Callers -> {"none", "running", "ok", "error", "crashed"}]
      /\ \A d \in Callers : d # c => pc'[d] = pc[d]
      /\ side' = side /\ at' = at /\ certs' = certs /\ endpoint' = endpoint
      /\ polls' = polls /\ calls' = calls
  BY <1>1, ReturnQuiet
<1>3. /\ objects' \in [Clusters -> [Kinds -> Objects \cup {NoObject}]]
      /\ Grows /\ OneCallPerNamespace' /\ ProxyLines' /\ DeploymentsCanStart'
  <2>1. CASE Accepts(side[c], at[c]) /\ Put(side[c], at[c], Object(c))
    BY <1>1, <2>1, PutKeepsObjects
  <2>2. CASE objects' = objects
    BY <1>1, <2>2 DEF IInv, TypeOK, Grows, OneCallPerNamespace, ProxyLines,
                      DeploymentsCanStart, Privileged, ProxyLine, HasCredentials
  <2> QED
    BY <2>1, <2>2 DEF CreateFails
<1>4. TypeOK' /\ HasCerts'
  <2>1. faults' \in 0..MaxFaults
    BY <1>1, TunnelAssumption DEF CreateFails, Fault, TypeOK
  <2> QED
    BY <1>1, <1>2, <1>3, <2>1 DEF TypeOK, CreateFails, IInv, HasCerts, Running
<1>5. ASSUME NEW d \in Callers
      PROVE  HoldsLock(d)' /\ Placed(d)' /\ PlacedBySide(d)'
  <2>1. CASE d # c
    BY <1>1, <1>2, <1>3, <2>1, CallerKeeps
  <2>2. CASE d = c
    BY <1>2, <2>2 DEF HoldsLock, Placed, PlacedBySide
  <2> QED
    BY <2>1, <2>2
<1> QED
  BY <1>3, <1>4, <1>5 DEF IInv

(* The steps of a call that create nothing.                                 *)
LEMMA WaitKeeps ==
  ASSUME IInv, NEW c \in Callers,
         Refused(c) \/ Poll(c) \/ AddressFound(c) \/ AddressFails(c) \/ Crash(c)
  PROVE  IInv'
<1>1. TypeOK
  BY DEF IInv
<1>2. CASE Poll(c)
  <2>1. polls' \in [Callers -> 0..MaxPolls]
    <3>1. \A n \in 0..MaxPolls : n < MaxPolls => n + 1 \in 0..MaxPolls
      BY TunnelAssumption
    <3> QED
      BY <1>1, <1>2, <3>1 DEF TypeOK, Poll
  <2>2. /\ pc' \in [Callers -> {"idle", "create", "address"}]
        /\ result' \in [Callers -> {"none", "running", "ok", "error", "crashed"}]
        /\ \A d \in Callers : pc'[d] # "create" \/ pc'[d] = pc[d]
        /\ \A d \in Callers : pc'[d] # "idle" => pc[d] # "idle"
    BY <1>1, <1>2 DEF TypeOK, Poll
  <2>3. TypeOK' /\ HasCerts'
    BY <1>1, <1>2, <2>1, <2>2 DEF TypeOK, Poll, IInv, HasCerts, Running
  <2> QED
    BY <1>2, <2>2, <2>3, QuietStep DEF Poll
<1>3. CASE AddressFound(c)
  <2>1. objects["dst"]["service"] \in Objects
    BY <1>1, <1>3 DEF TypeOK, AddressFound, Clusters, Kinds
  <2>2. objects["dst"]["service"].call \in CallIds
    BY <2>1 DEF Objects
  <2>3. TypeOK'
    BY <1>1, <1>3, <2>2 DEF TypeOK, AddressFound, ClientCerts, Clusters, Kinds
  <2>4. HasCerts'
    BY <1>1, <1>3 DEF TypeOK, AddressFound, ClientCerts, IInv, HasCerts, Running
  <2>5. \A d \in Callers : \/ at'[d] = "namespace" /\ pc'[d] = "create"
                           \/ /\ pc'[d] = pc[d] /\ side'[d] = side[d] /\ at'[d] = at[d]
                              /\ calls'[d] = calls[d]
    BY <1>1, <1>3 DEF TypeOK, AddressFound
  <2> QED
    BY <1>3, <2>3, <2>4, <2>5, QuietStep DEF AddressFound
<1>4. CASE Refused(c) \/ AddressFails(c) \/ Crash(c)
  <2>1. \E r \in {"ok", "error", "crashed"} : Return(c, r)
    BY <1>4 DEF Refused, AddressFails, Crash
  <2>2. /\ pc' \in [Callers -> {"idle", "create", "address"}]
        /\ result' \in [Callers -> {"none", "running", "ok", "error", "crashed"}]
        /\ \A d \in Callers : pc'[d] = "idle" \/ pc'[d] = pc[d]
        /\ side' = side /\ at' = at /\ certs' = certs /\ endpoint' = endpoint
        /\ polls' = polls /\ calls' = calls
    BY <2>1, ReturnQuiet
  <2>3. faults' \in 0..MaxFaults
    BY <1>1, <1>4, TunnelAssumption DEF TypeOK, Refused, AddressFails, Crash, Fault
  <2>4. minor' = minor /\ objects' = objects /\ address' = address /\ cleanUps' = cleanUps
    BY <1>4 DEF Refused, AddressFails, Crash
  <2>5. TypeOK' /\ HasCerts'
    BY <1>1, <2>2, <2>3, <2>4 DEF TypeOK, IInv, HasCerts, Running
  <2> QED
    BY <2>2, <2>4, <2>5, QuietStep
<1> QED
  BY <1>2, <1>3, <1>4

LEMMA AddressKeeps ==
  ASSUME IInv, AssignAddress
  PROVE  IInv'
<1>1. TypeOK' /\ HasCerts'
  BY DEF IInv, TypeOK, HasCerts, Running, AssignAddress, local
<1> QED
  BY <1>1, QuietStep DEF AssignAddress, local

(* Deleting a namespace takes everything in it along, and no call runs.      *)
LEMMA CleanUpKeeps ==
  ASSUME IInv, NEW s \in Clusters, CleanUp(s)
  PROVE  IInv'
<1>1. TypeOK /\ minor' = minor
  BY DEF IInv, CleanUp
<1>2. /\ objects' \in [Clusters -> [Kinds -> Objects \cup {NoObject}]]
      /\ \A k \in Kinds : k \in Namespaced => objects'[s][k] = NoObject
      /\ \A k \in Kinds : objects'[s][k] # NoObject => objects'[s][k] = objects[s][k]
      /\ \A s2 \in Clusters : s2 # s => objects'[s2] = objects[s2]
  BY <1>1 DEF TypeOK, CleanUp
<1>3. cleanUps' \in 0..MaxCleanUps
  BY <1>1, TunnelAssumption DEF TypeOK, CleanUp
<1>4. TypeOK' /\ HasCerts'
  BY <1>1, <1>2, <1>3 DEF TypeOK, CleanUp, IInv, HasCerts, Running
<1>5. OneCallPerNamespace'
  BY <1>2 DEF IInv, OneCallPerNamespace, Namespaced
<1>6. ProxyLines'
  BY <1>2 DEF IInv, ProxyLines, ProxyLine, HasCredentials
<1>7. DeploymentsCanStart'
  BY <1>1, <1>2 DEF IInv, DeploymentsCanStart, Privileged, Namespaced, Kinds
<1>8. \A c \in Callers : pc'[c] # "create"
  BY DEF CleanUp, Running
<1> QED
  BY <1>4, <1>5, <1>6, <1>7, <1>8 DEF IInv, HoldsLock, Placed, PlacedBySide

LEMMA NextInv == IInv /\ [Next]_vars => IInv'
<1> SUFFICES ASSUME IInv, [Next]_vars PROVE IInv'
  OBVIOUS
<1>1. ASSUME NEW c \in Callers, Begin(c) PROVE IInv'
  BY <1>1, BeginKeeps
<1>2. ASSUME NEW c \in Callers, CallerStep(c) \/ Crash(c) PROVE IInv'
  BY <1>2, CreateKeeps, WaitKeeps DEF CallerStep
<1>3. ASSUME NEW c \in Callers, CreateFails(c) PROVE IInv'
  BY <1>3, CreateFailsKeeps
<1>4. ASSUME AssignAddress PROVE IInv'
  BY <1>4, AddressKeeps
<1>5. ASSUME NEW s \in Clusters, CleanUp(s) PROVE IInv'
  BY <1>5, CleanUpKeeps
<1>6. ASSUME UNCHANGED vars PROVE IInv'
  <2>1. TypeOK' /\ HasCerts'
    BY <1>6 DEF vars, local, IInv, TypeOK, HasCerts, Running
  <2> QED
    BY <1>6, <2>1, QuietStep DEF vars, local
<1> QED
  BY <1>1, <1>2, <1>3, <1>4, <1>5, <1>6 DEF Next

THEOREM Invariant == Spec => []IInv
<1>1. Init => IInv
  BY InitInv
<1>2. IInv /\ [Next]_vars => IInv'
  BY NextInv
<1> QED
  BY <1>1, <1>2, PTL DEF Spec

-----------------------------------------------------------------------------
(* The objects, the addresses and every call's memory have the values the   *)
(* declarations describe.                                                   *)
THEOREM TypeCorrect == Spec => []TypeOK
<1>1. IInv => TypeOK
  BY DEF IInv
<1> QED
  BY <1>1, Invariant, PTL

(* For any number of callers, calls, failures, crashes and clean-ups the    *)
(* objects in a cluster's namespace are from one call (createOpenVPNServer  *)
(* and createOpenVPNClient create the namespace first, tunnel_api.go:390    *)
(* and :640).                                                               *)
THEOREM NamespaceIsLock == Spec => []OneCallPerNamespace
<1>1. IInv => OneCallPerNamespace
  BY DEF IInv
<1> QED
  BY <1>1, Invariant, PTL

(* A deployment has everything its pods mount, run under and are granted,   *)
(* whatever the options and the cluster versions are (tunnel_api.go:415 and *)
(* :658).                                                                   *)
THEOREM DeploymentsComeLast == Spec => []DeploymentsCanStart
<1>1. IInv => DeploymentsCanStart
  BY DEF IInv
<1> QED
  BY <1>1, Invariant, PTL

(***************************************************************************)
(* The success of a call.  Besides IInv it rests on what the objects carry *)
(* and on what a call that is past the server knows of it.                 *)
(***************************************************************************)
(* Objects are from calls that have begun, and those of a caller's latest   *)
(* call carry the certificates the caller has in memory.                    *)
FromBegunCalls ==
  \A s \in Clusters, k \in Kinds : objects[s][k] # NoObject =>
    objects[s][k].call[2] <= calls[objects[s][k].call[1]]
MadeWithCerts ==
  \A s \in Clusters, k \in Kinds, c \in Callers :
    objects[s][k] # NoObject /\ objects[s][k].call = Call(c) => objects[s][k].certs = certs[c]

(* The client's objects lead to the server of their own call.               *)
OwnEndpoints ==
  \A k \in Kinds : objects["src"][k] # NoObject =>
    objects["src"][k].endpoint = objects["src"][k].call
LearntEndpoint(c) == pc[c] = "create" /\ side[c] = "src" => endpoint[c] = Call(c)

(* The whole server is there and from c's latest call, and so is the whole  *)
(* client.                                                                  *)
ServerStands(c) ==
  /\ \A k \in {"namespace", "service", "secret", "deployment"} : objects["dst"][k] # NoObject
  /\ objects["dst"]["namespace"].call = Call(c)
ClientStands(c) ==
  /\ \A k \in {"namespace", "config", "deployment"} : objects["src"][k] # NoObject
  /\ objects["src"]["namespace"].call = Call(c)

(* What a call, and a call that has succeeded, relies on of the server.     *)
ServerBuilt(c) ==
  /\ pc[c] = "create" /\ side[c] = "dst" /\ at[c] \notin {"namespace", "configmap", "service"} =>
       objects["dst"]["service"] # NoObject
  /\ pc[c] = "address" \/ (pc[c] = "create" /\ side[c] = "src") => ServerStands(c)
  /\ result[c] = "ok" => ServerStands(c) /\ ClientStands(c)

TInv ==
  /\ FromBegunCalls /\ MadeWithCerts /\ OwnEndpoints
  /\ \A c \in Callers : LearntEndpoint(c) /\ ServerBuilt(c)

(* What a new object carries.                                               *)
LEMMA ObjectCarries ==
  ASSUME IInv, NEW c \in Callers, Running(c)
  PROVE  /\ Object(c) \in Objects /\ Object(c) # NoObject
         /\ Object(c).call = Call(c) /\ Object(c).call[1] = c /\ Object(c).call[2] = calls[c]
         /\ Object(c).certs = certs[c] /\ Object(c).endpoint = endpoint[c]
<1>1. Object(c).certs = certs[c] /\ Object(c).endpoint = endpoint[c]
  BY DEF Object
<1>2. Call(c)[2] = calls[c]
  BY DEF Call
<1> QED
  BY <1>1, <1>2, ObjectType DEF IInv, HasCerts

(* Two callers never make calls of one name.                                *)
LEMMA CallsDiffer ==
  ASSUME NEW c \in Callers, NEW d \in Callers, Call(c) = Call(d)
  PROVE  c = d
BY DEF Call

(* The objects keep carrying what they should when one more is created, ... *)
LEMMA PutCarries ==
  ASSUME IInv, TInv, NEW c \in Callers, pc[c] = "create",
         Accepts(side[c], at[c]), Put(side[c], at[c], Object(c)),
         UNCHANGED <<calls, certs>>
  PROVE  /\ FromBegunCalls' /\ MadeWithCerts' /\ OwnEndpoints' /\ Grows
         /\ objects'[side[c]][at[c]] # NoObject
         /\ objects'[side[c]][at[c]].call = Call(c)
<1> DEFINE s == side[c]
           k == at[c]
           o == Object(c)
<1>1. s \in Clusters /\ k \in Kinds /\ TypeOK /\ calls[c] \in 0..MaxCalls
  BY DEF IInv, TypeOK
<1>2. /\ o \in Objects /\ o # NoObject
      /\ o.call = Call(c) /\ o.call[1] = c /\ o.call[2] = calls[c]
      /\ o.certs = certs[c] /\ o.endpoint = endpoint[c]
  BY ObjectCarries DEF Running
<1> HIDE DEF s, k, o
<1>3. /\ objects'[s][k] = o
      /\ \A s2 \in Clusters, k2 \in Kinds :
           s2 # s \/ k2 # k => objects'[s2][k2] = objects[s2][k2]
      /\ Grows
  BY <1>1, <1>2, PutFills DEF s, k, o
<1>4. FromBegunCalls'
  <2> SUFFICES ASSUME NEW s2 \in Clusters, NEW k2 \in Kinds, objects'[s2][k2] # NoObject
               PROVE  objects'[s2][k2].call[2] <= calls'[objects'[s2][k2].call[1]]
    BY DEF FromBegunCalls
  <2>1. CASE s2 = s /\ k2 = k
    BY <1>1, <1>2, <1>3, <2>1, TunnelAssumption
  <2>2. CASE s2 # s \/ k2 # k
    BY <1>3, <2>2 DEF TInv, FromBegunCalls
  <2> QED
    BY <2>1, <2>2
<1>5. MadeWithCerts'
  <2> SUFFICES ASSUME NEW s2 \in Clusters, NEW k2 \in Kinds, NEW d \in Callers,
                      objects'[s2][k2] # NoObject, objects'[s2][k2].call = Call(d)
               PROVE  objects'[s2][k2].certs = certs[d]
    BY DEF MadeWithCerts, Call
  <2>1. CASE s2 = s /\ k2 = k
    <3>1. d = c
      BY <1>2, <1>3, <2>1, CallsDiffer
    <3> QED
      BY <1>2, <1>3, <2>1, <3>1
  <2>2. CASE s2 # s \/ k2 # k
    BY <1>3, <2>2 DEF TInv, MadeWithCerts
  <2> QED
    BY <2>1, <2>2
<1>6. OwnEndpoints'
  <2> SUFFICES ASSUME NEW k2 \in Kinds, objects'["src"][k2] # NoObject
               PROVE  objects'["src"][k2].endpoint = objects'["src"][k2].call
    BY DEF OwnEndpoints
  <2>0. "src" \in Clusters
    BY DEF Clusters
  <2>1. CASE "src" = s /\ k2 = k
    <3>1. endpoint[c] = Call(c)
      BY <2>1 DEF TInv, LearntEndpoint, s
    <3> QED
      BY <1>2, <1>3, <2>1, <3>1
  <2>2. CASE "src" # s \/ k2 # k
    BY <1>3, <2>0, <2>2 DEF TInv, OwnEndpoints
  <2> QED
    BY <2>1, <2>2
<1> QED
  BY <1>2, <1>3, <1>4, <1>5, <1>6 DEF s, k

(* ... when nothing is created, ...                                         *)
LEMMA SameCarry ==
  ASSUME TInv, UNCHANGED <<objects, calls, certs>>
  PROVE  FromBegunCalls' /\ MadeWithCerts' /\ OwnEndpoints' /\ Grows
BY DEF TInv, FromBegunCalls, MadeWithCerts, OwnEndpoints, Grows, Call

(* ... and when a caller makes its next call, which no object is from.      *)
LEMMA BeginCarries ==
  ASSUME IInv, TInv, NEW c \in Callers, Begin(c)
  PROVE  FromBegunCalls' /\ MadeWithCerts' /\ OwnEndpoints' /\ Grows
<1>1. /\ objects' = objects /\ calls \in [Callers -> 0..MaxCalls] /\ MaxCalls \in Nat
      /\ calls'[c] = calls[c] + 1
      /\ \A d \in Callers \ {c} : calls'[d] = calls[d] /\ certs'[d] = certs[d]
  BY TunnelAssumption DEF Begin, IInv, TypeOK
<1>2. ASSUME NEW s \in Clusters, NEW k \in Kinds, objects[s][k] # NoObject
      PROVE  /\ objects[s][k].call[1] \in Callers /\ objects[s][k].call[2] \in 0..MaxCalls
             /\ objects[s][k].call[2] <= calls[objects[s][k].call[1]]
             /\ objects[s][k].call = <<objects[s][k].call[1], objects[s][k].call[2]>>
  <2>1. objects[s][k] \in Objects
    BY <1>2 DEF IInv, TypeOK
  <2>2. objects[s][k].call \in CallIds
    BY <2>1 DEF Objects
  <2> QED
    BY <1>2, <2>2 DEF CallIds, TInv, FromBegunCalls
<1>3. FromBegunCalls'
  <2> SUFFICES ASSUME NEW s \in Clusters, NEW k \in Kinds, objects[s][k] # NoObject
               PROVE  objects[s][k].call[2] <= calls'[objects[s][k].call[1]]
    BY <1>1 DEF FromBegunCalls
  <2> DEFINE d == objects[s][k].call[1]
             n == objects[s][k].call[2]
  <2>1. d \in Callers /\ n \in 0..MaxCalls /\ n <= calls[d]
    BY <1>2
  <2> HIDE DEF d, n
  <2>2. n <= calls'[d]
    BY <1>1, <2>1
  <2> QED
    BY <2>2 DEF d, n
<1>4. MadeWithCerts'
  <2> SUFFICES ASSUME NEW s \in Clusters, NEW k \in Kinds, NEW d \in Callers,
                      objects[s][k] # NoObject, objects[s][k].call = Call(d)'
               PROVE  objects[s][k].certs = certs'[d]
    BY <1>1 DEF MadeWithCerts
  <2>1. objects[s][k].call[1] = d /\ objects[s][k].call[2] = calls'[d]
    BY DEF Call
  <2>2. d # c
    BY <1>1, <1>2, <2>1
  <2>3. Call(d)' = Call(d)
    BY <1>1, <2>2 DEF Call
  <2> QED
    BY <1>1, <2>2, <2>3 DEF TInv, MadeWithCerts
<1>5. OwnEndpoints'
  BY <1>1 DEF TInv, OwnEndpoints
<1> QED
  BY <1>1, <1>3, <1>4, <1>5 DEF Grows

(* What stands keeps standing for a call that does nothing or ends without  *)
(* success.                                                                 *)
LEMMA StandsKept ==
  ASSUME Grows, NEW c \in Callers, calls'[c] = calls[c]
  PROVE  (ServerStands(c) => ServerStands(c)') /\ (ClientStands(c) => ClientStands(c)')
<1>1. /\ "dst" \in Clusters /\ "src" \in Clusters
      /\ {"namespace", "service", "secret", "config", "deployment"} \subseteq Kinds
  BY DEF Clusters, Kinds
<1>2. Call(c)' = Call(c)
  BY DEF Call
<1>3. ServerStands(c) => ServerStands(c)'
  BY <1>1, <1>2 DEF Grows, ServerStands
<1>4. ClientStands(c) => ClientStands(c)'
  BY <1>1, <1>2 DEF Grows, ClientStands
<1> QED
  BY <1>3, <1>4

LEMMA BuiltKept ==
  ASSUME TInv, Grows, NEW c \in Callers, calls'[c] = calls[c],
         \/ /\ pc'[c] = pc[c] /\ side'[c] = side[c] /\ at'[c] = at[c]
            /\ endpoint'[c] = endpoint[c] /\ result'[c] = result[c]
         \/ pc'[c] = "idle" /\ result'[c] # "ok"
  PROVE  LearntEndpoint(c)' /\ ServerBuilt(c)'
<1>1. LearntEndpoint(c) /\ ServerBuilt(c)
  BY DEF TInv
<1>2. CASE pc'[c] = "idle" /\ result'[c] # "ok"
  BY <1>2 DEF LearntEndpoint, ServerBuilt
<1>3. CASE /\ pc'[c] = pc[c] /\ side'[c] = side[c] /\ at'[c] = at[c]
           /\ endpoint'[c] = endpoint[c] /\ result'[c] = result[c]
  <2>1. "dst" \in Clusters /\ "service" \in Kinds
    BY DEF Clusters, Kinds
  <2>2. LearntEndpoint(c)'
    BY <1>1, <1>3 DEF LearntEndpoint, Call
  <2>3. objects["dst"]["service"] # NoObject => objects'["dst"]["service"] # NoObject
    BY <2>1 DEF Grows
  <2>4. ServerBuilt(c)'
    BY <1>1, <1>3, <2>3, StandsKept DEF ServerBuilt
  <2> QED
    BY <2>2, <2>4
<1> QED
  BY <1>2, <1>3

-----------------------------------------------------------------------------
LEMMA InitTInv == Init => TInv
<1> SUFFICES ASSUME Init PROVE TInv
  OBVIOUS
<1>1. \A s \in Clusters, k \in Kinds : objects[s][k] = NoObject
  BY DEF Init
<1>2. FromBegunCalls /\ MadeWithCerts /\ OwnEndpoints
  BY <1>1 DEF FromBegunCalls, MadeWithCerts, OwnEndpoints, Clusters
<1>3. \A c \in Callers : LearntEndpoint(c) /\ ServerBuilt(c)
  BY DEF Init, LearntEndpoint, ServerBuilt
<1> QED
  BY <1>2, <1>3 DEF TInv

LEMMA BeginTInv ==
  ASSUME IInv, TInv, NEW c \in Callers, Begin(c)
  PROVE  TInv'
<1>1. FromBegunCalls' /\ MadeWithCerts' /\ OwnEndpoints' /\ Grows
  BY BeginCarries
<1>2. LearntEndpoint(c)' /\ ServerBuilt(c)'
  BY DEF IInv, TypeOK, Begin, LearntEndpoint, ServerBuilt
<1>3. ASSUME NEW d \in Callers \ {c} PROVE LearntEndpoint(d)' /\ ServerBuilt(d)'
  <2>1. /\ pc'[d] = pc[d] /\ side'[d] = side[d] /\ at'[d] = at[d] /\ calls'[d] = calls[d]
        /\ endpoint'[d] = endpoint[d] /\ result'[d] = result[d]
    BY DEF IInv, TypeOK, Begin
  <2> QED
    BY <1>1, <2>1, BuiltKept
<1> QED
  BY <1>1, <1>2, <1>3 DEF TInv

(* The last object of the server completes it, and the last one of the      *)
(* client the tunnel.                                                       *)
LEMMA CreateTInv ==
  ASSUME IInv, TInv, NEW c \in Callers, Create(c)
  PROVE  TInv'
<1>1. /\ pc[c] = "create" /\ certs' = certs /\ calls' = calls /\ endpoint' = endpoint
      /\ side' = side /\ side[c] \in Clusters /\ at[c] \in Kinds
  BY DEF IInv, TypeOK, Create, Advance, Return
<1>2. /\ FromBegunCalls' /\ MadeWithCerts' /\ OwnEndpoints' /\ Grows
      /\ objects'[side[c]][at[c]] # NoObject
  <2>1. CASE Accepts(side[c], at[c]) /\ Put(side[c], at[c], Object(c))
    BY <1>1, <2>1, PutCarries
  <2>2. CASE Tolerated(side[c], at[c]) /\ UNCHANGED objects
    BY <1>1, <2>2, SameCarry DEF Tolerated
  <2> QED
    BY <2>1, <2>2 DEF Create
<1>3. ASSUME NEW d \in Callers \ {c} PROVE LearntEndpoint(d)' /\ ServerBuilt(d)'
  <2>1. pc'[d] = pc[d] /\ at'[d] = at[d] /\ result'[d] = result[d]
    BY DEF IInv, TypeOK, Create, Advance, Return
  <2> QED
    BY <1>1, <1>2, <2>1, BuiltKept
<1>4. LearntEndpoint(c) /\ ServerBuilt(c) /\ HoldsLock(c) /\ PlacedBySide(c)
  BY DEF IInv, TInv
<1>5. /\ Call(c)' = Call(c)
      /\ "dst" \in Clusters /\ "src" \in Clusters
      /\ {"namespace", "service", "secret", "config", "deployment"} \subseteq Kinds
  BY <1>1 DEF Call, Clusters, Kinds
<1>6. at[c] = "deployment" /\ side[c] = "dst" => ServerStands(c)'
  BY <1>1, <1>2, <1>4, <1>5 DEF ServerBuilt, HoldsLock, PlacedBySide, Grows, ServerStands
<1>7. at[c] = "deployment" /\ side[c] = "src" => ServerStands(c)' /\ ClientStands(c)'
  <2> SUFFICES ASSUME at[c] = "deployment", side[c] = "src"
               PROVE  ServerStands(c)' /\ ClientStands(c)'
    OBVIOUS
  <2>1. ServerStands(c)'
    BY <1>1, <1>2, <1>4, StandsKept DEF ServerBuilt
  <2>2. ClientStands(c)'
    BY <1>1, <1>2, <1>4, <1>5 DEF HoldsLock, PlacedBySide, Grows, ClientStands
  <2> QED
    BY <2>1, <2>2
<1>8. After(side[c], c, at[c]) = "end" => at[c] = "deployment"
  BY <1>1, AfterKinds DEF Kinds
<1>9. LearntEndpoint(c)'
  <2>1. pc'[c] = "create" => pc[c] = "create"
    BY <1>1
  <2> QED
    BY <1>1, <1>4, <1>5 DEF LearntEndpoint
<1>10. ServerBuilt(c)'
  <2>1. CASE /\ at' = [at EXCEPT ![c] = After(side[c], c, at[c])]
             /\ After(side[c], c, at[c]) # "end"
             /\ UNCHANGED <<pc, side, certs, endpoint, polls, calls, result>>
    <3>1. at'[c] = After(side[c], c, at[c]) /\ pc'[c] = "create" /\ result'[c] = result[c]
      BY <1>1, <2>1 DEF IInv, TypeOK
    <3>2. side[c] = "dst" /\ at'[c] \notin {"namespace", "configmap", "service"} =>
            objects'["dst"]["service"] # NoObject
      <4> SUFFICES ASSUME side[c] = "dst", at'[c] \notin {"namespace", "configmap", "service"}
                   PROVE  objects'["dst"]["service"] # NoObject
        OBVIOUS
      <4>1. at[c] = "service" \/ at[c] \notin {"namespace", "configmap", "service"}
        BY <3>1, AfterKinds
      <4> QED
        BY <1>1, <1>2, <1>4, <1>5, <4>1 DEF ServerBuilt, Grows
    <3>3. side[c] = "src" => ServerStands(c)'
      BY <1>1, <1>2, <1>4, StandsKept DEF ServerBuilt
    <3>4. result[c] = "ok" => ServerStands(c)' /\ ClientStands(c)'
      BY <1>1, <1>2, <1>4, StandsKept DEF ServerBuilt
    <3> QED
      BY <1>1, <3>1, <3>2, <3>3, <3>4 DEF ServerBuilt
  <2>2. CASE /\ After(side[c], c, at[c]) = "end" /\ side[c] = "dst"
             /\ pc' = [pc EXCEPT ![c] = "address"]
             /\ UNCHANGED <<side, at, certs, endpoint, polls, calls, result>>
    <3>1. pc'[c] = "address" /\ result'[c] = result[c]
      BY <2>2 DEF IInv, TypeOK
    <3>2. result[c] = "ok" => ServerStands(c)' /\ ClientStands(c)'
      BY <1>1, <1>2, <1>4, StandsKept DEF ServerBuilt
    <3> QED
      BY <1>6, <1>8, <2>2, <3>1, <3>2 DEF ServerBuilt
  <2>3. CASE After(side[c], c, at[c]) = "end" /\ side[c] = "src" /\ Return(c, "ok")
    <3>1. pc'[c] = "idle"
      BY <2>3 DEF IInv, TypeOK, Return
    <3> QED
      BY <1>7, <1>8, <2>3, <3>1 DEF ServerBuilt
  <2> QED
    BY <2>1, <2>2, <2>3 DEF Create, Advance
<1> QED
  BY <1>2, <1>3, <1>9, <1>10 DEF TInv
(* A call that ends without success changes nothing it or another has built, *)
(* also when its last object was created and only the answer was lost.       *)
LEMMA EndsTInv ==
  ASSUME IInv, TInv, NEW c \in Callers, Running(c), NEW r, r # "ok", Return(c, r),
         \/ UNCHANGED objects
         \/ /\ pc[c] = "create" /\ Accepts(side[c], at[c])
            /\ Put(side[c], at[c], Object(c))
  PROVE  TInv'
<1>1. UNCHANGED <<side, at, certs, endpoint, calls>>
  BY DEF Return
<1>2. FromBegunCalls' /\ MadeWithCerts' /\ OwnEndpoints' /\ Grows
  <2>1. CASE UNCHANGED objects
    BY <1>1, <2>1, SameCarry
  <2>2. CASE /\ pc[c] = "create" /\ Accepts(side[c], at[c])
             /\ Put(side[c], at[c], Object(c))
    BY <1>1, <2>2, PutCarries
  <2> QED
    BY <2>1, <2>2
<1>3. ASSUME NEW d \in Callers PROVE LearntEndpoint(d)' /\ ServerBuilt(d)'
  <2>1. \/ pc'[d] = pc[d] /\ result'[d] = result[d]
        \/ pc'[d] = "idle" /\ result'[d] # "ok"
    BY DEF IInv, TypeOK, Return
  <2> QED
    BY <1>1, <1>2, <2>1, BuiltKept
<1> QED
  BY <1>2, <1>3 DEF TInv

(* Waiting for the address builds nothing, ...                              *)
LEMMA PollTInv ==
  ASSUME IInv, TInv, NEW c \in Callers, Poll(c)
  PROVE  TInv'
<1>1. UNCHANGED <<objects, side, at, certs, endpoint, calls>>
  BY DEF Poll
<1>2. FromBegunCalls' /\ MadeWithCerts' /\ OwnEndpoints' /\ Grows
  BY <1>1, SameCarry
<1>3. ASSUME NEW d \in Callers PROVE LearntEndpoint(d)' /\ ServerBuilt(d)'
  <2>1. \/ pc'[d] = pc[d] /\ result'[d] = result[d]
        \/ pc'[d] = "idle" /\ result'[d] # "ok"
    BY DEF IInv, TypeOK, Poll
  <2> QED
    BY <1>1, <1>2, <2>1, BuiltKept
<1> QED
  BY <1>2, <1>3 DEF TInv

(* ... and its answer is the service this call has made: the namespace is   *)
(* its own.                                                                 *)
LEMMA AddressFoundTInv ==
  ASSUME IInv, TInv, NEW c \in Callers, AddressFound(c)
  PROVE  TInv'
<1>1. /\ UNCHANGED <<objects, calls, result>>
      /\ pc'[c] = "create" /\ side'[c] = "src" /\ at'[c] = "namespace"
      /\ endpoint'[c] = objects["dst"]["service"].call
  BY DEF IInv, TypeOK, AddressFound
<1>2. certs' = certs
  BY DEF IInv, TypeOK, AddressFound, ClientCerts
<1>3. FromBegunCalls' /\ MadeWithCerts' /\ OwnEndpoints' /\ Grows
  BY <1>1, <1>2, SameCarry
<1>4. ServerBuilt(c) /\ ServerStands(c)
  BY DEF TInv, ServerBuilt, AddressFound
<1>5. ServerStands(c)' /\ (ClientStands(c) => ClientStands(c)')
  BY <1>1, <1>3, <1>4, StandsKept
<1>6. endpoint'[c] = Call(c)
  <2>1. objects["dst"]["service"].call = objects["dst"]["namespace"].call
    BY <1>4 DEF IInv, OneCallPerNamespace, ServerStands, Clusters, Namespaced, Kinds
  <2> QED
    BY <1>1, <1>4, <2>1 DEF ServerStands
<1>7. LearntEndpoint(c)' /\ ServerBuilt(c)'
  <2>1. LearntEndpoint(c)'
    BY <1>1, <1>6 DEF LearntEndpoint, Call
  <2>2. ServerBuilt(c)'
    BY <1>1, <1>4, <1>5 DEF ServerBuilt
  <2> QED
    BY <2>1, <2>2
<1>8. ASSUME NEW d \in Callers \ {c} PROVE LearntEndpoint(d)' /\ ServerBuilt(d)'
  <2>1. /\ pc'[d] = pc[d] /\ side'[d] = side[d] /\ at'[d] = at[d]
        /\ endpoint'[d] = endpoint[d]
    BY DEF IInv, TypeOK, AddressFound
  <2> QED
    BY <1>1, <1>3, <2>1, BuiltKept
<1> QED
  BY <1>3, <1>7, <1>8 DEF TInv

(* The operator deletes a namespace when no call runs: nobody counts on     *)
(* what goes, and what stays is as it was.                                  *)
LEMMA CleanUpTInv ==
  ASSUME IInv, TInv, NEW s \in Clusters, CleanUp(s)
  PROVE  TInv'
<1>1. UNCHANGED <<pc, calls, certs>> /\ \A c \in Callers : pc[c] = "idle"
  BY DEF CleanUp, Running
<1>2. \A c \in Callers : result'[c] = "none"
  BY DEF CleanUp
<1>3. \A s2 \in Clusters, k \in Kinds :
        objects'[s2][k] = objects[s2][k] \/ objects'[s2][k] = NoObject
  BY DEF IInv, TypeOK, CleanUp
<1>4. FromBegunCalls' /\ MadeWithCerts' /\ OwnEndpoints'
  <2>1. FromBegunCalls'
    BY <1>1, <1>3 DEF TInv, FromBegunCalls
  <2>2. MadeWithCerts'
    BY <1>1, <1>3 DEF TInv, MadeWithCerts, Call
  <2>3. OwnEndpoints'
    BY <1>3 DEF TInv, OwnEndpoints, Clusters
  <2> QED
    BY <2>1, <2>2, <2>3
<1>5. \A c \in Callers : LearntEndpoint(c)' /\ ServerBuilt(c)'
  BY <1>1, <1>2 DEF LearntEndpoint, ServerBuilt
<1> QED
  BY <1>4, <1>5 DEF TInv

LEMMA NextTInv == IInv /\ TInv /\ [Next]_vars => TInv'
<1> SUFFICES ASSUME IInv, TInv, [Next]_vars PROVE TInv'
  OBVIOUS
<1>1. ASSUME NEW c \in Callers, Begin(c) PROVE TInv'
  BY <1>1, BeginTInv
<1>2. ASSUME NEW c \in Callers, Create(c) PROVE TInv'
  BY <1>2, CreateTInv
<1>3. ASSUME NEW c \in Callers, Refused(c) PROVE TInv'
  BY <1>3, EndsTInv DEF Refused, Running
<1>4. ASSUME NEW c \in Callers, Poll(c) PROVE TInv'
  BY <1>4, PollTInv
<1>5. ASSUME NEW c \in Callers, AddressFound(c) PROVE TInv'
  BY <1>5, AddressFoundTInv
<1>6. ASSUME NEW c \in Callers, AddressFails(c) PROVE TInv'
  BY <1>6, EndsTInv DEF AddressFails, Running
<1>7. ASSUME NEW c \in Callers, CreateFails(c) PROVE TInv'
  BY <1>7, EndsTInv DEF CreateFails, Running
<1>8. ASSUME NEW c \in Callers, Crash(c) PROVE TInv'
  BY <1>8, EndsTInv DEF Crash
<1>9. CASE AssignAddress \/ UNCHANGED vars
  <2>1. UNCHANGED <<objects, pc, side, at, certs, endpoint, calls, result>>
    BY <1>9 DEF AssignAddress, vars, local
  <2>2. FromBegunCalls' /\ MadeWithCerts' /\ OwnEndpoints' /\ Grows
    BY <2>1, SameCarry
  <2>3. \A c \in Callers : LearntEndpoint(c)' /\ ServerBuilt(c)'
    BY <2>1, <2>2, BuiltKept
  <2> QED
    BY <2>2, <2>3 DEF TInv
<1>10. ASSUME NEW s \in Clusters, CleanUp(s) PROVE TInv'
  BY <1>10, CleanUpTInv
<1> QED
  BY <1>1, <1>2, <1>3, <1>4, <1>5, <1>6, <1>7, <1>8, <1>9, <1>10 DEF Next, CallerStep

(* A call of Openvpn that returns no error leaves a tunnel: both            *)
(* deployments, a client that trusts the server's certificate and its       *)
(* address, that of the service the same call made, whoever else calls,     *)
(* fails or dies meanwhile and until a namespace is deleted                 *)
(* (tunnel_api.go:390 and :640).                                            *)
THEOREM SuccessBuildsTunnel == Spec => []SuccessIsTunnel
<1>1. IInv /\ TInv => SuccessIsTunnel
  <2> SUFFICES ASSUME IInv, TInv, NEW c \in Callers, result[c] = "ok"
               PROVE  /\ \A s \in Clusters : objects[s]["deployment"] # NoObject
                      /\ objects["src"]["config"].certs = objects["dst"]["secret"].certs
                      /\ objects["src"]["config"].endpoint = objects["dst"]["service"].call
                      /\ objects["src"]["config"].call = Call(c)
    BY DEF SuccessIsTunnel
  <2>0. /\ "dst" \in Clusters /\ "src" \in Clusters
        /\ {"config", "secret", "service"} \subseteq Namespaced
        /\ {"config", "secret", "service"} \subseteq Kinds
    BY DEF Clusters, Namespaced, Kinds
  <2>1. ServerStands(c) /\ ClientStands(c)
    BY DEF TInv, ServerBuilt
  <2>2. /\ objects["dst"]["secret"].call = Call(c)
        /\ objects["dst"]["service"].call = Call(c)
        /\ objects["src"]["config"].call = Call(c)
    BY <2>0, <2>1 DEF IInv, OneCallPerNamespace, ServerStands, ClientStands
  <2>3. /\ objects["dst"]["secret"].certs = certs[c]
        /\ objects["src"]["config"].certs = certs[c]
    BY <2>0, <2>1, <2>2 DEF TInv, MadeWithCerts, ServerStands, ClientStands
  <2>4. objects["src"]["config"].endpoint = Call(c)
    BY <2>0, <2>1, <2>2 DEF TInv, OwnEndpoints, ClientStands
  <2> QED
    BY <2>1, <2>2, <2>3, <2>4 DEF ServerStands, ClientStands, Clusters
<1>2. Spec => []TInv
  BY InitTInv, NextTInv, Invariant, PTL DEF Spec
<1> QED
  BY <1>1, <1>2, Invariant, PTL
=============================================================================
