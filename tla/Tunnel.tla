------------------------------- MODULE Tunnel -------------------------------
(***************************************************************************)
(* The VPN between two clusters (connect/tunnel_api/tunnel_api.go).  A     *)
(* call of Openvpn creates the server's objects on the destination, waits  *)
(* for the address of its load balancer and creates the client's objects   *)
(* on the source, each with one Create that fails when the object exists.  *)
(* Several calls may run, a Create may fail, or succeed and lose its       *)
(* answer, and a call may die; between calls the operator may delete a     *)
(* namespace to try again.                                                 *)
(***************************************************************************)
EXTENDS Integers

CONSTANTS
  Callers,       \* those who call Openvpn with the same namespace in the options
  Given,         \* per caller, the certificates in its options, or NoCerts
  Proxies,       \* per caller, which proxy options are set: host, user, pass
  NoCerts, NoObject,
  MaxCalls,      \* calls of one caller
  MaxPolls,      \* reads of the service before the call gives up (40 in the code)
  MaxFaults,     \* failing requests and crashes
  MaxCleanUps    \* namespaces deleted by the operator

ASSUME TunnelAssumption ==
  /\ MaxCalls \in Nat /\ MaxPolls \in Nat \ {0} /\ MaxFaults \in Nat /\ MaxCleanUps \in Nat
  /\ NoCerts \notin Callers \X (1..MaxCalls)

VARIABLES
  minor,      \* per cluster, the minor version its API server reports
  objects,    \* per cluster and kind, the object of that kind, or NoObject
  address,    \* the load balancer entry of the openvpn service
  pc,         \* per caller "idle", "create" or "address"
  side,       \* per caller the cluster it is creating on
  at,         \* per caller the kind it creates next
  certs,      \* per caller the certificates of the running call
  endpoint,   \* per caller the address read for the client's configuration
  polls,      \* per caller the reads of the service so far
  calls,      \* per caller how many calls it has made
  result,     \* per caller how its last call ended
  faults, cleanUps

local == <<pc, side, at, certs, endpoint, polls, calls, result>>
vars == <<minor, objects, address, local, faults, cleanUps>>

Clusters == {"dst", "src"}
Kinds == {"namespace", "configmap", "service", "proxied", "account", "scc", "role",
          "binding", "secret", "config", "proxy", "deployment"}
\* The SecurityContextConstraints are cluster scoped: they outlive the namespace.
Namespaced == Kinds \ {"scc"}

Call(c) == <<c, calls[c]>>
Running(c) == pc[c] # "idle"

HasCredentials(c) == Proxies[c].user /\ Proxies[c].pass

\* The order of creation on a cluster.
AfterRBACLate(s) == "deployment"
AfterRBAC(s) == IF s = "dst" THEN "secret" ELSE "config"
After(s, c, k) ==
  CASE k = "namespace"                -> IF s = "dst" THEN "configmap" ELSE "account"
    [] k = "configmap"                -> "service"
    [] k = "service"                  -> "proxied"
    [] k = "proxied"                  -> "account"
    [] k = "account"                  -> IF minor[s] <= 11 THEN "scc" ELSE "role"
    [] k = "role"                     -> "binding"
    [] k \in {"scc", "binding"}       -> AfterRBAC(s)
    [] k = "config"                   -> IF HasCredentials(c) THEN "proxy" ELSE "deployment"
    [] k \in {"secret", "proxy"}      -> "deployment"
    [] k = "deployment"               -> "end"

\* The proxy line of the client's configuration.
ProxyLine(c) == CASE ~Proxies[c].host   -> "none"
                  [] HasCredentials(c)  -> "basic"
                  [] OTHER              -> "plain"

\* What the pods of a deployment run under and mount: the server its secret and
\* its configuration, the client its configuration and the proxy's credentials.
ServerNeeds == {"account", "secret", "configmap"}
ClientNeeds(c) == {"account", "config"} \cup (IF HasCredentials(c) THEN {"proxy"} ELSE {})
Needs(s, c) == IF s = "dst" THEN ServerNeeds ELSE ClientNeeds(c)

\* What an object carries: the call it is from; in a secret or a configuration
\* the certificates, the server's address and the proxy line; in a deployment
\* what its pods need.
Object(c) == [call |-> Call(c), certs |-> certs[c], endpoint |-> endpoint[c],
              proxy |-> ProxyLine(c), needs |-> Needs(side[c], c)]

Init ==
  /\ minor \in [Clusters -> {11, 12}]
  /\ objects = [s \in Clusters |-> [k \in Kinds |-> NoObject]]
  /\ address = "none"
  /\ pc = [c \in Callers |-> "idle"]
  /\ side = [c \in Callers |-> "dst"]
  /\ at = [c \in Callers |-> "namespace"]
  /\ certs = [c \in Callers |-> NoCerts]
  /\ endpoint = [c \in Callers |-> NoObject]
  /\ polls = [c \in Callers |-> 0]
  /\ calls = [c \in Callers |-> 0]
  /\ result = [c \in Callers |-> "none"]
  /\ faults = 0 /\ cleanUps = 0

Fault == faults < MaxFaults /\ faults' = faults + 1

\* Certificates are generated unless the options bring them; the tunnel is
\* passed by value, so a later call of the same caller generates others.
CertsAsGiven(c) == Given[c]
CertsOf(c) == IF Given[c] = NoCerts THEN <<c, calls[c] + 1>> ELSE Given[c]

Begin(c) ==
  /\ pc[c] = "idle" /\ calls[c] < MaxCalls
  /\ pc' = [pc EXCEPT ![c] = "create"]
  /\ side' = [side EXCEPT ![c] = "dst"]
  /\ at' = [at EXCEPT ![c] = "namespace"]
  /\ certs' = [certs EXCEPT ![c] = CertsOf(c)]
  /\ endpoint' = [endpoint EXCEPT ![c] = NoObject]
  /\ polls' = [polls EXCEPT ![c] = 0]
  /\ calls' = [calls EXCEPT ![c] = @ + 1]
  /\ result' = [result EXCEPT ![c] = "running"]
  /\ UNCHANGED <<minor, objects, address, faults, cleanUps>>

Return(c, r) ==
  /\ pc' = [pc EXCEPT ![c] = "idle"]
  /\ result' = [result EXCEPT ![c] = r]
  /\ UNCHANGED <<side, at, certs, endpoint, polls, calls>>

\* A cluster takes a new object when it has none of that name and, for all but
\* the namespace itself and what is cluster scoped, the namespace is there.
Accepts(s, k) ==
  /\ objects[s][k] = NoObject
  /\ k \in Namespaced \ {"namespace"} => objects[s]["namespace"] # NoObject

Put(s, k, o) == objects' = [objects EXCEPT ![s] = [@ EXCEPT ![k] = o]]

\* An existing object is an error, except for the SecurityContextConstraints.
TolerateAll(s, k) == objects[s][k] # NoObject
Tolerated(s, k) == k = "scc" /\ objects[s][k] # NoObject

\* A successful Create takes the call to the next one, from the server to the
\* wait for its address, and from the last object of the client to the end.
Advance(c) ==
  LET next == After(side[c], c, at[c])
  IN  \/ /\ next # "end"
         /\ at' = [at EXCEPT ![c] = next]
         /\ UNCHANGED <<pc, side, certs, endpoint, polls, calls, result>>
      \/ /\ next = "end" /\ side[c] = "dst"
         /\ pc' = [pc EXCEPT ![c] = "address"]
         /\ UNCHANGED <<side, at, certs, endpoint, polls, calls, result>>
      \/ /\ next = "end" /\ side[c] = "src"
         /\ Return(c, "ok")

Create(c) ==
  /\ pc[c] = "create"
  /\ \/ Accepts(side[c], at[c]) /\ Put(side[c], at[c], Object(c))
     \/ Tolerated(side[c], at[c]) /\ UNCHANGED objects
  /\ Advance(c)
  /\ UNCHANGED <<minor, address, faults, cleanUps>>

Refused(c) ==
  /\ pc[c] = "create"
  /\ ~Accepts(side[c], at[c]) /\ ~Tolerated(side[c], at[c])
  /\ Return(c, "error")
  /\ UNCHANGED <<minor, objects, address, faults, cleanUps>>

\* The request fails, or is carried out and its answer lost: an error either way.
CreateFails(c) ==
  /\ pc[c] = "create" /\ Fault
  /\ \/ UNCHANGED objects
     \/ Accepts(side[c], at[c]) /\ Put(side[c], at[c], Object(c))
  /\ Return(c, "error")
  /\ UNCHANGED <<minor, address, cleanUps>>

\* The service is read until its load balancer has an entry, MaxPolls times.
PollLimitNone == 0
PollLimit == MaxPolls
Poll(c) ==
  /\ pc[c] = "address"
  /\ objects["dst"]["service"] # NoObject /\ address = "none"
  /\ polls' = [polls EXCEPT ![c] = IF @ < MaxPolls THEN @ + 1 ELSE @]
  /\ IF polls[c] + 1 = PollLimit
       THEN /\ pc' = [pc EXCEPT ![c] = "idle"]
            /\ result' = [result EXCEPT ![c] = "error"]
       ELSE UNCHANGED <<pc, result>>
  /\ UNCHANGED <<minor, objects, address, side, at, certs, endpoint, calls, faults, cleanUps>>

\* The address goes into the client's configuration with the certificates.
ClientCertsAnew(c) == <<c, 0>>
ClientCerts(c) == certs[c]
AddressFound(c) ==
  /\ pc[c] = "address"
  /\ objects["dst"]["service"] # NoObject /\ address \in {"hostname", "ip"}
  /\ endpoint' = [endpoint EXCEPT ![c] = objects["dst"]["service"].call]
  /\ certs' = [certs EXCEPT ![c] = ClientCerts(c)]
  /\ pc' = [pc EXCEPT ![c] = "create"]
  /\ side' = [side EXCEPT ![c] = "src"]
  /\ at' = [at EXCEPT ![c] = "namespace"]
  /\ UNCHANGED <<minor, objects, address, polls, calls, result, faults, cleanUps>>

\* The read fails, or the entry has neither a hostname nor an IP address.
AddressFails(c) ==
  /\ pc[c] = "address"
  /\ \/ Fault
     \/ (objects["dst"]["service"] = NoObject \/ address = "empty") /\ UNCHANGED faults
  /\ Return(c, "error")
  /\ UNCHANGED <<minor, objects, address, cleanUps>>

CallerStep(c) == Create(c) \/ Refused(c) \/ Poll(c) \/ AddressFound(c) \/ AddressFails(c)

\* The process making the call dies.
Crash(c) ==
  /\ Running(c) /\ Fault
  /\ Return(c, "crashed")
  /\ UNCHANGED <<minor, objects, address, cleanUps>>

\* The cloud gives the load balancer an entry, some day.
AssignAddress ==
  /\ objects["dst"]["service"] # NoObject /\ address = "none"
  /\ address' \in {"hostname", "ip", "empty"}
  /\ UNCHANGED <<minor, objects, local, faults, cleanUps>>

\* Between calls the operator deletes the namespace on one cluster.
CleanUp(s) ==
  /\ cleanUps < MaxCleanUps /\ cleanUps' = cleanUps + 1
  /\ \A c \in Callers : ~Running(c)
  /\ objects[s]["namespace"] # NoObject
  /\ objects' = [objects EXCEPT ![s] =
                   [k \in Kinds |-> IF k \in Namespaced THEN NoObject ELSE objects[s][k]]]
  /\ address' = IF s = "dst" THEN "none" ELSE address
  /\ result' = [c \in Callers |-> "none"]
  /\ UNCHANGED <<minor, pc, side, at, certs, endpoint, polls, calls, faults>>

Next ==
  \/ \E c \in Callers : Begin(c) \/ CallerStep(c) \/ CreateFails(c) \/ Crash(c)
  \/ AssignAddress
  \/ \E s \in Clusters : CleanUp(s)

Spec == Init /\ [][Next]_vars

\* A call under way goes on: each request is answered and the wait of three
\* seconds ends.  Nothing is assumed of the cloud or of the operator.
Fairness == \A c \in Callers : WF_vars(CallerStep(c))
FairSpec == Spec /\ Fairness
-----------------------------------------------------------------------------
CallIds == Callers \X (0..MaxCalls)
CertSets == CallIds \cup {Given[c] : c \in Callers} \cup {NoCerts}
Objects == [call : CallIds, certs : CertSets \ {NoCerts}, endpoint : CallIds \cup {NoObject},
            proxy : {"none", "plain", "basic"}, needs : SUBSET Kinds]

ASSUME NoObjectAssumption == NoObject \notin Objects

\* The variables take the values their declarations describe.
TypeOK ==
  /\ minor \in [Clusters -> {11, 12}]
  /\ objects \in [Clusters -> [Kinds -> Objects \cup {NoObject}]]
  /\ address \in {"none", "hostname", "ip", "empty"}
  /\ pc \in [Callers -> {"idle", "create", "address"}]
  /\ side \in [Callers -> Clusters]
  /\ at \in [Callers -> Kinds]
  /\ certs \in [Callers -> CertSets]
  /\ endpoint \in [Callers -> CallIds \cup {NoObject}]
  /\ polls \in [Callers -> 0..MaxPolls]
  /\ calls \in [Callers -> 0..MaxCalls]
  /\ result \in [Callers -> {"none", "running", "ok", "error", "crashed"}]
  /\ faults \in 0..MaxFaults /\ cleanUps \in 0..MaxCleanUps

\* Creating the namespace is the lock: whatever calls run at once, fail or die,
\* the objects in the namespace of a cluster are all from one call, so no
\* deployment mounts another call's certificates or configuration
\* (tunnel_api.go:390 and :640).
OneCallPerNamespace ==
  \A s \in Clusters : \A k \in Namespaced :
    objects[s][k] # NoObject =>
      /\ objects[s]["namespace"] # NoObject
      /\ objects[s][k].call = objects[s]["namespace"].call

\* Whenever a deployment exists all that its pods need exists: what they mount,
\* the account they run under and the right to be privileged; and a client told
\* to log in at a proxy mounts the credentials (tunnel_api.go:415 and :658).
Privileged(s) == IF minor[s] <= 11 THEN objects[s]["scc"] # NoObject
                 ELSE objects[s]["role"] # NoObject /\ objects[s]["binding"] # NoObject
DeploymentsCanStart ==
  \A s \in Clusters : objects[s]["deployment"] # NoObject =>
    /\ Privileged(s)
    /\ \A k \in objects[s]["deployment"].needs : objects[s][k] # NoObject
    /\ s = "src" => /\ objects[s]["config"] # NoObject
                    /\ objects[s]["config"].proxy = "basic" =>
                         "proxy" \in objects[s]["deployment"].needs

\* When a call has returned without an error, and until a namespace is deleted,
\* both ends stand: the client trusts the authority that signed the server's
\* certificate and connects to the address of the very service that call made,
\* though other calls ran before, at the same time and after.
SuccessIsTunnel ==
  \A c \in Callers : result[c] = "ok" =>
    /\ \A s \in Clusters : objects[s]["deployment"] # NoObject
    /\ objects["src"]["config"].certs = objects["dst"]["secret"].certs
    /\ objects["src"]["config"].endpoint = objects["dst"]["service"].call
    /\ objects["src"]["config"].call = Call(c)

\* Every call returns, also when the load balancer never gets an address.
CallReturns == \A c \in Callers : Running(c) ~> ~Running(c)
=============================================================================
