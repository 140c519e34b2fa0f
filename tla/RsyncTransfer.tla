---------------------------- MODULE RsyncTransfer ----------------------------
(***************************************************************************)
(* state_transfer/transfer/rsync over a stunnel transport.  CreateServer    *)
(* makes a config map, a secret and the pod of the rsync daemon in the      *)
(* destination namespace, CreateClient one pod per PVC in the source        *)
(* namespace.  The caller works level-triggered: each attempt looks for the *)
(* transport, then for a healthy server, and creates what it does not find; *)
(* an attempt that fails is followed by another one.                        *)
(***************************************************************************)
EXTENDS StunnelTransport, Sequences, Functions

CONSTANTS
  PVCs,       \* all filesystem PVC pairs
  Empty,      \* the contents of a fresh destination
  PVCList,    \* PVCList[t]: the pairs of t, in order
  LabelSafeName, \* LabelSafeName[p]: MD5 sum of the name of p's destination claim
  Reread,     \* callers use transports only after re-reading them
  Patient,    \* callers that wait for a healthy server before they create clients
  MaxPods     \* bound on the client pods of a behaviour

ASSUME RsyncAssumption ==
  /\ PVCList \in [Transfers -> Seq(PVCs)]
  /\ \A t \in Transfers : PVCList[t] # << >>
  /\ Empty \notin PVCs
  /\ DOMAIN LabelSafeName = PVCs
  /\ Reread \in BOOLEAN
  /\ Patient \subseteq Transfers
  /\ MaxPods \in Nat

VARIABLES
  rsyncConf,    \* the transfer whose PVCs rsyncd.conf has modules for
  rsyncSecret,  \* the daemon's credentials exist; all callers use the same
  server,       \* the transfer whose volumes the pod rsync-server mounts
  ready,        \* both containers of the pod are ready
  visited,      \* visited[t]: PVCs the running CreateClient has been at
  clients,      \* the client pods
  dst           \* the source whose data a destination volume holds in full

rsyncVars == << rsyncConf, rsyncSecret, server, ready, visited, clients, dst >>
vars == << stunnelVars, rsyncVars >>

Steps == {"idle", "get", "serverConf", "serverSecret", "clientConf", "clientSecret",
          "created", "ready", "rsyncConf", "rsyncSecret", "rsyncPod", "poll",
          "clients", "done", "failed"}
Pod == [id : Nat, by : Transfers, pvc : PVCs, port : {0, Port},
        phase : {"created", "running", "succeeded", "failed", "broken"}]

TypeOK ==
  /\ {serverConf, clientConf, rsyncSecret, ready} \subseteq BOOLEAN
  /\ {rsyncConf, server} \subseteq Transfers \cup {None}
  /\ {serverSecret, clientSecret} \subseteq 1..certs \cup {None}
  /\ certs \in 0..(Cardinality(Transfers) + MaxFaults)
  /\ handle \in [Transfers -> [crt : 1..certs \cup {None}, port : {0, Port}, mounts : Nat]]
  /\ pc \in [Transfers -> Steps]
  /\ errs \in [Transfers -> BOOLEAN]
  /\ faults \in 0..MaxFaults
  /\ visited \in [Transfers -> Nat]
  /\ clients \subseteq Pod
  /\ dst \in [PVCs -> PVCs \cup {Empty}]

Init ==
  /\ StunnelInit
  /\ rsyncConf = None
  /\ rsyncSecret = FALSE
  /\ server = None
  /\ ready = FALSE
  /\ visited = [t \in Transfers |-> 0]
  /\ clients = {}
  /\ dst = [p \in PVCs |-> Empty]

-----------------------------------------------------------------------------
(* The caller.                                                              *)

(* IsPodHealthy: the pod exists and its two containers are ready. *)
PodHealthy == server # None /\ ready

(* t holds a transport that it may use. *)
HasTransport(t) == pc[t] = "ready" \/ (pc[t] = "created" /\ ~Reread)

(* What the caller does with the answer of a health check.                  *)
OnHealth(t, healthy) ==
  /\ HasTransport(t)
  /\ \/ healthy /\ Goto(t, "clients") /\ UNCHANGED << errs, faults >>
     \/ ~healthy /\ Goto(t, "rsyncConf") /\ UNCHANGED << errs, faults >>
     \/ Reply(t, FALSE, "clients", "failed")
  /\ UNCHANGED << stunnelObjects, certs, handle, rsyncVars >>

(* A health check that is content with a pod that exists. *)
IsServerThere(t) == OnHealth(t, server # None)

(* IsServerHealthy: a healthy server gets its clients, any other answer is  *)
(* met with CreateServer.                                                   *)
IsServerHealthy(t) == OnHealth(t, PodHealthy)

(* After CreateServer has returned no error a patient caller asks until the *)
(* server is healthy; example_test.go has callers of either kind.           *)
PollServer(t) ==
  /\ pc[t] = "poll"
  /\ t \in Patient => PodHealthy
  /\ Goto(t, "clients")
  /\ UNCHANGED << stunnelObjects, certs, handle, errs, faults, rsyncVars >>

(* The caller ends the attempt that created the transport; a next attempt   *)
(* will find it.                                                            *)
Requeue(t) ==
  /\ Reread
  /\ pc[t] = "created"
  /\ Goto(t, "idle")
  /\ UNCHANGED << stunnelObjects, certs, handle, errs, faults, rsyncVars >>

(* The caller's process dies and a new one starts over. *)
Crash(t) ==
  /\ pc[t] \notin {"idle", "failed"}
  /\ faults < MaxFaults
  /\ faults' = faults + 1
  /\ Goto(t, "idle")
  /\ visited' = [visited EXCEPT ![t] = 0]
  /\ UNCHANGED << stunnelObjects, certs, handle, errs, rsyncConf, rsyncSecret, server,
                  ready, clients, dst >>

-----------------------------------------------------------------------------
(* CreateServer.                                                            *)

(* createRsyncServerConfig if it did not tolerate AlreadyExists. *)
CreateRsyncConfOnce(t) ==
  /\ pc[t] = "rsyncConf"
  /\ IF rsyncConf # None THEN Rejected(t, "rsyncPod") /\ UNCHANGED rsyncConf
     ELSE \E applied \in BOOLEAN :
            /\ rsyncConf' = IF applied THEN t ELSE rsyncConf
            /\ Reply(t, applied, "rsyncSecret", "rsyncPod")
  /\ UNCHANGED << stunnelObjects, certs, handle, rsyncSecret, server, ready, visited,
                  clients, dst >>

(* createRsyncServerConfig; an error skips the secret but not the pod.      *)
CreateRsyncConf(t) ==
  /\ pc[t] = "rsyncConf"
  /\ \E applied \in BOOLEAN :
       /\ rsyncConf' = IF applied THEN Created(rsyncConf, t) ELSE rsyncConf
       /\ Reply(t, applied, "rsyncSecret", "rsyncPod")
  /\ UNCHANGED << stunnelObjects, certs, handle, rsyncSecret, server, ready, visited,
                  clients, dst >>

(* createRsyncServerSecret. *)
CreateRsyncSecret(t) ==
  /\ pc[t] = "rsyncSecret"
  /\ \E applied \in BOOLEAN :
       /\ rsyncSecret' = (rsyncSecret \/ applied)
       /\ Reply(t, applied, "rsyncPod", "rsyncPod")
  /\ UNCHANGED << stunnelObjects, certs, handle, rsyncConf, server, ready, visited,
                  clients, dst >>

(* createRsyncServer returns even the AlreadyExists it has tested for.      *)
CreateRsyncPod(t) ==
  /\ pc[t] = "rsyncPod"
  /\ \/ server # None /\ Rejected(t, "failed") /\ UNCHANGED server
     \/ /\ server = None
        /\ \E applied \in BOOLEAN :
             /\ server' = IF applied THEN t ELSE None
             /\ Reply(t, applied, Aggregate(t, "poll"), "failed")
  /\ UNCHANGED << stunnelObjects, certs, handle, rsyncConf, rsyncSecret, ready, visited,
                  clients, dst >>

-----------------------------------------------------------------------------
(* CreateClient.                                                            *)

NewPod(t, p) ==
  [id |-> Cardinality(clients), by |-> t, pvc |-> p, port |-> handle[t].port,
   phase |-> "created"]

(* customizeTransportClientContainers appends its volume mount to the       *)
(* transport's own container, once per PVC.                                 *)
Mounts(t) == handle[t].mounts + 1
Mounted(t) == [crt |-> handle[t].crt, port |-> handle[t].port, mounts |-> Mounts(t)]

(* One turn of createRsyncClient's loop; the API server refuses a container *)
(* that mounts two volumes on one path.                                     *)
CreateClientPod(t) ==
  /\ pc[t] = "clients"
  /\ visited[t] < Len(PVCList[t])
  /\ handle' = [handle EXCEPT ![t] = Mounted(t)]
  /\ visited' = [visited EXCEPT ![t] = visited[t] + 1]
  /\ \/ Mounts(t) > 1 /\ Rejected(t, "clients") /\ UNCHANGED clients
     \/ /\ Mounts(t) = 1
        /\ Cardinality(clients) < MaxPods
        /\ \E applied \in BOOLEAN :
             /\ clients' = IF applied THEN clients \cup {NewPod(t, PVCList[t][visited'[t]])}
                           ELSE clients
             /\ Reply(t, applied, "clients", "clients")
  /\ UNCHANGED << stunnelObjects, certs, rsyncConf, rsyncSecret, server, ready, dst >>

CreateClientReturns(t) ==
  /\ pc[t] = "clients"
  /\ visited[t] = Len(PVCList[t])
  /\ Goto(t, Aggregate(t, "done"))
  /\ visited' = [visited EXCEPT ![t] = 0]
  /\ UNCHANGED << stunnelObjects, certs, handle, errs, faults, rsyncConf, rsyncSecret,
                  server, ready, clients, dst >>

CallerStep(t) ==
  \/ StunnelStep(t) /\ UNCHANGED rsyncVars
  \/ IsServerHealthy(t) \/ Requeue(t) \/ PollServer(t)
  \/ CreateRsyncConf(t) \/ CreateRsyncSecret(t) \/ CreateRsyncPod(t)
  \/ CreateClientPod(t) \/ CreateClientReturns(t)

-----------------------------------------------------------------------------
(* The pods.                                                                *)

(* The daemon starts when all that its pod mounts exists. *)
ServerReady ==
  /\ server # None
  /\ ~ready
  /\ serverConf /\ serverSecret # None
  /\ rsyncConf # None /\ rsyncSecret
  /\ ready' = TRUE
  /\ UNCHANGED << stunnelVars, rsyncConf, rsyncSecret, server, visited, clients, dst >>

(* The client pod c in another phase. *)
Moved(c, phase) ==
  [id |-> c.id, by |-> c.by, pvc |-> c.pvc, port |-> c.port, phase |-> phase]

(* A client pod starts when all that it mounts exists.                      *)
ClientStarts(c) ==
  /\ c.phase = "created"
  /\ clientConf
  /\ clientSecret # None
  /\ clients' = (clients \ {c}) \cup {Moved(c, "running")}
  /\ UNCHANGED << stunnelVars, rsyncConf, rsyncSecret, server, ready, visited, dst >>

(* The daemon has a module for p, and the volume of d behind it: the sum of *)
(* the destination's name names the module, its path and the volume.        *)
Serves(p, d) ==
  /\ PodHealthy
  /\ \E q \in Range(PVCList[rsyncConf]) : LabelSafeName[q] = LabelSafeName[p]
  /\ d \in Range(PVCList[server])
  /\ LabelSafeName[d] = LabelSafeName[p]

(* The client's rsync dials its own stunnel, which connects to the endpoint *)
(* that the client's config names at present, and asks for its module.      *)
Reaches(c) == c.port = Port /\ \E d \in PVCs : Serves(c.pvc, d)

(* The pod of c ends, and its policy is never to restart (RestartPolicyNever). *)
ClientEnds(c, phase) ==
  /\ c.phase = "running"
  /\ clients' = (clients \ {c}) \cup {Moved(c, phase)}
  /\ UNCHANGED << stunnelObjects, certs, handle, pc, errs, rsyncConf, rsyncSecret,
                  server, ready, visited >>

(* rsync copies all of the volume. *)
ClientSucceeds(c) ==
  /\ Reaches(c)
  /\ dst' = [d \in PVCs |-> IF Serves(c.pvc, d) THEN c.pvc ELSE dst[d]]
  /\ UNCHANGED faults
  /\ ClientEnds(c, "succeeded")

(* The script waits for the port of its own stunnel, not for the daemon, and *)
(* runs rsync once: where that finds no daemon or no module, the pod fails.  *)
ClientFails(c) ==
  /\ ~Reaches(c)
  /\ UNCHANGED << faults, dst >>
  /\ ClientEnds(c, "failed")

(* The stunnel takes more than the script's 120 seconds to listen, or the    *)
(* connection breaks: whatever was copied is incomplete.                     *)
ClientBreaks(c) ==
  /\ faults < MaxFaults
  /\ faults' = faults + 1
  /\ UNCHANGED dst
  /\ ClientEnds(c, "broken")

ClientStep(c) == ClientStarts(c) \/ ClientSucceeds(c) \/ ClientFails(c)

Next ==
  \/ \E t \in Transfers : CallerStep(t) \/ Crash(t)
  \/ ServerReady
  \/ \E c \in clients : ClientStep(c) \/ ClientBreaks(c)

Spec == Init /\ [][Next]_vars

(* Callers whose process lives go on, and pods that can start do.           *)
Fairness ==
  /\ \A t \in Transfers : WF_vars(CallerStep(t))
  /\ WF_vars(ServerReady)
  /\ WF_vars(\E c \in clients : ClientStep(c))

FairSpec == Spec /\ Fairness
-----------------------------------------------------------------------------
(* Correctness.                                                             *)

(* t works with a transport that it has re-read (with Reread). *)
HoldsTransport(t) ==
  pc[t] \in {"ready", "rsyncConf", "rsyncSecret", "rsyncPod", "poll", "clients", "done"}

(* Whoever has re-read a transport holds the certificate of the client's    *)
(* secret, as long as it works with it, although others that began before   *)
(* that secret was there go on to make certificates and secrets of their    *)
(* own (createClientSecret, GetTransportFromKubeObjects).                   *)
ReadersAgree == \A t \in Transfers : HoldsTransport(t) => handle[t].crt = clientSecret

(* When t's CreateClient has returned without an error each PVC of t has a  *)
(* client that reaches the daemon and its own volume, or has reached it.    *)
SuccessMeansReachable ==
  \A t \in Transfers : pc[t] = "done" =>
    \A p \in Range(PVCList[t]) : \E c \in clients :
      c.by = t /\ c.pvc = p /\ c.phase # "failed" /\ Reaches(c) /\ Serves(p, p)

(* With finitely many faults a caller that starts over until CreateClient   *)
(* succeeds gets each of its volumes copied, unless a fault struck the      *)
(* running client of that volume: nobody looks at a client's exit code, and *)
(* nothing runs it again.                                                   *)
TransferCompletes ==
  \A t \in Transfers : <>[](\A p \in Range(PVCList[t]) :
    dst[p] = p \/ \E c \in clients : c.pvc = p /\ c.phase = "broken")
=============================================================================
