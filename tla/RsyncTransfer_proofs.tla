------------------------ MODULE RsyncTransfer_proofs ------------------------
(***************************************************************************)
(* Proofs about RsyncTransfer, for any transfers, volumes and bounds: an    *)
(* operation that reports success has left its objects behind; certificates *)
(* are paid for by calls and faults; whoever has re-read a transport holds  *)
(* the certificate of the client's secret; and a client created without an  *)
(* error reaches the daemon.                                                *)
(***************************************************************************)
EXTENDS RsyncTransfer, FiniteSetTheorems, TLAPS

-----------------------------------------------------------------------------
(* Success leaves the objects behind.                                       *)

Handle == [crt : Nat \cup {None}, port : {0, Port}, mounts : Nat]

Typed ==
  /\ handle \in [Transfers -> Handle]
  /\ certs \in Nat
  /\ {serverSecret, clientSecret} \subseteq Nat \cup {None}
  /\ serverConf \in BOOLEAN /\ clientConf \in BOOLEAN
  /\ pc \in [Transfers -> Steps]
  /\ errs \in [Transfers -> BOOLEAN]

(* What t's position says about the objects while t has seen no error.      *)
Progress(t) ==
  /\ pc[t] = "serverSecret" /\ ~errs[t] => serverConf
  /\ pc[t] \in {"clientConf", "clientSecret"} =>
       serverConf /\ serverSecret # None /\ handle[t].crt # None
  /\ pc[t] = "clientSecret" /\ ~errs[t] => clientConf
  /\ pc[t] = "created" => AllObjects

ObjectsInv == Typed /\ \A t \in Transfers : Progress(t)

(* Objects are created or overwritten and never deleted.                    *)
Kept ==
  /\ serverConf => serverConf'
  /\ clientConf => clientConf'
  /\ serverSecret # None => serverSecret' # None
  /\ clientSecret # None => clientSecret' # None

OthersStay(t) ==
  \A u \in Transfers \ {t} :
    pc'[u] = pc[u] /\ errs'[u] = errs[u] /\ handle'[u] = handle[u]

(* A step of t's caller keeps the invariant if it keeps the objects and     *)
(* leaves t where what t's position says holds.                             *)
LEMMA StepKeepsObjects ==
  ASSUME ObjectsInv, Typed', Kept, NEW t \in Transfers, OthersStay(t), Progress(t)'
  PROVE  ObjectsInv'
<1>1. SUFFICES ASSUME NEW u \in Transfers, u # t
               PROVE  Progress(u)'
  BY DEF ObjectsInv
<1>2. pc'[u] = pc[u] /\ errs'[u] = errs[u] /\ handle'[u] = handle[u]
  BY <1>1 DEF OthersStay
<1>3. Progress(u)
  BY DEF ObjectsInv
<1> QED
  BY <1>2, <1>3 DEF Kept, Progress, AllObjects

(* A step that touches neither objects nor positions keeps the invariant.   *)
LEMMA StutterKeepsObjects ==
  ASSUME ObjectsInv, UNCHANGED << stunnelObjects, certs, handle, pc, errs >>
  PROVE  ObjectsInv'
BY DEF ObjectsInv, Typed, Progress, AllObjects, stunnelObjects

(* The transports that the actions put into a caller's memory.              *)
LEMMA Handles ==
  ASSUME Typed
  PROVE  /\ NewTransport \in Handle
         /\ \A t \in Transfers : handle[t] \in Handle
         /\ \A t \in Transfers : Mounted(t) \in Handle /\ Mounted(t).crt = handle[t].crt
         /\ \A t \in Transfers, crt \in Nat \cup {None}, port \in {0, Port} :
              Rekeyed(t, crt, port) \in Handle /\ Rekeyed(t, crt, port).crt = crt
<1>1. NewTransport \in Handle
  BY DEF NewTransport, Handle
<1>2. \A t \in Transfers : handle[t] \in Handle
  BY DEF Typed
<1>3. ASSUME NEW t \in Transfers
      PROVE  Mounted(t) \in Handle /\ Mounted(t).crt = handle[t].crt
  BY <1>2 DEF Handle, Mounted, Mounts
<1>4. ASSUME NEW t \in Transfers, NEW crt \in Nat \cup {None}, NEW port \in {0, Port}
      PROVE  Rekeyed(t, crt, port) \in Handle /\ Rekeyed(t, crt, port).crt = crt
  BY <1>2 DEF Handle, Rekeyed
<1> QED
  BY <1>1, <1>2, <1>3, <1>4

LEMMA InitObjects == Init => ObjectsInv
<1> SUFFICES ASSUME Init PROVE ObjectsInv
  OBVIOUS
<1>1. NewTransport \in Handle
  BY DEF NewTransport, Handle
<1>2. handle \in [Transfers -> Handle]
  BY <1>1 DEF Init, StunnelInit
<1>3. pc \in [Transfers -> Steps] /\ errs \in [Transfers -> BOOLEAN]
  BY DEF Init, StunnelInit, Steps
<1>4. Typed
  BY <1>2, <1>3 DEF Init, StunnelInit, Typed
<1>5. \A t \in Transfers : pc[t] = "idle"
  BY DEF Init, StunnelInit
<1> QED
  BY <1>4, <1>5 DEF ObjectsInv, Progress

(* Where the reply to a call of t can lead. *)
LEMMA ReplyMoves ==
  ASSUME Typed, NEW t \in Transfers, NEW applied \in BOOLEAN,
         NEW ok \in Steps, NEW bad \in Steps, Reply(t, applied, ok, bad)
  PROVE  /\ pc' \in [Transfers -> Steps]
         /\ errs' \in [Transfers -> BOOLEAN]
         /\ \A u \in Transfers \ {t} : pc'[u] = pc[u] /\ errs'[u] = errs[u]
         /\ \/ applied /\ pc'[t] = ok /\ errs'[t] = errs[t]
            \/ pc'[t] = bad /\ errs'[t]
BY DEF Typed, Reply, Goto

(* The steps that set up the transport. *)
LEMMA StunnelKeepsObjects ==
  ASSUME ObjectsInv, NEW t \in Transfers, StunnelStep(t)
  PROVE  ObjectsInv'
<1>0. Typed /\ Progress(t) /\ None \notin Nat /\ None \notin Transfers
  BY StunnelAssumption DEF ObjectsInv
<1>1. CASE Begin(t)
  <2>1. /\ pc' \in [Transfers -> Steps]
        /\ errs' \in [Transfers -> BOOLEAN]
        /\ pc'[t] = "get"
        /\ \A u \in Transfers \ {t} : pc'[u] = pc[u] /\ errs'[u] = errs[u]
    BY <1>0, <1>1 DEF Begin, Goto, Typed, Steps
  <2>2. /\ handle' \in [Transfers -> Handle]
        /\ \A u \in Transfers \ {t} : handle'[u] = handle[u]
    BY <1>0, <1>1, Handles DEF Begin, Typed
  <2>3. Typed' /\ Kept /\ OthersStay(t) /\ Progress(t)'
    BY <1>0, <1>1, <2>1, <2>2 DEF Begin, Kept, Typed, OthersStay, Progress, stunnelObjects
  <2> QED
    BY <2>3, StepKeepsObjects
<1>2. CASE GetTransport(t)
  <2>1. /\ pc' \in [Transfers -> Steps]
        /\ errs' \in [Transfers -> BOOLEAN]
        /\ pc'[t] \in {"ready", "serverConf", "failed"}
        /\ \A u \in Transfers \ {t} : pc'[u] = pc[u] /\ errs'[u] = errs[u]
    BY <1>0, <1>2 DEF GetTransport, Reply, Goto, Typed, Steps
  <2>2. /\ handle' \in [Transfers -> Handle]
        /\ \A u \in Transfers \ {t} : handle'[u] = handle[u]
    <3>1. Rekeyed(t, clientSecret, Port) \in Handle
      BY <1>0, Handles DEF Typed
    <3>2. handle' = [handle EXCEPT ![t] = Rekeyed(t, clientSecret, Port)] \/ handle' = handle
      BY <1>2 DEF GetTransport
    <3> QED
      BY <1>0, <3>1, <3>2 DEF Typed
  <2>3. Typed' /\ Kept /\ OthersStay(t) /\ Progress(t)'
    BY <1>0, <1>2, <2>1, <2>2 DEF GetTransport, Kept, Typed, OthersStay, Progress,
       stunnelObjects
  <2> QED
    BY <2>3, StepKeepsObjects
<1>3. CASE CreateServerConf(t)
  <2>1. PICK applied \in BOOLEAN :
          /\ serverConf' = (serverConf \/ applied)
          /\ Reply(t, applied, "serverSecret", "serverSecret")
    BY <1>3 DEF CreateServerConf
  <2>2. /\ pc' \in [Transfers -> Steps]
        /\ errs' \in [Transfers -> BOOLEAN]
        /\ \A u \in Transfers \ {t} : pc'[u] = pc[u] /\ errs'[u] = errs[u]
        /\ pc'[t] = "serverSecret"
        /\ ~errs'[t] => applied
    BY <1>0, <2>1, ReplyMoves DEF Steps
  <2>3. Typed' /\ Kept /\ OthersStay(t) /\ Progress(t)'
    BY <1>0, <1>3, <2>1, <2>2 DEF CreateServerConf, Kept, Typed, OthersStay, Progress
  <2> QED
    BY <2>3, StepKeepsObjects
<1>4. CASE CreateServerSecret(t)
  <2>1. PICK applied \in BOOLEAN :
          /\ serverSecret' = IF applied THEN Created(serverSecret, certs') ELSE serverSecret
          /\ Reply(t, applied, Aggregate(t, "clientConf"), "failed")
    BY <1>4 DEF CreateServerSecret
  <2>2. Aggregate(t, "clientConf") \in Steps
    BY DEF Aggregate, Steps
  <2>3. /\ pc' \in [Transfers -> Steps]
        /\ errs' \in [Transfers -> BOOLEAN]
        /\ \A u \in Transfers \ {t} : pc'[u] = pc[u] /\ errs'[u] = errs[u]
        /\ \/ applied /\ pc'[t] = "clientConf" /\ ~errs[t]
           \/ pc'[t] = "failed"
    BY <1>0, <2>1, <2>2, ReplyMoves DEF Steps, Aggregate
  <2>4. /\ certs' \in Nat
        /\ handle' \in [Transfers -> Handle]
        /\ handle'[t].crt \in Nat
        /\ \A u \in Transfers \ {t} : handle'[u] = handle[u]
    <3>1. certs' \in Nat
      BY <1>0, <1>4 DEF CreateServerSecret, Typed
    <3>2. handle[t].port \in {0, Port}
      BY <1>0, Handles DEF Handle
    <3>3. Rekeyed(t, certs', handle[t].port) \in Handle
          /\ Rekeyed(t, certs', handle[t].port).crt = certs'
      BY <1>0, <3>1, <3>2, Handles
    <3>4. handle' = [handle EXCEPT ![t] = Rekeyed(t, certs', handle[t].port)]
      BY <1>4 DEF CreateServerSecret
    <3> QED
      BY <1>0, <3>1, <3>3, <3>4 DEF Typed
  <2>5. /\ serverSecret' \in Nat \cup {None}
        /\ applied => serverSecret' # None
        /\ serverSecret # None => serverSecret' # None
    BY <1>0, <2>1, <2>4 DEF Created, Typed
  <2>6. Typed' /\ Kept /\ OthersStay(t) /\ Progress(t)'
    BY <1>0, <1>4, <2>3, <2>4, <2>5 DEF CreateServerSecret, Kept, Typed, OthersStay, Progress
  <2> QED
    BY <2>6, StepKeepsObjects
<1>5. CASE CreateClientConf(t)
  <2>1. PICK applied \in BOOLEAN :
          /\ clientConf' = (clientConf \/ applied)
          /\ Reply(t, applied, "clientSecret", "clientSecret")
    BY <1>5 DEF CreateClientConf
  <2>2. /\ pc' \in [Transfers -> Steps]
        /\ errs' \in [Transfers -> BOOLEAN]
        /\ \A u \in Transfers \ {t} : pc'[u] = pc[u] /\ errs'[u] = errs[u]
        /\ pc'[t] = "clientSecret"
        /\ ~errs'[t] => applied
    BY <1>0, <2>1, ReplyMoves DEF Steps
  <2>3. Typed' /\ Kept /\ OthersStay(t) /\ Progress(t)'
    BY <1>0, <1>5, <2>1, <2>2 DEF CreateClientConf, Kept, Typed, OthersStay, Progress
  <2> QED
    BY <2>3, StepKeepsObjects
<1>6. CASE CreateClientSecret(t)
  <2>1. PICK applied \in BOOLEAN :
          /\ clientSecret' = IF applied THEN Created(clientSecret, handle[t].crt)
                             ELSE clientSecret
          /\ Reply(t, applied, Aggregate(t, "created"), "failed")
    BY <1>6 DEF CreateClientSecret
  <2>2. Aggregate(t, "created") \in Steps
    BY DEF Aggregate, Steps
  <2>3. /\ pc' \in [Transfers -> Steps]
        /\ errs' \in [Transfers -> BOOLEAN]
        /\ \A u \in Transfers \ {t} : pc'[u] = pc[u] /\ errs'[u] = errs[u]
        /\ \/ applied /\ pc'[t] = "created" /\ ~errs[t]
           \/ pc'[t] = "failed"
    BY <1>0, <2>1, <2>2, ReplyMoves DEF Steps, Aggregate
  <2>4. handle[t].crt \in Nat
    <3>1. handle[t].crt \in Nat \cup {None}
      BY <1>0, Handles DEF Handle
    <3> QED
      BY <1>0, <1>6, <3>1 DEF CreateClientSecret, Progress
  <2>5. /\ clientSecret' \in Nat \cup {None}
        /\ applied => clientSecret' # None
        /\ clientSecret # None => clientSecret' # None
    BY <1>0, <2>1, <2>4 DEF Created, Typed
  <2>6. Typed' /\ Kept /\ OthersStay(t) /\ Progress(t)'
    BY <1>0, <1>6, <2>3, <2>5 DEF CreateClientSecret, Kept, Typed, OthersStay, Progress,
       AllObjects
  <2> QED
    BY <2>6, StepKeepsObjects
<1> QED
  BY <1>1, <1>2, <1>3, <1>4, <1>5, <1>6 DEF StunnelStep

(* What the other steps of a caller do to what the invariant is about.      *)
LEMMA RsyncKeepsObjects ==
  ASSUME ObjectsInv, NEW t \in Transfers,
         \/ IsServerHealthy(t) \/ Requeue(t) \/ PollServer(t)
         \/ CreateRsyncConf(t) \/ CreateRsyncSecret(t) \/ CreateRsyncPod(t)
         \/ CreateClientPod(t) \/ CreateClientReturns(t) \/ Crash(t)
  PROVE  ObjectsInv'
<1> DEFINE Late == {"idle", "rsyncConf", "rsyncSecret", "rsyncPod", "poll", "clients",
                    "done", "failed"}
           Moves == /\ pc' \in [Transfers -> Steps]
                    /\ errs' \in [Transfers -> BOOLEAN]
                    /\ \A u \in Transfers \ {t} : pc'[u] = pc[u] /\ errs'[u] = errs[u]
                    /\ pc'[t] \in Late
           Hands == /\ handle' \in [Transfers -> Handle]
                    /\ \A u \in Transfers \ {t} : handle'[u] = handle[u]
<1>0. Typed /\ Late \subseteq Steps
  BY DEF ObjectsInv, Steps
<1>1. ASSUME NEW ok \in Late, NEW bad \in Late, NEW applied \in BOOLEAN,
             Reply(t, applied, ok, bad)
      PROVE  Moves
  BY <1>0, <1>1, ReplyMoves
<1>2. ASSUME NEW step \in Late, Goto(t, step), errs' = errs
      PROVE  Moves
  BY <1>0, <1>2 DEF Goto, Typed
<1>3. ASSUME NEW bad \in Late, Rejected(t, bad)
      PROVE  Moves
  BY <1>0, <1>3 DEF Rejected, Goto, Typed
<1>4. ASSUME UNCHANGED handle
      PROVE  Hands
  BY <1>0, <1>4 DEF Typed
<1>5. ASSUME Moves, Hands, UNCHANGED << stunnelObjects, certs >>
      PROVE  ObjectsInv'
  <2>1. Typed' /\ Kept /\ OthersStay(t) /\ Progress(t)'
    BY <1>0, <1>5 DEF Typed, Kept, OthersStay, Progress, stunnelObjects
  <2> QED
    BY <2>1, StepKeepsObjects
<1>6. CASE IsServerHealthy(t)
  BY <1>1, <1>2, <1>4, <1>5, <1>6 DEF IsServerHealthy, OnHealth
<1>7. CASE Requeue(t)
  BY <1>2, <1>4, <1>5, <1>7 DEF Requeue
<1>8. CASE PollServer(t)
  BY <1>2, <1>4, <1>5, <1>8 DEF PollServer
<1>9. CASE CreateRsyncConf(t)
  BY <1>1, <1>4, <1>5, <1>9 DEF CreateRsyncConf
<1>10. CASE CreateRsyncSecret(t)
  BY <1>1, <1>4, <1>5, <1>10 DEF CreateRsyncSecret
<1>11. CASE CreateRsyncPod(t)
  <2>1. Aggregate(t, "poll") \in Late
    BY DEF Aggregate
  <2> QED
    BY <1>1, <1>3, <1>4, <1>5, <1>11, <2>1 DEF CreateRsyncPod
<1>12. CASE CreateClientPod(t)
  <2>1. Hands
    BY <1>0, <1>12, Handles DEF CreateClientPod, Typed
  <2>2. Moves
    BY <1>1, <1>3, <1>12 DEF CreateClientPod
  <2> QED
    BY <1>5, <1>12, <2>1, <2>2 DEF CreateClientPod
<1>13. CASE CreateClientReturns(t)
  <2>1. Aggregate(t, "done") \in Late
    BY DEF Aggregate
  <2> QED
    BY <1>2, <1>4, <1>5, <1>13, <2>1 DEF CreateClientReturns
<1>14. CASE Crash(t)
  BY <1>2, <1>4, <1>5, <1>14 DEF Crash
<1> QED
  BY <1>6, <1>7, <1>8, <1>9, <1>10, <1>11, <1>12, <1>13, <1>14

Phases == {"created", "running", "succeeded", "failed", "broken"}

(* What kubelet, stunnel and rsync do. *)
PodStep ==
  \/ ServerReady
  \/ \E c \in clients : ClientStep(c) \/ ClientBreaks(c)
  \/ UNCHANGED vars

(* A client pod goes from one phase to another one. *)
Moves ==
  \/ clients' = clients
  \/ \E c \in clients, phase \in Phases : clients' = (clients \ {c}) \cup {Moved(c, phase)}

(* Pods leave the callers and what they have made alone. *)
Frame ==
  /\ UNCHANGED << stunnelObjects, certs, handle, pc, errs >>
  /\ UNCHANGED << visited, rsyncConf, rsyncSecret, server >>
  /\ faults' = faults \/ (faults < MaxFaults /\ faults' = faults + 1)
  /\ ready' = ready \/ (server # None /\ rsyncConf # None /\ ready' = TRUE)
  /\ Moves

LEMMA PodFrame ==
  ASSUME PodStep
  PROVE  Frame
<1>1. CASE ServerReady
  BY <1>1 DEF ServerReady, stunnelVars, callers, Moves, Frame
<1>2. CASE UNCHANGED vars
  BY <1>2 DEF vars, rsyncVars, stunnelVars, callers, Moves, Frame
<1>3. ASSUME NEW c \in clients, ClientStarts(c)
      PROVE  Frame
  BY <1>3 DEF ClientStarts, stunnelVars, callers, Moves, Phases, Frame
<1>4. ASSUME NEW c \in clients, NEW phase \in Phases, ClientEnds(c, phase),
             faults' = faults \/ (faults < MaxFaults /\ faults' = faults + 1)
      PROVE  Frame
  BY <1>4 DEF ClientEnds, Moves, Frame
<1>5. ASSUME NEW c \in clients, ClientSucceeds(c) \/ ClientFails(c) \/ ClientBreaks(c)
      PROVE  Frame
  BY <1>4, <1>5 DEF ClientSucceeds, ClientFails, ClientBreaks, Phases
<1> QED
  BY <1>1, <1>2, <1>3, <1>5 DEF PodStep, ClientStep

LEMMA NextKeepsObjects == ObjectsInv /\ [Next]_vars => ObjectsInv'
<1> SUFFICES ASSUME ObjectsInv, [Next]_vars PROVE ObjectsInv'
  OBVIOUS
<1>1. CASE PodStep
  BY <1>1, PodFrame, StutterKeepsObjects DEF Frame
<1>2. ASSUME NEW t \in Transfers, CallerStep(t) \/ Crash(t)
      PROVE  ObjectsInv'
  BY <1>2, StunnelKeepsObjects, RsyncKeepsObjects DEF CallerStep
<1> QED
  BY <1>1, <1>2 DEF Next, PodStep

(* An operation that returned no error has left its objects behind          *)
(* (createStunnelServerResources, createClientResources), whatever failed   *)
(* before and whatever other transfers do to the shared objects.            *)
THEOREM SuccessIsReal == Spec => []SuccessLeavesObjects
<1>1. ObjectsInv => SuccessLeavesObjects
  BY DEF ObjectsInv, Progress, SuccessLeavesObjects
<1> QED
  BY <1>1, InitObjects, NextKeepsObjects, PTL DEF Spec

-----------------------------------------------------------------------------
(* The loops of CreateClient and the volumes.                               *)

LoopInv ==
  /\ dst \in [PVCs -> PVCs \cup {Empty}]
  /\ visited \in [Transfers -> Nat]
  /\ \A t \in Transfers : visited[t] <= Len(PVCList[t])
  /\ \A c \in clients : c.pvc \in PVCs

LEMMA InitLoops == Init => LoopInv
<1> SUFFICES ASSUME Init PROVE LoopInv
  OBVIOUS
<1>1. \A t \in Transfers : Len(PVCList[t]) \in Nat
  BY RsyncAssumption
<1> QED
  BY <1>1 DEF Init, LoopInv

(* A step that leaves clients, destinations and loops alone.                *)
LEMMA StutterLoops ==
  ASSUME LoopInv, UNCHANGED << visited, clients, dst >>
  PROVE  LoopInv'
BY DEF LoopInv

(* CreateClient gives the pods the PVCs of its own list. *)
LEMMA CreateClientLoops ==
  ASSUME LoopInv, NEW t \in Transfers, CreateClientPod(t)
  PROVE  LoopInv'
<1>1. PVCList[t] \in Seq(PVCs) /\ Len(PVCList[t]) \in Nat
  BY RsyncAssumption
<1>2. visited' = [visited EXCEPT ![t] = visited[t] + 1] /\ UNCHANGED dst
  BY DEF CreateClientPod
<1>3. visited[t] \in Nat /\ visited[t] < Len(PVCList[t])
  BY DEF LoopInv, CreateClientPod
<1>4. visited'[t] = visited[t] + 1
  BY <1>2 DEF LoopInv
<1>5. visited'[t] \in 1..Len(PVCList[t])
  BY <1>1, <1>3, <1>4
<1>6. PVCList[t][visited'[t]] \in PVCs
  BY <1>1, <1>5
<1>7. NewPod(t, PVCList[t][visited'[t]]).pvc \in PVCs
  BY <1>6 DEF NewPod
<1>8. \A c \in clients' : c \in clients \/ c = NewPod(t, PVCList[t][visited'[t]])
  BY DEF CreateClientPod
<1>9. visited' \in [Transfers -> Nat]
  BY <1>2, <1>3 DEF LoopInv
<1>10. \A u \in Transfers : visited'[u] <= Len(PVCList[u])
  BY <1>2, <1>5 DEF LoopInv
<1> QED
  BY <1>2, <1>7, <1>8, <1>9, <1>10 DEF LoopInv

LEMMA CallerLoops ==
  ASSUME LoopInv, NEW t \in Transfers, CallerStep(t) \/ Crash(t)
  PROVE  LoopInv'
<1>1. CASE StunnelStep(t) /\ UNCHANGED rsyncVars
  BY <1>1, StutterLoops DEF rsyncVars
<1>2. CASE IsServerHealthy(t) \/ Requeue(t) \/ PollServer(t)
  BY <1>2, StutterLoops DEF IsServerHealthy, OnHealth, Requeue, PollServer, rsyncVars
<1>3. CASE CreateRsyncConf(t) \/ CreateRsyncSecret(t) \/ CreateRsyncPod(t)
  BY <1>3, StutterLoops DEF CreateRsyncConf, CreateRsyncSecret, CreateRsyncPod
<1>4. CASE CreateClientPod(t)
  BY <1>4, CreateClientLoops
<1>5. CASE CreateClientReturns(t) \/ Crash(t)
  <2>1. /\ visited' = [visited EXCEPT ![t] = 0]
        /\ UNCHANGED << clients, dst >>
    BY <1>5 DEF CreateClientReturns, Crash
  <2>2. Len(PVCList[t]) \in Nat
    BY RsyncAssumption
  <2> QED
    BY <2>1, <2>2 DEF LoopInv
<1> QED
  BY <1>1, <1>2, <1>3, <1>4, <1>5 DEF CallerStep

(* A client that succeeds fills a volume with the data of some pair. *)
LEMMA PodLoops ==
  ASSUME LoopInv, PodStep
  PROVE  LoopInv'
<1>1. /\ UNCHANGED visited
      /\ Moves
  BY PodFrame DEF Frame
<1>2. \A c \in clients' : c.pvc \in PVCs
  BY <1>1 DEF LoopInv, Moves, Moved
<1>3. dst' \in [PVCs -> PVCs \cup {Empty}]
  <2>1. ASSUME NEW c \in clients, ClientSucceeds(c)
        PROVE  dst' \in [PVCs -> PVCs \cup {Empty}]
    <3>1. c.pvc \in PVCs
      BY DEF LoopInv
    <3>2. dst' = [d \in PVCs |-> IF Serves(c.pvc, d) THEN c.pvc ELSE dst[d]]
      BY <2>1 DEF ClientSucceeds
    <3> QED
      BY <3>1, <3>2 DEF LoopInv
  <2>2. (\E c \in clients : ClientSucceeds(c)) \/ UNCHANGED dst
    BY DEF PodStep, ClientStep, ServerReady, ClientStarts, ClientFails, ClientBreaks, vars,
       rsyncVars
  <2> QED
    BY <2>1, <2>2 DEF LoopInv
<1> QED
  BY <1>1, <1>2, <1>3 DEF LoopInv

-----------------------------------------------------------------------------
(* What a step of one caller leaves alone: the objects that are there, and  *)
(* what the others hold.                                                    *)
LEMMA CallerFrame ==
  ASSUME ObjectsInv, NEW t \in Transfers, CallerStep(t) \/ Crash(t)
  PROVE  Kept /\ OthersStay(t)
<1>0. Typed /\ None \notin Nat
  BY StunnelAssumption DEF ObjectsInv
<1>1. ASSUME NEW applied, NEW ok, NEW bad, Reply(t, applied, ok, bad)
      PROVE  \A u \in Transfers \ {t} : pc'[u] = pc[u] /\ errs'[u] = errs[u]
  BY <1>0, <1>1 DEF Reply, Goto, Typed
<1>2. ASSUME NEW bad, Rejected(t, bad)
      PROVE  \A u \in Transfers \ {t} : pc'[u] = pc[u] /\ errs'[u] = errs[u]
  BY <1>0, <1>2 DEF Rejected, Goto, Typed
<1>3. CASE Begin(t)
  BY <1>0, <1>3 DEF Begin, Goto, Typed, Kept, OthersStay, stunnelObjects
<1>4. CASE GetTransport(t)
  <2>1. \A u \in Transfers \ {t} : pc'[u] = pc[u] /\ errs'[u] = errs[u]
    BY <1>0, <1>1, <1>4 DEF GetTransport, Goto, Typed
  <2> QED
    BY <1>0, <1>4, <2>1 DEF GetTransport, Typed, Kept, OthersStay, stunnelObjects
<1>5. CASE CreateServerConf(t)
  BY <1>0, <1>1, <1>5 DEF CreateServerConf, Kept, OthersStay
<1>6. CASE CreateServerSecret(t)
  <2>1. \A u \in Transfers \ {t} : pc'[u] = pc[u] /\ errs'[u] = errs[u]
    BY <1>1, <1>6 DEF CreateServerSecret
  <2>2. serverSecret # None => serverSecret' # None
    BY <1>6 DEF CreateServerSecret, Created
  <2> QED
    BY <1>0, <1>6, <2>1, <2>2 DEF CreateServerSecret, Typed, Kept, OthersStay
<1>7. CASE CreateClientConf(t)
  BY <1>0, <1>1, <1>7 DEF CreateClientConf, Kept, OthersStay
<1>8. CASE CreateClientSecret(t)
  <2>1. \A u \in Transfers \ {t} : pc'[u] = pc[u] /\ errs'[u] = errs[u]
    BY <1>1, <1>8 DEF CreateClientSecret
  <2>2. clientSecret # None => clientSecret' # None
    BY <1>8 DEF CreateClientSecret, Created
  <2> QED
    BY <1>8, <2>1, <2>2 DEF CreateClientSecret, Kept, OthersStay
<1>9. CASE IsServerHealthy(t)
  <2>1. \A u \in Transfers \ {t} : pc'[u] = pc[u] /\ errs'[u] = errs[u]
    BY <1>0, <1>1, <1>9 DEF IsServerHealthy, OnHealth, Goto, Typed
  <2> QED
    BY <1>9, <2>1 DEF IsServerHealthy, OnHealth, Kept, OthersStay, stunnelObjects
<1>10. CASE Requeue(t) \/ PollServer(t) \/ CreateClientReturns(t) \/ Crash(t)
  <2>1. \E step : Goto(t, step)
    BY <1>10 DEF Requeue, PollServer, CreateClientReturns, Crash
  <2>2. UNCHANGED << stunnelObjects, handle, errs >>
    BY <1>10 DEF Requeue, PollServer, CreateClientReturns, Crash
  <2> QED
    BY <1>0, <2>1, <2>2 DEF Goto, Typed, Kept, OthersStay, stunnelObjects
<1>11. CASE CreateRsyncConf(t) \/ CreateRsyncSecret(t) \/ CreateRsyncPod(t)
  <2>1. \A u \in Transfers \ {t} : pc'[u] = pc[u] /\ errs'[u] = errs[u]
    BY <1>1, <1>2, <1>11 DEF CreateRsyncConf, CreateRsyncSecret, CreateRsyncPod
  <2>2. UNCHANGED << stunnelObjects, handle >>
    BY <1>11 DEF CreateRsyncConf, CreateRsyncSecret, CreateRsyncPod
  <2> QED
    BY <2>1, <2>2 DEF Kept, OthersStay, stunnelObjects
<1>12. CASE CreateClientPod(t)
  <2>1. \A u \in Transfers \ {t} : pc'[u] = pc[u] /\ errs'[u] = errs[u]
    BY <1>1, <1>2, <1>12 DEF CreateClientPod
  <2> QED
    BY <1>0, <1>12, <2>1 DEF CreateClientPod, Typed, Kept, OthersStay, stunnelObjects
<1> QED
  BY <1>3, <1>4, <1>5, <1>6, <1>7, <1>8, <1>9, <1>10, <1>11, <1>12 DEF CallerStep, StunnelStep

-----------------------------------------------------------------------------
(* Certificates are paid for: each generation beyond the first one of a     *)
(* transfer costs a failed call, a lost reply or a crash.                   *)

(* A caller whose fault is to be spent on its next certificate ...          *)
Owes(t) == pc[t] = "serverSecret" /\ errs[t]
(* ... and one that will generate none without another fault, because its   *)
(* attempt may still complete the objects or finds them complete.           *)
Paid(t) == \/ pc[t] \in {"clientConf", "clientSecret"} /\ ~errs[t]
           \/ AllObjects /\ pc[t] \notin {"serverConf", "serverSecret"}

Debt(t) == IF Owes(t) THEN 1 ELSE 0
Credit(t) == IF Paid(t) THEN 1 ELSE 0

Owing == { t \in Transfers : Owes(t) }
Paying == { t \in Transfers : Paid(t) }

Ledger ==
  /\ faults \in 0..MaxFaults
  /\ certs + Cardinality(Owing) <= faults + Cardinality(Paying)
  /\ \A t \in Transfers : pc[t] \in {"get", "serverConf"} => ~errs[t]

(* A set of transfers that loses no element but t.                          *)
LEMMA CountKept ==
  ASSUME NEW S \in SUBSET Transfers, NEW S2 \in SUBSET Transfers, NEW t \in Transfers,
         S \ {t} \subseteq S2
  PROVE  /\ Cardinality(S) \in Nat /\ Cardinality(S2) \in Nat
         /\ Cardinality(S) - (IF t \in S THEN 1 ELSE 0)
              <= Cardinality(S2) - (IF t \in S2 THEN 1 ELSE 0)
<1>1. /\ IsFiniteSet(S) /\ IsFiniteSet(S2)
      /\ Cardinality(S) \in Nat /\ Cardinality(S2) \in Nat
  BY StunnelAssumption, FS_Subset, FS_CardinalityType
<1>2. /\ Cardinality(S \ {t}) = IF t \in S THEN Cardinality(S) - 1 ELSE Cardinality(S)
      /\ Cardinality(S2 \ {t}) = IF t \in S2 THEN Cardinality(S2) - 1 ELSE Cardinality(S2)
  BY <1>1, FS_RemoveElement
<1>3. Cardinality(S \ {t}) <= Cardinality(S2 \ {t})
  <2>1. S \ {t} \in SUBSET (S2 \ {t}) /\ IsFiniteSet(S2 \ {t})
    BY <1>1, FS_RemoveElement
  <2> QED
    BY <2>1, FS_Subset
<1> QED
  BY <1>1, <1>2, <1>3

(* What a step does to t's own account.                                     *)
Settles(t) ==
  /\ certs' \in Nat /\ faults' \in 0..MaxFaults
  /\ pc'[t] \in {"get", "serverConf"} => ~errs'[t]
  /\ certs' + Debt(t)' + faults + Credit(t) <= faults' + Credit(t)' + certs + Debt(t)

(* A step of t keeps the ledger if it does in t's own account.              *)
LEMMA LedgerStep ==
  ASSUME ObjectsInv, Ledger, Kept, NEW t \in Transfers, OthersStay(t),
         Settles(t)
  PROVE  Ledger'
<1>1. \A u \in Transfers \ {t} : pc'[u] = pc[u] /\ errs'[u] = errs[u]
  BY DEF OthersStay
<1>2. certs \in Nat /\ certs' \in Nat /\ faults \in Nat /\ faults' \in Nat
  BY StunnelAssumption DEF ObjectsInv, Typed, Ledger, Settles
<1>3. /\ Owing \in SUBSET Transfers /\ Owing' \in SUBSET Transfers
      /\ Paying \in SUBSET Transfers /\ Paying' \in SUBSET Transfers
  BY DEF Owing, Paying
<1>4. Owing' \ {t} = Owing \ {t}
  BY <1>1 DEF Owing, Owes
<1>5. AllObjects => AllObjects'
  BY DEF Kept, AllObjects
<1>6. Paying \ {t} \subseteq Paying'
  BY <1>1, <1>5 DEF Paying, Paid
<1>7. /\ (t \in Owing <=> Owes(t)) /\ (t \in Owing' <=> Owes(t)')
      /\ (t \in Paying <=> Paid(t)) /\ (t \in Paying' <=> Paid(t)')
  <2>1. (t \in Owing <=> Owes(t)) /\ (t \in Owing' <=> Owes(t)')
    BY DEF Owing, Owes
  <2>2. (t \in Paying <=> Paid(t)) /\ (t \in Paying' <=> Paid(t)')
    BY DEF Paying, Paid
  <2> QED
    BY <2>1, <2>2
<1>8. certs' + Cardinality(Owing') <= faults' + Cardinality(Paying')
  <2>1. \A S, S2 \in SUBSET Transfers : S \ {t} \subseteq S2 =>
          /\ Cardinality(S) \in Nat /\ Cardinality(S2) \in Nat
          /\ Cardinality(S) - (IF t \in S THEN 1 ELSE 0)
               <= Cardinality(S2) - (IF t \in S2 THEN 1 ELSE 0)
    BY CountKept
  <2>2. /\ Debt(t) \in Int /\ Debt(t)' \in Int /\ Credit(t) \in Int /\ Credit(t)' \in Int
    BY DEF Debt, Credit
  <2> PICK o \in Int, o2 \in Int : o = Debt(t) /\ o2 = Debt(t)'
    BY <2>2
  <2> PICK p \in Int, p2 \in Int : p = Credit(t) /\ p2 = Credit(t)'
    BY <2>2
  <2>3. PICK n \in Int, n2 \in Int : /\ n = Cardinality(Owing) /\ n2 = Cardinality(Owing')
                                     /\ n2 - o2 <= n - o
    BY <1>3, <1>4, <1>7, <2>1 DEF Debt
  <2>4. PICK m \in Int, m2 \in Int : /\ m = Cardinality(Paying) /\ m2 = Cardinality(Paying')
                                     /\ m - p <= m2 - p2
    BY <1>3, <1>6, <1>7, <2>1 DEF Credit
  <2>5. PICK c \in Int, c2 \in Int, f \in Int, f2 \in Int :
          /\ c = certs /\ c2 = certs' /\ f = faults /\ f2 = faults'
          /\ c2 + o2 + f + p <= f2 + p2 + c + o
          /\ c + n <= f + m
    BY <1>2, <2>3, <2>4 DEF Settles, Ledger
  <2>6. c2 + n2 <= f2 + m2
    BY <2>3, <2>4, <2>5
  <2> QED
    BY <2>3, <2>4, <2>5, <2>6
<1>9. \A u \in Transfers : pc'[u] \in {"get", "serverConf"} => ~errs'[u]
  BY <1>1 DEF Ledger, Settles
<1> QED
  BY <1>8, <1>9 DEF Ledger, Owing, Paying, Owes, Paid, Settles

(* What a reply costs.                                                      *)
LEMMA ReplyCosts ==
  ASSUME Typed, faults \in 0..MaxFaults, NEW t \in Transfers, NEW applied \in BOOLEAN,
         NEW ok \in Steps, NEW bad \in Steps, Reply(t, applied, ok, bad)
  PROVE  /\ faults' \in 0..MaxFaults
         /\ \/ applied /\ pc'[t] = ok /\ errs'[t] = errs[t] /\ faults' = faults
            \/ pc'[t] = bad /\ errs'[t] /\ faults' = faults + 1
BY StunnelAssumption DEF Typed, Reply, Goto

(* A step that generates no certificate settles when it costs a fault, or   *)
(* when who has paid still has.                                             *)
LEMMA SettlesFree ==
  ASSUME Ledger, Typed, NEW t \in Transfers, certs' = certs, faults' \in 0..MaxFaults,
         pc'[t] \notin {"serverConf", "serverSecret"}, pc'[t] = "get" => ~errs'[t],
         \/ faults' = faults /\ (Paid(t) => Paid(t)')
         \/ faults' = faults + 1
  PROVE  Settles(t)
<1>1. Debt(t) \in {0, 1} /\ Credit(t) \in {0, 1} /\ Debt(t)' = 0
  BY DEF Debt, Credit, Owes
<1>2. Credit(t)' \in {0, 1} /\ (faults' = faults => Credit(t) <= Credit(t)')
  BY DEF Credit
<1>3. PICK c \in Int, f \in Int, f2 \in Int :
        c = certs /\ f = faults /\ f2 = faults' /\ (f2 = f \/ f2 = f + 1)
  BY StunnelAssumption DEF Typed, Ledger
<1>4. PICK o \in {0, 1}, p \in {0, 1}, p2 \in {0, 1} :
        o = Debt(t) /\ p = Credit(t) /\ p2 = Credit(t)'
  BY <1>1, <1>2
<1>5. c + 0 + f + p <= f2 + p2 + c + o
  <2>1. f2 = f => p <= p2
    BY <1>2, <1>3, <1>4
  <2> QED
    BY <1>3, <2>1
<1>6. certs' \in Nat
  BY DEF Typed
<1> QED
  BY <1>1, <1>3, <1>4, <1>5, <1>6 DEF Settles

(* CreateServer: an error before the certificate is generated pays for it,  *)
(* and so does one after; without an error the transfer has had its own.    *)
LEMMA SettlesServer ==
  ASSUME Ledger, Typed, NEW t \in Transfers, CreateServerConf(t) \/ CreateServerSecret(t)
  PROVE  Settles(t)
<1>0. /\ certs \in Nat /\ faults \in Nat /\ faults \in 0..MaxFaults /\ MaxFaults \in Nat
      /\ errs[t] \in BOOLEAN
  BY StunnelAssumption DEF Typed, Ledger
<1>1. CASE CreateServerConf(t)
  <2>1. PICK applied \in BOOLEAN : Reply(t, applied, "serverSecret", "serverSecret")
    BY <1>1 DEF CreateServerConf
  <2>2. /\ faults' \in 0..MaxFaults
        /\ pc'[t] = "serverSecret"
        /\ \/ errs'[t] = errs[t] /\ faults' = faults
           \/ errs'[t] /\ faults' = faults + 1
    BY <1>0, <2>1, ReplyCosts DEF Steps
  <2>3. pc[t] = "serverConf" /\ ~errs[t] /\ certs' = certs
    BY <1>1 DEF CreateServerConf, Ledger
  <2>4. Debt(t) = 0 /\ Credit(t) = 0
    BY <2>3 DEF Debt, Credit, Owes, Paid
  <2>5. Credit(t)' = 0 /\ Debt(t)' = IF errs'[t] THEN 1 ELSE 0
    BY <2>2 DEF Debt, Credit, Owes, Paid
  <2>6. \/ faults' = faults /\ Debt(t)' = 0
        \/ faults' = faults + 1 /\ Debt(t)' = 1
    BY <2>2, <2>3, <2>5
  <2>7. certs' + Debt(t)' + faults + Credit(t) <= faults' + Credit(t)' + certs + Debt(t)
    BY <1>0, <2>3, <2>4, <2>5, <2>6
  <2> QED
    BY <1>0, <2>2, <2>3, <2>7 DEF Settles
<1>2. CASE CreateServerSecret(t)
  <2>1. PICK applied \in BOOLEAN : Reply(t, applied, Aggregate(t, "clientConf"), "failed")
    BY <1>2 DEF CreateServerSecret
  <2>2. /\ Aggregate(t, "clientConf") \in Steps
        /\ Aggregate(t, "clientConf") = IF errs[t] THEN "failed" ELSE "clientConf"
    BY DEF Aggregate, Steps
  <2>3. /\ faults' \in 0..MaxFaults
        /\ \/ /\ pc'[t] = IF errs[t] THEN "failed" ELSE "clientConf"
              /\ errs'[t] = errs[t] /\ faults' = faults
           \/ pc'[t] = "failed" /\ faults' = faults + 1
    BY <1>0, <2>1, <2>2, ReplyCosts DEF Steps
  <2>4. pc[t] = "serverSecret" /\ certs' = certs + 1
    BY <1>2 DEF CreateServerSecret
  <2>5. Credit(t) = 0 /\ Debt(t) = IF errs[t] THEN 1 ELSE 0
    BY <2>4 DEF Debt, Credit, Owes, Paid
  <2>6. Debt(t)' = 0 /\ Credit(t)' \in {0, 1}
    BY <2>3 DEF Debt, Credit, Owes
  <2>7. pc'[t] = "clientConf" /\ ~errs'[t] => Credit(t)' = 1
    BY DEF Credit, Paid
  <2>8. \/ faults' = faults /\ Debt(t) = 1
        \/ faults' = faults /\ Debt(t) = 0 /\ Credit(t)' = 1
        \/ faults' = faults + 1 /\ Debt(t) \in {0, 1}
    BY <2>3, <2>5, <2>7
  <2>9. certs' + Debt(t)' + faults + Credit(t) <= faults' + Credit(t)' + certs + Debt(t)
    BY <1>0, <2>4, <2>5, <2>6, <2>8
  <2>10. pc'[t] \in {"failed", "clientConf"} /\ certs' \in Nat
    BY <1>0, <2>3, <2>4
  <2> QED
    BY <2>3, <2>9, <2>10 DEF Settles
<1> QED
  BY <1>1, <1>2

LEMMA SettlesCaller ==
  ASSUME ObjectsInv, Ledger, NEW t \in Transfers, Kept, CallerStep(t) \/ Crash(t)
  PROVE  Settles(t)
<1>0. /\ Typed /\ Progress(t) /\ (AllObjects => AllObjects')
      /\ faults \in 0..MaxFaults
  BY DEF ObjectsInv, Ledger, Kept, AllObjects
<1> DEFINE Free == /\ certs' = certs /\ faults' \in 0..MaxFaults
                   /\ pc'[t] \notin {"serverConf", "serverSecret"}
                   /\ pc'[t] = "get" => ~errs'[t]
                   /\ \/ faults' = faults /\ (Paid(t) => Paid(t)')
                      \/ faults' = faults + 1
           Late == {"clients", "done", "failed", "idle", "rsyncConf", "rsyncSecret",
                    "rsyncPod", "poll", "ready"}
<1>1. ASSUME Free PROVE Settles(t)
  BY <1>0, <1>1, SettlesFree
<1>2. ASSUME certs' = certs, NEW ok \in Late, NEW bad \in Late, NEW applied \in BOOLEAN,
             pc[t] \in Late \cup {"get", "created"}, Reply(t, applied, ok, bad)
      PROVE  Settles(t)
  <2>1. ok \in Steps /\ bad \in Steps
    BY DEF Steps
  <2>2. faults' \in 0..MaxFaults /\ (faults' = faults \/ faults' = faults + 1)
        /\ pc'[t] \in Late
    BY <1>0, <1>2, <2>1, ReplyCosts
  <2>3. Paid(t) => Paid(t)'
    BY <1>0, <1>2, <2>2 DEF Paid
  <2> QED
    BY <1>1, <1>2, <2>2, <2>3
<1>3. ASSUME certs' = certs, NEW step \in Late, faults' = faults,
             pc[t] \in Late \cup {"get", "created"}, Goto(t, step)
      PROVE  Settles(t)
  <2>1. pc'[t] \in Late
    BY <1>0, <1>3 DEF Goto, Typed
  <2>2. Paid(t) => Paid(t)'
    BY <1>0, <1>3, <2>1 DEF Paid
  <2> QED
    BY <1>0, <1>1, <1>3, <2>1, <2>2
<1>4. CASE Begin(t)
  <2>1. pc'[t] = "get" /\ ~errs'[t] /\ certs' = certs /\ faults' = faults
    BY <1>0, <1>4 DEF Begin, Goto, Typed
  <2>2. Paid(t) => Paid(t)'
    BY <1>0, <1>4, <2>1 DEF Begin, Paid
  <2> QED
    BY <1>0, <1>1, <2>1, <2>2
<1>5. CASE GetTransport(t)
  <2>1. CASE Goto(t, "ready") /\ UNCHANGED faults
    BY <1>3, <1>5, <2>1 DEF GetTransport
  <2>2. CASE ~AllObjects /\ Goto(t, "serverConf") /\ UNCHANGED << handle, errs, faults >>
    <3>1. /\ pc'[t] = "serverConf" /\ certs' = certs /\ faults' = faults
          /\ pc[t] = "get" /\ ~errs[t] /\ ~errs'[t]
      BY <1>0, <1>5, <2>2 DEF GetTransport, Goto, Typed, Ledger
    <3>2. Debt(t) = 0 /\ Debt(t)' = 0 /\ Credit(t) = 0 /\ Credit(t)' = 0
      BY <2>2, <3>1 DEF Debt, Credit, Owes, Paid
    <3>3. certs \in Nat /\ faults \in Nat
      BY <1>0, StunnelAssumption DEF Typed
    <3>4. certs' + Debt(t)' + faults + Credit(t) <= faults' + Credit(t)' + certs + Debt(t)
      BY <3>1, <3>2, <3>3
    <3> QED
      BY <1>0, <3>1, <3>3, <3>4 DEF Settles
  <2>3. CASE Reply(t, FALSE, "ready", "failed")
    BY <1>2, <1>5, <2>3 DEF GetTransport
  <2> QED
    BY <1>5, <2>1, <2>2, <2>3 DEF GetTransport
<1>6. CASE CreateServerConf(t) \/ CreateServerSecret(t)
  BY <1>0, <1>6, SettlesServer
<1>7. CASE CreateClientConf(t)
  <2>1. PICK applied \in BOOLEAN : Reply(t, applied, "clientSecret", "clientSecret")
    BY <1>7 DEF CreateClientConf
  <2>2. /\ faults' \in 0..MaxFaults /\ pc'[t] = "clientSecret"
        /\ \/ errs'[t] = errs[t] /\ faults' = faults
           \/ faults' = faults + 1
    BY <1>0, <2>1, ReplyCosts DEF Steps
  <2>3. faults' = faults => (Paid(t) => Paid(t)')
    BY <1>0, <1>7, <2>2, StunnelAssumption DEF CreateClientConf, Paid
  <2> QED
    BY <1>1, <1>7, <2>2, <2>3 DEF CreateClientConf
<1>8. CASE CreateClientSecret(t)
  <2>1. PICK applied \in BOOLEAN :
          /\ clientSecret' = IF applied THEN Created(clientSecret, handle[t].crt)
                             ELSE clientSecret
          /\ Reply(t, applied, Aggregate(t, "created"), "failed")
    BY <1>8 DEF CreateClientSecret
  <2>2. /\ Aggregate(t, "created") \in Steps
        /\ Aggregate(t, "created") = IF errs[t] THEN "failed" ELSE "created"
    BY DEF Aggregate, Steps
  <2>3. /\ faults' \in 0..MaxFaults
        /\ \/ /\ applied /\ pc'[t] = IF errs[t] THEN "failed" ELSE "created"
              /\ errs'[t] = errs[t] /\ faults' = faults
           \/ pc'[t] = "failed" /\ faults' = faults + 1
    BY <1>0, <2>1, <2>2, ReplyCosts DEF Steps
  <2>4. ~errs[t] /\ applied => AllObjects'
    BY <1>0, <1>8, <2>1 DEF CreateClientSecret, Progress, AllObjects, Created
  <2>5. faults' = faults => (Paid(t) => Paid(t)')
    BY <1>0, <1>8, <2>3, <2>4, StunnelAssumption DEF CreateClientSecret, Paid
  <2>6. pc'[t] \in {"failed", "created"}
    BY <2>3
  <2> QED
    BY <1>1, <1>8, <2>3, <2>5, <2>6 DEF CreateClientSecret
<1>9. CASE IsServerHealthy(t)
  BY <1>2, <1>3, <1>9 DEF IsServerHealthy, OnHealth, HasTransport
<1>10. CASE Requeue(t) \/ PollServer(t)
  BY <1>3, <1>10 DEF Requeue, PollServer
<1>11. CASE CreateClientReturns(t)
  <2>1. Aggregate(t, "done") \in Late
    BY DEF Aggregate
  <2> QED
    BY <1>3, <1>11, <2>1 DEF CreateClientReturns
<1>12. CASE CreateRsyncConf(t) \/ CreateRsyncSecret(t)
  BY <1>2, <1>12 DEF CreateRsyncConf, CreateRsyncSecret
<1>13. CASE CreateRsyncPod(t)
  <2>1. Aggregate(t, "poll") \in Late
    BY DEF Aggregate
  <2>2. Rejected(t, "failed") => Goto(t, "failed") /\ faults' = faults
    BY DEF Rejected
  <2> QED
    BY <1>2, <1>3, <1>13, <2>1, <2>2 DEF CreateRsyncPod
<1>14. CASE CreateClientPod(t)
  <2>1. Rejected(t, "clients") => Goto(t, "clients") /\ faults' = faults
    BY DEF Rejected
  <2> QED
    BY <1>2, <1>3, <1>14, <2>1 DEF CreateClientPod
<1>15. CASE Crash(t)
  <2>1. pc'[t] = "idle" /\ faults' = faults + 1 /\ faults' \in 0..MaxFaults /\ certs' = certs
    BY <1>0, <1>15, StunnelAssumption DEF Crash, Goto, Typed
  <2> QED
    BY <1>1, <2>1
<1> QED
  BY <1>4, <1>5, <1>6, <1>7, <1>8, <1>9, <1>10, <1>11, <1>12, <1>13, <1>14, <1>15
     DEF CallerStep, StunnelStep

-----------------------------------------------------------------------------
(* Types.                                                                   *)

(* Every certificate that is stored or held has been generated.             *)
CertsKnown ==
  /\ {serverSecret, clientSecret} \subseteq 1..certs \cup {None}
  /\ \A t \in Transfers : handle[t].crt \in 1..certs \cup {None}

PodsTyped ==
  /\ {rsyncSecret, ready} \subseteq BOOLEAN
  /\ {rsyncConf, server} \subseteq Transfers \cup {None}
  /\ clients \subseteq Pod /\ IsFiniteSet(clients)

TypeInv == ObjectsInv /\ Ledger /\ CertsKnown /\ PodsTyped /\ LoopInv

LEMMA InitTypeInv == Init => TypeInv
<1> SUFFICES ASSUME Init PROVE TypeInv
  OBVIOUS
<1>1. Owing = {} /\ faults = 0 /\ certs = 0
  BY DEF Init, StunnelInit, Owing, Owes
<1>2. IsFiniteSet(Paying) /\ Cardinality(Paying) \in Nat
  <2>1. Paying \in SUBSET Transfers
    BY DEF Paying
  <2> QED
    BY <2>1, StunnelAssumption, FS_Subset, FS_CardinalityType
<1>3. certs + Cardinality(Owing) <= faults + Cardinality(Paying)
  BY <1>1, <1>2, FS_EmptySet
<1>4. Ledger
  BY <1>1, <1>3, StunnelAssumption DEF Init, StunnelInit, Ledger
<1>5. CertsKnown
  BY DEF Init, StunnelInit, NewTransport, CertsKnown
<1>6. PodsTyped
  BY FS_EmptySet DEF Init, PodsTyped
<1> QED
  BY <1>4, <1>5, <1>6, InitObjects, InitLoops DEF TypeInv

(* The pods move, callers do not; a client that breaks costs a fault. *)
LEMMA PodsTypeInv ==
  ASSUME TypeInv, PodStep
  PROVE  TypeInv'
<1>1. Frame
  BY PodFrame
<1>2. UNCHANGED << stunnelObjects, certs, handle, pc, errs, rsyncConf, rsyncSecret, server >>
  BY <1>1 DEF Frame
<1>3. ObjectsInv'
  BY <1>2, StutterKeepsObjects DEF TypeInv
<1>4. Ledger'
  <2>1. faults' \in 0..MaxFaults /\ faults' >= faults /\ faults \in Nat /\ faults' \in Nat
    BY <1>1, StunnelAssumption DEF Frame, TypeInv, Ledger
  <2>2. Owing' = Owing /\ Paying' = Paying
    BY <1>2 DEF Owing, Paying, Owes, Paid, AllObjects, stunnelObjects
  <2>3. Cardinality(Owing) \in Nat /\ Cardinality(Paying) \in Nat
    <3>1. Owing \in SUBSET Transfers /\ Paying \in SUBSET Transfers
      BY DEF Owing, Paying
    <3> QED
      BY <3>1, StunnelAssumption, FS_Subset, FS_CardinalityType
  <2>4. certs' + Cardinality(Owing') <= faults' + Cardinality(Paying')
    BY <1>2, <2>1, <2>2, <2>3 DEF TypeInv, Ledger, ObjectsInv, Typed
  <2> QED
    BY <1>2, <2>1, <2>4 DEF TypeInv, Ledger
<1>5. CertsKnown'
  BY <1>2 DEF TypeInv, CertsKnown, stunnelObjects
<1>6. PodsTyped'
  <2>1. ASSUME NEW c \in clients, NEW phase \in Phases
        PROVE  /\ (clients \ {c}) \cup {Moved(c, phase)} \subseteq Pod
               /\ IsFiniteSet((clients \ {c}) \cup {Moved(c, phase)})
    <3>1. c \in Pod /\ clients \subseteq Pod /\ IsFiniteSet(clients)
      BY DEF TypeInv, PodsTyped
    <3>2. Moved(c, phase) \in Pod
      BY <3>1 DEF Moved, Pod, Phases
    <3> QED
      BY <3>1, <3>2, FS_RemoveElement, FS_AddElement
  <2>2. clients' \subseteq Pod /\ IsFiniteSet(clients')
    BY <1>1, <2>1 DEF Frame, Moves, TypeInv, PodsTyped
  <2>3. ready' \in BOOLEAN
    BY <1>1 DEF Frame, TypeInv, PodsTyped
  <2> QED
    BY <1>2, <2>2, <2>3 DEF TypeInv, PodsTyped
<1>7. LoopInv'
  BY PodLoops DEF TypeInv
<1> QED
  BY <1>3, <1>4, <1>5, <1>6, <1>7 DEF TypeInv

LEMMA CallerCerts ==
  ASSUME TypeInv, NEW t \in Transfers, CallerStep(t) \/ Crash(t)
  PROVE  CertsKnown'
<1>0. /\ certs \in Nat /\ handle \in [Transfers -> Handle] /\ None \notin Nat
      /\ CertsKnown
  BY StunnelAssumption DEF TypeInv, ObjectsInv, Typed
<1>1. CASE Begin(t)
  BY <1>0, <1>1 DEF Begin, NewTransport, CertsKnown, stunnelObjects
<1>2. CASE GetTransport(t)
  <2>1. handle' = [handle EXCEPT ![t] = Rekeyed(t, clientSecret, Port)] \/ handle' = handle
    BY <1>2 DEF GetTransport
  <2>2. Rekeyed(t, clientSecret, Port).crt = clientSecret
    BY DEF Rekeyed
  <2> QED
    BY <1>0, <1>2, <2>1, <2>2 DEF GetTransport, CertsKnown, stunnelObjects
<1>3. CASE CreateServerSecret(t)
  <2>1. /\ certs' = certs + 1
        /\ handle' = [handle EXCEPT ![t] = Rekeyed(t, certs', handle[t].port)]
        /\ serverSecret' \in {serverSecret, certs'} /\ clientSecret' = clientSecret
    BY <1>3 DEF CreateServerSecret, Created
  <2>2. Rekeyed(t, certs', handle[t].port).crt = certs'
    BY DEF Rekeyed
  <2>3. 1..certs \subseteq 1..certs' /\ certs' \in 1..certs'
    BY <1>0, <2>1
  <2>4. {serverSecret', clientSecret'} \subseteq 1..certs' \cup {None}
    BY <1>0, <2>1, <2>3 DEF CertsKnown
  <2>5. \A u \in Transfers : handle'[u].crt \in 1..certs' \cup {None}
    BY <1>0, <2>1, <2>2, <2>3 DEF CertsKnown
  <2> QED
    BY <2>4, <2>5 DEF CertsKnown
<1>4. CASE CreateClientSecret(t)
  BY <1>0, <1>4 DEF CreateClientSecret, Created, CertsKnown
<1>5. CASE CreateClientPod(t)
  <2>1. Mounted(t).crt = handle[t].crt
    BY DEF Mounted
  <2> QED
    BY <1>0, <1>5, <2>1 DEF CreateClientPod, CertsKnown, stunnelObjects
<1>6. CASE CreateServerConf(t) \/ CreateClientConf(t)
  BY <1>0, <1>6 DEF CreateServerConf, CreateClientConf, CertsKnown
<1>7. CASE \/ IsServerHealthy(t) \/ Requeue(t) \/ PollServer(t)
           \/ CreateRsyncConf(t) \/ CreateRsyncSecret(t) \/ CreateRsyncPod(t)
           \/ CreateClientReturns(t) \/ Crash(t)
  <2>1. UNCHANGED << stunnelObjects, certs, handle >>
    BY <1>7 DEF IsServerHealthy, OnHealth, Requeue, PollServer, CreateRsyncConf,
       CreateRsyncSecret, CreateRsyncPod, CreateClientReturns, Crash
  <2> QED
    BY <1>0, <2>1 DEF CertsKnown, stunnelObjects
<1> QED
  BY <1>1, <1>2, <1>3, <1>4, <1>5, <1>6, <1>7 DEF CallerStep, StunnelStep

LEMMA CallerPods ==
  ASSUME TypeInv, NEW t \in Transfers, CallerStep(t) \/ Crash(t)
  PROVE  PodsTyped'
<1>0. PodsTyped
  BY DEF TypeInv
<1>1. CASE \/ StunnelStep(t) /\ UNCHANGED rsyncVars
           \/ IsServerHealthy(t) \/ Requeue(t) \/ PollServer(t)
           \/ CreateClientReturns(t) \/ Crash(t)
  BY <1>0, <1>1 DEF PodsTyped, rsyncVars, IsServerHealthy, OnHealth, Requeue, PollServer,
     CreateClientReturns, Crash
<1>2. CASE CreateRsyncConf(t) \/ CreateRsyncSecret(t) \/ CreateRsyncPod(t)
  BY <1>0, <1>2 DEF PodsTyped, CreateRsyncConf, CreateRsyncSecret, CreateRsyncPod, Created
<1>3. CASE CreateClientPod(t)
  <2>1. PVCList[t] \in Seq(PVCs) /\ visited[t] \in Nat /\ visited[t] < Len(PVCList[t])
        /\ visited'[t] = visited[t] + 1
    BY <1>3, RsyncAssumption DEF CreateClientPod, TypeInv, LoopInv
  <2>2. PVCList[t][visited'[t]] \in PVCs
    BY <2>1
  <2>3. Cardinality(clients) \in Nat /\ handle[t].port \in {0, Port}
    BY <1>0, FS_CardinalityType DEF PodsTyped, TypeInv, ObjectsInv, Typed, Handle
  <2>4. NewPod(t, PVCList[t][visited'[t]]) \in Pod
    BY <2>2, <2>3 DEF NewPod, Pod
  <2>5. clients' = clients \/ clients' = clients \cup {NewPod(t, PVCList[t][visited'[t]])}
    BY <1>3 DEF CreateClientPod
  <2>6. clients' \subseteq Pod /\ IsFiniteSet(clients')
    BY <1>0, <2>4, <2>5, FS_AddElement DEF PodsTyped
  <2> QED
    BY <1>0, <1>3, <2>6 DEF PodsTyped, CreateClientPod
<1> QED
  BY <1>1, <1>2, <1>3 DEF CallerStep

LEMMA NextTypeInv == TypeInv /\ [Next]_vars => TypeInv'
<1> SUFFICES ASSUME TypeInv, [Next]_vars PROVE TypeInv'
  OBVIOUS
<1>1. ASSUME NEW t \in Transfers, CallerStep(t) \/ Crash(t) PROVE TypeInv'
  <2>1. ObjectsInv /\ ObjectsInv' /\ Ledger /\ LoopInv
    BY NextKeepsObjects DEF TypeInv
  <2>2. Kept /\ OthersStay(t)
    BY <1>1, <2>1, CallerFrame
  <2>3. Ledger'
    BY <1>1, <2>1, <2>2, SettlesCaller, LedgerStep
  <2>4. LoopInv'
    BY <1>1, <2>1, CallerLoops
  <2> QED
    BY <1>1, <2>1, <2>3, <2>4, CallerCerts, CallerPods DEF TypeInv
<1>2. CASE PodStep
  BY <1>2, PodsTypeInv
<1> QED
  BY <1>1, <1>2 DEF Next, PodStep

LEMMA TypeInvariant == Spec => []TypeInv
BY InitTypeInv, NextTypeInv, PTL DEF Spec

(* Variables keep their types; and no more certificates are generated than  *)
(* there are transfers and faults: a caller that starts over makes another  *)
(* one only if its last attempt failed (createStunnelServerSecret makes one *)
(* in each call, GetTransportFromKubeObjects avoids the call).              *)
THEOREM WellTyped == Spec => []TypeOK
<1>1. TypeInv => TypeOK
  <2> SUFFICES ASSUME TypeInv PROVE TypeOK
    OBVIOUS
  <2>1. /\ Paying \in SUBSET Transfers /\ Owing \in SUBSET Transfers
        /\ IsFiniteSet(Transfers) /\ MaxFaults \in Nat
    BY StunnelAssumption DEF Paying, Owing
  <2>2. /\ Cardinality(Paying) \in Nat /\ Cardinality(Owing) \in Nat
        /\ Cardinality(Transfers) \in Nat
        /\ Cardinality(Paying) <= Cardinality(Transfers)
    BY <2>1, FS_Subset, FS_CardinalityType
  <2>3. certs \in Nat /\ faults \in 0..MaxFaults
        /\ certs + Cardinality(Owing) <= faults + Cardinality(Paying)
    BY DEF TypeInv, ObjectsInv, Typed, Ledger
  <2>4. certs \in 0..(Cardinality(Transfers) + MaxFaults)
    BY <2>1, <2>2, <2>3
  <2>5. ASSUME NEW t \in Transfers
        PROVE  handle[t] \in [crt : 1..certs \cup {None}, port : {0, Port}, mounts : Nat]
    <3>1. handle[t] \in Handle /\ handle[t].crt \in 1..certs \cup {None}
      BY DEF TypeInv, ObjectsInv, Typed, CertsKnown
    <3> QED
      BY <3>1 DEF Handle
  <2>6. handle \in [Transfers -> [crt : 1..certs \cup {None}, port : {0, Port}, mounts : Nat]]
    BY <2>5 DEF TypeInv, ObjectsInv, Typed
  <2> QED
    BY <2>3, <2>4, <2>6 DEF TypeInv, TypeOK, ObjectsInv, Typed, CertsKnown, PodsTyped, LoopInv
<1> QED
  BY <1>1, TypeInvariant, PTL

-----------------------------------------------------------------------------
(* One certificate for all who re-read the transport.                       *)

(* The secret is there when it is read, and stays.                          *)
AgreeInv ==
  \A t \in Transfers : HoldsTransport(t) => /\ clientSecret # None
                                          /\ handle[t].crt = clientSecret

(* A secret is created once, whatever certificate a later caller has made.  *)
LEMMA SecretStays ==
  ASSUME NEW t \in Transfers, CallerStep(t) \/ Crash(t), clientSecret # None
  PROVE  clientSecret' = clientSecret
<1>1. CASE CreateClientSecret(t)
  BY <1>1 DEF CreateClientSecret, Created
<1>2. CASE \/ Begin(t) \/ GetTransport(t) \/ CreateServerConf(t) \/ CreateServerSecret(t)
           \/ CreateClientConf(t)
  BY <1>2 DEF Begin, GetTransport, CreateServerConf, CreateServerSecret, CreateClientConf,
     stunnelObjects
<1>3. CASE \/ IsServerHealthy(t) \/ Requeue(t) \/ PollServer(t)
           \/ CreateRsyncConf(t) \/ CreateRsyncSecret(t) \/ CreateRsyncPod(t)
           \/ CreateClientPod(t) \/ CreateClientReturns(t) \/ Crash(t)
  BY <1>3 DEF IsServerHealthy, OnHealth, Requeue, PollServer, CreateRsyncConf,
     CreateRsyncSecret, CreateRsyncPod, CreateClientPod, CreateClientReturns, Crash,
     stunnelObjects
<1> QED
  BY <1>1, <1>2, <1>3 DEF CallerStep, StunnelStep

(* A step of t that ends with a transport in its hands began with it, or    *)
(* has read it now.                                                         *)
LEMMA HoldersRead ==
  ASSUME Reread, Typed, NEW t \in Transfers, CallerStep(t) \/ Crash(t), HoldsTransport(t)'
  PROVE  \/ /\ AllObjects /\ clientSecret' = clientSecret
            /\ handle'[t].crt = clientSecret
         \/ HoldsTransport(t) /\ handle'[t].crt = handle[t].crt
<1> DEFINE Early == {"idle", "get", "serverConf", "serverSecret", "clientConf",
                     "clientSecret", "created", "failed"}
<1>1. pc'[t] \in {"ready", "rsyncConf", "rsyncSecret", "rsyncPod", "poll", "clients", "done"}
  BY DEF HoldsTransport
<1>2. ASSUME NEW ok \in Early, NEW bad \in Early, NEW applied \in BOOLEAN,
             Reply(t, applied, ok, bad)
      PROVE  FALSE
  <2>1. pc'[t] = ok \/ pc'[t] = bad
    BY <1>2, ReplyMoves DEF Steps
  <2> QED
    BY <1>1, <2>1
<1>3. ASSUME NEW step \in Early, Goto(t, step)
      PROVE  FALSE
  BY <1>1, <1>3 DEF Goto, Typed
<1>4. CASE Begin(t) \/ Requeue(t) \/ Crash(t)
  BY <1>3, <1>4 DEF Begin, Requeue, Crash
<1>5. CASE GetTransport(t)
  <2>1. CASE AllObjects /\ handle' = [handle EXCEPT ![t] = Rekeyed(t, clientSecret, Port)]
    BY <1>5, <2>1 DEF GetTransport, Rekeyed, Typed, stunnelObjects
  <2>2. CASE Goto(t, "serverConf")
    BY <1>3, <2>2
  <2>3. CASE Reply(t, FALSE, "ready", "failed")
    BY <1>1, <2>3, ReplyMoves DEF Steps
  <2> QED
    BY <1>5, <2>1, <2>2, <2>3 DEF GetTransport
<1>6. CASE CreateServerConf(t) \/ CreateClientConf(t)
  BY <1>2, <1>6 DEF CreateServerConf, CreateClientConf
<1>7. CASE CreateServerSecret(t) \/ CreateClientSecret(t)
  <2>1. Aggregate(t, "clientConf") \in Early /\ Aggregate(t, "created") \in Early
    BY DEF Aggregate
  <2> QED
    BY <1>2, <1>7, <2>1 DEF CreateServerSecret, CreateClientSecret
<1>8. CASE \/ IsServerHealthy(t) \/ PollServer(t)
           \/ CreateRsyncConf(t) \/ CreateRsyncSecret(t) \/ CreateRsyncPod(t)
           \/ CreateClientReturns(t)
  <2>1. HoldsTransport(t) /\ handle' = handle
    BY <1>8 DEF IsServerHealthy, OnHealth, HasTransport, PollServer, CreateRsyncConf,
       CreateRsyncSecret, CreateRsyncPod, CreateClientReturns, HoldsTransport
  <2> QED
    BY <2>1
<1>9. CASE CreateClientPod(t)
  <2>1. HoldsTransport(t) /\ handle' = [handle EXCEPT ![t] = Mounted(t)]
    BY <1>9 DEF CreateClientPod, HoldsTransport
  <2> QED
    BY <2>1 DEF Mounted, Typed
<1> QED
  BY <1>4, <1>5, <1>6, <1>7, <1>8, <1>9 DEF CallerStep, StunnelStep

(* Transports that are re-read agree with the secret their clients mount    *)
(* (stunnel.go:154, client.go:143): a caller that began before the secret   *)
(* was there makes another certificate and finds the secret created.        *)
THEOREM ReadersHoldTheSecret ==
  ASSUME Reread
  PROVE  Spec => []ReadersAgree
<1>1. Init => AgreeInv
  BY DEF Init, StunnelInit, AgreeInv, HoldsTransport
<1>2. ObjectsInv /\ AgreeInv /\ [Next]_vars => AgreeInv'
  <2> SUFFICES ASSUME ObjectsInv, AgreeInv, [Next]_vars PROVE AgreeInv'
    OBVIOUS
  <2>1. CASE PodStep
    <3>1. UNCHANGED << clientSecret, handle, pc >>
      BY <2>1, PodFrame DEF Frame, stunnelObjects
    <3> QED
      BY <3>1 DEF AgreeInv, HoldsTransport
  <2>2. ASSUME NEW t \in Transfers, CallerStep(t) \/ Crash(t), NEW u \in Transfers,
               HoldsTransport(u)'
        PROVE  clientSecret' # None /\ handle'[u].crt = clientSecret'
    <3>1. CASE u = t
      BY <2>2, <3>1, HoldersRead, SecretStays DEF AgreeInv, ObjectsInv, AllObjects
    <3>2. CASE u # t
      <4>1. pc'[u] = pc[u] /\ handle'[u] = handle[u]
        BY <2>2, <3>2, CallerFrame DEF OthersStay
      <4>2. HoldsTransport(u)
        BY <2>2, <4>1 DEF HoldsTransport
      <4> QED
        BY <2>2, <4>1, <4>2, SecretStays DEF AgreeInv
    <3> QED
      BY <3>1, <3>2
  <2> QED
    BY <2>1, <2>2 DEF Next, PodStep, AgreeInv
<1>3. AgreeInv => ReadersAgree
  BY DEF AgreeInv, ReadersAgree
<1> QED
  BY <1>1, <1>2, <1>3, InitObjects, NextKeepsObjects, PTL DEF Spec

-----------------------------------------------------------------------------
(* A reachable daemon.  Success of CreateClient says something of the       *)
(* daemon under three conditions: the transport was re-read from its        *)
(* objects, since one just created lacks its port; the callers have waited  *)
(* for a healthy server; and those that share the daemon, whose             *)
(* configuration and pod are made once for all of them, have the same       *)
(* volumes to transfer.                                                     *)
SameVolumes == \A t, u \in Transfers : Range(PVCList[t]) = Range(PVCList[u])

PodFor(t, p) ==
  \E c \in clients : c.by = t /\ c.pvc = p /\ c.port = Port /\ c.phase # "failed"

(* What t's position says about its port, the daemon and its pods.          *)
Covered(t) ==
  /\ pc[t] \in {"ready", "rsyncConf", "rsyncSecret", "rsyncPod", "poll", "clients"} =>
       handle[t].port = Port
  /\ pc[t] \in {"clients", "done"} => PodHealthy
  /\ pc[t] = "clients" /\ ~errs[t] => \A i \in 1..visited[t] : PodFor(t, PVCList[t][i])
  /\ pc[t] = "done" => \A p \in Range(PVCList[t]) : PodFor(t, p)
  /\ pc[t] # "clients" => visited[t] = 0

ReachInv == /\ ready => rsyncConf # None /\ server # None
            /\ \A t \in Transfers : Covered(t)

(* A healthy daemon stays, and while it is there no client of a volume in a *)
(* list of PVCs fails.                                                      *)
PodsKept ==
  PodHealthy => /\ PodHealthy'
                /\ \A t \in Transfers : \A p \in Range(PVCList[t]) :
                     PodFor(t, p) => PodFor(t, p)'

(* The volumes that the loop has been at are those of the list. *)
LEMMA VisitedInList ==
  ASSUME LoopInv, NEW t \in Transfers, NEW i \in 1..visited[t]
  PROVE  PVCList[t][i] \in Range(PVCList[t])
<1>1. PVCList[t] \in Seq(PVCs) /\ Len(PVCList[t]) \in Nat
  BY RsyncAssumption
<1>2. visited[t] \in Nat /\ visited[t] <= Len(PVCList[t])
  BY DEF LoopInv
<1>3. i \in 1..Len(PVCList[t])
  BY <1>1, <1>2
<1>4. DOMAIN PVCList[t] = 1..Len(PVCList[t])
  BY <1>1
<1> QED
  BY <1>3, <1>4 DEF Range

LEMMA CoveredKept ==
  ASSUME LoopInv, NEW t \in Transfers, Covered(t), PodsKept,
         pc'[t] = pc[t], errs'[t] = errs[t], handle'[t] = handle[t], visited'[t] = visited[t]
  PROVE  Covered(t)'
<1>1. PodHealthy => \A p \in Range(PVCList[t]) : PodFor(t, p) => PodFor(t, p)'
  BY DEF PodsKept
<1>2. PodHealthy => PodHealthy'
  BY DEF PodsKept
<1>3. \A i \in 1..visited[t] : PVCList[t][i] \in Range(PVCList[t])
  BY VisitedInList
<1> QED
  BY <1>1, <1>2, <1>3 DEF Covered

(* A healthy daemon has a module and a volume for each PVC of any caller.   *)
LEMMA ServesOwn ==
  ASSUME SameVolumes, TypeInv, ReachInv, PodHealthy,
         NEW t \in Transfers, NEW p \in Range(PVCList[t])
  PROVE  p \in PVCs /\ Serves(p, p)
<1>1. rsyncConf \in Transfers /\ server \in Transfers
  BY DEF PodHealthy, ReachInv, TypeInv, PodsTyped
<1>2. p \in Range(PVCList[rsyncConf]) /\ p \in Range(PVCList[server])
  BY <1>1 DEF SameVolumes
<1>3. PVCList[t] \in Seq(PVCs)
  BY RsyncAssumption
<1>4. p \in PVCs
  BY <1>3 DEF Range
<1> QED
  BY <1>2, <1>4 DEF Serves

(* The pods of a healthy daemon's clients run, succeed or break, and none   *)
(* that dials the tunnel fails.                                             *)
LEMMA PodsReach ==
  ASSUME SameVolumes, TypeInv, ReachInv, PodStep
  PROVE  PodsKept
<1> SUFFICES ASSUME PodHealthy PROVE PodHealthy' /\
             \A t \in Transfers : \A p \in Range(PVCList[t]) : PodFor(t, p) => PodFor(t, p)'
  BY DEF PodsKept
<1>1. Frame
  BY PodFrame
<1>2. PodHealthy'
  BY <1>1 DEF Frame, PodHealthy
<1>3. ASSUME NEW t \in Transfers, NEW p \in Range(PVCList[t]), PodFor(t, p)
      PROVE  PodFor(t, p)'
  <2>1. PICK c \in clients : c.by = t /\ c.pvc = p /\ c.port = Port /\ c.phase # "failed"
    BY <1>3 DEF PodFor
  <2>2. Reaches(c)
    BY <1>3, <2>1, ServesOwn DEF Reaches
  <2>3. CASE c \in clients'
    BY <2>1, <2>3 DEF PodFor
  <2>4. CASE c \notin clients'
    <3>1. \E phase \in Phases \ {"failed"} : Moved(c, phase) \in clients'
      BY <2>1, <2>2, <2>4 DEF PodStep, ServerReady, ClientStep, ClientStarts, ClientSucceeds,
         ClientFails, ClientBreaks, ClientEnds, vars, rsyncVars, Phases
    <3>2. PICK phase \in Phases \ {"failed"} : Moved(c, phase) \in clients'
      BY <3>1
    <3>3. /\ Moved(c, phase).by = t /\ Moved(c, phase).pvc = p
          /\ Moved(c, phase).port = Port /\ Moved(c, phase).phase # "failed"
      BY <2>1 DEF Moved
    <3> QED
      BY <3>2, <3>3 DEF PodFor
  <2> QED
    BY <2>3, <2>4
<1> QED
  BY <1>2, <1>3

LEMMA InitReach == Init => ReachInv
BY DEF Init, StunnelInit, ReachInv, Covered

(* The steps of a caller up to the first client pod. *)
LEMMA ServerReach ==
  ASSUME Reread, Patient = Transfers, TypeInv, ReachInv, NEW t \in Transfers,
         \/ StunnelStep(t) /\ UNCHANGED rsyncVars
         \/ IsServerHealthy(t) \/ Requeue(t) \/ PollServer(t)
         \/ CreateRsyncConf(t) \/ CreateRsyncSecret(t) \/ CreateRsyncPod(t)
  PROVE  /\ Covered(t)' /\ PodsKept /\ UNCHANGED visited
         /\ ready' => rsyncConf' # None /\ server' # None
<1>0. /\ Typed /\ Covered(t) /\ visited[t] \in Nat
      /\ ready => rsyncConf # None /\ server # None
      /\ None \notin Transfers
  BY StunnelAssumption DEF TypeInv, ObjectsInv, LoopInv, ReachInv
<1>1. /\ UNCHANGED << visited, clients, ready >>
      /\ server # None => server' = server
      /\ rsyncConf # None => rsyncConf' = rsyncConf
  BY <1>0 DEF rsyncVars, IsServerHealthy, OnHealth, Requeue, PollServer, CreateRsyncConf,
     CreateRsyncSecret, CreateRsyncPod, Created
<1>2. PodsKept /\ (ready' => rsyncConf' # None /\ server' # None)
  BY <1>0, <1>1 DEF PodsKept, PodHealthy, PodFor
<1> DEFINE Server == {"rsyncConf", "rsyncSecret", "rsyncPod", "poll"}
<1>3. ASSUME pc'[t] \in Steps \ (Server \cup {"ready", "clients", "done"}), pc[t] # "clients"
      PROVE  Covered(t)'
  BY <1>0, <1>1, <1>3 DEF Covered
<1>4. ASSUME pc'[t] \in Server \cup {"ready"}, handle'[t].port = Port, pc[t] # "clients"
      PROVE  Covered(t)'
  BY <1>0, <1>1, <1>4 DEF Covered
<1>5. ASSUME NEW ok \in Steps, NEW bad \in Steps, NEW applied \in BOOLEAN,
             Reply(t, applied, ok, bad)
      PROVE  pc'[t] = ok \/ pc'[t] = bad
  BY <1>0, <1>5, ReplyMoves
<1>6. ASSUME NEW step \in Steps, Goto(t, step)
      PROVE  pc'[t] = step
  BY <1>0, <1>6 DEF Goto, Typed
<1>7. Covered(t)'
  <2>1. CASE GetTransport(t)
    <3>1. CASE /\ handle' = [handle EXCEPT ![t] = Rekeyed(t, clientSecret, Port)]
               /\ Goto(t, "ready")
      <4>1. pc'[t] = "ready" /\ handle'[t].port = Port
        BY <1>0, <1>6, <3>1 DEF Steps, Typed, Rekeyed
      <4> QED
        BY <1>4, <2>1, <4>1 DEF GetTransport
    <3>2. CASE Goto(t, "serverConf") \/ Reply(t, FALSE, "ready", "failed")
      <4>1. pc'[t] \in {"serverConf", "failed"}
        BY <1>0, <1>6, <3>2, ReplyMoves DEF Steps
      <4> QED
        BY <1>3, <2>1, <4>1 DEF GetTransport, Steps
    <3> QED
      BY <2>1, <3>1, <3>2 DEF GetTransport
  <2>2. CASE Begin(t)
    BY <1>3, <1>6, <2>2 DEF Begin, Steps
  <2>3. CASE CreateServerConf(t)
    BY <1>3, <1>5, <2>3 DEF CreateServerConf, Steps
  <2>4. CASE CreateServerSecret(t)
    <3>1. Aggregate(t, "clientConf") \in {"clientConf", "failed"}
      BY DEF Aggregate
    <3> QED
      BY <1>3, <1>5, <2>4, <3>1 DEF CreateServerSecret, Steps
  <2>5. CASE CreateClientConf(t)
    BY <1>3, <1>5, <2>5 DEF CreateClientConf, Steps
  <2>6. CASE CreateClientSecret(t)
    <3>1. Aggregate(t, "created") \in {"created", "failed"}
      BY DEF Aggregate
    <3> QED
      BY <1>3, <1>5, <2>6, <3>1 DEF CreateClientSecret, Steps
  <2>7. CASE IsServerHealthy(t)
    <3>1. pc[t] = "ready" /\ handle[t].port = Port /\ handle' = handle /\ visited[t] = 0
      BY <1>0, <2>7 DEF IsServerHealthy, OnHealth, HasTransport, Covered
    <3>2. CASE PodHealthy /\ Goto(t, "clients")
      <4>1. pc'[t] = "clients" /\ PodHealthy'
        BY <1>2, <1>6, <3>2 DEF Steps, PodsKept
      <4> QED
        BY <1>1, <3>1, <4>1 DEF Covered
    <3>3. CASE Goto(t, "rsyncConf")
      BY <1>4, <1>6, <3>1, <3>3 DEF Steps
    <3>4. CASE Reply(t, FALSE, "clients", "failed")
      <4>1. pc'[t] = "failed"
        BY <1>0, <3>4, ReplyMoves DEF Steps
      <4> QED
        BY <1>3, <3>1, <4>1 DEF Steps
    <3> QED
      BY <2>7, <3>2, <3>3, <3>4 DEF IsServerHealthy, OnHealth
  <2>8. CASE Requeue(t)
    BY <1>3, <1>6, <2>8 DEF Requeue, Steps
  <2>9. CASE PollServer(t)
    <3>1. pc'[t] = "clients" /\ PodHealthy'
      BY <1>2, <1>6, <2>9 DEF PollServer, Steps, PodsKept
    <3> QED
      BY <1>0, <1>1, <2>9, <3>1 DEF PollServer, Covered
  <2>10. CASE CreateRsyncConf(t) \/ CreateRsyncSecret(t)
    <3>1. pc'[t] \in Server /\ handle' = handle /\ pc[t] \in Server
      BY <1>5, <2>10 DEF CreateRsyncConf, CreateRsyncSecret, Steps
    <3> QED
      BY <1>0, <1>4, <3>1 DEF Covered
  <2>11. CASE CreateRsyncPod(t)
    <3>1. Aggregate(t, "poll") \in {"poll", "failed"}
      BY DEF Aggregate
    <3>2. Rejected(t, "failed") => pc'[t] = "failed"
      BY <1>6 DEF Rejected, Steps
    <3>3. pc'[t] \in {"poll", "failed"} /\ handle' = handle /\ pc[t] = "rsyncPod"
      BY <1>5, <2>11, <3>1, <3>2 DEF CreateRsyncPod, Steps
    <3> QED
      BY <1>0, <1>3, <1>4, <3>3 DEF Covered, Steps
  <2> QED
    BY <2>1, <2>2, <2>3, <2>4, <2>5, <2>6, <2>7, <2>8, <2>9, <2>10, <2>11 DEF StunnelStep
<1> QED
  BY <1>1, <1>2, <1>7

(* CreateClient: as long as it has seen no error, each volume it has been   *)
(* at has its pod, which dials the port of the transport.                   *)
LEMMA ClientReach ==
  ASSUME TypeInv, ReachInv, NEW t \in Transfers,
         CreateClientPod(t) \/ CreateClientReturns(t) \/ Crash(t)
  PROVE  /\ Covered(t)' /\ PodsKept
         /\ \A u \in Transfers \ {t} : visited'[u] = visited[u]
         /\ ready' => rsyncConf' # None /\ server' # None
<1>0. /\ Typed /\ Covered(t) /\ visited \in [Transfers -> Nat]
      /\ ready => rsyncConf # None /\ server # None
      /\ PVCList[t] \in Seq(PVCs)
  BY RsyncAssumption DEF TypeInv, ObjectsInv, LoopInv, ReachInv
<1>1. /\ UNCHANGED << ready, server, rsyncConf >> /\ clients \subseteq clients'
      /\ \A u \in Transfers \ {t} : visited'[u] = visited[u]
  BY <1>0 DEF CreateClientPod, CreateClientReturns, Crash
<1>2. PodsKept
  BY <1>1 DEF PodsKept, PodHealthy, PodFor
<1>3. \A p : PodFor(t, p) => PodFor(t, p)'
  BY <1>1 DEF PodFor
<1>4. CASE CreateClientPod(t)
  <2> DEFINE n == visited[t] + 1
             pod == NewPod(t, PVCList[t][n])
  <2>1. /\ pc[t] = "clients" /\ handle[t].port = Port /\ PodHealthy
        /\ visited'[t] = n /\ visited[t] \in Nat
        /\ handle' = [handle EXCEPT ![t] = Mounted(t)]
    BY <1>0, <1>4 DEF CreateClientPod, Covered
  <2>2. handle'[t].port = Port
    BY <1>0, <2>1 DEF Typed, Mounted
  <2>3. \/ pc'[t] = "clients" /\ errs'[t]
        \/ pc'[t] = "clients" /\ errs'[t] = errs[t] /\ clients' = clients \cup {pod}
    <3>1. CASE Rejected(t, "clients")
      BY <1>0, <3>1 DEF Rejected, Goto, Typed, Steps
    <3>2. ASSUME NEW applied \in BOOLEAN, Reply(t, applied, "clients", "clients"),
                 clients' = IF applied THEN clients \cup {NewPod(t, PVCList[t][visited'[t]])}
                            ELSE clients
          PROVE  \/ pc'[t] = "clients" /\ errs'[t]
                 \/ pc'[t] = "clients" /\ errs'[t] = errs[t] /\ clients' = clients \cup {pod}
      BY <1>0, <2>1, <3>2, ReplyMoves DEF Steps
    <3> QED
      BY <1>4, <3>1, <3>2 DEF CreateClientPod
  <2>4. ASSUME ~errs'[t], NEW i \in 1..visited'[t]
        PROVE  PodFor(t, PVCList[t][i])'
    <3>1. ~errs[t] /\ clients' = clients \cup {pod}
      BY <2>3, <2>4
    <3>2. CASE i \in 1..visited[t]
      BY <1>0, <1>3, <2>1, <3>1, <3>2 DEF Covered
    <3>3. CASE i = n
      <4>1. /\ pod \in clients' /\ pod.by = t /\ pod.pvc = PVCList[t][i]
            /\ pod.port = Port /\ pod.phase # "failed"
        BY <2>1, <3>1, <3>3 DEF NewPod
      <4> QED
        BY <4>1 DEF PodFor
    <3> QED
      BY <2>1, <2>4, <3>2, <3>3
  <2>5. PodHealthy' /\ pc'[t] = "clients"
    BY <1>1, <2>1, <2>3 DEF PodHealthy
  <2>6. Covered(t)'
    BY <2>2, <2>4, <2>5 DEF Covered
  <2> QED
    BY <1>0, <1>1, <1>2, <2>6
<1>5. CASE CreateClientReturns(t)
  <2>1. /\ pc[t] = "clients" /\ visited[t] = Len(PVCList[t]) /\ PodHealthy
        /\ visited'[t] = 0 /\ clients' = clients
        /\ pc'[t] = Aggregate(t, "done")
    BY <1>0, <1>5 DEF CreateClientReturns, Covered, Goto, Typed
  <2>2. pc'[t] = "failed" \/ (pc'[t] = "done" /\ ~errs[t])
    BY <2>1 DEF Aggregate
  <2>3. ~errs[t] => \A p \in Range(PVCList[t]) : PodFor(t, p)
    BY <1>0, <2>1 DEF Covered, Range
  <2>4. PodHealthy'
    BY <1>1, <2>1 DEF PodHealthy
  <2>5. Covered(t)'
    BY <1>3, <2>1, <2>2, <2>3, <2>4 DEF Covered
  <2> QED
    BY <1>0, <1>1, <1>2, <2>5
<1>6. CASE Crash(t)
  <2>1. pc'[t] = "idle" /\ visited'[t] = 0
    BY <1>0, <1>6 DEF Crash, Goto, Typed
  <2> QED
    BY <1>0, <1>1, <1>2, <2>1 DEF Covered
<1> QED
  BY <1>4, <1>5, <1>6

(* When CreateClient returns no error each PVC of the transfer has a client *)
(* pod that dials the transport's port and a ready daemon with a module and *)
(* a volume for it (client.go:177, server.go:94), whatever failed before:   *)
(* the pod will not fail for want of a daemon.  It holds for callers that   *)
(* re-read the transport, wait for the server and share the daemon only     *)
(* with callers of the same volumes.                                        *)
THEOREM SuccessReachesDaemon ==
  ASSUME Reread, Patient = Transfers, SameVolumes
  PROVE  Spec => []SuccessMeansReachable
<1>1. TypeInv /\ ReachInv /\ [Next]_vars => ReachInv'
  <2> SUFFICES ASSUME TypeInv, ReachInv, [Next]_vars PROVE ReachInv'
    OBVIOUS
  <2>0. LoopInv
    BY DEF TypeInv
  <2>1. ASSUME NEW t \in Transfers, CallerStep(t) \/ Crash(t) PROVE ReachInv'
    <3>1. /\ Covered(t)' /\ PodsKept
          /\ \A u \in Transfers \ {t} : visited'[u] = visited[u]
          /\ ready' => rsyncConf' # None /\ server' # None
      BY <2>1, ServerReach, ClientReach DEF CallerStep
    <3>2. OthersStay(t)
      BY <2>1, CallerFrame DEF TypeInv
    <3>3. ASSUME NEW u \in Transfers \ {t} PROVE Covered(u)'
      BY <2>0, <3>1, <3>2, CoveredKept DEF ReachInv, OthersStay
    <3> QED
      BY <3>1, <3>3 DEF ReachInv
  <2>2. CASE PodStep
    <3>0. Frame
      BY <2>2, PodFrame
    <3>1. /\ UNCHANGED << pc, errs, handle, visited, rsyncConf, server >>
          /\ ready' => rsyncConf' # None /\ server' # None
      <4>1. /\ UNCHANGED << pc, errs, handle, visited, rsyncConf, server >>
            /\ ready' = ready \/ (server # None /\ rsyncConf # None)
        BY <3>0 DEF Frame
      <4>2. ready => rsyncConf # None /\ server # None
        BY DEF ReachInv
      <4> QED
        BY <4>1, <4>2
    <3>2. PodsKept
      BY <2>2, PodsReach
    <3>3. \A t \in Transfers : Covered(t)'
      BY <2>0, <3>1, <3>2, CoveredKept DEF ReachInv
    <3> QED
      BY <3>1, <3>3 DEF ReachInv
  <2> QED
    BY <2>1, <2>2 DEF Next, PodStep
<1>2. TypeInv /\ ReachInv => SuccessMeansReachable
  <2> SUFFICES ASSUME TypeInv, ReachInv, NEW t \in Transfers, pc[t] = "done",
                      NEW p \in Range(PVCList[t])
               PROVE  \E c \in clients : /\ c.by = t /\ c.pvc = p /\ c.phase # "failed"
                                         /\ Reaches(c) /\ Serves(p, p)
    BY DEF SuccessMeansReachable
  <2>1. PodHealthy /\ PodFor(t, p)
    BY DEF ReachInv, Covered
  <2>2. p \in PVCs /\ Serves(p, p)
    BY <2>1, ServesOwn
  <2> QED
    BY <2>1, <2>2 DEF PodFor, Reaches
<1> QED
  BY <1>1, <1>2, InitReach, TypeInvariant, PTL DEF Spec
=============================================================================
