-------------------------- MODULE StunnelTransport --------------------------
(***************************************************************************)
(* state_transfer/transport/stunnel: CreateServer and CreateClient write a  *)
(* config map and a secret on either side; GetTransportFromKubeObjects      *)
(* rebuilds the transport in a later attempt.  Config maps are created or   *)
(* updated, secrets only created, and neither is named after the transport: *)
(* all transports between two namespaces share them.                        *)
(*                                                                         *)
(* Every transfer is run by a caller that may crash, lose replies and start *)
(* over; it is given an endpoint that exists.                               *)
(***************************************************************************)
EXTENDS Naturals, FiniteSets

CONSTANTS
  Transfers,  \* transfers between the same two namespaces, each with a caller
  None,       \* no object, no certificate
  MaxFaults   \* bound on failed calls, lost replies and crashes together

ASSUME StunnelAssumption ==
  /\ IsFiniteSet(Transfers)
  /\ None \notin Transfers \cup Nat
  /\ MaxFaults \in Nat

VARIABLES
  serverConf,    \* the server's config map exists
  clientConf,    \* the client's config map exists
  serverSecret,  \* the certificate in the server's secret
  clientSecret,  \* the certificate in the client's secret
  certs,         \* certificates generated so far
  handle,        \* handle[t]: the transport in the memory of t's caller
  pc,            \* the call the caller makes next
  errs,          \* the running operation has collected an error
  faults         \* faults so far

stunnelObjects == << serverConf, clientConf, serverSecret, clientSecret >>
callers == << pc, errs, faults >>
stunnelVars == << stunnelObjects, certs, handle, callers >>

(* The endpoint's port, on which both stunnels accept. *)
Port == 6443

(* The transport t holds, with another certificate and port. *)
Rekeyed(t, crt, port) == [crt |-> crt, port |-> port, mounts |-> handle[t].mounts]

(* NewTransport: neither certificate nor port, no mounts added yet. *)
NewTransport == [crt |-> None, port |-> 0, mounts |-> 0]

StunnelInit ==
  /\ serverConf = FALSE
  /\ clientConf = FALSE
  /\ serverSecret = None
  /\ clientSecret = None
  /\ certs = 0
  /\ handle = [t \in Transfers |-> NewTransport]
  /\ pc = [t \in Transfers |-> "idle"]
  /\ errs = [t \in Transfers |-> FALSE]
  /\ faults = 0

-----------------------------------------------------------------------------
(* API calls.                                                               *)

Goto(t, step) == pc' = [pc EXCEPT ![t] = step]

(* A call by t that the server has applied or not: t goes on with ok, or    *)
(* sees an error, for a lost reply even if the call was applied.            *)
Reply(t, applied, ok, bad) ==
  \/ applied /\ Goto(t, ok) /\ UNCHANGED << errs, faults >>
  \/ /\ faults < MaxFaults
     /\ faults' = faults + 1
     /\ errs' = [errs EXCEPT ![t] = TRUE]
     /\ Goto(t, bad)

(* The server refuses the call and the code keeps the error. *)
Rejected(t, bad) ==
  /\ errs' = [errs EXCEPT ![t] = TRUE]
  /\ Goto(t, bad)
  /\ UNCHANGED faults

(* Create or update, as the config maps are written. *)
Overwritten(object, new) == new

(* Create where AlreadyExists is tolerated: what is there stays.            *)
Created(object, new) == IF object = None THEN new ELSE object

(* An aggregate that returns the last call's error only. *)
AggregateLast(t, ok) == ok

(* NewAggregate of the collected errors decides how an operation ends.      *)
Aggregate(t, ok) == IF errs[t] THEN "failed" ELSE ok

-----------------------------------------------------------------------------
(* The caller begins an attempt with empty hands, at first or after a       *)
(* failure, and looks for a transport made by an earlier attempt.           *)
Begin(t) ==
  /\ pc[t] \in {"idle", "failed"}
  /\ Goto(t, "get")
  /\ handle' = [handle EXCEPT ![t] = NewTransport]
  /\ errs' = [errs EXCEPT ![t] = FALSE]
  /\ UNCHANGED << stunnelObjects, certs, faults >>

(* A lookup under other names than the ones the objects were created with. *)
NoObjects == FALSE

AllObjects ==
  /\ serverConf
  /\ clientConf
  /\ serverSecret # None
  /\ clientSecret # None

(* GetTransportFromKubeObjects: certificate from the client's secret, port  *)
(* from the endpoint; on NotFound the caller creates the transport.         *)
GetTransport(t) ==
  /\ pc[t] = "get"
  /\ \/ /\ AllObjects
        /\ handle' = [handle EXCEPT ![t] = Rekeyed(t, clientSecret, Port)]
        /\ Goto(t, "ready")
        /\ UNCHANGED << errs, faults >>
     \/ /\ ~AllObjects
        /\ Goto(t, "serverConf")
        /\ UNCHANGED << handle, errs, faults >>
     \/ Reply(t, FALSE, "ready", "failed") /\ UNCHANGED handle
  /\ UNCHANGED << stunnelObjects, certs >>

(* CreateServer, createStunnelServerConfig: created, or updated to the same *)
(* text; an error does not keep the secret from being created.              *)
CreateServerConf(t) ==
  /\ pc[t] = "serverConf"
  /\ \E applied \in BOOLEAN :
       /\ serverConf' = (serverConf \/ applied)
       /\ Reply(t, applied, "serverSecret", "serverSecret")
  /\ UNCHANGED << clientConf, serverSecret, clientSecret, certs, handle >>

(* createStunnelServerSecret: a new certificate in memory, whether or not   *)
(* the secret exists already.                                               *)
CreateServerSecret(t) ==
  /\ pc[t] = "serverSecret"
  /\ certs' = certs + 1
  /\ handle' = [handle EXCEPT ![t] = Rekeyed(t, certs', handle[t].port)]
  /\ \E applied \in BOOLEAN :
       /\ serverSecret' = IF applied THEN Created(serverSecret, certs') ELSE serverSecret
       /\ Reply(t, applied, Aggregate(t, "clientConf"), "failed")
  /\ UNCHANGED << serverConf, clientConf, clientSecret >>

(* CreateClient, createClientConfig: created, or updated to connect to t's  *)
(* endpoint.  Endpoints share their labels: each of them leads to the pod   *)
(* of the server, so clients need not tell them apart.                      *)
CreateClientConf(t) ==
  /\ pc[t] = "clientConf"
  /\ \E applied \in BOOLEAN :
       /\ clientConf' = (clientConf \/ applied)
       /\ Reply(t, applied, "clientSecret", "clientSecret")
  /\ UNCHANGED << serverConf, serverSecret, clientSecret, certs, handle >>

(* createClientSecret: the certificate in memory. *)
CreateClientSecret(t) ==
  /\ pc[t] = "clientSecret"
  /\ \E applied \in BOOLEAN :
       /\ clientSecret' = IF applied THEN Created(clientSecret, handle[t].crt)
                          ELSE clientSecret
       /\ Reply(t, applied, Aggregate(t, "created"), "failed")
  /\ UNCHANGED << serverConf, clientConf, serverSecret, certs, handle >>

StunnelStep(t) ==
  \/ Begin(t) \/ GetTransport(t)
  \/ CreateServerConf(t) \/ CreateServerSecret(t)
  \/ CreateClientConf(t) \/ CreateClientSecret(t)

-----------------------------------------------------------------------------
(* Correctness.                                                             *)

(* An operation that returned no error has left all its objects behind,     *)
(* whatever failed before (CreateServer, CreateClient: aggregated errors):  *)
(* pods that mount them can start.                                          *)
SuccessLeavesObjects ==
  \A t \in Transfers :
    /\ pc[t] \in {"clientConf", "clientSecret"} => serverConf /\ serverSecret # None
    /\ pc[t] = "created" => AllObjects
=============================================================================
