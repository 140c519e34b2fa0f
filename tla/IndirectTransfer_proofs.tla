----------------------- MODULE IndirectTransfer_proofs -----------------------
(***************************************************************************)
(* Proofs about IndirectTransfer, for any pairs of claims, any cut of the  *)
(* names and any number of failures: pairs stay apart, what is copied is   *)
(* never lost, and a finished transfer has left nothing behind.            *)
(***************************************************************************)
EXTENDS IndirectTransfer, TLAPS

PodNames == {PodName(t, k) : t \in Transfers, k \in Kinds}
Namespaces == {Claim(t, s)[1] : t \in Transfers, s \in Sides}
ClaimNames == {Claim(t, s)[2] : t \in Transfers, s \in Sides}
PodSet == [kind : Kinds, name : PodNames, namespace : Namespaces, for : ClaimNames,
           by : Transfers, phase : Phases, deleted : BOOLEAN]

(* A pod is as buildPod made it, but for its phase and its deletion.        *)
Fits(p) == /\ p.name = PodName(p.by, p.kind)
           /\ p.namespace = Claim(p.by, Side(p.kind))[1]
           /\ p.for = Claim(p.by, Side(p.kind))[2]
PodsFit == /\ pods \subseteq PodSet
           /\ \A p \in pods : Fits(p)
           /\ \A p, q \in pods : SameName(p, q) => p = q

(* A secret is as the caller wrote it, and a clean-up is about its own pair. *)
SecretsFit == secrets \subseteq {secret(t, s) : t \in Transfers, s \in Sides}
OwnCalls(t) ==
  {NoCall}
  \cup {[at |-> "pods", left |-> l] : l \in SUBSET {Name(buildPod(t, k)) : k \in Kinds}}
  \cup {[at |-> "secrets", left |-> l] : l \in SUBSET {secret(t, s) : s \in Sides}}
Listed == /\ call = [t \in Transfers |-> call[t]]
          /\ \A t \in Transfers : call[t] \in OwnCalls(t)

Typed ==
  /\ cloud \in [{Path(t) : t \in Transfers} -> Contents]
  /\ dst \in [Transfers -> Contents]
  /\ pc \in [Transfers -> Steps]
  /\ faults \in 0..MaxFaults

(* What is true of a pair with pods P, contents c in the store and d in the *)
(* destination, its secrets S, at a step of its caller and call of Cleanup. *)
Live(p) == p.phase \in {"Pending", "Running"}
Own(t, c, d) == c.of \subseteq {t} /\ d.of \subseteq {t}
(* A download that may still run has all there is to download, and no other *)
(* pod takes it away.                                                       *)
Undisturbed(t, P, c) ==
  \A p \in P : p.kind = "download" /\ Live(p) =>
    c = Whole(t) /\ \A q \in P : Live(q) => q.kind = "download"
Uploads(t, P, c, step) ==
  /\ step = "prepared" => P = {}
  /\ step = "uploading" =>
       /\ \E p \in P : p.kind = "upload" /\ ~p.deleted
       /\ \A p \in P : p.kind = "upload" /\ (p.phase = "Succeeded" => c = Whole(t))
  /\ step = "uploaded" =>
       /\ c = Whole(t)
       /\ \A p \in P : p.kind = "upload" /\ p.phase = "Succeeded"
Downloads(t, P, c, d, step) ==
  /\ step = "downloading" =>
       /\ c = Whole(t)
       /\ \E p \in P : p.kind = "download" /\ ~p.deleted
       /\ \A p \in P : \/ p.kind = "upload" /\ p.phase = "Succeeded"
                       \/ p.kind = "download" /\ (p.phase = "Succeeded" => d = Whole(t))
  /\ step = "downloaded" =>
       /\ d = Whole(t)
       /\ \A p \in P : p.kind # "cleanup" /\ p.phase = "Succeeded"
CleansUp(t, P, c, d, step) ==
  /\ step = "cleaning" =>
       /\ d = Whole(t)
       /\ \E p \in P : p.kind = "cleanup" /\ ~p.deleted
       /\ \A p \in P : \/ p.kind # "cleanup" /\ p.phase = "Succeeded"
                       \/ p.kind = "cleanup" /\ (p.phase = "Succeeded" => c = Nothing)
  /\ step \in {"cleaned", "tidied", "done"} =>
       /\ d = Whole(t) /\ c = Nothing
       /\ \A p \in P : p.phase = "Succeeded"
(* A clean-up has deleted what it does not have on its list any more.       *)
Progresses(side, P, S, C) ==
  /\ C.at = "pods" =>
       \A p \in P : Side(p.kind) = side => p.deleted \/ Name(p) \in C.left
  /\ C.at = "secrets" =>
       /\ \A p \in P : Side(p.kind) = side => p.deleted
       /\ \A s \in S : s.side = side => s \in C.left
Swept(side, P, S) ==
  /\ \A p \in P : Side(p.kind) = side => p.deleted
  /\ \A s \in S : s.side # side
Tidied(P, S, step, C) ==
  /\ step = "cleaned" => Progresses("source", P, S, C)
  /\ step = "tidied" => Progresses("dest", P, S, C)
  /\ step \in {"tidied", "done"} => Swept("source", P, S)
  /\ step = "done" => Swept("dest", P, S)
Pair(t, P, c, d, S, step, C) ==
  /\ Own(t, c, d)
  /\ Undisturbed(t, P, c)
  /\ Uploads(t, P, c, step)
  /\ Downloads(t, P, c, d, step)
  /\ CleansUp(t, P, c, d, step)
  /\ Tidied(P, S, step, C)
InOrder(t) ==
  Pair(t, PodsOf(t), cloud[Path(t)], dst[t], SecretsOf(t), pc[t], call[t])

(* The data of all pairs stay apart; those that are alone go on in order.   *)
IInv ==
  /\ Typed /\ PodsFit /\ SecretsFit /\ Listed
  /\ \A t \in Transfers : Own(t, cloud[Path(t)], dst[t])
  /\ \A t \in Lone : InOrder(t)

-----------------------------------------------------------------------------
(* Claims and paths tell pairs apart.                                       *)
LEMMA ClaimsDiffer ==
  ASSUME NEW t \in Transfers, NEW u \in Transfers, NEW s \in Sides,
         Claim(t, s)[1] = Claim(u, s)[1], Claim(t, s)[2] = Claim(u, s)[2]
  PROVE  t = u
<1>1. CASE s = "source"
  <2>1. Source[t] = Source[u]
    BY <1>1, PairsAssumption DEF Claim
  <2> QED
    BY <2>1, PairsAssumption
<1>2. CASE s # "source"
  <2>1. Dest[t] = Dest[u]
    BY <1>2, PairsAssumption DEF Claim
  <2> QED
    BY <2>1, PairsAssumption
<1> QED
  BY <1>1, <1>2

LEMMA PathsDiffer ==
  ASSUME NEW t \in Transfers, NEW u \in Transfers, Path(t) = Path(u)
  PROVE  t = u
BY PairsAssumption DEF Path

LEMMA RemoteIsPath ==
  ASSUME NEW t \in Transfers
  PROVE  Remote(t) = Path(t)
BY PairsAssumption DEF Remote

(* Contents stay contents.                                                  *)
LEMMA ContentsTyped ==
  ASSUME NEW t \in Transfers
  PROVE  /\ Nothing \in Contents /\ Whole(t) \in Contents /\ Nothing # Whole(t)
         /\ Nothing.of \subseteq {t} /\ Whole(t).of \subseteq {t}
         /\ \A c, d \in Contents :
              /\ Fragment(c, d) \in Contents
              /\ c.of \subseteq {t} /\ d.of \subseteq {t} => Fragment(c, d).of \subseteq {t}
<1>1. Nothing \in Contents /\ Whole(t) \in Contents
  BY DEF Nothing, Whole, Contents
<1>2. Nothing.of = {} /\ Whole(t).of = {t}
  BY DEF Nothing, Whole
<1>3. ASSUME NEW c \in Contents, NEW d \in Contents
      PROVE  /\ Fragment(c, d) \in Contents
             /\ c.of \subseteq {t} /\ d.of \subseteq {t} => Fragment(c, d).of \subseteq {t}
  <2>1. CASE c = d
    BY <2>1 DEF Fragment
  <2>2. CASE c # d
    <3>1. Fragment(c, d) = [of |-> c.of \cup d.of, whole |-> FALSE]
      BY <2>2 DEF Fragment
    <3>2. c.of \in SUBSET Transfers /\ d.of \in SUBSET Transfers
      BY DEF Contents
    <3>3. c.of \cup d.of \in SUBSET Transfers
      BY <3>2
    <3>4. Fragment(c, d) \in Contents
      BY <3>1, <3>3 DEF Contents
    <3>5. Fragment(c, d).of = c.of \cup d.of
      BY <3>1
    <3> QED
      BY <3>4, <3>5
  <2> QED
    BY <2>1, <2>2
<1>4. Nothing # Whole(t)
  BY <1>2
<1> QED
  BY <1>1, <1>2, <1>3, <1>4

(* A pod that changes keeps its name and its owner.                         *)
SamePod(p, q) == /\ q.kind = p.kind /\ q.name = p.name /\ q.namespace = p.namespace
                 /\ q.for = p.for /\ q.by = p.by
LEMMA PodChanges ==
  ASSUME NEW p \in PodSet, NEW phase \in Phases
  PROVE  /\ LET q == [p EXCEPT !.deleted = TRUE]
            IN  q \in PodSet /\ SamePod(p, q) /\ q.phase = p.phase /\ q.deleted = TRUE
         /\ LET q == [p EXCEPT !.phase = phase]
            IN  q \in PodSet /\ SamePod(p, q) /\ q.phase = phase /\ q.deleted = p.deleted
BY DEF PodSet, SamePod
LEMMA PodBuilt ==
  ASSUME NEW t \in Transfers, NEW kind \in Kinds
  PROVE  LET p == buildPod(t, kind)
         IN  /\ p \in PodSet /\ Fits(p) /\ p.by = t /\ p.kind = kind
             /\ p.phase = "Pending" /\ p.deleted = FALSE
<1>1. Side(kind) \in Sides
  BY DEF Side, Sides, Kinds
<1>2. /\ PodName(t, kind) \in PodNames
      /\ Claim(t, Side(kind))[1] \in Namespaces /\ Claim(t, Side(kind))[2] \in ClaimNames
  BY <1>1 DEF PodNames, Namespaces, ClaimNames
<1>3. buildPod(t, kind) \in PodSet
  BY <1>2 DEF buildPod, PodSet, Phases
<1> QED
  BY <1>3 DEF buildPod, Fits

(* Pods of one name.                                                        *)
LEMMA NameParts ==
  ASSUME NEW p, NEW q
  PROVE  SameName(p, q) <=> p.kind = q.kind /\ p.name = q.name /\ p.namespace = q.namespace
<1> DEFINE a == p.kind
           b == p.name
           c == p.namespace
           x == q.kind
           y == q.name
           z == q.namespace
<1>1. SameName(p, q) <=> [kind |-> a, name |-> b, namespace |-> c]
                         = [kind |-> x, name |-> y, namespace |-> z]
  BY DEF SameName, Name
<1> HIDE DEF a, b, c, x, y, z
<1>2. [kind |-> a, name |-> b, namespace |-> c] = [kind |-> x, name |-> y, namespace |-> z]
        <=> a = x /\ b = y /\ c = z
  OBVIOUS
<1> QED
  BY <1>1, <1>2 DEF a, b, c, x, y, z

(* One pod of a kind for a pair.                                            *)
LEMMA OnePod ==
  ASSUME PodsFit, NEW p \in pods, NEW q \in pods, p.by = q.by, p.kind = q.kind
  PROVE  p = q
BY NameParts DEF PodsFit, Fits

(* The selector of Cleanup finds the pods of its pair.                      *)
LEMMA MatchingIsOwn ==
  ASSUME PodsFit, NEW t \in Transfers, NEW s \in Sides
  PROVE  Matching(t, s) = {p \in PodsOf(t) : Side(p.kind) = s}
<1>1. ASSUME NEW p \in Matching(t, s)
      PROVE  p \in PodsOf(t) /\ Side(p.kind) = s
  <2>1. p \in pods /\ Side(p.kind) = s /\ p.namespace = Claim(t, s)[1] /\ p.for = Claim(t, s)[2]
    BY DEF Matching, Labels, InNamespace
  <2>2. p.by \in Transfers /\ Fits(p)
    BY <2>1 DEF PodsFit, PodSet
  <2>3. p.by = t
    BY <2>1, <2>2, ClaimsDiffer DEF Fits
  <2> QED
    BY <2>1, <2>3 DEF PodsOf
<1>2. ASSUME NEW p \in PodsOf(t), Side(p.kind) = s
      PROVE  p \in Matching(t, s)
  BY <1>2 DEF PodsOf, Matching, Labels, InNamespace, PodsFit, Fits
<1> QED
  BY <1>1, <1>2

-----------------------------------------------------------------------------
(* The pods of one pair, as its caller and the cluster change them.  P are   *)
(* the pods, c and d the contents before, c2 and d2 after the step.          *)
OneOfAKind(P) == \A p, q \in P : p.kind = q.kind => p = q
Restarting == {"failed", "restarted", "swept"}

(* Where the caller is while a pod still works, and with what.               *)
LEMMA LivePod ==
  ASSUME NEW t \in Transfers, NEW P, NEW c, NEW d, NEW S, NEW C, NEW step \in Steps,
         Pair(t, P, c, d, S, step, C), NEW p \in P, Live(p), p.kind \in Kinds
  PROVE  /\ p.kind = "upload" => step \in Restarting \cup {"uploading"}
         /\ p.kind = "download" => step \in Restarting \cup {"downloading"} /\ c = Whole(t)
         /\ p.kind = "cleanup" => step \in Restarting \cup {"cleaning"}
         /\ p.kind # "download" => \A q \in P : q.kind = "download" => ~Live(q)
<1>1. p.phase # "Succeeded"
  BY DEF Live
<1>2. step \notin {"prepared", "uploaded", "downloaded", "cleaned", "tidied", "done"}
  BY <1>1 DEF Pair, Uploads, Downloads, CleansUp
<1>3. step = "uploading" => p.kind = "upload"
  BY DEF Pair, Uploads
<1>4. step = "downloading" => p.kind = "download"
  BY <1>1 DEF Pair, Downloads
<1>5. step = "cleaning" => p.kind = "cleanup"
  BY <1>1 DEF Pair, CleansUp
<1>6. p.kind = "download" => c = Whole(t)
  BY DEF Pair, Undisturbed
<1>7. p.kind # "download" => \A q \in P : q.kind = "download" => ~Live(q)
  BY DEF Pair, Undisturbed
<1> QED
  BY <1>2, <1>3, <1>4, <1>5, <1>6, <1>7 DEF Steps, Restarting, Kinds

(* A pod that starts.                                                       *)
LEMMA PodStarts ==
  ASSUME NEW t \in Transfers, NEW P, NEW c, NEW d, NEW S, NEW C, NEW step \in Steps,
         Pair(t, P, c, d, S, step, C), NEW p \in P, p.phase = "Pending",
         NEW r, SamePod(p, r), r.deleted = p.deleted, r.phase = "Running"
  PROVE  Pair(t, (P \ {p}) \cup {r}, c, d, S, step, C)
<1> DEFINE Q == (P \ {p}) \cup {r}
<1>1. Own(t, c, d) /\ Tidied(Q, S, step, C)
  BY DEF Pair, Tidied, Progresses, Swept, SamePod, Side, Name
<1>2. Undisturbed(t, Q, c)
  BY DEF Pair, Undisturbed, Live, SamePod
<1>3. Uploads(t, Q, c, step)
  BY DEF Pair, Uploads, SamePod
<1>4. Downloads(t, Q, c, d, step)
  BY DEF Pair, Downloads, SamePod
<1>5. CleansUp(t, Q, c, d, step)
  BY DEF Pair, CleansUp, SamePod
<1> QED
  BY <1>1, <1>2, <1>3, <1>4, <1>5 DEF Pair

(* A pod that ends: what it was to make is as it should be if it succeeded, *)
(* and its pair's alone in any case.                                        *)
Made(t, p, phase, c, d, c2, d2) ==
  /\ Own(t, c2, d2)
  /\ IF p.kind = "download"
     THEN c2 = c /\ (phase = "Succeeded" => d2 = Whole(t))
     ELSE /\ d2 = d
          /\ phase = "Succeeded" => c2 = IF p.kind = "upload" THEN Whole(t) ELSE Nothing
LEMMA PodEnds ==
  ASSUME NEW t \in Transfers, NEW P, NEW c, NEW d, NEW c2, NEW d2, NEW S, NEW C,
         NEW step \in Steps, Pair(t, P, c, d, S, step, C), OneOfAKind(P),
         NEW p \in P, p.phase = "Running", p.kind \in Kinds,
         NEW r, SamePod(p, r), r.deleted = p.deleted, r.phase \in {"Succeeded", "Failed"},
         Made(t, p, r.phase, c, d, c2, d2)
  PROVE  Pair(t, (P \ {p}) \cup {r}, c2, d2, S, step, C)
<1> DEFINE Q == (P \ {p}) \cup {r}
<1>1. /\ p.kind = "upload" => step \in Restarting \cup {"uploading"}
      /\ p.kind = "download" => step \in Restarting \cup {"downloading"} /\ c = Whole(t)
      /\ p.kind = "cleanup" => step \in Restarting \cup {"cleaning"}
      /\ p.kind # "download" => \A q \in P : q.kind = "download" => ~Live(q)
  BY LivePod DEF Live
<1>2. \A q \in Q : q = r \/ (q \in P /\ q.kind # p.kind)
  BY DEF OneOfAKind
<1>3. Own(t, c2, d2) /\ Tidied(Q, S, step, C)
  BY DEF Pair, Tidied, Progresses, Swept, SamePod, Side, Name, Made
<1>4. Undisturbed(t, Q, c2)
  BY <1>1 DEF Pair, Undisturbed, Live, SamePod, Made
<1>5. Uploads(t, Q, c2, step)
  BY <1>1, <1>2 DEF Pair, Uploads, SamePod, Made, Restarting, Kinds
<1>6. Downloads(t, Q, c2, d2, step)
  BY <1>1, <1>2 DEF Pair, Downloads, SamePod, Made, Restarting, Kinds
<1>7. CleansUp(t, Q, c2, d2, step)
  BY <1>1, <1>2 DEF Pair, CleansUp, SamePod, Made, Restarting, Kinds
<1> QED
  BY <1>3, <1>4, <1>5, <1>6, <1>7 DEF Pair

(* A deleted pod that goes.                                                 *)
LEMMA PodGoes ==
  ASSUME NEW t \in Transfers, NEW P, NEW c, NEW d, NEW c2, NEW d2, NEW S, NEW C,
         NEW step \in Steps, Pair(t, P, c, d, S, step, C), OneOfAKind(P),
         NEW p \in P, p.deleted, p.kind \in Kinds,
         IF p.phase = "Running" THEN Made(t, p, "Failed", c, d, c2, d2)
                                ELSE c2 = c /\ d2 = d
  PROVE  Pair(t, P \ {p}, c2, d2, S, step, C)
<1> DEFINE Q == P \ {p}
<1>1. \A q \in Q : q \in P /\ q.kind # p.kind
  BY DEF OneOfAKind
<1>2. /\ step = "uploading" => p.kind # "upload"
      /\ step = "downloading" => p.kind # "download"
      /\ step = "cleaning" => p.kind # "cleanup"
  BY DEF Pair, Uploads, Downloads, CleansUp, OneOfAKind
<1>3. Own(t, c2, d2) /\ Tidied(Q, S, step, C)
  BY DEF Pair, Tidied, Progresses, Swept, Made
<1>4. CASE p.phase # "Running"
  <2>1. c2 = c /\ d2 = d
    BY <1>4
  <2>2. Undisturbed(t, Q, c)
    BY DEF Pair, Undisturbed
  <2>3. Uploads(t, Q, c, step)
    BY <1>1, <1>2 DEF Pair, Uploads
  <2>4. Downloads(t, Q, c, d, step)
    BY <1>1, <1>2 DEF Pair, Downloads
  <2>5. CleansUp(t, Q, c, d, step)
    BY <1>1, <1>2 DEF Pair, CleansUp
  <2> QED
    BY <1>3, <2>1, <2>2, <2>3, <2>4, <2>5 DEF Pair
<1>5. CASE p.phase = "Running"
  <2>1. Live(p)
    BY <1>5 DEF Live
  <2>2. /\ step \in Restarting
        /\ p.kind # "download" => \A q \in P : q.kind = "download" => ~Live(q)
        /\ p.kind = "download" => c2 = c
    BY <1>2, <1>5, <2>1, LivePod DEF Kinds, Made
  <2>3. Undisturbed(t, Q, c2)
    BY <1>1, <2>2 DEF Pair, Undisturbed
  <2> QED
    BY <1>3, <2>2, <2>3 DEF Pair, Uploads, Downloads, CleansUp, Restarting
<1> QED
  BY <1>4, <1>5

(* The caller fails, crashes or goes on with a clean-up.                    *)
LEMMA CallerRestarts ==
  ASSUME NEW t \in Transfers, NEW P, NEW c, NEW d, NEW S, NEW C, NEW step \in Steps,
         Pair(t, P, c, d, S, step, C), NEW next \in Restarting, NEW Q, NEW S2, NEW C2,
         \A q \in Q : \E p \in P : q.kind = p.kind /\ q.phase = p.phase
  PROVE  Pair(t, Q, c, d, S2, next, C2)
<1>1. Undisturbed(t, Q, c)
  BY DEF Pair, Undisturbed, Live
<1> QED
  BY <1>1 DEF Pair, Own, Uploads, Downloads, CleansUp, Tidied, Restarting

(* The pod of the next stage, which may fail to be answered.                *)
Stage(kind, step, next) ==
  \/ kind = "upload" /\ step = "prepared" /\ next = "uploading"
  \/ kind = "download" /\ step = "uploaded" /\ next = "downloading"
  \/ kind = "cleanup" /\ step = "downloaded" /\ next = "cleaning"
LEMMA PodCreated ==
  ASSUME NEW t \in Transfers, NEW P, NEW c, NEW d, NEW S, NEW C, NEW step \in Steps,
         Pair(t, P, c, d, S, step, C), NEW p, p.phase = "Pending", p.deleted = FALSE,
         NEW next, Stage(p.kind, step, next)
  PROVE  /\ Pair(t, P \cup {p}, c, d, S, next, NoCall)
         /\ Pair(t, P \cup {p}, c, d, S, "failed", NoCall)
<1> DEFINE Q == P \cup {p}
<1>1. Undisturbed(t, Q, c)
  BY DEF Pair, Stage, Undisturbed, Live, Uploads, Downloads
<1>2. Uploads(t, Q, c, next) /\ Uploads(t, Q, c, "failed")
  BY DEF Pair, Stage, Uploads
<1>3. Downloads(t, Q, c, d, next) /\ Downloads(t, Q, c, d, "failed")
  BY DEF Pair, Stage, Uploads, Downloads
<1>4. CleansUp(t, Q, c, d, next) /\ CleansUp(t, Q, c, d, "failed")
  BY DEF Pair, Stage, Downloads, CleansUp
<1> QED
  BY <1>1, <1>2, <1>3, <1>4 DEF Pair, Stage, Tidied

(* The pod of a stage has succeeded.                                        *)
Completes(kind, step, next) ==
  \/ kind = "upload" /\ step = "uploading" /\ next = "uploaded"
  \/ kind = "download" /\ step = "downloading" /\ next = "downloaded"
  \/ kind = "cleanup" /\ step = "cleaning" /\ next = "cleaned"
LEMMA StageCompletes ==
  ASSUME NEW t \in Transfers, NEW P, NEW c, NEW d, NEW S, NEW C, NEW step \in Steps,
         Pair(t, P, c, d, S, step, C), OneOfAKind(P), NEW p \in P, p.phase = "Succeeded",
         NEW next, Completes(p.kind, step, next)
  PROVE  Pair(t, P, c, d, S, next, NoCall)
<1>1. \A q \in P : q.kind = p.kind => q = p
  BY DEF OneOfAKind
<1>2. Uploads(t, P, c, next)
  BY <1>1 DEF Pair, Completes, Uploads
<1>3. Downloads(t, P, c, d, next)
  BY <1>1 DEF Pair, Completes, Downloads
<1>4. CleansUp(t, P, c, d, next)
  BY <1>1 DEF Pair, Completes, CleansUp
<1> QED
  BY <1>2, <1>3, <1>4 DEF Pair, Completes, Tidied, Progresses, NoCall

(* A clean-up of a side goes on: it marks pods and takes secrets away,       *)
Follows(P, Q) ==
  \A q \in Q : \E p \in P : /\ q.kind = p.kind /\ q.phase = p.phase /\ Name(q) = Name(p)
                            /\ p.deleted => q.deleted
Cleaning(side, step) ==
  \/ step \in {"failed", "restarted"}
  \/ step = "cleaned" /\ side = "source"
  \/ step = "tidied" /\ side = "dest"
LEMMA CleanupProgresses ==
  ASSUME NEW t \in Transfers, NEW P, NEW c, NEW d, NEW S, NEW C, NEW step \in Steps,
         Pair(t, P, c, d, S, step, C), NEW side, Cleaning(side, step),
         NEW Q, Follows(P, Q), NEW S2, S2 \subseteq S, NEW C2,
         step \in {"cleaned", "tidied"} => Progresses(side, Q, S2, C2)
  PROVE  Pair(t, Q, c, d, S2, step, C2)
<1>1. Undisturbed(t, Q, c)
  BY DEF Pair, Undisturbed, Live, Follows
<1>2. Tidied(Q, S2, step, C2)
  BY DEF Pair, Tidied, Swept, Follows, Cleaning
<1>3. step \in {"cleaned", "tidied"} => CleansUp(t, Q, c, d, step)
  BY DEF Pair, CleansUp, Follows
<1> QED
  BY <1>1, <1>2, <1>3 DEF Pair, Uploads, Downloads, CleansUp, Cleaning

(* and returns when nothing is left on its lists.                           *)
Tidies(side, step, next) ==
  \/ step \in {"failed", "restarted"} /\ next \in Restarting
  \/ step = "cleaned" /\ side = "source" /\ next = "tidied"
  \/ step = "tidied" /\ side = "dest" /\ next = "done"
LEMMA CleanupReturns ==
  ASSUME NEW t \in Transfers, NEW P, NEW c, NEW d, NEW S, NEW C, NEW step \in Steps,
         Pair(t, P, c, d, S, step, C), NEW side, NEW next, Tidies(side, step, next),
         C.at = "secrets", C.left = {}
  PROVE  Pair(t, P, c, d, S, next, NoCall)
<1>1. CASE next \in Restarting
  BY <1>1, CallerRestarts
<1>2. CASE next \notin Restarting
  <2>1. Swept(side, P, S)
    BY <1>2 DEF Pair, Tidied, Progresses, Swept, Tidies
  <2>2. Tidied(P, S, next, NoCall)
    BY <1>2, <2>1 DEF Pair, Tidied, Progresses, Tidies, NoCall
  <2>3. CleansUp(t, P, c, d, next)
    BY <1>2 DEF Pair, CleansUp, Tidies
  <2> QED
    BY <1>2, <2>2, <2>3 DEF Pair, Tidies, Uploads, Downloads
<1> QED
  BY <1>1, <1>2

-----------------------------------------------------------------------------
(* The pods of all pairs stay as they were built.                           *)
LEMMA OneOfAKindOfAPair ==
  ASSUME PodsFit, NEW t
  PROVE  OneOfAKind(PodsOf(t))
BY OnePod DEF OneOfAKind, PodsOf

LEMMA AddKeepsFit ==
  ASSUME PodsFit, NEW t \in Transfers, NEW kind \in Kinds, NEW p, p = buildPod(t, kind),
         ~\E q \in pods : SameName(p, q), pods' = pods \cup {p}
  PROVE  /\ PodsFit'
         /\ PodsOf(t)' = PodsOf(t) \cup {p}
         /\ \A u \in Transfers \ {t} : PodsOf(u)' = PodsOf(u)
<1>1. p \in PodSet /\ Fits(p) /\ p.by = t
  BY PodBuilt
<1>2. PodsFit'
  <2>1. pods' \subseteq PodSet /\ \A q \in pods' : Fits(q)
    BY <1>1 DEF PodsFit
  <2>2. \A q, r \in pods' : SameName(q, r) => q = r
    BY DEF PodsFit, SameName, Name
  <2> QED
    BY <2>1, <2>2 DEF PodsFit
<1> QED
  BY <1>1, <1>2 DEF PodsOf

(* A phase changes: p is replaced by r.                                     *)
LEMMA ReplaceKeepsFit ==
  ASSUME PodsFit, NEW p \in pods, NEW phase \in Phases, NEW r,
         r = [p EXCEPT !.phase = phase], pods' = (pods \ {p}) \cup {r}
  PROVE  /\ PodsFit'
         /\ SamePod(p, r) /\ r.phase = phase /\ r.deleted = p.deleted
         /\ PodsOf(p.by)' = (PodsOf(p.by) \ {p}) \cup {r}
         /\ \A u \in Transfers \ {p.by} : PodsOf(u)' = PodsOf(u)
<1>1. p \in PodSet /\ Fits(p)
  BY DEF PodsFit
<1>2. r \in PodSet /\ SamePod(p, r) /\ r.phase = phase /\ r.deleted = p.deleted
  BY <1>1, PodChanges
<1>3. Fits(r)
  BY <1>1, <1>2 DEF Fits, SamePod
<1>4. ASSUME NEW q \in pods'
      PROVE  q = r \/ (q \in pods /\ ~SameName(q, r) /\ ~SameName(r, q))
  <2>1. q = r \/ (q \in pods /\ q # p)
    OBVIOUS
  <2>2. Name(p) = Name(r)
    BY <1>2, NameParts DEF SamePod, SameName
  <2>3. q \in pods /\ q # p => Name(q) # Name(p)
    BY DEF PodsFit, SameName
  <2> QED
    BY <2>1, <2>2, <2>3 DEF SameName
<1>5. PodsFit'
  <2>1. pods' \subseteq PodSet /\ \A q \in pods' : Fits(q)
    BY <1>2, <1>3 DEF PodsFit
  <2>2. \A q, s \in pods' : SameName(q, s) => q = s
    BY <1>4 DEF PodsFit
  <2> QED
    BY <2>1, <2>2 DEF PodsFit
<1>6. r.by = p.by
  BY <1>2 DEF SamePod
<1> QED
  BY <1>2, <1>5, <1>6 DEF PodsOf

LEMMA RemoveKeepsFit ==
  ASSUME PodsFit, NEW p \in pods, pods' = pods \ {p}
  PROVE  /\ PodsFit'
         /\ PodsOf(p.by)' = PodsOf(p.by) \ {p}
         /\ \A u \in Transfers \ {p.by} : PodsOf(u)' = PodsOf(u)
BY DEF PodsFit, PodsOf

(* A clean-up marks the pod that has a name.                                *)
LEMMA PodMarked ==
  ASSUME PodsFit, NEW p \in pods
  PROVE  /\ Marked(p) \in PodSet /\ SamePod(p, Marked(p)) /\ Name(Marked(p)) = Name(p)
         /\ Marked(p).phase = p.phase /\ Marked(p).deleted = TRUE
<1>1. p \in PodSet /\ "Pending" \in Phases
  BY DEF PodsFit, Phases
<1>2. /\ Marked(p) \in PodSet /\ SamePod(p, Marked(p))
      /\ Marked(p).phase = p.phase /\ Marked(p).deleted = TRUE
  BY <1>1, PodChanges DEF Marked
<1>3. Name(Marked(p)) = Name(p)
  BY <1>2 DEF Name, SamePod
<1> QED
  BY <1>2, <1>3

LEMMA MarkKeepsFit ==
  ASSUME PodsFit, NEW name,
         pods' = {IF Name(p) = name THEN Marked(p) ELSE p : p \in pods}
  PROVE  /\ PodsFit'
         /\ \A t \in Transfers :
              /\ Follows(PodsOf(t), PodsOf(t)')
              /\ \A q \in PodsOf(t)' : Name(q) = name => q.deleted
              /\ (\A p \in PodsOf(t) : Name(p) # name) => PodsOf(t)' = PodsOf(t)
<1> DEFINE new(p) == IF Name(p) = name THEN Marked(p) ELSE p
<1>1. ASSUME NEW p \in pods
      PROVE  /\ new(p) \in PodSet /\ SamePod(p, new(p)) /\ Name(new(p)) = Name(p)
             /\ new(p).phase = p.phase /\ (p.deleted => new(p).deleted)
             /\ Name(p) = name => new(p).deleted
             /\ Name(p) # name => new(p) = p
             /\ Fits(new(p)) /\ new(p).by = p.by
  <2>1. CASE Name(p) = name
    <3>1. new(p) = Marked(p)
      BY <2>1
    <3>2. /\ Marked(p) \in PodSet /\ SamePod(p, Marked(p)) /\ Name(Marked(p)) = Name(p)
          /\ Marked(p).phase = p.phase /\ Marked(p).deleted = TRUE /\ Fits(p)
      BY PodMarked DEF PodsFit
    <3>3. Fits(Marked(p)) /\ Marked(p).by = p.by
      BY <3>2 DEF Fits, SamePod
    <3> HIDE DEF new
    <3> QED
      BY <2>1, <3>1, <3>2, <3>3
  <2>2. CASE Name(p) # name
    <3>1. new(p) = p
      BY <2>2
    <3>2. p \in PodSet /\ Fits(p) /\ SamePod(p, p)
      BY DEF PodsFit, SamePod
    <3> HIDE DEF new
    <3> QED
      BY <2>2, <3>1, <3>2
  <2> QED
    BY <2>1, <2>2
<1>2. pods' = {new(p) : p \in pods}
  OBVIOUS
<1> HIDE DEF new
<1>3. PodsFit'
  <2>1. pods' \subseteq PodSet /\ \A q \in pods' : Fits(q)
    BY <1>1, <1>2
  <2>2. ASSUME NEW q \in pods', NEW r \in pods', SameName(q, r)
        PROVE  q = r
    <3>1. PICK p \in pods : q = new(p)
      BY <1>2
    <3>2. PICK s \in pods : r = new(s)
      BY <1>2
    <3>3. SameName(p, s)
      BY <1>1, <2>2, <3>1, <3>2 DEF SameName
    <3>4. p = s
      BY <3>3 DEF PodsFit
    <3> QED
      BY <3>1, <3>2, <3>4
  <2> QED
    BY <2>1, <2>2 DEF PodsFit
<1>4. ASSUME NEW t \in Transfers
      PROVE  /\ Follows(PodsOf(t), PodsOf(t)')
             /\ \A q \in PodsOf(t)' : Name(q) = name => q.deleted
             /\ (\A p \in PodsOf(t) : Name(p) # name) => PodsOf(t)' = PodsOf(t)
  <2>1. ASSUME NEW q \in PodsOf(t)'
        PROVE  \E p \in PodsOf(t) :
                 /\ q.kind = p.kind /\ q.phase = p.phase /\ Name(q) = Name(p)
                 /\ p.deleted => q.deleted
                 /\ Name(p) = name => q.deleted
    <3>1. PICK p \in pods : q = new(p)
      BY <1>2 DEF PodsOf
    <3>2. p \in PodsOf(t)
      BY <1>1, <3>1 DEF PodsOf
    <3> QED
      BY <1>1, <3>1, <3>2 DEF SamePod
  <2>2. ASSUME \A p \in PodsOf(t) : Name(p) # name
        PROVE  PodsOf(t)' = PodsOf(t)
    BY <1>1, <1>2, <2>2 DEF PodsOf
  <2> QED
    BY <2>1, <2>2 DEF Follows
<1> QED
  BY <1>3, <1>4

(* A pod has the name it was built with, and no other pair's pod of that    *)
(* name is built for a pair that is alone.                                  *)
LEMMA NamesOfLone ==
  ASSUME PodsFit, NEW u \in Lone, NEW t \in Transfers \ {u}, NEW k \in Kinds,
         NEW p \in PodsOf(u)
  PROVE  Name(p) # Name(buildPod(t, k))
<1>1. p \in pods /\ p.by = u /\ Fits(p) /\ p.kind \in Kinds /\ u \in Transfers
  BY DEF PodsOf, PodsFit, PodSet, Lone
<1>2. Name(p) = Name(buildPod(u, p.kind))
  BY <1>1 DEF Name, buildPod, Fits
<1>3. Name(p) = Name(buildPod(t, k)) => p.kind = k
  BY DEF Name, buildPod
<1>4. ~SameName(buildPod(u, p.kind), buildPod(t, p.kind))
  BY <1>1 DEF Lone, Alone
<1> QED
  BY <1>2, <1>3, <1>4 DEF SameName

-----------------------------------------------------------------------------
(* Steps of a caller: where it is and what its clean-up has left to do.     *)
Moved(t, step, C) ==
  /\ pc' \in [Transfers -> Steps] /\ Listed'
  /\ pc'[t] = step /\ call'[t] = C
  /\ \A u \in Transfers \ {t} : pc'[u] = pc[u] /\ call'[u] = call[u]
LEMMA NoCallIsOwn ==
  ASSUME NEW t \in Transfers
  PROVE  NoCall \in OwnCalls(t)
BY DEF OwnCalls

LEMMA CallerMoves ==
  ASSUME IInv, NEW t \in Transfers
  PROVE  /\ \A step \in Steps : Goto(t, step) => Moved(t, step, NoCall)
         /\ \A at, l : /\ Progress(t, at, l) /\ [at |-> at, left |-> l] \in OwnCalls(t)
                      => Moved(t, pc[t], [at |-> at, left |-> l])
<1>1. /\ pc \in [Transfers -> Steps] /\ call = [u \in Transfers |-> call[u]]
      /\ \A u \in Transfers : call[u] \in OwnCalls(u)
  BY DEF IInv, Typed, Listed
<1>2. ASSUME NEW C \in OwnCalls(t), call' = [call EXCEPT ![t] = C]
      PROVE  /\ Listed' /\ call'[t] = C
             /\ \A u \in Transfers \ {t} : call'[u] = call[u]
  <2>1. call' = [u \in Transfers |-> IF u = t THEN C ELSE call[u]]
    BY <1>1, <1>2
  <2>2. \A u \in Transfers : call'[u] = IF u = t THEN C ELSE call[u]
    BY <2>1
  <2>3. \A u \in Transfers : call'[u] \in OwnCalls(u)
    BY <1>1, <2>2
  <2>4. call' = [u \in Transfers |-> call'[u]]
    BY <2>1, <2>2
  <2>5. \A u \in Transfers : OwnCalls(u)' = OwnCalls(u)
    BY DEF OwnCalls
  <2> QED
    BY <2>2, <2>3, <2>4, <2>5 DEF Listed
<1>3. ASSUME NEW step \in Steps, Goto(t, step)
      PROVE  Moved(t, step, NoCall)
  <2>1. pc' = [pc EXCEPT ![t] = step] /\ call' = [call EXCEPT ![t] = NoCall]
    BY <1>3 DEF Goto
  <2>2. /\ Listed' /\ call'[t] = NoCall
        /\ \A u \in Transfers \ {t} : call'[u] = call[u]
    BY <1>2, <2>1, NoCallIsOwn
  <2>3. /\ pc' \in [Transfers -> Steps] /\ pc'[t] = step
        /\ \A u \in Transfers \ {t} : pc'[u] = pc[u]
    BY <1>1, <2>1
  <2> QED
    BY <2>2, <2>3 DEF Moved
<1>4. ASSUME NEW at, NEW l, Progress(t, at, l), [at |-> at, left |-> l] \in OwnCalls(t)
      PROVE  Moved(t, pc[t], [at |-> at, left |-> l])
  <2>1. call' = [call EXCEPT ![t] = [at |-> at, left |-> l]] /\ pc' = pc
    BY <1>4 DEF Progress
  <2>2. /\ Listed' /\ call'[t] = [at |-> at, left |-> l]
        /\ \A u \in Transfers \ {t} : call'[u] = call[u]
    BY <1>2, <1>4, <2>1
  <2> QED
    BY <1>1, <2>1, <2>2 DEF Moved
<1> QED
  BY <1>3, <1>4

(* It leaves the data alone, and the pods and secrets of the pairs that are *)
(* alone.                                                                   *)
LEMMA CallerKeeps ==
  ASSUME IInv, NEW t \in Transfers, NEW step \in Steps, NEW C, Moved(t, step, C),
         UNCHANGED data, PodsFit', SecretsFit', faults' \in 0..MaxFaults,
         \A u \in Lone \ {t} : PodsOf(u)' = PodsOf(u) /\ SecretsOf(u)' = SecretsOf(u),
         t \in Lone =>
           Pair(t, PodsOf(t)', cloud[Path(t)], dst[t], SecretsOf(t)', step, C)
  PROVE  IInv'
<1>1. Typed' /\ Listed'
  BY DEF IInv, Typed, Moved, data
<1>2. \A u \in Transfers : Own(u, cloud[Path(u)], dst[u])'
  BY DEF IInv, data, Path
<1>3. ASSUME NEW u \in Lone
      PROVE  InOrder(u)'
  <2>1. u \in Transfers
    BY DEF Lone
  <2>2. CASE u = t
    BY <2>2 DEF InOrder, data, Path, Moved
  <2>3. CASE u # t
    <3>1. pc'[u] = pc[u] /\ call'[u] = call[u]
      BY <2>1, <2>3 DEF Moved
    <3>2. PodsOf(u)' = PodsOf(u) /\ SecretsOf(u)' = SecretsOf(u)
      BY <2>3
    <3>3. Pair(u, PodsOf(u), cloud[Path(u)], dst[u], SecretsOf(u), pc[u], call[u])
      BY DEF IInv, InOrder
    <3> QED
      BY <3>1, <3>2, <3>3 DEF InOrder, data, Path
  <2> QED
    BY <2>2, <2>3
<1>4. Lone' = Lone
  BY DEF Lone, Alone, SameName, Name, buildPod, PodName, Claim, Side
<1> QED
  BY <1>1, <1>2, <1>3, <1>4 DEF IInv

LEMMA FaultTyped ==
  ASSUME IInv
  PROVE  /\ Fault => faults' \in 0..MaxFaults
         /\ UNCHANGED faults => faults' \in 0..MaxFaults
BY PairsAssumption DEF IInv, Typed, Fault

(* The pair of a caller.                                                    *)
LEMMA CallersPair ==
  ASSUME IInv, NEW t \in Transfers
  PROVE  /\ t \in Lone => Pair(t, PodsOf(t), cloud[Path(t)], dst[t], SecretsOf(t), pc[t], call[t])
         /\ pc[t] \in Steps /\ PodsFit /\ SecretsFit
BY DEF IInv, InOrder, Typed

LEMMA ObjectsKeep ==
  ASSUME IInv
  PROVE  /\ UNCHANGED pods => PodsFit' /\ \A u \in Transfers : PodsOf(u)' = PodsOf(u)
         /\ UNCHANGED secrets =>
              SecretsFit' /\ \A u \in Transfers : SecretsOf(u)' = SecretsOf(u)
BY DEF IInv, PodsFit, PodsOf, SecretsFit, SecretsOf

(* It may always fail.                                                      *)
LEMMA CallerFails ==
  ASSUME IInv, NEW t \in Transfers, Goto(t, "failed"), UNCHANGED <<objects, data>>,
         faults' \in 0..MaxFaults
  PROVE  IInv'
<1>1. /\ PodsFit' /\ SecretsFit'
      /\ \A u \in Transfers : PodsOf(u)' = PodsOf(u) /\ SecretsOf(u)' = SecretsOf(u)
  BY ObjectsKeep DEF objects
<1>2. t \in Lone =>
        Pair(t, PodsOf(t)', cloud[Path(t)], dst[t], SecretsOf(t)', "failed", NoCall)
  <2>1. CASE t \in Lone
    <3>1. Pair(t, PodsOf(t), cloud[Path(t)], dst[t], SecretsOf(t), pc[t], call[t])
          /\ pc[t] \in Steps
      BY <2>1, CallersPair
    <3>2. Pair(t, PodsOf(t), cloud[Path(t)], dst[t], SecretsOf(t), "failed", NoCall)
      BY <3>1, CallerRestarts DEF Restarting
    <3> QED
      BY <1>1, <3>2
  <2> QED
    BY <2>1
<1>3. Moved(t, "failed", NoCall) /\ "failed" \in Steps
  BY CallerMoves DEF Steps
<1>4. \A u \in Lone \ {t} : PodsOf(u)' = PodsOf(u) /\ SecretsOf(u)' = SecretsOf(u)
  BY <1>1 DEF Lone
<1> QED
  BY <1>1, <1>2, <1>3, <1>4, CallerKeeps

LEMMA CreateKeeps ==
  ASSUME IInv, NEW t \in Transfers, NEW kind \in Kinds, NEW next \in Steps,
         Stage(kind, pc[t], next), Create(t, kind, next), UNCHANGED <<secrets, data>>
  PROVE  IInv'
<1> DEFINE p == buildPod(t, kind)
<1>1. PodsFit /\ pc[t] \in Steps
  BY CallersPair
<1>2. p.kind = kind /\ p.phase = "Pending" /\ p.deleted = FALSE
  BY PodBuilt
<1> HIDE DEF p
<1>3. CASE Goto(t, "failed") /\ UNCHANGED pods /\ (UNCHANGED faults \/ Fault)
  BY <1>3, CallerFails, FaultTyped DEF objects
<1>4. CASE /\ ~\E q \in pods : SameName(p, q)
           /\ pods' = pods \cup {p}
           /\ \/ Goto(t, next) /\ UNCHANGED faults
              \/ Goto(t, "failed") /\ Fault
  <2>1. /\ PodsFit' /\ PodsOf(t)' = PodsOf(t) \cup {p}
        /\ \A u \in Transfers \ {t} : PodsOf(u)' = PodsOf(u)
    BY <1>1, <1>4, AddKeepsFit DEF p
  <2>2. SecretsFit' /\ \A u \in Transfers : SecretsOf(u)' = SecretsOf(u)
    BY ObjectsKeep
  <2>3. t \in Lone =>
          /\ Pair(t, PodsOf(t)', cloud[Path(t)], dst[t], SecretsOf(t)', next, NoCall)
          /\ Pair(t, PodsOf(t)', cloud[Path(t)], dst[t], SecretsOf(t)', "failed", NoCall)
    <3>1. CASE t \in Lone
      <4>1. Pair(t, PodsOf(t), cloud[Path(t)], dst[t], SecretsOf(t), pc[t], call[t])
        BY <3>1, CallersPair
      <4>2. /\ Pair(t, PodsOf(t) \cup {p}, cloud[Path(t)], dst[t], SecretsOf(t), next, NoCall)
            /\ Pair(t, PodsOf(t) \cup {p}, cloud[Path(t)], dst[t], SecretsOf(t), "failed", NoCall)
        BY <1>1, <1>2, <4>1, PodCreated
      <4> QED
        BY <2>1, <2>2, <4>2
    <3> QED
      BY <3>1
  <2>4. faults' \in 0..MaxFaults /\ "failed" \in Steps
    BY <1>4, FaultTyped DEF Steps
  <2>5. \A u \in Lone \ {t} : PodsOf(u)' = PodsOf(u) /\ SecretsOf(u)' = SecretsOf(u)
    BY <2>1, <2>2 DEF Lone
  <2>6. CASE Goto(t, next)
    <3>1. Moved(t, next, NoCall)
      BY <2>6, CallerMoves
    <3> QED
      BY <2>1, <2>2, <2>3, <2>4, <2>5, <3>1, CallerKeeps
  <2>7. CASE Goto(t, "failed")
    <3>1. Moved(t, "failed", NoCall)
      BY <2>4, <2>7, CallerMoves
    <3> QED
      BY <2>1, <2>2, <2>3, <2>4, <2>5, <3>1, CallerKeeps
  <2> QED
    BY <1>4, <2>6, <2>7
<1> QED
  BY <1>3, <1>4 DEF Create, Fails, p

LEMMA CompleteKeeps ==
  ASSUME IInv, NEW t \in Transfers, NEW kind \in Kinds, NEW next \in Steps,
         Completes(kind, pc[t], next), isPodComplete(t, kind, next)
  PROVE  IInv'
<1>1. PodsFit /\ pc[t] \in Steps
  BY CallersPair
<1>2. UNCHANGED <<objects, data>> /\ faults' \in 0..MaxFaults
  BY FaultTyped DEF isPodComplete, Fails
<1>3. CASE Goto(t, "failed")
  BY <1>2, <1>3, CallerFails
<1>4. ASSUME NEW p \in pods, SameName(p, buildPod(t, kind)), p.phase = "Succeeded",
             Goto(t, next)
      PROVE  IInv'
  <2>1. /\ PodsFit' /\ SecretsFit'
        /\ \A u \in Transfers : PodsOf(u)' = PodsOf(u) /\ SecretsOf(u)' = SecretsOf(u)
    BY <1>2, ObjectsKeep DEF objects
  <2>2. t \in Lone =>
          Pair(t, PodsOf(t)', cloud[Path(t)], dst[t], SecretsOf(t)', next, NoCall)
    <3>1. CASE t \in Lone
      <4>1. Pair(t, PodsOf(t), cloud[Path(t)], dst[t], SecretsOf(t), pc[t], call[t])
        BY <3>1, CallersPair
      <4>2. PICK o \in PodsOf(t) : o.kind = kind
        BY <4>1 DEF Pair, Completes, Uploads, Downloads, CleansUp
      <4>3. o \in pods /\ o.by = t /\ Fits(o)
        BY <1>1, <4>2 DEF PodsOf, PodsFit
      <4>4. SameName(p, o)
        <5>1. Name(o) = Name(buildPod(t, kind))
          BY <4>2, <4>3 DEF Name, Fits, buildPod
        <5> QED
          BY <1>4, <5>1 DEF SameName
      <4>5. p \in PodsOf(t) /\ p.kind = kind
        BY <1>1, <4>2, <4>3, <4>4 DEF PodsFit
      <4>6. Pair(t, PodsOf(t), cloud[Path(t)], dst[t], SecretsOf(t), next, NoCall)
        BY <1>1, <1>4, <4>1, <4>5, StageCompletes, OneOfAKindOfAPair
      <4> QED
        BY <2>1, <4>6
    <3> QED
      BY <3>1
  <2>3. Moved(t, next, NoCall)
    BY <1>4, CallerMoves
  <2>4. \A u \in Lone \ {t} : PodsOf(u)' = PodsOf(u) /\ SecretsOf(u)' = SecretsOf(u)
    BY <2>1 DEF Lone
  <2> QED
    BY <1>2, <2>1, <2>2, <2>3, <2>4, CallerKeeps
<1> QED
  BY <1>3, <1>4 DEF isPodComplete, Fails

(* The secrets a clean-up finds are those of its pair.                       *)
LEMMA SecretsAreOwn ==
  ASSUME SecretsFit, NEW t \in Transfers, NEW side \in Sides
  PROVE  /\ MatchingSecrets(t, side) = {s \in SecretsOf(t) : s.side = side}
         /\ MatchingSecrets(t, side) \subseteq {secret(t, s) : s \in Sides}
<1>1. ASSUME NEW s \in secrets
      PROVE  /\ s.by \in Transfers /\ s.side \in Sides /\ s = secret(s.by, s.side)
             /\ s.namespace = Claim(s.by, s.side)[1] /\ s.for = Claim(s.by, s.side)[2]
  <2>1. PICK u \in Transfers, x \in Sides : s = secret(u, x)
    BY DEF SecretsFit
  <2>2. s.by = u /\ s.side = x /\ s.namespace = Claim(u, x)[1] /\ s.for = Claim(u, x)[2]
    BY <2>1 DEF secret
  <2> QED
    BY <2>1, <2>2
<1>2. ASSUME NEW s \in MatchingSecrets(t, side)
      PROVE  s \in SecretsOf(t) /\ s.side = side /\ s = secret(t, side)
  <2>1. /\ s \in secrets /\ s.side = side
        /\ s.namespace = Claim(t, side)[1] /\ s.for = Claim(t, side)[2]
    BY DEF MatchingSecrets, InNamespace, Labels
  <2>2. s.by = t
    BY <1>1, <2>1, ClaimsDiffer
  <2> QED
    BY <1>1, <2>1, <2>2 DEF SecretsOf
<1>3. ASSUME NEW s \in SecretsOf(t), s.side = side
      PROVE  s \in MatchingSecrets(t, side)
  BY <1>1, <1>3 DEF SecretsOf, MatchingSecrets, InNamespace, Labels
<1> QED
  BY <1>2, <1>3

(* A clean-up of pair t takes one step.                                     *)
LEMMA CleanupMoves ==
  ASSUME IInv, NEW t \in Transfers, NEW side \in Sides, Cleaning(side, pc[t]),
         UNCHANGED <<data, faults>>, PodsFit', SecretsFit',
         NEW at, NEW left, Progress(t, at, left), [at |-> at, left |-> left] \in OwnCalls(t),
         Follows(PodsOf(t), PodsOf(t)'), SecretsOf(t)' \subseteq SecretsOf(t),
         t \in Lone /\ pc[t] \in {"cleaned", "tidied"} =>
           Progresses(side, PodsOf(t)', SecretsOf(t)', [at |-> at, left |-> left]),
         \A u \in Lone \ {t} : PodsOf(u)' = PodsOf(u) /\ SecretsOf(u)' = SecretsOf(u)
  PROVE  IInv'
<1> DEFINE C == [at |-> at, left |-> left]
           Q == PodsOf(t)'
           S2 == SecretsOf(t)'
<1>1. Moved(t, pc[t], C) /\ pc[t] \in Steps
  BY CallerMoves, CallersPair
<1>2. t \in Lone => Pair(t, Q, cloud[Path(t)], dst[t], S2, pc[t], C)
  <2>1. CASE t \in Lone
    <3>1. Pair(t, PodsOf(t), cloud[Path(t)], dst[t], SecretsOf(t), pc[t], call[t])
      BY <2>1, CallersPair
    <3>2. /\ Follows(PodsOf(t), Q) /\ S2 \subseteq SecretsOf(t)
          /\ pc[t] \in {"cleaned", "tidied"} => Progresses(side, Q, S2, C)
      BY <2>1
    <3> HIDE DEF C, Q, S2
    <3> QED
      BY <1>1, <3>1, <3>2, CleanupProgresses
  <2> QED
    BY <2>1
<1>3. faults' \in 0..MaxFaults
  BY FaultTyped
<1>4. t \in Lone => Pair(t, PodsOf(t)', cloud[Path(t)], dst[t], SecretsOf(t)', pc[t], C)
  BY <1>2
<1> HIDE DEF C, Q, S2
<1> QED
  BY <1>1, <1>3, <1>4, CallerKeeps

LEMMA FollowsItself == \A P : Follows(P, P)
BY DEF Follows

LEMMA CleanupKeeps ==
  ASSUME IInv, NEW t \in Transfers, NEW side \in Sides, NEW next \in Steps,
         Tidies(side, pc[t], next), Cleanup(t, side, next)
  PROVE  IInv'
<1>1. PodsFit /\ SecretsFit /\ pc[t] \in Steps /\ Cleaning(side, pc[t]) /\ UNCHANGED data
  BY CallersPair DEF Tidies, Cleaning, Cleanup
<1>2. /\ call[t] \in OwnCalls(t)
      /\ call[t].at = "pods" => call[t].left \subseteq {Name(buildPod(t, k)) : k \in Kinds}
      /\ call[t].at = "secrets" => call[t].left \subseteq {secret(t, s) : s \in Sides}
  <2>1. call[t] \in OwnCalls(t)
    BY DEF IInv, Listed
  <2> QED
    BY <2>1 DEF OwnCalls, NoCall
<1>3. t \in Lone => Pair(t, PodsOf(t), cloud[Path(t)], dst[t], SecretsOf(t), pc[t], call[t])
  BY CallersPair
<1>4. t \in Lone /\ pc[t] \in {"cleaned", "tidied"} =>
        Progresses(side, PodsOf(t), SecretsOf(t), call[t])
  BY <1>1, <1>3 DEF Pair, Tidied, Cleaning
<1>5. \A u \in Transfers : Follows(PodsOf(u), PodsOf(u))
  BY FollowsItself
<1>6. CASE ListPods(t, side)
  <2> DEFINE left == {Name(p) : p \in Matching(t, side)}
             C == [at |-> "pods", left |-> left]
  <2>1. Progress(t, "pods", left) /\ UNCHANGED objects /\ UNCHANGED faults
    BY <1>6 DEF ListPods, Progress
  <2>2. Matching(t, side) = {p \in PodsOf(t) : Side(p.kind) = side}
    BY <1>1, MatchingIsOwn
  <2>3. C \in OwnCalls(t)
    <3>1. ASSUME NEW p \in PodsOf(t)
          PROVE  Name(p) \in {Name(buildPod(t, k)) : k \in Kinds}
      <4>1. p.by = t /\ Fits(p) /\ p.kind \in Kinds
        BY <1>1 DEF PodsOf, PodsFit, PodSet
      <4>2. Name(p) = Name(buildPod(t, p.kind))
        BY <4>1 DEF Name, buildPod, Fits
      <4> QED
        BY <4>1, <4>2
    <3>2. left \in SUBSET {Name(buildPod(t, k)) : k \in Kinds}
      BY <2>2, <3>1
    <3> HIDE DEF left
    <3> QED
      BY <3>2 DEF OwnCalls
  <2>4. Progresses(side, PodsOf(t), SecretsOf(t), C)
    <3>1. C.at = "pods" /\ C.left = left
      OBVIOUS
    <3>2. \A p \in PodsOf(t) : Side(p.kind) = side => Name(p) \in left
      BY <2>2
    <3> HIDE DEF C, left
    <3> QED
      BY <3>1, <3>2 DEF Progresses
  <2>5. /\ PodsFit' /\ SecretsFit'
        /\ \A u \in Transfers : PodsOf(u)' = PodsOf(u) /\ SecretsOf(u)' = SecretsOf(u)
    BY <2>1, ObjectsKeep DEF objects
  <2>6. \A u \in Lone \ {t} : PodsOf(u)' = PodsOf(u) /\ SecretsOf(u)' = SecretsOf(u)
    BY <2>5 DEF Lone
  <2>7. /\ Follows(PodsOf(t), PodsOf(t)') /\ SecretsOf(t)' \subseteq SecretsOf(t)
        /\ Progresses(side, PodsOf(t)', SecretsOf(t)', C)
    BY <1>5, <2>4, <2>5
  <2> HIDE DEF left
  <2> QED
    BY <1>1, <2>1, <2>3, <2>5, <2>6, <2>7, CleanupMoves
<1>7. CASE DeletePod(t)
  <2>1. PICK name \in call[t].left :
          /\ pods' = {IF Name(p) = name THEN Marked(p) ELSE p : p \in pods}
          /\ Progress(t, "pods", call[t].left \ {name})
    BY <1>7 DEF DeletePod
  <2>2. call[t].at = "pods" /\ UNCHANGED secrets /\ UNCHANGED faults
    BY <1>7, <2>1 DEF DeletePod, Progress
  <2> DEFINE left == call[t].left \ {name}
             C == [at |-> "pods", left |-> left]
             Q == PodsOf(t)'
  <2>3. PICK k \in Kinds : name = Name(buildPod(t, k))
    BY <1>2, <2>2
  <2>4. C \in OwnCalls(t)
    <3>1. left \in SUBSET {Name(buildPod(t, x)) : x \in Kinds}
      BY <1>2, <2>2
    <3> HIDE DEF left
    <3> QED
      BY <3>1 DEF OwnCalls
  <2>5. /\ PodsFit'
        /\ \A u \in Transfers :
             /\ Follows(PodsOf(u), PodsOf(u)')
             /\ \A q \in PodsOf(u)' : Name(q) = name => q.deleted
             /\ (\A p \in PodsOf(u) : Name(p) # name) => PodsOf(u)' = PodsOf(u)
    BY <1>1, <2>1, MarkKeepsFit
  <2>6. SecretsFit' /\ \A u \in Transfers : SecretsOf(u)' = SecretsOf(u)
    BY <2>2, ObjectsKeep
  <2>7. ASSUME NEW u \in Lone \ {t}
        PROVE  PodsOf(u)' = PodsOf(u) /\ SecretsOf(u)' = SecretsOf(u)
    <3>1. u \in Transfers /\ t \in Transfers \ {u} /\ u \in Lone
      BY DEF Lone
    <3>2. \A p \in PodsOf(u) : Name(p) # name
      BY <1>1, <2>3, <3>1, NamesOfLone
    <3> QED
      BY <2>5, <2>6, <3>1, <3>2
  <2>8. t \in Lone /\ pc[t] \in {"cleaned", "tidied"} => Progresses(side, Q, SecretsOf(t)', C)
    <3> SUFFICES ASSUME Progresses(side, PodsOf(t), SecretsOf(t), call[t])
                 PROVE  Progresses(side, Q, SecretsOf(t)', C)
      BY <1>4
    <3>1. C.at = "pods" /\ C.left = left
      OBVIOUS
    <3>2. \A p \in PodsOf(t) : Side(p.kind) = side => p.deleted \/ Name(p) \in call[t].left
      BY <2>2 DEF Progresses
    <3>3. Follows(PodsOf(t), Q) /\ \A q \in Q : Name(q) = name => q.deleted
      BY <2>5
    <3>4. ASSUME NEW q \in Q, Side(q.kind) = side
          PROVE  q.deleted \/ Name(q) \in left
      <4>1. PICK p \in PodsOf(t) : /\ q.kind = p.kind /\ Name(q) = Name(p)
                                   /\ p.deleted => q.deleted
        BY <3>3 DEF Follows
      <4> QED
        BY <3>2, <3>3, <3>4, <4>1
    <3> HIDE DEF C, left, Q
    <3> QED
      BY <3>1, <3>4 DEF Progresses
  <2>9. Follows(PodsOf(t), PodsOf(t)') /\ SecretsOf(t)' \subseteq SecretsOf(t)
    BY <2>5, <2>6
  <2> HIDE DEF left
  <2> QED
    BY <1>1, <2>1, <2>2, <2>4, <2>5, <2>6, <2>7, <2>8, <2>9, CleanupMoves DEF left
<1>8. CASE ListSecrets(t, side)
  <2> DEFINE left == MatchingSecrets(t, side)
             C == [at |-> "secrets", left |-> left]
  <2>1. /\ call[t].at = "pods" /\ call[t].left = {}
        /\ Progress(t, "secrets", left) /\ UNCHANGED objects /\ UNCHANGED faults
    BY <1>8 DEF ListSecrets, Progress
  <2>2. /\ left = {s \in SecretsOf(t) : s.side = side}
        /\ left \subseteq {secret(t, s) : s \in Sides}
    BY <1>1, SecretsAreOwn
  <2> HIDE DEF left
  <2>3. C \in OwnCalls(t)
    BY <2>2 DEF OwnCalls
  <2>4. t \in Lone /\ pc[t] \in {"cleaned", "tidied"} =>
          Progresses(side, PodsOf(t), SecretsOf(t), C)
    <3> SUFFICES ASSUME Progresses(side, PodsOf(t), SecretsOf(t), call[t])
                 PROVE  Progresses(side, PodsOf(t), SecretsOf(t), C)
      BY <1>4
    <3>1. C.at = "secrets" /\ C.left = left
      OBVIOUS
    <3>2. \A p \in PodsOf(t) : Side(p.kind) = side => p.deleted
      BY <2>1 DEF Progresses
    <3>3. \A s \in SecretsOf(t) : s.side = side => s \in left
      BY <2>2
    <3> HIDE DEF C
    <3> QED
      BY <3>1, <3>2, <3>3 DEF Progresses
  <2>5. /\ PodsFit' /\ SecretsFit'
        /\ \A u \in Transfers : PodsOf(u)' = PodsOf(u) /\ SecretsOf(u)' = SecretsOf(u)
    BY <2>1, ObjectsKeep DEF objects
  <2>6. \A u \in Lone \ {t} : PodsOf(u)' = PodsOf(u) /\ SecretsOf(u)' = SecretsOf(u)
    BY <2>5 DEF Lone
  <2>7. /\ Follows(PodsOf(t), PodsOf(t)') /\ SecretsOf(t)' \subseteq SecretsOf(t)
        /\ t \in Lone /\ pc[t] \in {"cleaned", "tidied"} =>
             Progresses(side, PodsOf(t)', SecretsOf(t)', C)
    BY <1>5, <2>4, <2>5
  <2> QED
    BY <1>1, <2>1, <2>3, <2>5, <2>6, <2>7, CleanupMoves
<1>9. CASE DeleteSecret(t)
  <2>1. PICK s \in call[t].left :
          secrets' = secrets \ {s} /\ Progress(t, "secrets", call[t].left \ {s})
    BY <1>9 DEF DeleteSecret
  <2>2. call[t].at = "secrets" /\ UNCHANGED pods /\ UNCHANGED faults
    BY <1>9, <2>1 DEF DeleteSecret, Progress
  <2> DEFINE left == call[t].left \ {s}
             C == [at |-> "secrets", left |-> left]
  <2>3. s.by = t
    BY <1>2, <2>2 DEF secret
  <2>4. C \in OwnCalls(t)
    <3>1. left \in SUBSET {secret(t, x) : x \in Sides}
      BY <1>2, <2>2
    <3> HIDE DEF left
    <3> QED
      BY <3>1 DEF OwnCalls
  <2>5. PodsFit' /\ \A u \in Transfers : PodsOf(u)' = PodsOf(u)
    BY <2>2, ObjectsKeep
  <2>6. /\ SecretsFit' /\ SecretsOf(t)' = SecretsOf(t) \ {s}
        /\ \A u \in Transfers \ {t} : SecretsOf(u)' = SecretsOf(u)
    BY <1>1, <2>1, <2>3 DEF SecretsFit, SecretsOf
  <2>7. \A u \in Lone \ {t} : PodsOf(u)' = PodsOf(u) /\ SecretsOf(u)' = SecretsOf(u)
    BY <2>5, <2>6 DEF Lone
  <2>8. t \in Lone /\ pc[t] \in {"cleaned", "tidied"} =>
          Progresses(side, PodsOf(t)', SecretsOf(t)', C)
    <3> SUFFICES ASSUME Progresses(side, PodsOf(t), SecretsOf(t), call[t])
                 PROVE  Progresses(side, PodsOf(t)', SecretsOf(t)', C)
      BY <1>4
    <3>1. C.at = "secrets" /\ C.left = left
      OBVIOUS
    <3>2. \A p \in PodsOf(t)' : Side(p.kind) = side => p.deleted
      BY <2>2, <2>5 DEF Progresses
    <3>3. \A x \in SecretsOf(t)' : x.side = side => x \in left
      BY <2>2, <2>6 DEF Progresses
    <3> HIDE DEF C, left
    <3> QED
      BY <3>1, <3>2, <3>3 DEF Progresses
  <2>9. Follows(PodsOf(t), PodsOf(t)') /\ SecretsOf(t)' \subseteq SecretsOf(t)
    BY <1>5, <2>5, <2>6
  <2> HIDE DEF left
  <2> QED
    BY <1>1, <2>1, <2>2, <2>4, <2>5, <2>6, <2>7, <2>8, <2>9, CleanupMoves DEF left
<1>10. CASE Return(t, next)
  <2>1. /\ call[t].at = "secrets" /\ call[t].left = {}
        /\ Goto(t, next) /\ UNCHANGED objects /\ UNCHANGED faults
    BY <1>10 DEF Return
  <2>2. /\ PodsFit' /\ SecretsFit'
        /\ \A u \in Transfers : PodsOf(u)' = PodsOf(u) /\ SecretsOf(u)' = SecretsOf(u)
    BY <2>1, ObjectsKeep DEF objects
  <2>3. t \in Lone =>
          Pair(t, PodsOf(t)', cloud[Path(t)], dst[t], SecretsOf(t)', next, NoCall)
    <3>1. CASE t \in Lone
      <4>1. Pair(t, PodsOf(t), cloud[Path(t)], dst[t], SecretsOf(t), next, NoCall)
        BY <1>1, <1>3, <2>1, <3>1, CleanupReturns
      <4> QED
        BY <2>2, <4>1
    <3> QED
      BY <3>1
  <2>4. Moved(t, next, NoCall) /\ faults' \in 0..MaxFaults
    BY <2>1, CallerMoves, FaultTyped
  <2>5. \A u \in Lone \ {t} : PodsOf(u)' = PodsOf(u) /\ SecretsOf(u)' = SecretsOf(u)
    BY <2>2 DEF Lone
  <2> QED
    BY <1>1, <2>2, <2>3, <2>4, <2>5, CallerKeeps
<1>11. CASE CleanupFails(t)
  BY <1>1, <1>11, CallerFails, FaultTyped DEF CleanupFails, Fails, objects, data
<1> QED
  BY <1>6, <1>7, <1>8, <1>9, <1>10, <1>11 DEF Cleanup

LEMMA PrepareKeeps ==
  ASSUME IInv, NEW t \in Transfers, Prepare(t)
  PROVE  IInv'
<1>1. /\ PodsOf(t) = {} /\ pc[t] = "swept" /\ UNCHANGED pods /\ Goto(t, "prepared")
      /\ UNCHANGED data /\ faults' \in 0..MaxFaults /\ "prepared" \in Steps
      /\ secrets' = secrets \cup {secret(t, side) : side \in Sides}
  BY FaultTyped DEF Prepare, Steps
<1>2. PodsFit' /\ \A u \in Transfers : PodsOf(u)' = PodsOf(u)
  BY <1>1, ObjectsKeep
<1>3. SecretsFit' /\ \A u \in Transfers \ {t} : SecretsOf(u)' = SecretsOf(u)
  <2>1. SecretsFit'
    <3>1. secrets \subseteq {secret(u, s) : u \in Transfers, s \in Sides}
      BY CallersPair DEF SecretsFit
    <3>2. secrets' \subseteq {secret(u, s) : u \in Transfers, s \in Sides}
      BY <1>1, <3>1
    <3> QED
      BY <3>2 DEF SecretsFit, secret, Claim
  <2>2. \A side \in Sides : secret(t, side).by = t
    BY DEF secret
  <2> QED
    BY <1>1, <2>1, <2>2 DEF SecretsOf
<1>4. t \in Lone =>
        Pair(t, PodsOf(t)', cloud[Path(t)], dst[t], SecretsOf(t)', "prepared", NoCall)
  <2>1. CASE t \in Lone
    <3>1. Pair(t, PodsOf(t), cloud[Path(t)], dst[t], SecretsOf(t), "swept", call[t])
      BY <1>1, <2>1, CallersPair
    <3> QED
      BY <1>1, <1>2, <3>1
         DEF Pair, Own, Undisturbed, Uploads, Downloads, CleansUp, Tidied
  <2> QED
    BY <2>1
<1>5. Moved(t, "prepared", NoCall)
  BY <1>1, CallerMoves
<1>6. \A u \in Lone \ {t} : PodsOf(u)' = PodsOf(u) /\ SecretsOf(u)' = SecretsOf(u)
  BY <1>2, <1>3 DEF Lone
<1> QED
  BY <1>1, <1>2, <1>3, <1>4, <1>5, <1>6, CallerKeeps

LEMMA CallerStepKeeps ==
  ASSUME IInv, NEW t \in Transfers, CallerStep(t)
  PROVE  IInv'
<1>1. CASE StartOver(t) \/ CleanDest(t) \/ TidySource(t) \/ TidyDest(t)
  BY <1>1, CleanupKeeps
     DEF StartOver, CleanDest, TidySource, TidyDest, Tidies, Restarting, Sides, Steps
<1>2. CASE Prepare(t)
  BY <1>2, PrepareKeeps
<1>3. CASE Upload(t) \/ Download(t) \/ CleanupCloudData(t)
  BY <1>3, CreateKeeps DEF Upload, Download, CleanupCloudData, Stage, Kinds, Steps
<1>4. CASE IsUploadComplete(t) \/ IsDownloadComplete(t) \/ IsCloudClean(t)
  BY <1>4, CompleteKeeps
     DEF IsUploadComplete, IsDownloadComplete, IsCloudClean, Completes, Kinds, Steps
<1> QED
  BY <1>1, <1>2, <1>3, <1>4 DEF CallerStep
-----------------------------------------------------------------------------
(* Steps of a pod.  It changes the data of its own pair at most.            *)
LEMMA PodKeeps ==
  ASSUME IInv, NEW t \in Transfers, UNCHANGED <<secrets, pc, call>>, PodsFit',
         faults' \in 0..MaxFaults,
         cloud' \in [{Path(u) : u \in Transfers} -> Contents],
         dst' \in [Transfers -> Contents],
         \A u \in Transfers \ {t} : /\ PodsOf(u)' = PodsOf(u)
                                    /\ cloud'[Path(u)] = cloud[Path(u)]
                                    /\ dst'[u] = dst[u],
         Own(t, cloud'[Path(t)], dst'[t]),
         t \in Lone =>
           Pair(t, PodsOf(t)', cloud'[Path(t)], dst'[t], SecretsOf(t), pc[t], call[t])
  PROVE  IInv'
<1>1. Typed' /\ SecretsFit' /\ Listed'
  BY DEF IInv, Typed, SecretsFit, Listed, OwnCalls
<1>2. t \in Lone => InOrder(t)'
  BY DEF InOrder, Path, SecretsOf
<1>3. ASSUME NEW u \in Lone \ {t}
      PROVE  InOrder(u)'
  <2>1. u \in Transfers \ {t} /\ SecretsOf(u)' = SecretsOf(u)
    BY DEF Lone, SecretsOf
  <2> QED
    BY <2>1 DEF IInv, InOrder, Path
<1>4. \A u \in Transfers : Own(u, cloud[Path(u)], dst[u])'
  <2>1. Own(t, cloud[Path(t)], dst[t])'
    BY DEF Own, Path
  <2>2. ASSUME NEW u \in Transfers \ {t}
        PROVE  Own(u, cloud[Path(u)], dst[u])'
    BY DEF IInv, Own, Path
  <2> QED
    BY <2>1, <2>2
<1>5. Lone' = Lone
  BY DEF Lone, Alone, SameName, Name, buildPod, PodName, Claim, Side
<1> QED
  BY <1>1, <1>2, <1>3, <1>4, <1>5 DEF IInv

(* What rclone makes of the pair's data.                                    *)
LEMMA SyncMakes ==
  ASSUME IInv, NEW p \in pods, p.phase = "Running", NEW complete \in BOOLEAN,
         Sync(p, complete), NEW t, t = p.by, NEW phase,
         phase = IF complete THEN "Succeeded" ELSE "Failed"
  PROVE  /\ cloud' \in [{Path(u) : u \in Transfers} -> Contents]
         /\ dst' \in [Transfers -> Contents]
         /\ \A u \in Transfers \ {t} : /\ cloud'[Path(u)] = cloud[Path(u)]
                                       /\ dst'[u] = dst[u]
         /\ Own(t, cloud'[Path(t)], dst'[t])
         /\ t \in Lone =>
              Made(t, p, phase, cloud[Path(t)], dst[t], cloud'[Path(t)], dst'[t])
<1> DEFINE c == cloud[Path(t)]
           d == dst[t]
<1>1. /\ p \in PodsOf(t) /\ t \in Transfers /\ p.kind \in Kinds
      /\ t \in Lone => Pair(t, PodsOf(t), c, d, SecretsOf(t), pc[t], call[t])
  BY DEF IInv, PodsFit, PodSet, PodsOf, InOrder
<1>2. /\ cloud \in [{Path(u) : u \in Transfers} -> Contents]
      /\ dst \in [Transfers -> Contents] /\ c \in Contents /\ d \in Contents
  BY <1>1 DEF IInv, Typed
<1>3. Own(t, c, d)
  BY <1>1 DEF IInv
<1>4. CASE p.kind = "download"
  <2>1. t \in Lone => c = Whole(t)
    BY <1>1, <1>4 DEF Pair, Undisturbed, Live
  <2>2. From(p) = c
    BY <1>1, <1>4, RemoteIsPath DEF From
  <2> DEFINE x == Synced(From(p), d, complete)
  <2>3. x \in Contents /\ x.of \subseteq {t} /\ (t \in Lone /\ complete => x = Whole(t))
    <3>1. x = IF complete THEN c ELSE Fragment(c, d)
      BY <2>2 DEF Synced
    <3>2. Fragment(c, d) \in Contents /\ Fragment(c, d).of \subseteq {t}
      BY <1>1, <1>2, <1>3, ContentsTyped DEF Own
    <3> QED
      BY <1>2, <1>3, <2>1, <3>1, <3>2 DEF Own
  <2>4. dst' = [dst EXCEPT ![t] = x] /\ cloud' = cloud
    BY <1>4 DEF Sync
  <2> HIDE DEF x
  <2>5. dst' \in [Transfers -> Contents] /\ dst'[t] = x
        /\ \A u \in Transfers \ {t} : dst'[u] = dst[u]
    BY <1>1, <1>2, <2>3, <2>4
  <2>6. /\ Own(t, cloud'[Path(t)], dst'[t])
        /\ t \in Lone => Made(t, p, phase, c, d, cloud'[Path(t)], dst'[t])
    BY <1>3, <1>4, <2>3, <2>4, <2>5 DEF Made, Own
  <2> QED
    BY <1>2, <2>4, <2>5, <2>6
<1>5. CASE p.kind # "download"
  <2> DEFINE y == IF p.kind = "upload" THEN Whole(t) ELSE Nothing
             x == Synced(From(p), c, complete)
  <2>1. From(p) = y
    BY <1>5 DEF From
  <2>2. y \in Contents /\ y.of \subseteq {t}
    BY <1>1, ContentsTyped
  <2>3. x \in Contents /\ x.of \subseteq {t} /\ (complete => x = y)
    <3>1. x = IF complete THEN y ELSE Fragment(y, c)
      BY <2>1 DEF Synced
    <3>2. Fragment(y, c) \in Contents /\ Fragment(y, c).of \subseteq {t}
      BY <1>1, <1>2, <1>3, <2>2, ContentsTyped DEF Own
    <3> QED
      BY <2>2, <3>1, <3>2
  <2>4. Target(p) = Path(t)
    BY <1>1, RemoteIsPath DEF Target
  <2>5. cloud' = [cloud EXCEPT ![Path(t)] = x] /\ dst' = dst
    BY <1>5, <2>4 DEF Sync
  <2> HIDE DEF x
  <2>6. \A u \in Transfers \ {t} : Path(u) # Path(t)
    BY <1>1, PathsDiffer
  <2>7. cloud' \in [{Path(u) : u \in Transfers} -> Contents] /\ cloud'[Path(t)] = x
        /\ \A u \in Transfers \ {t} : cloud'[Path(u)] = cloud[Path(u)]
    BY <1>1, <1>2, <2>3, <2>5, <2>6
  <2>8. /\ Own(t, cloud'[Path(t)], dst'[t])
        /\ Made(t, p, phase, c, d, cloud'[Path(t)], dst'[t])
    BY <1>3, <1>5, <2>3, <2>5, <2>7 DEF Made, Own
  <2> QED
    BY <1>2, <2>5, <2>7, <2>8
<1> QED
  BY <1>4, <1>5

LEMMA PodStepKeeps ==
  ASSUME IInv, NEW p \in pods, PodStep(p)
  PROVE  IInv'
<1> DEFINE t == p.by
<1>1. /\ p \in PodsOf(t) /\ t \in Transfers /\ p.kind \in Kinds /\ PodsFit
      /\ t \in Lone =>
           Pair(t, PodsOf(t), cloud[Path(t)], dst[t], SecretsOf(t), pc[t], call[t])
      /\ Own(t, cloud[Path(t)], dst[t]) /\ pc[t] \in Steps /\ OneOfAKind(PodsOf(t))
  <2>1. p \in PodsOf(t) /\ t \in Transfers /\ p.kind \in Kinds /\ PodsFit
    BY DEF IInv, PodsFit, PodSet, PodsOf
  <2> QED
    BY <2>1, OneOfAKindOfAPair DEF IInv, Typed, InOrder
<1>2. {"Running", "Succeeded", "Failed"} \subseteq Phases
  BY DEF Phases
<1>3. /\ cloud \in [{Path(u) : u \in Transfers} -> Contents]
      /\ dst \in [Transfers -> Contents]
  BY DEF IInv, Typed
<1>4. CASE Start(p)
  <2> DEFINE r == [p EXCEPT !.phase = "Running"]
  <2>1. pods' = (pods \ {p}) \cup {r} /\ p.phase = "Pending"
    BY <1>4 DEF Start, Becomes
  <2>2. /\ PodsFit' /\ SamePod(p, r) /\ r.phase = "Running" /\ r.deleted = p.deleted
        /\ PodsOf(t)' = (PodsOf(t) \ {p}) \cup {r}
        /\ \A u \in Transfers \ {t} : PodsOf(u)' = PodsOf(u)
    BY <1>1, <1>2, <2>1, ReplaceKeepsFit
  <2> HIDE DEF r
  <2>3. t \in Lone =>
          Pair(t, PodsOf(t)', cloud[Path(t)], dst[t], SecretsOf(t), pc[t], call[t])
    BY <1>1, <2>1, <2>2, PodStarts
  <2>4. UNCHANGED <<secrets, cloud, dst, pc, call>> /\ faults' \in 0..MaxFaults
    BY <1>4, FaultTyped DEF Start, data
  <2> QED
    BY <1>1, <1>3, <2>2, <2>3, <2>4, PodKeeps
<1>5. ASSUME NEW complete \in BOOLEAN, NEW phase,
             phase = IF complete THEN "Succeeded" ELSE "Failed",
             p.phase = "Running", Sync(p, complete), Becomes(p, phase),
             UNCHANGED <<secrets, pc, call>>, faults' \in 0..MaxFaults
      PROVE  IInv'
  <2> DEFINE r == [p EXCEPT !.phase = phase]
  <2>1. pods' = (pods \ {p}) \cup {r} /\ phase \in Phases /\ phase \in {"Succeeded", "Failed"}
    BY <1>2, <1>5 DEF Becomes
  <2>2. /\ PodsFit' /\ SamePod(p, r) /\ r.phase = phase /\ r.deleted = p.deleted
        /\ PodsOf(t)' = (PodsOf(t) \ {p}) \cup {r}
        /\ \A u \in Transfers \ {t} : PodsOf(u)' = PodsOf(u)
    BY <1>1, <2>1, ReplaceKeepsFit
  <2> HIDE DEF r
  <2>3. /\ cloud' \in [{Path(u) : u \in Transfers} -> Contents]
        /\ dst' \in [Transfers -> Contents]
        /\ \A u \in Transfers \ {t} : cloud'[Path(u)] = cloud[Path(u)] /\ dst'[u] = dst[u]
        /\ Own(t, cloud'[Path(t)], dst'[t])
        /\ t \in Lone =>
             Made(t, p, phase, cloud[Path(t)], dst[t], cloud'[Path(t)], dst'[t])
    BY <1>5, SyncMakes
  <2>4. t \in Lone =>
          Pair(t, PodsOf(t)', cloud'[Path(t)], dst'[t], SecretsOf(t), pc[t], call[t])
    BY <1>1, <1>5, <2>1, <2>2, <2>3, PodEnds
  <2> QED
    BY <1>1, <1>5, <2>2, <2>3, <2>4, PodKeeps
<1>6. CASE Succeed(p)
  BY <1>5, <1>6, FaultTyped DEF Succeed
<1>7. CASE Fail(p)
  BY <1>5, <1>7, FaultTyped DEF Fail
<1>8. CASE Gone(p)
  <2>1. /\ PodsFit' /\ PodsOf(t)' = PodsOf(t) \ {p}
        /\ \A u \in Transfers \ {t} : PodsOf(u)' = PodsOf(u)
    BY <1>1, <1>8, RemoveKeepsFit DEF Gone
  <2>2. p.deleted /\ UNCHANGED <<secrets, pc, call>> /\ faults' \in 0..MaxFaults
    BY <1>8, FaultTyped DEF Gone
  <2>3. /\ cloud' \in [{Path(u) : u \in Transfers} -> Contents]
        /\ dst' \in [Transfers -> Contents]
        /\ \A u \in Transfers \ {t} : cloud'[Path(u)] = cloud[Path(u)] /\ dst'[u] = dst[u]
        /\ Own(t, cloud'[Path(t)], dst'[t])
        /\ IF p.phase = "Running"
           THEN t \in Lone => Made(t, p, "Failed", cloud[Path(t)], dst[t], cloud'[Path(t)], dst'[t])
           ELSE cloud'[Path(t)] = cloud[Path(t)] /\ dst'[t] = dst[t]
    <3>1. CASE p.phase = "Running"
      BY <1>8, <3>1, SyncMakes DEF Gone
    <3>2. CASE p.phase # "Running"
      BY <1>1, <1>3, <1>8, <3>2 DEF Gone, data
    <3> QED
      BY <3>1, <3>2
  <2>4. t \in Lone =>
          Pair(t, PodsOf(t)', cloud'[Path(t)], dst'[t], SecretsOf(t), pc[t], call[t])
    BY <1>1, <2>1, <2>2, <2>3, PodGoes
  <2> QED
    BY <1>1, <2>1, <2>2, <2>3, <2>4, PodKeeps
<1> QED
  BY <1>4, <1>6, <1>7, <1>8 DEF PodStep

-----------------------------------------------------------------------------
LEMMA InitInv == Init => IInv
<1> SUFFICES ASSUME Init PROVE IInv
  OBVIOUS
<1>1. Nothing \in Contents /\ \A t \in Transfers : Nothing.of \subseteq {t}
  BY ContentsTyped DEF Nothing, Contents
<1>2. Typed
  BY <1>1, PairsAssumption DEF Init, Typed, Steps
<1>3. PodsFit /\ SecretsFit /\ Listed
  BY NoCallIsOwn DEF Init, PodsFit, SecretsFit, Listed
<1>4. ASSUME NEW t \in Transfers
      PROVE  InOrder(t) /\ Own(t, cloud[Path(t)], dst[t])
  <2>1. PodsOf(t) = {} /\ cloud[Path(t)] = Nothing /\ dst[t] = Nothing /\ pc[t] = "failed"
    BY DEF Init, PodsOf
  <2> QED
    BY <1>1, <2>1
       DEF InOrder, Pair, Own, Undisturbed, Uploads, Downloads, CleansUp, Tidied
<1> QED
  BY <1>2, <1>3, <1>4 DEF IInv, Lone

LEMMA StepInv == IInv /\ [Next]_vars => IInv'
<1> SUFFICES ASSUME IInv, [Next]_vars PROVE IInv'
  OBVIOUS
<1>1. ASSUME NEW t \in Transfers, CallerStep(t)
      PROVE  IInv'
  BY <1>1, CallerStepKeeps
<1>2. ASSUME NEW t \in Transfers, Crash(t)
      PROVE  IInv'
  BY <1>2, CallerFails, FaultTyped DEF Crash, Fails
<1>3. ASSUME NEW p \in pods, PodStep(p)
      PROVE  IInv'
  BY <1>3, PodStepKeeps
<1>4. CASE UNCHANGED vars
  <2>1. UNCHANGED <<pods, secrets, cloud, dst, pc, call, faults>>
    BY <1>4 DEF vars
  <2>2. /\ PodsFit' /\ SecretsFit' /\ Lone' = Lone
        /\ \A u \in Transfers : PodsOf(u)' = PodsOf(u) /\ SecretsOf(u)' = SecretsOf(u)
    BY <2>1, ObjectsKeep DEF Lone, Alone, SameName, Name, buildPod, PodName, Claim, Side
  <2>3. Typed' /\ Listed'
    BY <2>1 DEF IInv, Typed, Listed, OwnCalls
  <2>4. \A u \in Transfers : Own(u, cloud[Path(u)], dst[u])'
    BY <2>1 DEF IInv, Own, Path
  <2>5. \A u \in Lone : InOrder(u)'
    BY <2>1, <2>2 DEF IInv, InOrder, Path, Lone
  <2> QED
    BY <2>2, <2>3, <2>4, <2>5 DEF IInv
<1> QED
  BY <1>1, <1>2, <1>3, <1>4 DEF Next

(* The inductive invariant.                                                 *)
THEOREM Invariant == Spec => []IInv
<1> QED
  BY InitInv, StepInv, PTL DEF Spec

(* Pods have cut names, no two the same, and the rest is typed: TypeOK of    *)
(* truncatePodName and the label and path rules.                            *)
THEOREM TypeCorrect == Spec => []TypeOK
<1>1. IInv => TypeOK
  <2> SUFFICES ASSUME IInv PROVE TypeOK
    OBVIOUS
  <2>1. ASSUME NEW p \in pods
        PROVE  /\ p.name \in {Truncated[n] : n \in DOMAIN Truncated}
               /\ p.phase \in Phases /\ p.kind \in Kinds /\ p.by \in Transfers
    <3>1. p \in PodSet /\ Fits(p)
      BY DEF IInv, PodsFit
    <3>2. p.phase \in Phases /\ p.kind \in Kinds /\ p.by \in Transfers
      BY <3>1 DEF PodSet
    <3>3. Claim(p.by, Side(p.kind))[2] \in DOMAIN Truncated
      BY <3>2, PairsAssumption DEF Claim
    <3>4. p.name = Truncated[Claim(p.by, Side(p.kind))[2]]
      BY <3>1 DEF Fits, PodName
    <3> QED
      BY <3>2, <3>3, <3>4
  <2>2. secrets \subseteq SecretSet
    <3>1. \A t \in Transfers, s \in Sides : secret(t, s) \in SecretSet
      BY DEF secret, SecretSet
    <3> QED
      BY <3>1 DEF IInv, SecretsFit
  <2>3. ASSUME NEW t \in Transfers
        PROVE  \/ /\ call[t].at = "pods"
                  /\ call[t].left \subseteq
                       {Name(buildPod(u, k)) : u \in Transfers, k \in Kinds}
               \/ call[t].at = "secrets" /\ call[t].left \subseteq SecretSet
               \/ call[t] = NoCall
    <3>1. call[t] \in OwnCalls(t)
      BY DEF IInv, Listed
    <3>2. {secret(t, s) : s \in Sides} \subseteq SecretSet
      BY DEF secret, SecretSet
    <3>3. {Name(buildPod(t, k)) : k \in Kinds}
            \subseteq {Name(buildPod(u, k)) : u \in Transfers, k \in Kinds}
      OBVIOUS
    <3> QED
      BY <3>1, <3>2, <3>3 DEF OwnCalls
  <2> QED
    BY <2>1, <2>2, <2>3 DEF IInv, PodsFit, Typed, TypeOK
<1> QED
  BY <1>1, Invariant, PTL

(* When the caller is through with a pair that is alone, its destination is *)
(* complete, the store is empty, and nothing of it is left to run (Cleanup, *)
(* CleanupCloudData, isPodComplete).                                        *)
THEOREM FinishedIsCopiedAndClean == Spec => []DoneIsCopiedAndClean
<1>1. IInv => DoneIsCopiedAndClean
  <2> SUFFICES ASSUME IInv, NEW t \in Lone, pc[t] = "done"
               PROVE  /\ dst[t] = Whole(t)
                      /\ cloud[Remote(t)] = Nothing
                      /\ \A p \in PodsOf(t) : p.deleted /\ p.phase = "Succeeded"
                      /\ SecretsOf(t) = {}
    BY DEF DoneIsCopiedAndClean
  <2>1. /\ Pair(t, PodsOf(t), cloud[Path(t)], dst[t], SecretsOf(t), "done", call[t])
        /\ t \in Transfers /\ PodsFit /\ SecretsFit
    BY DEF IInv, InOrder, Lone
  <2>2. /\ dst[t] = Whole(t) /\ cloud[Path(t)] = Nothing
        /\ \A p \in PodsOf(t) : p.phase = "Succeeded"
    BY <2>1 DEF Pair, CleansUp
  <2>3. /\ \A p \in PodsOf(t) : p.deleted
        /\ \A s \in SecretsOf(t) : s.side \notin Sides
    BY <2>1 DEF Pair, Tidied, Swept, Side, Sides
  <2>4. \A s \in SecretsOf(t) : s.side \in Sides
    BY <2>1 DEF SecretsOf, SecretsFit, secret
  <2> QED
    BY <2>1, <2>2, <2>3, <2>4, RemoteIsPath
<1> QED
  BY <1>1, Invariant, PTL
-----------------------------------------------------------------------------
(* Data reach a destination by its own download only, and what is there as  *)
(* a whole stays so.                                                        *)
LEMMA DestinationSteps ==
  ASSUME IInv, [Next]_vars
  PROVE  \/ dst' = dst
         \/ \E t \in Transfers : /\ \A u \in Transfers \ {t} : dst'[u] = dst[u]
                                 /\ t \in Lone /\ dst[t] = Whole(t) => dst'[t] = Whole(t)
<1>1. ASSUME NEW p \in pods, p.kind = "download", p.phase = "Running",
             NEW complete \in BOOLEAN, Sync(p, complete)
      PROVE  \E t \in Transfers : /\ \A u \in Transfers \ {t} : dst'[u] = dst[u]
                                  /\ t \in Lone /\ dst[t] = Whole(t) => dst'[t] = Whole(t)
  <2> DEFINE t == p.by
             x == Synced(From(p), dst[t], complete)
  <2>1. /\ p \in PodsOf(t) /\ t \in Transfers /\ dst \in [Transfers -> Contents]
        /\ t \in Lone => Undisturbed(t, PodsOf(t), cloud[Path(t)])
    BY DEF IInv, PodsFit, PodSet, PodsOf, InOrder, Pair, Typed
  <2>2. t \in Lone => cloud[Path(t)] = Whole(t)
    BY <1>1, <2>1 DEF Undisturbed, Live
  <2>3. t \in Lone => From(p) = Whole(t)
    BY <1>1, <2>1, <2>2, RemoteIsPath DEF From
  <2>4. t \in Lone /\ dst[t] = Whole(t) => x = Whole(t)
    BY <2>3 DEF Synced, Fragment
  <2>5. dst' = [dst EXCEPT ![t] = x]
    BY <1>1 DEF Sync
  <2> HIDE DEF x, t
  <2> QED
    BY <2>1, <2>4, <2>5
<1>2. ASSUME NEW p \in pods, PodStep(p)
      PROVE  dst' = dst \/ (/\ p.kind = "download" /\ p.phase = "Running"
                            /\ \E complete \in BOOLEAN : Sync(p, complete))
  BY <1>2 DEF PodStep, Start, Succeed, Fail, Gone, Sync, data
<1>3. ASSUME NEW t \in Transfers, CallerStep(t) \/ Crash(t)
      PROVE  dst' = dst
  BY <1>3 DEF CallerStep, StartOver, CleanDest, Prepare, Upload, Download, CleanupCloudData,
     IsUploadComplete, IsDownloadComplete, IsCloudClean, TidySource, TidyDest, Crash, Cleanup,
     isPodComplete, data
<1>4. CASE UNCHANGED vars
  BY <1>4 DEF vars
<1> QED
  BY <1>1, <1>2, <1>3, <1>4 DEF Next

(* For the pairs that are alone the transfer implements VolumeCopy: over upload, download, clean-up and  *)
(* any number of retries, a destination gets its own source's data, whole,   *)
(* and keeps them (Upload, Download, CleanupCloudData).                      *)
THEOREM IndirectImplementsCopy == Spec => CopiesOwnVolumes
<1>1. Init => Transfer!Init
  <2> SUFFICES ASSUME Init PROVE Transfer!Init
    OBVIOUS
  <2>1. ASSUME NEW t \in Lone
        PROVE  Seen(t) = Empty
    BY ContentsTyped DEF Init, Seen, Lone
  <2> QED
    BY <2>1 DEF Transfer!Init
<1>2. IInv /\ IInv' /\ [Next]_vars
        => [Transfer!Next]_<<[t \in Lone |-> t], [t \in Lone |-> Seen(t)]>>
  <2> SUFFICES ASSUME IInv, IInv', [Next]_vars
               PROVE  [Transfer!Next]_<<[t \in Lone |-> t], [t \in Lone |-> Seen(t)]>>
    OBVIOUS
  <2> DEFINE from == [t \in Lone |-> t]
             to == [t \in Lone |-> Seen(t)]
  <2>0. Lone' = Lone /\ Lone \subseteq Transfers
    BY DEF Lone, Alone, SameName, Name, buildPod, PodName, Claim, Side
  <2>1. dst' = dst => to' = to /\ from' = from
    BY <2>0 DEF Seen
  <2>2. ASSUME NEW t \in Lone, \A u \in Lone \ {t} : dst'[u] = dst[u],
               dst[t] = Whole(t) => dst'[t] = Whole(t)
        PROVE  to' = to \/ (to' = [to EXCEPT ![t] = from[t]] /\ from' = from)
    <3>1. Own(t, cloud[Path(t)], dst[t]) /\ Own(t, cloud[Path(t)], dst[t])'
      BY <2>0 DEF IInv
    <3>2. Seen(t) \in {t, Empty} /\ Seen(t)' \in {t, Empty}
      BY <3>1 DEF Seen, Own
    <3>3. Seen(t) = t => Seen(t)' = t
      BY <2>0, <2>2, <3>1, PairsAssumption DEF Seen, Own
    <3>4. \A u \in Lone \ {t} : Seen(u)' = Seen(u)
      BY <2>2 DEF Seen
    <3>5. Seen(t)' = Seen(t) \/ Seen(t)' = t
      BY <3>2, <3>3
    <3>6. CASE Seen(t)' = Seen(t)
      <4>1. \A u \in Lone : Seen(u)' = Seen(u)
        BY <3>4, <3>6
      <4> QED
        BY <2>0, <4>1
    <3>7. CASE Seen(t)' = t
      BY <2>0, <3>4, <3>7
    <3> QED
      BY <3>5, <3>6, <3>7
  <2>3. /\ from' = from
        /\ to' = to \/ \E t \in Lone : to' = [to EXCEPT ![t] = from[t]]
    <3>1. CASE dst' = dst
      BY <2>1, <3>1
    <3>2. ASSUME NEW t \in Transfers, \A u \in Transfers \ {t} : dst'[u] = dst[u],
                 t \in Lone /\ dst[t] = Whole(t) => dst'[t] = Whole(t)
          PROVE  /\ from' = from
                 /\ to' = to \/ \E u \in Lone : to' = [to EXCEPT ![u] = from[u]]
      <4>1. from' = from
        BY <2>0
      <4>2. CASE t \in Lone
        <5>1. to' = to \/ (to' = [to EXCEPT ![t] = from[t]] /\ from' = from)
          BY <2>0, <2>2, <3>2, <4>2
        <5> HIDE DEF to, from
        <5> QED
          BY <4>1, <4>2, <5>1
      <4>3. CASE t \notin Lone
        <5>1. \A u \in Lone : Seen(u)' = Seen(u)
          BY <2>0, <3>2, <4>3 DEF Seen
        <5>2. to' = to
          BY <2>0, <5>1
        <5> HIDE DEF to, from
        <5> QED
          BY <4>1, <5>2
      <4> QED
        BY <4>2, <4>3
    <3> QED
      BY <3>1, <3>2, DestinationSteps
  <2> QED
    BY <2>3 DEF Transfer!Next, Transfer!Copy
<1> QED
  BY <1>1, <1>2, Invariant, PTL DEF Spec, CopiesOwnVolumes, Transfer!Spec

-----------------------------------------------------------------------------
(* A pod is marked in the clean-up of a pair with a pod of its name.         *)
LEMMA MarksByName ==
  ASSUME IInv, Next, NEW p \in pods, ~p.deleted, Marked(p) \in pods'
  PROVE  \E t \in Transfers : Cleans(t) /\ SameName(p, buildPod(t, p.kind))
<1> DEFINE m == Marked(p)
<1>1. /\ PodsFit /\ p \in PodSet /\ SamePod(p, m) /\ Name(m) = Name(p) /\ m.deleted = TRUE
  BY PodMarked DEF IInv, PodsFit
<1>2. \A q \in pods : SamePod(q, m) => q = p
  BY <1>1, NameParts DEF PodsFit, SamePod
<1>3. m \notin pods
  BY <1>1, <1>2 DEF SamePod
<1>4. m \in pods'
  OBVIOUS
<1> HIDE DEF m
<1>5. ASSUME NEW t \in Transfers, NEW kind \in Kinds, NEW next, Create(t, kind, next)
      PROVE  FALSE
  <2>1. buildPod(t, kind).deleted = FALSE
    BY PodBuilt
  <2> QED
    BY <1>1, <1>3, <1>4, <1>5, <2>1 DEF Create
<1>6. ASSUME NEW t \in Transfers, NEW side \in Sides, NEW next, Cleanup(t, side, next), Cleans(t)
      PROVE  \E u \in Transfers : Cleans(u) /\ SameName(p, buildPod(u, p.kind))
  <2>1. DeletePod(t)
    BY <1>3, <1>4, <1>6
       DEF Cleanup, ListPods, ListSecrets, DeleteSecret, Return, CleanupFails, objects
  <2>2. PICK name \in call[t].left :
          pods' = {IF Name(q) = name THEN Marked(q) ELSE q : q \in pods}
    BY <2>1 DEF DeletePod
  <2>3. PICK q \in pods : m = IF Name(q) = name THEN Marked(q) ELSE q
    BY <1>4, <2>2
  <2>4. m = Marked(q) /\ Name(q) = name
    BY <1>3, <2>3
  <2>5. q = p
    BY <1>1, <1>2, <2>4, PodMarked
  <2>6. PICK k \in Kinds : name = Name(buildPod(t, k))
    <3>1. call[t] \in OwnCalls(t) /\ call[t].at = "pods"
      BY <2>1 DEF IInv, Listed, DeletePod
    <3>2. call[t].left \subseteq {Name(buildPod(t, k)) : k \in Kinds}
      BY <3>1 DEF OwnCalls, NoCall
    <3> QED
      BY <2>2, <3>2
  <2>7. SameName(p, buildPod(t, k)) /\ k = p.kind
    <3>1. SameName(p, buildPod(t, k))
      BY <2>4, <2>5, <2>6 DEF SameName
    <3> QED
      BY <3>1, NameParts DEF buildPod
  <2> QED
    BY <1>6, <2>7
<1>7. ASSUME NEW q \in pods, NEW phase \in Phases, Becomes(q, phase)
      PROVE  FALSE
  <2>1. m = [q EXCEPT !.phase = phase]
    BY <1>3, <1>4, <1>7 DEF Becomes
  <2>2. SamePod(q, m) /\ m.deleted = q.deleted
    BY <1>1, <2>1, PodChanges DEF PodsFit
  <2> QED
    BY <1>1, <1>2, <2>2
<1>8. ASSUME NEW t \in Transfers, CallerStep(t)
      PROVE  \E u \in Transfers : Cleans(u) /\ SameName(p, buildPod(u, p.kind))
  <2>1. CASE StartOver(t) \/ CleanDest(t) \/ TidySource(t) \/ TidyDest(t)
    BY <1>6, <2>1 DEF StartOver, CleanDest, TidySource, TidyDest, Sides, Cleans
  <2>2. CASE Upload(t) \/ Download(t) \/ CleanupCloudData(t)
    BY <1>5, <2>2 DEF Upload, Download, CleanupCloudData, Kinds
  <2>3. CASE Prepare(t) \/ IsUploadComplete(t) \/ IsDownloadComplete(t) \/ IsCloudClean(t)
    <3>1. pods' = pods
      BY <2>3 DEF Prepare, IsUploadComplete, IsDownloadComplete, IsCloudClean, isPodComplete,
         objects
    <3> QED
      BY <1>3, <1>4, <3>1
  <2> QED
    BY <1>8, <2>1, <2>2, <2>3 DEF CallerStep
<1>9. ASSUME NEW t \in Transfers, Crash(t)
      PROVE  FALSE
  BY <1>3, <1>4, <1>9 DEF Crash, objects
<1>10. ASSUME NEW q \in pods, PodStep(q)
       PROVE  FALSE
  <2>1. {"Running", "Succeeded", "Failed"} \subseteq Phases
    BY DEF Phases
  <2>2. CASE Gone(q)
    BY <1>3, <1>4, <2>2 DEF Gone
  <2> QED
    BY <1>7, <1>10, <2>1, <2>2 DEF PodStep, Start, Succeed, Fail
<1> QED
  BY <1>8, <1>9, <1>10 DEF Next

LEMMA SecretsBySelector ==
  ASSUME IInv, Next, NEW t \in Transfers
  PROVE  SecretsOf(t) \subseteq secrets' \/ Cleans(t)
<1>1. ASSUME NEW u \in Transfers, NEW side, NEW next, Cleanup(u, side, next), Cleans(u)
      PROVE  SecretsOf(t) \subseteq secrets' \/ Cleans(t)
  <2>1. CASE DeleteSecret(u)
    <3>1. PICK s \in call[u].left : secrets' = secrets \ {s}
      BY <2>1 DEF DeleteSecret
    <3>2. call[u] \in OwnCalls(u) /\ call[u].at = "secrets"
      BY <2>1 DEF IInv, Listed, DeleteSecret
    <3>3. call[u].left \subseteq {secret(u, x) : x \in Sides}
      BY <3>2 DEF OwnCalls, NoCall
    <3>4. s.by = u
      BY <3>1, <3>3 DEF secret
    <3> QED
      BY <1>1, <3>1, <3>4 DEF SecretsOf
  <2>2. CASE ~DeleteSecret(u)
    <3>1. secrets' = secrets
      BY <1>1, <2>2
         DEF Cleanup, ListPods, DeletePod, ListSecrets, Return, CleanupFails, objects
    <3> QED
      BY <3>1 DEF SecretsOf
  <2> QED
    BY <2>1, <2>2
<1>2. ASSUME NEW u \in Transfers, CallerStep(u) \/ Crash(u)
      PROVE  SecretsOf(t) \subseteq secrets' \/ Cleans(t)
  <2>1. CASE StartOver(u) \/ CleanDest(u) \/ TidySource(u) \/ TidyDest(u)
    BY <1>1, <2>1 DEF StartOver, CleanDest, TidySource, TidyDest, Cleans
  <2>2. CASE Prepare(u)
    BY <2>2 DEF Prepare, SecretsOf
  <2>3. CASE \/ Upload(u) \/ Download(u) \/ CleanupCloudData(u) \/ Crash(u)
             \/ IsUploadComplete(u) \/ IsDownloadComplete(u) \/ IsCloudClean(u)
    BY <2>3 DEF Upload, Download, CleanupCloudData, IsUploadComplete, IsDownloadComplete,
       IsCloudClean, Crash, isPodComplete, objects, SecretsOf
  <2> QED
    BY <1>2, <2>1, <2>2, <2>3 DEF CallerStep
<1>3. ASSUME NEW q \in pods, PodStep(q)
      PROVE  secrets' = secrets
  BY <1>3 DEF PodStep, Start, Succeed, Fail, Gone
<1> QED
  BY <1>1, <1>2, <1>3 DEF Next, SecretsOf

(* A clean-up deletes the secrets of its own pair only, and pods that have  *)
(* the name of a pod of its pair (Cleanup).                                 *)
THEOREM CleanupSparesOtherNames == Spec => CleanupSparesOthers
<1>1. IInv /\ [Next]_vars =>
        [/\ \A p \in pods : ~p.deleted /\ Marked(p) \in pods' =>
              \E t \in Transfers : Cleans(t) /\ SameName(p, buildPod(t, p.kind))
         /\ \A t \in Transfers : SecretsOf(t) \subseteq secrets' \/ Cleans(t)]_vars
  BY MarksByName, SecretsBySelector
<1> QED
  BY <1>1, Invariant, PTL DEF Spec, CleanupSparesOthers

(* Where all pairs are alone, it deletes pods of its own pair only.          *)
THEOREM AloneCleanupIsScoped ==
  ASSUME Lone = Transfers
  PROVE  Spec => CleanupIsScoped
<1>1. ASSUME IInv, Next, NEW p \in pods, ~p.deleted, Marked(p) \in pods'
      PROVE  Cleans(p.by)
  <2>1. PICK t \in Transfers : Cleans(t) /\ SameName(p, buildPod(t, p.kind))
    BY <1>1, MarksByName
  <2>2. p \in PodsOf(p.by) /\ p.by \in Lone /\ p.kind \in Kinds /\ PodsFit
    BY <1>1 DEF IInv, PodsFit, PodSet, PodsOf
  <2>3. t = p.by
    BY <2>1, <2>2, NamesOfLone DEF SameName
  <2> QED
    BY <2>1, <2>3
<1>2. IInv /\ [Next]_vars =>
        [\A p \in pods : ~p.deleted /\ Marked(p) \in pods' => Cleans(p.by)]_vars
  BY <1>1
<1> QED
  BY <1>2, Invariant, PTL DEF Spec, CleanupIsScoped

(* Whatever collides, no file of one source gets into another's destination *)
(* (Upload, Download).                                                      *)
THEOREM DestinationsKeptApart == Spec => []KeepsApart
<1>1. IInv => KeepsApart
  BY DEF IInv, KeepsApart, Own
<1> QED
  BY <1>1, Invariant, PTL
=============================================================================
