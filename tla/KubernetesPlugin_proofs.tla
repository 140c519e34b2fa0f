---------------------- MODULE KubernetesPlugin_proofs ----------------------
(***************************************************************************)
(* Proofs about KubernetesPlugin, for any objects, requests and bounds.     *)
(***************************************************************************)
EXTENDS KubernetesPlugin, SequenceTheorems, FiniteSetTheorems, WellFoundedInduction, TLAPS

-----------------------------------------------------------------------------
(* Induction over the numbers, from the well-foundedness of strict          *)
(* inclusion on finite sets: among the intervals whose length is not in S   *)
(* one would be minimal.                                                    *)
LEMMA Induct ==
  ASSUME NEW S, 0 \in S, \A n \in Nat : n \in S => n + 1 \in S
  PROVE  \A n \in Nat : n \in S
<1> SUFFICES ASSUME NEW b \in Nat, b \notin S
             PROVE  FALSE
  OBVIOUS
<1> DEFINE T == {s \in SUBSET Nat : \E n \in Nat : s = 1..n /\ n \notin S}
<1>1. T \subseteq FiniteSubsetsOf(Nat) /\ T # {}
  <2>1. \A n \in Nat : 1..n \in SUBSET Nat /\ IsFiniteSet(1..n)
    BY FS_Interval
  <2>2. 1..b \in T
    BY <2>1
  <2> QED
    BY <2>1, <2>2 DEF FiniteSubsetsOf
<1>2. PICK s \in T : \A t \in T : ~(<<t, s>> \in StrictSubsetOrdering(Nat))
  BY <1>1, FS_StrictSubsetOrderingWellFounded, WFMin
<1>3. PICK n \in Nat : s = 1..n /\ n \notin S
  OBVIOUS
<1>4. n # 0 /\ n - 1 \in Nat /\ n - 1 \notin S
  BY <1>3
<1>5. 1..n - 1 \in T
  BY <1>4
<1>6. <<1..n - 1, s>> \in StrictSubsetOrdering(Nat)
  <2>1. 1..n - 1 \subseteq s /\ 1..n - 1 # s /\ s \in SUBSET Nat /\ 1..n - 1 \in SUBSET Nat
    BY <1>3, <1>4
  <2> QED
    BY <2>1 DEF StrictSubsetOrdering
<1> QED
  BY <1>2, <1>5, <1>6

(* A nonempty set of positions has a last one.                              *)
LEMMA MaxOfPositions ==
  \A n \in Nat : \A S \in SUBSET (1..n) : S # {} => Max(S) \in S /\ \A i \in S : Max(S) >= i
<1> DEFINE Bounded(n) == \A S \in SUBSET (1..n) : S # {} => \E m \in S : \A i \in S : m >= i
           N == {n \in Nat : Bounded(n)}
<1>1. Bounded(0)
  <2>1. 1..0 = {}
    OBVIOUS
  <2> QED
    BY <2>1
<1>2. ASSUME NEW n \in Nat, Bounded(n)
      PROVE  Bounded(n + 1)
  <2>1. ASSUME NEW S \in SUBSET (1..n + 1), S # {}
        PROVE  \E m \in S : \A i \in S : m >= i
    <3>1. CASE n + 1 \in S
      BY <2>1, <3>1
    <3>2. CASE n + 1 \notin S
      <4>1. S \in SUBSET (1..n)
        BY <2>1, <3>2
      <4> QED
        BY <1>2, <2>1, <4>1
    <3> QED
      BY <3>1, <3>2
  <2> QED
    BY <2>1
<1>3. 0 \in N /\ \A n \in Nat : n \in N => n + 1 \in N
  <2> HIDE DEF Bounded
  <2> QED
    BY <1>1, <1>2
<1>4. \A n \in Nat : Bounded(n)
  <2> HIDE DEF N
  <2>1. \A n \in Nat : n \in N
    BY <1>3, Induct
  <2> HIDE DEF Bounded
  <2> QED
    BY <2>1 DEF N
<1> QED
  BY <1>4 DEF Max

(* A recursive definition along the operations of a patch has a value.      *)
IsRun(g, o, patches, n) ==
  g = [i \in 0..n |-> IF i = 0 THEN Decoded(o) ELSE ApplyOne(g[i - 1], patches[i])]

LEMMA RunsExist ==
  ASSUME NEW o, NEW patches
  PROVE  \A n \in Nat : \E g : IsRun(g, o, patches, n)
<1> DEFINE S == {n \in Nat : \E g : IsRun(g, o, patches, n)}
<1>1. \E g : IsRun(g, o, patches, 0)
  <2> DEFINE g == [i \in 0..0 |-> Decoded(o)]
  <2>1. g = [i \in 0..0 |-> IF i = 0 THEN Decoded(o) ELSE ApplyOne(g[i - 1], patches[i])]
    OBVIOUS
  <2> HIDE DEF g
  <2> QED
    BY <2>1 DEF IsRun
<1>2. ASSUME NEW m \in Nat, NEW g, IsRun(g, o, patches, m)
      PROVE  \E h : IsRun(h, o, patches, m + 1)
  <2>1. g = [i \in 0..m |-> IF i = 0 THEN Decoded(o) ELSE ApplyOne(g[i - 1], patches[i])]
    BY <1>2 DEF IsRun
  <2> DEFINE h == [i \in 0..m + 1 |-> IF i \in 0..m THEN g[i] ELSE ApplyOne(g[m], patches[i])]
  <2>2. ASSUME NEW i \in 0..m + 1
        PROVE  h[i] = IF i = 0 THEN Decoded(o) ELSE ApplyOne(h[i - 1], patches[i])
    <3>1. CASE i = 0
      BY <2>1, <3>1
    <3>2. CASE i \in 1..m
      <4>1. i \in 0..m /\ i - 1 \in 0..m /\ i # 0
        BY <3>2
      <4>2. g[i] = ApplyOne(g[i - 1], patches[i])
        BY <2>1, <4>1
      <4> QED
        BY <4>1, <4>2
    <3>3. CASE i = m + 1
      BY <3>3
    <3> QED
      BY <3>1, <3>2, <3>3
  <2>3. h = [i \in 0..m + 1 |-> IF i = 0 THEN Decoded(o) ELSE ApplyOne(h[i - 1], patches[i])]
    <3>1. h = [i \in 0..m + 1 |-> h[i]]
      OBVIOUS
    <3> HIDE DEF h
    <3> QED
      BY <2>2, <3>1
  <2> HIDE DEF h
  <2> QED
    BY <2>3 DEF IsRun
<1>3. 0 \in S /\ \A m \in Nat : m \in S => m + 1 \in S
  BY <1>1, <1>2
<1> HIDE DEF S
<1>4. \A n \in Nat : n \in S
  BY <1>3, Induct
<1> QED
  BY <1>4 DEF S

(* The steps of the applier.                                                *)
LEMMA ApplySteps ==
  ASSUME NEW o, NEW patches, Len(patches) \in Nat
  PROVE  \E g : /\ g[0] = Decoded(o)
                /\ \A i \in 1..Len(patches) : g[i] = ApplyOne(g[i - 1], patches[i])
                /\ Apply(o, patches) = g[Len(patches)]
<1> DEFINE after[i \in 0..Len(patches)] ==
             IF i = 0 THEN Decoded(o) ELSE ApplyOne(after[i - 1], patches[i])
<1>1. Apply(o, patches) = after[Len(patches)]
  BY DEF Apply
<1>2. PICK g : g = [i \in 0..Len(patches) |->
                     IF i = 0 THEN Decoded(o) ELSE ApplyOne(g[i - 1], patches[i])]
  <2> HIDE DEF after
  <2>1. PICK g : IsRun(g, o, patches, Len(patches))
    BY RunsExist
  <2>2. g = [i \in 0..Len(patches) |-> IF i = 0 THEN Decoded(o) ELSE ApplyOne(g[i - 1], patches[i])]
    BY <2>1 DEF IsRun
  <2> QED
    BY <2>2
<1>3. after = [i \in 0..Len(patches) |->
                 IF i = 0 THEN Decoded(o) ELSE ApplyOne(after[i - 1], patches[i])]
  BY <1>2
<1> HIDE DEF after
<1>4. after[0] = Decoded(o) /\ \A i \in 1..Len(patches) : after[i] = ApplyOne(after[i - 1], patches[i])
  BY <1>3
<1> QED
  BY <1>1, <1>4

-----------------------------------------------------------------------------
(* What one operation does: a path it does not touch stays as it is.        *)
Touches(x, p) == x.path = p \/ (x.op \in {"remove", "add"} /\ IsPrefix(x.path, p))
Stays(f, g, p) == (p \in DOMAIN g <=> p \in DOMAIN f) /\ (p \in DOMAIN f => g[p] = f[p])

Refused(f, x) ==
  IF x.op = "add" THEN BehindLeaf(f, x.path) ELSE x.op # "remove" /\ x.path \notin DOMAIN f

LEMMA OneOperation ==
  ASSUME NEW r, NEW x
  PROVE  /\ \A p : ~Touches(x, p) => Stays(r.fields, ApplyOne(r, x).fields, p)
         /\ x.op = "remove" =>
              \A p \in DOMAIN ApplyOne(r, x).fields : p \in DOMAIN r.fields /\ ~IsPrefix(x.path, p)
         /\ x.op = "remove" =>
              \A p \in DOMAIN ApplyOne(r, x).fields : ApplyOne(r, x).fields[p] = r.fields[p]
         /\ x.op # "remove" /\ ~Refused(r.fields, x) =>
              /\ x.path \in DOMAIN ApplyOne(r, x).fields
              /\ ApplyOne(r, x).fields[x.path] = x.value
              /\ \A p \in DOMAIN ApplyOne(r, x).fields : p \in DOMAIN r.fields \/ p = x.path
              /\ \A p \in DOMAIN ApplyOne(r, x).fields :
                   p # x.path => ApplyOne(r, x).fields[p] = r.fields[p]
         /\ Refused(r.fields, x) => ApplyOne(r, x).fields = r.fields /\ ~ApplyOne(r, x).ok
         /\ ~Refused(r.fields, x) => (ApplyOne(r, x).ok <=> r.ok)
<1>1. CASE x.op = "remove"
  <2>1. ApplyOne(r, x).fields = Without(r.fields, x.path) /\ (ApplyOne(r, x).ok <=> r.ok)
    BY <1>1 DEF ApplyOne
  <2>2. /\ DOMAIN Without(r.fields, x.path) = {p \in DOMAIN r.fields : ~IsPrefix(x.path, p)}
        /\ \A p \in DOMAIN Without(r.fields, x.path) : Without(r.fields, x.path)[p] = r.fields[p]
    BY DEF Without, Restrict
  <2> QED
    BY <1>1, <2>1, <2>2 DEF Touches, Stays, Refused
<1>2. CASE x.op = "add" /\ ~BehindLeaf(r.fields, x.path)
  <2> DEFINE rest == Without(r.fields, x.path)
  <2>1. ApplyOne(r, x).fields = With(rest, x.path, x.value) /\ (ApplyOne(r, x).ok <=> r.ok)
    BY <1>2 DEF ApplyOne
  <2>2. /\ DOMAIN rest = {p \in DOMAIN r.fields : ~IsPrefix(x.path, p)}
        /\ \A p \in DOMAIN rest : rest[p] = r.fields[p]
    BY DEF Without, Restrict
  <2> HIDE DEF rest
  <2>3. /\ DOMAIN With(rest, x.path, x.value) = {x.path} \cup DOMAIN rest
        /\ With(rest, x.path, x.value)[x.path] = x.value
        /\ \A p \in DOMAIN rest : p # x.path => With(rest, x.path, x.value)[p] = rest[p]
    BY DEF With
  <2> QED
    BY <1>2, <2>1, <2>2, <2>3 DEF Touches, Stays, Refused
<1>3. CASE x.op \notin {"add", "remove"} /\ x.path \in DOMAIN r.fields
  <2>1. ApplyOne(r, x).fields = With(r.fields, x.path, x.value) /\ (ApplyOne(r, x).ok <=> r.ok)
    BY <1>3 DEF ApplyOne
  <2>2. /\ DOMAIN With(r.fields, x.path, x.value) = {x.path} \cup DOMAIN r.fields
        /\ With(r.fields, x.path, x.value)[x.path] = x.value
        /\ \A p \in DOMAIN r.fields : p # x.path => With(r.fields, x.path, x.value)[p] = r.fields[p]
    BY DEF With
  <2> QED
    BY <1>3, <2>1, <2>2 DEF Touches, Stays, Refused
<1>4. CASE Refused(r.fields, x)
  <2>1. ApplyOne(r, x).fields = r.fields /\ ~ApplyOne(r, x).ok
    BY <1>4 DEF ApplyOne, Refused
  <2>2. x.op # "remove"
    BY <1>4 DEF Refused
  <2> QED
    BY <1>4, <2>1, <2>2 DEF Stays
<1> QED
  BY <1>1, <1>2, <1>3, <1>4 DEF Refused

-----------------------------------------------------------------------------
(* What a patch does, whatever the order of its operations.                 *)

(* A path that none of its operations touches stays as it is.               *)
LEMMA Untouched ==
  ASSUME NEW o, NEW patches, Len(patches) \in Nat, NEW p,
         \A i \in 1..Len(patches) : ~Touches(patches[i], p)
  PROVE  Stays(o.fields, Apply(o, patches).fields, p)
<1>1. PICK g : /\ g[0] = Decoded(o)
               /\ \A i \in 1..Len(patches) : g[i] = ApplyOne(g[i - 1], patches[i])
               /\ Apply(o, patches) = g[Len(patches)]
  BY ApplySteps
<1> DEFINE S == {n \in Nat : n \in 0..Len(patches) => Stays(o.fields, g[n].fields, p)}
<1>2. 0 \in S
  BY <1>1 DEF Decoded, Stays
<1>3. ASSUME NEW n \in Nat, n \in S, n + 1 \in 0..Len(patches)
      PROVE  Stays(o.fields, g[n + 1].fields, p)
  <2>1. n \in 0..Len(patches) /\ n + 1 \in 1..Len(patches) /\ n + 1 - 1 = n
    BY <1>3
  <2>2. g[n + 1] = ApplyOne(g[n], patches[n + 1])
    BY <1>1, <2>1
  <2> QED
    BY <1>3, <2>1, <2>2, OneOperation DEF Stays
<1>4. 0 \in S /\ \A n \in Nat : n \in S => n + 1 \in S
  BY <1>2, <1>3
<1> HIDE DEF S
<1>5. \A n \in Nat : n \in S
  BY <1>4, Induct
<1> QED
  BY <1>1, <1>5 DEF S

(* What the result has is from the object or from an operation, and new     *)
(* paths are from additions.                                                *)
Sourced(f, patches, g) ==
  /\ \A p \in DOMAIN g :
       \/ p \in DOMAIN f
       \/ \E i \in 1..Len(patches) : patches[i].op = "add" /\ patches[i].path = p
  /\ \A p \in DOMAIN g :
       \/ p \in DOMAIN f /\ g[p] = f[p]
       \/ \E i \in 1..Len(patches) :
            patches[i].op # "remove" /\ patches[i].path = p /\ patches[i].value = g[p]

LEMMA Provenance ==
  ASSUME NEW o, NEW patches, Len(patches) \in Nat
  PROVE  Sourced(o.fields, patches, Apply(o, patches).fields)
<1>1. PICK g : /\ g[0] = Decoded(o)
               /\ \A i \in 1..Len(patches) : g[i] = ApplyOne(g[i - 1], patches[i])
               /\ Apply(o, patches) = g[Len(patches)]
  BY ApplySteps
<1> DEFINE S == {n \in Nat : n \in 0..Len(patches) => Sourced(o.fields, patches, g[n].fields)}
<1>2. 0 \in S
  BY <1>1 DEF Decoded, Sourced
<1>3. ASSUME NEW n \in Nat, n \in S, n + 1 \in 0..Len(patches)
      PROVE  Sourced(o.fields, patches, g[n + 1].fields)
  <2> DEFINE x == patches[n + 1]
             before == g[n].fields
             after == g[n + 1].fields
  <2>1. n \in 0..Len(patches) /\ n + 1 \in 1..Len(patches) /\ n + 1 - 1 = n
    BY <1>3
  <2>2. g[n + 1] = ApplyOne(g[n], x)
    BY <1>1, <2>1
  <2>3. Sourced(o.fields, patches, before)
    BY <1>3, <2>1
  <2>4. /\ \A p \in DOMAIN after : p \in DOMAIN before \/ (x.op = "add" /\ x.path = p)
        /\ \A p \in DOMAIN after : \/ p \in DOMAIN before /\ after[p] = before[p]
                                   \/ x.op # "remove" /\ x.path = p /\ x.value = after[p]
    <3> HIDE DEF x
    <3>1. CASE x.op = "remove"
      BY <2>2, <3>1, OneOperation
    <3>2. CASE Refused(before, x)
      BY <2>2, <3>2, OneOperation
    <3>3. CASE x.op # "remove" /\ ~Refused(before, x)
      <4>1. /\ x.path \in DOMAIN after /\ after[x.path] = x.value
            /\ \A p \in DOMAIN after : p \in DOMAIN before \/ p = x.path
            /\ \A p \in DOMAIN after : p # x.path => after[p] = before[p]
        BY <2>2, <3>3, OneOperation
      <4>2. x.op = "add" \/ x.path \in DOMAIN before
        BY <3>3 DEF Refused
      <4> HIDE DEF after, before
      <4> QED
        BY <3>3, <4>1, <4>2
    <3> QED
      BY <3>1, <3>2, <3>3
  <2> HIDE DEF after, before
  <2> QED
    BY <2>1, <2>3, <2>4 DEF Sourced, x, after
<1>4. 0 \in S /\ \A n \in Nat : n \in S => n + 1 \in S
  BY <1>2, <1>3
<1> HIDE DEF S
<1>5. \A n \in Nat : n \in S
  BY <1>4, Induct
<1> QED
  BY <1>1, <1>5 DEF S

(* What is removed, or was never there, and is not added afterwards is not  *)
(* in the result.                                                           *)
NoneUnder(q, f) == \A p \in DOMAIN f : ~IsPrefix(q, p)

LEMMA RemovedLast ==
  ASSUME NEW o, NEW patches, Len(patches) \in Nat, NEW q, NEW d \in 0..Len(patches),
         \/ d = 0 /\ NoneUnder(q, o.fields)
         \/ d # 0 /\ patches[d].op = "remove" /\ patches[d].path = q,
         \A i \in 1..Len(patches) : i > d /\ patches[i].op = "add" => ~IsPrefix(q, patches[i].path)
  PROVE  NoneUnder(q, Apply(o, patches).fields)
<1>1. PICK g : /\ g[0] = Decoded(o)
               /\ \A i \in 1..Len(patches) : g[i] = ApplyOne(g[i - 1], patches[i])
               /\ Apply(o, patches) = g[Len(patches)]
  BY ApplySteps
<1> DEFINE S == {n \in Nat : n \in d..Len(patches) => NoneUnder(q, g[n].fields)}
<1>3. 0 \in S
  BY <1>1 DEF Decoded
<1>4. ASSUME NEW n \in Nat, n \in S, n + 1 \in d..Len(patches)
      PROVE  NoneUnder(q, g[n + 1].fields)
  <2> DEFINE x == patches[n + 1]
  <2>1. n + 1 \in 1..Len(patches) /\ n + 1 - 1 = n
    BY <1>4
  <2>2. g[n + 1] = ApplyOne(g[n], x)
    BY <1>1, <2>1
  <2>4. CASE d = n + 1
    <3>1. x.op = "remove" /\ x.path = q
      BY <1>4, <2>4
    <3> HIDE DEF x
    <3> QED
      BY <2>2, <3>1, OneOperation DEF NoneUnder
  <2>5. CASE d # n + 1
    <3>1. NoneUnder(q, g[n].fields)
      BY <1>4, <2>5
    <3>3. x.op = "add" => ~IsPrefix(q, x.path)
      BY <1>4, <2>1, <2>5
    <3> HIDE DEF x
    <3>2. \A p \in DOMAIN ApplyOne(g[n], x).fields :
             p \in DOMAIN g[n].fields \/ (x.op = "add" /\ p = x.path)
      <4>1. CASE x.op = "remove"
        BY <4>1, OneOperation
      <4>2. CASE Refused(g[n].fields, x)
        BY <4>2, OneOperation
      <4>3. CASE x.op # "remove" /\ ~Refused(g[n].fields, x)
        <5>1. \A p \in DOMAIN ApplyOne(g[n], x).fields : p \in DOMAIN g[n].fields \/ p = x.path
          BY <4>3, OneOperation
        <5>2. x.op = "add" \/ x.path \in DOMAIN g[n].fields
          BY <4>3 DEF Refused
        <5> QED
          BY <5>1, <5>2
      <4> QED
        BY <4>1, <4>2, <4>3
    <3> QED
      BY <2>2, <3>1, <3>2, <3>3 DEF NoneUnder
  <2> QED
    BY <2>4, <2>5
<1>5. 0 \in S /\ \A n \in Nat : n \in S => n + 1 \in S
  <2>1. ASSUME NEW n \in Nat, n \in S
        PROVE  n + 1 \in S
    <3>1. n + 1 \in Nat
      OBVIOUS
    <3> QED
      BY <1>4, <2>1, <3>1
  <2> QED
    BY <1>3, <2>1
<1> HIDE DEF S
<1>6. \A n \in Nat : n \in S
  BY <1>5, Induct
<1> QED
  BY <1>1, <1>6 DEF S

LEMMA Removed ==
  ASSUME NEW o, NEW patches, Len(patches) \in Nat, NEW q,
         \/ NoneUnder(q, o.fields)
         \/ \E i \in 1..Len(patches) : patches[i].op = "remove" /\ patches[i].path = q,
         \A i \in 1..Len(patches) : patches[i].op = "add" => ~IsPrefix(q, patches[i].path)
  PROVE  NoneUnder(q, Apply(o, patches).fields)
<1>1. PICK d \in 0..Len(patches) :
        \/ d = 0 /\ NoneUnder(q, o.fields)
        \/ d # 0 /\ patches[d].op = "remove" /\ patches[d].path = q
  OBVIOUS
<1> QED
  BY <1>1, RemovedLast

(* A patch whose operations on a path all give it the same value, from one  *)
(* of them on, leaves that value.                                           *)
SetsTo(x, p, v) == x.op # "remove" /\ x.path = p /\ x.value = v
SetsFrom(patches, d, p, v) ==
  /\ SetsTo(patches[d], p, v)
  /\ \A i \in 1..Len(patches) : i > d /\ Touches(patches[i], p) => SetsTo(patches[i], p, v)

LEMMA SetLast ==
  ASSUME NEW o, NEW patches, Len(patches) \in Nat, NEW p, NEW v,
         Apply(o, patches).ok, NEW d \in 1..Len(patches), SetsFrom(patches, d, p, v)
  PROVE  p \in DOMAIN Apply(o, patches).fields /\ Apply(o, patches).fields[p] = v
<1>1. PICK g : /\ g[0] = Decoded(o)
               /\ \A i \in 1..Len(patches) : g[i] = ApplyOne(g[i - 1], patches[i])
               /\ Apply(o, patches) = g[Len(patches)]
  BY ApplySteps
<1> DEFINE Has(f) == p \in DOMAIN f /\ f[p] = v
           S == {n \in Nat : n \in d..Len(patches) /\ g[n].ok => Has(g[n].fields)}
<1>3. 0 \in S
  OBVIOUS
<1>4. ASSUME NEW n \in Nat, n \in S, n + 1 \in d..Len(patches), g[n + 1].ok
      PROVE  Has(g[n + 1].fields)
  <2> DEFINE x == patches[n + 1]
  <2>1. n + 1 \in 1..Len(patches) /\ n + 1 - 1 = n
    BY <1>4
  <2>2. g[n + 1] = ApplyOne(g[n], x)
    BY <1>1, <2>1
  <2>3. Touches(x, p) => x.op # "remove" /\ x.path = p /\ x.value = v
    BY <1>4, <2>1 DEF SetsFrom, SetsTo
  <2>4. ~Refused(g[n].fields, x)
    <3> HIDE DEF x
    <3> QED
      BY <1>4, <2>2, OneOperation
  <2>5. CASE x.path = p
    <3>1. x.op # "remove" /\ x.value = v
      BY <2>3, <2>5 DEF Touches
    <3> HIDE DEF x
    <3> QED
      BY <2>2, <2>4, <2>5, <3>1, OneOperation
  <2>6. CASE x.path # p
    <3>1. d # n + 1
      BY <2>6 DEF SetsFrom, SetsTo
    <3>2. g[n].ok
      <4> HIDE DEF x
      <4> QED
        BY <1>4, <2>2, <2>4, OneOperation
    <3>3. Has(g[n].fields)
      BY <1>4, <3>1, <3>2
    <3>4. ~Touches(x, p)
      BY <2>3, <2>6
    <3> HIDE DEF x
    <3> QED
      BY <2>2, <3>3, <3>4, OneOperation DEF Stays
  <2> QED
    BY <2>5, <2>6
<1>5. 0 \in S /\ \A n \in Nat : n \in S => n + 1 \in S
  BY <1>3, <1>4
<1> HIDE DEF S
<1>6. \A n \in Nat : n \in S
  BY <1>5, Induct
<1> QED
  BY <1>1, <1>6 DEF S

AllSet(patches, p, v) ==
  /\ \E i \in 1..Len(patches) : patches[i].op # "remove" /\ patches[i].path = p
  /\ \A i \in 1..Len(patches) : Touches(patches[i], p) =>
       patches[i].op # "remove" /\ patches[i].path = p /\ patches[i].value = v

LEMMA SetByAll ==
  ASSUME NEW o, NEW patches, Len(patches) \in Nat, NEW p, NEW v,
         Apply(o, patches).ok, AllSet(patches, p, v)
  PROVE  p \in DOMAIN Apply(o, patches).fields /\ Apply(o, patches).fields[p] = v
<1>1. PICK d \in 1..Len(patches) : patches[d].op # "remove" /\ patches[d].path = p
  BY DEF AllSet
<1>2. SetsTo(patches[d], p, v)
  <2> DEFINE x == patches[d]
  <2>1. x.op # "remove" /\ x.path = p
    BY <1>1
  <2>2. Touches(x, p) => x.value = v
    BY DEF AllSet
  <2> HIDE DEF x
  <2>3. Touches(x, p)
    BY <2>1 DEF Touches
  <2>4. SetsTo(x, p, v)
    BY <2>1, <2>2, <2>3 DEF SetsTo
  <2> QED
    BY <2>4 DEF x
<1>3. \A i \in 1..Len(patches) : i > d /\ Touches(patches[i], p) => SetsTo(patches[i], p, v)
  BY DEF AllSet, SetsTo
<1>4. SetsFrom(patches, d, p, v)
  BY <1>2, <1>3 DEF SetsFrom
<1> QED
  BY <1>4, SetLast

(* A patch can be carried out if the paths it replaces are there and stay,  *)
(* and nothing is added behind a leaf or behind another addition.           *)
Replaceables(f, patches) ==
  \A i \in 1..Len(patches) : patches[i].op \notin {"add", "remove"} =>
    /\ patches[i].path \in DOMAIN f
    /\ \A j \in 1..Len(patches) : patches[j].op \in {"add", "remove"} =>
          ~Touches(patches[j], patches[i].path)
Addables(f, patches) ==
  \A i \in 1..Len(patches) : patches[i].op = "add" =>
    /\ ~BehindLeaf(f, patches[i].path)
    /\ \A j \in 1..Len(patches) : patches[j].op = "add" =>
          ~IsStrictPrefix(patches[j].path, patches[i].path)

LEMMA Accepted ==
  ASSUME NEW o, NEW patches, Len(patches) \in Nat,
         Replaceables(o.fields, patches), Addables(o.fields, patches)
  PROVE  Apply(o, patches).ok
<1>1. PICK g : /\ g[0] = Decoded(o)
               /\ \A i \in 1..Len(patches) : g[i] = ApplyOne(g[i - 1], patches[i])
               /\ Apply(o, patches) = g[Len(patches)]
  BY ApplySteps
<1> DEFINE Replaced == {patches[i].path : i \in {j \in 1..Len(patches) : patches[j].op \notin {"add", "remove"}}}
           Added == {patches[i].path : i \in {j \in 1..Len(patches) : patches[j].op = "add"}}
           Fine(r) == /\ r.ok /\ Replaced \subseteq DOMAIN r.fields
                      /\ DOMAIN r.fields \subseteq DOMAIN o.fields \cup Added
           S == {n \in Nat : n \in 0..Len(patches) => Fine(g[n])}
<1>2. 0 \in S
  BY <1>1 DEF Decoded, Replaceables
<1>3. ASSUME NEW n \in Nat, n \in S, n + 1 \in 0..Len(patches)
      PROVE  Fine(g[n + 1])
  <2> DEFINE x == patches[n + 1]
  <2>1. n \in 0..Len(patches) /\ n + 1 \in 1..Len(patches) /\ n + 1 - 1 = n
    BY <1>3
  <2>2. g[n + 1] = ApplyOne(g[n], x)
    BY <1>1, <2>1
  <2>3. /\ g[n].ok /\ Replaced \subseteq DOMAIN g[n].fields
        /\ DOMAIN g[n].fields \subseteq DOMAIN o.fields \cup Added
    BY <1>3, <2>1
  <2>4. x.op \in {"add", "remove"} => \A p \in Replaced : ~Touches(x, p)
    BY <2>1 DEF Replaceables
  <2>5. x.op \notin {"add", "remove"} => x.path \in Replaced
    BY <2>1
  <2>6. x.op = "add" => /\ x.path \in Added
                        /\ \A p \in DOMAIN o.fields \cup Added : ~IsStrictPrefix(p, x.path)
    BY <2>1 DEF Addables, BehindLeaf
  <2> HIDE DEF x, Replaced, Added
  <2>7. ~Refused(g[n].fields, x)
    BY <2>3, <2>5, <2>6 DEF Refused, BehindLeaf
  <2>8. g[n + 1].ok
    BY <2>2, <2>3, <2>7, OneOperation
  <2>9. CASE x.op = "remove"
    <3>1. Replaced \subseteq DOMAIN ApplyOne(g[n], x).fields
      BY <2>3, <2>4, <2>9, OneOperation DEF Stays
    <3>2. DOMAIN ApplyOne(g[n], x).fields \subseteq DOMAIN g[n].fields
      BY <2>9, OneOperation
    <3> QED
      BY <2>2, <2>3, <2>8, <3>1, <3>2
  <2>10. CASE x.op # "remove"
    <3>1. /\ x.path \in DOMAIN ApplyOne(g[n], x).fields
          /\ \A p \in DOMAIN ApplyOne(g[n], x).fields : p \in DOMAIN g[n].fields \/ p = x.path
      BY <2>7, <2>10, OneOperation
    <3>2. x.path \in DOMAIN o.fields \cup Added
      BY <2>3, <2>5, <2>6, <2>10
    <3>3. \A p \in Replaced : p \in DOMAIN ApplyOne(g[n], x).fields
      <4> TAKE p \in Replaced
      <4>1. CASE p = x.path
        BY <3>1, <4>1
      <4>2. CASE p # x.path
        <5>1. ~Touches(x, p)
          BY <2>4, <2>10, <4>2 DEF Touches
        <5> QED
          BY <2>3, <5>1, OneOperation DEF Stays
      <4> QED
        BY <4>1, <4>2
    <3> QED
      BY <2>2, <2>3, <2>8, <3>1, <3>2, <3>3
  <2> QED
    BY <2>9, <2>10
<1>4. 0 \in S /\ \A n \in Nat : n \in S => n + 1 \in S
  BY <1>2, <1>3
<1> HIDE DEF S
<1>5. \A n \in Nat : n \in S
  BY <1>4, Induct
<1> QED
  BY <1>1, <1>5 DEF S

-----------------------------------------------------------------------------
(* The operations of a patch as a set.                                      *)
IsPatch(s) == s \in Seq(Range(s))

LEMMA PatchValues ==
  ASSUME NEW s, IsPatch(s)
  PROVE  /\ Len(s) \in Nat /\ DOMAIN s = 1..Len(s)
         /\ Range(s) = {s[i] : i \in 1..Len(s)}
<1>1. Len(s) \in Nat /\ DOMAIN s = 1..Len(s)
  BY LenProperties DEF IsPatch
<1> QED
  BY <1>1 DEF Range

LEMMA PatchOfSet ==
  ASSUME NEW S, IsFiniteSet(S)
  PROVE  IsPatch(SetToSeq(S)) /\ Range(SetToSeq(S)) = S
<1> DEFINE n == Cardinality(S)
<1>1. n \in Nat /\ ExistsBijection(1..n, S)
  BY FS_CardinalityType
<1>2. PICK f : f \in Bijection(1..n, S)
  BY <1>1 DEF ExistsBijection
<1>3. f \in [1..n -> S] /\ IsInjective(f) /\ \A y \in S : \E i \in 1..n : f[i] = y
  BY <1>2 DEF Bijection, Injection, Surjection, IsInjective
<1> DEFINE s == SetToSeq(S)
<1>4. s \in [1..n -> S] /\ IsInjective(s)
  BY <1>3 DEF SetToSeq
<1> HIDE DEF s
<1>5. s \in Injection(1..n, S)
  BY <1>4 DEF Injection, IsInjective
<1>6. s \in Surjection(1..n, S)
  <2>1. IsFiniteSet(1..n) /\ Cardinality(1..n) = n
    BY <1>1, FS_Interval
  <2> QED
    BY <1>5, <2>1, FS_Injection
<1>7. Range(s) = S
  BY <1>4, <1>6 DEF Surjection, Range
<1>8. s \in Seq(S)
  BY <1>1, <1>4
<1> QED
  BY <1>7, <1>8 DEF IsPatch, s

LEMMA EmptyPatch == IsPatch(<<>>) /\ Range(<<>>) = {}
BY DEF IsPatch, Range

LEMMA OnePatch ==
  ASSUME NEW x
  PROVE  IsPatch(<<x>>) /\ Range(<<x>>) = {x}
BY DEF IsPatch, Range

LEMMA JoinedPatch ==
  ASSUME NEW s, NEW t, IsPatch(s), IsPatch(t)
  PROVE  IsPatch(s \o t) /\ Range(s \o t) = Range(s) \cup Range(t)
<1> DEFINE S == Range(s) \cup Range(t)
<1>1. s \in Seq(S) /\ t \in Seq(S)
  BY SeqMonotonic DEF IsPatch
<1>2. /\ s \o t \in Seq(S) /\ Len(s \o t) = Len(s) + Len(t)
      /\ \A i \in 1..Len(s) + Len(t) : (s \o t)[i] = IF i <= Len(s) THEN s[i] ELSE t[i - Len(s)]
  BY <1>1, ConcatProperties
<1>3. /\ Len(s) \in Nat /\ DOMAIN s = 1..Len(s)
      /\ Len(t) \in Nat /\ DOMAIN t = 1..Len(t)
      /\ DOMAIN (s \o t) = 1..Len(s) + Len(t)
  BY <1>1, <1>2, LenProperties
<1>4. \A x \in S : \E i \in 1..Len(s) + Len(t) : (s \o t)[i] = x
  <2>1. ASSUME NEW i \in 1..Len(s) PROVE \E j \in 1..Len(s) + Len(t) : (s \o t)[j] = s[i]
    BY <1>2, <1>3
  <2>2. ASSUME NEW i \in 1..Len(t) PROVE \E j \in 1..Len(s) + Len(t) : (s \o t)[j] = t[i]
    <3>1. /\ i + Len(s) \in 1..Len(s) + Len(t) /\ ~(i + Len(s) <= Len(s))
          /\ i + Len(s) - Len(s) = i
      BY <1>3
    <3>2. (s \o t)[i + Len(s)] = t[i]
      BY <1>2, <3>1
    <3> QED
      BY <3>1, <3>2
  <2> QED
    BY <1>3, <2>1, <2>2 DEF Range
<1>5. Range(s \o t) = S
  <2>1. \A i \in 1..Len(s) + Len(t) : (s \o t)[i] \in S
    BY <1>2, <1>3, ElementOfSeq
  <2>2. Range(s \o t) = {(s \o t)[i] : i \in 1..Len(s) + Len(t)}
    BY <1>3 DEF Range
  <2> HIDE DEF S
  <2> QED
    BY <1>4, <2>1, <2>2
<1> QED
  BY <1>2, <1>5 DEF IsPatch

-----------------------------------------------------------------------------
(* The operations of each part of an answer.                                *)
GoodOptions(k) ==
  /\ DOMAIN k = DOMAIN Defaults
  /\ IsFiniteSet(DOMAIN k.add) /\ DOMAIN k.add \subseteq DOMAIN Parts
  /\ IsFiniteSet(k.remove) /\ k.remove \subseteq DOMAIN Parts
  /\ \A prefix \in DOMAIN k.registry :
       IsPath(prefix) /\ prefix # <<>> /\ IsPath(k.registry[prefix])
  /\ "" \notin DOMAIN k.renames

LEMMA FiniteImage ==
  ASSUME NEW A, IsFiniteSet(A), NEW f
  PROVE  IsFiniteSet({f[a] : a \in A})
<1> DEFINE B == {f[a] : a \in A}
           g == [a \in A |-> f[a]]
<1>1. g \in Surjection(A, B)
  BY DEF Surjection
<1> HIDE DEF B, g
<1>2. IsFiniteSet(B)
  BY <1>1, FS_Surjection
<1> QED
  BY <1>2 DEF B

LEMMA RemoveAllOps ==
  ASSUME NEW P, IsFiniteSet(P)
  PROVE  IsPatch(RemoveAll(P)) /\ Range(RemoveAll(P)) = {RemovePath(p) : p \in P}
<1> DEFINE f == [p \in P |-> RemovePath(p)]
           R == {RemovePath(p) : p \in P}
<1>1. {f[p] : p \in P} = R
  OBVIOUS
<1>2. IsFiniteSet(R)
  <2> HIDE DEF f, R
  <2> QED
    BY <1>1, FiniteImage
<1> QED
  BY <1>2, PatchOfSet DEF RemoveAll

LEMMA StrippedFinite == IsFiniteSet(StrippedFields)
<1> DEFINE names == {"uid", "selfLink", "resourceVersion", "creationTimestamp",
                     "generation", "managedFields"}
           identity == {<<"metadata", f>> : f \in names}
           notes == {AnnotationsAt \o <<c>> : c \in ControllerKeys \cup {AppliedKey}}
           labels == {<<"metadata", "labels", c>> : c \in ControllerKeys}
<1>1. IsFiniteSet(names) /\ IsFiniteSet(ControllerKeys) /\ IsFiniteSet(ControllerKeys \cup {AppliedKey})
  <2>1. \A x, y : IsFiniteSet({x}) /\ IsFiniteSet({x, y})
    <3> TAKE x, y
    <3>1. {x, y} = {x} \cup {y}
      OBVIOUS
    <3>2. IsFiniteSet({x}) /\ IsFiniteSet({y})
      BY FS_Singleton
    <3>3. IsFiniteSet({x} \cup {y})
      BY <3>2, FS_Union
    <3> QED
      BY <3>1, <3>2, <3>3
  <2>2. /\ names = {"uid", "selfLink"} \cup ({"resourceVersion", "creationTimestamp"}
                     \cup {"generation", "managedFields"})
        /\ IsFiniteSet({"resourceVersion", "creationTimestamp"} \cup {"generation", "managedFields"})
    BY <2>1, FS_Union
  <2>3. IsFiniteSet(names)
    <3> HIDE DEF names
    <3>1. IsFiniteSet({"uid", "selfLink"})
      BY <2>1
    <3> QED
      BY <2>2, <3>1, FS_Union
  <2>4. IsFiniteSet(ControllerKeys)
    BY <2>1 DEF ControllerKeys
  <2> QED
    BY <2>1, <2>3, <2>4, FS_Union
<1>2. IsFiniteSet(identity)
  <2> DEFINE f == [n \in names |-> <<"metadata", n>>]
  <2>1. {f[n] : n \in names} = identity
    OBVIOUS
  <2> HIDE DEF f, identity, names
  <2> QED
    BY <1>1, <2>1, FiniteImage
<1>3. IsFiniteSet(notes)
  <2> DEFINE f == [c \in ControllerKeys \cup {AppliedKey} |-> AnnotationsAt \o <<c>>]
  <2>1. {f[c] : c \in ControllerKeys \cup {AppliedKey}} = notes
    OBVIOUS
  <2> HIDE DEF f, notes
  <2> QED
    BY <1>1, <2>1, FiniteImage
<1>4. IsFiniteSet(labels)
  <2> DEFINE f == [c \in ControllerKeys |-> <<"metadata", "labels", c>>]
  <2>1. {f[c] : c \in ControllerKeys} = labels
    OBVIOUS
  <2> HIDE DEF f, labels
  <2> QED
    BY <1>1, <2>1, FiniteImage
<1>5. StrippedFields = ((identity \cup notes) \cup labels) \cup {<<"status">>}
  BY DEF StrippedFields
<1> HIDE DEF identity, notes, labels
<1> QED
  BY <1>2, <1>3, <1>4, <1>5, FS_Union, FS_Singleton

LEMMA stripFieldsOps ==
  ASSUME NEW o
  PROVE  /\ IsPatch(stripFields(o))
         /\ Range(stripFields(o)) = {RemovePath(p) : p \in {q \in StrippedFields : Found(o, q)}}
<1>1. IsFiniteSet({q \in StrippedFields : Found(o, q)})
  BY StrippedFinite, FS_Subset
<1> QED
  BY <1>1, RemoveAllOps DEF stripFields

LEMMA addAnnotationsOps ==
  ASSUME NEW k, GoodOptions(k)
  PROVE  /\ IsPatch(addAnnotations(k))
         /\ Range(addAnnotations(k)) =
              {AddPath(AnnotationsAt \o Parts[a], k.add[a]) : a \in DOMAIN k.add}
<1> DEFINE R == {AddPath(AnnotationsAt \o Parts[a], k.add[a]) : a \in DOMAIN k.add}
           f == [a \in DOMAIN k.add |-> AddPath(AnnotationsAt \o Parts[a], k.add[a])]
<1>1. {f[a] : a \in DOMAIN k.add} = R
  OBVIOUS
<1>2. IsFiniteSet(R)
  <2> HIDE DEF f, R
  <2> QED
    BY <1>1, FiniteImage DEF GoodOptions
<1> QED
  BY <1>2, PatchOfSet DEF addAnnotations

LEMMA removeAnnotationsOps ==
  ASSUME NEW k, GoodOptions(k)
  PROVE  /\ IsPatch(removeAnnotations(k))
         /\ Range(removeAnnotations(k)) = {RemovePath(AnnotationsAt \o Parts[a]) : a \in k.remove}
<1> DEFINE P == {AnnotationsAt \o Parts[a] : a \in k.remove}
           f == [a \in k.remove |-> AnnotationsAt \o Parts[a]]
<1>1. {f[a] : a \in k.remove} = P
  OBVIOUS
<1>2. IsFiniteSet(P)
  <2> HIDE DEF f, P
  <2> QED
    BY <1>1, FiniteImage DEF GoodOptions
<1>3. IsPatch(RemoveAll(P)) /\ Range(RemoveAll(P)) = {RemovePath(p) : p \in P}
  BY <1>2, RemoveAllOps
<1> QED
  BY <1>3 DEF removeAnnotations

LEMMA removePodFieldsOps ==
  ASSUME NEW o
  PROVE  /\ IsPatch(removePodFields(o))
         /\ Range(removePodFields(o)) =
              {RemovePath(<<"spec", f>>) : f \in {g \in {"nodeName", "nodeSelector", "priority"} :
                                                  GK(o) = <<"", "Pod">>}}
<1>1. CASE GK(o) # <<"", "Pod">>
  BY <1>1, EmptyPatch DEF removePodFields
<1>2. CASE GK(o) = <<"", "Pod">>
  <2> DEFINE P == {<<"spec", f>> : f \in {"nodeName", "nodeSelector", "priority"}}
  <2>1. P = ({<<"spec", "nodeName">>} \cup {<<"spec", "nodeSelector">>}) \cup {<<"spec", "priority">>}
    OBVIOUS
  <2>2. IsFiniteSet(P)
    <3> HIDE DEF P
    <3> QED
      BY <2>1, FS_Singleton, FS_Union
  <2>3. IsPatch(RemoveAll(P)) /\ Range(RemoveAll(P)) = {RemovePath(p) : p \in P}
    BY <2>2, RemoveAllOps
  <2> QED
    BY <1>2, <2>3 DEF removePodFields
<1> QED
  BY <1>1, <1>2

LEMMA RenamedOps ==
  ASSUME NEW k, NEW o, NEW read, NEW write
  PROVE  /\ IsPatch(Renamed(k, o, read, write))
         /\ Range(Renamed(k, o, read, write)) =
              {ReplacePath(write[i], k.renames[Value(o, read[i])]) :
                 i \in {j \in Index : Value(o, read[j]) \in DOMAIN k.renames}}
<1> DEFINE at == {i \in Index : Value(o, read[i]) \in DOMAIN k.renames}
           R == {ReplacePath(write[i], k.renames[Value(o, read[i])]) : i \in at}
           f == [i \in at |-> ReplacePath(write[i], k.renames[Value(o, read[i])])]
<1>1. IsFiniteSet(at)
  BY IndexAssumption, FS_Subset
<1>2. {f[i] : i \in at} = R
  OBVIOUS
<1>3. IsFiniteSet(R)
  <2> HIDE DEF f, R, at
  <2> QED
    BY <1>1, <1>2, FiniteImage
<1> QED
  BY <1>3, PatchOfSet DEF Renamed

(* The claims are patched where they are.                                   *)
ClaimOps(k, o) ==
  {ReplacePath(Claim(PodSpec(GK(o)), i), k.renames[Value(o, Claim(PodSpec(GK(o)), i))]) :
     i \in {j \in Index : /\ GK(o) \in Workloads
                          /\ Value(o, Claim(PodSpec(GK(o)), j)) \in DOMAIN k.renames}}
TemplateOps(k, o) ==
  {ReplacePath(Template(i), k.renames[Value(o, Template(i))]) :
     i \in {j \in Index : /\ GK(o) = <<"apps", "StatefulSet">>
                          /\ Value(o, Template(j)) \in DOMAIN k.renames}}

LEMMA PairsEqual ==
  ASSUME NEW a, NEW b, NEW c, NEW d, <<a, b>> = <<c, d>>
  PROVE  a = c /\ b = d
OBVIOUS

LEMMA KindsApart ==
  /\ <<"", "Pod">> # <<"batch", "CronJob">>
  /\ <<"", "Pod">> # <<"batch", "Job">>
  /\ <<"", "Pod">> # <<"", "Service">>
  /\ <<"", "Service">> # <<"batch", "Job">>
  /\ <<"apps", "StatefulSet">> # <<"batch", "CronJob">>
  /\ <<"apps", "StatefulSet">> # <<"", "Pod">>
  /\ <<"batch", "Job">> # <<"batch", "CronJob">>
BY PairsEqual

LEMMA RenamePVCsOps ==
  ASSUME NEW k, NEW o
  PROVE  IsPatch(RenamePVCs(k, o)) /\ Range(RenamePVCs(k, o)) = ClaimOps(k, o)
<1>1. CASE GK(o) \notin Workloads
  BY <1>1, EmptyPatch DEF RenamePVCs, ClaimOps
<1>2. CASE GK(o) \in Workloads
  <2> DEFINE read == [i \in Index |-> Claim(PodSpec(GK(o)), i)]
             write == [i \in Index |-> Claim(PVCPath(GK(o)), i)]
  <2>1. PVCPath(GK(o)) = PodSpec(GK(o))
    <3>1. CASE GK(o) = <<"", "Pod">>
      <4>1. GK(o) # <<"batch", "CronJob">>
        BY <3>1, KindsApart
      <4>2. PVCPath(GK(o)) = <<"spec">>
        BY <3>1, <4>1 DEF PVCPath
      <4>3. PodSpec(GK(o)) = <<"spec">>
        BY <3>1, <4>1 DEF PodSpec
      <4> QED
        BY <4>2, <4>3
    <3>2. CASE GK(o) = <<"batch", "CronJob">>
      BY <3>2 DEF PVCPath, PodSpec
    <3>3. CASE GK(o) # <<"", "Pod">> /\ GK(o) # <<"batch", "CronJob">>
      BY <3>3 DEF PVCPath, PodSpec
    <3> QED
      BY <3>1, <3>2, <3>3
  <2>2. \A i \in Index : read[i] = Claim(PodSpec(GK(o)), i) /\ write[i] = Claim(PodSpec(GK(o)), i)
    BY <2>1
  <2>3. RenamePVCs(k, o) = Renamed(k, o, read, write)
    BY <1>2 DEF RenamePVCs
  <2> HIDE DEF read, write
  <2>4. /\ IsPatch(Renamed(k, o, read, write))
        /\ Range(Renamed(k, o, read, write)) =
             {ReplacePath(write[i], k.renames[Value(o, read[i])]) :
                i \in {j \in Index : Value(o, read[j]) \in DOMAIN k.renames}}
    BY RenamedOps
  <2> QED
    BY <1>2, <2>2, <2>3, <2>4 DEF ClaimOps
<1> QED
  BY <1>1, <1>2

LEMMA renamePVCTemplatesOps ==
  ASSUME NEW k, NEW o
  PROVE  IsPatch(renamePVCTemplates(k, o)) /\ Range(renamePVCTemplates(k, o)) = TemplateOps(k, o)
<1> DEFINE names == [i \in Index |-> Template(i)]
<1>1. CASE GK(o) # <<"apps", "StatefulSet">>
  BY <1>1, EmptyPatch DEF renamePVCTemplates, TemplateOps
<1>2. CASE GK(o) = <<"apps", "StatefulSet">>
  <2>1. \A i \in Index : names[i] = Template(i)
    OBVIOUS
  <2>2. renamePVCTemplates(k, o) = Renamed(k, o, names, names)
    BY <1>2 DEF renamePVCTemplates
  <2> HIDE DEF names
  <2>3. /\ IsPatch(Renamed(k, o, names, names))
        /\ Range(Renamed(k, o, names, names)) =
             {ReplacePath(names[i], k.renames[Value(o, names[i])]) :
                i \in {j \in Index : Value(o, names[j]) \in DOMAIN k.renames}}
    BY RenamedOps
  <2> QED
    BY <1>2, <2>1, <2>2, <2>3 DEF TemplateOps
<1> QED
  BY <1>1, <1>2

(* A Job loses its generated selector and the labels it selects by.         *)
JobLabelPaths == {<<"spec", "template", "metadata", "labels">> \o <<c>> : c \in ControllerKeys}
MatchPaths == {<<"spec", "selector", "matchLabels">> \o <<c>> : c \in ControllerKeys}
SelectorPaths(o) ==
  IF Value(o, <<"spec", "manualSelector">>) = "true" THEN MatchPaths ELSE {<<"spec", "selector">>}
JobOps(o) ==
  {RemovePath(p) : p \in {q \in SelectorPaths(o) \cup JobLabelPaths :
                            GK(o) = <<"batch", "Job">> /\ Found(o, q)}}

(* A pair is finite, and so are the two label paths below any path: what     *)
(* removeJobControllerUID walks over is a finite set.                        *)
LEMMA PairFinite ==
  ASSUME NEW a, NEW b
  PROVE  IsFiniteSet({a, b})
<1>1. {a, b} = {a} \cup {b}
  OBVIOUS
<1>2. IsFiniteSet({a}) /\ IsFiniteSet({b})
  BY FS_Singleton
<1>3. IsFiniteSet({a} \cup {b})
  BY <1>2, FS_Union
<1> QED
  BY <1>1, <1>3

LEMMA ControllerPathsFinite ==
  ASSUME NEW at
  PROVE  IsFiniteSet({at \o <<c>> : c \in ControllerKeys})
<1>1. {at \o <<c>> : c \in ControllerKeys}
        = {at \o <<"batch.kubernetes.io/controller-uid">>, at \o <<"controller-uid">>}
  BY DEF ControllerKeys
<1> QED
  BY <1>1, PairFinite

LEMMA removeJobControllerUIDOps ==
  ASSUME NEW o
  PROVE  /\ IsPatch(removeJobControllerUID(o))
         /\ Range(removeJobControllerUID(o)) = JobOps(o)
<1>1. CASE GK(o) # <<"batch", "Job">>
  BY <1>1, EmptyPatch DEF removeJobControllerUID, JobOps
<1>2. CASE GK(o) = <<"batch", "Job">>
  <2> DEFINE P == {p \in SelectorPaths(o) \cup JobLabelPaths : Found(o, p)}
  <2>1. \A at : IsFiniteSet({at \o <<c>> : c \in ControllerKeys})
    BY ControllerPathsFinite
  <2>2. IsFiniteSet(JobLabelPaths) /\ IsFiniteSet(MatchPaths)
    BY <2>1 DEF JobLabelPaths, MatchPaths
  <2>3. IsFiniteSet(SelectorPaths(o))
    BY <2>2, FS_Singleton DEF SelectorPaths
  <2>4. IsFiniteSet(SelectorPaths(o) \cup JobLabelPaths)
    BY <2>2, <2>3, FS_Union
  <2>5. IsFiniteSet(P)
    BY <2>4, FS_Subset
  <2>6. IsPatch(RemoveAll(P)) /\ Range(RemoveAll(P)) = {RemovePath(p) : p \in P}
    <3> HIDE DEF P
    <3> QED
      BY <2>5, RemoveAllOps
  <2>7. removeJobControllerUID(o) = RemoveAll(P)
    BY <1>2 DEF removeJobControllerUID, SelectorPaths, MatchPaths, JobLabelPaths
  <2> QED
    BY <1>2, <2>6, <2>7 DEF JobOps
<1> QED
  BY <1>1, <1>2

MustWait(o) ==
  /\ GK(o) = <<"batch", "Job">>
  /\ ~Owned(o)
  /\ ~Annotated(o, IdempotentKey, "true")
  /\ Value(o, <<"spec", "suspend">>) # "true"

LEMMA suspendStandaloneJobOps ==
  ASSUME NEW o
  PROVE  /\ IsPatch(suspendStandaloneJob(o))
         /\ Range(suspendStandaloneJob(o)) =
              IF MustWait(o) THEN {AddPath(<<"spec", "suspend">>, "true")} ELSE {}
BY EmptyPatch, OnePatch DEF suspendStandaloneJob, MustWait

(* The remaining removals.                                                  *)
SubjectOps(o) ==
  {RemovePath(<<"subjects", i, "namespace">>) :
     i \in {j \in Index :
              /\ GK(o) = <<"rbac.authorization.k8s.io", "RoleBinding">>
              /\ Value(o, <<"subjects", j, "kind">>) = "ServiceAccount"
              /\ Value(o, <<"subjects", j, "namespace">>) = Value(o, <<"metadata", "namespace">>)}}

LEMMA SubjectsOps ==
  ASSUME NEW o
  PROVE  IsPatch(Subjects(o)) /\ Range(Subjects(o)) = SubjectOps(o)
<1>1. CASE GK(o) # <<"rbac.authorization.k8s.io", "RoleBinding">>
  BY <1>1, EmptyPatch DEF Subjects, SubjectOps
<1>2. CASE GK(o) = <<"rbac.authorization.k8s.io", "RoleBinding">>
  <2> DEFINE at == {j \in Index :
                      /\ Value(o, <<"subjects", j, "kind">>) = "ServiceAccount"
                      /\ Value(o, <<"subjects", j, "namespace">>) = Value(o, <<"metadata", "namespace">>)}
             P == {<<"subjects", i, "namespace">> : i \in at}
             f == [i \in at |-> <<"subjects", i, "namespace">>]
  <2>1. IsFiniteSet(at) /\ {f[i] : i \in at} = P
    BY IndexAssumption, FS_Subset
  <2>2. IsFiniteSet(P)
    <3> HIDE DEF f, P, at
    <3> QED
      BY <2>1, FiniteImage
  <2>3. IsPatch(RemoveAll(P)) /\ Range(RemoveAll(P)) = {RemovePath(p) : p \in P}
    <3> HIDE DEF P
    <3> QED
      BY <2>2, RemoveAllOps
  <2>4. Subjects(o) = RemoveAll(P)
    BY <1>2 DEF Subjects
  <2> QED
    BY <1>2, <2>3, <2>4 DEF SubjectOps
<1> QED
  BY <1>1, <1>2

SecretOps(o) ==
  {RemovePath(p) : p \in {q \in {<<"secrets">>} :
                            GK(o) = <<"", "ServiceAccount">> /\ Found(o, q)}}

LEMMA AccountSecretsOps ==
  ASSUME NEW o
  PROVE  IsPatch(AccountSecrets(o)) /\ Range(AccountSecrets(o)) = SecretOps(o)
<1>1. CASE GK(o) = <<"", "ServiceAccount">> /\ Found(o, <<"secrets">>)
  <2>1. SecretOps(o) = {RemovePath(<<"secrets">>)}
    BY <1>1 DEF SecretOps
  <2>2. AccountSecrets(o) = <<RemovePath(<<"secrets">>)>>
    BY <1>1 DEF AccountSecrets
  <2> QED
    BY <2>1, <2>2, OnePatch
<1>2. CASE ~(GK(o) = <<"", "ServiceAccount">> /\ Found(o, <<"secrets">>))
  <2>1. SecretOps(o) = {}
    BY <1>2 DEF SecretOps
  <2>2. AccountSecrets(o) = <<>>
    BY <1>2 DEF AccountSecrets
  <2> QED
    BY <2>1, <2>2, EmptyPatch
<1> QED
  BY <1>1, <1>2

(* Each image with a replaceable prefix is replaced, in the kinds whose     *)
(* images are looked at.                                                    *)
HasImages(o) == GK(o) = <<"", "Pod">> \/ IsPodSpecable(o)
ImageOps(k, o) ==
  {ReplacePath(p, UpdateImageRegistry(k, o.fields[p])) :
     p \in {q \in ImagePaths(o) : HasImages(o) /\ Replaceable(k, o.fields[q]) # {}}}

LEMMA ImagesFinite ==
  ASSUME NEW o
  PROVE  IsFiniteSet(ImagePaths(o))
<1> DEFINE at == PodSpec(GK(o))
           f(c) == [i \in Index |-> at \o <<c, i, "image">>]
           P(c) == {f(c)[i] : i \in Index}
<1>1. \A c : IsFiniteSet(P(c))
  <2> TAKE c
  <2> HIDE DEF f
  <2> QED
    BY IndexAssumption, FiniteImage
<1>2. \A c, i : i \in Index => at \o <<c, i, "image">> \in P(c)
  <2> TAKE c, i
  <2>1. i \in Index => f(c)[i] = at \o <<c, i, "image">>
    OBVIOUS
  <2> HIDE DEF f
  <2> QED
    BY <2>1
<1>3. ImagePaths(o) \subseteq P("containers") \cup P("initContainers")
  <2> HIDE DEF at, P
  <2>1. \A p \in ImagePaths(o) :
          \E c \in {"containers", "initContainers"}, i \in Index : p = at \o <<c, i, "image">>
    BY DEF ImagePaths, at
  <2> QED
    BY <1>2, <2>1
<1> HIDE DEF P
<1> QED
  BY <1>1, <1>3, FS_Union, FS_Subset

LEMMA UpdateImagesOps ==
  ASSUME NEW k, NEW o
  PROVE  IsPatch(UpdateImages(k, o)) /\ Range(UpdateImages(k, o)) = ImageOps(k, o)
<1>1. CASE ~HasImages(o)
  BY <1>1, EmptyPatch DEF UpdateImages, ImageOps, HasImages
<1>2. CASE HasImages(o)
  <2> DEFINE at == {p \in ImagePaths(o) : Replaceable(k, o.fields[p]) # {}}
             R == {ReplacePath(p, UpdateImageRegistry(k, o.fields[p])) : p \in at}
             f == [p \in at |-> ReplacePath(p, UpdateImageRegistry(k, o.fields[p]))]
  <2>1. IsFiniteSet(at) /\ {f[p] : p \in at} = R
    BY ImagesFinite, FS_Subset
  <2>2. IsFiniteSet(R)
    <3> HIDE DEF f, R, at
    <3> QED
      BY <2>1, FiniteImage
  <2>3. IsPatch(SetToSeq(R)) /\ Range(SetToSeq(R)) = R
    <3> HIDE DEF R
    <3> QED
      BY <2>2, PatchOfSet
  <2>4. UpdateImages(k, o) = SetToSeq(R)
    BY <1>2 DEF UpdateImages, HasImages
  <2> QED
    BY <1>2, <2>3, <2>4 DEF ImageOps
<1> QED
  BY <1>1, <1>2

(* A Service loses its addresses and the node ports nobody asked for.       *)
Bound(o, f, first) == Found(o, f) /\ Value(o, first) # "None"
AddressPaths(o) ==
  {p \in {<<"spec", "externalIPs">>, <<"spec", "clusterIP">>, <<"spec", "clusterIPs">>} :
     /\ GK(o) = <<"", "Service">>
     /\ \/ p = <<"spec", "externalIPs">> /\ Value(o, <<"spec", "type">>) = "LoadBalancer"
        \/ p = <<"spec", "clusterIP">> /\ Bound(o, p, <<"spec", "clusterIP">>)
        \/ p = <<"spec", "clusterIPs">>
           /\ Bound(o, p, <<"spec", "clusterIPs">> \o <<"0">>)}
Allocated(o, i) ==
  /\ GK(o) = <<"", "Service">>
  /\ Value(o, <<"spec", "type">>) \notin {"", "ExternalName"}
  /\ Value(o, NodePort(i)) \notin {"", "0"}
  /\ ~IsExplicit(o, Value(o, <<"spec", "ports", i, "name">>), Value(o, NodePort(i)))
ServiceOps(o) ==
  {RemovePath(p) : p \in AddressPaths(o) \cup {NodePort(i) : i \in {j \in Index : Allocated(o, j)}}}

LEMMA PortOps ==
  ASSUME NEW o, GK(o) = <<"", "Service">>
  PROVE  /\ IsPatch(getNodePortPatch(o))
         /\ Range(getNodePortPatch(o)) =
              {RemovePath(p) : p \in {NodePort(i) : i \in {j \in Index : Allocated(o, j)}}}
<1> DEFINE at == {j \in Index : Allocated(o, j)}
           P == {NodePort(i) : i \in at}
           f == [i \in at |-> NodePort(i)]
<1>1. IsFiniteSet(at) /\ {f[i] : i \in at} = P
  BY IndexAssumption, FS_Subset
<1>2. IsFiniteSet(P)
  <2> HIDE DEF f, P, at
  <2> QED
    BY <1>1, FiniteImage
<1>3. IsPatch(RemoveAll(P)) /\ Range(RemoveAll(P)) = {RemovePath(p) : p \in P}
  <2> HIDE DEF P
  <2> QED
    BY <1>2, RemoveAllOps
<1>4. CASE Value(o, <<"spec", "type">>) \in {"", "ExternalName"}
  <2>1. P = {}
    BY <1>4 DEF Allocated
  <2>2. getNodePortPatch(o) = <<>>
    BY <1>4 DEF getNodePortPatch
  <2> HIDE DEF P
  <2>3. {RemovePath(p) : p \in P} = {}
    BY <2>1
  <2> QED
    BY <2>2, <2>3, EmptyPatch DEF P
<1>5. CASE Value(o, <<"spec", "type">>) \notin {"", "ExternalName"}
  <2>1. getNodePortPatch(o) = RemoveAll(P)
    BY <1>5 DEF getNodePortPatch, Allocated
  <2> QED
    BY <1>3, <2>1
<1> QED
  BY <1>4, <1>5

LEMMA removeServiceFieldsOps ==
  ASSUME NEW o
  PROVE  IsPatch(removeServiceFields(o)) /\ Range(removeServiceFields(o)) = ServiceOps(o)
<1>1. CASE GK(o) # <<"", "Service">>
  <2>1. ServiceOps(o) = {}
    BY <1>1 DEF ServiceOps, AddressPaths, Allocated
  <2> QED
    BY <1>1, <2>1, EmptyPatch DEF removeServiceFields
<1>2. CASE GK(o) = <<"", "Service">>
  <2>1. IsFiniteSet(AddressPaths(o))
    <3> DEFINE three == {<<"spec", "externalIPs">>, <<"spec", "clusterIP">>, <<"spec", "clusterIPs">>}
    <3>1. three = ({<<"spec", "externalIPs">>} \cup {<<"spec", "clusterIP">>}) \cup {<<"spec", "clusterIPs">>}
      OBVIOUS
    <3>2. IsFiniteSet(three)
      <4> HIDE DEF three
      <4> QED
        BY <3>1, FS_Singleton, FS_Union
    <3>3. AddressPaths(o) \subseteq three
      BY DEF AddressPaths
    <3> HIDE DEF three
    <3> QED
      BY <3>2, <3>3, FS_Subset
  <2>2. /\ IsPatch(RemoveAll(AddressPaths(o)))
        /\ Range(RemoveAll(AddressPaths(o))) = {RemovePath(p) : p \in AddressPaths(o)}
    BY <2>1, RemoveAllOps
  <2>3. removeServiceFields(o) = RemoveAll(AddressPaths(o)) \o getNodePortPatch(o)
    <3> DEFINE ip == <<"spec", "clusterIP">>
               ips == <<"spec", "clusterIPs">>
               external == IF Value(o, <<"spec", "type">>) = "LoadBalancer"
                           THEN {<<"spec", "externalIPs">>} ELSE {}
               bound(f, first) == IF Found(o, f) /\ Value(o, first) # "None" THEN {f} ELSE {}
    <3>1. removeServiceFields(o) =
            RemoveAll(external \cup bound(ip, ip) \cup bound(ips, ips \o <<"0">>)) \o getNodePortPatch(o)
      BY <1>2 DEF removeServiceFields
    <3>2. external \cup bound(ip, ip) \cup bound(ips, ips \o <<"0">>) = AddressPaths(o)
      <4>1. /\ ip # ips /\ ip # <<"spec", "externalIPs">> /\ ips # <<"spec", "externalIPs">>
        BY PairsEqual
      <4>2. \A p : p \in external <=> p = <<"spec", "externalIPs">> /\ p \in AddressPaths(o)
        BY <1>2, <4>1 DEF AddressPaths
      <4>3. \A p : p \in bound(ip, ip) <=> p = ip /\ p \in AddressPaths(o)
        BY <1>2, <4>1 DEF AddressPaths, Bound
      <4>4. \A p : p \in bound(ips, ips \o <<"0">>) <=> p = ips /\ p \in AddressPaths(o)
        BY <1>2, <4>1 DEF AddressPaths, Bound
      <4>5. \A p \in AddressPaths(o) : p \in {<<"spec", "externalIPs">>, ip, ips}
        BY DEF AddressPaths
      <4> HIDE DEF external, bound, ip, ips
      <4> QED
        BY <4>2, <4>3, <4>4, <4>5
    <3> HIDE DEF external, bound
    <3> QED
      BY <3>1, <3>2
  <2>4. /\ IsPatch(removeServiceFields(o))
        /\ Range(removeServiceFields(o)) =
             {RemovePath(p) : p \in AddressPaths(o)}
             \cup {RemovePath(p) : p \in {NodePort(i) : i \in {j \in Index : Allocated(o, j)}}}
    BY <1>2, <2>2, <2>3, PortOps, JoinedPatch
  <2> QED
    BY <2>4 DEF ServiceOps
<1> QED
  BY <1>1, <1>2

(* All operations of an answer.                                             *)
AnnotationOps(k) ==
  {AddPath(AnnotationsAt \o Parts[a], k.add[a]) : a \in DOMAIN k.add}
  \cup {RemovePath(AnnotationsAt \o Parts[a]) : a \in k.remove}
StripOps(o) == {RemovePath(p) : p \in {q \in StrippedFields : Found(o, q)}}
PodOps(o) ==
  {RemovePath(<<"spec", f>>) : f \in {g \in {"nodeName", "nodeSelector", "priority"} :
                                        GK(o) = <<"", "Pod">>}}
SuspendOps(o) == IF MustWait(o) THEN {AddPath(<<"spec", "suspend">>, "true")} ELSE {}
Operations(k, o) ==
  (((((((((StripOps(o) \cup AnnotationOps(k)) \cup PodOps(o)) \cup ClaimOps(k, o))
    \cup TemplateOps(k, o)) \cup JobOps(o)) \cup SuspendOps(o)) \cup SubjectOps(o))
    \cup SecretOps(o)) \cup ImageOps(k, o)) \cup ServiceOps(o)

LEMMA TransformOps ==
  ASSUME NEW k, GoodOptions(k), NEW o
  PROVE  /\ IsPatch(getKubernetesTransforms(k, o))
         /\ Range(getKubernetesTransforms(k, o)) = Operations(k, o)
<1> DEFINE s1 == stripFields(o) \o addAnnotations(k)
           s2 == s1 \o removeAnnotations(k)
           s3 == s2 \o removePodFields(o)
           s4 == s3 \o RenamePVCs(k, o)
           s5 == s4 \o renamePVCTemplates(k, o)
           s6 == s5 \o removeJobControllerUID(o)
           s7 == s6 \o suspendStandaloneJob(o)
           s8 == s7 \o Subjects(o)
           s9 == s8 \o AccountSecrets(o)
           s10 == s9 \o UpdateImages(k, o)
           s11 == s10 \o removeServiceFields(o)
<1>0. getKubernetesTransforms(k, o) = s11
  BY DEF getKubernetesTransforms
<1> DEFINE Joins(s, S) == IsPatch(s) /\ Range(s) = S
<1>1. Joins(s1, StripOps(o) \cup {AddPath(AnnotationsAt \o Parts[a], k.add[a]) : a \in DOMAIN k.add})
  BY stripFieldsOps, addAnnotationsOps, JoinedPatch DEF StripOps
<1> HIDE DEF s1
<1>2. Joins(s2, StripOps(o) \cup AnnotationOps(k))
  BY <1>1, removeAnnotationsOps, JoinedPatch DEF AnnotationOps
<1> HIDE DEF s2
<1>3. Joins(s3, Range(s2) \cup PodOps(o))
  BY <1>2, removePodFieldsOps, JoinedPatch DEF PodOps
<1> HIDE DEF s3
<1>4. Joins(s4, Range(s3) \cup ClaimOps(k, o))
  BY <1>3, RenamePVCsOps, JoinedPatch
<1> HIDE DEF s4
<1>5. Joins(s5, Range(s4) \cup TemplateOps(k, o))
  BY <1>4, renamePVCTemplatesOps, JoinedPatch
<1> HIDE DEF s5
<1>6. Joins(s6, Range(s5) \cup JobOps(o))
  BY <1>5, removeJobControllerUIDOps, JoinedPatch
<1> HIDE DEF s6
<1>7. Joins(s7, Range(s6) \cup SuspendOps(o))
  BY <1>6, suspendStandaloneJobOps, JoinedPatch DEF SuspendOps
<1> HIDE DEF s7
<1>8. Joins(s8, Range(s7) \cup SubjectOps(o))
  BY <1>7, SubjectsOps, JoinedPatch
<1> HIDE DEF s8
<1>9. Joins(s9, Range(s8) \cup SecretOps(o))
  BY <1>8, AccountSecretsOps, JoinedPatch
<1> HIDE DEF s9
<1>10. Joins(s10, Range(s9) \cup ImageOps(k, o))
  BY <1>9, UpdateImagesOps, JoinedPatch
<1> HIDE DEF s10
<1>11. Joins(s11, Range(s10) \cup ServiceOps(o))
  BY <1>10, removeServiceFieldsOps, JoinedPatch
<1> HIDE DEF s11
<1> QED
  BY <1>0, <1>2, <1>3, <1>4, <1>5, <1>6, <1>7, <1>8, <1>9, <1>10, <1>11 DEF Operations

-----------------------------------------------------------------------------
(* Where the operations of an answer reach.                                 *)
LEMMA PrefixParts ==
  ASSUME NEW s, NEW t, Len(s) \in Nat, IsPrefix(s, t) \/ s = t
  PROVE  \A i \in 1..Len(s) : t[i] = s[i]
<1>1. CASE IsPrefix(s, t)
  <2>1. ASSUME NEW i \in 1..Len(s)
        PROVE  t[i] = s[i]
    <3>1. SubSeq(s, 1, Len(s))[i] = s[i] /\ SubSeq(t, 1, Len(s))[i] = t[i]
      OBVIOUS
    <3> QED
      BY <1>1, <3>1 DEF IsPrefix
  <2> QED
    BY <2>1
<1> QED
  BY <1>1

LEMMA PrefixByParts ==
  ASSUME NEW S, NEW s \in Seq(S), NEW t, IsPath(t), Len(s) <= Len(t),
         \A i \in 1..Len(s) : t[i] = s[i]
  PROVE  IsPrefix(s, t)
<1> DEFINE T == Range(t)
<1>1. t \in Seq(T) /\ Len(s) \in Nat /\ Len(t) \in Nat
  BY LenProperties DEF IsPath
<1> HIDE DEF T
<1>2. \A i \in 1..Len(s) : t[i] \in T
  BY <1>1, ElementOfSeq
<1>3. /\ SubSeq(t, 1, Len(s)) \in Seq(T) /\ Len(SubSeq(t, 1, Len(s))) = Len(s)
      /\ \A i \in 1..Len(s) : SubSeq(t, 1, Len(s))[i] = t[i]
  BY <1>1, <1>2, SubSeqProperties
<1>4. SubSeq(s, 1, Len(s)) = s
  BY SubSeqFull
<1> DEFINE u == SubSeq(t, 1, Len(s))
           U == S \cup T
<1>5. u = s
  <2>1. u \in Seq(U) /\ s \in Seq(U)
    BY <1>3, SeqMonotonic
  <2> HIDE DEF u, U
  <2>2. Len(u) = Len(s) /\ \A i \in 1..Len(s) : u[i] = s[i]
    BY <1>3 DEF u
  <2> QED
    BY <2>1, <2>2, SeqEqual
<1> QED
  BY <1>1, <1>4, <1>5 DEF IsPrefix

LEMMA PrefixOfTwo ==
  ASSUME NEW a, NEW b, NEW t, IsPath(t), Len(t) \in Nat, Len(t) >= 2, t[1] = a, t[2] = b
  PROVE  IsPrefix(<<a, b>>, t)
<1> DEFINE s == <<a, b>>
<1>1. s \in Seq({a, b}) /\ Len(s) = 2 /\ s[1] = a /\ s[2] = b
  OBVIOUS
<1> HIDE DEF s
<1>2. \A i \in 1..2 : i = 1 \/ i = 2
  OBVIOUS
<1>3. \A i \in 1..Len(s) : t[i] = s[i]
  BY <1>1, <1>2
<1>4. IsPrefix(s, t)
  BY <1>1, <1>3, PrefixByParts
<1> QED
  BY <1>4 DEF s

(* A nonempty list of parts behind the annotations.                         *)
Annotation(q) ==
  Len(q) \in Nat /\ Len(q) >= 3 /\ q[1] = "metadata" /\ q[2] = "annotations"

LEMMA BehindAnnotations ==
  ASSUME NEW S, NEW s \in Seq(S), s # <<>>
  PROVE  /\ Annotation(AnnotationsAt \o s)
         /\ Len(AnnotationsAt \o s) = 2 + Len(s)
         /\ (AnnotationsAt \o s)[3] = s[1]
<1> DEFINE T == S \cup {"metadata", "annotations"}
<1>1. s \in Seq(T) /\ AnnotationsAt \in Seq(T) /\ Len(s) \in Nat \ {0}
  BY SeqMonotonic, EmptySeq DEF AnnotationsAt
<1>2. /\ Len(AnnotationsAt) = 2 /\ AnnotationsAt[1] = "metadata" /\ AnnotationsAt[2] = "annotations"
  BY DEF AnnotationsAt
<1> HIDE DEF T
<1>3. /\ Len(AnnotationsAt \o s) = Len(AnnotationsAt) + Len(s)
      /\ \A i \in 1..Len(AnnotationsAt) + Len(s) :
           (AnnotationsAt \o s)[i] = IF i <= Len(AnnotationsAt) THEN AnnotationsAt[i]
                                     ELSE s[i - Len(AnnotationsAt)]
  BY <1>1, ConcatProperties
<1>4. 1 \in 1..2 + Len(s) /\ 2 \in 1..2 + Len(s) /\ 3 \in 1..2 + Len(s) /\ 3 - 2 = 1
  BY <1>1
<1>5. /\ (AnnotationsAt \o s)[1] = AnnotationsAt[1]
      /\ (AnnotationsAt \o s)[2] = AnnotationsAt[2]
      /\ (AnnotationsAt \o s)[3] = s[1]
  BY <1>2, <1>3, <1>4
<1>6. 2 + Len(s) \in Nat /\ 2 + Len(s) >= 3
  BY <1>1
<1> QED
  BY <1>2, <1>3, <1>5, <1>6 DEF Annotation

LEMMA PartsPath ==
  ASSUME NEW a \in DOMAIN Parts
  PROVE  Annotation(AnnotationsAt \o Parts[a]) /\ (AnnotationsAt \o Parts[a])[3] = Parts[a][1]
<1>1. Parts[a] \in Seq(Range(Parts[a])) /\ Parts[a] # <<>>
  BY RequestsAssumption DEF IsPath
<1> QED
  BY <1>1, BehindAnnotations

LEMMA KeyPath ==
  ASSUME NEW c
  PROVE  /\ Annotation(AnnotationsAt \o <<c>>) /\ Len(AnnotationsAt \o <<c>>) = 3
         /\ (AnnotationsAt \o <<c>>)[3] = c
BY DEF AnnotationsAt, Annotation

(* The places that additions and removals can change in an object of a kind. *)
IdentityNames == {"uid", "selfLink", "resourceVersion", "creationTimestamp", "generation",
                  "managedFields", "annotations", "labels"}
SpecReach(gk, f) ==
  \/ gk = <<"", "Pod">> /\ f \in {"nodeName", "nodeSelector", "priority"}
  \/ gk = <<"batch", "Job">> /\ f \in {"selector", "suspend"}
  \/ gk = <<"", "Service">> /\ f \in {"externalIPs", "clusterIP", "clusterIPs", "ports"}
Reach(gk, p) ==
  \/ p[1] = "metadata" /\ p[2] \in IdentityNames
  \/ p[1] \in {"status", "subjects", "secrets"}
  \/ p[1] = "spec" /\ SpecReach(gk, p[2])
  \/ gk = <<"batch", "Job">> /\ p[1] = "spec" /\ p[2] = "template" /\ p[3] = "metadata"
Fits(gk, q) == Len(q) \in Nat /\ \A p : IsPrefix(q, p) \/ q = p => Reach(gk, p)

LEMMA MetadataFits ==
  ASSUME NEW gk, NEW q, Len(q) \in Nat, Len(q) >= 2, q[1] = "metadata", q[2] \in IdentityNames
  PROVE  Fits(gk, q)
<1>1. 1 \in 1..Len(q) /\ 2 \in 1..Len(q)
  OBVIOUS
<1>2. ASSUME NEW p, IsPrefix(q, p) \/ q = p
      PROVE  Reach(gk, p)
  <2>1. p[1] = q[1] /\ p[2] = q[2]
    BY <1>1, <1>2, PrefixParts
  <2> QED
    BY <2>1 DEF Reach
<1> QED
  BY <1>2 DEF Fits

LEMMA TopFits ==
  ASSUME NEW gk, NEW q, Len(q) \in Nat, Len(q) >= 1, q[1] \in {"status", "subjects", "secrets"}
  PROVE  Fits(gk, q)
<1>1. 1 \in 1..Len(q)
  OBVIOUS
<1>2. ASSUME NEW p, IsPrefix(q, p) \/ q = p
      PROVE  Reach(gk, p)
  <2>1. p[1] = q[1]
    BY <1>1, <1>2, PrefixParts
  <2> QED
    BY <2>1 DEF Reach
<1> QED
  BY <1>2 DEF Fits

LEMMA SpecFits ==
  ASSUME NEW gk, NEW q, Len(q) \in Nat, Len(q) >= 2, q[1] = "spec", SpecReach(gk, q[2])
  PROVE  Fits(gk, q)
<1>1. 1 \in 1..Len(q) /\ 2 \in 1..Len(q)
  OBVIOUS
<1>2. ASSUME NEW p, IsPrefix(q, p) \/ q = p
      PROVE  Reach(gk, p)
  <2>1. p[1] = q[1] /\ p[2] = q[2]
    BY <1>1, <1>2, PrefixParts
  <2> QED
    BY <2>1 DEF Reach
<1> QED
  BY <1>2 DEF Fits

LEMMA StrippedFit ==
  ASSUME NEW gk, NEW q \in StrippedFields
  PROVE  Fits(gk, q)
<1>1. CASE \E f \in {"uid", "selfLink", "resourceVersion", "creationTimestamp",
                     "generation", "managedFields"} : q = <<"metadata", f>>
  <2>1. Len(q) = 2 /\ q[1] = "metadata" /\ q[2] \in IdentityNames
    BY <1>1 DEF IdentityNames
  <2> QED
    BY <2>1, MetadataFits
<1>2. CASE \E c \in ControllerKeys \cup {AppliedKey} : q = AnnotationsAt \o <<c>>
  <2>1. Annotation(q)
    BY <1>2, KeyPath
  <2> QED
    BY <2>1, MetadataFits DEF Annotation, IdentityNames
<1>3. CASE \E c \in ControllerKeys : q = <<"metadata", "labels", c>>
  <2>1. Len(q) = 3 /\ q[1] = "metadata" /\ q[2] = "labels"
    BY <1>3
  <2> QED
    BY <2>1, MetadataFits DEF IdentityNames
<1>4. CASE q = <<"status">>
  <2>1. Len(q) = 1 /\ q[1] = "status"
    BY <1>4
  <2> QED
    BY <2>1, TopFits
<1> QED
  BY <1>1, <1>2, <1>3, <1>4 DEF StrippedFields

LEMMA JobPathsFit ==
  ASSUME NEW q, NEW o, q \in SelectorPaths(o) \cup JobLabelPaths
  PROVE  Fits(<<"batch", "Job">>, q)
<1>1. CASE q \in JobLabelPaths
  <2>1. Len(q) = 5 /\ q[1] = "spec" /\ q[2] = "template" /\ q[3] = "metadata"
    <3>1. PICK c : q = <<"spec", "template", "metadata", "labels">> \o <<c>>
      BY <1>1 DEF JobLabelPaths
    <3> QED
      BY <3>1
  <2>2. 1 \in 1..Len(q) /\ 2 \in 1..Len(q) /\ 3 \in 1..Len(q)
    BY <2>1
  <2>3. ASSUME NEW p, IsPrefix(q, p) \/ q = p
        PROVE  Reach(<<"batch", "Job">>, p)
    <3>1. Len(q) \in Nat
      BY <2>1
    <3>2. p[1] = q[1] /\ p[2] = q[2] /\ p[3] = q[3]
      BY <2>2, <2>3, <3>1, PrefixParts
    <3> QED
      BY <2>1, <3>2 DEF Reach
  <2> QED
    BY <2>1, <2>3 DEF Fits
<1>2. CASE q \in MatchPaths
  <2>1. Len(q) = 4 /\ q[1] = "spec" /\ q[2] = "selector"
    <3>1. PICK c : q = <<"spec", "selector", "matchLabels">> \o <<c>>
      BY <1>2 DEF MatchPaths
    <3> QED
      BY <3>1
  <2>2. SpecReach(<<"batch", "Job">>, q[2])
    BY <2>1 DEF SpecReach
  <2> QED
    BY <2>1, <2>2, SpecFits
<1>3. CASE q = <<"spec", "selector">>
  <2>1. Len(q) = 2 /\ q[1] = "spec" /\ q[2] = "selector"
    BY <1>3
  <2>2. SpecReach(<<"batch", "Job">>, q[2])
    BY <2>1 DEF SpecReach
  <2> QED
    BY <2>1, <2>2, SpecFits
<1> QED
  BY <1>1, <1>2, <1>3 DEF SelectorPaths

LEMMA TupleParts ==
  /\ \A a : Len(<<a>>) = 1 /\ <<a>>[1] = a
  /\ \A a, b : Len(<<a, b>>) = 2 /\ <<a, b>>[1] = a /\ <<a, b>>[2] = b
  /\ \A a, b, c : Len(<<a, b, c>>) = 3 /\ <<a, b, c>>[1] = a /\ <<a, b, c>>[2] = b
  /\ \A i : Len(NodePort(i)) = 4 /\ NodePort(i)[1] = "spec" /\ NodePort(i)[2] = "ports"
BY DEF NodePort

LEMMA OperationParts ==
  /\ \A p : RemovePath(p).op = "remove" /\ RemovePath(p).path = p
  /\ \A p, v : AddPath(p, v).op = "add" /\ AddPath(p, v).path = p /\ AddPath(p, v).value = v
  /\ \A p, v : /\ ReplacePath(p, v).op = "replace" /\ ReplacePath(p, v).path = p
               /\ ReplacePath(p, v).value = v
BY DEF RemovePath, AddPath, ReplacePath

(* The paths of additions and removals have their parts in these places.    *)
Moves(k, o) == {x \in Operations(k, o) : x.op \in {"add", "remove"}}

LEMMA PathsReach ==
  ASSUME NEW k, GoodOptions(k), NEW o, NEW x \in Moves(k, o)
  PROVE  \A p : Touches(x, p) => Reach(GK(o), p)
<1>1. CASE x \in StripOps(o)
  <2>1. x.path \in StrippedFields
    BY <1>1, OperationParts DEF StripOps
  <2> QED
    BY <2>1, StrippedFit DEF Fits, Touches
<1>2. CASE x \in AnnotationOps(k)
  <2>1. PICK a \in DOMAIN Parts : x.path = AnnotationsAt \o Parts[a]
    <3>1. PICK a : a \in DOMAIN k.add \cup k.remove /\ x.path = AnnotationsAt \o Parts[a]
      <4>1. CASE \E a \in DOMAIN k.add : x = AddPath(AnnotationsAt \o Parts[a], k.add[a])
        <5>1. PICK a \in DOMAIN k.add : x = AddPath(AnnotationsAt \o Parts[a], k.add[a])
          BY <4>1
        <5>2. x.path = AnnotationsAt \o Parts[a]
          BY <5>1, OperationParts
        <5> QED
          BY <5>2
      <4>2. CASE \E a \in k.remove : x = RemovePath(AnnotationsAt \o Parts[a])
        <5>1. PICK a \in k.remove : x = RemovePath(AnnotationsAt \o Parts[a])
          BY <4>2
        <5>2. x.path = AnnotationsAt \o Parts[a]
          BY <5>1, OperationParts
        <5> QED
          BY <5>2
      <4> QED
        BY <1>2, <4>1, <4>2 DEF AnnotationOps
    <3> QED
      BY <3>1 DEF GoodOptions
  <2>2. Annotation(x.path)
    BY <2>1, PartsPath
  <2>3. Fits(GK(o), x.path)
    BY <2>2, MetadataFits DEF Annotation, IdentityNames
  <2> QED
    BY <2>3 DEF Fits, Touches
<1>3. CASE x \in PodOps(o)
  <2>1. PICK f \in {"nodeName", "nodeSelector", "priority"} : GK(o) = <<"", "Pod">> /\ x.path = <<"spec", f>>
    BY <1>3, OperationParts DEF PodOps
  <2>2. Len(x.path) = 2 /\ x.path[1] = "spec" /\ x.path[2] = f
    <3>1. x.path = <<"spec", f>>
      BY <2>1
    <3> QED
      BY <3>1
  <2>3. SpecReach(GK(o), x.path[2])
    BY <2>1, <2>2 DEF SpecReach
  <2>4. Fits(GK(o), x.path)
    BY <2>2, <2>3, SpecFits
  <2> QED
    BY <2>4 DEF Fits, Touches
<1>4. CASE x \in JobOps(o)
  <2>1. x.path \in SelectorPaths(o) \cup JobLabelPaths /\ GK(o) = <<"batch", "Job">>
    BY <1>4, OperationParts DEF JobOps
  <2> QED
    BY <2>1, JobPathsFit DEF Fits, Touches
<1>5. CASE x \in SuspendOps(o)
  <2>1. GK(o) = <<"batch", "Job">> /\ x.path = <<"spec", "suspend">>
    BY <1>5, OperationParts DEF SuspendOps, MustWait
  <2>2. Len(x.path) = 2 /\ x.path[1] = "spec" /\ x.path[2] = "suspend"
    BY <2>1
  <2>3. SpecReach(GK(o), x.path[2])
    BY <2>1, <2>2 DEF SpecReach
  <2>4. Fits(GK(o), x.path)
    BY <2>2, <2>3, SpecFits
  <2> QED
    BY <2>4 DEF Fits, Touches
<1>6. CASE x \in SubjectOps(o)
  <2>1. PICK i \in Index : x.path = <<"subjects", i, "namespace">>
    <3>1. PICK i \in Index : x = RemovePath(<<"subjects", i, "namespace">>)
      BY <1>6 DEF SubjectOps
    <3> QED
      BY <3>1, OperationParts
  <2>2. Len(x.path) = 3 /\ x.path[1] = "subjects"
    BY <2>1
  <2>3. Fits(GK(o), x.path)
    BY <2>2, TopFits
  <2> QED
    BY <2>3 DEF Fits, Touches
<1>7. CASE x \in SecretOps(o)
  <2>1. x.path = <<"secrets">>
    BY <1>7, OperationParts DEF SecretOps
  <2>2. Len(x.path) = 1 /\ x.path[1] = "secrets"
    BY <2>1
  <2>3. Fits(GK(o), x.path)
    BY <2>2, TopFits
  <2> QED
    BY <2>3 DEF Fits, Touches
<1>8. CASE x \in ServiceOps(o)
  <2>1. /\ GK(o) = <<"", "Service">> /\ Len(x.path) \in Nat /\ Len(x.path) >= 2
        /\ x.path[1] = "spec" /\ x.path[2] \in {"externalIPs", "clusterIP", "clusterIPs", "ports"}
    <3>1. CASE x \in {RemovePath(p) : p \in AddressPaths(o)}
      <4>1. GK(o) = <<"", "Service">> /\ x.path \in
               {<<"spec", "externalIPs">>, <<"spec", "clusterIP">>, <<"spec", "clusterIPs">>}
        BY <3>1, OperationParts DEF AddressPaths
      <4>2. Len(x.path) = 2 /\ x.path[1] = "spec" /\ x.path[2] \in {"externalIPs", "clusterIP", "clusterIPs"}
        <5>1. PICK f \in {"externalIPs", "clusterIP", "clusterIPs"} : x.path = <<"spec", f>>
          BY <4>1
        <5> QED
          BY <5>1
      <4>3. Len(x.path) \in Nat /\ Len(x.path) >= 2
        BY <4>2
      <4> QED
        BY <4>1, <4>2, <4>3
    <3>2. CASE x \in {RemovePath(p) : p \in {NodePort(i) : i \in {j \in Index : Allocated(o, j)}}}
      <4>1. PICK i \in Index : Allocated(o, i) /\ x.path = NodePort(i)
        BY <3>2, OperationParts
      <4>2. Len(x.path) = 4 /\ x.path[1] = "spec" /\ x.path[2] = "ports"
        BY <4>1 DEF NodePort
      <4>3. GK(o) = <<"", "Service">>
        BY <4>1 DEF Allocated
      <4>4. Len(x.path) \in Nat /\ Len(x.path) >= 2
        BY <4>2
      <4> QED
        BY <4>2, <4>3, <4>4
    <3> QED
      BY <1>8, <3>1, <3>2 DEF ServiceOps
  <2>2. SpecReach(GK(o), x.path[2])
    BY <2>1 DEF SpecReach
  <2>3. Fits(GK(o), x.path)
    BY <2>1, <2>2, SpecFits
  <2> QED
    BY <2>3 DEF Fits, Touches
<1>9. x \notin ClaimOps(k, o) /\ x \notin TemplateOps(k, o) /\ x \notin ImageOps(k, o)
  BY DEF ClaimOps, TemplateOps, ImageOps, ReplacePath, Moves
<1> QED
  BY <1>1, <1>2, <1>3, <1>4, <1>5, <1>6, <1>7, <1>8, <1>9 DEF Moves, Operations

(* The paths of replacements are in the pod specification and in the claim  *)
(* templates, out of reach of the other operations.                         *)
InPodSpec(gk, q, f) ==
  /\ q[1] = "spec"
  /\ IF gk = <<"", "Pod">> THEN q[2] = f
     ELSE IF gk = <<"batch", "CronJob">> THEN q[2] = "jobTemplate"
     ELSE q[2] = "template" /\ q[3] = "spec"

LEMMA PodPaths ==
  ASSUME NEW gk, NEW c, NEW i
  PROVE  /\ InPodSpec(gk, Claim(PodSpec(gk), i), "volumes")
         /\ InPodSpec(gk, PodSpec(gk) \o <<c, i, "image">>, c)
<1>1. CASE gk = <<"", "Pod">>
  <2> DEFINE q == <<"spec">> \o <<"volumes", i, "persistentVolumeClaim", "claimName">>
             r == <<"spec">> \o <<c, i, "image">>
  <2>1. q[1] = "spec" /\ q[2] = "volumes" /\ r[1] = "spec" /\ r[2] = c
    OBVIOUS
  <2>2. PodSpec(gk) = <<"spec">>
    BY <1>1 DEF PodSpec
  <2>3. Claim(PodSpec(gk), i) = q /\ PodSpec(gk) \o <<c, i, "image">> = r
    BY <2>2 DEF Claim
  <2> HIDE DEF q, r
  <2> QED
    BY <1>1, <2>1, <2>3 DEF InPodSpec
<1>2. CASE gk = <<"batch", "CronJob">>
  <2> DEFINE a == <<"spec", "jobTemplate">> \o InTemplate
             q == a \o <<"volumes", i, "persistentVolumeClaim", "claimName">>
             r == a \o <<c, i, "image">>
  <2>1. q[1] = "spec" /\ q[2] = "jobTemplate" /\ r[1] = "spec" /\ r[2] = "jobTemplate"
    BY DEF InTemplate
  <2>2. gk # <<"", "Pod">>
    BY <1>2, KindsApart
  <2>3. PodSpec(gk) = a
    BY <1>2, <2>2 DEF PodSpec
  <2> HIDE DEF a
  <2>4. Claim(PodSpec(gk), i) = q /\ PodSpec(gk) \o <<c, i, "image">> = r
    BY <2>3 DEF Claim
  <2> HIDE DEF q, r
  <2> QED
    BY <1>2, <2>1, <2>2, <2>4 DEF InPodSpec
<1>3. CASE gk # <<"", "Pod">> /\ gk # <<"batch", "CronJob">>
  <2> DEFINE q == InTemplate \o <<"volumes", i, "persistentVolumeClaim", "claimName">>
             r == InTemplate \o <<c, i, "image">>
  <2>1. /\ q[1] = "spec" /\ q[2] = "template" /\ q[3] = "spec"
        /\ r[1] = "spec" /\ r[2] = "template" /\ r[3] = "spec"
    BY DEF InTemplate
  <2>2. PodSpec(gk) = InTemplate
    BY <1>3 DEF PodSpec
  <2>3. Claim(PodSpec(gk), i) = q /\ PodSpec(gk) \o <<c, i, "image">> = r
    BY <2>2 DEF Claim
  <2> HIDE DEF q, r
  <2> QED
    BY <1>3, <2>1, <2>3 DEF InPodSpec
<1> QED
  BY <1>1, <1>2, <1>3

LEMMA OutOfReach ==
  ASSUME NEW gk, NEW q, q[1] = "spec",
         q[2] \in {"volumes", "containers", "initContainers", "volumeClaimTemplates",
                   "template", "jobTemplate"},
         q[2] = "template" => q[3] = "spec"
  PROVE  ~Reach(gk, q)
BY DEF Reach, SpecReach

(* What replaces is a rename of a claim, of a claim template or of an image. *)
LEMMA ReplacementKinds ==
  ASSUME NEW k, GoodOptions(k), NEW o, NEW x \in Operations(k, o), x.op \notin {"add", "remove"}
  PROVE  x \in ClaimOps(k, o) \/ x \in TemplateOps(k, o) \/ x \in ImageOps(k, o)
<1>1. /\ \A y \in StripOps(o) \cup AnnotationOps(k) \cup PodOps(o) : y.op \in {"add", "remove"}
      /\ \A y \in JobOps(o) \cup SuspendOps(o) \cup SubjectOps(o) : y.op \in {"add", "remove"}
      /\ \A y \in SecretOps(o) \cup ServiceOps(o) : y.op \in {"add", "remove"}
  <2>1. /\ \A y \in StripOps(o) : \E p : y = RemovePath(p)
        /\ \A y \in JobOps(o) : \E p : y = RemovePath(p)
        /\ \A y \in SecretOps(o) : \E p : y = RemovePath(p)
    BY DEF StripOps, JobOps, SecretOps
  <2>2. \A y \in ServiceOps(o) : \E p : y = RemovePath(p)
    BY DEF ServiceOps
  <2>3. \A y \in PodOps(o) : \E p : y = RemovePath(p)
    BY DEF PodOps
  <2>4. \A y \in SubjectOps(o) : \E p : y = RemovePath(p)
    BY DEF SubjectOps
  <2>5. \A y \in SuspendOps(o) : y.op = "add"
    BY OperationParts DEF SuspendOps
  <2>6. \A y : (\E p : y = RemovePath(p)) => y.op = "remove"
    BY OperationParts
  <2>7. \A y \in AnnotationOps(k) : y.op \in {"add", "remove"}
    BY OperationParts DEF AnnotationOps
  <2> QED
    BY <2>1, <2>2, <2>3, <2>4, <2>5, <2>6, <2>7
<1> QED
  BY <1>1 DEF Operations

LEMMA Replacements ==
  ASSUME NEW k, GoodOptions(k), NEW o, NEW x \in Operations(k, o), x.op \notin {"add", "remove"}
  PROVE  /\ x.path \in DOMAIN o.fields
         /\ x.path[1] = "spec" /\ ~Reach(GK(o), x.path)
         /\ x.path[2] \in {"volumes", "containers", "initContainers", "volumeClaimTemplates",
                           "template", "jobTemplate"}
<1>1. \A p : Value(o, p) \in DOMAIN k.renames => p \in DOMAIN o.fields
  BY DEF Value, GoodOptions
<1>2. CASE x \in ClaimOps(k, o)
  <2>1. PICK i \in Index : /\ Value(o, Claim(PodSpec(GK(o)), i)) \in DOMAIN k.renames
                           /\ x.path = Claim(PodSpec(GK(o)), i)
    BY <1>2, OperationParts DEF ClaimOps
  <2>2. x.path \in DOMAIN o.fields
    BY <1>1, <2>1
  <2>3. InPodSpec(GK(o), x.path, "volumes")
    BY <2>1, PodPaths
  <2>4. /\ x.path[1] = "spec" /\ x.path[2] \in {"volumes", "template", "jobTemplate"}
        /\ x.path[2] = "template" => x.path[3] = "spec"
    BY <2>3 DEF InPodSpec
  <2> QED
    BY <2>2, <2>4, OutOfReach
<1>3. CASE x \in TemplateOps(k, o)
  <2>1. PICK i \in Index : Value(o, Template(i)) \in DOMAIN k.renames /\ x.path = Template(i)
    BY <1>3, OperationParts DEF TemplateOps
  <2>2. x.path \in DOMAIN o.fields
    BY <1>1, <2>1
  <2>3. x.path[1] = "spec" /\ x.path[2] = "volumeClaimTemplates"
    BY <2>1 DEF Template
  <2> QED
    BY <2>2, <2>3, OutOfReach
<1>4. CASE x \in ImageOps(k, o)
  <2>1. x.path \in ImagePaths(o)
    BY <1>4, OperationParts DEF ImageOps
  <2>2. PICK c \in {"containers", "initContainers"}, i \in Index :
               x.path = PodSpec(GK(o)) \o <<c, i, "image">>
    BY <2>1 DEF ImagePaths
  <2>3. InPodSpec(GK(o), x.path, c)
    BY <2>2, PodPaths
  <2>4. /\ x.path[1] = "spec" /\ x.path[2] \in {"containers", "initContainers", "template", "jobTemplate"}
        /\ x.path[2] = "template" => x.path[3] = "spec"
    BY <2>3 DEF InPodSpec
  <2>5. x.path \in DOMAIN o.fields
    BY <2>1 DEF ImagePaths
  <2> QED
    BY <2>4, <2>5, OutOfReach
<1> QED
  BY <1>2, <1>3, <1>4, ReplacementKinds

(* The operations at the positions of an answer.                            *)
LEMMA TransformPositions ==
  ASSUME NEW k, GoodOptions(k), NEW o
  PROVE  LET t == getKubernetesTransforms(k, o)
         IN  /\ Len(t) \in Nat
             /\ \A i \in 1..Len(t) : t[i] \in Operations(k, o)
             /\ \A x \in Operations(k, o) : \E i \in 1..Len(t) : t[i] = x
<1> DEFINE t == getKubernetesTransforms(k, o)
<1>1. IsPatch(t) /\ Range(t) = Operations(k, o)
  BY TransformOps
<1> HIDE DEF t
<1>2. Len(t) \in Nat /\ Range(t) = {t[i] : i \in 1..Len(t)}
  BY <1>1, PatchValues
<1>3. /\ \A i \in 1..Len(t) : t[i] \in Operations(k, o)
      /\ \A x \in Operations(k, o) : \E i \in 1..Len(t) : t[i] = x
  BY <1>1, <1>2
<1> QED
  BY <1>2, <1>3 DEF t

(* What an answer adds: annotations of the user, and the suspension of a    *)
(* Job.                                                                      *)
SuspendAt == <<"spec", "suspend">>

LEMMA Additions ==
  ASSUME NEW k, GoodOptions(k), NEW o, NEW x \in Operations(k, o), x.op = "add"
  PROVE  \/ \E a \in DOMAIN k.add : x.path = AnnotationsAt \o Parts[a]
         \/ x.path = SuspendAt
<1>1. x \in Moves(k, o)
  BY DEF Moves
<1>2. CASE x \in AnnotationOps(k)
  <2>1. CASE \E a \in DOMAIN k.add : x = AddPath(AnnotationsAt \o Parts[a], k.add[a])
    <3>1. PICK a \in DOMAIN k.add : x = AddPath(AnnotationsAt \o Parts[a], k.add[a])
      BY <2>1
    <3> QED
      BY <3>1, OperationParts
  <2>2. CASE \E a \in k.remove : x = RemovePath(AnnotationsAt \o Parts[a])
    <3>1. PICK a \in k.remove : x = RemovePath(AnnotationsAt \o Parts[a])
      BY <2>2
    <3> QED
      BY <3>1, OperationParts
  <2> QED
    BY <1>2, <2>1, <2>2 DEF AnnotationOps
<1>3. CASE x \in SuspendOps(o)
  BY <1>3, OperationParts DEF SuspendOps, SuspendAt
<1>4. x \notin AnnotationOps(k) /\ x \notin SuspendOps(o) => x.op # "add"
  <2>1. /\ \A y \in StripOps(o) : \E p : y = RemovePath(p)
        /\ \A y \in JobOps(o) : \E p : y = RemovePath(p)
        /\ \A y \in SecretOps(o) : \E p : y = RemovePath(p)
    BY DEF StripOps, JobOps, SecretOps
  <2>2. \A y \in ServiceOps(o) : \E p : y = RemovePath(p)
    BY DEF ServiceOps
  <2>3. \A y \in PodOps(o) : \E p : y = RemovePath(p)
    BY DEF PodOps
  <2>4. \A y \in SubjectOps(o) : \E p : y = RemovePath(p)
    BY DEF SubjectOps
  <2>5. \A y \in ClaimOps(k, o) \cup TemplateOps(k, o) \cup ImageOps(k, o) : \E p, v : y = ReplacePath(p, v)
    BY DEF ClaimOps, TemplateOps, ImageOps
  <2>6. /\ \A y : (\E p : y = RemovePath(p)) => y.op = "remove"
        /\ \A y : (\E p, v : y = ReplacePath(p, v)) => y.op = "replace"
    BY OperationParts
  <2> QED
    BY <2>1, <2>2, <2>3, <2>4, <2>5, <2>6 DEF Operations
<1> QED
  BY <1>2, <1>3, <1>4

(* An answer can be carried out, unless an added key is nested in another.  *)
LEMMA TransformsApply ==
  ASSUME NEW k, GoodOptions(k), NEW o, WellFormed(o), ~Nested(k, o)
  PROVE  Apply(o, getKubernetesTransforms(k, o)).ok
<1> DEFINE t == getKubernetesTransforms(k, o)
<1>1. /\ Len(t) \in Nat
      /\ \A i \in 1..Len(t) : t[i] \in Operations(k, o)
  BY TransformPositions
<1> HIDE DEF t
<1>2. ASSUME NEW i \in 1..Len(t), t[i].op \notin {"add", "remove"}
      PROVE  /\ t[i].path \in DOMAIN o.fields
             /\ \A j \in 1..Len(t) : t[j].op \in {"add", "remove"} => ~Touches(t[j], t[i].path)
  <2>1. t[i].path \in DOMAIN o.fields /\ ~Reach(GK(o), t[i].path)
    BY <1>1, <1>2, Replacements
  <2>2. ASSUME NEW j \in 1..Len(t), t[j].op \in {"add", "remove"}
        PROVE  ~Touches(t[j], t[i].path)
    <3>1. t[j] \in Moves(k, o)
      BY <1>1, <2>2 DEF Moves
    <3> QED
      BY <2>1, <3>1, PathsReach
  <2> QED
    BY <2>1, <2>2
<1>3. SuspendAt[1] = "spec" /\ Len(SuspendAt) = 2 /\ SuspendAt = <<"spec", "suspend">>
  BY DEF SuspendAt
<1>4. ASSUME NEW p, p \in DOMAIN o.fields, IsStrictPrefix(p, SuspendAt)
      PROVE  FALSE
  <2>1. p \in Seq(Range(p)) /\ p # <<>> /\ p # <<"spec">>
    BY <1>4 DEF WellFormed, IsPath
  <2>2. Len(p) \in Nat /\ Len(p) <= 2 /\ p # SuspendAt
    BY <1>3, <1>4, <2>1 DEF IsStrictPrefix, IsPrefix
  <2>3. \A j \in 1..Len(p) : SuspendAt[j] = p[j]
    BY <1>4, <2>2, PrefixParts DEF IsStrictPrefix
  <2>4. CASE Len(p) = 0
    BY <2>1, <2>4
  <2>5. CASE Len(p) = 1
    <3>1. p[1] = "spec"
      BY <1>3, <2>3, <2>5
    <3> QED
      BY <2>1, <2>5, <3>1
  <2>6. CASE Len(p) = 2
    <3>1. p[1] = "spec" /\ p[2] = "suspend"
      BY <1>3, <2>3, <2>6
    <3> QED
      BY <1>3, <2>1, <2>2, <2>6, <3>1
  <2> QED
    <3>1. \A n \in Nat : n <= 2 => n = 0 \/ n = 1 \/ n = 2
      OBVIOUS
    <3>2. Len(p) = 0 \/ Len(p) = 1 \/ Len(p) = 2
      BY <2>2, <3>1
    <3> QED
      BY <2>4, <2>5, <2>6, <3>2
<1>5. ASSUME NEW a \in DOMAIN Parts
      PROVE  /\ ~IsPrefix(AnnotationsAt \o Parts[a], SuspendAt)
             /\ ~IsPrefix(SuspendAt, AnnotationsAt \o Parts[a])
  <2> DEFINE q == AnnotationsAt \o Parts[a]
  <2>1. Annotation(q)
    BY PartsPath
  <2> HIDE DEF q
  <2>2. Len(q) \in Nat /\ Len(q) >= 3 /\ q[1] = "metadata"
    BY <2>1 DEF Annotation
  <2>3. ~IsPrefix(q, SuspendAt)
    BY <1>3, <2>2 DEF IsPrefix
  <2>4. ASSUME IsPrefix(SuspendAt, q) PROVE FALSE
    <3>1. Len(SuspendAt) \in Nat /\ 1 \in 1..Len(SuspendAt)
      BY <1>3
    <3>2. q[1] = SuspendAt[1]
      BY <2>4, <3>1, PrefixParts
    <3> QED
      BY <1>3, <2>2, <3>2
  <2> QED
    BY <2>3, <2>4 DEF q
<1>6. DOMAIN k.add \subseteq DOMAIN Parts
  BY DEF GoodOptions
<1>7. ASSUME NEW i \in 1..Len(t), t[i].op = "add"
      PROVE  /\ ~BehindLeaf(o.fields, t[i].path)
             /\ \A j \in 1..Len(t) : t[j].op = "add" => ~IsStrictPrefix(t[j].path, t[i].path)
  <2>1. \/ \E a \in DOMAIN k.add : t[i].path = AnnotationsAt \o Parts[a]
        \/ t[i].path = SuspendAt
    BY <1>1, <1>7, Additions
  <2>2. ~BehindLeaf(o.fields, t[i].path)
    <3>1. CASE t[i].path = SuspendAt
      BY <1>4, <3>1 DEF BehindLeaf
    <3>2. CASE \E a \in DOMAIN k.add : t[i].path = AnnotationsAt \o Parts[a]
      BY <3>2 DEF Nested
    <3> QED
      BY <2>1, <3>1, <3>2
  <2>3. ASSUME NEW j \in 1..Len(t), t[j].op = "add"
        PROVE  ~IsStrictPrefix(t[j].path, t[i].path)
    <3>1. \/ \E a \in DOMAIN k.add : t[j].path = AnnotationsAt \o Parts[a]
          \/ t[j].path = SuspendAt
      BY <1>1, <2>3, Additions
    <3>2. CASE t[i].path = SuspendAt /\ t[j].path = SuspendAt
      BY <3>2 DEF IsStrictPrefix
    <3>3. CASE t[i].path = SuspendAt /\ t[j].path # SuspendAt
      BY <1>5, <1>6, <3>1, <3>3 DEF IsStrictPrefix
    <3>4. CASE t[i].path # SuspendAt /\ t[j].path = SuspendAt
      BY <1>5, <1>6, <2>1, <3>4 DEF IsStrictPrefix
    <3>5. CASE t[i].path # SuspendAt /\ t[j].path # SuspendAt
      BY <2>1, <3>1, <3>5 DEF Nested
    <3> QED
      BY <3>2, <3>3, <3>4, <3>5
  <2> QED
    BY <2>2, <2>3
<1>8. Replaceables(o.fields, t) /\ Addables(o.fields, t)
  BY <1>2, <1>7 DEF Replaceables, Addables
<1>9. Apply(o, t).ok
  BY <1>1, <1>8, Accepted
<1> QED
  BY <1>9 DEF t

(* What no operation of an answer touches stays.                            *)
LEMMA OthersStay ==
  ASSUME NEW k, GoodOptions(k), NEW o, NEW p,
         \A x \in Operations(k, o) : ~Touches(x, p)
  PROVE  Stays(o.fields, Apply(o, getKubernetesTransforms(k, o)).fields, p)
<1> DEFINE t == getKubernetesTransforms(k, o)
<1>1. /\ Len(t) \in Nat
      /\ \A i \in 1..Len(t) : t[i] \in Operations(k, o)
  BY TransformPositions
<1> HIDE DEF t
<1>2. Stays(o.fields, Apply(o, t).fields, p)
  BY <1>1, Untouched
<1> QED
  BY <1>2 DEF t

-----------------------------------------------------------------------------
(* The first invariant: the options are ones the transforms can use, there  *)
(* is an object at hand when one is asked about, and the patches and the    *)
(* output are those of the options and the object.                          *)
IsObject(o) ==
  /\ o = [group |-> o.group, kind |-> o.kind, name |-> o.name, fields |-> o.fields]
  /\ o.kind # ""
Patched(k, o) == [o EXCEPT !.fields = Apply(o, getKubernetesTransforms(k, o)).fields]

UsableOptions(k) ==
  /\ GoodOptions(k)
  /\ k.keepOwned \in BOOLEAN /\ k.rbac \in BOOLEAN /\ k.bundle \in BOOLEAN
  /\ k.renames \notin {Invalid, Unpaired}
CarriedOut(k, o) == Apply(o, getKubernetesTransforms(k, o)).ok
AnswerInv ==
  /\ answer.status \in {"none", "exported", "whiteout", "error", "panic", "patched", "applied", "broken"}
  /\ answer.status \in {"exported", "patched", "applied"} => IsObject(object) /\ WellFormed(object)
  /\ answer.status = "patched" => answer.patches = getKubernetesTransforms(options, object)
  /\ answer.status = "applied" => output = Patched(options, object) /\ CarriedOut(options, object)
  /\ answer.status = "broken" => Nested(options, object)
  /\ answer.status # "applied" => output = NoObject
StageInv == stage \in 0..MaxStages /\ (answer.status = "exported" => stage < MaxStages)
TypeInv == UsableOptions(options) /\ AnswerInv /\ StageInv

LEMMA PatchedObject ==
  ASSUME NEW k, NEW o, IsObject(o)
  PROVE  /\ IsObject(Patched(k, o)) /\ GK(Patched(k, o)) = GK(o)
         /\ Patched(k, o).fields = Apply(o, getKubernetesTransforms(k, o)).fields
<1> DEFINE f == Apply(o, getKubernetesTransforms(k, o)).fields
<1> HIDE DEF f
<1> DEFINE q == [group |-> o.group, kind |-> o.kind, name |-> o.name, fields |-> f]
<1>1. [o EXCEPT !.fields = f] = q
  <2> DEFINE r == [group |-> o.group, kind |-> o.kind, name |-> o.name, fields |-> o.fields]
  <2>1. o = r
    BY DEF IsObject
  <2>2. [r EXCEPT !.fields = f] = q
    OBVIOUS
  <2> HIDE DEF r
  <2> QED
    BY <2>1, <2>2
<1>2. Patched(k, o) = q
  BY <1>1 DEF Patched, f
<1>3. q.group = o.group /\ q.kind = o.kind /\ q.name = o.name /\ q.fields = f
  OBVIOUS
<1> HIDE DEF q
<1>4. IsObject(q)
  <2>1. q = [group |-> q.group, kind |-> q.kind, name |-> q.name, fields |-> q.fields]
    BY <1>3 DEF q
  <2> QED
    BY <1>3, <2>1 DEF IsObject
<1> QED
  BY <1>2, <1>3, <1>4 DEF GK, f

(* Where paths end.                                                          *)
LEMMA Endings ==
  ASSUME NEW gk, NEW c, NEW i
  PROVE  /\ Len(Claim(PodSpec(gk), i)) \in Nat /\ Len(Claim(PodSpec(gk), i)) > 4
         /\ Claim(PodSpec(gk), i)[Len(Claim(PodSpec(gk), i))] = "claimName"
         /\ Len(PodSpec(gk) \o <<c, i, "image">>) \in Nat /\ Len(PodSpec(gk) \o <<c, i, "image">>) > 3
         /\ (PodSpec(gk) \o <<c, i, "image">>)[Len(PodSpec(gk) \o <<c, i, "image">>)] = "image"
         /\ Len(Template(i)) = 5 /\ Template(i)[5] = "name" /\ Template(i)[1] = "spec"
<1> DEFINE s == <<"volumes", i, "persistentVolumeClaim", "claimName">>
           t == <<c, i, "image">>
           Ends(a) == /\ Len(a \o s) \in Nat /\ Len(a \o s) > 4 /\ (a \o s)[Len(a \o s)] = "claimName"
                      /\ Len(a \o t) \in Nat /\ Len(a \o t) > 3 /\ (a \o t)[Len(a \o t)] = "image"
<1>1. Ends(<<"spec">>)
  OBVIOUS
<1>2. Ends(InTemplate)
  BY DEF InTemplate
<1>3. Ends(<<"spec", "jobTemplate">> \o InTemplate)
  BY DEF InTemplate
<1>4. \/ PodSpec(gk) = <<"spec">>
      \/ PodSpec(gk) = <<"spec", "jobTemplate">> \o InTemplate
      \/ PodSpec(gk) = InTemplate
  <2>1. CASE gk = <<"", "Pod">>
    BY <2>1 DEF PodSpec
  <2>2. CASE gk = <<"batch", "CronJob">>
    BY <2>2, KindsApart DEF PodSpec
  <2>3. CASE gk # <<"", "Pod">> /\ gk # <<"batch", "CronJob">>
    BY <2>3 DEF PodSpec
  <2> QED
    BY <2>1, <2>2, <2>3
<1> HIDE DEF Ends
<1>5. Ends(PodSpec(gk))
  BY <1>1, <1>2, <1>3, <1>4
<1>6. Len(Template(i)) = 5 /\ Template(i)[5] = "name" /\ Template(i)[1] = "spec"
  BY DEF Template
<1> QED
  BY <1>5, <1>6 DEF Ends, Claim

(* What a patched object has that the object had not.                       *)
LEMMA NewPaths ==
  ASSUME NEW k, GoodOptions(k), NEW o, IsObject(o), NEW p \in DOMAIN Patched(k, o).fields
  PROVE  /\ \/ p \in DOMAIN o.fields
            \/ p = SuspendAt
            \/ \E a \in DOMAIN k.add : p = AnnotationsAt \o Parts[a]
         /\ \/ p \in DOMAIN o.fields /\ Patched(k, o).fields[p] = o.fields[p]
            \/ \E x \in Operations(k, o) :
                 x.op # "remove" /\ x.path = p /\ x.value = Patched(k, o).fields[p]
<1> DEFINE t == getKubernetesTransforms(k, o)
           g == Patched(k, o).fields
<1>1. /\ Len(t) \in Nat
      /\ \A i \in 1..Len(t) : t[i] \in Operations(k, o)
  BY TransformPositions
<1>2. g = Apply(o, t).fields
  BY PatchedObject
<1> HIDE DEF t, g
<1>3. Sourced(o.fields, t, g)
  BY <1>1, <1>2, Provenance
<1>4. p \in DOMAIN o.fields \/ \E i \in 1..Len(t) : t[i].op = "add" /\ t[i].path = p
  BY <1>3 DEF Sourced, g
<1>5. \/ p \in DOMAIN o.fields /\ g[p] = o.fields[p]
      \/ \E i \in 1..Len(t) : t[i].op # "remove" /\ t[i].path = p /\ t[i].value = g[p]
  BY <1>3 DEF Sourced, g
<1>6. ASSUME NEW i \in 1..Len(t), t[i].op = "add", t[i].path = p
      PROVE  p = SuspendAt \/ \E a \in DOMAIN k.add : p = AnnotationsAt \o Parts[a]
  BY <1>1, <1>6, Additions
<1> QED
  BY <1>1, <1>4, <1>5, <1>6 DEF g

LEMMA AddedPaths ==
  /\ Len(SuspendAt) = 2 /\ SuspendAt[1] = "spec" /\ SuspendAt[2] = "suspend" /\ IsPath(SuspendAt)
  /\ \A a \in DOMAIN Parts : Annotation(AnnotationsAt \o Parts[a]) /\ IsPath(AnnotationsAt \o Parts[a])
<1>1. /\ Len(SuspendAt) = 2 /\ SuspendAt[1] = "spec" /\ SuspendAt[2] = "suspend" /\ IsPath(SuspendAt)
  BY DEF SuspendAt, IsPath, Range
<1>2. ASSUME NEW a \in DOMAIN Parts
      PROVE  Annotation(AnnotationsAt \o Parts[a]) /\ IsPath(AnnotationsAt \o Parts[a])
  <2>1. IsPatch(Parts[a])
    BY RequestsAssumption DEF IsPath, IsPatch
  <2>2. IsPatch(AnnotationsAt)
    BY DEF IsPatch, AnnotationsAt, Range
  <2>3. IsPatch(AnnotationsAt \o Parts[a])
    BY <2>1, <2>2, JoinedPatch
  <2> QED
    BY <2>3, PartsPath DEF IsPatch, IsPath
<1> QED
  BY <1>1, <1>2

(* An image stays a sequence of parts.                                      *)
LEMMA LastReplaceable ==
  ASSUME NEW k, NEW image, IsPath(image), Replaceable(k, image) # {}
  PROVE  /\ Max(Replaceable(k, image)) \in 1..Len(image) /\ Len(image) \in Nat
         /\ SubSeq(image, 1, Max(Replaceable(k, image))) \in DOMAIN k.registry
         /\ \A i \in Replaceable(k, image) : i <= Max(Replaceable(k, image))
<1>1. Len(image) \in Nat /\ DOMAIN image = 1..Len(image)
  BY LenProperties DEF IsPath
<1>2. Replaceable(k, image) \in SUBSET (1..Len(image))
  BY <1>1 DEF Replaceable
<1>3. /\ Max(Replaceable(k, image)) \in Replaceable(k, image)
      /\ \A i \in Replaceable(k, image) : Max(Replaceable(k, image)) >= i
  BY <1>1, <1>2, MaxOfPositions
<1>4. Max(Replaceable(k, image)) \in 1..Len(image)
  BY <1>2, <1>3
<1>5. \A i \in Replaceable(k, image) : i <= Max(Replaceable(k, image))
  BY <1>2, <1>3, <1>4
<1> QED
  BY <1>1, <1>3, <1>4, <1>5 DEF Replaceable

LEMMA UpdatedImage ==
  ASSUME NEW k, GoodOptions(k), NEW image, IsPath(image), Replaceable(k, image) # {}
  PROVE  IsPath(UpdateImageRegistry(k, image))
<1> DEFINE m == Max(Replaceable(k, image))
           rest == SubSeq(image, m + 1, Len(image))
<1>1. m \in 1..Len(image) /\ Len(image) \in Nat /\ SubSeq(image, 1, m) \in DOMAIN k.registry
  BY LastReplaceable
<1>2. IsPatch(k.registry[SubSeq(image, 1, m)])
  BY <1>1 DEF GoodOptions, IsPath, IsPatch
<1> HIDE DEF m
<1>3. IsPatch(rest)
  <2>1. image \in Seq(Range(image))
    BY DEF IsPath
  <2>2. \A i \in m + 1..Len(image) : image[i] \in Range(image)
    BY <1>1, <2>1, ElementOfSeq
  <2>3. rest \in Seq(Range(image))
    BY <1>1, <2>1, <2>2, SubSeqProperties
  <2>4. Len(rest) \in Nat /\ rest \in [1..Len(rest) -> Range(image)]
    BY <2>3, LenProperties
  <2> HIDE DEF rest
  <2>5. rest \in [1..Len(rest) -> Range(rest)]
    BY <2>4 DEF Range
  <2> QED
    BY <2>4, <2>5 DEF IsPatch
<1> QED
  BY <1>2, <1>3, JoinedPatch DEF UpdateImageRegistry, UpdatedAt, m, IsPatch, IsPath

(* Patching leaves an object well formed.                                   *)
LEMMA OldPaths ==
  ASSUME NEW k, GoodOptions(k), NEW o, IsObject(o), NEW p \in DOMAIN Patched(k, o).fields,
         p[1] = "spec", p # SuspendAt
  PROVE  p \in DOMAIN o.fields
<1>1. \A a \in DOMAIN k.add : p # AnnotationsAt \o Parts[a]
  <2> TAKE a \in DOMAIN k.add
  <2>1. a \in DOMAIN Parts
    BY DEF GoodOptions
  <2>2. Annotation(AnnotationsAt \o Parts[a])
    BY <2>1, PartsPath
  <2>3. (AnnotationsAt \o Parts[a])[1] = "metadata"
    BY <2>2 DEF Annotation
  <2> QED
    BY <2>3
<1> QED
  BY <1>1, NewPaths

LEMMA WellFormedStays ==
  ASSUME NEW k, GoodOptions(k), NEW o, IsObject(o), WellFormed(o)
  PROVE  WellFormed(Patched(k, o))
<1> DEFINE new == Patched(k, o)
<1>1. GK(new) = GK(o)
  BY PatchedObject
<1>2. ASSUME NEW p \in DOMAIN new.fields
      PROVE  IsPath(p) /\ p \notin {<<>>, <<"spec">>, <<"metadata">>, AnnotationsAt}
  <2>1. \/ p \in DOMAIN o.fields
        \/ p = SuspendAt
        \/ \E a \in DOMAIN k.add : p = AnnotationsAt \o Parts[a]
    BY NewPaths
  <2>2. CASE p \in DOMAIN o.fields
    BY <2>2 DEF WellFormed
  <2>3. Len(<<>>) = 0 /\ Len(<<"spec">>) = 1 /\ Len(<<"metadata">>) = 1 /\ Len(AnnotationsAt) = 2
        /\ AnnotationsAt[1] = "metadata"
    BY DEF AnnotationsAt
  <2>4. CASE p = SuspendAt
    <3>1. IsPath(p) /\ Len(p) = 2 /\ p[1] = "spec"
      BY <2>4, AddedPaths
    <3> QED
      BY <2>3, <3>1
  <2>5. CASE \E a \in DOMAIN k.add : p = AnnotationsAt \o Parts[a]
    <3>1. PICK a \in DOMAIN Parts : p = AnnotationsAt \o Parts[a]
      BY <2>5 DEF GoodOptions
    <3>2. IsPath(p) /\ Annotation(p)
      BY <3>1, AddedPaths
    <3>3. \A n \in Nat : n >= 3 => n # 0 /\ n # 1 /\ n # 2
      OBVIOUS
    <3>4. Len(p) # 0 /\ Len(p) # 1 /\ Len(p) # 2
      BY <3>2, <3>3 DEF Annotation
    <3>5. p # <<>> /\ p # <<"spec">> /\ p # <<"metadata">> /\ p # AnnotationsAt
      BY <2>3, <3>4
    <3> QED
      BY <3>2, <3>5
  <2> QED
    BY <2>1, <2>2, <2>4, <2>5
<1>3. ASSUME NEW p \in ImagePaths(new)
      PROVE  IsPath(new.fields[p])
  <2>1. PICK c \in {"containers", "initContainers"}, i \in Index : p = PodSpec(GK(o)) \o <<c, i, "image">>
    BY <1>1, <1>3 DEF ImagePaths
  <2>2. p \in DOMAIN new.fields
    BY <1>3 DEF ImagePaths
  <2>3. InPodSpec(GK(o), p, c) /\ Len(p) \in Nat /\ Len(p) > 3 /\ p[Len(p)] = "image"
    BY <2>1, PodPaths, Endings
  <2>4. p[1] = "spec"
    BY <2>3 DEF InPodSpec
  <2>5. p # SuspendAt
    BY <2>3, AddedPaths
  <2>6. p \in DOMAIN o.fields
    BY <2>2, <2>4, <2>5, OldPaths
  <2>7. p \in ImagePaths(o)
    BY <2>1, <2>6 DEF ImagePaths
  <2>8. IsPath(o.fields[p])
    BY <2>7 DEF WellFormed
  <2>9. CASE new.fields[p] = o.fields[p]
    BY <2>8, <2>9
  <2>10. CASE \E x \in Operations(k, o) : x.op # "remove" /\ x.path = p /\ x.value = new.fields[p]
    <3>1. PICK x \in Operations(k, o) : x.op # "remove" /\ x.path = p /\ x.value = new.fields[p]
      BY <2>10
    <3>2. x.op # "add"
      <4> SUFFICES ASSUME x.op = "add" PROVE FALSE
        OBVIOUS
      <4>1. PICK a \in DOMAIN k.add : x.path = AnnotationsAt \o Parts[a]
        BY <2>5, <3>1, Additions
      <4>2. Annotation(p)
        BY <3>1, <4>1, AddedPaths DEF GoodOptions
      <4> QED
        BY <2>4, <4>2 DEF Annotation
    <3>3. x \notin ClaimOps(k, o) /\ x \notin TemplateOps(k, o)
      <4>1. x \in ClaimOps(k, o) => \E j \in Index : x.path = Claim(PodSpec(GK(o)), j)
        BY OperationParts DEF ClaimOps
      <4>2. x \in TemplateOps(k, o) => \E j \in Index : x.path = Template(j)
        BY OperationParts DEF TemplateOps
      <4>3. x \in ClaimOps(k, o) => p[Len(p)] = "claimName"
        BY <3>1, <4>1, Endings
      <4>4. x \in TemplateOps(k, o) => p[Len(p)] = "name"
        BY <3>1, <4>2, Endings
      <4> QED
        BY <2>3, <4>3, <4>4
    <3>4. x \in ImageOps(k, o)
      <4>1. x.op \notin {"add", "remove"}
        BY <3>1, <3>2
      <4> QED
        BY <3>3, <4>1, ReplacementKinds
    <3>5. /\ x.value = UpdateImageRegistry(k, o.fields[p])
          /\ Replaceable(k, o.fields[p]) # {}
      <4>1. PICK q \in ImagePaths(o) : /\ Replaceable(k, o.fields[q]) # {}
                                       /\ x = ReplacePath(q, UpdateImageRegistry(k, o.fields[q]))
        BY <3>4 DEF ImageOps
      <4>2. x.path = q /\ x.value = UpdateImageRegistry(k, o.fields[q])
        BY <4>1, OperationParts
      <4> QED
        BY <3>1, <4>1, <4>2
    <3> QED
      BY <2>8, <3>1, <3>5, UpdatedImage
  <2> QED
    BY <2>2, <2>9, <2>10, NewPaths
<1>4. ASSUME GK(new) \in Workloads, NEW p \in DOMAIN new.fields, IsClaim(p)
      PROVE  \E i \in Index : p = Claim(PodSpec(GK(new)), i)
  <2>1. p[1] = "spec" /\ p[Len(p)] = "claimName"
    BY <1>4 DEF IsClaim
  <2>2. p # SuspendAt
    <3>1. SuspendAt[Len(SuspendAt)] = "suspend"
      BY AddedPaths
    <3> QED
      BY <2>1, <3>1
  <2>3. p \in DOMAIN o.fields
    BY <1>4, <2>1, <2>2, OldPaths
  <2> QED
    BY <1>1, <1>4, <2>3 DEF WellFormed
<1>5. ASSUME GK(new) \in Workloads, GK(new) # <<"apps", "StatefulSet">>, NEW i \in Index,
             Template(i) \in DOMAIN new.fields
      PROVE  FALSE
  <2>1. Template(i)[1] = "spec" /\ Len(Template(i)) = 5
    BY Endings
  <2>2. Template(i) # SuspendAt
    BY <2>1, AddedPaths
  <2>3. Template(i) \in DOMAIN o.fields
    BY <1>5, <2>1, <2>2, OldPaths
  <2> QED
    BY <1>1, <1>5, <2>3 DEF WellFormed
<1> HIDE DEF new
<1>6. WellFormed(new)
  BY <1>2, <1>3, <1>4, <1>5 DEF WellFormed
<1> QED
  BY <1>6 DEF new

LEMMA ObjectsAreObjects ==
  ASSUME NEW o \in Objects
  PROVE  IsObject(o) /\ WellFormed(o) /\ IsTree(o) /\ PlainAnnotations(o) /\ RealNodePorts(o)
BY ObjectsAssumption DEF IsObject

LEMMA ObjectsAreThere ==
  ASSUME NEW o, IsObject(o)
  PROVE  o # NoObject
<1>1. NoObject.kind = ""
  BY DEF NoObject
<1> QED
  BY <1>1 DEF IsObject

LEMMA DefaultsUsable == UsableOptions(Defaults)
<1>1. /\ Defaults.add = <<>> /\ Defaults.remove = {} /\ Defaults.registry = <<>>
      /\ Defaults.renames = <<>> /\ Defaults.keepOwned = FALSE /\ Defaults.rbac = TRUE
      /\ Defaults.bundle = TRUE
  BY DEF Defaults
<1>2. <<>> \notin {Invalid, Unpaired}
  BY RequestsAssumption
<1>3. DOMAIN <<>> = {} /\ IsFiniteSet({})
  BY FS_EmptySet
<1> DEFINE k == Defaults
<1> HIDE DEF k
<1>4. k = Defaults
  BY DEF k
<1>5. GoodOptions(k)
  BY <1>1, <1>3, <1>4 DEF GoodOptions
<1>6. k.keepOwned \in BOOLEAN /\ k.rbac \in BOOLEAN /\ k.bundle \in BOOLEAN
  BY <1>1, <1>4
<1>7. k.renames \notin {Invalid, Unpaired}
  BY <1>1, <1>2, <1>4
<1> QED
  BY <1>4, <1>5, <1>6, <1>7 DEF UsableOptions

(* Whatever a request holds, the options stay usable.                       *)
LEMMA SetOptions ==
  ASSUME NEW extras \in Requests, UsableOptions(options)
  PROVE  UsableOptions(setOptionalFields(extras))
<1> DEFINE k == setOptionalFields(extras)
<1>1. /\ DOMAIN k = DOMAIN options
      /\ {"add", "remove", "registry", "keepOwned", "rbac", "bundle", "renames"} \subseteq DOMAIN options
  BY DEF setOptionalFields, UsableOptions, GoodOptions, Defaults
<1>2. /\ k.add = Given(extras, "add", options.add)
      /\ k.remove = Given(extras, "remove", options.remove)
      /\ k.registry = Given(extras, "registry", options.registry)
  BY <1>1 DEF setOptionalFields
<1>3. k.keepOwned \in BOOLEAN /\ k.rbac \in BOOLEAN /\ k.bundle \in BOOLEAN
  <2>1. k.keepOwned = IF "keepOwned" \in DOMAIN extras THEN ParseBool(extras["keepOwned"])
                      ELSE options.keepOwned
    BY <1>1 DEF setOptionalFields, Given
  <2>2. /\ k.rbac = ("rbac" \in DOMAIN extras => ParseBool(extras["rbac"]))
        /\ k.bundle = ("bundle" \in DOMAIN extras => ParseBool(extras["bundle"]))
    BY <1>1 DEF setOptionalFields
  <2> HIDE DEF k
  <2> QED
    BY <2>1, <2>2 DEF ParseBool, UsableOptions
<1>4. k.renames = IF Given(extras, "renames", <<>>) \in {Invalid, Unpaired} THEN options.renames
                  ELSE Given(extras, "renames", options.renames)
  BY <1>1 DEF setOptionalFields
<1> HIDE DEF k
<1>5. \A o \in DOMAIN extras :
        /\ o = "add" => IsFiniteSet(DOMAIN extras[o]) /\ DOMAIN extras[o] \subseteq DOMAIN Parts
        /\ o = "remove" => IsFiniteSet(extras[o]) /\ extras[o] \subseteq DOMAIN Parts
        /\ o = "registry" => \A prefix \in DOMAIN extras[o] :
             IsPath(prefix) /\ prefix # <<>> /\ IsPath(extras[o][prefix])
        /\ o = "renames" /\ extras[o] \notin {Invalid, Unpaired} => "" \notin DOMAIN extras[o]
  BY RequestsAssumption
<1>6. k.renames \notin {Invalid, Unpaired} /\ "" \notin DOMAIN k.renames
  BY <1>4, <1>5 DEF Given, UsableOptions, GoodOptions
<1>7. /\ IsFiniteSet(DOMAIN k.add) /\ DOMAIN k.add \subseteq DOMAIN Parts
      /\ IsFiniteSet(k.remove) /\ k.remove \subseteq DOMAIN Parts
  BY <1>2, <1>5 DEF Given, UsableOptions, GoodOptions
<1>8. \A prefix \in DOMAIN k.registry : IsPath(prefix) /\ prefix # <<>> /\ IsPath(k.registry[prefix])
  BY <1>2, <1>5 DEF Given, UsableOptions, GoodOptions
<1> QED
  BY <1>1, <1>3, <1>6, <1>7, <1>8 DEF UsableOptions, GoodOptions, k

LEMMA TypeInvInit == Init => TypeInv
<1> SUFFICES ASSUME Init PROVE TypeInv
  OBVIOUS
<1>1. answer.status = "none"
  BY DEF Init
<1>2. AnswerInv /\ StageInv
  BY <1>1, BoundsAssumption DEF Init, AnswerInv, StageInv
<1> QED
  BY <1>2, DefaultsUsable DEF Init, TypeInv

LEMMA TypeInvNext == TypeInv /\ [Next]_vars => TypeInv'
<1> SUFFICES ASSUME TypeInv, [Next]_vars
             PROVE  TypeInv'
  OBVIOUS
<1>1. CASE Export
  <2>1. /\ answer' = [status |-> "exported", patches |-> <<>>]
        /\ output' = NoObject /\ stage' = 0 /\ options' = options /\ object' \in Objects
    BY <1>1 DEF Export, Reply
  <2>2. answer'.status = "exported"
    BY <2>1
  <2>3. AnswerInv'
    BY <2>1, <2>2, ObjectsAreObjects DEF AnswerInv
  <2> QED
    BY <2>1, <2>2, <2>3, BoundsAssumption DEF TypeInv, StageInv
<1>2. CASE Run
  <2>1. /\ answer.status = "exported" /\ stage' = stage + 1
        /\ object' = object /\ output' = output
    BY <1>2 DEF Run
  <2>2. PICK extras \in Requests :
          /\ options' = setOptionalFields(extras)
          /\ CASE Given(extras, "renames", <<>>) = Unpaired -> Reply("panic", <<>>)
               [] Given(extras, "renames", <<>>) = Invalid  -> Reply("error", <<>>)
               [] OTHER -> Answer(options', object)
    BY <1>2 DEF Run
  <2>3. \/ answer' = [status |-> "panic", patches |-> <<>>]
        \/ answer' = [status |-> "error", patches |-> <<>>]
        \/ answer' = [status |-> "whiteout", patches |-> <<>>]
        \/ answer' = [status |-> "patched", patches |-> getKubernetesTransforms(options', object)]
    BY <2>2 DEF Reply, Answer
  <2>4. \/ answer'.status \in {"panic", "error", "whiteout"}
        \/ answer'.status = "patched" /\ answer'.patches = getKubernetesTransforms(options', object)
    BY <2>3
  <2>5. UsableOptions(options')
    BY <2>2, SetOptions DEF TypeInv
  <2>6. AnswerInv'
    BY <2>1, <2>4 DEF TypeInv, AnswerInv
  <2>7. StageInv'
    BY <2>1, <2>4, BoundsAssumption DEF TypeInv, StageInv
  <2> QED
    BY <2>5, <2>6, <2>7 DEF TypeInv
<1>3. CASE ApplyPatches
  <2>1. answer.status = "patched" /\ options' = options /\ object' = object /\ stage' = stage
    BY <1>3 DEF ApplyPatches
  <2>2. answer.patches = getKubernetesTransforms(options, object)
    BY <2>1 DEF TypeInv, AnswerInv
  <2>3. IsObject(object) /\ WellFormed(object) /\ GoodOptions(options) /\ output = NoObject
    BY <2>1 DEF TypeInv, AnswerInv, UsableOptions
  <2>4. ASSUME Apply(object, answer.patches).ok
        PROVE  AnswerInv'
    <3>1. /\ answer' = [status |-> "applied", patches |-> answer.patches]
          /\ output' = [object EXCEPT !.fields = Apply(object, answer.patches).fields]
      BY <1>3, <2>4 DEF ApplyPatches, Reply
    <3>2. answer'.status = "applied" /\ output' = Patched(options, object)
      BY <2>2, <3>1 DEF Patched
    <3>3. CarriedOut(options, object)
      BY <2>2, <2>4 DEF CarriedOut
    <3> QED
      BY <2>1, <2>3, <3>2, <3>3 DEF AnswerInv
  <2>5. ASSUME ~Apply(object, answer.patches).ok
        PROVE  AnswerInv'
    <3>1. answer' = [status |-> "broken", patches |-> answer.patches] /\ output' = output
      BY <1>3, <2>5 DEF ApplyPatches, Reply
    <3>2. answer'.status = "broken"
      BY <3>1
    <3>3. Nested(options, object)
      BY <2>2, <2>3, <2>5, TransformsApply
    <3> QED
      BY <2>1, <2>3, <3>1, <3>2, <3>3 DEF AnswerInv
  <2>6. answer'.status \in {"applied", "broken"}
    BY <1>3 DEF ApplyPatches, Reply
  <2>7. StageInv'
    BY <2>1, <2>6 DEF TypeInv, StageInv
  <2> QED
    BY <2>1, <2>4, <2>5, <2>7 DEF TypeInv
<1>4. CASE NextStage
  <2>1. /\ answer.status = "applied" /\ stage < MaxStages /\ object' = output /\ output' = NoObject
        /\ answer' = [status |-> "exported", patches |-> <<>>]
        /\ options' = options /\ stage' = stage
    BY <1>4 DEF NextStage, Reply
  <2>2. answer'.status = "exported"
    BY <2>1
  <2>3. IsObject(output) /\ WellFormed(output)
    BY <2>1, PatchedObject, WellFormedStays DEF TypeInv, AnswerInv, UsableOptions
  <2>4. AnswerInv'
    BY <2>1, <2>2, <2>3 DEF AnswerInv
  <2> QED
    BY <2>1, <2>2, <2>4 DEF TypeInv, StageInv
<1>5. CASE UNCHANGED vars
  BY <1>5 DEF vars, TypeInv, AnswerInv, StageInv
<1> QED
  BY <1>1, <1>2, <1>3, <1>4, <1>5 DEF Next

LEMMA TypeInvariance == Spec => []TypeInv
BY TypeInvInit, TypeInvNext, PTL DEF Spec

(* Whatever the requests held, the plugin keeps options it can use: a       *)
(* refused rename map leaves the earlier one, and the three flags are       *)
(* Booleans (setOptionalFields).  Between requests there is an output just  *)
(* when a patch has been carried out.                                       *)
THEOREM WellTyped == Spec => []TypeOK
<1>1. TypeInv => TypeOK
  <2> SUFFICES ASSUME TypeInv PROVE TypeOK
    OBVIOUS
  <2>1. Applied <=> output # NoObject
    <3>1. CASE Applied
      BY <3>1, PatchedObject, ObjectsAreThere DEF Applied, TypeInv, AnswerInv
    <3>2. CASE ~Applied
      BY <3>2 DEF Applied, TypeInv, AnswerInv
    <3> QED
      BY <3>1, <3>2
  <2>2. /\ DOMAIN options = DOMAIN Defaults
        /\ \A o \in {"keepOwned", "rbac", "bundle"} : options[o] \in BOOLEAN
        /\ options.renames \notin {Invalid, Unpaired}
    BY DEF TypeInv, UsableOptions, GoodOptions
  <2> QED
    BY <2>1, <2>2 DEF TypeOK, TypeInv, AnswerInv, StageInv
<1> QED
  BY <1>1, TypeInvariance, PTL

(* Whatever the object, at every stage, the applier carries out the patch   *)
(* the plugin made of it: what is replaced is there, and no other operation *)
(* of the answer reaches it (getKubernetesTransforms, applier.go Apply).    *)
(* The one exception is an annotation of the user whose key goes on, after  *)
(* a slash, from the key of another one.                                    *)
THEOREM PatchesAlwaysApply == Spec => []PatchesApply
<1>1. TypeInv => PatchesApply
  BY DEF TypeInv, AnswerInv, PatchesApply
<1> QED
  BY <1>1, TypeInvariance, PTL

-----------------------------------------------------------------------------
(* The options over a whole export.                                         *)
(* What an option was last set to, in a list of requests.                   *)
SetsIn(h, i, o) == o \in DOMAIN h[i] /\ h[i][o] \notin {Invalid, Unpaired}
SetAt(h, o) == {i \in 1..Len(h) : SetsIn(h, i, o)}
LatestIn(h, o, default) == IF SetAt(h, o) = {} THEN default ELSE h[Max(SetAt(h, o))][o]

LEMMA LatestOfAppend ==
  ASSUME NEW h \in Seq(Requests), NEW e \in Requests, NEW o, NEW default
  PROVE  LatestIn(Append(h, e), o, default) =
           IF o \in DOMAIN e /\ e[o] \notin {Invalid, Unpaired} THEN e[o]
           ELSE LatestIn(h, o, default)
<1> DEFINE g == Append(h, e)
           n == Len(h)
<1>1. /\ n \in Nat /\ Len(g) = n + 1 /\ g[n + 1] = e
      /\ \A i \in 1..n : g[i] = h[i]
  BY AppendProperties, LenProperties
<1> HIDE DEF g, n
<1>2. \A i \in 1..n : SetsIn(g, i, o) <=> SetsIn(h, i, o)
  BY <1>1 DEF SetsIn
<1>3. CASE o \in DOMAIN e /\ e[o] \notin {Invalid, Unpaired}
  <2>1. SetsIn(g, n + 1, o)
    BY <1>1, <1>3 DEF SetsIn
  <2>2. SetAt(g, o) \in SUBSET (1..n + 1) /\ n + 1 \in SetAt(g, o)
    BY <1>1, <2>1 DEF SetAt
  <2>3. Max(SetAt(g, o)) \in SetAt(g, o) /\ Max(SetAt(g, o)) >= n + 1
    <3>1. n + 1 \in Nat /\ SetAt(g, o) # {}
      BY <1>1, <2>2
    <3> QED
      BY <2>2, <3>1, MaxOfPositions
  <2>4. Max(SetAt(g, o)) = n + 1
    BY <1>1, <2>2, <2>3
  <2> QED
    BY <1>1, <1>3, <2>2, <2>4 DEF LatestIn, g
<1>4. CASE ~(o \in DOMAIN e /\ e[o] \notin {Invalid, Unpaired})
  <2>1. ~SetsIn(g, n + 1, o)
    BY <1>1, <1>4 DEF SetsIn
  <2>2. SetAt(g, o) = SetAt(h, o)
    BY <1>1, <1>2, <2>1 DEF SetAt, n
  <2>3. CASE SetAt(h, o) = {}
    BY <1>4, <2>2, <2>3 DEF LatestIn, g
  <2>4. CASE SetAt(h, o) # {}
    <3>1. SetAt(h, o) \in SUBSET (1..n)
      BY DEF SetAt, n
    <3>2. Max(SetAt(h, o)) \in 1..n
      BY <1>1, <2>4, <3>1, MaxOfPositions
    <3>3. g[Max(SetAt(h, o))] = h[Max(SetAt(h, o))]
      BY <1>1, <3>2
    <3> QED
      BY <1>4, <2>2, <2>4, <3>3 DEF LatestIn, g
  <2> QED
    BY <2>3, <2>4
<1> QED
  BY <1>3, <1>4

(* The strip flags are those of the last request, all else is the latest    *)
(* that any request set.                                                    *)
HistoryInv ==
  /\ history \in Seq(Requests)
  /\ \A o \in Sticky \cup {"renames"} : options[o] = LatestIn(history, o, Defaults[o])
  /\ options.keepOwned = (LatestIn(history, "keepOwned", "false") = "true")
  /\ history # <<>> =>
       \A o \in {"rbac", "bundle"} :
         options[o] = (o \in DOMAIN Last(history) => Last(history)[o] = "true")

LEMMA HistoryInvInit == Init => HistoryInv
<1> SUFFICES ASSUME Init PROVE HistoryInv
  OBVIOUS
<1>1. history = <<>> /\ options = Defaults
  BY DEF Init
<1>2. \A o : SetAt(<<>>, o) = {}
  BY DEF SetAt
<1>3. \A o, d : LatestIn(history, o, d) = d
  BY <1>1, <1>2 DEF LatestIn
<1>4. Defaults.keepOwned = FALSE
  BY DEF Defaults
<1>5. history \in Seq(Requests)
  BY <1>1
<1>6. \A o : options[o] = LatestIn(history, o, Defaults[o])
  BY <1>1, <1>3
<1>7. options.keepOwned = (LatestIn(history, "keepOwned", "false") = "true")
  <2>1. ("false" = "true") = FALSE
    OBVIOUS
  <2> QED
    BY <1>1, <1>3, <1>4, <2>1
<1> QED
  BY <1>1, <1>5, <1>6, <1>7 DEF HistoryInv

LEMMA HistoryInvNext == TypeInv /\ HistoryInv /\ [Next]_vars => HistoryInv'
<1> SUFFICES ASSUME TypeInv, HistoryInv, [Next]_vars
             PROVE  HistoryInv'
  OBVIOUS
<1>1. CASE UNCHANGED <<options, history>>
  BY <1>1 DEF HistoryInv
<1>2. CASE Run
  <2>1. PICK extras \in Requests :
          options' = setOptionalFields(extras) /\ history' = Append(history, extras)
    BY <1>2 DEF Run
  <2>2. DOMAIN options = DOMAIN Defaults /\ history \in Seq(Requests)
    BY DEF TypeInv, UsableOptions, GoodOptions, HistoryInv
  <2>3. Sticky \cup {"renames", "keepOwned", "rbac", "bundle"} \subseteq DOMAIN options
    BY <2>2 DEF Defaults, Sticky
  <2>4. \A o \in DOMAIN extras : extras[o] \in {Invalid, Unpaired} => o = "renames"
    BY RequestsAssumption
  <2>5. ASSUME NEW o \in Sticky
        PROVE  options'[o] = LatestIn(history', o, Defaults[o])
    <3>1. o \notin {"renames", "keepOwned", "rbac", "bundle"}
      BY DEF Sticky
    <3>2. options'[o] = Given(extras, o, options[o])
      BY <2>1, <2>3, <3>1 DEF setOptionalFields
    <3>3. LatestIn(history', o, Defaults[o]) =
            IF o \in DOMAIN extras /\ extras[o] \notin {Invalid, Unpaired} THEN extras[o]
            ELSE LatestIn(history, o, Defaults[o])
      BY <2>1, <2>2, LatestOfAppend
    <3>4. options[o] = LatestIn(history, o, Defaults[o])
      BY DEF HistoryInv
    <3> QED
      BY <2>4, <3>1, <3>2, <3>3, <3>4 DEF Given
  <2>6. options'["renames"] = LatestIn(history', "renames", Defaults["renames"])
    <3>1. options'["renames"] =
            IF Given(extras, "renames", <<>>) \in {Invalid, Unpaired} THEN options["renames"]
            ELSE Given(extras, "renames", options["renames"])
      BY <2>1, <2>3 DEF setOptionalFields
    <3>2. LatestIn(history', "renames", Defaults["renames"]) =
            IF "renames" \in DOMAIN extras /\ extras["renames"] \notin {Invalid, Unpaired}
            THEN extras["renames"] ELSE LatestIn(history, "renames", Defaults["renames"])
      BY <2>1, <2>2, LatestOfAppend
    <3>3. options["renames"] = LatestIn(history, "renames", Defaults["renames"])
      BY DEF HistoryInv
    <3> QED
      BY <3>1, <3>2, <3>3 DEF Given
  <2>7. options'.keepOwned = (LatestIn(history', "keepOwned", "false") = "true")
    <3>1. options'["keepOwned"] = IF "keepOwned" \in DOMAIN extras THEN ParseBool(extras["keepOwned"])
                                  ELSE options["keepOwned"]
      BY <2>1, <2>3 DEF setOptionalFields, Given
    <3>2. LatestIn(history', "keepOwned", "false") =
            IF "keepOwned" \in DOMAIN extras /\ extras["keepOwned"] \notin {Invalid, Unpaired}
            THEN extras["keepOwned"] ELSE LatestIn(history, "keepOwned", "false")
      BY <2>1, <2>2, LatestOfAppend
    <3>3. options["keepOwned"] = (LatestIn(history, "keepOwned", "false") = "true")
      BY DEF HistoryInv
    <3>4. CASE "keepOwned" \in DOMAIN extras
      BY <2>4, <3>1, <3>2, <3>4 DEF ParseBool
    <3>5. CASE "keepOwned" \notin DOMAIN extras
      BY <3>1, <3>2, <3>3, <3>5
    <3> QED
      BY <3>4, <3>5
  <2>8. Last(history') = extras /\ history' \in Seq(Requests)
    BY <2>1, <2>2, AppendProperties DEF Last
  <2>9. \A o \in {"rbac", "bundle"} :
          options'[o] = (o \in DOMAIN Last(history') => Last(history')[o] = "true")
    BY <2>1, <2>3, <2>8 DEF setOptionalFields, ParseBool
  <2> QED
    BY <2>5, <2>6, <2>7, <2>8, <2>9 DEF HistoryInv
<1> QED
  BY <1>1, <1>2 DEF Next, Export, ApplyPatches, NextStage, vars

LEMMA HistoryInvariance == Spec => []HistoryInv
BY TypeInvariance, HistoryInvInit, HistoryInvNext, PTL DEF Spec

LEMMA LatestOfHistory ==
  ASSUME HistoryInv
  PROVE  \A o, default : Latest(o, default) = LatestIn(history, o, default)
<1>1. DOMAIN history = 1..Len(history)
  BY LenProperties DEF HistoryInv
<1> QED
  BY <1>1 DEF Latest, Sets, LatestIn, SetAt, SetsIn

(* An option lasts: whatever the objects in between and however their       *)
(* requests ended, it is what the latest request that set it asked for; the *)
(* strip flags alone start anew in every request (setOptionalFields).       *)
THEOREM OptionsFollowRequests == Spec => []OptionsAreLatest
<1>1. HistoryInv => OptionsAreLatest
  <2> SUFFICES ASSUME HistoryInv, history # <<>>
               PROVE  /\ \A o \in Sticky \cup {"renames"} : options[o] = Latest(o, Defaults[o])
                      /\ options.keepOwned = OwnedAskedFor
                      /\ \A o \in {"rbac", "bundle"} :
                           options[o] = (o \in DOMAIN Last(history) => Last(history)[o] = "true")
    BY DEF OptionsAreLatest
  <2>1. \A o, default : Latest(o, default) = LatestIn(history, o, default)
    BY LatestOfHistory
  <2> QED
    BY <2>1 DEF HistoryInv, OwnedAskedFor
<1> QED
  BY <1>1, HistoryInvariance, PTL

-----------------------------------------------------------------------------
(* Who the owner of an object is, and whether a Job is suspended.           *)
LEMMA TouchedParts ==
  ASSUME NEW x, NEW p, Touches(x, p), Len(x.path) \in Nat
  PROVE  \A i \in 1..Len(x.path) : p[i] = x.path[i]
BY PrefixParts DEF Touches

LEMMA OwnersStay ==
  ASSUME NEW k, GoodOptions(k), NEW o, IsObject(o)
  PROVE  Owned(Patched(k, o)) <=> Owned(o)
<1> DEFINE at == <<"metadata", "ownerReferences">>
           g == Apply(o, getKubernetesTransforms(k, o)).fields
<1>1. at[1] = "metadata" /\ at[2] = "ownerReferences" /\ Len(at) = 2
  OBVIOUS
<1> HIDE DEF at, g
<1>2. ASSUME NEW p, IsPrefix(at, p)
      PROVE  Stays(o.fields, g, p)
  <2>1. p[1] = "metadata" /\ p[2] = "ownerReferences"
    <3>1. Len(at) \in Nat /\ 1 \in 1..Len(at) /\ 2 \in 1..Len(at)
      BY <1>1
    <3> QED
      BY <1>1, <1>2, <3>1, PrefixParts
  <2>2. ~Reach(GK(o), p)
    BY <2>1 DEF Reach, IdentityNames
  <2>3. ASSUME NEW x \in Operations(k, o)
        PROVE  ~Touches(x, p)
    <3>1. CASE x.op \in {"add", "remove"}
      BY <2>2, <2>3, <3>1, PathsReach DEF Moves
    <3>2. CASE x.op \notin {"add", "remove"}
      BY <2>1, <3>2, Replacements DEF Touches
    <3> QED
      BY <3>1, <3>2
  <2> QED
    BY <2>3, OthersStay DEF g
<1>3. Patched(k, o).fields = g
  BY PatchedObject DEF g
<1>4. Found(Patched(k, o), at) <=> Found(o, at)
  BY <1>2, <1>3 DEF Found, Stays
<1> QED
  BY <1>4 DEF Owned, at

(* Only its own addition reaches the suspension of a Job.                   *)
LEMMA JobParts ==
  ASSUME NEW q, NEW o, q \in SelectorPaths(o) \cup JobLabelPaths
  PROVE  Len(q) \in Nat /\ Len(q) >= 2 /\ q[1] = "spec" /\ q[2] \in {"selector", "template"}
<1>1. CASE q \in JobLabelPaths
  <2>1. PICK c : q = <<"spec", "template", "metadata", "labels">> \o <<c>>
    BY <1>1 DEF JobLabelPaths
  <2> QED
    BY <2>1
<1>2. CASE q \in MatchPaths
  <2>1. PICK c : q = <<"spec", "selector", "matchLabels">> \o <<c>>
    BY <1>2 DEF MatchPaths
  <2> QED
    BY <2>1
<1>3. CASE q = <<"spec", "selector">>
  BY <1>3
<1> QED
  BY <1>1, <1>2, <1>3 DEF SelectorPaths

(* The operations that are made for every kind, or for a kind without a     *)
(* specification, do not reach it.                                          *)
LEMMA OutsideSpec ==
  ASSUME NEW k, GoodOptions(k), NEW o, NEW p,
         NEW x \in StripOps(o) \cup AnnotationOps(k) \cup SubjectOps(o) \cup SecretOps(o),
         Touches(x, p)
  PROVE  p[1] \in {"metadata", "status", "subjects", "secrets"}
<1>1. CASE x \in StripOps(o)
  <2>1. x.path \in StrippedFields
    BY <1>1, OperationParts DEF StripOps
  <2>2. Reach(<<>>, p)
    BY <2>1, StrippedFit DEF Fits, Touches
  <2> QED
    BY <2>2 DEF Reach, SpecReach
<1>2. CASE x \in AnnotationOps(k)
  <2>1. PICK a : a \in DOMAIN Parts /\ x.path = AnnotationsAt \o Parts[a]
    <3>1. CASE \E a \in DOMAIN k.add : x = AddPath(AnnotationsAt \o Parts[a], k.add[a])
      <4>1. PICK a \in DOMAIN k.add : x = AddPath(AnnotationsAt \o Parts[a], k.add[a])
        BY <3>1
      <4>2. x.path = AnnotationsAt \o Parts[a] /\ a \in DOMAIN Parts
        BY <4>1, OperationParts DEF GoodOptions
      <4> QED
        BY <4>2
    <3>2. CASE \E a \in k.remove : x = RemovePath(AnnotationsAt \o Parts[a])
      <4>1. PICK a \in k.remove : x = RemovePath(AnnotationsAt \o Parts[a])
        BY <3>2
      <4>2. x.path = AnnotationsAt \o Parts[a] /\ a \in DOMAIN Parts
        BY <4>1, OperationParts DEF GoodOptions
      <4> QED
        BY <4>2
    <3> QED
      BY <1>2, <3>1, <3>2 DEF AnnotationOps
  <2>2. Annotation(x.path)
    BY <2>1, PartsPath
  <2>3. Len(x.path) \in Nat /\ 1 \in 1..Len(x.path) /\ x.path[1] = "metadata"
    BY <2>2 DEF Annotation
  <2> QED
    BY <2>3, TouchedParts
<1>3. CASE x \in SubjectOps(o)
  <2>1. PICK i \in Index : x = RemovePath(<<"subjects", i, "namespace">>)
    BY <1>3 DEF SubjectOps
  <2>2. x.path = <<"subjects", i, "namespace">>
    BY <2>1, OperationParts
  <2>3. Len(x.path) \in Nat /\ 1 \in 1..Len(x.path) /\ x.path[1] = "subjects"
    BY <2>2
  <2> QED
    BY <2>3, TouchedParts
<1>4. CASE x \in SecretOps(o)
  <2>1. x.path = <<"secrets">>
    BY <1>4, OperationParts DEF SecretOps
  <2>2. Len(x.path) \in Nat /\ 1 \in 1..Len(x.path) /\ x.path[1] = "secrets"
    BY <2>1
  <2> QED
    BY <2>2, TouchedParts
<1> QED
  BY <1>1, <1>2, <1>3, <1>4

LEMMA SuspendOnly ==
  ASSUME NEW k, GoodOptions(k), NEW o, GK(o) = <<"batch", "Job">>,
         NEW x \in Operations(k, o), Touches(x, SuspendAt)
  PROVE  x \in SuspendOps(o)
<1>1. SuspendAt[1] = "spec" /\ SuspendAt[2] = "suspend"
  BY DEF SuspendAt
<1>2. x \notin StripOps(o) \cup AnnotationOps(k) \cup SubjectOps(o) \cup SecretOps(o)
  BY <1>1, OutsideSpec
<1>3. x \notin JobOps(o)
  <2> SUFFICES ASSUME x \in JobOps(o) PROVE FALSE
    OBVIOUS
  <2>1. x.path \in SelectorPaths(o) \cup JobLabelPaths
    BY OperationParts DEF JobOps
  <2>2. Len(x.path) \in Nat /\ Len(x.path) >= 2 /\ x.path[2] \in {"selector", "template"}
    BY <2>1, JobParts
  <2>3. 2 \in 1..Len(x.path)
    BY <2>2
  <2>4. SuspendAt[2] = x.path[2]
    BY <2>2, <2>3, TouchedParts
  <2> QED
    BY <1>1, <2>2, <2>4
<1>4. x \notin PodOps(o) /\ x \notin ServiceOps(o)
  BY KindsApart DEF PodOps, ServiceOps, AddressPaths, Allocated
<1>5. x \notin ClaimOps(k, o) /\ x \notin TemplateOps(k, o) /\ x \notin ImageOps(k, o)
  <2> SUFFICES ASSUME x \in ClaimOps(k, o) \cup TemplateOps(k, o) \cup ImageOps(k, o) PROVE FALSE
    OBVIOUS
  <2>1. x.op = "replace"
    BY OperationParts DEF ClaimOps, TemplateOps, ImageOps
  <2>2. x.path = SuspendAt
    BY <2>1 DEF Touches
  <2> QED
    BY <1>1, <2>1, <2>2, Replacements
<1> QED
  BY <1>2, <1>3, <1>4, <1>5 DEF Operations

LEMMA Suspended ==
  ASSUME NEW k, GoodOptions(k), NEW o, IsObject(o), CarriedOut(k, o), GK(o) = <<"batch", "Job">>,
         MustWait(o) \/ Value(o, SuspendAt) = "true"
  PROVE  Value(Patched(k, o), SuspendAt) = "true"
<1> DEFINE t == getKubernetesTransforms(k, o)
<1>1. Patched(k, o).fields = Apply(o, t).fields
  BY PatchedObject
<1>2. CASE MustWait(o)
  <2>1. /\ Len(t) \in Nat
        /\ \A i \in 1..Len(t) : t[i] \in Operations(k, o)
        /\ \A x \in Operations(k, o) : \E i \in 1..Len(t) : t[i] = x
    BY TransformPositions
  <2>2. Apply(o, t).ok
    BY DEF CarriedOut
  <2> HIDE DEF t
  <2>3. SuspendOps(o) = {AddPath(SuspendAt, "true")}
    BY <1>2 DEF SuspendOps, SuspendAt
  <2>4. AddPath(SuspendAt, "true") \in Operations(k, o)
    BY <2>3 DEF Operations
  <2>5. \E i \in 1..Len(t) : t[i].op # "remove" /\ t[i].path = SuspendAt
    BY <2>1, <2>4, OperationParts
  <2>6. \A i \in 1..Len(t) : Touches(t[i], SuspendAt) =>
           t[i].op # "remove" /\ t[i].path = SuspendAt /\ t[i].value = "true"
    BY <2>1, <2>3, SuspendOnly, OperationParts
  <2>7. SuspendAt \in DOMAIN Apply(o, t).fields /\ Apply(o, t).fields[SuspendAt] = "true"
    <3> DEFINE v == "true"
    <3>1. AllSet(t, SuspendAt, v)
      BY <2>5, <2>6 DEF AllSet
    <3> HIDE DEF v
    <3>2. SuspendAt \in DOMAIN Apply(o, t).fields /\ Apply(o, t).fields[SuspendAt] = v
      BY <2>1, <2>2, <3>1, SetByAll
    <3> QED
      BY <3>2 DEF v
  <2> QED
    BY <1>1, <2>7 DEF Value
<1>3. CASE ~MustWait(o) /\ Value(o, SuspendAt) = "true"
  <2>1. \A x \in Operations(k, o) : ~Touches(x, SuspendAt)
    BY <1>3, SuspendOnly DEF SuspendOps
  <2>2. Stays(o.fields, Apply(o, t).fields, SuspendAt)
    BY <2>1, OthersStay
  <2>3. SuspendAt \in DOMAIN o.fields /\ o.fields[SuspendAt] = "true"
    BY <1>3 DEF Value
  <2> HIDE DEF t
  <2> QED
    BY <1>1, <2>2, <2>3 DEF Value, Stays
<1> QED
  BY <1>2, <1>3

(* An object keeps its kind and its owner from stage to stage, a Job that   *)
(* nobody marked is suspended from its first patch on, and what has an      *)
(* owner is patched only when that was asked for.                           *)
Held(o) ==
  GK(original) = <<"batch", "Job">> /\ ~Annotated(original, IdempotentKey, "true") /\ ~Owned(original)
    => Value(o, SuspendAt) = "true"
Same(o) == GK(o) = GK(original) /\ (Owned(o) <=> Owned(original))
ConsentInv ==
  /\ answer.status \in {"exported", "patched", "applied"} =>
       Same(object) /\ (object = original \/ Held(object))
  /\ answer.status = "applied" => Same(output) /\ Held(output)
  /\ answer.status \in {"patched", "applied"} =>
       history # <<>> /\ (Owned(original) => options.keepOwned)

LEMMA ConsentInvNext == TypeInv /\ HistoryInv /\ ConsentInv /\ [Next]_vars => ConsentInv'
<1> SUFFICES ASSUME TypeInv, HistoryInv, ConsentInv, [Next]_vars
             PROVE  ConsentInv'
  OBVIOUS
<1>1. CASE Export
  <2>1. answer' = [status |-> "exported", patches |-> <<>>] /\ object' = original'
    BY <1>1 DEF Export, Reply
  <2>2. answer'.status = "exported"
    BY <2>1
  <2> QED
    BY <2>1, <2>2 DEF ConsentInv, Same
<1>2. CASE Run
  <2>1. /\ answer.status = "exported" /\ object' = object /\ original' = original
    BY <1>2 DEF Run
  <2>2. PICK extras \in Requests :
          /\ options' = setOptionalFields(extras)
          /\ history' = Append(history, extras)
          /\ CASE Given(extras, "renames", <<>>) = Unpaired -> Reply("panic", <<>>)
               [] Given(extras, "renames", <<>>) = Invalid  -> Reply("error", <<>>)
               [] OTHER -> Answer(options', object)
    BY <1>2 DEF Run
  <2>3. \/ answer' = [status |-> "panic", patches |-> <<>>]
        \/ answer' = [status |-> "error", patches |-> <<>>]
        \/ answer' = [status |-> "whiteout", patches |-> <<>>]
        \/ /\ answer' = [status |-> "patched", patches |-> getKubernetesTransforms(options', object)]
           /\ ~getWhiteOuts(options', object)
    BY <2>2 DEF Reply, Answer
  <2>4. \/ answer'.status \in {"panic", "error", "whiteout"}
        \/ answer'.status = "patched" /\ (Owned(object) => options'.keepOwned)
    BY <2>3 DEF getWhiteOuts
  <2>5. history' # <<>>
    <3>1. history \in Seq(Requests)
      BY DEF HistoryInv
    <3>2. Len(history') = Len(history) + 1 /\ Len(history) \in Nat
      BY <2>2, <3>1, AppendProperties, LenProperties
    <3> QED
      BY <3>2
  <2>6. Same(object)' /\ (Held(object)' <=> Held(object))
    BY <2>1 DEF ConsentInv, Same, Held
  <2>7. Owned(object) <=> Owned(original)
    BY <2>1 DEF ConsentInv, Same
  <2> QED
    BY <2>1, <2>4, <2>5, <2>6, <2>7 DEF ConsentInv
<1>3. CASE ApplyPatches
  <2>1. /\ answer.status = "patched" /\ options' = options /\ object' = object
        /\ original' = original /\ history' = history
    BY <1>3 DEF ApplyPatches
  <2>2. /\ answer'.status \in {"applied", "broken"}
        /\ answer'.status = "applied" => output' = Patched(options, object) /\ CarriedOut(options, object)
    <3>1. answer'.status \in {"applied", "broken"}
      BY <1>3 DEF ApplyPatches, Reply
    <3>2. AnswerInv'
      BY TypeInvNext DEF TypeInv
    <3> QED
      BY <2>1, <3>1, <3>2 DEF AnswerInv
  <2>3. GoodOptions(options) /\ IsObject(object)
    BY <2>1 DEF TypeInv, UsableOptions, AnswerInv
  <2>4. answer'.status = "applied" => Same(output)'
    BY <2>1, <2>2, <2>3, PatchedObject, OwnersStay DEF ConsentInv, Same
  <2>5. answer'.status = "applied" => Held(output)'
    <3> SUFFICES ASSUME GK(original) = <<"batch", "Job">>, ~Owned(original),
                        ~Annotated(original, IdempotentKey, "true"), CarriedOut(options, object)
                 PROVE  Value(Patched(options, object), SuspendAt) = "true"
      BY <2>1, <2>2 DEF Held
    <3>1. Same(object) /\ (object = original \/ Held(object))
      BY <2>1 DEF ConsentInv
    <3>2. MustWait(object) \/ Value(object, SuspendAt) = "true"
      BY <3>1 DEF Held, Same, MustWait, SuspendAt
    <3> QED
      BY <2>3, <3>1, <3>2, Suspended DEF Same
  <2>6. Same(object)' /\ (Held(object)' <=> Held(object))
    BY <2>1 DEF ConsentInv, Same, Held
  <2> QED
    BY <2>1, <2>2, <2>4, <2>5, <2>6 DEF ConsentInv
<1>4. CASE NextStage
  <2>1. /\ answer.status = "applied" /\ object' = output /\ original' = original
        /\ answer' = [status |-> "exported", patches |-> <<>>]
    BY <1>4 DEF NextStage, Reply
  <2>2. answer'.status = "exported"
    BY <2>1
  <2>3. Same(object)' /\ Held(object)'
    BY <2>1 DEF ConsentInv, Same, Held
  <2> QED
    BY <2>2, <2>3 DEF ConsentInv
<1>5. CASE UNCHANGED vars
  BY <1>5 DEF vars, ConsentInv, Same, Held
<1> QED
  BY <1>1, <1>2, <1>3, <1>4, <1>5 DEF Next

LEMMA ConsentInvariance == Spec => []ConsentInv
<1>1. Init => ConsentInv
  <2>1. Init => answer.status = "none"
    BY DEF Init
  <2> QED
    BY <2>1 DEF ConsentInv
<1> QED
  BY <1>1, TypeInvariance, HistoryInvariance, ConsentInvNext, PTL DEF Spec

(* What leaves the applier runs in the target cluster only if the user let  *)
(* it: at every stage a Job is suspended unless it was marked idempotent or *)
(* has an owner when it is exported, and an object with an owner is there   *)
(* only if the latest request about owned objects asked for them            *)
(* (suspendStandaloneJob, getWhiteOuts).                                    *)
THEOREM JobsNeedConsent == Spec => []RunsOnlyByConsent
<1>1. TypeInv /\ HistoryInv /\ ConsentInv => RunsOnlyByConsent
  <2> SUFFICES ASSUME TypeInv, HistoryInv, ConsentInv, Applied
               PROVE  /\ GK(original) = <<"batch", "Job">> /\ Value(output, <<"spec", "suspend">>) # "true"
                           => Annotated(original, IdempotentKey, "true") \/ Owned(original)
                      /\ Owned(original) => OwnedAskedFor
    BY DEF RunsOnlyByConsent
  <2>1. Held(output) /\ (Owned(original) => options.keepOwned)
    BY DEF ConsentInv, Applied
  <2>2. options.keepOwned = OwnedAskedFor
    BY LatestOfHistory DEF HistoryInv, OwnedAskedFor
  <2> QED
    BY <2>1, <2>2 DEF Held, SuspendAt
<1> QED
  BY <1>1, TypeInvariance, HistoryInvariance, ConsentInvariance, PTL

-----------------------------------------------------------------------------
(* The claims and the images of a patched object.                           *)
Position(q) ==
  /\ q[1] = "spec"
  /\ q[2] \in {"volumes", "containers", "initContainers", "volumeClaimTemplates",
               "template", "jobTemplate"}
  /\ q[2] = "template" => q[3] = "spec"

(* What touches such a position replaces it.                                *)
LEMMA PositionTouched ==
  ASSUME NEW k, GoodOptions(k), NEW o, NEW p, Position(p), NEW x \in Operations(k, o), Touches(x, p)
  PROVE  /\ x.path = p /\ x.op # "remove"
         /\ x \in ClaimOps(k, o) \/ x \in TemplateOps(k, o) \/ x \in ImageOps(k, o)
<1>1. ~Reach(GK(o), p)
  BY OutOfReach DEF Position
<1>2. x.op \notin {"add", "remove"}
  BY <1>1, PathsReach DEF Moves
<1> QED
  BY <1>2, ReplacementKinds DEF Touches

LEMMA RenameValues ==
  ASSUME NEW k, NEW o, NEW x, x \in ClaimOps(k, o) \/ x \in TemplateOps(k, o)
  PROVE  /\ Value(o, x.path) \in DOMAIN k.renames
         /\ x.value = k.renames[Value(o, x.path)]
<1>1. CASE x \in ClaimOps(k, o)
  <2>1. PICK i \in Index :
          /\ Value(o, Claim(PodSpec(GK(o)), i)) \in DOMAIN k.renames
          /\ x = ReplacePath(Claim(PodSpec(GK(o)), i), k.renames[Value(o, Claim(PodSpec(GK(o)), i))])
    BY <1>1 DEF ClaimOps
  <2>2. /\ x.path = Claim(PodSpec(GK(o)), i)
        /\ x.value = k.renames[Value(o, Claim(PodSpec(GK(o)), i))]
    BY <2>1, OperationParts
  <2> QED
    BY <2>1, <2>2
<1>2. CASE x \in TemplateOps(k, o)
  <2>1. PICK i \in Index : /\ Value(o, Template(i)) \in DOMAIN k.renames
                           /\ x = ReplacePath(Template(i), k.renames[Value(o, Template(i))])
    BY <1>2 DEF TemplateOps
  <2>2. x.path = Template(i) /\ x.value = k.renames[Value(o, Template(i))]
    BY <2>1, OperationParts
  <2> QED
    BY <2>1, <2>2
<1> QED
  BY <1>1, <1>2

LEMMA ImageValues ==
  ASSUME NEW k, NEW o, NEW x \in ImageOps(k, o)
  PROVE  /\ x.path \in ImagePaths(o) /\ HasImages(o) /\ Replaceable(k, o.fields[x.path]) # {}
         /\ x.value = UpdateImageRegistry(k, o.fields[x.path])
<1>1. PICK p \in ImagePaths(o) : /\ HasImages(o) /\ Replaceable(k, o.fields[p]) # {}
                                 /\ x = ReplacePath(p, UpdateImageRegistry(k, o.fields[p]))
  BY DEF ImageOps
<1>2. x.path = p /\ x.value = UpdateImageRegistry(k, o.fields[p])
  BY <1>1, OperationParts
<1> QED
  BY <1>1, <1>2

LEMMA ReferencePaths ==
  ASSUME NEW k, NEW o, NEW x
  PROVE  /\ x \in ClaimOps(k, o) => x.path[Len(x.path)] = "claimName"
         /\ x \in TemplateOps(k, o) => x.path[Len(x.path)] = "name"
         /\ x \in ImageOps(k, o) => x.path[Len(x.path)] = "image"
<1>1. ASSUME x \in ClaimOps(k, o)
      PROVE  x.path[Len(x.path)] = "claimName"
  <2>1. PICK i \in Index : x.path = Claim(PodSpec(GK(o)), i)
    BY <1>1, OperationParts DEF ClaimOps
  <2> QED
    BY <2>1, Endings
<1>2. ASSUME x \in TemplateOps(k, o)
      PROVE  x.path[Len(x.path)] = "name"
  <2>1. PICK i \in Index : x.path = Template(i)
    BY <1>2, OperationParts DEF TemplateOps
  <2> QED
    BY <2>1, Endings
<1>3. ASSUME x \in ImageOps(k, o)
      PROVE  x.path[Len(x.path)] = "image"
  <2>1. x.path \in ImagePaths(o)
    BY <1>3, ImageValues
  <2>2. PICK c \in {"containers", "initContainers"}, i \in Index :
               x.path = PodSpec(GK(o)) \o <<c, i, "image">>
    BY <2>1 DEF ImagePaths
  <2> QED
    BY <2>2, Endings
<1> QED
  BY <1>1, <1>2, <1>3

(* A position keeps its value when nothing touches it, and has the value    *)
(* that all that touch it agree on otherwise.                               *)
LEMMA PositionKept ==
  ASSUME NEW k, GoodOptions(k), NEW o, IsObject(o), NEW p \in DOMAIN o.fields,
         \A x \in Operations(k, o) : ~Touches(x, p)
  PROVE  Value(Patched(k, o), p) = o.fields[p]
<1>1. Stays(o.fields, Apply(o, getKubernetesTransforms(k, o)).fields, p)
  BY OthersStay
<1>2. Stays(o.fields, Patched(k, o).fields, p)
  BY <1>1, PatchedObject
<1> QED
  BY <1>2 DEF Stays, Value

LEMMA PositionSet ==
  ASSUME NEW k, GoodOptions(k), NEW o, IsObject(o), CarriedOut(k, o), NEW p, Position(p), NEW v,
         NEW x \in Operations(k, o), x.path = p, x.op # "remove",
         \A y \in Operations(k, o) : Touches(y, p) => y.value = v
  PROVE  Value(Patched(k, o), p) = v
<1> DEFINE t == getKubernetesTransforms(k, o)
<1>1. /\ Len(t) \in Nat
      /\ \A i \in 1..Len(t) : t[i] \in Operations(k, o)
      /\ \A y \in Operations(k, o) : \E i \in 1..Len(t) : t[i] = y
  BY TransformPositions
<1>2. Apply(o, t).ok
  BY DEF CarriedOut
<1>3. Patched(k, o).fields = Apply(o, t).fields
  BY PatchedObject
<1> HIDE DEF t
<1>4. \E i \in 1..Len(t) : t[i].op # "remove" /\ t[i].path = p
  BY <1>1
<1>5. \A i \in 1..Len(t) : Touches(t[i], p) =>
         t[i].op # "remove" /\ t[i].path = p /\ t[i].value = v
  BY <1>1, PositionTouched
<1>6. AllSet(t, p, v)
  BY <1>4, <1>5 DEF AllSet
<1>7. p \in DOMAIN Apply(o, t).fields /\ Apply(o, t).fields[p] = v
  BY <1>1, <1>2, <1>6, SetByAll
<1> QED
  BY <1>3, <1>7 DEF Value

(* A claim has the new name of the one it had, or keeps it.                 *)
LEMMA ClaimPaths ==
  ASSUME NEW o, WellFormed(o), NEW p \in ClaimsOf(o)
  PROVE  /\ p \in DOMAIN o.fields /\ Position(p) /\ p[Len(p)] # "image"
         /\ GK(o) \in Workloads
         /\ \/ \E i \in Index : p = Claim(PodSpec(GK(o)), i)
            \/ GK(o) = <<"apps", "StatefulSet">> /\ \E i \in Index : p = Template(i)
<1>1. p \in DOMAIN o.fields /\ GK(o) \in Workloads
  BY DEF ClaimsOf
<1>2. CASE IsClaim(p)
  <2>1. PICK i \in Index : p = Claim(PodSpec(GK(o)), i)
    BY <1>1, <1>2 DEF WellFormed
  <2>2. InPodSpec(GK(o), p, "volumes") /\ p[Len(p)] = "claimName"
    BY <2>1, PodPaths, Endings
  <2> QED
    BY <1>1, <2>1, <2>2 DEF InPodSpec, Position
<1>3. CASE \E i \in Index : p = Template(i)
  <2>1. PICK i \in Index : p = Template(i)
    BY <1>3
  <2>2. GK(o) = <<"apps", "StatefulSet">>
    BY <1>1, <2>1 DEF WellFormed
  <2>3. p[1] = "spec" /\ p[2] = "volumeClaimTemplates"
    BY <2>1 DEF Template
  <2>4. p[Len(p)] = "name"
    BY <2>1, Endings
  <2> QED
    BY <1>1, <2>1, <2>2, <2>3, <2>4 DEF Position
<1> QED
  BY <1>2, <1>3 DEF ClaimsOf

LEMMA NameReplaced ==
  ASSUME NEW k, GoodOptions(k), NEW o, IsObject(o), CarriedOut(k, o), GK(o) \in Workloads,
         NEW p \in DOMAIN o.fields, Position(p), p[Len(p)] # "image",
         \/ \E i \in Index : p = Claim(PodSpec(GK(o)), i)
         \/ GK(o) = <<"apps", "StatefulSet">> /\ \E i \in Index : p = Template(i)
  PROVE  Value(Patched(k, o), p)
           = IF o.fields[p] \in DOMAIN k.renames THEN k.renames[o.fields[p]] ELSE o.fields[p]
<1>1. /\ p \in DOMAIN o.fields /\ Position(p) /\ p[Len(p)] # "image"
      /\ GK(o) \in Workloads
      /\ \/ \E i \in Index : p = Claim(PodSpec(GK(o)), i)
         \/ GK(o) = <<"apps", "StatefulSet">> /\ \E i \in Index : p = Template(i)
  OBVIOUS
<1>2. Value(o, p) = o.fields[p]
  BY <1>1 DEF Value
<1>3. ASSUME NEW x \in Operations(k, o), Touches(x, p)
      PROVE  o.fields[p] \in DOMAIN k.renames /\ x.value = k.renames[o.fields[p]]
  <2>1. /\ x.path = p
        /\ x \in ClaimOps(k, o) \/ x \in TemplateOps(k, o) \/ x \in ImageOps(k, o)
    BY <1>1, <1>3, PositionTouched
  <2>2. x \notin ImageOps(k, o)
    BY <1>1, <2>1, ReferencePaths
  <2> QED
    BY <1>2, <2>1, <2>2, RenameValues
<1>4. CASE o.fields[p] \in DOMAIN k.renames
  <2> DEFINE x == ReplacePath(p, k.renames[o.fields[p]])
  <2>1. x \in ClaimOps(k, o) \/ x \in TemplateOps(k, o)
    <3>1. CASE \E i \in Index : p = Claim(PodSpec(GK(o)), i)
      BY <1>1, <1>2, <1>4, <3>1 DEF ClaimOps
    <3>2. CASE GK(o) = <<"apps", "StatefulSet">> /\ \E i \in Index : p = Template(i)
      BY <1>2, <1>4, <3>2 DEF TemplateOps
    <3> QED
      BY <1>1, <3>1, <3>2
  <2>2. x \in Operations(k, o)
    BY <2>1 DEF Operations
  <2>3. x.path = p /\ x.op # "remove"
    BY OperationParts
  <2> HIDE DEF x
  <2> DEFINE v == k.renames[o.fields[p]]
  <2>4. \A y \in Operations(k, o) : Touches(y, p) => y.value = v
    BY <1>3
  <2> HIDE DEF v
  <2>5. Value(Patched(k, o), p) = v
    BY <1>1, <2>2, <2>3, <2>4, PositionSet
  <2> QED
    BY <1>4, <2>5 DEF v
<1>5. CASE o.fields[p] \notin DOMAIN k.renames
  <2>1. Value(Patched(k, o), p) = o.fields[p]
    BY <1>1, <1>3, <1>5, PositionKept
  <2> QED
    BY <1>5, <2>1
<1> QED
  BY <1>4, <1>5

LEMMA ClaimRenamed ==
  ASSUME NEW k, GoodOptions(k), NEW o, IsObject(o), WellFormed(o), CarriedOut(k, o), NEW p \in ClaimsOf(o)
  PROVE  Value(Patched(k, o), p)
           = IF o.fields[p] \in DOMAIN k.renames THEN k.renames[o.fields[p]] ELSE o.fields[p]
BY ClaimPaths, NameReplaced

(* The replaceable positions of an image are its prefixes in the registry.  *)
LEMMA PrefixesOf ==
  ASSUME NEW k, GoodOptions(k), NEW image, IsPath(image), NEW prefix \in DOMAIN k.registry,
         IsPrefix(prefix, image)
  PROVE  Len(prefix) \in Replaceable(k, image)
<1>1. prefix \in Seq(Range(prefix)) /\ prefix # <<>> /\ image \in Seq(Range(image))
  BY DEF GoodOptions, IsPath
<1>2. Len(prefix) \in Nat \ {0} /\ Len(image) \in Nat /\ DOMAIN image = 1..Len(image)
  BY <1>1, LenProperties, EmptySeq
<1>3. Len(prefix) <= Len(image) /\ SubSeq(prefix, 1, Len(prefix)) = SubSeq(image, 1, Len(prefix))
  BY DEF IsPrefix
<1>4. SubSeq(prefix, 1, Len(prefix)) = prefix
  BY <1>1, SubSeqFull
<1>5. Len(prefix) \in DOMAIN image
  BY <1>2, <1>3
<1> QED
  BY <1>3, <1>4, <1>5 DEF Replaceable

(* The longest replaceable prefix is one of the registry, and no other      *)
(* prefix is longer.                                                        *)
LongestReplaced(k, was, now) ==
  \E prefix \in DOMAIN k.registry :
    /\ IsPrefix(prefix, was)
    /\ now = k.registry[prefix] \o SubSeq(was, Len(prefix) + 1, Len(was))
    /\ \A other \in DOMAIN k.registry : IsPrefix(other, was) => Len(other) <= Len(prefix)

LEMMA LongestPrefix ==
  ASSUME NEW k, GoodOptions(k), NEW image, IsPath(image), Replaceable(k, image) # {}
  PROVE  LongestReplaced(k, image, UpdateImageRegistry(k, image))
<1> DEFINE m == Max(Replaceable(k, image))
           prefix == SubSeq(image, 1, m)
<1>1. /\ m \in 1..Len(image) /\ Len(image) \in Nat /\ prefix \in DOMAIN k.registry
      /\ \A i \in Replaceable(k, image) : i <= m
  BY LastReplaceable
<1>2. UpdateImageRegistry(k, image) = k.registry[prefix] \o SubSeq(image, m + 1, Len(image))
  BY DEF UpdateImageRegistry, UpdatedAt
<1> HIDE DEF m
<1>3. image \in Seq(Range(image))
  BY DEF IsPath
<1>4. \A i \in 1..m : image[i] \in Range(image)
  BY <1>1, <1>3, ElementOfSeq
<1>5. prefix \in Seq(Range(image)) /\ Len(prefix) = m
  BY <1>1, <1>3, <1>4, SubSeqProperties
<1>6. SubSeq(prefix, 1, Len(prefix)) = prefix
  BY <1>5, SubSeqFull
<1>7. IsPrefix(prefix, image)
  BY <1>1, <1>5, <1>6 DEF IsPrefix
<1> HIDE DEF prefix
<1>8. \A other \in DOMAIN k.registry : IsPrefix(other, image) => Len(other) <= Len(prefix)
  BY <1>1, <1>5, PrefixesOf
<1> QED
  BY <1>1, <1>2, <1>5, <1>7, <1>8 DEF LongestReplaced, prefix

LEMMA NothingReplaceable ==
  ASSUME NEW k, GoodOptions(k), NEW image, IsPath(image), Replaceable(k, image) = {}
  PROVE  ~\E prefix \in DOMAIN k.registry : IsPrefix(prefix, image)
BY PrefixesOf

LEMMA BehindTemplate ==
  \A c, i : LET p == <<"spec", "template", "spec">> \o <<c, i, "image">>
            IN  Len(p) \in Nat /\ Len(p) >= 2 /\ p[1] = "spec" /\ p[2] = "template"
OBVIOUS

(* Only the images of a CronJob are out of reach of the plugin.             *)
LEMMA ImagesBehindTemplates ==
  ASSUME NEW o, WellFormed(o), ImagePaths(o) # {}
  PROVE  HasImages(o) \/ GK(o) = <<"batch", "CronJob">>
<1> SUFFICES ASSUME GK(o) # <<"", "Pod">>, GK(o) # <<"batch", "CronJob">>
             PROVE  IsPodSpecable(o)
  BY DEF HasImages
<1>1. PICK p \in DOMAIN o.fields, c \in {"containers", "initContainers"}, i \in Index :
             p = PodSpec(GK(o)) \o <<c, i, "image">>
  BY DEF ImagePaths
<1>2. PodSpec(GK(o)) = <<"spec", "template", "spec">>
  BY DEF PodSpec, InTemplate
<1>3. IsPath(p)
  BY <1>1 DEF WellFormed
<1>4. Len(p) \in Nat /\ Len(p) >= 2 /\ p[1] = "spec" /\ p[2] = "template"
  BY <1>1, <1>2, BehindTemplate
<1>5. IsPrefix(<<"spec", "template">>, p)
  BY <1>3, <1>4, PrefixOfTwo
<1> QED
  BY <1>1, <1>5 DEF IsPodSpecable, Found

LEMMA ImagePosition ==
  ASSUME NEW o, NEW p \in ImagePaths(o)
  PROVE  p \in DOMAIN o.fields /\ Position(p) /\ p[Len(p)] = "image"
<1>1. PICK c \in {"containers", "initContainers"}, i \in Index : p = PodSpec(GK(o)) \o <<c, i, "image">>
  BY DEF ImagePaths
<1>2. p \in DOMAIN o.fields
  BY DEF ImagePaths
<1>3. InPodSpec(GK(o), p, c) /\ p[Len(p)] = "image"
  BY <1>1, PodPaths, Endings
<1>4. Position(p)
  BY <1>3 DEF InPodSpec, Position
<1> QED
  BY <1>2, <1>3, <1>4

LEMMA ImageReplaced ==
  ASSUME NEW k, GoodOptions(k), NEW o, IsObject(o), WellFormed(o), CarriedOut(k, o),
         NEW p \in ImagePaths(o)
  PROVE  IF HasImages(o) /\ Replaceable(k, o.fields[p]) # {}
         THEN LongestReplaced(k, o.fields[p], Value(Patched(k, o), p))
         ELSE Value(Patched(k, o), p) = o.fields[p]
<1>1. p \in DOMAIN o.fields /\ Position(p) /\ p[Len(p)] = "image"
  BY ImagePosition
<1>2. IsPath(o.fields[p])
  BY DEF WellFormed
<1>3. ASSUME NEW x \in Operations(k, o), Touches(x, p)
      PROVE  /\ HasImages(o) /\ Replaceable(k, o.fields[p]) # {}
             /\ x.value = UpdateImageRegistry(k, o.fields[p])
  <2>1. /\ x.path = p
        /\ x \in ClaimOps(k, o) \/ x \in TemplateOps(k, o) \/ x \in ImageOps(k, o)
    BY <1>1, <1>3, PositionTouched
  <2>2. x \in ImageOps(k, o)
    BY <1>1, <2>1, ReferencePaths
  <2> QED
    BY <2>1, <2>2, ImageValues
<1>4. CASE HasImages(o) /\ Replaceable(k, o.fields[p]) # {}
  <2> DEFINE x == ReplacePath(p, UpdateImageRegistry(k, o.fields[p]))
  <2>1. x \in ImageOps(k, o)
    BY <1>4 DEF ImageOps
  <2>2. x \in Operations(k, o)
    BY <2>1 DEF Operations
  <2>3. x.path = p /\ x.op # "remove"
    BY OperationParts
  <2> HIDE DEF x
  <2>4. Value(Patched(k, o), p) = UpdateImageRegistry(k, o.fields[p])
    BY <1>1, <1>3, <2>2, <2>3, PositionSet
  <2> QED
    BY <1>2, <1>4, <2>4, LongestPrefix
<1>5. CASE ~(HasImages(o) /\ Replaceable(k, o.fields[p]) # {})
  <2>1. Value(Patched(k, o), p) = o.fields[p]
    BY <1>1, <1>3, <1>5, PositionKept
  <2> QED
    BY <1>5, <2>1
<1> QED
  BY <1>4, <1>5

LEMMA ImageRenamed ==
  ASSUME NEW k, GoodOptions(k), NEW o, IsObject(o), WellFormed(o), CarriedOut(k, o),
         NEW p \in ImagePaths(o)
  PROVE  \/ /\ Value(Patched(k, o), p) = o.fields[p]
            /\ \/ GK(o) = <<"batch", "CronJob">>
               \/ ~\E prefix \in DOMAIN k.registry : IsPrefix(prefix, o.fields[p])
         \/ LongestReplaced(k, o.fields[p], Value(Patched(k, o), p))
<1>1. IsPath(o.fields[p])
  BY DEF WellFormed
<1>2. HasImages(o) \/ GK(o) = <<"batch", "CronJob">>
  BY ImagesBehindTemplates
<1>3. CASE HasImages(o) /\ Replaceable(k, o.fields[p]) # {}
  BY <1>3, ImageReplaced
<1>4. CASE Replaceable(k, o.fields[p]) = {}
  <2>1. Value(Patched(k, o), p) = o.fields[p]
    BY <1>4, ImageReplaced
  <2> QED
    BY <1>1, <1>4, <2>1, NothingReplaceable
<1>5. CASE GK(o) = <<"batch", "CronJob">> /\ ~HasImages(o)
  BY <1>5, ImageReplaced
<1> QED
  BY <1>2, <1>3, <1>4, <1>5

(* At every stage a claim gets the name that the renames give to the one it *)
(* had, all at once, and an image the replacement of its longest prefix in  *)
(* the registry map, whatever else the answer has for the object            *)
(* (RenamePVCs, renamePVCTemplates, UpdateImageRegistry).                   *)
THEOREM ReferencesRenamed == Spec => []ReferencesRenamedOnce
<1>1. TypeInv => ReferencesRenamedOnce
  <2> SUFFICES ASSUME TypeInv, Applied
               PROVE  ReferencesRenamedOnce
    BY DEF ReferencesRenamedOnce
  <2>1. /\ GoodOptions(options) /\ IsObject(object) /\ WellFormed(object)
        /\ output = Patched(options, object) /\ CarriedOut(options, object)
    BY DEF TypeInv, UsableOptions, AnswerInv, Applied
  <2>2. ASSUME NEW p \in ClaimsOf(object)
        PROVE  Value(output, p) = IF object.fields[p] \in DOMAIN options.renames
                                  THEN options.renames[object.fields[p]] ELSE object.fields[p]
    BY <2>1, ClaimRenamed
  <2>3. ASSUME NEW p \in ImagePaths(object)
        PROVE  \/ /\ Value(output, p) = object.fields[p]
                  /\ \/ GK(object) = <<"batch", "CronJob">>
                     \/ ~\E prefix \in DOMAIN options.registry : IsPrefix(prefix, object.fields[p])
               \/ LongestReplaced(options, object.fields[p], Value(output, p))
    BY <2>1, ImageRenamed
  <2> QED
    BY <2>2, <2>3 DEF ReferencesRenamedOnce, LongestReplaced
<1> QED
  BY <1>1, TypeInvariance, PTL

-----------------------------------------------------------------------------
(* What is gone from a patched object.                                      *)
LEMMA GoneUnder ==
  ASSUME NEW k, GoodOptions(k), NEW o, IsObject(o), NEW q,
         Found(o, q) => RemovePath(q) \in Operations(k, o),
         ~IsPrefix(q, SuspendAt),
         \A a \in DOMAIN k.add : ~IsPrefix(q, AnnotationsAt \o Parts[a])
  PROVE  ~Found(Patched(k, o), q)
<1> DEFINE t == getKubernetesTransforms(k, o)
<1>1. /\ Len(t) \in Nat
      /\ \A i \in 1..Len(t) : t[i] \in Operations(k, o)
      /\ \A x \in Operations(k, o) : \E i \in 1..Len(t) : t[i] = x
  BY TransformPositions
<1>2. Patched(k, o).fields = Apply(o, t).fields
  BY PatchedObject
<1> HIDE DEF t
<1>3. \/ NoneUnder(q, o.fields)
      \/ \E i \in 1..Len(t) : t[i].op = "remove" /\ t[i].path = q
  <2>1. CASE Found(o, q)
    <3>1. PICK i \in 1..Len(t) : t[i] = RemovePath(q)
      BY <1>1, <2>1
    <3> QED
      BY <3>1, OperationParts
  <2>2. CASE ~Found(o, q)
    BY <2>2 DEF Found, NoneUnder
  <2> QED
    BY <2>1, <2>2
<1>4. ASSUME NEW i \in 1..Len(t), t[i].op = "add"
      PROVE  ~IsPrefix(q, t[i].path)
  <2>1. \/ \E a \in DOMAIN k.add : t[i].path = AnnotationsAt \o Parts[a]
        \/ t[i].path = SuspendAt
    BY <1>1, <1>4, Additions
  <2> QED
    BY <2>1
<1>5. NoneUnder(q, Apply(o, t).fields)
  BY <1>1, <1>3, <1>4, Removed
<1> QED
  BY <1>2, <1>5 DEF NoneUnder, Found

(* A path of two parts or more that starts differently from both kinds of   *)
(* additions.                                                               *)
LEMMA ApartFromAdditions ==
  ASSUME NEW q, Len(q) \in Nat, Len(q) >= 2, q[1] = "spec", q[2] # "suspend"
  PROVE  /\ ~IsPrefix(q, SuspendAt)
         /\ \A a \in DOMAIN Parts : ~IsPrefix(q, AnnotationsAt \o Parts[a])
<1>1. 1 \in 1..Len(q) /\ 2 \in 1..Len(q)
  OBVIOUS
<1>2. \A p : IsPrefix(q, p) => p[1] = "spec" /\ p[2] = q[2]
  BY <1>1, PrefixParts
<1>3. SuspendAt[2] = "suspend" /\ \A a \in DOMAIN Parts : (AnnotationsAt \o Parts[a])[1] = "metadata"
  BY AddedPaths DEF Annotation
<1> QED
  BY <1>2, <1>3

LEMMA SpecGone ==
  ASSUME NEW k, GoodOptions(k), NEW o, IsObject(o), NEW q,
         Len(q) \in Nat, Len(q) >= 2, q[1] = "spec", q[2] # "suspend",
         Found(o, q) => RemovePath(q) \in Operations(k, o)
  PROVE  ~Found(Patched(k, o), q)
<1>1. /\ ~IsPrefix(q, SuspendAt)
      /\ \A a \in DOMAIN k.add : ~IsPrefix(q, AnnotationsAt \o Parts[a])
  BY ApartFromAdditions DEF GoodOptions
<1> QED
  BY <1>1, GoneUnder

LEMMA ShortPaths ==
  /\ \A f \in {"nodeName", "nodeSelector", "priority", "selector"} :
       LET q == <<"spec", f>>
       IN  Len(q) \in Nat /\ Len(q) >= 2 /\ q[1] = "spec" /\ q[2] = f /\ q[2] # "suspend"
  /\ Len(<<"secrets">>) \in Nat /\ 1 \in 1..Len(<<"secrets">>) /\ <<"secrets">>[1] = "secrets"
OBVIOUS

LEMMA GeneratedPaths ==
  /\ JobLabelPaths = {<<"spec", "template", "metadata", "labels", c>> : c \in ControllerKeys}
  /\ MatchPaths = {<<"spec", "selector", "matchLabels", c>> : c \in ControllerKeys}
<1>1. ASSUME NEW c
      PROVE  /\ <<"spec", "template", "metadata", "labels">> \o <<c>>
                  = <<"spec", "template", "metadata", "labels", c>>
             /\ <<"spec", "selector", "matchLabels">> \o <<c>>
                  = <<"spec", "selector", "matchLabels", c>>
  <2>1. <<"spec", "template", "metadata", "labels">> \o <<c>>
          = <<"spec", "template", "metadata", "labels", c>>
    <3> DEFINE u == <<"spec", "template", "metadata", "labels">> \o <<c>>
               v == <<"spec", "template", "metadata", "labels", c>>
               S == {"spec", "template", "metadata", "labels", c}
    <3>1. u \in Seq(S) /\ v \in Seq(S)
      OBVIOUS
    <3>2. Len(u) = 5 /\ Len(v) = 5
      OBVIOUS
    <3>3. u[1] = v[1] /\ u[2] = v[2] /\ u[3] = v[3] /\ u[4] = v[4] /\ u[5] = v[5]
      OBVIOUS
    <3> HIDE DEF u, v, S
    <3>4. \A i \in 1..5 : i = 1 \/ i = 2 \/ i = 3 \/ i = 4 \/ i = 5
      OBVIOUS
    <3>5. \A i \in 1..Len(u) : u[i] = v[i]
      BY <3>2, <3>3, <3>4
    <3>6. u = v
      BY <3>1, <3>2, <3>5, SeqEqual
    <3> QED
      BY <3>6 DEF u, v
  <2>2. <<"spec", "selector", "matchLabels">> \o <<c>> = <<"spec", "selector", "matchLabels", c>>
    <3> DEFINE u == <<"spec", "selector", "matchLabels">> \o <<c>>
               v == <<"spec", "selector", "matchLabels", c>>
               S == {"spec", "selector", "matchLabels", c}
    <3>1. u \in Seq(S) /\ v \in Seq(S)
      OBVIOUS
    <3>2. Len(u) = 4 /\ Len(v) = 4
      OBVIOUS
    <3>3. u[1] = v[1] /\ u[2] = v[2] /\ u[3] = v[3] /\ u[4] = v[4]
      OBVIOUS
    <3> HIDE DEF u, v, S
    <3>4. \A i \in 1..4 : i = 1 \/ i = 2 \/ i = 3 \/ i = 4
      OBVIOUS
    <3>5. \A i \in 1..Len(u) : u[i] = v[i]
      BY <3>2, <3>3, <3>4
    <3>6. u = v
      BY <3>1, <3>2, <3>5, SeqEqual
    <3> QED
      BY <3>6 DEF u, v
  <2> QED
    BY <2>1, <2>2
<1> QED
  BY <1>1 DEF JobLabelPaths, MatchPaths

(* Nothing the old cluster gave an object is left, unless the user adds it. *)
LEMMA StrippedGone ==
  ASSUME NEW k, GoodOptions(k), NEW o, IsObject(o), NEW q \in StrippedFields,
         \A a \in DOMAIN k.add : ~IsPrefix(q, AnnotationsAt \o Parts[a])
  PROVE  ~Found(Patched(k, o), q)
<1>1. Found(o, q) => RemovePath(q) \in Operations(k, o)
  BY DEF Operations, StripOps
<1>2. ~IsPrefix(q, SuspendAt)
  <2>1. Fits(<<>>, q)
    BY StrippedFit
  <2>2. SuspendAt[1] = "spec"
    BY AddedPaths
  <2>3. ~Reach(<<>>, SuspendAt)
    BY <2>2 DEF Reach, SpecReach
  <2> QED
    BY <2>1, <2>3 DEF Fits
<1> QED
  BY <1>1, <1>2, GoneUnder

LEMMA PodFieldsGone ==
  ASSUME NEW k, GoodOptions(k), NEW o, IsObject(o), GK(o) = <<"", "Pod">>,
         NEW f \in {"nodeName", "nodeSelector", "priority"}
  PROVE  ~Found(Patched(k, o), <<"spec", f>>)
<1>1. RemovePath(<<"spec", f>>) \in Operations(k, o)
  BY DEF Operations, PodOps
<1> DEFINE q == <<"spec", f>>
<1>2. Len(q) \in Nat /\ Len(q) >= 2 /\ q[1] = "spec" /\ q[2] # "suspend"
  BY ShortPaths
<1> HIDE DEF q
<1>4. RemovePath(q) \in Operations(k, o)
  BY <1>1 DEF q
<1>5. ~Found(Patched(k, o), q)
  BY <1>2, <1>4, SpecGone
<1> QED
  BY <1>5 DEF q

LEMMA SecretsGone ==
  ASSUME NEW k, GoodOptions(k), NEW o, IsObject(o), GK(o) = <<"", "ServiceAccount">>
  PROVE  ~Found(Patched(k, o), <<"secrets">>)
<1> DEFINE q == <<"secrets">>
<1>1. Found(o, q) => RemovePath(q) \in Operations(k, o)
  BY DEF Operations, SecretOps
<1>2. Len(q) \in Nat /\ 1 \in 1..Len(q) /\ q[1] = "secrets"
  BY ShortPaths
<1> HIDE DEF q
<1>3. \A p : IsPrefix(q, p) => p[1] = "secrets"
  BY <1>2, PrefixParts
<1>4. SuspendAt[1] = "spec" /\ \A a \in DOMAIN Parts : (AnnotationsAt \o Parts[a])[1] = "metadata"
  BY AddedPaths DEF Annotation
<1>5. ~IsPrefix(q, SuspendAt) /\ \A a \in DOMAIN k.add : ~IsPrefix(q, AnnotationsAt \o Parts[a])
  BY <1>3, <1>4 DEF GoodOptions
<1>6. ~Found(Patched(k, o), q)
  BY <1>1, <1>5, GoneUnder
<1> QED
  BY <1>6 DEF q

(* A Job keeps no generated label and no generated selector: unless the     *)
(* user manages it, the whole selector is removed.                          *)
LEMMA JobFieldsGone ==
  ASSUME NEW k, GoodOptions(k), NEW o, IsObject(o), WellFormed(o), GK(o) = <<"batch", "Job">>,
         NEW q \in JobLabelPaths \cup MatchPaths
  PROVE  ~Found(Patched(k, o), q)
<1>1. Len(q) \in Nat /\ Len(q) >= 2 /\ q[1] = "spec" /\ q[2] \in {"selector", "template"}
  <2>1. CASE q \in JobLabelPaths
    BY <2>1, JobParts
  <2>2. CASE q \in MatchPaths
    <3>1. PICK c : q = <<"spec", "selector", "matchLabels">> \o <<c>>
      BY <2>2 DEF MatchPaths
    <3> QED
      BY <3>1
  <2> QED
    BY <2>1, <2>2
<1>2. q[2] # "suspend"
  BY <1>1
<1>3. CASE q \in SelectorPaths(o) \cup JobLabelPaths
  <2>1. Found(o, q) => RemovePath(q) \in Operations(k, o)
    BY <1>3 DEF Operations, JobOps
  <2> QED
    BY <1>1, <1>2, <2>1, SpecGone
<1>4. CASE q \notin SelectorPaths(o) \cup JobLabelPaths
  <2> DEFINE s == <<"spec", "selector">>
  <2>1. q \in MatchPaths /\ SelectorPaths(o) = {s}
    BY <1>4 DEF SelectorPaths
  <2>2. Found(o, s) => RemovePath(s) \in Operations(k, o)
    BY <2>1 DEF Operations, JobOps
  <2>3. Len(s) = 2 /\ s[1] = "spec" /\ s[2] = "selector"
    BY TupleParts
  <2>4. \A p : IsPath(p) /\ Len(p) \in Nat /\ Len(p) >= 2 /\ p[1] = "spec" /\ p[2] = "selector"
                 => IsPrefix(s, p)
    BY PrefixOfTwo
  <2> HIDE DEF s
  <2>5. Len(s) \in Nat /\ Len(s) >= 2 /\ s[2] # "suspend"
    BY <2>3
  <2>6. ~Found(Patched(k, o), s)
    BY <2>2, <2>3, <2>5, SpecGone
  <2>7. q[2] = "selector"
    <3>1. PICK c : q = <<"spec", "selector", "matchLabels">> \o <<c>>
      BY <2>1 DEF MatchPaths
    <3> QED
      BY <3>1
  <2>8. ASSUME NEW p \in DOMAIN Patched(k, o).fields, IsPrefix(q, p)
        PROVE  FALSE
    <3>1. IsPath(p)
      BY <2>8, WellFormedStays DEF WellFormed
    <3>2. Len(p) \in Nat
      BY <3>1, LenProperties DEF IsPath
    <3>3. Len(p) >= 2
      BY <1>1, <2>8, <3>2 DEF IsPrefix
    <3>4. p[1] = "spec" /\ p[2] = "selector"
      <4>1. 1 \in 1..Len(q) /\ 2 \in 1..Len(q)
        BY <1>1
      <4> QED
        BY <1>1, <2>7, <2>8, <4>1, PrefixParts
    <3>5. IsPrefix(s, p)
      BY <2>4, <3>1, <3>2, <3>3, <3>4
    <3> QED
      BY <2>6, <2>8, <3>5 DEF Found
  <2> QED
    BY <2>8 DEF Found
<1> QED
  BY <1>3, <1>4

LEMMA LeftoversGone ==
  ASSUME NEW k, GoodOptions(k), NEW o, IsObject(o), WellFormed(o), NEW q \in Leftovers(Patched(k, o)),
         Found(Patched(k, o), q)
  PROVE  \E a \in DOMAIN k.add : IsPrefix(q, AnnotationsAt \o Parts[a])
<1>1. GK(Patched(k, o)) = GK(o)
  BY PatchedObject
<1>2. CASE q \in StrippedFields
  BY <1>2, StrippedGone
<1>3. CASE q \notin StrippedFields
  <2>1. /\ GK(o) = <<"", "Pod">> => q \in {<<"spec", f>> : f \in {"nodeName", "nodeSelector", "priority"}}
        /\ GK(o) # <<"", "Pod">> /\ GK(o) = <<"", "ServiceAccount">> => q = <<"secrets">>
        /\ GK(o) # <<"", "Pod">> /\ GK(o) # <<"", "ServiceAccount">> /\ GK(o) = <<"batch", "Job">>
             => q \in JobLabelPaths \cup MatchPaths
        /\ GK(o) \in {<<"", "Pod">>, <<"", "ServiceAccount">>, <<"batch", "Job">>}
    <3>1. /\ <<"", "Pod">> # <<"", "ServiceAccount">> /\ <<"", "Pod">> # <<"batch", "Job">>
          /\ <<"", "ServiceAccount">> # <<"batch", "Job">>
      BY PairsEqual
    <3>2. CASE GK(o) = <<"", "Pod">>
      BY <1>1, <1>3, <3>1, <3>2 DEF Leftovers
    <3>3. CASE GK(o) = <<"", "ServiceAccount">>
      BY <1>1, <1>3, <3>1, <3>3 DEF Leftovers
    <3>4. CASE GK(o) = <<"batch", "Job">>
      <4> DEFINE L == {<<"spec", "template", "metadata", "labels", c>> : c \in ControllerKeys}
                 N == {<<"spec", "selector", "matchLabels", c>> : c \in ControllerKeys}
      <4>1. q \in L \cup N
        BY <1>1, <1>3, <3>1, <3>4 DEF Leftovers
      <4>2. L = JobLabelPaths /\ N = MatchPaths
        BY GeneratedPaths
      <4> HIDE DEF L, N
      <4>3. q \in JobLabelPaths \cup MatchPaths
        BY <4>1, <4>2
      <4> QED
        BY <3>1, <3>4, <4>3
    <3>5. CASE GK(o) \notin {<<"", "Pod">>, <<"", "ServiceAccount">>, <<"batch", "Job">>}
      BY <1>1, <1>3, <3>5 DEF Leftovers
    <3> QED
      BY <3>2, <3>3, <3>4, <3>5
  <2>2. CASE GK(o) = <<"", "Pod">>
    BY <2>1, <2>2, PodFieldsGone
  <2>3. CASE GK(o) # <<"", "Pod">> /\ GK(o) = <<"", "ServiceAccount">>
    BY <2>1, <2>3, SecretsGone
  <2>4. CASE GK(o) # <<"", "Pod">> /\ GK(o) # <<"", "ServiceAccount">> /\ GK(o) = <<"batch", "Job">>
    BY <2>1, <2>4, JobFieldsGone
  <2> QED
    BY <2>1, <2>2, <2>3, <2>4
<1> QED
  BY <1>2, <1>3

LEMMA ServicePaths ==
  \A q \in {<<"spec", "externalIPs">>, <<"spec", "clusterIP">>, <<"spec", "clusterIPs">>} :
     Len(q) \in Nat /\ 2 \in 1..Len(q) /\ q[2] # "ports"
OBVIOUS

(* Node ports are never invented.                                           *)
LEMMA NodePortParts ==
  ASSUME NEW i
  PROVE  /\ Len(NodePort(i)) \in Nat /\ Len(NodePort(i)) = 4
         /\ NodePort(i)[1] = "spec" /\ NodePort(i)[2] = "ports" /\ NodePort(i)[3] = i
         /\ NodePort(i)[2] # "suspend"
BY DEF NodePort

LEMMA BehindNodePort ==
  ASSUME NEW i, NEW p, IsPrefix(NodePort(i), p) \/ NodePort(i) = p
  PROVE  p[1] = "spec" /\ p[2] = "ports" /\ p[3] = i
<1>1. \A j \in 1..Len(NodePort(i)) : p[j] = NodePort(i)[j]
  BY NodePortParts, PrefixParts
<1>2. 1 \in 1..Len(NodePort(i)) /\ 2 \in 1..Len(NodePort(i)) /\ 3 \in 1..Len(NodePort(i))
  BY NodePortParts
<1> QED
  BY <1>1, <1>2, NodePortParts

LEMMA FewerNodePorts ==
  ASSUME NEW k, GoodOptions(k), NEW o, IsObject(o)
  PROVE  NodePortsOf(Patched(k, o)) \subseteq NodePortsOf(o)
<1> SUFFICES ASSUME NEW i \in NodePortsOf(Patched(k, o))
             PROVE  i \in NodePortsOf(o)
  OBVIOUS
<1>1. i \in Index /\ GK(o) = <<"", "Service">> /\ Found(Patched(k, o), NodePort(i))
  BY PatchedObject DEF NodePortsOf
<1>2. PICK p \in DOMAIN Patched(k, o).fields : IsPrefix(NodePort(i), p)
  BY <1>1 DEF Found
<1>3. p[1] = "spec" /\ p[2] = "ports"
  BY <1>2, BehindNodePort
<1>4. p # SuspendAt
  BY <1>3, AddedPaths
<1>5. p \in DOMAIN o.fields
  BY <1>3, <1>4, OldPaths
<1> QED
  BY <1>1, <1>2, <1>5 DEF NodePortsOf, Found

LEMMA RenamesReplace ==
  ASSUME NEW k, NEW o, NEW x \in ClaimOps(k, o) \cup TemplateOps(k, o) \cup ImageOps(k, o)
  PROVE  x.op = "replace"
<1>1. CASE x \in ClaimOps(k, o)
  BY <1>1, OperationParts DEF ClaimOps
<1>2. CASE x \in TemplateOps(k, o)
  BY <1>2, OperationParts DEF TemplateOps
<1>3. CASE x \in ImageOps(k, o)
  BY <1>3, OperationParts DEF ImageOps
<1> QED
  BY <1>1, <1>2, <1>3

(* Only an allocated node port is removed.                                  *)
LEMMA PortTouched ==
  ASSUME NEW k, GoodOptions(k), NEW o, GK(o) = <<"", "Service">>, NEW i,
         NEW p, IsPrefix(NodePort(i), p), NEW x \in Operations(k, o), Touches(x, p)
  PROVE  Allocated(o, i)
<1>1. p[1] = "spec" /\ p[2] = "ports" /\ p[3] = i
  BY BehindNodePort
<1>2. x \notin StripOps(o) \cup AnnotationOps(k) \cup SubjectOps(o) \cup SecretOps(o)
  BY <1>1, OutsideSpec
<1>3. x \notin PodOps(o) /\ x \notin JobOps(o) /\ x \notin SuspendOps(o)
  BY KindsApart DEF PodOps, JobOps, SuspendOps, MustWait
<1>4. x \notin ClaimOps(k, o) /\ x \notin TemplateOps(k, o) /\ x \notin ImageOps(k, o)
  <2> SUFFICES ASSUME x \in ClaimOps(k, o) \cup TemplateOps(k, o) \cup ImageOps(k, o) PROVE FALSE
    OBVIOUS
  <2>1. x.op = "replace"
    BY RenamesReplace
  <2>2. x.path = p
    BY <2>1 DEF Touches
  <2> QED
    BY <1>1, <2>1, <2>2, Replacements
<1>5. x \in ServiceOps(o)
  BY <1>2, <1>3, <1>4 DEF Operations
<1>6. CASE \E q \in AddressPaths(o) : x = RemovePath(q)
  <2>1. x.path \in {<<"spec", "externalIPs">>, <<"spec", "clusterIP">>, <<"spec", "clusterIPs">>}
    BY <1>6, OperationParts DEF AddressPaths
  <2>2. Len(x.path) \in Nat /\ 2 \in 1..Len(x.path) /\ x.path[2] # "ports"
    BY <2>1, ServicePaths
  <2> QED
    BY <1>1, <2>2, TouchedParts
<1>7. CASE \E j \in Index : Allocated(o, j) /\ x = RemovePath(NodePort(j))
  <2>1. PICK j \in Index : Allocated(o, j) /\ x = RemovePath(NodePort(j))
    BY <1>7
  <2>2. x.path = NodePort(j)
    BY <2>1, OperationParts
  <2>3. IsPrefix(NodePort(j), p) \/ NodePort(j) = p
    BY <2>2 DEF Touches
  <2>4. i = j
    BY <1>1, <2>3, BehindNodePort
  <2> QED
    BY <2>1, <2>4
<1> QED
  BY <1>5, <1>6, <1>7 DEF ServiceOps

(* The record of what kubectl applied is found where it is.                 *)
LEMMA AppliedParts ==
  /\ Len(AnnotationsAt) = 2 /\ AnnotationsAt[1] = "metadata" /\ AnnotationsAt[2] = "annotations"
  /\ AppliedAt \in Seq({"metadata", "annotations", AppliedKey})
  /\ Len(AppliedAt) = 3 /\ AppliedAt[1] = "metadata" /\ AppliedAt[2] = "annotations"
  /\ AppliedAt[3] = AppliedKey
  /\ IsPrefix(AnnotationsAt, AppliedAt)
<1>1. Len(AnnotationsAt) = 2 /\ AnnotationsAt[1] = "metadata" /\ AnnotationsAt[2] = "annotations"
  BY DEF AnnotationsAt
<1> DEFINE c == AppliedKey
<1> HIDE DEF c
<1>2. /\ AnnotationsAt \o <<c>> \in Seq({"metadata", "annotations", c})
      /\ Len(AnnotationsAt \o <<c>>) = 3
      /\ (AnnotationsAt \o <<c>>)[1] = "metadata" /\ (AnnotationsAt \o <<c>>)[2] = "annotations"
      /\ (AnnotationsAt \o <<c>>)[3] = c
  BY DEF AnnotationsAt
<1>3. IsPath(AnnotationsAt \o <<c>>)
  BY <1>2 DEF IsPath, Range
<1>4. IsPrefix(<<"metadata", "annotations">>, AnnotationsAt \o <<c>>)
  <2> DEFINE q == AnnotationsAt \o <<c>>
  <2>1. IsPath(q) /\ Len(q) = 3 /\ q[1] = "metadata" /\ q[2] = "annotations"
    BY <1>2, <1>3
  <2> HIDE DEF q
  <2>2. Len(q) \in Nat /\ Len(q) >= 2
    BY <2>1
  <2>3. IsPrefix(<<"metadata", "annotations">>, q)
    BY <2>1, <2>2, PrefixOfTwo
  <2> QED
    BY <2>3 DEF q
<1> QED
  BY <1>1, <1>2, <1>4 DEF AppliedAt, AnnotationsAt, c

LEMMA AppliedFound ==
  ASSUME NEW o, WellFormed(o), PlainAnnotations(o)
  PROVE  AppliedKey \in AnnotationKeys(o) <=> AppliedAt \in DOMAIN o.fields
<1> DEFINE at == {p \in DOMAIN o.fields : IsPrefix(AnnotationsAt, p)}
<1>1. AnnotationKeys(o) = {p[3] : p \in at}
  BY DEF AnnotationKeys, PlainAnnotations
<1>2. ASSUME NEW p \in at, p[3] = AppliedKey
      PROVE  p = AppliedAt
  <2>1. p \in Seq(Range(p)) /\ Len(p) = 3
    BY <1>2 DEF WellFormed, IsPath, PlainAnnotations
  <2>2. p[1] = "metadata" /\ p[2] = "annotations"
    <3>1. IsPrefix(AnnotationsAt, p)
      BY <1>2
    <3>2. Len(AnnotationsAt) \in Nat /\ 1 \in 1..Len(AnnotationsAt) /\ 2 \in 1..Len(AnnotationsAt)
      BY AppliedParts
    <3> QED
      BY <3>1, <3>2, AppliedParts, PrefixParts
  <2> DEFINE S == Range(p) \cup {"metadata", "annotations", AppliedKey}
  <2>3. p \in Seq(S) /\ AppliedAt \in Seq(S)
    BY <2>1, AppliedParts, SeqMonotonic
  <2> HIDE DEF S
  <2>4. \A j \in 1..3 : j = 1 \/ j = 2 \/ j = 3
    OBVIOUS
  <2>5. \A j \in 1..Len(p) : p[j] = AppliedAt[j]
    BY <1>2, <2>1, <2>2, <2>4, AppliedParts
  <2> QED
    BY <2>1, <2>3, <2>5, AppliedParts, SeqEqual
<1>3. AppliedAt \in DOMAIN o.fields => AppliedAt \in at /\ AppliedAt[3] = AppliedKey
  BY AppliedParts
<1> QED
  BY <1>1, <1>2, <1>3

(* The first patch leaves the node ports of the user and no others.         *)
WantedOf(o) ==
  {i \in NodePortsOf(o) :
     /\ AppliedAt \in DOMAIN o.fields
     /\ \E asked \in o.fields[AppliedAt] :
          /\ asked.name = Value(o, <<"spec", "ports", i, "name">>)
          /\ asked.nodePort \notin {"", "0"}
          /\ asked.name = "" => asked.nodePort = Value(o, NodePort(i))}

LEMMA ExplicitWanted ==
  ASSUME NEW o, WellFormed(o), PlainAnnotations(o), NEW i \in NodePortsOf(o)
  PROVE  i \in WantedOf(o) <=>
           IsExplicit(o, Value(o, <<"spec", "ports", i, "name">>), Value(o, NodePort(i)))
<1> DEFINE name == Value(o, <<"spec", "ports", i, "name">>)
           port == Value(o, NodePort(i))
<1>1. i \in WantedOf(o) <=>
        /\ AppliedAt \in DOMAIN o.fields
        /\ \E asked \in o.fields[AppliedAt] :
             asked.name = name /\ asked.nodePort \notin {"", "0"}
             /\ (asked.name = "" => asked.nodePort = port)
  BY DEF WantedOf
<1> HIDE DEF name, port
<1>2. CASE AppliedAt \in DOMAIN o.fields
  <2>1. Explicit(o) = {p \in o.fields[AppliedAt] : p.nodePort \notin {"", "0"}}
    BY <1>2, AppliedFound DEF Explicit, AppliedAt
  <2>2. IsExplicit(o, name, port) <=>
          \E p \in o.fields[AppliedAt] :
            /\ p.nodePort \notin {"", "0"}
            /\ IF name = "" THEN p.name = "" /\ p.nodePort = port ELSE p.name = name
    BY <2>1 DEF IsExplicit
  <2> QED
    BY <1>1, <1>2, <2>2 DEF name, port
<1>3. CASE AppliedAt \notin DOMAIN o.fields
  <2>1. Explicit(o) = {}
    BY <1>3, AppliedFound DEF Explicit
  <2>2. ~IsExplicit(o, name, port)
    BY <2>1 DEF IsExplicit
  <2> QED
    BY <1>1, <1>3, <2>2 DEF name, port
<1> QED
  BY <1>2, <1>3

LEMMA FirstPatch ==
  ASSUME NEW k, GoodOptions(k), NEW o, IsObject(o), WellFormed(o), PlainAnnotations(o), RealNodePorts(o)
  PROVE  NodePortsOf(Patched(k, o)) = WantedOf(o)
<1>1. ASSUME NEW i \in NodePortsOf(o)
      PROVE  i \in WantedOf(o) <=> ~Allocated(o, i)
  <2>1. i \in Index /\ GK(o) = <<"", "Service">> /\ Found(o, NodePort(i))
    BY <1>1 DEF NodePortsOf
  <2>2. /\ Value(o, NodePort(i)) \notin {"", "0"}
        /\ Value(o, <<"spec", "type">>) \notin {"", "ExternalName"}
    BY <2>1 DEF RealNodePorts
  <2>3. Allocated(o, i) <=>
          ~IsExplicit(o, Value(o, <<"spec", "ports", i, "name">>), Value(o, NodePort(i)))
    BY <2>1, <2>2 DEF Allocated
  <2> QED
    BY <1>1, <2>3, ExplicitWanted
<1>2. ASSUME NEW i \in NodePortsOf(Patched(k, o))
      PROVE  i \in WantedOf(o)
  <2>1. i \in NodePortsOf(o)
    BY <1>2, FewerNodePorts
  <2>2. i \in Index /\ Found(Patched(k, o), NodePort(i))
    BY <1>2 DEF NodePortsOf
  <2>3. ~Allocated(o, i)
    <3> SUFFICES ASSUME Allocated(o, i) PROVE FALSE
      OBVIOUS
    <3>1. RemovePath(NodePort(i)) \in Operations(k, o)
      BY <2>2 DEF Operations, ServiceOps
    <3>2. Len(NodePort(i)) >= 2
      BY NodePortParts
    <3>3. ~Found(Patched(k, o), NodePort(i))
      BY <3>1, <3>2, NodePortParts, SpecGone
    <3> QED
      BY <2>2, <3>3
  <2> QED
    BY <1>1, <2>1, <2>3
<1>3. ASSUME NEW i \in WantedOf(o)
      PROVE  i \in NodePortsOf(Patched(k, o))
  <2>1. i \in NodePortsOf(o)
    BY DEF WantedOf
  <2>2. ~Allocated(o, i)
    BY <1>1, <1>3, <2>1
  <2>3. i \in Index /\ GK(o) = <<"", "Service">> /\ Found(o, NodePort(i))
    BY <2>1 DEF NodePortsOf
  <2>4. PICK p \in DOMAIN o.fields : IsPrefix(NodePort(i), p)
    BY <2>3 DEF Found
  <2>5. \A x \in Operations(k, o) : ~Touches(x, p)
    BY <2>2, <2>3, <2>4, PortTouched
  <2>6. Stays(o.fields, Patched(k, o).fields, p)
    BY <2>5, OthersStay, PatchedObject
  <2>7. Found(Patched(k, o), NodePort(i))
    BY <2>4, <2>6 DEF Found, Stays
  <2>8. GK(Patched(k, o)) = GK(o)
    BY PatchedObject
  <2> QED
    BY <2>3, <2>7, <2>8 DEF NodePortsOf
<1> QED
  BY <1>2, <1>3

LEMMA PrefixOfItself ==
  ASSUME NEW s, Len(s) \in Nat
  PROVE  IsPrefix(s, s)
BY DEF IsPrefix

(* What is an address after the patch was none to remove before it.         *)
ServiceAddresses == {<<"spec", "externalIPs">>, <<"spec", "clusterIP">>, <<"spec", "clusterIPs">>}

LEMMA ServiceAddressParts ==
  /\ \A s \in ServiceAddresses :
       /\ Len(s) \in Nat /\ Len(s) >= 2 /\ 1 \in 1..Len(s) /\ 2 \in 1..Len(s)
       /\ s[1] = "spec" /\ s[2] \in {"externalIPs", "clusterIP", "clusterIPs"} /\ s[2] # "ports" /\ s[2] # "suspend"
  /\ \A s, t \in ServiceAddresses : s[2] = t[2] => s = t
BY DEF ServiceAddresses

LEMMA BehindAddress ==
  ASSUME NEW s \in ServiceAddresses, NEW p, IsPrefix(s, p) \/ s = p
  PROVE  p[1] = "spec" /\ p[2] = s[2] /\ p[2] \in {"externalIPs", "clusterIP", "clusterIPs"}
<1>1. /\ Len(s) \in Nat /\ 1 \in 1..Len(s) /\ 2 \in 1..Len(s)
      /\ s[1] = "spec" /\ s[2] \in {"externalIPs", "clusterIP", "clusterIPs"}
  BY ServiceAddressParts
<1>2. \A i \in 1..Len(s) : p[i] = s[i]
  BY <1>1, PrefixParts
<1> QED
  BY <1>1, <1>2

LEMMA AddressTouched ==
  ASSUME NEW k, GoodOptions(k), NEW o, GK(o) = <<"", "Service">>, NEW s \in ServiceAddresses,
         NEW p, IsPrefix(s, p), NEW x \in Operations(k, o), Touches(x, p)
  PROVE  s \in AddressPaths(o)
<1>1. p[1] = "spec" /\ p[2] = s[2] /\ p[2] \in {"externalIPs", "clusterIP", "clusterIPs"}
  BY BehindAddress
<1>2. x \notin StripOps(o) \cup AnnotationOps(k) \cup SubjectOps(o) \cup SecretOps(o)
  BY <1>1, OutsideSpec
<1>3. x \notin PodOps(o) /\ x \notin JobOps(o) /\ x \notin SuspendOps(o)
  BY KindsApart DEF PodOps, JobOps, SuspendOps, MustWait
<1>4. x \notin ClaimOps(k, o) /\ x \notin TemplateOps(k, o) /\ x \notin ImageOps(k, o)
  <2> SUFFICES ASSUME x \in ClaimOps(k, o) \cup TemplateOps(k, o) \cup ImageOps(k, o) PROVE FALSE
    OBVIOUS
  <2>1. x.op = "replace"
    BY RenamesReplace
  <2>2. x.path = p
    BY <2>1 DEF Touches
  <2> QED
    BY <1>1, <2>1, <2>2, Replacements
<1>5. x \in ServiceOps(o)
  BY <1>2, <1>3, <1>4 DEF Operations
<1>6. CASE \E t \in AddressPaths(o) : x = RemovePath(t)
  <2>1. PICK t \in AddressPaths(o) : x = RemovePath(t)
    BY <1>6
  <2>2. x.path = t /\ t \in ServiceAddresses
    BY <2>1, OperationParts DEF AddressPaths, ServiceAddresses
  <2>5. IsPrefix(t, p) \/ t = p
    BY <2>2 DEF Touches
  <2>3. p[2] = t[2]
    BY <2>2, <2>5, BehindAddress
  <2>4. s = t
    BY <1>1, <2>2, <2>3, ServiceAddressParts
  <2> QED
    BY <2>1, <2>4
<1>7. CASE \E i \in Index : x = RemovePath(NodePort(i))
  <2>1. PICK i \in Index : x = RemovePath(NodePort(i))
    BY <1>7
  <2>2. x.path = NodePort(i)
    BY <2>1, OperationParts
  <2>3. IsPrefix(NodePort(i), p) \/ NodePort(i) = p
    BY <2>2 DEF Touches
  <2>4. p[2] = "ports"
    BY <2>3, BehindNodePort
  <2> QED
    BY <1>1, <2>4
<1> QED
  BY <1>5, <1>6, <1>7 DEF ServiceOps

(* The type of a Service stays.                                             *)
LEMMA TypeStays ==
  ASSUME NEW k, GoodOptions(k), NEW o, IsObject(o)
  PROVE  Value(Patched(k, o), <<"spec", "type">>) = Value(o, <<"spec", "type">>)
<1> DEFINE n == <<"spec", "type">>
<1>1. n[1] = "spec" /\ n[2] = "type"
  OBVIOUS
<1> HIDE DEF n
<1>2. ~Reach(GK(o), n)
  BY <1>1 DEF Reach, SpecReach
<1>3. ASSUME NEW x \in Operations(k, o), Touches(x, n)
      PROVE  FALSE
  <2>1. CASE x.op \in {"add", "remove"}
    BY <1>2, <1>3, <2>1, PathsReach DEF Moves
  <2>2. CASE x.op \notin {"add", "remove"}
    <3>1. x.path = n
      BY <1>3, <2>2 DEF Touches
    <3> QED
      BY <1>1, <2>2, <3>1, Replacements
  <2> QED
    BY <2>1, <2>2
<1>4. Stays(o.fields, Patched(k, o).fields, n)
  BY <1>3, OthersStay, PatchedObject
<1> QED
  BY <1>4 DEF Stays, Value, n

(* What the service patch is to take away is gone after it.                 *)
LEMMA AddressesGone ==
  ASSUME NEW k, GoodOptions(k), NEW o, IsObject(o), NEW q, q = Patched(k, o), NEW s \in AddressPaths(q)
  PROVE  ~Found(q, s)
<1>0. GK(q) = GK(o)
  BY PatchedObject
<1>1. GK(q) = <<"", "Service">> /\ s \in ServiceAddresses
  BY DEF AddressPaths, ServiceAddresses
<1>2. CASE s \in AddressPaths(o)
  <2>1. RemovePath(s) \in Operations(k, o)
    BY <1>2 DEF Operations, ServiceOps
  <2>2. Len(s) \in Nat /\ Len(s) >= 2 /\ s[1] = "spec" /\ s[2] # "suspend"
    BY <1>1, ServiceAddressParts
  <2> QED
    BY <1>0, <2>1, <2>2, SpecGone
<1>3. CASE s \notin AddressPaths(o)
  <2>1. ASSUME NEW p, IsPrefix(s, p)
        PROVE  Value(q, p) = Value(o, p)
    <3>1. \A x \in Operations(k, o) : ~Touches(x, p)
      BY <1>0, <1>1, <1>3, <2>1, AddressTouched
    <3>2. Stays(o.fields, q.fields, p)
      BY <1>0, <3>1, OthersStay, PatchedObject
    <3> QED
      BY <3>2 DEF Stays, Value
  <2>2. Value(q, <<"spec", "type">>) = Value(o, <<"spec", "type">>)
    BY TypeStays
  <2>3. Found(q, s) => Found(o, s)
    <3> SUFFICES ASSUME NEW p \in DOMAIN q.fields, IsPrefix(s, p)
                 PROVE  Found(o, s)
      BY DEF Found
    <3>1. p[1] = "spec" /\ p[2] # "suspend"
      BY <1>1, BehindAddress
    <3>2. p \in DOMAIN o.fields
      BY <3>1, OldPaths DEF SuspendAt
    <3> QED
      BY <3>2 DEF Found
  <2>4. Value(q, s) = Value(o, s)
    BY <1>1, <2>1, ServiceAddressParts, PrefixOfItself
  <2>5. CASE s = <<"spec", "externalIPs">>
    BY <1>0, <1>3, <2>2, <2>5 DEF AddressPaths
  <2>6. CASE s = <<"spec", "clusterIP">>
    BY <1>0, <1>3, <2>3, <2>4, <2>6 DEF AddressPaths, Bound
  <2>7. CASE s = <<"spec", "clusterIPs">>
    <3> DEFINE f == <<"spec", "clusterIPs">> \o <<"0">>
    <3>1. IsPrefix(s, f)
      BY <2>7 DEF IsPrefix
    <3>2. Value(q, f) = Value(o, f)
      BY <2>1, <3>1
    <3> HIDE DEF f
    <3>3. Bound(q, s, f) => Bound(o, s, f)
      BY <2>3, <3>2 DEF Bound
    <3> QED
      BY <1>0, <1>3, <2>7, <3>3 DEF AddressPaths, f
  <2> QED
    BY <1>1, <2>5, <2>6, <2>7 DEF ServiceAddresses
<1> QED
  BY <1>2, <1>3

(* In its first stage an object is as it was exported; in a later one it    *)
(* has no node port that the user did not want.  What is patched is of a    *)
(* kind that passes.                                                        *)
AtStage(n) == IF n <= 1 THEN object = original ELSE NodePortsOf(object) \subseteq WantedOf(original)
PortsInv ==
  /\ answer.status \in {"exported", "patched", "applied"} => original \in Objects
  /\ answer.status = "exported" => AtStage(stage + 1)
  /\ answer.status \in {"patched", "applied"} =>
       stage >= 1 /\ AtStage(stage) /\ ~ByKind(options, object)

LEMMA StagePorts ==
  ASSUME TypeInv, PortsInv, Applied
  PROVE  /\ NodePortsOf(output) \subseteq WantedOf(original)
         /\ stage = 1 => NodePortsOf(output) = WantedOf(original)
<1>1. /\ GoodOptions(options) /\ IsObject(object) /\ output = Patched(options, object)
      /\ stage \in Nat /\ stage >= 1 /\ AtStage(stage) /\ original \in Objects
  BY DEF TypeInv, UsableOptions, AnswerInv, StageInv, PortsInv, Applied
<1>2. CASE stage = 1
  <2>1. object = original
    BY <1>1, <1>2 DEF AtStage
  <2>2. NodePortsOf(output) = WantedOf(original)
    BY <1>1, <2>1, ObjectsAreObjects, FirstPatch
  <2> QED
    BY <2>2
<1>3. CASE stage # 1
  <2>1. ~(stage <= 1)
    BY <1>1, <1>3
  <2>2. NodePortsOf(object) \subseteq WantedOf(original)
    BY <1>1, <2>1 DEF AtStage
  <2>3. NodePortsOf(output) \subseteq NodePortsOf(object)
    BY <1>1, FewerNodePorts
  <2> QED
    BY <1>3, <2>2, <2>3
<1> QED
  BY <1>2, <1>3

LEMMA PortsInvNext == TypeInv /\ PortsInv /\ [Next]_vars => PortsInv'
<1> SUFFICES ASSUME TypeInv, PortsInv, [Next]_vars
             PROVE  PortsInv'
  OBVIOUS
<1>0. stage \in Nat
  BY BoundsAssumption DEF TypeInv, StageInv
<1>1. CASE Export
  <2>1. /\ answer' = [status |-> "exported", patches |-> <<>>] /\ stage' = 0
        /\ object' = original' /\ original' \in Objects
    BY <1>1 DEF Export, Reply
  <2>2. answer'.status = "exported"
    BY <2>1
  <2>3. stage' + 1 <= 1
    BY <2>1
  <2> QED
    BY <2>1, <2>2, <2>3 DEF PortsInv, AtStage
<1>2. CASE Run
  <2>1. /\ answer.status = "exported" /\ stage' = stage + 1
        /\ object' = object /\ original' = original
    BY <1>2 DEF Run
  <2>2. answer'.status \in {"panic", "error", "whiteout", "patched"}
    BY <1>2 DEF Run, Reply, Answer
  <2>6. answer'.status = "patched" => ~ByKind(options, object)'
    <3>1. answer'.status = "patched" => ~getWhiteOuts(options', object)
      BY <1>2 DEF Run, Reply, Answer
    <3> QED
      BY <2>1, <3>1 DEF getWhiteOuts
  <2>3. stage' >= 1
    BY <1>0, <2>1
  <2>4. original \in Objects /\ AtStage(stage + 1)
    BY <2>1 DEF PortsInv
  <2>5. AtStage(stage)'
    BY <2>1, <2>4 DEF AtStage, NodePortsOf, WantedOf
  <2> QED
    BY <2>1, <2>2, <2>3, <2>4, <2>5, <2>6 DEF PortsInv
<1>3. CASE ApplyPatches
  <2>1. /\ answer.status = "patched" /\ stage' = stage
        /\ object' = object /\ original' = original /\ options' = options
    BY <1>3 DEF ApplyPatches
  <2>2. answer'.status \in {"applied", "broken"}
    BY <1>3 DEF ApplyPatches, Reply
  <2>3. original \in Objects /\ stage >= 1 /\ AtStage(stage) /\ ~ByKind(options, object)
    BY <2>1 DEF PortsInv
  <2>4. AtStage(stage)'
    BY <2>1, <2>3 DEF AtStage, NodePortsOf, WantedOf
  <2> QED
    BY <2>1, <2>2, <2>3, <2>4 DEF PortsInv
<1>4. CASE NextStage
  <2>1. /\ answer.status = "applied" /\ object' = output /\ original' = original /\ stage' = stage
        /\ answer' = [status |-> "exported", patches |-> <<>>]
    BY <1>4 DEF NextStage, Reply
  <2>2. answer'.status = "exported"
    BY <2>1
  <2>3. NodePortsOf(output) \subseteq WantedOf(original)
    BY <2>1, StagePorts DEF Applied
  <2>4. original \in Objects /\ stage >= 1
    BY <2>1 DEF PortsInv
  <2>5. ~(stage + 1 <= 1)
    BY <1>0, <2>4
  <2>6. AtStage(stage + 1)'
    BY <2>1, <2>3, <2>5 DEF AtStage, NodePortsOf, WantedOf
  <2> QED
    BY <2>1, <2>2, <2>4, <2>6 DEF PortsInv
<1>5. CASE UNCHANGED vars
  BY <1>5 DEF vars, PortsInv, AtStage, NodePortsOf, WantedOf
<1> QED
  BY <1>1, <1>2, <1>3, <1>4, <1>5 DEF Next

LEMMA PortsInvariance == Spec => []PortsInv
<1>1. Init => PortsInv
  <2>1. Init => answer.status = "none"
    BY DEF Init
  <2> QED
    BY <2>1 DEF PortsInv
<1> QED
  BY <1>1, TypeInvariance, PortsInvNext, PTL DEF Spec

(* A Service whose addresses to be removed are none has none.               *)
LEMMA NoAddress ==
  ASSUME NEW q, GK(q) = <<"", "Service">>, \A s \in AddressPaths(q) : ~Found(q, s)
  PROVE  /\ Value(q, <<"spec", "clusterIP">>) \in {"", "None"}
         /\ Found(q, <<"spec", "clusterIPs">>) => Value(q, <<"spec", "clusterIPs">> \o <<"0">>) = "None"
         /\ Value(q, <<"spec", "type">>) = "LoadBalancer" => ~Found(q, <<"spec", "externalIPs">>)
<1> DEFINE ext == <<"spec", "externalIPs">>
           ip == <<"spec", "clusterIP">>
           ips == <<"spec", "clusterIPs">>
           first == ips \o <<"0">>
           lb == Value(q, <<"spec", "type">>) = "LoadBalancer"
<1>0. AddressPaths(q) =
        {p \in {ext, ip, ips} :
           /\ GK(q) = <<"", "Service">>
           /\ \/ p = ext /\ lb
              \/ p = ip /\ Bound(q, p, ip)
              \/ p = ips /\ Bound(q, p, first)}
  BY DEF AddressPaths
<1>1. /\ {ext, ip, ips} \subseteq ServiceAddresses
      /\ lb => ext \in AddressPaths(q)
      /\ Bound(q, ip, ip) => ip \in AddressPaths(q)
      /\ Bound(q, ips, first) => ips \in AddressPaths(q)
  <2>1. {ext, ip, ips} \subseteq ServiceAddresses
    BY DEF ServiceAddresses
  <2> HIDE DEF ext, ip, ips, first, lb
  <2> QED
    BY <1>0, <2>1
<1>3. Value(q, ip) # "" => Found(q, ip)
  <2>1. IsPrefix(ip, ip)
    BY <1>1, ServiceAddressParts, PrefixOfItself
  <2> HIDE DEF ip
  <2> QED
    BY <2>1 DEF Value, Found
<1> HIDE DEF ext, ip, ips, first, lb
<1>4. Value(q, ip) \in {"", "None"}
  BY <1>1, <1>3 DEF Bound
<1>5. Found(q, ips) => Value(q, first) = "None"
  BY <1>1 DEF Bound
<1>6. lb => ~Found(q, ext)
  BY <1>1
<1> QED
  BY <1>4, <1>5, <1>6 DEF ext, ip, ips, first, lb

(* What leaves the applier is rid of what the code means to take away,      *)
(* whatever the requests and whatever the stage: what the old cluster gave  *)
(* the object except what the user adds, the addresses of a Service that    *)
(* removeServiceFields names, node ports the user did not ask for - and     *)
(* after the first stage it has all those he did - and kinds that are bound *)
(* to the old cluster, unless the user names them (stripFields,             *)
(* removePodFields, removeJobControllerUID, removeServiceFields,            *)
(* getNodePortPatch, getWhiteOuts).                                         *)
THEOREM AppliedPortable == Spec => []AppliedIsPortable
<1>1. TypeInv /\ PortsInv => AppliedIsPortable
  <2> SUFFICES ASSUME TypeInv, PortsInv, Applied
               PROVE  AppliedIsPortable
    BY DEF AppliedIsPortable
  <2>1. /\ GoodOptions(options) /\ IsObject(object) /\ WellFormed(object)
        /\ output = Patched(options, object)
    BY DEF TypeInv, UsableOptions, AnswerInv, Applied
  <2>2. ASSUME NEW p \in Leftovers(output), Found(output, p)
        PROVE  \E a \in DOMAIN options.add : IsPrefix(p, AnnotationsAt \o Parts[a])
    BY <2>1, <2>2, LeftoversGone
  <2>3. ASSUME GK(output) = <<"", "Service">>
        PROVE  /\ Value(output, <<"spec", "clusterIP">>) \in {"", "None"}
               /\ Found(output, <<"spec", "clusterIPs">>)
                    => Value(output, <<"spec", "clusterIPs">> \o <<"0">>) = "None"
               /\ Value(output, <<"spec", "type">>) = "LoadBalancer" => ~Found(output, <<"spec", "externalIPs">>)
    <3>1. \A s \in AddressPaths(output) : ~Found(output, s)
      BY <2>1, AddressesGone
    <3> QED
      BY <2>3, <3>1, NoAddress
  <2>6. ASSUME GK(output) \in ClusterBound
        PROVE  GK(output) \in options.only
    <3>1. GK(object) = GK(output)
      BY <2>1, PatchedObject
    <3>2. ~ByKind(options, object)
      BY DEF PortsInv, Applied
    <3>3. GK(object) \in gksToWhiteout
      BY <2>6, <3>1 DEF ClusterBound, gksToWhiteout
    <3> QED
      BY <3>1, <3>2, <3>3 DEF ByKind
  <2>4. WantedOf(original) = Wanted
    BY DEF WantedOf, Wanted
  <2>5. NodePortsOf(output) \subseteq Wanted /\ (stage = 1 => NodePortsOf(output) = Wanted)
    BY <2>4, StagePorts
  <2> QED
    BY <2>2, <2>3, <2>5, <2>6 DEF AppliedIsPortable
<1> QED
  BY <1>1, TypeInvariance, PortsInvariance, PTL

-----------------------------------------------------------------------------
(* The order of an answer: what is stripped, the annotations added, and then *)
(* what is removed and everything else.                                      *)
KeyAt(a) == AnnotationsAt \o Parts[a]
Adds(k) == {AddPath(KeyAt(a), k.add[a]) : a \in DOMAIN k.add}
Removes(k) == {RemovePath(KeyAt(a)) : a \in k.remove}
Rest(k, o) ==
  (((((((PodOps(o) \cup ClaimOps(k, o)) \cup TemplateOps(k, o)) \cup JobOps(o)) \cup SuspendOps(o))
    \cup SubjectOps(o)) \cup SecretOps(o)) \cup ImageOps(k, o)) \cup ServiceOps(o)

LEMMA JoinedPositions ==
  ASSUME NEW s, NEW t, IsPatch(s), IsPatch(t)
  PROVE  /\ Len(s) \in Nat /\ Len(t) \in Nat /\ Len(s \o t) = Len(s) + Len(t)
         /\ \A i \in 1..Len(s) : (s \o t)[i] = s[i]
         /\ \A i \in 1..Len(t) : (s \o t)[Len(s) + i] = t[i]
<1> DEFINE S == Range(s) \cup Range(t)
<1>1. s \in Seq(S) /\ t \in Seq(S) /\ Len(s) \in Nat /\ Len(t) \in Nat
  BY SeqMonotonic, LenProperties DEF IsPatch
<1> HIDE DEF S
<1>2. /\ Len(s \o t) = Len(s) + Len(t)
      /\ \A i \in 1..Len(s) + Len(t) : (s \o t)[i] = IF i <= Len(s) THEN s[i] ELSE t[i - Len(s)]
  BY <1>1, ConcatProperties
<1>3. \A m, n \in Nat : /\ \A i \in 1..m : i \in 1..m + n /\ i <= m
                        /\ \A i \in 1..n : m + i \in 1..m + n /\ ~(m + i <= m) /\ (m + i) - m = i
  OBVIOUS
<1> QED
  BY <1>1, <1>2, <1>3

(* What an answer has behind a position.                                    *)
Behind(s, b, S) ==
  /\ \A i \in 1..Len(s) : i > b => s[i] \in S
  /\ \A x \in S : \E i \in 1..Len(s) : i > b /\ s[i] = x

(* An answer starts with what is stripped and the annotations added.        *)
Begins(k, o, s, m, b, S) ==
  /\ IsPatch(s) /\ m \in Nat /\ b \in Nat /\ m <= b /\ b <= Len(s)
  /\ \A i \in 1..Len(s) : i <= m => s[i] \in StripOps(o)
  /\ \A i \in 1..Len(s) : i > m /\ i <= b => s[i] \in Adds(k)
  /\ \A x \in Adds(k) : \E i \in 1..Len(s) : i > m /\ i <= b /\ s[i] = x
  /\ Behind(s, b, S)

LEMMA BeginsLonger ==
  ASSUME NEW k, NEW o, NEW s, NEW m, NEW b, NEW S, Begins(k, o, s, m, b, S), NEW t, IsPatch(t)
  PROVE  Begins(k, o, s \o t, m, b, S \cup Range(t))
<1> DEFINE u == s \o t
           n == Len(s)
           l == Len(t)
           T == Range(t)
<1>1. /\ n \in Nat /\ l \in Nat /\ Len(u) = n + l
      /\ \A i \in 1..n : u[i] = s[i]
      /\ \A i \in 1..l : u[n + i] = t[i]
  BY JoinedPositions DEF Begins
<1>2. IsPatch(u) /\ T = {t[i] : i \in 1..l}
  BY JoinedPatch, PatchValues DEF Begins
<1>3. /\ m \in Nat /\ b \in Nat /\ m <= b /\ b <= n
      /\ \A i \in 1..n : i <= m => s[i] \in StripOps(o)
      /\ \A i \in 1..n : i > m /\ i <= b => s[i] \in Adds(k)
      /\ \A x \in Adds(k) : \E i \in 1..n : i > m /\ i <= b /\ s[i] = x
      /\ \A i \in 1..n : i > b => s[i] \in S
      /\ \A x \in S : \E i \in 1..n : i > b /\ s[i] = x
  BY DEF Begins, Behind
<1> HIDE DEF u, n, l, T
<1>4. /\ \A i \in 1..n + l : i <= b => i \in 1..n
      /\ \A i \in 1..n + l : i <= m => i \in 1..n
      /\ \A i \in 1..n : i \in 1..n + l
      /\ \A i \in 1..l : n + i \in 1..n + l /\ n + i > b
      /\ \A i \in 1..n + l : i \notin 1..n => i - n \in 1..l /\ n + (i - n) = i
  BY <1>1, <1>3
<1>5. /\ \A i \in 1..n + l : i <= m => u[i] \in StripOps(o)
      /\ \A i \in 1..n + l : i > m /\ i <= b => u[i] \in Adds(k)
  BY <1>1, <1>3, <1>4
<1>6. \A x \in Adds(k) : \E i \in 1..n + l : i > m /\ i <= b /\ u[i] = x
  BY <1>1, <1>3, <1>4
<1>7. ASSUME NEW i \in 1..n + l, i > b
      PROVE  u[i] \in S \cup T
  <2>1. CASE i \in 1..n
    BY <1>1, <1>3, <1>7, <2>1
  <2>2. CASE i \notin 1..n
    <3>1. i - n \in 1..l /\ u[i] = t[i - n]
      BY <1>1, <1>4, <2>2
    <3> QED
      BY <1>2, <3>1
  <2> QED
    BY <2>1, <2>2
<1>8. ASSUME NEW x \in S \cup T
      PROVE  \E i \in 1..n + l : i > b /\ u[i] = x
  <2>1. CASE x \in S
    BY <1>1, <1>3, <1>4, <2>1
  <2>2. CASE x \in T
    <3>1. PICK j \in 1..l : t[j] = x
      BY <1>2, <2>2
    <3> QED
      BY <1>1, <1>4, <3>1
  <2> QED
    BY <2>1, <2>2
<1>9. b <= n + l
  BY <1>1, <1>3
<1>10. Begins(k, o, u, m, b, S \cup T)
  BY <1>1, <1>2, <1>3, <1>5, <1>6, <1>7, <1>8, <1>9 DEF Begins, Behind
<1> QED
  BY <1>10 DEF u, T

LEMMA Beginning ==
  ASSUME NEW k, GoodOptions(k), NEW o
  PROVE  \E m, b : Begins(k, o, stripFields(o) \o addAnnotations(k), m, b, {})
<1> DEFINE s == stripFields(o)
           t == addAnnotations(k)
           u == s \o t
           n == Len(s)
           l == Len(t)
<1>1. /\ IsPatch(s) /\ Range(s) = StripOps(o) /\ IsPatch(t) /\ Range(t) = Adds(k)
  BY stripFieldsOps, addAnnotationsOps DEF StripOps, Adds, KeyAt
<1>2. IsPatch(u)
  BY <1>1, JoinedPatch
<1>3. /\ n \in Nat /\ l \in Nat /\ Len(u) = n + l
      /\ \A i \in 1..n : u[i] = s[i]
      /\ \A i \in 1..l : u[n + i] = t[i]
  BY <1>1, JoinedPositions
<1>4. StripOps(o) = {s[i] : i \in 1..n} /\ Adds(k) = {t[i] : i \in 1..l}
  BY <1>1, PatchValues
<1> HIDE DEF s, t, u, n, l
<1>5. /\ \A i \in 1..n + l : i <= n => i \in 1..n
      /\ \A i \in 1..n + l : i > n => i - n \in 1..l /\ n + (i - n) = i
      /\ \A i \in 1..l : n + i \in 1..n + l /\ n + i > n /\ n + i <= n + l
      /\ n <= n + l /\ n + l \in Nat /\ n + l <= n + l
      /\ \A i \in 1..n + l : ~(i > n + l)
  BY <1>3
<1>6. \A i \in 1..n + l : i <= n => u[i] \in StripOps(o)
  BY <1>3, <1>4, <1>5
<1>7. ASSUME NEW i \in 1..n + l, i > n
      PROVE  u[i] \in Adds(k)
  <2>1. i - n \in 1..l /\ u[i] = t[i - n]
    BY <1>3, <1>5, <1>7
  <2> QED
    BY <1>4, <2>1
<1>8. ASSUME NEW x \in Adds(k)
      PROVE  \E i \in 1..n + l : i > n /\ i <= n + l /\ u[i] = x
  <2>1. PICK j \in 1..l : t[j] = x
    BY <1>4
  <2> QED
    BY <1>3, <1>5, <2>1
<1>9. Begins(k, o, u, n, n + l, {})
  BY <1>2, <1>3, <1>5, <1>6, <1>7, <1>8 DEF Begins, Behind
<1> QED
  BY <1>9 DEF u, s, t

LEMMA Zones ==
  ASSUME NEW k, GoodOptions(k), NEW o
  PROVE  \E m, b : Begins(k, o, getKubernetesTransforms(k, o), m, b, Removes(k) \cup Rest(k, o))
<1> DEFINE s1 == stripFields(o) \o addAnnotations(k)
           s2 == s1 \o removeAnnotations(k)
           s3 == s2 \o removePodFields(o)
           s4 == s3 \o RenamePVCs(k, o)
           s5 == s4 \o renamePVCTemplates(k, o)
           s6 == s5 \o removeJobControllerUID(o)
           s7 == s6 \o suspendStandaloneJob(o)
           s8 == s7 \o Subjects(o)
           s9 == s8 \o AccountSecrets(o)
           s10 == s9 \o UpdateImages(k, o)
           s11 == s10 \o removeServiceFields(o)
<1>0. getKubernetesTransforms(k, o) = s11
  BY DEF getKubernetesTransforms
<1>1. PICK m, b : Begins(k, o, s1, m, b, {})
  BY Beginning
<1> HIDE DEF s1
<1>2. Begins(k, o, s2, m, b, {} \cup Removes(k))
  BY <1>1, BeginsLonger, removeAnnotationsOps DEF Removes, KeyAt
<1> HIDE DEF s2
<1>3. Begins(k, o, s3, m, b, ({} \cup Removes(k)) \cup PodOps(o))
  BY <1>2, BeginsLonger, removePodFieldsOps DEF PodOps
<1> HIDE DEF s3
<1> DEFINE S3 == ({} \cup Removes(k)) \cup PodOps(o)
<1>4. Begins(k, o, s4, m, b, S3 \cup ClaimOps(k, o))
  BY <1>3, BeginsLonger, RenamePVCsOps
<1> HIDE DEF s4
<1> DEFINE S4 == S3 \cup ClaimOps(k, o)
<1>5. Begins(k, o, s5, m, b, S4 \cup TemplateOps(k, o))
  BY <1>4, BeginsLonger, renamePVCTemplatesOps
<1> HIDE DEF s5
<1> DEFINE S5 == S4 \cup TemplateOps(k, o)
<1>6. Begins(k, o, s6, m, b, S5 \cup JobOps(o))
  BY <1>5, BeginsLonger, removeJobControllerUIDOps
<1> HIDE DEF s6
<1> DEFINE S6 == S5 \cup JobOps(o)
<1>7. Begins(k, o, s7, m, b, S6 \cup SuspendOps(o))
  BY <1>6, BeginsLonger, suspendStandaloneJobOps DEF SuspendOps
<1> HIDE DEF s7
<1> DEFINE S7 == S6 \cup SuspendOps(o)
<1>8. Begins(k, o, s8, m, b, S7 \cup SubjectOps(o))
  BY <1>7, BeginsLonger, SubjectsOps
<1> HIDE DEF s8
<1> DEFINE S8 == S7 \cup SubjectOps(o)
<1>9. Begins(k, o, s9, m, b, S8 \cup SecretOps(o))
  BY <1>8, BeginsLonger, AccountSecretsOps
<1> HIDE DEF s9
<1> DEFINE S9 == S8 \cup SecretOps(o)
<1>10. Begins(k, o, s10, m, b, S9 \cup ImageOps(k, o))
  BY <1>9, BeginsLonger, UpdateImagesOps
<1> HIDE DEF s10
<1> DEFINE S10 == S9 \cup ImageOps(k, o)
<1>11. Begins(k, o, s11, m, b, S10 \cup ServiceOps(o))
  BY <1>10, BeginsLonger, removeServiceFieldsOps
<1> HIDE DEF s11
<1>12. S10 \cup ServiceOps(o) = Removes(k) \cup Rest(k, o)
  BY DEF Rest
<1> QED
  BY <1>0, <1>11, <1>12

(* The annotations after a patch depend on the options and on what the      *)
(* object had: those the user removes are gone, those he adds are there,    *)
(* what is stripped is gone and the rest is as it was.                      *)
LEMMA SpecParts ==
  ASSUME NEW k, GoodOptions(k), NEW o, NEW p,
         NEW x \in (((((PodOps(o) \cup ClaimOps(k, o)) \cup TemplateOps(k, o)) \cup JobOps(o))
                     \cup SuspendOps(o)) \cup ImageOps(k, o)) \cup ServiceOps(o),
         Touches(x, p)
  PROVE  p[1] = "spec"
<1>1. CASE x \in ClaimOps(k, o) \cup TemplateOps(k, o) \cup ImageOps(k, o)
  <2>1. x.op = "replace" /\ x \in Operations(k, o)
    BY <1>1, RenamesReplace DEF Operations
  <2>2. x.path = p
    BY <2>1 DEF Touches
  <2> QED
    BY <2>1, <2>2, Replacements
<1>2. CASE x \in PodOps(o) \cup JobOps(o) \cup SuspendOps(o) \cup ServiceOps(o)
  <2>1. Len(x.path) \in Nat /\ 1 \in 1..Len(x.path) /\ x.path[1] = "spec"
    <3>1. CASE x \in PodOps(o)
      <4>1. PICK f : x = RemovePath(<<"spec", f>>)
        BY <3>1 DEF PodOps
      <4>2. x.path = <<"spec", f>>
        BY <4>1, OperationParts
      <4> QED
        BY <4>2
    <3>2. CASE x \in JobOps(o)
      <4>1. x.path \in SelectorPaths(o) \cup JobLabelPaths
        BY <3>2, OperationParts DEF JobOps
      <4>2. Len(x.path) \in Nat /\ Len(x.path) >= 2 /\ x.path[1] = "spec"
        BY <4>1, JobParts
      <4> QED
        BY <4>2
    <3>3. CASE x \in SuspendOps(o)
      <4>1. x.path = <<"spec", "suspend">>
        BY <3>3, OperationParts DEF SuspendOps
      <4> QED
        BY <4>1
    <3>4. CASE \E q \in AddressPaths(o) : x = RemovePath(q)
      <4>1. x.path \in {<<"spec", "externalIPs">>, <<"spec", "clusterIP">>, <<"spec", "clusterIPs">>}
        BY <3>4, OperationParts DEF AddressPaths
      <4> QED
        BY <4>1
    <3>5. CASE \E i \in Index : x = RemovePath(NodePort(i))
      <4>1. PICK i \in Index : x.path = NodePort(i)
        BY <3>5, OperationParts
      <4> QED
        BY <4>1 DEF NodePort
    <3> QED
      BY <1>2, <3>1, <3>2, <3>3, <3>4, <3>5 DEF ServiceOps
  <2> QED
    BY <2>1, TouchedParts
<1> QED
  BY <1>1, <1>2

LEMMA RestParts ==
  ASSUME NEW k, GoodOptions(k), NEW o, NEW x \in Rest(k, o), NEW p, Touches(x, p)
  PROVE  p[1] # "metadata"
<1>1. CASE x \in SubjectOps(o)
  <2>1. PICK i : x = RemovePath(<<"subjects", i, "namespace">>)
    BY <1>1 DEF SubjectOps
  <2>2. x.path = <<"subjects", i, "namespace">>
    BY <2>1, OperationParts
  <2>3. Len(x.path) \in Nat /\ 1 \in 1..Len(x.path) /\ x.path[1] = "subjects"
    BY <2>2
  <2> QED
    BY <2>3, TouchedParts
<1>2. CASE x \in SecretOps(o)
  <2>1. x.path = <<"secrets">>
    BY <1>2, OperationParts DEF SecretOps
  <2>2. Len(x.path) \in Nat /\ 1 \in 1..Len(x.path) /\ x.path[1] = "secrets"
    BY <2>1
  <2> QED
    BY <2>2, TouchedParts
<1>3. CASE x \notin SubjectOps(o) \cup SecretOps(o)
  BY <1>3, SpecParts DEF Rest
<1> QED
  BY <1>1, <1>2, <1>3

LEMMA LaterAdditions ==
  ASSUME NEW k, NEW o, NEW x \in Removes(k) \cup Rest(k, o), x.op = "add"
  PROVE  x \in SuspendOps(o) /\ x.path = SuspendAt
<1>1. x \notin Removes(k)
  BY OperationParts DEF Removes
<1>2. x \notin PodOps(o) /\ x \notin JobOps(o) /\ x \notin SubjectOps(o) /\ x \notin SecretOps(o)
  BY OperationParts DEF PodOps, JobOps, SubjectOps, SecretOps
<1>3. x \notin ServiceOps(o)
  BY OperationParts DEF ServiceOps
<1>4. x \notin ClaimOps(k, o) \cup TemplateOps(k, o) \cup ImageOps(k, o)
  BY RenamesReplace
<1>5. x \in SuspendOps(o)
  BY <1>1, <1>2, <1>3, <1>4 DEF Rest
<1> QED
  BY <1>5, OperationParts DEF SuspendOps, SuspendAt

(* An annotation the user removes is not there any more.                    *)
LEMMA AnnotationRemoved ==
  ASSUME NEW k, GoodOptions(k), NEW o, IsObject(o), NEW a \in k.remove
  PROVE  NoneUnder(KeyAt(a), Patched(k, o).fields)
<1> DEFINE t == getKubernetesTransforms(k, o)
           q == KeyAt(a)
<1>1. PICK m, b : Begins(k, o, t, m, b, Removes(k) \cup Rest(k, o))
  BY Zones
<1>2. Len(t) \in Nat
  BY TransformPositions
<1>3. Patched(k, o).fields = Apply(o, t).fields
  BY PatchedObject
<1> HIDE DEF t
<1>4. RemovePath(q) \in Removes(k)
  BY DEF Removes
<1>5. Annotation(q)
  BY PartsPath DEF GoodOptions, KeyAt
<1> HIDE DEF q
<1>6. PICK d \in 1..Len(t) : d > b /\ t[d] = RemovePath(q)
  BY <1>1, <1>4 DEF Begins, Behind
<1>7. ASSUME NEW i \in 1..Len(t), i > d, t[i].op = "add"
      PROVE  ~IsPrefix(q, t[i].path)
  <2>1. i > b
    BY <1>1, <1>2, <1>6, <1>7 DEF Begins
  <2>2. t[i] \in Removes(k) \cup Rest(k, o)
    BY <1>1, <2>1 DEF Begins, Behind
  <2>3. t[i].path = SuspendAt
    BY <1>7, <2>2, LaterAdditions
  <2>4. 1 \in 1..Len(q) /\ q[1] = "metadata" /\ Len(q) \in Nat
    BY <1>5 DEF Annotation
  <2>5. IsPrefix(q, SuspendAt) => SuspendAt[1] = q[1]
    BY <2>4, PrefixParts
  <2> QED
    BY <2>3, <2>4, <2>5, AddedPaths
<1>8. d \in 0..Len(t) /\ d # 0 /\ t[d].op = "remove" /\ t[d].path = q
  BY <1>2, <1>6, OperationParts
<1>9. NoneUnder(q, Apply(o, t).fields)
  BY <1>2, <1>7, <1>8, RemovedLast
<1> QED
  BY <1>3, <1>9 DEF q

(* Keys without a slash, different ones for different annotations.          *)
PlainKeys(k) ==
  \A a, b \in DOMAIN k.add : Len(Parts[a]) = 1 /\ (Parts[a] = Parts[b] => a = b)

LEMMA ShortKey ==
  ASSUME NEW a \in DOMAIN Parts, Len(Parts[a]) = 1
  PROVE  Len(KeyAt(a)) = 3
<1>1. Parts[a] \in Seq(Range(Parts[a])) /\ Parts[a] # <<>>
  BY RequestsAssumption DEF IsPath
<1>2. Len(AnnotationsAt \o Parts[a]) = 2 + Len(Parts[a])
  BY <1>1, BehindAnnotations
<1>3. 2 + 1 = 3
  OBVIOUS
<1> QED
  BY <1>2, <1>3 DEF KeyAt

LEMMA SameKey ==
  ASSUME NEW a \in DOMAIN Parts, NEW b \in DOMAIN Parts, Len(Parts[a]) = 1, Len(Parts[b]) = 1,
         \/ IsPrefix(KeyAt(a), KeyAt(b))
         \/ KeyAt(a) = KeyAt(b)
  PROVE  Parts[a] = Parts[b]
<1> DEFINE p == KeyAt(a)
           q == KeyAt(b)
           s == Parts[a]
           t == Parts[b]
           S == Range(s) \cup Range(t)
<1>1. Len(p) = 3 /\ p[3] = s[1] /\ q[3] = t[1]
  BY ShortKey, PartsPath DEF KeyAt
<1>2. IsPrefix(p, q) \/ p = q
  OBVIOUS
<1>3. s \in Seq(Range(s)) /\ t \in Seq(Range(t)) /\ Len(s) = 1 /\ Len(t) = 1
  BY RequestsAssumption DEF IsPath
<1> HIDE DEF p, q, s, t
<1>8. s \in Seq(S) /\ t \in Seq(S)
  BY <1>3, SeqMonotonic
<1> HIDE DEF S
<1>4. Len(p) \in Nat /\ 3 \in 1..Len(p)
  BY <1>1
<1>5. q[3] = p[3]
  BY <1>2, <1>4, PrefixParts
<1>6. \A i \in 1..Len(s) : s[i] = t[i]
  <2>1. \A i \in 1..1 : i = 1
    OBVIOUS
  <2> QED
    BY <1>1, <1>3, <1>5, <2>1
<1>7. s = t
  BY <1>3, <1>6, <1>8, SeqEqual
<1> QED
  BY <1>7 DEF s, t

(* An annotation the user adds and does not remove is there.                *)
LEMMA AnnotationAdded ==
  ASSUME NEW k, GoodOptions(k), PlainKeys(k), NEW o, IsObject(o), CarriedOut(k, o), NEW a \in DOMAIN k.add,
         \A r \in k.remove : ~IsPrefix(KeyAt(r), KeyAt(a)),
         \A r \in k.remove : KeyAt(r) # KeyAt(a)
  PROVE  /\ KeyAt(a) \in DOMAIN Patched(k, o).fields
         /\ Patched(k, o).fields[KeyAt(a)] = k.add[a]
<1> DEFINE t == getKubernetesTransforms(k, o)
           p == KeyAt(a)
           v == k.add[a]
<1>1. PICK m, b : Begins(k, o, t, m, b, Removes(k) \cup Rest(k, o))
  BY Zones
<1>2. Len(t) \in Nat /\ Apply(o, t).ok
  BY TransformPositions DEF CarriedOut
<1>3. Patched(k, o).fields = Apply(o, t).fields
  BY PatchedObject
<1> HIDE DEF t
<1>4. AddPath(p, v) \in Adds(k)
  BY DEF Adds
<1>5. p[1] = "metadata"
  BY PartsPath DEF GoodOptions, Annotation, KeyAt
<1> DEFINE y == AddPath(p, v)
<1>0. y.op = "add" /\ y.path = p /\ y.value = v
  BY OperationParts
<1> HIDE DEF y, p, v
<1>6. PICK d \in 1..Len(t) : d > m /\ d <= b /\ t[d] = y
  BY <1>1, <1>4 DEF Begins, y
<1>7. ASSUME NEW i \in 1..Len(t), i > d, i <= b, Touches(t[i], p)
      PROVE  SetsTo(t[i], p, v)
  <2>1. i > m
    BY <1>1, <1>2, <1>6, <1>7 DEF Begins
  <2>2. t[i] \in Adds(k)
    BY <1>1, <1>7, <2>1 DEF Begins
  <2>3. PICK c \in DOMAIN k.add : t[i] = AddPath(KeyAt(c), k.add[c])
    BY <2>2 DEF Adds
  <2>4. IsPrefix(KeyAt(c), KeyAt(a))
        \/ KeyAt(c) = KeyAt(a)
    BY <1>7, <2>3, OperationParts DEF Touches, p
  <2>5. Parts[c] = Parts[a]
    BY <2>4, SameKey DEF PlainKeys, GoodOptions
  <2>6. c = a
    BY <2>5 DEF PlainKeys
  <2> QED
    BY <2>3, <2>6, OperationParts DEF SetsTo, p, v
<1>8. ASSUME NEW i \in 1..Len(t), i > b, Touches(t[i], p)
      PROVE  FALSE
  <2>1. t[i] \in Removes(k) \cup Rest(k, o)
    BY <1>1, <1>8 DEF Begins, Behind
  <2>2. t[i] \notin Rest(k, o)
    BY <1>5, <1>8, RestParts
  <2>3. PICK r \in k.remove : t[i] = RemovePath(KeyAt(r))
    BY <2>1, <2>2 DEF Removes
  <2> QED
    BY <1>8, <2>3, OperationParts DEF Touches, p
<1>9. \A i \in 1..Len(t) : i > b \/ i <= b
  BY <1>1, <1>2 DEF Begins
<1>10. SetsTo(t[d], p, v)
  BY <1>0, <1>6 DEF SetsTo
<1>11. SetsFrom(t, d, p, v)
  BY <1>7, <1>8, <1>9, <1>10 DEF SetsFrom
<1>12. p \in DOMAIN Apply(o, t).fields /\ Apply(o, t).fields[p] = v
  BY <1>2, <1>11, SetLast
<1> QED
  BY <1>3, <1>12 DEF p, v

(* What is stripped of the annotations is one key.                          *)
LEMMA StrippedAnnotation ==
  ASSUME NEW s \in StrippedFields, NEW p, Annotation(p), IsPrefix(s, p) \/ s = p
  PROVE  \E c : s = AnnotationsAt \o <<c>>
<1>1. CASE s \in {<<"metadata", f>> : f \in {"uid", "selfLink", "resourceVersion", "creationTimestamp",
                                              "generation", "managedFields"}}
  <2>1. PICK f \in {"uid", "selfLink", "resourceVersion", "creationTimestamp", "generation",
                    "managedFields"} : s = <<"metadata", f>>
    BY <1>1
  <2>2. Len(s) \in Nat /\ 2 \in 1..Len(s) /\ s[2] = f
    BY <2>1
  <2>3. p[2] = f
    BY <2>2, PrefixParts
  <2> QED
    BY <2>3 DEF Annotation
<1>2. CASE s \in {<<"metadata", "labels", c>> : c \in ControllerKeys}
  <2>1. PICK c : s = <<"metadata", "labels", c>>
    BY <1>2
  <2>2. Len(s) \in Nat /\ 2 \in 1..Len(s) /\ s[2] = "labels"
    BY <2>1
  <2>3. p[2] = "labels"
    BY <2>2, PrefixParts
  <2> QED
    BY <2>3 DEF Annotation
<1>3. CASE s = <<"status">>
  <2>1. Len(s) \in Nat /\ 1 \in 1..Len(s) /\ s[1] = "status"
    BY <1>3
  <2>2. p[1] = "status"
    BY <2>1, PrefixParts
  <2> QED
    BY <2>2 DEF Annotation
<1>4. CASE s \in {AnnotationsAt \o <<c>> : c \in ControllerKeys \cup {AppliedKey}}
  BY <1>4
<1> QED
  BY <1>1, <1>2, <1>3, <1>4 DEF StrippedFields

(* Two patches in a row with the same options.                              *)
Renames(k) ==
  \/ \E x \in DOMAIN k.renames : k.renames[x] \in DOMAIN k.renames
  \/ \E x, y \in DOMAIN k.registry :
       IsPrefix(y, k.registry[x]) \/ IsPrefix(k.registry[x], y)
Twice(k, o, q) ==
  /\ GoodOptions(k) /\ PlainKeys(k) /\ ~Renames(k)
  /\ IsObject(o) /\ WellFormed(o) /\ IsTree(o) /\ PlainAnnotations(o)
  /\ q = Patched(k, o) /\ CarriedOut(k, o) /\ CarriedOut(k, q)

LEMMA TwiceFacts ==
  ASSUME NEW k, NEW o, NEW q, Twice(k, o, q)
  PROVE  /\ GoodOptions(k) /\ PlainKeys(k) /\ ~Renames(k)
         /\ IsObject(o) /\ WellFormed(o) /\ IsTree(o) /\ PlainAnnotations(o)
         /\ q = Patched(k, o) /\ CarriedOut(k, o) /\ CarriedOut(k, q)
         /\ IsObject(q) /\ WellFormed(q) /\ GK(q) = GK(o)
BY PatchedObject, WellFormedStays DEF Twice

LEMMA SameLength ==
  ASSUME NEW S, NEW s \in Seq(S), NEW T, NEW t \in Seq(T), Len(s) = Len(t), IsPrefix(s, t)
  PROVE  s = t
<1>1. SubSeq(s, 1, Len(s)) = s /\ SubSeq(t, 1, Len(t)) = t
  BY SubSeqFull
<1> QED
  BY <1>1 DEF IsPrefix

LEMMA AnnotationPrefix ==
  ASSUME NEW p, IsPath(p), Annotation(p)
  PROVE  IsPrefix(AnnotationsAt, p)
<1>1. Len(p) \in Nat /\ Len(p) >= 2 /\ p[1] = "metadata" /\ p[2] = "annotations"
  BY DEF Annotation
<1> QED
  BY <1>1, PrefixOfTwo DEF AnnotationsAt

LEMMA KeyPaths ==
  ASSUME NEW k, GoodOptions(k), PlainKeys(k), NEW a \in DOMAIN k.add
  PROVE  IsPath(KeyAt(a)) /\ Annotation(KeyAt(a)) /\ Len(KeyAt(a)) = 3
<1>1. a \in DOMAIN Parts /\ Len(Parts[a]) = 1
  BY DEF GoodOptions, PlainKeys
<1> QED
  BY <1>1, ShortKey, AddedPaths DEF KeyAt

(* Annotations are plain strings after the patch as well.                   *)
LEMMA PlainStays ==
  ASSUME NEW k, NEW o, NEW q, Twice(k, o, q), NEW p \in DOMAIN q.fields, Annotation(p)
  PROVE  Len(p) = 3
<1>1. \/ p \in DOMAIN o.fields
      \/ p = SuspendAt
      \/ \E a \in DOMAIN k.add : p = KeyAt(a)
  BY TwiceFacts, NewPaths DEF KeyAt
<1>2. p # SuspendAt
  BY AddedPaths DEF Annotation
<1>3. ASSUME p \in DOMAIN o.fields
      PROVE  Len(p) = 3
  BY <1>3, TwiceFacts, AnnotationPrefix DEF WellFormed, PlainAnnotations
<1> QED
  BY <1>1, <1>2, <1>3, TwiceFacts, KeyPaths

LEMMA AnnotationsSettle ==
  ASSUME NEW k, NEW o, NEW q, Twice(k, o, q), NEW p, Annotation(p)
  PROVE  Stays(q.fields, Patched(k, q).fields, p)
<1>0. p[1] = "metadata" /\ Len(p) \in Nat
  BY DEF Annotation
<1>1. CASE \E r \in k.remove : IsPrefix(KeyAt(r), p)
  <2>1. PICK r \in k.remove : IsPrefix(KeyAt(r), p)
    BY <1>1
  <2>2. NoneUnder(KeyAt(r), q.fields) /\ NoneUnder(KeyAt(r), Patched(k, q).fields)
    BY TwiceFacts, AnnotationRemoved
  <2> QED
    BY <2>1, <2>2 DEF NoneUnder, Stays
<1>2. CASE (\A r \in k.remove : ~IsPrefix(KeyAt(r), p)) /\ \E a \in DOMAIN k.add : p = KeyAt(a)
  <2>1. PICK a \in DOMAIN k.add : p = KeyAt(a)
    BY <1>2
  <2>2. \A r \in k.remove : ~IsPrefix(KeyAt(r), KeyAt(a)) /\ KeyAt(r) # KeyAt(a)
    BY <1>0, <1>2, <2>1, PrefixOfItself
  <2>3. p \in DOMAIN q.fields /\ q.fields[p] = k.add[a]
    BY <2>1, <2>2, TwiceFacts, AnnotationAdded
  <2>4. p \in DOMAIN Patched(k, q).fields /\ Patched(k, q).fields[p] = k.add[a]
    BY <2>1, <2>2, TwiceFacts, AnnotationAdded
  <2> QED
    BY <2>3, <2>4 DEF Stays
<1>3. CASE (\A r \in k.remove : ~IsPrefix(KeyAt(r), p)) /\ \A a \in DOMAIN k.add : p # KeyAt(a)
  <2>1. CASE p \notin DOMAIN q.fields
    <3>1. p \notin DOMAIN Patched(k, q).fields
      <4>1. p # SuspendAt
        BY <1>0, AddedPaths
      <4> QED
        BY <1>3, <2>1, <4>1, TwiceFacts, NewPaths DEF KeyAt
    <3> QED
      BY <2>1, <3>1 DEF Stays
  <2>2. CASE p \in DOMAIN q.fields
    <3>1. p \in Seq(Range(p)) /\ Len(p) = 3
      BY <2>2, TwiceFacts, PlainStays DEF WellFormed, IsPath
    <3>2. ASSUME NEW x \in Operations(k, q), Touches(x, p)
          PROVE  FALSE
      <4>1. x \notin Rest(k, q)
        BY <1>0, <3>2, TwiceFacts, RestParts
      <4>2. x \notin Removes(k)
        <5> SUFFICES ASSUME x \in Removes(k) PROVE FALSE
          OBVIOUS
        <5>1. PICK r \in k.remove : x = RemovePath(KeyAt(r))
          BY DEF Removes
        <5>2. x.path = KeyAt(r)
          BY <5>1, OperationParts
        <5> QED
          BY <1>0, <1>3, <3>2, <5>2, PrefixOfItself DEF Touches
      <4>3. x \notin Adds(k)
        <5> SUFFICES ASSUME x \in Adds(k) PROVE FALSE
          OBVIOUS
        <5>1. PICK a \in DOMAIN k.add : x = AddPath(KeyAt(a), k.add[a])
          BY DEF Adds
        <5>2. x.path = KeyAt(a)
          BY <5>1, OperationParts
        <5>3. KeyAt(a) \in Seq(Range(KeyAt(a))) /\ Len(KeyAt(a)) = 3
          BY TwiceFacts, KeyPaths DEF IsPath
        <5>4. IsPrefix(KeyAt(a), p)
          BY <1>3, <3>2, <5>2 DEF Touches
        <5> QED
          BY <1>3, <3>1, <5>3, <5>4, SameLength
      <4>4. x \notin StripOps(q)
        <5> SUFFICES ASSUME x \in StripOps(q) PROVE FALSE
          OBVIOUS
        <5>1. PICK s \in StrippedFields : Found(q, s) /\ x = RemovePath(s)
          BY DEF StripOps
        <5>2. IsPrefix(s, p) \/ s = p
          BY <3>2, <5>1, OperationParts DEF Touches
        <5>3. PICK c : s = AnnotationsAt \o <<c>>
          BY <5>2, StrippedAnnotation
        <5>4. PICK a \in DOMAIN k.add : IsPrefix(s, KeyAt(a))
          BY <5>1, TwiceFacts, StrippedGone DEF KeyAt
        <5>5. Len(s) = 3 /\ s \in Seq({"metadata", "annotations", c})
          BY <5>3, KeyPath DEF AnnotationsAt
        <5>6. KeyAt(a) \in Seq(Range(KeyAt(a))) /\ Len(KeyAt(a)) = 3
          BY TwiceFacts, KeyPaths DEF IsPath
        <5>7. s = KeyAt(a)
          BY <5>4, <5>5, <5>6, SameLength
        <5>8. s = p
          BY <3>1, <5>2, <5>5, SameLength
        <5> QED
          BY <1>3, <5>7, <5>8
      <4> QED
        BY <4>1, <4>2, <4>3, <4>4 DEF Operations, AnnotationOps, Adds, Removes, KeyAt, Rest
    <3> QED
      BY <3>2, TwiceFacts, OthersStay, PatchedObject
  <2> QED
    BY <2>1, <2>2
<1> QED
  BY <1>1, <1>2, <1>3

(* What is neither an annotation nor the suspension was there before, and    *)
(* what no operation reaches is as it was.                                  *)
LEMMA WasThere ==
  ASSUME NEW k, NEW o, NEW q, Twice(k, o, q), NEW p \in DOMAIN q.fields, ~Annotation(p), p # SuspendAt
  PROVE  p \in DOMAIN o.fields
<1>1. \/ p \in DOMAIN o.fields
      \/ p = SuspendAt
      \/ \E a \in DOMAIN k.add : p = KeyAt(a)
  BY TwiceFacts, NewPaths DEF KeyAt
<1> QED
  BY <1>1, TwiceFacts, KeyPaths

LEMMA Unreached ==
  ASSUME NEW k, NEW o, NEW q, Twice(k, o, q), NEW p, ~Reach(GK(o), p),
         p[1] # "spec" \/ p[2] \notin {"volumes", "containers", "initContainers", "volumeClaimTemplates",
                                       "template", "jobTemplate"}
  PROVE  Stays(o.fields, q.fields, p) /\ Value(q, p) = Value(o, p)
<1>1. ASSUME NEW x \in Operations(k, o), Touches(x, p)
      PROVE  FALSE
  <2>1. CASE x.op \in {"add", "remove"}
    BY <1>1, <2>1, TwiceFacts, PathsReach DEF Moves
  <2>2. CASE x.op \notin {"add", "remove"}
    <3>1. x.path = p
      BY <1>1, <2>2 DEF Touches
    <3> QED
      BY <2>2, <3>1, TwiceFacts, Replacements
  <2> QED
    BY <2>1, <2>2
<1>2. GoodOptions(k) /\ IsObject(o) /\ q = Patched(k, o)
  BY TwiceFacts
<1>3. q.fields = Apply(o, getKubernetesTransforms(k, o)).fields
  BY <1>2, PatchedObject
<1>4. Stays(o.fields, q.fields, p)
  BY <1>1, <1>2, <1>3, OthersStay
<1> QED
  BY <1>4 DEF Stays, Value

(* The second patch finds nothing more to strip, no annotation above a      *)
(* field, nothing left of a node or of the secrets.                         *)
LEMMA StripsNothing ==
  ASSUME NEW k, NEW o, NEW q, Twice(k, o, q), NEW p \in DOMAIN q.fields, ~Annotation(p),
         NEW x \in StripOps(q) \cup Adds(k) \cup Removes(k)
  PROVE  ~Touches(x, p)
<1> SUFFICES ASSUME Touches(x, p) PROVE FALSE
  OBVIOUS
<1>0. IsPath(p) /\ Len(p) \in Nat
  BY TwiceFacts, LenProperties DEF WellFormed, IsPath
<1>1. ASSUME NEW s, Annotation(s), IsPrefix(s, p) \/ s = p
      PROVE  FALSE
  <2>1. Len(s) \in Nat /\ 1 \in 1..Len(s) /\ 2 \in 1..Len(s) /\ s[1] = "metadata" /\ s[2] = "annotations"
        /\ Len(s) >= 3
    BY <1>1 DEF Annotation
  <2>2. p[1] = "metadata" /\ p[2] = "annotations"
    BY <1>1, <2>1, PrefixParts
  <2>3. Len(s) <= Len(p)
    BY <1>1, <2>1 DEF IsPrefix
  <2>4. Len(p) >= 3
    BY <1>0, <2>1, <2>3
  <2> QED
    BY <1>0, <2>2, <2>4 DEF Annotation
<1>2. CASE x \in StripOps(q)
  <2>1. PICK s \in StrippedFields : Found(q, s) /\ x = RemovePath(s)
    BY <1>2 DEF StripOps
  <2>2. IsPrefix(s, p) \/ s = p
    BY <2>1, OperationParts DEF Touches
  <2>3. PICK a \in DOMAIN k.add : IsPrefix(s, KeyAt(a))
    BY <2>1, TwiceFacts, StrippedGone DEF KeyAt
  <2>4. Annotation(KeyAt(a))
    BY TwiceFacts, KeyPaths
  <2>5. \E c : s = AnnotationsAt \o <<c>>
    BY <2>3, <2>4, StrippedAnnotation
  <2>6. Annotation(s)
    BY <2>5, KeyPath
  <2> QED
    BY <1>1, <2>2, <2>6
<1>3. CASE x \in Adds(k)
  <2>1. PICK a \in DOMAIN k.add : x = AddPath(KeyAt(a), k.add[a])
    BY <1>3 DEF Adds
  <2>2. x.path = KeyAt(a)
    BY <2>1, OperationParts
  <2> QED
    BY <1>1, <2>2, TwiceFacts, KeyPaths DEF Touches
<1>4. CASE x \in Removes(k)
  <2>1. PICK a \in k.remove : x = RemovePath(KeyAt(a))
    BY <1>4 DEF Removes
  <2>2. x.path = KeyAt(a) /\ a \in DOMAIN Parts
    BY <2>1, TwiceFacts, OperationParts DEF GoodOptions
  <2>3. Annotation(KeyAt(a))
    BY <2>2, AddedPaths DEF KeyAt
  <2> QED
    BY <1>1, <2>2, <2>3 DEF Touches
<1> QED
  BY <1>2, <1>3, <1>4

LEMMA UnderRemoved ==
  ASSUME NEW q, NEW p \in DOMAIN q.fields, NEW s, Len(s) \in Nat, Touches(RemovePath(s), p)
  PROVE  Found(q, s) /\ IsPrefix(s, p)
<1>1. IsPrefix(s, p)
  BY OperationParts, PrefixOfItself DEF Touches
<1> QED
  BY <1>1 DEF Found

LEMMA NoPodFields ==
  ASSUME NEW k, NEW o, NEW q, Twice(k, o, q), NEW p \in DOMAIN q.fields,
         NEW x \in PodOps(q) \cup SecretOps(q)
  PROVE  ~Touches(x, p)
<1> SUFFICES ASSUME Touches(x, p) PROVE FALSE
  OBVIOUS
<1>1. CASE x \in PodOps(q)
  <2>1. PICK f \in {"nodeName", "nodeSelector", "priority"} :
          GK(q) = <<"", "Pod">> /\ x = RemovePath(<<"spec", f>>)
    BY <1>1 DEF PodOps
  <2>5. GK(o) = <<"", "Pod">> /\ GoodOptions(k) /\ IsObject(o) /\ q = Patched(k, o)
    BY <2>1, TwiceFacts
  <2>2. ~Found(q, <<"spec", f>>)
    BY <2>5, PodFieldsGone
  <2>3. Len(<<"spec", f>>) \in Nat
    OBVIOUS
  <2>4. Touches(RemovePath(<<"spec", f>>), p)
    BY <2>1
  <2> QED
    BY <2>2, <2>3, <2>4, UnderRemoved
<1>2. CASE x \in SecretOps(q)
  <2>1. GK(q) = <<"", "ServiceAccount">> /\ x = RemovePath(<<"secrets">>)
    BY <1>2 DEF SecretOps
  <2>2. ~Found(q, <<"secrets">>)
    BY <2>1, TwiceFacts, SecretsGone
  <2>3. Len(<<"secrets">>) \in Nat
    OBVIOUS
  <2> QED
    BY <2>1, <2>2, <2>3, UnderRemoved
<1> QED
  BY <1>1, <1>2

(* A name that was renamed, and one that was not, is no name to rename.     *)
LEMMA RenamesNothing ==
  ASSUME NEW k, NEW o, NEW q, Twice(k, o, q), NEW x \in ClaimOps(k, q) \cup TemplateOps(k, q)
  PROVE  FALSE
<1>0. /\ GoodOptions(k) /\ IsObject(o) /\ CarriedOut(k, o) /\ q = Patched(k, o) /\ GK(q) = GK(o)
      /\ "" \notin DOMAIN k.renames
  BY TwiceFacts DEF GoodOptions
<1>1. x \in Operations(k, q) /\ x.op = "replace" /\ Value(q, x.path) \in DOMAIN k.renames
  BY RenamesReplace, RenameValues DEF Operations
<1>2. x.path \in DOMAIN q.fields
  BY <1>0, <1>1 DEF Value
<1>3. /\ x.path[1] = "spec"
      /\ x.path[2] \in {"volumes", "containers", "initContainers", "volumeClaimTemplates",
                        "template", "jobTemplate"}
  BY <1>0, <1>1, Replacements
<1>4. x.path \in DOMAIN o.fields
  BY <1>2, <1>3, WasThere, AddedPaths DEF Annotation
<1>5. /\ GK(o) \in Workloads /\ Position(x.path) /\ x.path[Len(x.path)] # "image"
      /\ \/ \E i \in Index : x.path = Claim(PodSpec(GK(o)), i)
         \/ GK(o) = <<"apps", "StatefulSet">> /\ \E i \in Index : x.path = Template(i)
  <2>1. CASE x \in ClaimOps(k, q)
    <3>1. PICK i \in Index : GK(q) \in Workloads /\ x.path = Claim(PodSpec(GK(q)), i)
      BY <2>1, OperationParts DEF ClaimOps
    <3>2. GK(o) \in Workloads /\ x.path = Claim(PodSpec(GK(o)), i)
      BY <1>0, <3>1
    <3>3. InPodSpec(GK(o), x.path, "volumes") /\ x.path[Len(x.path)] = "claimName"
      BY <3>2, PodPaths, Endings
    <3>4. Position(x.path)
      BY <3>3 DEF InPodSpec, Position
    <3> QED
      BY <3>2, <3>3, <3>4
  <2>2. CASE x \in TemplateOps(k, q)
    <3>1. PICK i \in Index : GK(q) = <<"apps", "StatefulSet">> /\ x.path = Template(i)
      BY <2>2, OperationParts DEF TemplateOps
    <3>2. x.path[1] = "spec" /\ x.path[2] = "volumeClaimTemplates"
      BY <3>1 DEF Template
    <3>3. x.path[Len(x.path)] = "name"
      BY <3>1, Endings
    <3>4. GK(o) = <<"apps", "StatefulSet">> /\ GK(o) \in Workloads
      BY <1>0, <3>1 DEF Workloads, Templated
    <3> QED
      BY <3>1, <3>2, <3>3, <3>4 DEF Position
  <2> QED
    BY <2>1, <2>2
<1> DEFINE p == x.path
           was == o.fields[x.path]
           now == Value(q, x.path)
<1>9. /\ p \in DOMAIN o.fields /\ Position(p) /\ p[Len(p)] # "image"
      /\ \/ \E i \in Index : p = Claim(PodSpec(GK(o)), i)
         \/ GK(o) = <<"apps", "StatefulSet">> /\ \E i \in Index : p = Template(i)
  BY <1>4, <1>5
<1>10. was = o.fields[p] /\ now = Value(Patched(k, o), p)
  BY <1>0
<1> HIDE DEF p
<1>11. Value(Patched(k, o), p) = IF o.fields[p] \in DOMAIN k.renames THEN k.renames[o.fields[p]] ELSE o.fields[p]
  BY <1>0, <1>5, <1>9, NameReplaced
<1>6. now = IF was \in DOMAIN k.renames THEN k.renames[was] ELSE was
  BY <1>10, <1>11
<1>7. now \in DOMAIN k.renames
  BY <1>1
<1> HIDE DEF was, now
<1>8. ~\E y \in DOMAIN k.renames : k.renames[y] \in DOMAIN k.renames
  BY TwiceFacts DEF Renames
<1> QED
  BY <1>6, <1>7, <1>8

(* A Job has no generated selector and no generated label left.             *)
LEMMA NoJobFields ==
  ASSUME NEW k, NEW o, NEW q, Twice(k, o, q), NEW p \in DOMAIN q.fields, NEW x \in JobOps(q)
  PROVE  ~Touches(x, p)
<1> SUFFICES ASSUME Touches(x, p) PROVE FALSE
  OBVIOUS
<1>1. PICK s \in SelectorPaths(q) \cup JobLabelPaths : GK(q) = <<"batch", "Job">> /\ x = RemovePath(s)
  BY DEF JobOps
<1>2. Len(s) \in Nat
  BY JobParts
<1>3. Found(q, s)
  BY <1>1, <1>2, UnderRemoved
<1>4. /\ GoodOptions(k) /\ IsObject(o) /\ WellFormed(o) /\ q = Patched(k, o)
      /\ GK(o) = <<"batch", "Job">>
  BY <1>1, TwiceFacts
<1>5. s \notin JobLabelPaths \cup MatchPaths
  BY <1>3, <1>4, JobFieldsGone
<1> DEFINE at == <<"spec", "selector">>
           flag == <<"spec", "manualSelector">>
<1>6. s = at /\ Value(q, flag) # "true"
  BY <1>1, <1>5 DEF SelectorPaths
<1>7. Value(q, flag) = Value(o, flag)
  <2>1. flag[1] = "spec" /\ flag[2] = "manualSelector"
    OBVIOUS
  <2> HIDE DEF flag
  <2>2. ~Reach(GK(o), flag)
    BY <2>1 DEF Reach, SpecReach
  <2> QED
    BY <2>1, <2>2, Unreached
<1>8. SelectorPaths(o) = {at}
  BY <1>6, <1>7 DEF SelectorPaths
<1>9. Len(at) \in Nat /\ Len(at) >= 2 /\ at[1] = "spec" /\ at[2] # "suspend"
  OBVIOUS
<1> HIDE DEF at, flag
<1>10. Found(o, at) => RemovePath(at) \in Operations(k, o)
  BY <1>4, <1>8 DEF Operations, JobOps
<1>11. ~Found(q, at)
  BY <1>4, <1>9, <1>10, SpecGone
<1> QED
  BY <1>3, <1>6, <1>11

LEMMA StrippedFirst ==
  \A s \in StrippedFields : Len(s) \in Nat /\ 1 \in 1..Len(s) /\ s[1] \in {"metadata", "status"}
<1> TAKE s \in StrippedFields
<1>1. CASE s \in {<<"metadata", f>> : f \in {"uid", "selfLink", "resourceVersion", "creationTimestamp",
                                              "generation", "managedFields"}}
  BY <1>1
<1>2. CASE s \in {<<"metadata", "labels", c>> : c \in ControllerKeys}
  BY <1>2
<1>3. CASE s = <<"status">>
  BY <1>3
<1>4. CASE \E c : s = AnnotationsAt \o <<c>>
  <2>1. Annotation(s)
    BY <1>4, KeyPath
  <2> QED
    BY <2>1 DEF Annotation
<1> QED
  BY <1>1, <1>2, <1>3, <1>4 DEF StrippedFields

LEMMA AnnotationParts ==
  ASSUME NEW k, GoodOptions(k), NEW x \in AnnotationOps(k)
  PROVE  Annotation(x.path)
<1>1. CASE \E a \in DOMAIN k.add : x = AddPath(AnnotationsAt \o Parts[a], k.add[a])
  <2>1. PICK a \in DOMAIN k.add : x = AddPath(AnnotationsAt \o Parts[a], k.add[a])
    BY <1>1
  <2>2. x.path = AnnotationsAt \o Parts[a] /\ a \in DOMAIN Parts
    BY <2>1, OperationParts DEF GoodOptions
  <2> QED
    BY <2>2, PartsPath
<1>2. CASE \E a \in k.remove : x = RemovePath(AnnotationsAt \o Parts[a])
  <2>1. PICK a \in k.remove : x = RemovePath(AnnotationsAt \o Parts[a])
    BY <1>2
  <2>2. x.path = AnnotationsAt \o Parts[a] /\ a \in DOMAIN Parts
    BY <2>1, OperationParts DEF GoodOptions
  <2> QED
    BY <2>2, PartsPath
<1> QED
  BY <1>1, <1>2 DEF AnnotationOps

(* A subject that is of the binding's own namespace was so before.          *)
SubjectPath(i, f) == <<"subjects", i, f>>
Local(o, i) ==
  /\ GK(o) = <<"rbac.authorization.k8s.io", "RoleBinding">>
  /\ Value(o, SubjectPath(i, "kind")) = "ServiceAccount"
  /\ Value(o, SubjectPath(i, "namespace")) = Value(o, <<"metadata", "namespace">>)

LEMMA SubjectParts ==
  \A i, f : /\ Len(SubjectPath(i, f)) \in Nat /\ 1 \in 1..Len(SubjectPath(i, f)) /\ 2 \in 1..Len(SubjectPath(i, f))
            /\ SubjectPath(i, f)[1] = "subjects" /\ SubjectPath(i, f)[2] = i
BY DEF SubjectPath

LEMMA LocalSubjects ==
  ASSUME NEW o
  PROVE  /\ \A x \in SubjectOps(o) : \E i \in Index : Local(o, i) /\ x = RemovePath(SubjectPath(i, "namespace"))
         /\ \A i \in Index : Local(o, i) => RemovePath(SubjectPath(i, "namespace")) \in SubjectOps(o)
BY DEF SubjectOps, Local, SubjectPath

LEMMA SubjectTouched ==
  ASSUME NEW k, GoodOptions(k), NEW o, NEW i \in Index, NEW f,
         NEW x \in Operations(k, o), Touches(x, SubjectPath(i, f))
  PROVE  Local(o, i)
<1> DEFINE p == SubjectPath(i, f)
<1>1. p[1] = "subjects" /\ p[2] = i /\ Touches(x, p)
  BY SubjectParts
<1> HIDE DEF p
<1>2. x \notin StripOps(o)
  <2> SUFFICES ASSUME x \in StripOps(o) PROVE FALSE
    OBVIOUS
  <2>1. x.path \in StrippedFields
    BY OperationParts DEF StripOps
  <2>2. Len(x.path) \in Nat /\ 1 \in 1..Len(x.path) /\ x.path[1] \in {"metadata", "status"}
    BY <2>1, AnnotationParts, StrippedFirst
  <2> QED
    BY <1>1, <2>2, TouchedParts
<1>3. x \notin AnnotationOps(k)
  <2> SUFFICES ASSUME x \in AnnotationOps(k) PROVE FALSE
    OBVIOUS
  <2>1. Annotation(x.path)
    BY AnnotationParts
  <2>2. Len(x.path) \in Nat /\ 1 \in 1..Len(x.path) /\ x.path[1] = "metadata"
    BY <2>1 DEF Annotation
  <2> QED
    BY <1>1, <2>2, TouchedParts
<1>4. x \notin SecretOps(o)
  <2> SUFFICES ASSUME x \in SecretOps(o) PROVE FALSE
    OBVIOUS
  <2>1. x.path = <<"secrets">>
    BY OperationParts DEF SecretOps
  <2>2. Len(x.path) \in Nat /\ 1 \in 1..Len(x.path) /\ x.path[1] = "secrets"
    BY <2>1
  <2> QED
    BY <1>1, <2>2, TouchedParts
<1>5. x \in SubjectOps(o)
  BY <1>1, <1>2, <1>3, <1>4, SpecParts DEF Operations
<1>6. PICK j \in Index : Local(o, j) /\ x = RemovePath(SubjectPath(j, "namespace"))
  BY <1>5, LocalSubjects
<1>7. x.path = SubjectPath(j, "namespace")
  BY <1>6, OperationParts
<1>8. p[2] = j
  BY <1>1, <1>7, SubjectParts, TouchedParts
<1> QED
  BY <1>1, <1>6, <1>8

LEMMA NoLocalSubjects ==
  ASSUME NEW k, NEW o, NEW q, Twice(k, o, q), NEW p \in DOMAIN q.fields, NEW x \in SubjectOps(q)
  PROVE  ~Touches(x, p)
<1> SUFFICES ASSUME Touches(x, p) PROVE FALSE
  OBVIOUS
<1>1. PICK i \in Index : Local(q, i) /\ x = RemovePath(SubjectPath(i, "namespace"))
  BY LocalSubjects
<1> DEFINE s == SubjectPath(i, "namespace")
<1>2. Found(q, s)
  BY <1>1, SubjectParts, UnderRemoved
<1>3. GoodOptions(k) /\ IsObject(o) /\ q = Patched(k, o) /\ GK(q) = GK(o)
  BY TwiceFacts
<1>4. CASE Local(o, i)
  <2>1. RemovePath(s) \in Operations(k, o)
    BY <1>4, LocalSubjects DEF Operations
  <2>2. Len(s) \in Nat /\ 1 \in 1..Len(s) /\ s[1] = "subjects"
    BY SubjectParts
  <2> HIDE DEF s
  <2>3. \A r : IsPrefix(s, r) => r[1] = "subjects"
    BY <2>2, PrefixParts
  <2>4. SuspendAt[1] = "spec" /\ \A a \in DOMAIN Parts : (AnnotationsAt \o Parts[a])[1] = "metadata"
    BY AddedPaths DEF Annotation
  <2>5. ~IsPrefix(s, SuspendAt) /\ \A a \in DOMAIN k.add : ~IsPrefix(s, AnnotationsAt \o Parts[a])
    BY <1>3, <2>3, <2>4 DEF GoodOptions
  <2>6. ~Found(Patched(k, o), s)
    BY <1>3, <2>1, <2>5, GoneUnder
  <2> QED
    BY <1>2, <1>3, <2>6
<1>5. CASE ~Local(o, i)
  <2>1. \A f : Value(q, SubjectPath(i, f)) = Value(o, SubjectPath(i, f))
    <3> TAKE f
    <3>1. \A y \in Operations(k, o) : ~Touches(y, SubjectPath(i, f))
      BY <1>3, <1>5, SubjectTouched
    <3>2. Stays(o.fields, q.fields, SubjectPath(i, f))
      BY <1>3, <3>1, OthersStay, PatchedObject
    <3> QED
      BY <3>2 DEF Stays, Value
  <2> DEFINE n == <<"metadata", "namespace">>
  <2>2. Value(q, n) = Value(o, n)
    <3>1. n[1] = "metadata" /\ n[2] = "namespace"
      OBVIOUS
    <3> HIDE DEF n
    <3>2. ~Reach(GK(o), n)
      BY <3>1 DEF Reach, IdentityNames
    <3> QED
      BY <3>1, <3>2, Unreached
  <2> HIDE DEF s
  <2> QED
    BY <1>1, <1>3, <1>5, <2>1, <2>2 DEF Local
<1> QED
  BY <1>4, <1>5

(* What starts with a new registry starts with none to replace.             *)
LEMMA Comparable ==
  ASSUME NEW y, IsPath(y), NEW a, IsPath(a), NEW b, IsPath(b), IsPrefix(y, a \o b)
  PROVE  IsPrefix(y, a) \/ IsPrefix(a, y)
<1> DEFINE S == Range(a) \cup Range(b)
           u == a \o b
<1>1. a \in Seq(S) /\ b \in Seq(S) /\ Len(a) \in Nat /\ Len(b) \in Nat /\ Len(y) \in Nat
  BY SeqMonotonic, LenProperties DEF IsPath
<1> HIDE DEF S
<1>2. \A i \in 1..Len(a) + Len(b) : u[i] = IF i <= Len(a) THEN a[i] ELSE b[i - Len(a)]
  BY <1>1, ConcatProperties
<1>3. IsPrefix(y, u)
  OBVIOUS
<1> HIDE DEF u
<1>4. \A m, n \in Nat : \A i \in 1..m : i \in 1..m + n /\ i <= m
  OBVIOUS
<1>5. \A i \in 1..Len(a) : u[i] = a[i]
  BY <1>1, <1>2, <1>4
<1>6. \A i \in 1..Len(y) : u[i] = y[i]
  BY <1>1, <1>3, PrefixParts
<1>7. CASE Len(y) <= Len(a)
  <2>1. \A i \in 1..Len(y) : i \in 1..Len(a)
    BY <1>1, <1>7
  <2>2. \A i \in 1..Len(y) : a[i] = y[i]
    BY <1>5, <1>6, <2>1
  <2>3. y \in Seq(Range(y))
    BY DEF IsPath
  <2> QED
    BY <1>7, <2>2, <2>3, PrefixByParts
<1>8. CASE Len(a) <= Len(y)
  <2>1. \A i \in 1..Len(a) : i \in 1..Len(y)
    BY <1>1, <1>8
  <2>2. \A i \in 1..Len(a) : y[i] = a[i]
    BY <1>5, <1>6, <2>1
  <2>3. a \in Seq(Range(a))
    BY DEF IsPath
  <2> QED
    BY <1>8, <2>2, <2>3, PrefixByParts
<1> QED
  BY <1>1, <1>7, <1>8

LEMMA RestOfImage ==
  ASSUME NEW image, IsPath(image), NEW prefix, IsPath(prefix), IsPrefix(prefix, image)
  PROVE  IsPath(SubSeq(image, Len(prefix) + 1, Len(image)))
<1> DEFINE S == Range(image)
           m == Len(prefix) + 1
           n == Len(image)
           s == SubSeq(image, m, n)
<1>1. image \in Seq(S) /\ n \in Nat /\ Len(prefix) \in Nat /\ Len(prefix) <= n
  BY LenProperties DEF IsPath, IsPrefix
<1>2. m \in 1..n + 1
  BY <1>1
<1> HIDE DEF S, m, n
<1>3. \A i \in m..n : image[i] \in S
  <2>1. \A i \in m..n : i \in 1..n
    BY <1>1, <1>2
  <2> QED
    BY <1>1, <2>1, ElementOfSeq DEF n
<1>4. s \in Seq(S)
  BY <1>1, <1>2, <1>3, SubSeqProperties DEF n
<1> HIDE DEF s
<1>5. s \in Seq(Range(s))
  BY <1>4, SeqOfRange
<1> QED
  BY <1>5 DEF IsPath, s, m, n

LEMMA ReplacesNoImage ==
  ASSUME NEW k, NEW o, NEW q, Twice(k, o, q), NEW x \in ImageOps(k, q)
  PROVE  FALSE
<1>0. /\ GoodOptions(k) /\ IsObject(o) /\ WellFormed(o) /\ CarriedOut(k, o) /\ q = Patched(k, o)
      /\ GK(q) = GK(o) /\ WellFormed(q)
  BY TwiceFacts
<1> DEFINE p == x.path
<1>1. p \in ImagePaths(q) /\ HasImages(q) /\ Replaceable(k, q.fields[p]) # {}
  BY ImageValues
<1> HIDE DEF p
<1>2. p \in DOMAIN q.fields /\ Position(p)
  BY <1>1, ImagePosition
<1>3. p[1] = "spec" /\ p # SuspendAt
  BY <1>2, AddedPaths DEF Position
<1>4. p \in DOMAIN o.fields
  BY <1>2, <1>3, WasThere DEF Annotation
<1>5. p \in ImagePaths(o)
  BY <1>0, <1>1, <1>4 DEF ImagePaths
<1>6. HasImages(o)
  <2>1. CASE GK(q) = <<"", "Pod">>
    BY <1>0, <2>1 DEF HasImages
  <2>2. CASE IsPodSpecable(q)
    <3> DEFINE s == <<"spec", "template">>
    <3>1. PICK r \in DOMAIN q.fields : IsPrefix(s, r)
      BY <2>2 DEF IsPodSpecable, Found
    <3>2. Len(s) \in Nat /\ 1 \in 1..Len(s) /\ 2 \in 1..Len(s) /\ s[1] = "spec" /\ s[2] = "template"
      OBVIOUS
    <3> HIDE DEF s
    <3>3. r[1] = "spec" /\ r[2] = "template"
      BY <3>1, <3>2, PrefixParts
    <3>4. r \in DOMAIN o.fields
      BY <3>3, WasThere, AddedPaths DEF Annotation
    <3>5. Found(o, s)
      BY <3>1, <3>4 DEF Found
    <3> QED
      BY <3>5 DEF HasImages, IsPodSpecable, s
  <2> QED
    BY <1>1, <2>1, <2>2 DEF HasImages
<1> DEFINE was == o.fields[p]
           now == q.fields[p]
<1>7. IsPath(was) /\ IsPath(now)
  BY <1>0, <1>1, <1>5 DEF WellFormed
<1>8. IF HasImages(o) /\ Replaceable(k, was) # {} THEN LongestReplaced(k, was, now) ELSE now = was
  <2>1. Value(q, p) = now
    BY <1>2 DEF Value
  <2> QED
    BY <1>0, <1>5, <2>1, ImageReplaced
<1>9. Replaceable(k, now) # {}
  BY <1>1
<1> HIDE DEF was, now
<1>10. LongestReplaced(k, was, now)
  BY <1>6, <1>8, <1>9
<1>11. PICK prefix \in DOMAIN k.registry :
         /\ IsPrefix(prefix, was)
         /\ now = k.registry[prefix] \o SubSeq(was, Len(prefix) + 1, Len(was))
  BY <1>10 DEF LongestReplaced
<1>12. PICK y \in DOMAIN k.registry : IsPrefix(y, now)
  BY <1>0, <1>7, <1>9, LongestPrefix DEF LongestReplaced
<1>13. IsPath(prefix) /\ IsPath(y) /\ IsPath(k.registry[prefix])
  BY <1>0 DEF GoodOptions
<1> DEFINE rest == SubSeq(was, Len(prefix) + 1, Len(was))
           new == k.registry[prefix]
<1>14. IsPath(rest)
  BY <1>7, <1>11, <1>13, RestOfImage
<1>15. now = new \o rest /\ IsPath(new)
  BY <1>11, <1>13
<1> HIDE DEF rest, new
<1>16. IsPrefix(y, new) \/ IsPrefix(new, y)
  BY <1>12, <1>13, <1>14, <1>15, Comparable
<1> QED
  BY <1>16, TwiceFacts DEF Renames, new

(* Of a Service the second patch takes node ports and nothing else.         *)
LEMMA OnlyNodePorts ==
  ASSUME NEW k, NEW o, NEW q, Twice(k, o, q), NEW p \in DOMAIN q.fields,
         NEW x \in ServiceOps(q), Touches(x, p)
  PROVE  \E i \in NodePortsOf(q) : p = NodePort(i)
<1>1. CASE \E s \in AddressPaths(q) : x = RemovePath(s)
  <2>1. PICK s \in AddressPaths(q) : x = RemovePath(s)
    BY <1>1
  <2>2. Len(s) \in Nat
    BY ServiceAddressParts DEF AddressPaths, ServiceAddresses
  <2> QED
    BY <2>1, <2>2, UnderRemoved, AddressesGone, TwiceFacts
<1>2. CASE \E i \in Index : Allocated(q, i) /\ x = RemovePath(NodePort(i))
  <2>1. PICK i \in Index : Allocated(q, i) /\ x = RemovePath(NodePort(i))
    BY <1>2
  <2> DEFINE n == NodePort(i)
  <2>2. n \in DOMAIN q.fields /\ GK(q) = <<"", "Service">>
    BY <2>1 DEF Allocated, Value
  <2>3. Len(n) \in Nat
    BY NodePortParts
  <2>4. Found(q, n) /\ IsPrefix(n, p)
    BY <2>1, <2>3, UnderRemoved
  <2>5. i \in NodePortsOf(q)
    BY <2>1, <2>2, <2>4 DEF NodePortsOf
  <2>6. \A r : IsPrefix(n, r) \/ n = r => r[1] = "spec" /\ r[2] = "ports"
    BY BehindNodePort
  <2> HIDE DEF n
  <2>7. n \in DOMAIN o.fields /\ p \in DOMAIN o.fields
    BY <2>2, <2>4, <2>6, WasThere, AddedPaths DEF Annotation
  <2>8. p = n
    BY <2>4, <2>7, TwiceFacts DEF IsTree, BehindLeaf, IsStrictPrefix
  <2> QED
    BY <2>5, <2>8 DEF n
<1> QED
  BY <1>1, <1>2 DEF ServiceOps

(* The second patch suspends only a Job that lost its idempotent mark.      *)
Unmarks(o, q) == Annotated(o, IdempotentKey, "true") /\ ~Annotated(q, IdempotentKey, "true")

LEMMA SuspensionSettles ==
  ASSUME NEW k, NEW o, NEW q, Twice(k, o, q), NEW p \in {SuspendAt} \cup DOMAIN q.fields,
         NEW x \in SuspendOps(q), Touches(x, p)
  PROVE  Unmarks(o, q) /\ p = SuspendAt
<1>0. GoodOptions(k) /\ IsObject(o) /\ CarriedOut(k, o) /\ q = Patched(k, o) /\ GK(q) = GK(o)
  BY TwiceFacts
<1>1. MustWait(q) /\ x = AddPath(SuspendAt, "true")
  BY DEF SuspendOps, SuspendAt
<1>2. /\ GK(o) = <<"batch", "Job">> /\ ~Owned(q) /\ ~Annotated(q, IdempotentKey, "true")
      /\ Value(q, SuspendAt) # "true"
  BY <1>0, <1>1 DEF MustWait, SuspendAt
<1>3. ~MustWait(o) /\ Value(o, SuspendAt) # "true"
  BY <1>0, <1>2, Suspended
<1>4. ~Owned(o)
  BY <1>0, <1>2, OwnersStay
<1>5. Unmarks(o, q)
  BY <1>2, <1>3, <1>4 DEF MustWait, SuspendAt, Unmarks
<1>6. p = SuspendAt
  <2> SUFFICES ASSUME p # SuspendAt PROVE FALSE
    OBVIOUS
  <2>1. IsPrefix(SuspendAt, p) /\ p \in DOMAIN q.fields
    BY <1>1, OperationParts DEF Touches
  <2>2. Len(SuspendAt) \in Nat /\ 1 \in 1..Len(SuspendAt) /\ SuspendAt[1] = "spec"
    BY AddedPaths
  <2>3. p[1] = "spec"
    BY <2>1, <2>2, PrefixParts
  <2>4. p \in DOMAIN o.fields
    BY <2>1, <2>3, WasThere DEF Annotation
  <2>5. ~IsStrictPrefix(<<"spec", "suspend">>, p)
    BY <1>2, <2>4, TwiceFacts DEF IsTree
  <2> QED
    BY <2>1, <2>5 DEF IsStrictPrefix, SuspendAt
<1> QED
  BY <1>5, <1>6

(* A second patch changes nothing but node ports and the suspension of a    *)
(* Job that lost its mark.                                                  *)
LEMMA SecondPatch ==
  ASSUME NEW k, NEW o, NEW q, Twice(k, o, q), NEW p, ~\E i \in NodePortsOf(q) : p = NodePort(i),
         ~(Unmarks(o, q) /\ p = SuspendAt)
  PROVE  Stays(q.fields, Patched(k, q).fields, p)
<1>0. GoodOptions(k) /\ IsObject(q)
  BY TwiceFacts
<1>1. CASE Annotation(p)
  BY <1>1, AnnotationsSettle
<1>2. CASE ~Annotation(p) /\ p \in DOMAIN q.fields
  <2>1. ASSUME NEW x \in Operations(k, q), Touches(x, p)
        PROVE  FALSE
    <3>1. x \notin (StripOps(q) \cup Adds(k)) \cup Removes(k)
      BY <1>2, <2>1, StripsNothing
    <3>2. x \notin PodOps(q) /\ x \notin SecretOps(q)
      BY <1>2, <2>1, NoPodFields
    <3>3. x \notin ClaimOps(k, q) /\ x \notin TemplateOps(k, q)
      BY RenamesNothing
    <3>4. x \notin JobOps(q)
      BY <1>2, <2>1, NoJobFields
    <3>5. x \notin SuspendOps(q)
      BY <1>2, <2>1, SuspensionSettles
    <3>6. x \notin SubjectOps(q)
      BY <1>2, <2>1, NoLocalSubjects
    <3>7. x \notin ImageOps(k, q)
      BY ReplacesNoImage
    <3>8. x \notin ServiceOps(q)
      BY <1>2, <2>1, OnlyNodePorts
    <3>9. x \notin AnnotationOps(k)
      BY <3>1 DEF AnnotationOps, Adds, Removes, KeyAt
    <3> QED
      BY <3>1, <3>2, <3>3, <3>4, <3>5, <3>6, <3>7, <3>8, <3>9 DEF Operations
  <2> QED
    BY <1>0, <2>1, OthersStay, PatchedObject
<1>3. CASE ~Annotation(p) /\ p \notin DOMAIN q.fields
  <2>1. ASSUME p \in DOMAIN Patched(k, q).fields
        PROVE  FALSE
    <3>1. /\ p = SuspendAt \/ \E a \in DOMAIN k.add : p = KeyAt(a)
          /\ \E x \in Operations(k, q) : x.op # "remove" /\ x.path = p
      BY <1>0, <1>3, <2>1, NewPaths DEF KeyAt
    <3>2. p = SuspendAt
      BY <1>3, <3>1, TwiceFacts, KeyPaths
    <3>3. PICK x \in Operations(k, q) : x.op # "remove" /\ x.path = p
      BY <3>1
    <3>4. x.op = "add"
      BY <1>0, <1>3, <3>3, Replacements
    <3>5. x \notin Adds(k)
      <4> SUFFICES ASSUME x \in Adds(k) PROVE FALSE
        OBVIOUS
      <4>1. PICK a \in DOMAIN k.add : x.path = KeyAt(a)
        BY OperationParts DEF Adds
      <4> QED
        BY <1>3, <3>3, <4>1, TwiceFacts, KeyPaths
    <3>6. x \notin StripOps(q)
      BY <3>3, OperationParts DEF StripOps
    <3>7. x \in Removes(k) \cup Rest(k, q)
      BY <3>5, <3>6 DEF Operations, AnnotationOps, Adds, Removes, Rest, KeyAt
    <3>8. x \in SuspendOps(q)
      BY <3>4, <3>7, LaterAdditions
    <3>9. Touches(x, p)
      BY <3>3 DEF Touches
    <3> QED
      BY <3>2, <3>8, <3>9, SuspensionSettles
  <2> QED
    BY <1>3, <2>1 DEF Stays
<1> QED
  BY <1>1, <1>2, <1>3

(* What patches an object depends on four of the options.                   *)
AddsOf(add) == SetToSeq({AddPath(AnnotationsAt \o Parts[a], add[a]) : a \in DOMAIN add})
RemovesOf(remove) == RemoveAll({AnnotationsAt \o Parts[a] : a \in remove})
RenamesOf(renames, o, read, write) ==
  LET at == {i \in Index : Value(o, read[i]) \in DOMAIN renames}
  IN  SetToSeq({ReplacePath(write[i], renames[Value(o, read[i])]) : i \in at})
UpdatedOf(registry, image) ==
  LET last == Max({i \in DOMAIN image : SubSeq(image, 1, i) \in DOMAIN registry})
  IN  registry[SubSeq(image, 1, last)] \o SubSeq(image, last + 1, Len(image))
ImagesOf(registry, o) ==
  LET at == {p \in ImagePaths(o) :
               {i \in DOMAIN o.fields[p] : SubSeq(o.fields[p], 1, i) \in DOMAIN registry} # {}}
  IN  SetToSeq({ReplacePath(p, UpdatedOf(registry, o.fields[p])) : p \in at})
SameNames(k, l) ==
  k.add = l.add /\ k.remove = l.remove /\ k.renames = l.renames /\ k.registry = l.registry

LEMMA SamePatches ==
  ASSUME NEW k, NEW l, SameNames(k, l), NEW o
  PROVE  getKubernetesTransforms(k, o) = getKubernetesTransforms(l, o)
<1>1. \A m : addAnnotations(m) = AddsOf(m.add) /\ removeAnnotations(m) = RemovesOf(m.remove)
  BY DEF addAnnotations, AddsOf, removeAnnotations, RemovesOf
<1>2. \A m, r, w : Renamed(m, o, r, w) = RenamesOf(m.renames, o, r, w)
  BY DEF Renamed, RenamesOf
<1>3. \A m : UpdateImages(m, o) = IF ~(GK(o) = <<"", "Pod">> \/ IsPodSpecable(o)) THEN <<>>
                                   ELSE ImagesOf(m.registry, o)
  BY DEF UpdateImages, Replaceable, UpdateImageRegistry, UpdatedAt, UpdatedOf, ImagesOf
<1>4. UpdateImages(k, o) = UpdateImages(l, o)
  BY <1>3 DEF SameNames
<1>5. RenamePVCs(k, o) = RenamePVCs(l, o) /\ renamePVCTemplates(k, o) = renamePVCTemplates(l, o)
  BY <1>2 DEF SameNames, RenamePVCs, renamePVCTemplates
<1>6. addAnnotations(k) = addAnnotations(l) /\ removeAnnotations(k) = removeAnnotations(l)
  BY <1>1 DEF SameNames
<1> QED
  BY <1>4, <1>5, <1>6 DEF getKubernetesTransforms

LEMMA SameResult ==
  ASSUME NEW k, NEW l, SameNames(k, l), NEW o
  PROVE  Patched(k, o) = Patched(l, o) /\ (CarriedOut(k, o) <=> CarriedOut(l, o))
BY SamePatches DEF Patched, CarriedOut

(* The strip flags leave these four options alone.                          *)
LEMMA NamesKept ==
  ASSUME UsableOptions(options), NEW extras, DOMAIN extras \subseteq {"rbac", "bundle"}
  PROVE  SameNames(setOptionalFields(extras), options)
<1>1. {"add", "remove", "registry", "renames"} \subseteq DOMAIN options
  BY DEF UsableOptions, GoodOptions, Defaults
<1>2. \A o \in {"add", "remove", "registry", "renames"} :
        setOptionalFields(extras)[o] = options[o]
  BY <1>1 DEF setOptionalFields, Given
<1> QED
  BY <1>2 DEF SameNames

(* The object of the second stage is the patched original, and a request    *)
(* with strip flags alone has the options which patched it.                 *)
Again == object = Patched(options, original) /\ CarriedOut(options, original)
Flags(extras) == DOMAIN extras \subseteq {"rbac", "bundle"}
RepeatInv ==
  /\ answer.status = "exported" /\ stage = 1 => Again
  /\ answer.status \in {"patched", "applied"} /\ stage = 2 /\ Flags(Last(history)) => Again

LEMMA RepeatInvNext ==
  TypeInv /\ HistoryInv /\ PortsInv /\ RepeatInv /\ [Next]_vars => RepeatInv'
<1> SUFFICES ASSUME TypeInv, HistoryInv, PortsInv, RepeatInv, [Next]_vars
             PROVE  RepeatInv'
  OBVIOUS
<1>0. stage \in Nat /\ UsableOptions(options)
  BY BoundsAssumption DEF TypeInv, StageInv
<1>1. CASE Export
  <2>1. answer' = [status |-> "exported", patches |-> <<>>] /\ stage' = 0
    BY <1>1 DEF Export, Reply
  <2>2. answer'.status = "exported" /\ stage' # 1
    BY <2>1
  <2> QED
    BY <2>2 DEF RepeatInv
<1>2. CASE Run
  <2>1. PICK extras \in Requests :
          options' = setOptionalFields(extras) /\ history' = Append(history, extras)
    BY <1>2 DEF Run
  <2>2. /\ answer.status = "exported" /\ stage' = stage + 1
        /\ object' = object /\ original' = original
    BY <1>2 DEF Run
  <2>3. answer'.status # "exported"
    BY <1>2 DEF Run, Reply, Answer
  <2>4. Last(history') = extras
    BY <2>1, AppendProperties DEF Last, HistoryInv
  <2>5. ASSUME stage' = 2, Flags(extras)
        PROVE  Again'
    <3>1. Again
      BY <1>0, <2>2, <2>5 DEF RepeatInv
    <3>2. SameNames(options', options)
      BY <1>0, <2>1, <2>5, NamesKept DEF Flags
    <3>3. /\ Patched(options', original) = Patched(options, original)
          /\ CarriedOut(options', original) <=> CarriedOut(options, original)
      BY <3>2, SameResult
    <3> QED
      BY <2>2, <3>1, <3>3 DEF Again
  <2> QED
    BY <2>3, <2>4, <2>5 DEF RepeatInv
<1>3. CASE ApplyPatches
  <2>1. /\ answer.status = "patched" /\ stage' = stage /\ history' = history
        /\ object' = object /\ original' = original /\ options' = options
    BY <1>3 DEF ApplyPatches
  <2>2. answer'.status # "exported"
    BY <1>3 DEF ApplyPatches, Reply
  <2>3. Again' <=> Again
    BY <2>1 DEF Again
  <2> QED
    BY <2>1, <2>2, <2>3 DEF RepeatInv
<1>4. CASE NextStage
  <2>1. /\ answer.status = "applied" /\ object' = output /\ original' = original
        /\ stage' = stage /\ options' = options
        /\ answer' = [status |-> "exported", patches |-> <<>>]
    BY <1>4 DEF NextStage, Reply
  <2>2. answer'.status = "exported"
    BY <2>1
  <2>3. output = Patched(options, object) /\ CarriedOut(options, object)
    BY <2>1 DEF TypeInv, AnswerInv
  <2>4. ASSUME stage = 1
        PROVE  Again'
    <3>1. object = original
      BY <2>1, <2>4 DEF PortsInv, AtStage
    <3> QED
      BY <2>1, <2>3, <3>1 DEF Again
  <2> QED
    BY <2>1, <2>2, <2>4 DEF RepeatInv
<1>5. CASE UNCHANGED vars
  BY <1>5 DEF vars, RepeatInv, Again
<1> QED
  BY <1>1, <1>2, <1>3, <1>4, <1>5 DEF Next

LEMMA RepeatInvariance == Spec => []RepeatInv
<1>1. Init => RepeatInv
  <2>1. Init => answer.status = "none"
    BY DEF Init
  <2> QED
    BY <2>1 DEF RepeatInv
<1> QED
  BY <1>1, TypeInvariance, HistoryInvariance, PortsInvariance, RepeatInvNext, PTL DEF Spec

(* Handing an object to the plugin once more with the same options changes  *)
(* nothing, whatever the object and the requests, but what the property     *)
(* names: an answer leaves nothing behind that its own transforms look for  *)
(* (getKubernetesTransforms, Run, the stages of a transform).               *)
THEOREM SecondStageSettles == Spec => []SecondStageStable
<1>1. TypeInv /\ PortsInv /\ RepeatInv => SecondStageStable
  <2> SUFFICES ASSUME TypeInv, PortsInv, RepeatInv, Repeats
               PROVE  LET changing == {NodePort(i) : i \in NodePortsOf(object)}
                                      \cup IF Unmarked THEN {<<"spec", "suspend">>} ELSE {}
                      IN  Restrict(output.fields, DOMAIN output.fields \ changing)
                            = Restrict(object.fields, DOMAIN object.fields \ changing)
    BY DEF SecondStageStable
  <2>1. /\ GoodOptions(options) /\ output = Patched(options, object)
        /\ CarriedOut(options, object)
    BY DEF TypeInv, UsableOptions, AnswerInv, Repeats, Applied
  <2>2. Again
    BY DEF RepeatInv, Repeats, Applied, Flags
  <2>3. original \in Objects
    BY DEF PortsInv, Repeats, Applied
  <2>4. PlainKeys(options) /\ ~Renames(options)
    BY DEF Repeats, PlainKeys, Rerenamed, Renames
  <2>5. Twice(options, original, object)
    BY <2>1, <2>2, <2>3, <2>4, ObjectsAreObjects DEF Twice, Again
  <2>6. Unmarked <=> Unmarks(original, object)
    BY DEF Unmarked, Unmarks
  <2> DEFINE changing == {NodePort(i) : i \in NodePortsOf(object)}
                         \cup IF Unmarked THEN {<<"spec", "suspend">>} ELSE {}
             f == object.fields
             g == output.fields
  <2>7. ASSUME NEW p, p \notin changing
        PROVE  Stays(f, g, p)
    <3>1. ~\E i \in NodePortsOf(object) : p = NodePort(i)
      BY <2>7
    <3>2. ~(Unmarks(original, object) /\ p = SuspendAt)
      BY <2>6, <2>7 DEF SuspendAt
    <3>3. Stays(object.fields, Patched(options, object).fields, p)
      BY <2>5, <3>1, <3>2, SecondPatch
    <3> QED
      BY <2>1, <3>3
  <2> HIDE DEF changing, f, g
  <2>8. DOMAIN g \ changing = DOMAIN f \ changing
    BY <2>7 DEF Stays
  <2>9. \A p \in DOMAIN f \ changing : g[p] = f[p]
    BY <2>7 DEF Stays
  <2>10. Restrict(g, DOMAIN g \ changing) = Restrict(f, DOMAIN f \ changing)
    BY <2>8, <2>9 DEF Restrict
  <2> QED
    BY <2>10 DEF changing, f, g
<1> QED
  BY <1>1, TypeInvariance, PortsInvariance, RepeatInvariance, PTL
=============================================================================
