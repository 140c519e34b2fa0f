---------------------------- MODULE Runner_proofs ----------------------------
(***************************************************************************)
(* Proofs about Runner, for any plugins, priorities and operations: on each *)
(* path the operation of the plugin with the highest priority survives, no  *)
(* operation disappears without being reported, and the loops stay within   *)
(* their lists.                                                             *)
(***************************************************************************)
EXTENDS Runner, SequenceTheorems, FiniteSetTheorems, TLAPS

Typed ==
  /\ pc \in {"plugins", "sanitize", "done"}
  /\ patches \in Seq(PluginOperation)
  /\ pos \in Nat \ {0}
  /\ patchMap \in [Paths -> PluginOperation \cup {None}]
  /\ ignored \in Seq(PluginOperation)

Before == 1..(pos - 1)

(* Among the operations before pos none is preferable to the j-th on its    *)
(* path.                                                                    *)
WinsSoFar(j) ==
  \A i \in Before : patches[i].path = patches[j].path =>
    /\ ~Replaces(patches[i], patches[j])
    /\ i < j => Replaces(patches[j], patches[i])

(* patchMap holds the winners among the operations before pos.              *)
WinnersHeld ==
  /\ pos <= Len(patches) + 1
  /\ \A i \in Before : patches[i].path \in Paths /\ patchMap[patches[i].path] # None
  /\ \A p \in Paths : patchMap[p] # None =>
       \E j \in Before : patches[j] = patchMap[p] /\ patches[j].path = p /\ WinsSoFar(j)

(* An operation before pos is equal to the selected one or is reported.     *)
NoneLost ==
  \A i \in Before :
    \/ Untagged(patchMap[patches[i].path]) = Untagged(patches[i])
    \/ \E k \in DOMAIN ignored : Untagged(ignored[k]) = Untagged(patches[i])

IInv ==
  /\ Typed
  /\ pc = "plugins" => pos = 1 /\ patchMap = [p \in Paths |-> None]
  /\ WinnersHeld
  /\ NoneLost
  /\ HighestPriorityWins
  /\ NothingLost

-----------------------------------------------------------------------------
(* PluginOperationsFromPatch keeps what it is given in order. *)
LEMMA TaggedType ==
  ASSUME NEW name \in Plugins, NEW n \in Nat, NEW patch \in Patch(n)
  PROVE  Tagged(name, patch) \in Seq(PluginOperation)
<1>1. PICK m \in 0..n : patch \in [1..m -> Operation]
  BY DEF Patch
<1>2. Tagged(name, patch) \in [1..m -> PluginOperation]
  BY <1>1 DEF Tagged, Operation, PluginOperation
<1>3. m \in Nat
  BY <1>1
<1> QED
  BY <1>2, <1>3, SeqDef

LEMMA InitIInv == Init => IInv
<1> SUFFICES ASSUME Init PROVE IInv
  OBVIOUS
<1>1. Typed
  BY DEF Init, Typed
<1>2. Before = {}
  BY DEF Init, Before
<1>3. WinnersHeld
  BY <1>2 DEF Init, WinnersHeld
<1>4. NoneLost
  BY <1>2 DEF NoneLost
<1> QED
  BY <1>1, <1>3, <1>4 DEF Init, IInv, HighestPriorityWins, NothingLost, Settled

LEMMA RunPluginIInv == IInv /\ RunPlugin => IInv'
<1> SUFFICES ASSUME IInv, RunPlugin PROVE IInv'
  OBVIOUS
<1>1. patches' \in Seq(PluginOperation)
  <2>1. PICK name \in Plugins, resp \in PluginResponse :
          patches' = patches \o Tagged(name, resp.patches)
    BY DEF RunPlugin
  <2>2. resp.patches \in Patch(0) \/ resp.patches \in Patch(MaxPatches)
    <3>1. << >> \in [1..0 -> Operation]
      OBVIOUS
    <3>2. << >> \in Patch(0)
      BY <3>1 DEF Patch
    <3> QED
      BY <3>2 DEF PluginResponse
  <2>3. Tagged(name, resp.patches) \in Seq(PluginOperation)
    BY <2>2, TaggedType, RunnerAssumption
  <2> QED
    BY <2>1, <2>3 DEF IInv, Typed
<1>2. /\ pc' = "plugins" /\ pos' = 1
      /\ patchMap' = [p \in Paths |-> None]
      /\ UNCHANGED ignored
  BY DEF RunPlugin, IInv, selection
<1>3. Typed'
  BY <1>1, <1>2 DEF IInv, Typed
<1>4. Before' = {}
  BY <1>2 DEF Before
<1>5. Len(patches') \in Nat
  BY <1>1
<1>6. WinnersHeld'
  BY <1>2, <1>4, <1>5 DEF WinnersHeld
<1>7. NoneLost'
  BY <1>4 DEF NoneLost
<1> QED
  BY <1>2, <1>3, <1>6, <1>7 DEF IInv, HighestPriorityWins, NothingLost, Settled

(* Steps that leave operations and selection alone keep what is said of     *)
(* them.                                                                    *)
LEMMA SelectionKept ==
  ASSUME IInv, UNCHANGED << patches, selection >>, pc' \in {"sanitize", "done"}
  PROVE  Typed' /\ WinnersHeld' /\ NoneLost' /\ pc' # "plugins"
BY DEF IInv, Typed, WinnersHeld, NoneLost, WinsSoFar, Before, selection, Replaces, Untagged

(* The responses without operations.                                        *)
LEMMA EarlyIInv == IInv /\ (ReturnEarly \/ StartSanitizing \/ MissingPath) => IInv'
<1> SUFFICES ASSUME IInv, ReturnEarly \/ StartSanitizing \/ MissingPath PROVE IInv'
  OBVIOUS
<1>1. UNCHANGED << patches, selection >> /\ pc' \in {"sanitize", "done"}
  BY DEF ReturnEarly, StartSanitizing, MissingPath, collected
<1>2. Typed' /\ WinnersHeld' /\ NoneLost' /\ pc' # "plugins"
  BY <1>1, SelectionKept
<1>3. Settled' => patches' = << >> /\ response'.transform = << >>
  BY DEF ReturnEarly, StartSanitizing, MissingPath, Settled, Response, collected
<1>4. HighestPriorityWins' /\ NothingLost'
  BY <1>3 DEF HighestPriorityWins, NothingLost
<1> QED
  BY <1>2, <1>4 DEF IInv

(* Priorities order plugins: what does not beat the loser does not beat the *)
(* winner, and what the loser had beaten the winner beats.                  *)
LEMMA ReplacesOrder ==
  ASSUME NEW a \in PluginOperation, NEW b \in PluginOperation, NEW c \in PluginOperation,
         Replaces(a, b)
  PROVE  /\ ~Replaces(c, b) => ~Replaces(c, a) /\ Replaces(a, c)
         /\ Replaces(b, c) => Replaces(a, c)
         /\ ~Replaces(a, a)
BY RunnerAssumption DEF Replaces, PluginOperation

(* The turns of the loop that select or reject the operation at pos.        *)
LEMMA FirstOnPathIInv == IInv /\ FirstOnPath => IInv'
<1> SUFFICES ASSUME IInv, FirstOnPath PROVE IInv'
  OBVIOUS
<1> DEFINE o == patches[pos]
<1>1. /\ pos \in 1..Len(patches)
      /\ o \in PluginOperation /\ o.path \in Paths
      /\ patchMap[o.path] = None
      /\ patchMap' = [patchMap EXCEPT ![o.path] = o]
      /\ pos' = pos + 1
      /\ UNCHANGED << pc, patches, ignored, response >>
      /\ pc = "sanitize"
  <2>1. pos \in 1..Len(patches) /\ o.path # None /\ patchMap[o.path] = None
    BY DEF FirstOnPath, IInv, Typed
  <2>2. o \in PluginOperation
    BY <2>1 DEF IInv, Typed
  <2>3. o.path \in Paths
    BY <2>1, <2>2 DEF PluginOperation
  <2> QED
    BY <2>1, <2>2, <2>3 DEF FirstOnPath, collected
<1>2. Before' = Before \cup {pos}
  BY <1>1 DEF Before, IInv, Typed
<1>3. Typed'
  BY <1>1 DEF IInv, Typed
<1>4. o # None
  BY <1>1, RunnerAssumption DEF PluginOperation
<1>5. \A i \in Before : patches[i].path # o.path
  BY <1>1 DEF IInv, WinnersHeld
<1>6. ~Replaces(o, o)
  BY <1>1, RunnerAssumption DEF Replaces, PluginOperation
<1> PICK n \in 1..Len(patches) : n = pos
  BY <1>1
<1>7. WinsSoFar(n)'
  <2>1. \A i \in Before' : patches'[i].path = patches'[n].path => i = n
    BY <1>1, <1>2, <1>5
  <2> QED
    BY <1>1, <1>6, <2>1 DEF WinsSoFar, Replaces
<1>8. ASSUME NEW j \in Before, WinsSoFar(j)
      PROVE  WinsSoFar(j)'
  BY <1>1, <1>2, <1>5, <1>8 DEF WinsSoFar, Replaces
<1>9. \A i \in Before' : patches'[i].path \in Paths /\ patchMap'[patches'[i].path] # None
  BY <1>1, <1>2, <1>4, <1>5 DEF IInv, Typed, WinnersHeld
<1>10. ASSUME NEW p \in Paths, patchMap'[p] # None
       PROVE  \E j \in Before' : /\ patches'[j] = patchMap'[p]
                                 /\ patches'[j].path = p
                                 /\ WinsSoFar(j)'
  <2>1. CASE p = o.path
    <3>1. n \in Before' /\ patches'[n] = o /\ patchMap'[p] = o /\ o.path = p
      BY <1>1, <1>2, <2>1 DEF IInv, Typed
    <3> QED
      BY <1>7, <3>1
  <2>2. CASE p # o.path
    <3>1. patchMap'[p] = patchMap[p]
      BY <1>1, <2>2 DEF IInv, Typed
    <3>2. PICK j \in Before : patches[j] = patchMap[p] /\ patches[j].path = p /\ WinsSoFar(j)
      BY <1>10, <3>1 DEF IInv, WinnersHeld
    <3> QED
      BY <1>1, <1>2, <1>8, <3>1, <3>2
  <2> QED
    BY <2>1, <2>2
<1>11. WinnersHeld'
  BY <1>1, <1>9, <1>10 DEF WinnersHeld, IInv, Typed
<1>12. NoneLost'
  <2>1. \A i \in Before : patchMap'[patches[i].path] = patchMap[patches[i].path]
    BY <1>1, <1>5 DEF IInv, Typed, WinnersHeld
  <2>2. patchMap'[o.path] = o
    BY <1>1 DEF IInv, Typed
  <2> QED
    BY <1>1, <1>2, <2>1, <2>2 DEF NoneLost, IInv, Untagged
<1> QED
  BY <1>1, <1>3, <1>11, <1>12 DEF IInv, HighestPriorityWins, NothingLost, Settled

LEMMA CollisionIInv == IInv /\ Collision => IInv'
<1> SUFFICES ASSUME IInv, Collision PROVE IInv'
  OBVIOUS
<1> DEFINE o == patches[pos]
<1> DEFINE found == patchMap[o.path]
<1>1. /\ pos \in 1..Len(patches)
      /\ o \in PluginOperation /\ o.path \in Paths
      /\ found # None /\ found \in PluginOperation
  <2>1. pos \in 1..Len(patches) /\ o.path # None /\ found # None
    BY DEF Collision, IInv, Typed
  <2>2. o \in PluginOperation
    BY <2>1 DEF IInv, Typed
  <2>3. o.path \in Paths
    BY <2>1, <2>2 DEF PluginOperation
  <2> QED
    BY <2>1, <2>2, <2>3 DEF IInv, Typed
<1>2. /\ patchMap' = IF Replaces(o, found) THEN [patchMap EXCEPT ![o.path] = o] ELSE patchMap
      /\ ignored' = IF EqualOperation(o, found) THEN ignored
                    ELSE Append(ignored, IF Replaces(o, found) THEN found ELSE o)
      /\ pos' = pos + 1
      /\ UNCHANGED << pc, patches, response >>
      /\ pc = "sanitize"
  BY DEF Collision, collected
<1>3. Before' = Before \cup {pos}
  BY <1>1, <1>2 DEF Before, IInv, Typed
<1> PICK n \in 1..Len(patches) : n = pos
  BY <1>1
<1>4. PICK m \in Before : /\ patches[m] = found
                           /\ patches[m].path = o.path
                           /\ WinsSoFar(m)
  BY <1>1 DEF IInv, WinnersHeld
<1>5. \A i \in Before : i \in Int /\ i < n /\ patches[i] \in PluginOperation
  BY <1>1 DEF Before, IInv, Typed
<1>6. Typed'
  BY <1>1, <1>2 DEF IInv, Typed
<1>7. \A p \in Paths : p # o.path => patchMap'[p] = patchMap[p]
  BY <1>2 DEF IInv, Typed
<1>8. patchMap'[o.path] = IF Replaces(o, found) THEN o ELSE found
  BY <1>1, <1>2 DEF IInv, Typed
<1>9. o # None
  BY <1>1, RunnerAssumption DEF PluginOperation
<1>10. ASSUME Replaces(o, found)
       PROVE  WinsSoFar(n)'
  <2>1. ASSUME NEW i \in Before, patches[i].path = o.path
        PROVE  ~Replaces(patches[i], o) /\ Replaces(o, patches[i])
    <3>1. ~Replaces(patches[i], found)
      BY <1>4, <2>1 DEF WinsSoFar
    <3> QED
      BY <1>1, <1>5, <1>10, <2>1, <3>1, ReplacesOrder
  <2>2. ~Replaces(o, o)
    BY <1>1, <1>10, ReplacesOrder
  <2> QED
    BY <1>2, <1>3, <1>5, <2>1, <2>2 DEF WinsSoFar, Replaces
<1>11. ASSUME ~Replaces(o, found)
       PROVE  WinsSoFar(m)'
  BY <1>2, <1>3, <1>4, <1>5, <1>11 DEF WinsSoFar, Replaces
<1>12. ASSUME NEW j \in Before, WinsSoFar(j), patches[j].path # o.path
       PROVE  WinsSoFar(j)'
  BY <1>2, <1>3, <1>12 DEF WinsSoFar, Replaces
<1>13. \A i \in Before' : patches'[i].path \in Paths /\ patchMap'[patches'[i].path] # None
  BY <1>1, <1>2, <1>3, <1>7, <1>8, <1>9 DEF IInv, WinnersHeld
<1>14. ASSUME NEW p \in Paths, patchMap'[p] # None
       PROVE  \E j \in Before' : /\ patches'[j] = patchMap'[p]
                                 /\ patches'[j].path = p
                                 /\ WinsSoFar(j)'
  <2>1. CASE p # o.path
    <3>1. PICK j \in Before : patches[j] = patchMap[p] /\ patches[j].path = p /\ WinsSoFar(j)
      BY <1>7, <1>14, <2>1 DEF IInv, WinnersHeld
    <3> QED
      BY <1>2, <1>3, <1>7, <1>12, <2>1, <3>1
  <2>2. CASE p = o.path /\ Replaces(o, found)
    BY <1>2, <1>3, <1>8, <1>10, <2>2
  <2>3. CASE p = o.path /\ ~Replaces(o, found)
    BY <1>2, <1>3, <1>4, <1>8, <1>11, <2>3
  <2> QED
    BY <2>1, <2>2, <2>3
<1>15. WinnersHeld'
  BY <1>1, <1>2, <1>13, <1>14 DEF WinnersHeld, IInv, Typed
<1>16. NoneLost'
  <2>1. ignored \in Seq(PluginOperation)
    BY DEF IInv, Typed
  <2>2. \A k \in DOMAIN ignored : k \in DOMAIN ignored' /\ ignored'[k] = ignored[k]
    BY <1>1, <1>2, <2>1
  <2>3. ASSUME NEW i \in Before
        PROVE  /\ patches[i].path \in Paths
               /\ \/ Untagged(patchMap[patches[i].path]) = Untagged(patches[i])
                  \/ \E k \in DOMAIN ignored' : Untagged(ignored'[k]) = Untagged(patches[i])
    <3>1. patches[i].path \in Paths
      BY <2>3 DEF IInv, WinnersHeld
    <3>2. \/ Untagged(patchMap[patches[i].path]) = Untagged(patches[i])
          \/ \E k \in DOMAIN ignored : Untagged(ignored[k]) = Untagged(patches[i])
      BY <2>3 DEF IInv, NoneLost
    <3> QED
      BY <2>2, <3>1, <3>2
  <2>4. SUFFICES ASSUME NEW i \in Before'
                 PROVE  \/ Untagged(patchMap'[patches[i].path]) = Untagged(patches[i])
                        \/ \E k \in DOMAIN ignored' :
                             Untagged(ignored'[k]) = Untagged(patches[i])
    BY <1>2 DEF NoneLost, Untagged
  <2>5. CASE EqualOperation(o, found)
    <3>1. Untagged(o) = Untagged(found)
      BY <2>5 DEF EqualOperation, Untagged
    <3>2. \A p \in Paths : Untagged(patchMap'[p]) = Untagged(patchMap[p])
      BY <1>7, <1>8, <3>1
    <3> QED
      BY <1>1, <1>3, <2>3, <2>4, <3>1, <3>2
  <2>6. CASE ~EqualOperation(o, found)
    <3> DEFINE rejected == IF Replaces(o, found) THEN found ELSE o
    <3>1. \E k \in DOMAIN ignored' : ignored'[k] = rejected
      <4>1. ignored' = Append(ignored, rejected) /\ rejected \in PluginOperation
        BY <1>1, <1>2, <2>6
      <4>2. Len(ignored) + 1 \in DOMAIN ignored' /\ ignored'[Len(ignored) + 1] = rejected
        BY <2>1, <4>1
      <4> QED
        BY <4>2
    <3>2. CASE i \in Before
      BY <1>7, <1>8, <2>3, <3>1, <3>2
    <3>3. CASE i = pos
      BY <1>8, <3>1, <3>3
    <3> QED
      BY <1>3, <3>2, <3>3
  <2> QED
    BY <2>5, <2>6
<1> QED
  BY <1>2, <1>6, <1>15, <1>16 DEF IInv, HighestPriorityWins, NothingLost, Settled

(* The last step: what the loop has selected becomes the answer.            *)
LEMMA RespondIInv == IInv /\ Respond => IInv'
<1> SUFFICES ASSUME IInv, Respond PROVE IInv'
  OBVIOUS
<1>1. UNCHANGED << patches, selection >> /\ pc' \in {"sanitize", "done"} /\ pos > Len(patches)
  BY DEF Respond, collected
<1>2. Typed' /\ WinnersHeld' /\ NoneLost' /\ pc' # "plugins"
  BY <1>1, SelectionKept
<1>3. Before = DOMAIN patches
  BY <1>1 DEF Before, IInv, Typed, WinnersHeld
<1> PICK transform \in Bijection(1..Cardinality(Selected), Selected) :
      response' = Response(transform, ignored, FALSE)
  BY DEF Respond
<1> DEFINE K == 1..Cardinality(Selected)
<1>4. /\ transform \in [K -> Selected]
      /\ \A k, l \in K : transform[k] = transform[l] => k = l
      /\ \A s \in Selected : \E k \in K : transform[k] = s
  BY DEF Bijection, Injection, Surjection, IsInjective
<1>5. response'.transform = transform /\ response'.ignored = ignored
  BY DEF Response
<1>6. \A p \in Paths : patchMap[p] # None => patchMap[p].path = p
  BY DEF IInv, WinnersHeld
<1>7. \A i \in DOMAIN patches :
        patches[i].path \in Paths /\ patchMap[patches[i].path] # None
  BY <1>3 DEF IInv, WinnersHeld
<1>8. \A i \in DOMAIN patches :
        \E k \in K : transform[k] = Untagged(patchMap[patches[i].path])
  BY <1>4, <1>7 DEF Selected
<1>9. HighestPriorityWins'
  <2>1. ASSUME NEW k \in K, NEW l \in K, transform[k].path = transform[l].path
        PROVE  k = l
    <3>1. transform[k] \in Selected /\ transform[l] \in Selected
      BY <1>4
    <3>2. PICK p \in Paths : patchMap[p] # None /\ transform[k] = Untagged(patchMap[p])
      BY <3>1 DEF Selected
    <3>3. PICK q \in Paths : patchMap[q] # None /\ transform[l] = Untagged(patchMap[q])
      BY <3>1 DEF Selected
    <3>4. p = q
      BY <1>6, <2>1, <3>2, <3>3 DEF Untagged
    <3> QED
      BY <1>4, <3>2, <3>3, <3>4
  <2>2. ASSUME NEW i \in DOMAIN patches
        PROVE  \E j \in DOMAIN patches, k \in K :
                 /\ patches[j].path = patches[i].path
                 /\ Wins(j)
                 /\ transform[k] = Untagged(patches[j])
    <3>1. PICK j \in DOMAIN patches : /\ patches[j] = patchMap[patches[i].path]
                                      /\ patches[j].path = patches[i].path
                                      /\ WinsSoFar(j)
      BY <1>3, <1>7 DEF IInv, WinnersHeld
    <3>2. Wins(j)
      BY <1>3, <3>1 DEF Wins, WinsSoFar
    <3> QED
      BY <1>8, <3>1, <3>2
  <2>3. DOMAIN transform = K
    BY <1>4
  <2>4. \A j : Wins(j)' <=> Wins(j)
    BY <1>1 DEF Wins, Replaces
  <2> QED
    <3>1. DOMAIN response'.transform = K /\ patches' = patches
      BY <1>1, <1>5, <2>3
    <3>2. ASSUME NEW i \in DOMAIN patches'
          PROVE  \E j \in DOMAIN patches', k \in DOMAIN response'.transform :
                   /\ patches'[j].path = patches'[i].path
                   /\ Wins(j)'
                   /\ response'.transform[k] = Untagged(patches'[j])
      <4>1. PICK j \in DOMAIN patches, k \in K : /\ patches[j].path = patches[i].path
                                                 /\ Wins(j)
                                                 /\ transform[k] = Untagged(patches[j])
        BY <2>2, <3>1, <3>2
      <4>2. Wins(j)'
        BY <2>4, <4>1
      <4> QED
        BY <1>5, <3>1, <4>1, <4>2 DEF Untagged
    <3>3. ASSUME NEW k \in DOMAIN response'.transform, NEW l \in DOMAIN response'.transform,
                 response'.transform[k].path = response'.transform[l].path
          PROVE  k = l
      BY <1>5, <2>1, <3>1, <3>3
    <3> QED
      BY <3>2, <3>3 DEF HighestPriorityWins, Untagged
<1>10. NothingLost'
  <2>1. ASSUME NEW i \in DOMAIN patches
        PROVE  \/ \E k \in DOMAIN transform : transform[k] = Untagged(patches[i])
               \/ \E k \in DOMAIN ignored : Untagged(ignored[k]) = Untagged(patches[i])
    <3>1. \/ Untagged(patchMap[patches[i].path]) = Untagged(patches[i])
          \/ \E k \in DOMAIN ignored : Untagged(ignored[k]) = Untagged(patches[i])
      BY <1>3 DEF IInv, NoneLost
    <3> QED
      BY <1>4, <1>8, <3>1
  <2> QED
    BY <1>1, <1>5, <2>1 DEF NothingLost, Untagged
<1> QED
  BY <1>2, <1>9, <1>10 DEF IInv

LEMMA StutterIInv == IInv /\ UNCHANGED vars => IInv'
<1> SUFFICES ASSUME IInv, UNCHANGED vars PROVE IInv'
  OBVIOUS
<1>1. /\ UNCHANGED << pc, patches, pos, patchMap, ignored, response >>
  BY DEF vars, collected, selection
<1>2. Typed'
  BY <1>1 DEF IInv, Typed
<1>3. Before' = Before /\ \A j : WinsSoFar(j)' <=> WinsSoFar(j)
  BY <1>1 DEF Before, WinsSoFar, Replaces
<1>4. WinnersHeld' /\ NoneLost'
  BY <1>1, <1>3 DEF IInv, WinnersHeld, NoneLost, Untagged
<1>5. \A j : Wins(j)' <=> Wins(j)
  BY <1>1 DEF Wins, Replaces
<1>6. HighestPriorityWins' /\ NothingLost'
  BY <1>1, <1>5 DEF IInv, HighestPriorityWins, NothingLost, Settled, Untagged
<1> QED
  BY <1>1, <1>2, <1>4, <1>6 DEF IInv

-----------------------------------------------------------------------------
(* The strengthening holds in every state. *)
THEOREM Invariance == Spec => []IInv
<1>1. IInv /\ [Next]_vars => IInv'
  BY RunPluginIInv, EarlyIInv, FirstOnPathIInv, CollisionIInv, RespondIInv, StutterIInv
     DEF Next
<1> QED
  BY InitIInv, <1>1, PTL DEF Spec

(* Run changes each path that a plugin wants changed once, in the way of    *)
(* the plugin with the highest priority and the earliest among equals.      *)
THEOREM PriorityDecides == Spec => []HighestPriorityWins
<1>1. IInv => HighestPriorityWins
  BY DEF IInv
<1> QED
  BY <1>1, Invariance, PTL

(* Run carries out or reports every operation it was given.                 *)
THEOREM EveryOperationAccounted == Spec => []NothingLost
<1>1. IInv => NothingLost
  BY DEF IInv
<1> QED
  BY <1>1, Invariance, PTL
-----------------------------------------------------------------------------
(* Every variable keeps its type, and what Run returns is well formed: the  *)
(* operations it hands out are a finite sequence because no more paths are  *)
(* selected than operations were given.                                     *)
LEMMA SelectedFinite ==
  ASSUME TypeOK, WinnersHeld
  PROVE  /\ Selected \subseteq Operation
         /\ Cardinality(Selected) \in Nat
<1> DEFINE All == { Untagged(patches[i]) : i \in 1..Len(patches) }
<1>1. patches \in Seq(PluginOperation) /\ Len(patches) \in Nat
  BY DEF TypeOK
<1>2. IsFiniteSet(All)
  <2> DEFINE f == [i \in 1..Len(patches) |-> Untagged(patches[i])]
  <2>1. IsFiniteSet(1..Len(patches))
    BY <1>1, FS_Interval
  <2>2. f \in Surjection(1..Len(patches), All)
    BY DEF Surjection
  <2> QED
    BY <2>1, <2>2, FS_Surjection
<1>3. All \subseteq Operation
  <2> SUFFICES ASSUME NEW i \in 1..Len(patches)
               PROVE  Untagged(patches[i]) \in Operation
    OBVIOUS
  <2>1. patches[i] \in PluginOperation
    BY <1>1
  <2> QED
    BY <2>1 DEF Untagged, PluginOperation, Operation
<1>4. Selected \subseteq All
  <2> SUFFICES ASSUME NEW p \in Paths, patchMap[p] # None
               PROVE  Untagged(patchMap[p]) \in All
    BY DEF Selected
  <2>1. PICK j \in Before : patches[j] = patchMap[p]
    BY DEF WinnersHeld
  <2>2. j \in 1..Len(patches)
    BY <1>1 DEF Before, WinnersHeld, TypeOK
  <2> QED
    BY <2>1, <2>2
<1>5. IsFiniteSet(Selected)
  BY <1>2, <1>4, FS_Subset
<1> QED
  BY <1>3, <1>4, <1>5, FS_CardinalityType

LEMMA CollectedType ==
  ASSUME TypeOK, RunPlugin
  PROVE  TypeOK'
<1> PICK name \in Plugins, resp \in PluginResponse :
      /\ errs' = (errs \/ resp.failed)
      /\ haveWhiteOut' = (haveWhiteOut \/ resp.whiteOut)
      /\ patches' = patches \o Tagged(name, resp.patches)
      /\ newResources' = IF resp.new THEN Append(newResources, name) ELSE newResources
  BY DEF RunPlugin
<1>1. resp.patches \in Patch(0) \/ resp.patches \in Patch(MaxPatches)
  <2>1. << >> \in [1..0 -> Operation]
    OBVIOUS
  <2>2. << >> \in Patch(0)
    BY <2>1 DEF Patch
  <2> QED
    BY <2>2 DEF PluginResponse
<1>2. Tagged(name, resp.patches) \in Seq(PluginOperation)
  BY <1>1, TaggedType, RunnerAssumption
<1>3. patches' \in Seq(PluginOperation) /\ Len(patches') = Len(patches) + Len(Tagged(name, resp.patches))
  BY <1>2 DEF TypeOK
<1>4. resp.whiteOut \in BOOLEAN /\ resp.failed \in BOOLEAN
  BY DEF PluginResponse
<1>5. haveWhiteOut' \in BOOLEAN /\ errs' \in BOOLEAN /\ newResources' \in Seq(Plugins)
  BY <1>4 DEF TypeOK
<1>6. pos' \in 1..(Len(patches') + 1)
  BY <1>2, <1>3 DEF TypeOK, RunPlugin, selection
<1>7. ran' \in 0..MaxPlugins
  BY RunnerAssumption DEF TypeOK, RunPlugin
<1> QED
  BY <1>3, <1>5, <1>6, <1>7 DEF TypeOK, RunPlugin, selection

LEMMA ResponseType ==
  ASSUME TypeOK, NEW transform \in Seq(Operation), NEW rejected \in Seq(PluginOperation),
         NEW err \in BOOLEAN
  PROVE  Response(transform, rejected, err) \in
           [transform : Seq(Operation), ignored : Seq(PluginOperation),
            whiteOut : BOOLEAN, new : Seq(Plugins), err : BOOLEAN]
BY DEF TypeOK, Response

(* The loop of sanitizePatches. *)
LEMMA LoopType ==
  ASSUME TypeOK, FirstOnPath \/ Collision
  PROVE  TypeOK'
<1> DEFINE o == patches[pos]
           found == patchMap[o.path]
<1>1. /\ UNCHANGED << pc, collected, response >>
      /\ pos' = pos + 1 /\ pos <= Len(patches) /\ o.path # None
  BY DEF FirstOnPath, Collision
<1>2. Len(patches) \in Nat /\ pos \in 1..Len(patches) /\ o \in PluginOperation
  BY <1>1 DEF TypeOK
<1>3. o.path \in Paths
  BY <1>1, <1>2 DEF PluginOperation
<1>4. found \in PluginOperation \cup {None}
  BY <1>3 DEF TypeOK
<1>5. pos' \in 1..(Len(patches) + 1)
  BY <1>1, <1>2
<1>6. patchMap' \in [Paths -> PluginOperation \cup {None}]
  BY <1>2, <1>3 DEF TypeOK, FirstOnPath, Collision
<1>7. ignored' \in Seq(PluginOperation)
  <2>1. CASE FirstOnPath
    BY <2>1 DEF TypeOK, FirstOnPath
  <2>2. CASE Collision
    <3>1. found \in PluginOperation
      BY <1>4, <2>2 DEF Collision
    <3>2. ignored' = ignored \/ ignored' = Append(ignored, found) \/ ignored' = Append(ignored, o)
      BY <2>2 DEF Collision
    <3>3. ignored \in Seq(PluginOperation)
      BY DEF TypeOK
    <3> HIDE DEF o, found
    <3> QED
      BY <1>2, <3>1, <3>2, <3>3
  <2> QED
    BY <2>1, <2>2
<1> QED
  BY <1>1, <1>5, <1>6, <1>7 DEF TypeOK, collected

LEMMA RespondType ==
  ASSUME TypeOK, WinnersHeld, Respond
  PROVE  TypeOK'
<1> PICK transform \in Bijection(1..Cardinality(Selected), Selected) :
      response' = Response(transform, ignored, FALSE)
  BY DEF Respond
<1>1. transform \in [1..Cardinality(Selected) -> Selected]
  BY DEF Bijection, Injection
<1>2. transform \in Seq(Operation)
  <2>1. transform \in [1..Cardinality(Selected) -> Operation]
    BY <1>1, SelectedFinite
  <2> QED
    BY <2>1, SelectedFinite, SeqDef
<1>3. ignored \in Seq(PluginOperation)
  BY DEF TypeOK
<1> HIDE DEF Respond
<1>4. response' \in [transform : Seq(Operation), ignored : Seq(PluginOperation),
                     whiteOut : BOOLEAN, new : Seq(Plugins), err : BOOLEAN]
  BY <1>2, <1>3, ResponseType
<1>5. pc' = "done" /\ UNCHANGED << collected, selection >>
  BY DEF Respond
<1> QED
  BY <1>4, <1>5 DEF TypeOK, collected, selection

(* What Run returns is well formed and its loop stays within the operations *)
(* it was given (sanitizePatches), for any plugins and answers.             *)
THEOREM WellTyped == Spec => []TypeOK
<1>1. Init => TypeOK
  <2> SUFFICES ASSUME Init PROVE TypeOK
    OBVIOUS
  <2>1. /\ patches \in Seq(PluginOperation) /\ ignored \in Seq(PluginOperation)
        /\ newResources \in Seq(Plugins) /\ Len(patches) = 0
    BY DEF Init
  <2>2. NoResponse \in [transform : Seq(Operation), ignored : Seq(PluginOperation),
                        whiteOut : BOOLEAN, new : Seq(Plugins), err : BOOLEAN]
    BY DEF NoResponse
  <2>3. pos \in 1..(Len(patches) + 1) /\ ran \in 0..MaxPlugins
    BY <2>1, RunnerAssumption DEF Init
  <2> QED
    BY <2>1, <2>2, <2>3 DEF Init, TypeOK
<1>2. TypeOK /\ WinnersHeld /\ [Next]_vars => TypeOK'
  <2> SUFFICES ASSUME TypeOK, WinnersHeld, [Next]_vars PROVE TypeOK'
    OBVIOUS
  <2>1. CASE RunPlugin
    BY <2>1, CollectedType
  <2>2. CASE ReturnEarly \/ MissingPath
    <3>1. << >> \in Seq(Operation) /\ << >> \in Seq(PluginOperation) /\ errs \in BOOLEAN
      BY DEF TypeOK
    <3>2. /\ pc' = "done" /\ UNCHANGED << collected, selection >>
          /\ \E err \in BOOLEAN : response' = Response(<< >>, << >>, err)
      BY <2>2, <3>1 DEF ReturnEarly, MissingPath
    <3>3. PICK err \in BOOLEAN : response' = Response(<< >>, << >>, err)
      BY <3>2
    <3>4. response' \in [transform : Seq(Operation), ignored : Seq(PluginOperation),
                         whiteOut : BOOLEAN, new : Seq(Plugins), err : BOOLEAN]
      BY <3>1, <3>3, ResponseType
    <3> QED
      BY <3>2, <3>4 DEF TypeOK, collected, selection
  <2>3. CASE StartSanitizing
    BY <2>3 DEF StartSanitizing, TypeOK, collected, selection
  <2>4. CASE FirstOnPath \/ Collision
    BY <2>4, LoopType
  <2>5. CASE Respond
    BY <2>5, RespondType
  <2>6. CASE UNCHANGED vars
    BY <2>6 DEF TypeOK, vars, collected, selection
  <2> QED
    BY <2>1, <2>2, <2>3, <2>4, <2>5, <2>6 DEF Next
<1>3. IInv => WinnersHeld
  BY DEF IInv
<1> QED
  BY <1>1, <1>2, <1>3, Invariance, PTL DEF Spec
=============================================================================
