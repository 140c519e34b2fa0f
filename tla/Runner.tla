------------------------------- MODULE Runner -------------------------------
(***************************************************************************)
(* transform/runner.go: Run asks every plugin what to do with one resource, *)
(* collects their JSON patch operations and settles conflicts, operations   *)
(* on one path, by the priorities of the plugins (sanitizePatches).         *)
(***************************************************************************)
EXTENDS Naturals, Sequences, FiniteSets, Functions

CONSTANTS
  Plugins,     \* names of plugins; several plugins may have one name
  Paths,       \* JSON pointers
  Acts,        \* kinds of operations with their values or sources
  None,        \* no path, no operation
  Priorities,  \* PluginPriorities: numbers of some plugins, lower is higher
  MaxPlugins,  \* bound on the plugins of a run
  MaxPatches   \* bound on the operations of one plugin

ASSUME RunnerAssumption ==
  /\ None \notin Paths
  /\ None \notin [plugin : Plugins, path : Paths \cup {None}, act : Acts]
  /\ DOMAIN Priorities \subseteq Plugins
  /\ \A p \in DOMAIN Priorities : Priorities[p] \in Nat
  /\ MaxPlugins \in Nat /\ MaxPatches \in Nat

VARIABLES
  pc,            \* "plugins", "sanitize", "done"
  ran,           \* plugins that have run
  patches,       \* their operations so far
  haveWhiteOut,
  errs,          \* a plugin has failed
  newResources,  \* names of the plugins whose resources are collected
  pos,           \* the operation that sanitizePatches is at
  patchMap,      \* the operation selected for each path so far
  ignored,       \* operations given up so far
  response       \* what Run returns

collected == << ran, patches, haveWhiteOut, errs, newResources >>
selection == << pos, patchMap, ignored >>
vars == << pc, collected, selection, response >>

(* An operation may lack its path. *)
Operation == [path : Paths \cup {None}, act : Acts]
PluginOperation == [plugin : Plugins, path : Paths \cup {None}, act : Acts]

Patch(n) == UNION { [1..m -> Operation] : m \in 0..n }

(* What a plugin may answer; one that fails has no other answer.            *)
PluginResponse ==
  [failed : {TRUE}, whiteOut : {FALSE}, patches : {<< >>}, new : {FALSE}] \cup
  [failed : {FALSE}, whiteOut : BOOLEAN, patches : Patch(MaxPatches), new : BOOLEAN]

(* RunnerResponse; without operations before conflicts are settled.         *)
Response(transform, rejected, err) ==
  [transform |-> transform, ignored |-> rejected, whiteOut |-> haveWhiteOut,
   new |-> newResources, err |-> err]

NoResponse ==
  [transform |-> << >>, ignored |-> << >>, whiteOut |-> FALSE, new |-> << >>, err |-> FALSE]

TypeOK ==
  /\ pc \in {"plugins", "sanitize", "done"}
  /\ ran \in 0..MaxPlugins
  /\ patches \in Seq(PluginOperation)
  /\ haveWhiteOut \in BOOLEAN /\ errs \in BOOLEAN
  /\ newResources \in Seq(Plugins)
  /\ pos \in 1..(Len(patches) + 1)
  /\ patchMap \in [Paths -> PluginOperation \cup {None}]
  /\ ignored \in Seq(PluginOperation)
  /\ response \in [transform : Seq(Operation), ignored : Seq(PluginOperation),
                   whiteOut : BOOLEAN, new : Seq(Plugins), err : BOOLEAN]

Init ==
  /\ pc = "plugins"
  /\ ran = 0
  /\ patches = << >>
  /\ haveWhiteOut = FALSE
  /\ errs = FALSE
  /\ newResources = << >>
  /\ pos = 1
  /\ patchMap = [p \in Paths |-> None]
  /\ ignored = << >>
  /\ response = NoResponse

-----------------------------------------------------------------------------
(* Run: one plugin after the other, each on a copy of the resource.         *)

(* PluginOperationsFromPatch if it left out the plugin's name. *)
TaggedNameless(name, patch) ==
  [i \in DOMAIN patch |-> [plugin |-> None, path |-> patch[i].path, act |-> patch[i].act]]

(* PluginOperationsFromPatch. *)
Tagged(name, patch) ==
  [i \in DOMAIN patch |->
     [plugin |-> name, path |-> patch[i].path, act |-> patch[i].act]]

(* A plugin that fails contributes nothing and does not keep the later ones *)
(* from running.                                                            *)
RunPlugin ==
  /\ pc = "plugins"
  /\ ran < MaxPlugins
  /\ ran' = ran + 1
  /\ \E name \in Plugins, resp \in PluginResponse :
       /\ errs' = (errs \/ resp.failed)
       /\ haveWhiteOut' = (haveWhiteOut \/ resp.whiteOut)
       /\ patches' = patches \o Tagged(name, resp.patches)
       /\ newResources' = IF resp.new THEN Append(newResources, name) ELSE newResources
  /\ UNCHANGED << pc, selection, response >>

(* After the last plugin: an error or a whiteout hides all operations.      *)
ReturnEarly ==
  /\ pc = "plugins"
  /\ errs \/ haveWhiteOut \/ patches = << >>
  /\ pc' = "done"
  /\ response' = Response(<< >>, << >>, errs)
  /\ UNCHANGED << collected, selection >>

StartSanitizing ==
  /\ pc = "plugins"
  /\ ~errs /\ ~haveWhiteOut /\ patches # << >>
  /\ pc' = "sanitize"
  /\ UNCHANGED << collected, selection, response >>

-----------------------------------------------------------------------------
(* sanitizePatches: one turn of its loop per operation.                     *)

(* replaceVal: the later operation o takes over from the selected one.      *)
Replaces(o, found) ==
  /\ o.plugin \in DOMAIN Priorities
  /\ \/ found.plugin \notin DOMAIN Priorities
     \/ Priorities[o.plugin] < Priorities[found.plugin]

EqualOperation(o1, o2) == o1.path = o2.path /\ o1.act = o2.act

MissingPath ==
  /\ pc = "sanitize"
  /\ pos <= Len(patches)
  /\ patches[pos].path = None
  /\ pc' = "done"
  /\ response' = Response(<< >>, << >>, TRUE)
  /\ UNCHANGED << collected, selection >>

FirstOnPath ==
  /\ pc = "sanitize"
  /\ pos <= Len(patches)
  /\ LET o == patches[pos] IN
       /\ o.path # None
       /\ patchMap[o.path] = None
       /\ patchMap' = [patchMap EXCEPT ![o.path] = o]
  /\ pos' = pos + 1
  /\ UNCHANGED << pc, collected, ignored, response >>

(* Collision when only differing operations may change places: an equal one *)
(* of a plugin with a higher priority does not raise the selected one.      *)
CollisionIfDifferent ==
  /\ pc = "sanitize"
  /\ pos <= Len(patches)
  /\ LET o == patches[pos]
         found == patchMap[o.path] IN
       /\ o.path # None
       /\ found # None
       /\ patchMap' = IF Replaces(o, found) /\ ~EqualOperation(o, found)
                      THEN [patchMap EXCEPT ![o.path] = o] ELSE patchMap
       /\ ignored' = IF EqualOperation(o, found) THEN ignored
                     ELSE Append(ignored, IF Replaces(o, found) THEN found ELSE o)
  /\ pos' = pos + 1
  /\ UNCHANGED << pc, collected, response >>

(* Collision that reports the later operation, whichever is given up. *)
CollisionReportsLater ==
  /\ pc = "sanitize"
  /\ pos <= Len(patches)
  /\ LET o == patches[pos]
         found == patchMap[o.path] IN
       /\ o.path # None
       /\ found # None
       /\ patchMap' = IF Replaces(o, found) THEN [patchMap EXCEPT ![o.path] = o]
                      ELSE patchMap
       /\ ignored' = IF EqualOperation(o, found) THEN ignored ELSE Append(ignored, o)
  /\ pos' = pos + 1
  /\ UNCHANGED << pc, collected, response >>

(* The priorities decide whether or not the operations differ; only         *)
(* differing ones are reported.                                             *)
Collision ==
  /\ pc = "sanitize"
  /\ pos <= Len(patches)
  /\ LET o == patches[pos]
         found == patchMap[o.path] IN
       /\ o.path # None
       /\ found # None
       /\ patchMap' = IF Replaces(o, found) THEN [patchMap EXCEPT ![o.path] = o]
                      ELSE patchMap
       /\ ignored' = IF EqualOperation(o, found) THEN ignored
                     ELSE Append(ignored, IF Replaces(o, found) THEN found ELSE o)
  /\ pos' = pos + 1
  /\ UNCHANGED << pc, collected, response >>

(* The operation without the plugin's name. *)
Untagged(o) == [path |-> o.path, act |-> o.act]

Selected == { Untagged(patchMap[p]) : p \in { q \in Paths : patchMap[q] # None } }

(* patchMap is a Go map: a range over it has any order.                     *)
Respond ==
  /\ pc = "sanitize"
  /\ pos > Len(patches)
  /\ pc' = "done"
  /\ \E transform \in Bijection(1..Cardinality(Selected), Selected) :
       response' = Response(transform, ignored, FALSE)
  /\ UNCHANGED << collected, selection >>

Next ==
  \/ RunPlugin \/ ReturnEarly \/ StartSanitizing
  \/ MissingPath \/ FirstOnPath \/ Collision \/ Respond

Spec == Init /\ [][Next]_vars

-----------------------------------------------------------------------------
(* Correctness.                                                             *)

(* No operation that the plugins put on the path is preferable to the j-th: *)
(* nobody else's has a higher priority, and none that is as high is earlier.*)
Wins(j) ==
  \A i \in DOMAIN patches : patches[i].path = patches[j].path =>
    /\ ~Replaces(patches[i], patches[j])
    /\ i < j => Replaces(patches[j], patches[i])

Settled == pc = "done" /\ ~response.err /\ ~response.whiteOut

(* Each path that plugins want to change is changed once, in the way of the *)
(* plugin with the highest priority, in whatever order plugins run and      *)
(* whichever of their operations happen to be equal (sanitizePatches).      *)
HighestPriorityWins ==
  Settled =>
    /\ \A k, l \in DOMAIN response.transform :
         response.transform[k].path = response.transform[l].path => k = l
    /\ \A i \in DOMAIN patches :
         \E j \in DOMAIN patches, k \in DOMAIN response.transform :
           /\ patches[j].path = patches[i].path
           /\ Wins(j)
           /\ response.transform[k] = Untagged(patches[j])

(* An operation of a plugin is done or reported in IgnoredPatches: none is  *)
(* lost silently, whatever replaced what in between.                        *)
NothingLost ==
  Settled =>
    \A i \in DOMAIN patches :
      \/ \E k \in DOMAIN response.transform : response.transform[k] = Untagged(patches[i])
      \/ \E k \in DOMAIN response.ignored :
           Untagged(response.ignored[k]) = Untagged(patches[i])
=============================================================================
