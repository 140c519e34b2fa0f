------------------------- MODULE BuildConfigs_proofs -------------------------
(***************************************************************************)
(* What holds of the BuildConfig conversion for every list of BuildConfigs *)
(* and every number of calls, failures and outside changes: types, that a  *)
(* Build on disk is the translation of its own BuildConfig, that it has    *)
(* its ServiceAccount, and that a call that reports success left nothing   *)
(* out.  Each rests on how far the loop has come: the conjuncts below say  *)
(* what the Build in memory, the files and the accounts are at each step.  *)
(***************************************************************************)
EXTENDS BuildConfigs, TLAPS

InLoop == pc \notin {"idle", "export", "exportWrite", "next"}
Exporting == CreateExport \/ WriteExport \/ ExportFails \/ EndExports
Panics == FromPanics \/ SourcePanics \/ OutputPanics

\* The loop is at one of the BuildConfigs, and at the steps of a strategy only
\* for a BuildConfig that has one.
PlaceInv ==
  /\ bcs \in Lists
  /\ pc \in {"idle", "export", "exportWrite", "next", "from", "secret", "account",
             "accountWrite", "params", "source", "output", "buildWrite"}
  /\ pos \in 0..Len(bcs) + 1
  /\ pc = "export" => pos \in 1..Len(bcs) + 1
  /\ pc = "exportWrite" => pos \in 1..Len(bcs)
  /\ pc = "next" => pos \in 0..Len(bcs)
  /\ InLoop => pos \in 1..Len(bcs)
  /\ pc \in {"from", "secret", "account", "accountWrite", "params"} => Convertible(bc)
  /\ pc \in {"account", "accountWrite"} => HasPullSecret(bc)
  /\ result \in {"none", "running", "ok", "error", "crashed"}

CountInv ==
  /\ runs \in 0..MaxRuns /\ faults \in 0..MaxFaults /\ moves \in 0..MaxMoves
  /\ tags \in [Refs -> {"absent", "bare", "tagged"}] /\ reference \in [Refs -> Nat]
  /\ \A r \in Refs : 1 <= reference[r] /\ reference[r] <= moves + 1

FileInv ==
  /\ DOMAIN exports = Names
  /\ DOMAIN builds = Names
  /\ accounts \in [Accounts -> Secrets \cup {NoFile, Torn}]
  /\ \A n \in Names : builds[n] \in {NoFile, Torn} \/ builds[n].name = n

\* A running call goes through the BuildConfigs that it listed, and a Build file is
\* noted as that of the call from the moment it is created.
CallInv ==
  /\ lists \in [0..MaxRuns -> Lists \cup {<<>>}]
  /\ written \in [Names -> 0..runs]
  /\ pc # "idle" => lists[runs] = bcs
  /\ pc = "buildWrite" => written[bc.name] = runs

TypeInv == PlaceInv /\ CountInv /\ FileInv /\ CallInv

\* The From parameter of a Build: an image the reference once stood for, the
\* present one unless the tag was changed since the call began.
BaseImage(c, image) ==
  /\ OnceResolved(c.from, image)
  /\ c.from.kind = "ImageStreamTag" /\ c.from.ref \notin stale => image = Resolved(c.from)
FromPart(c, params) ==
  IF Convertible(c) /\ c.from.kind # ""
    THEN \E image \in ParamValues :
           params = {Param(FromParamName(c), image)} /\ BaseImage(c, image)
    ELSE params = {}

FieldPart(c) == IF Convertible(c) THEN FieldParams(c) ELSE {}
StrategyEnv(c) == IF Convertible(c) /\ c.env THEN <<"strategy">> ELSE <<>>

\* The parameters of the Build of c that the loop has put there so far.
ParamsSoFar(c) ==
  \E from \in SUBSET Params :
    /\ IF pc = "from" THEN from = {} ELSE FromPart(c, from)
    /\ build.params = from
         \cup (IF pc \in {"source", "output", "buildWrite"} THEN FieldPart(c) ELSE {})
         \cup (IF pc = "buildWrite" THEN RegistryParams ELSE {})

\* The rest of it.
FieldsSoFar(c) ==
  /\ build.name = c.name
  /\ build.env = (IF pc \in {"source", "output", "buildWrite"} THEN StrategyEnv(c) ELSE <<>>)
                 \o (IF pc \in {"output", "buildWrite"} THEN ProxyEnv(c) ELSE <<>>)
  /\ pc \in {"output", "buildWrite"} => SourceFits(c, build.source)
  /\ pc = "buildWrite" => ImageFits(c, build.image) /\ build.push = c.push

BuildInv == InLoop => build \in Builds /\ ParamsSoFar(bc) /\ FieldsSoFar(bc)

\* The BuildConfigs the running call has done with, and after a successful one
\* all of them.
Done == CASE pc = "idle" -> IF result = "ok" THEN 1..Len(bcs) ELSE {}
          [] pc = "next" -> 1..pos
          [] InLoop      -> 1..pos - 1
          [] OTHER       -> {}

\* What a BuildConfig done with has left behind.
Converted(c) ==
  <<"build", c.name>> \notin quiet =>
    /\ builds[c.name] \in Builds /\ IsTranslation(c, builds[c.name])
    /\ c.from.kind = "ImageStreamTag" /\ Convertible(c) /\ c.from.ref \notin stale =>
         Param(BaseParam(c), Resolved(c.from)) \in builds[c.name].params
DoneInv == \A i \in Done : Converted(bcs[i])

\* The BuildConfigs the running call has saved, and after a successful one all.
Saved == CASE pc \in {"export", "exportWrite"} -> 1..pos - 1
           [] pc = "idle" /\ result # "ok"     -> {}
           [] OTHER                            -> DOMAIN bcs
Exported(c) == <<"export", c.name>> \notin quiet => exports[c.name] = c
ExportInv == \A i \in Saved : Exported(bcs[i])

\* The BuildConfigs whose ServiceAccount the running call has seen to.
Served == IF pc \in {"params", "source", "output", "buildWrite"} THEN 1..pos ELSE Done

\* The account of a BuildConfig that was served lists the secret of the last one
\* served that shares it, or is just now being written again.
LastServed(i, j) == j \in Sharing(i) \cap Served /\ \A k \in Sharing(i) \cap Served : k <= j
ServedInv ==
  \A i \in Served : i \in Sharing(i) =>
    \E j \in Served :
      /\ LastServed(i, j)
      /\ \/ accounts[AccountOf(bcs[i])] = bcs[j].pullSecret
         \/ pc = "accountWrite" /\ AccountOf(bcs[i]) = AccountOf(bc)

\* The account of c is of call k or a later one, and of a BuildConfig that uses it.
GoodAccount(c, k) ==
  PullsSecret(c) =>
    \E m \in k..runs : \E d \in Entries(lists[m]) :
      /\ PullsSecret(d) /\ AccountName(d) = AccountName(c)
      /\ accounts[AccountName(c)] \in {Torn, d.pullSecret}
AccountInv ==
  /\ \A n \in Names : Whole(builds[n]) =>
       \A c \in Entries(lists[written[n]]) : c.name = n => GoodAccount(c, written[n])
  /\ pc \in {"params", "source", "output", "buildWrite"} => GoodAccount(bc, runs)

IInv == TypeInv /\ BuildInv /\ BuildIsTranslation /\ DoneInv /\ ExportInv /\ ServedInv /\ AccountInv
-----------------------------------------------------------------------------
(* The BuildConfigs of a list, and of the lists of all calls. *)

LEMMA Listed ==
  ASSUME bcs \in Lists
  PROVE  /\ Len(bcs) \in Nat /\ DOMAIN bcs = 1..Len(bcs)
         /\ \A i \in DOMAIN bcs :
              /\ bcs[i] \in AllBuildConfigs
              /\ bcs[i].name \in Names /\ AccountOf(bcs[i]) \in Accounts
              /\ bcs[i].pullSecret \in Secrets \cup {NoSecret}
              /\ bcs[i].from.kind = "ImageStreamTag" => bcs[i].from.ref \in Refs
         /\ \A i, j \in DOMAIN bcs : bcs[i].name = bcs[j].name => i = j
<1>1. bcs \in Seq(AllBuildConfigs)
  BY ListsAssumption
<1>2. Len(bcs) \in Nat /\ DOMAIN bcs = 1..Len(bcs)
  BY <1>1
<1>3. \A i \in DOMAIN bcs : bcs[i] \in AllBuildConfigs
  BY <1>1
<1>4. \A i, j \in DOMAIN bcs : bcs[i].name = bcs[j].name => i = j
  BY ListsAssumption
<1> QED
  BY <1>2, <1>3, <1>4, ListsAssumption

\* Every BuildConfig a call has listed is one the API server can list.
LEMMA CallListed ==
  ASSUME CallInv, NEW k \in 0..MaxRuns, NEW c \in Entries(lists[k])
  PROVE  /\ c \in AllBuildConfigs /\ AccountName(c) \in Accounts
         /\ c.from.kind = "ImageStreamTag" => c.from.ref \in Refs
<1>1. lists[k] \in Lists \cup {<<>>}
  BY DEF CallInv
<1>2. lists[k] # <<>>
  BY DEF Entries
<1>3. c \in AllBuildConfigs
  BY <1>1, <1>2 DEF Entries, AllBuildConfigs
<1> QED
  BY <1>3, ListsAssumption DEF AccountOf, AccountName

\* The list changes between two calls only.
LEMMA ListKept ==
  ASSUME [Next]_vars, ~Start
  PROVE  bcs' = bcs /\ lists' = lists
<1>1. CASE Step
  BY <1>1 DEF Step, StartFails, CreateExport, WriteExport, ExportFails, EndExports,
     NextBuildConfig, From, FromFails, FromPanics, PullSecret, PullSecretFails, CreateAccount,
     WriteAccount, AccountFails, StrategyParams, Source, SourcePanics, OutputPanics,
     CreateBuild, WriteBuild, WriteBuildFails, cluster, counts
<1>2. CASE Crash
  BY <1>2 DEF Crash, cluster
<1>3. CASE \E r \in Refs : ChangeTag(r)
  BY <1>3 DEF ChangeTag
<1>4. CASE \E s \in Secrets : EditSecret(s)
  BY <1>4 DEF EditSecret
<1>5. CASE UNCHANGED vars
  BY <1>5 DEF vars, cluster, counts
<1> QED
  BY <1>1, <1>2, <1>3, <1>4, <1>5 DEF Next

-----------------------------------------------------------------------------
(* Types. *)

LEMMA PlaceStep ==
  ASSUME PlaceInv, [Next]_vars
  PROVE  PlaceInv'
<1>l. Len(bcs) \in Nat /\ bcs \in Lists
  BY Listed DEF PlaceInv
<1>k. ~Start => bcs' = bcs
  BY ListKept
<1>0. CASE Start
  <2>1. bcs' \in Lists /\ pc' = "export" /\ pos' = 1 /\ result' = "running"
    BY <1>0 DEF Start
  <2>2. Len(bcs') \in Nat
    BY <2>1, ListsAssumption
  <2> QED
    BY <2>1, <2>2 DEF PlaceInv, InLoop
<1>1. CASE StartFails
  BY <1>1, <1>l, <1>k DEF PlaceInv, InLoop, StartFails, cluster
<1>9. CASE Exporting
  <2>1. /\ bcs' = bcs /\ result' = result
        /\ \/ pc = "export" /\ pos <= Len(bcs) /\ pos' = pos /\ pc' = "exportWrite"
           \/ pc = "exportWrite" /\ pos' = pos + 1 /\ pc' = "export"
           \/ pc \in {"export", "exportWrite"} /\ pos <= Len(bcs) /\ pos' = pos + 1 /\ pc' = "export"
           \/ pos' = 0 /\ pc' = "next"
    BY <1>9 DEF Exporting, CreateExport, WriteExport, ExportFails, EndExports, cluster
  <2> QED
    BY <2>1, <1>l DEF PlaceInv, InLoop
<1>2. CASE NextBuildConfig
  <2>0. bcs' = bcs
    BY <1>2 DEF NextBuildConfig, cluster
  <2>1. CASE Len(bcs) = pos /\ Return("ok")
    BY <2>0, <2>1, <1>l, <1>2 DEF PlaceInv, InLoop, Return, NextBuildConfig
  <2>2. CASE pos < Len(bcs) /\ pos' = pos + 1 /\ result' = result
             /\ pc' = IF Convertible(bcs[pos + 1]) THEN "from" ELSE "source"
    BY <2>0, <2>2, <1>l, <1>2 DEF PlaceInv, InLoop, NextBuildConfig, Convertible, bc
  <2> QED
    BY <1>2, <2>1, <2>2 DEF NextBuildConfig
<1>3. CASE From \/ CreateAccount \/ WriteAccount \/ StrategyParams \/ Source
           \/ CreateBuild \/ WriteBuild \/ WriteBuildFails
  <2>1. pos' = pos /\ result' = result /\ InLoop /\ bc' = bc /\ bcs' = bcs
    BY <1>3, <1>l DEF InLoop, From, CreateAccount, WriteAccount, StrategyParams, Source,
       CreateBuild, WriteBuild, WriteBuildFails, bc, cluster
  <2>2. \/ pc' \in {"secret", "params"} /\ pc \in {"from", "accountWrite"}
        \/ pc' = "accountWrite" /\ pc = "account"
        \/ pc' \in {"source", "output", "buildWrite", "next"}
    BY <1>3 DEF From, CreateAccount, WriteAccount, StrategyParams, Source,
       CreateBuild, WriteBuild, WriteBuildFails
  <2> QED
    BY <2>1, <2>2, <1>l DEF PlaceInv, InLoop, Convertible, HasPullSecret
<1>4. CASE PullSecret
  BY <1>4, <1>l DEF PlaceInv, InLoop, PullSecret, Convertible, HasPullSecret, bc, cluster
<1>5. CASE FromFails \/ PullSecretFails \/ AccountFails \/ Panics \/ Crash
  <2>1. bcs' = bcs /\ pos' = pos /\ pc' = "idle" /\ result' \in {"error", "crashed"}
    BY <1>5 DEF FromFails, PullSecretFails, AccountFails, Panics, FromPanics, SourcePanics,
       OutputPanics, Crash, ReturnError, Return, cluster
  <2> QED
    BY <2>1, <1>l DEF PlaceInv, InLoop
<1>6. CASE (\E r \in Refs : ChangeTag(r)) \/ (\E s \in Secrets : EditSecret(s)) \/ UNCHANGED vars
  <2>1. UNCHANGED <<bcs, pos, pc, result>>
    BY <1>6 DEF ChangeTag, EditSecret, vars, cluster
  <2> QED
    BY <2>1 DEF PlaceInv, InLoop, Convertible, HasPullSecret, bc
<1> QED
  BY <1>0, <1>1, <1>2, <1>3, <1>4, <1>5, <1>6, <1>9 DEF Next, Step, Exporting, Panics

LEMMA CountStep ==
  ASSUME CountInv, [Next]_vars
  PROVE  CountInv'
<1> USE BoundsAssumption
<1>1. CASE (Step \/ Crash) /\ ~Start
  <2>1. tags' = tags /\ reference' = reference /\ moves' = moves
    BY <1>1 DEF Step, Crash, StartFails, CreateExport, WriteExport, ExportFails, EndExports,
       NextBuildConfig, From, FromFails, FromPanics, PullSecret, PullSecretFails, CreateAccount,
       WriteAccount, AccountFails, StrategyParams, Source, SourcePanics, OutputPanics,
       CreateBuild, WriteBuild, WriteBuildFails, cluster, counts
  <2>2. runs' = runs \/ (runs < MaxRuns /\ runs' = runs + 1)
    BY <1>1 DEF Step, Crash, StartFails, CreateExport, WriteExport, ExportFails, EndExports,
       NextBuildConfig, From, FromFails, FromPanics, PullSecret, PullSecretFails, CreateAccount,
       WriteAccount, AccountFails, StrategyParams, Source, SourcePanics, OutputPanics,
       CreateBuild, WriteBuild, WriteBuildFails, counts
  <2>3. faults' = faults \/ (faults < MaxFaults /\ faults' = faults + 1)
    BY <1>1 DEF Step, Crash, StartFails, CreateExport, WriteExport, ExportFails, EndExports,
       NextBuildConfig, From, FromFails, FromPanics, PullSecret, PullSecretFails, CreateAccount,
       WriteAccount, AccountFails, StrategyParams, Source, SourcePanics, OutputPanics,
       CreateBuild, WriteBuild, WriteBuildFails, counts, Fault
  <2>4. runs' \in 0..MaxRuns /\ faults' \in 0..MaxFaults
    BY <2>2, <2>3 DEF CountInv
  <2> QED
    BY <2>1, <2>4 DEF CountInv
<1>5. CASE Start
  <2>1. /\ UNCHANGED <<tags, reference, faults>> /\ runs < MaxRuns /\ runs' = runs + 1
        /\ moves' = moves \/ (moves < MaxMoves /\ moves' = moves + 1)
    BY <1>5 DEF Start, Move
  <2>2. runs' \in 0..MaxRuns /\ moves' \in 0..MaxMoves /\ moves <= moves'
    BY <2>1 DEF CountInv
  <2> QED
    BY <2>1, <2>2 DEF CountInv
<1>2. ASSUME NEW r \in Refs, ChangeTag(r)
      PROVE  CountInv'
  <2>1. /\ UNCHANGED <<runs, faults>> /\ moves < MaxMoves /\ moves' = moves + 1
        /\ reference' \in {reference, [reference EXCEPT ![r] = reference[r] + 1]}
        /\ \E v \in {"absent", "bare", "tagged"} : tags' = [tags EXCEPT ![r] = v]
    BY <1>2 DEF ChangeTag, Move
  <2>2. tags' \in [Refs -> {"absent", "bare", "tagged"}]
    BY <2>1 DEF CountInv
  <2> QED
    BY <2>1, <2>2 DEF CountInv
<1>3. ASSUME NEW s \in Secrets, EditSecret(s)
      PROVE  CountInv'
  BY <1>3 DEF EditSecret, CountInv, Move
<1>4. CASE UNCHANGED vars
  BY <1>4 DEF vars, cluster, counts, CountInv
<1> QED
  BY <1>1, <1>2, <1>3, <1>4, <1>5 DEF Next

\* The loop is at a BuildConfig of the list.
LEMMA AtListed ==
  ASSUME PlaceInv, InLoop
  PROVE  /\ pos \in DOMAIN bcs /\ bc \in AllBuildConfigs
         /\ bc.name \in Names /\ AccountOf(bc) \in Accounts
         /\ bc.pullSecret \in Secrets \cup {NoSecret}
         /\ bc.from.kind = "ImageStreamTag" => bc.from.ref \in Refs
BY Listed DEF PlaceInv, bc

\* Files change at the steps that create or write one.
LEMMA OtherFilesKept ==
  ASSUME [Next]_vars
  PROVE  /\ exports' = exports \/ CreateExport \/ WriteExport
         /\ accounts' = accounts \/ CreateAccount \/ WriteAccount
         /\ (builds' = builds \/ CreateBuild \/ WriteBuild)
         /\ written' = written \/ CreateBuild
BY DEF Next, Step, Crash, Start, StartFails, CreateExport, WriteExport, ExportFails, EndExports,
   NextBuildConfig, From, FromFails, FromPanics, PullSecret, PullSecretFails, CreateAccount,
   WriteAccount, AccountFails, StrategyParams, Source, SourcePanics, OutputPanics, CreateBuild,
   WriteBuild, WriteBuildFails, ChangeTag, EditSecret, files, vars

LEMMA FileStep ==
  ASSUME PlaceInv, FileInv, BuildInv, [Next]_vars
  PROVE  FileInv'
<1>1. CASE CreateExport \/ WriteExport
  BY <1>1 DEF FileInv, CreateExport, WriteExport
<1>2. CASE CreateAccount \/ WriteAccount
  <2>1. InLoop /\ HasPullSecret(bc)
    BY <1>2 DEF PlaceInv, InLoop, CreateAccount, WriteAccount
  <2>2. bc.pullSecret \in Secrets /\ AccountOf(bc) \in Accounts
    BY <2>1, AtListed DEF HasPullSecret
  <2> QED
    BY <1>2, <2>2 DEF FileInv, CreateAccount, WriteAccount
<1>3. CASE CreateBuild
  BY <1>3 DEF FileInv, CreateBuild
<1>4. CASE WriteBuild
  <2>1. build.name = bc.name
    BY <1>4 DEF BuildInv, FieldsSoFar, InLoop, WriteBuild
  <2> QED
    BY <1>4, <2>1 DEF FileInv, WriteBuild
<1>5. CASE ~CreateExport /\ ~WriteExport /\ ~CreateAccount /\ ~WriteAccount /\ ~CreateBuild
           /\ ~WriteBuild
  BY <1>5, OtherFilesKept DEF FileInv
<1> QED
  BY <1>1, <1>2, <1>3, <1>4, <1>5

LEMMA CallStep ==
  ASSUME PlaceInv, CountInv, CallInv, [Next]_vars
  PROVE  CallInv'
<1>1. runs \in 0..MaxRuns /\ MaxRuns \in Nat
  BY BoundsAssumption DEF CountInv
<1>2. CASE Start
  <2>1. /\ runs < MaxRuns /\ runs' = runs + 1 /\ bcs' \in Lists /\ written' = written
        /\ lists' = [lists EXCEPT ![runs + 1] = bcs'] /\ pc' = "export"
    BY <1>2 DEF Start, files
  <2>2. lists' \in [0..MaxRuns -> Lists \cup {<<>>}] /\ lists'[runs'] = bcs'
    BY <1>1, <2>1 DEF CallInv
  <2>3. written' \in [Names -> 0..runs']
    BY <1>1, <2>1 DEF CallInv
  <2> QED
    BY <2>1, <2>2, <2>3 DEF CallInv
<1>3. CASE StartFails
  <2>1. /\ runs' = runs + 1 /\ UNCHANGED <<written, lists, pc>> /\ pc = "idle"
    BY <1>3 DEF StartFails, files
  <2>2. written' \in [Names -> 0..runs']
    BY <1>1, <2>1 DEF CallInv
  <2> QED
    BY <2>1, <2>2 DEF CallInv
<1>4. CASE CreateBuild
  <2>1. /\ UNCHANGED <<lists, runs, bcs, pos>> /\ written' = [written EXCEPT ![bc.name] = runs]
        /\ pc = "output" /\ bc' = bc
    BY <1>4 DEF CreateBuild, cluster, counts, bc
  <2>2. bc.name \in Names
    BY <2>1, AtListed DEF InLoop
  <2> QED
    BY <1>1, <2>1, <2>2 DEF CallInv
<1>5. CASE ~Start /\ ~StartFails /\ ~CreateBuild
  <2>1. bcs' = bcs /\ lists' = lists
    BY <1>5, ListKept
  <2>2. /\ runs' = runs /\ written' = written
        /\ pc' # "idle" => pc # "idle"
        /\ pc' = "buildWrite" => pc = "buildWrite" /\ pos' = pos
    BY <1>5, <2>1 DEF Next, Step, Crash, CreateExport, WriteExport, ExportFails, EndExports,
       NextBuildConfig, From, FromFails, FromPanics, PullSecret, PullSecretFails, CreateAccount,
       WriteAccount, AccountFails, StrategyParams, Source, SourcePanics, OutputPanics,
       WriteBuild, WriteBuildFails, ReturnError, Return, ChangeTag, EditSecret,
       cluster, counts, files, vars
  <2> QED
    BY <2>1, <2>2 DEF CallInv, bc
<1> QED
  BY <1>2, <1>3, <1>4, <1>5

-----------------------------------------------------------------------------
(* The Build in memory. *)

\* The tables of parameter names, entry by entry.
LEMMA Tables ==
  /\ DOMAIN DockerFields =
       {"noCache", "forcePull", "dockerfilePath", "buildArgs", "skipLayers"}
  /\ DockerFields["noCache"] = "no-cache" /\ DockerFields["forcePull"] = "pull"
  /\ DockerFields["dockerfilePath"] = "dockerfile"
  /\ DockerFields["buildArgs"] = "build-args" /\ DockerFields["skipLayers"] = "squash"
  /\ DOMAIN SourceFields = {"scripts", "incremental", "forcePull"}
  /\ SourceFields["scripts"] = "scripts-url" /\ SourceFields["incremental"] = "incremental"
  /\ SourceFields["forcePull"] = "pull-policy"
BY DEF DockerFields, SourceFields

\* What the conversion writes for a BuildConfig are values of a Build.
LEMMA PartsTyped ==
  ASSUME NEW c \in AllBuildConfigs
  PROVE  /\ FieldPart(c) \in SUBSET Params
         /\ RegistryParams \in SUBSET Params
         /\ StrategyEnv(c) \in Envs
         /\ ProxyEnv(c) \in Envs
<1>0. /\ SearchRegistries \in ParamValues /\ BlockRegistries \in ParamValues
      /\ \A n \in {"registries-search", "registries-insecure", "registries-block"} :
           n \in ParamNames
      /\ \A f \in DOMAIN DockerFields : f \in ParamValues /\ DockerFields[f] \in ParamNames
      /\ \A f \in DOMAIN SourceFields : f \in ParamValues /\ SourceFields[f] \in ParamNames
  BY Zenon DEF ParamValues, ParamNames
<1>1. FieldPart(c) \in SUBSET Params
  <2>2. ASSUME NEW p \in FieldParams(c)
        PROVE  p \in Params
    <3>1. CASE c.strategy = "Docker"
      <4>1. PICK f \in DOMAIN DockerFields : p = Param(DockerFields[f], f)
        BY <3>1, Zenon DEF FieldParams
      <4> QED
        BY <4>1, <1>0 DEF Param, Params
    <3>2. CASE c.strategy # "Docker"
      <4>1. PICK f \in DOMAIN SourceFields : p = Param(SourceFields[f], f)
        BY <3>2, Zenon DEF FieldParams
      <4> QED
        BY <4>1, <1>0 DEF Param, Params
    <3> QED
      BY <3>1, <3>2
  <2> QED
    BY <1>0, <2>2 DEF FieldPart
<1>2. RegistryParams \in SUBSET Params
  <2>1. \A p \in RegistryParams :
          \/ p = Param("registries-search", SearchRegistries)
          \/ p = Param("registries-insecure", BlockRegistries)
          \/ p = Param("registries-block", BlockRegistries)
    BY Zenon DEF RegistryParams
  <2>2. \A n \in ParamNames, v \in ParamValues : Param(n, v) \in Params
    BY DEF Param, Params
  <2> QED
    BY <1>0, <2>1, <2>2
<1>3. StrategyEnv(c) \in Envs /\ ProxyEnv(c) \in Envs
  <2>1. <<>> \in Envs /\ <<"strategy">> \in Envs
        /\ <<"proxy">> \in Envs
    BY DEF Envs
  <2> QED
    BY <2>1, Zenon DEF StrategyEnv, ProxyEnv
<1> QED
  BY <1>1, <1>2, <1>3

\* A step of another actor, or of the loop without touching the Build, the tags
\* or its place, leaves what is known of the Build.
LEMMA BuildKept ==
  ASSUME BuildInv, bcs' = bcs, build' = build, pos' = pos, UNCHANGED <<reference, stale>>,
         pc' = pc \/ (pc \in {"secret", "account", "accountWrite"}
                      /\ pc' \in {"account", "accountWrite", "params"})
  PROVE  BuildInv'
<1>1. ASSUME InLoop
      PROVE  (build \in Builds /\ ParamsSoFar(bc) /\ FieldsSoFar(bc))'
  <2>1. bc' = bc
    BY DEF bc
  <2>2. \A c, P : FromPart(c, P)' <=> FromPart(c, P)
    BY DEF FromPart, BaseImage, OnceResolved, Resolved
  <2>3. ParamsSoFar(bc) => ParamsSoFar(bc)'
    BY <2>1, <2>2 DEF ParamsSoFar
  <2>4. FieldsSoFar(bc) => FieldsSoFar(bc)'
    BY <2>1 DEF FieldsSoFar
  <2> QED
    BY <1>1, <2>3, <2>4 DEF BuildInv
<1> QED
  BY <1>1 DEF BuildInv, InLoop

LEMMA ResolvedTyped ==
  ASSUME PlaceInv, CountInv, InLoop
  PROVE  /\ Resolved(bc.from) \in ParamValues
         /\ BaseImage(bc, Resolved(bc.from))
         /\ Param(FromParamName(bc), Resolved(bc.from)) \in Params
<1>1. CASE bc.from.kind = "ImageStreamTag"
  <2>1. bc.from.ref \in Refs /\ reference[bc.from.ref] \in Nat /\ reference[bc.from.ref] >= 1
    BY <1>1, AtListed DEF CountInv
  <2>2. Resolved(bc.from) = <<"spec", bc.from.ref, reference[bc.from.ref]>>
    BY <1>1 DEF Resolved
  <2>3. <<"spec", bc.from.ref, reference[bc.from.ref]>> \in {"spec"} \X Refs \X Nat
    BY <2>1
  <2>4. Resolved(bc.from) \in ParamValues
    BY <2>2, <2>3, Zenon DEF ParamValues
  <2>5. OnceResolved(bc.from, Resolved(bc.from))
    BY <1>1, <2>1, <2>2 DEF OnceResolved
  <2> QED
    BY <2>4, <2>5 DEF BaseImage, Param, Params, FromParamName, ParamNames
<1>2. CASE bc.from.kind # "ImageStreamTag"
  <2>1. PICK kind \in {"digest", "name"} : Resolved(bc.from) = <<kind, bc.from.ref>>
    BY <1>2 DEF Resolved
  <2>2. Resolved(bc.from) \in {"digest", "name"} \X {c.from.ref : c \in AllBuildConfigs}
    BY <2>1, AtListed
  <2>3. Resolved(bc.from) \in ParamValues
    BY <2>2, Zenon DEF ParamValues
  <2> QED
    BY <1>2, <2>3 DEF BaseImage, OnceResolved, Param, Params, FromParamName, ParamNames
<1> QED
  BY <1>1, <1>2

\* A Build is a record of its fields, and stays one when fields are replaced.
LEMMA BuildRecord ==
  ASSUME NEW b \in Builds
  PROVE  /\ b = [name |-> b.name, strategy |-> b.strategy, params |-> b.params, env |-> b.env,
                 source |-> b.source, image |-> b.image, push |-> b.push]
         /\ b.name \in Names /\ b.strategy \in Strategies /\ b.params \in SUBSET Params
         /\ b.env \in Envs /\ b.source \in Sources /\ b.image \in Images /\ b.push \in Pushes
BY DEF Builds

LEMMA BuildEdited ==
  ASSUME NEW b \in Builds
  PROVE  /\ \A P \in SUBSET Params : [b EXCEPT !.params = P] \in Builds
         /\ \A P \in SUBSET Params, e \in Envs : [b EXCEPT !.params = P, !.env = e] \in Builds
         /\ \A s \in Sources, e \in Envs : [b EXCEPT !.source = s, !.env = e] \in Builds
         /\ \A i \in Images, p \in Pushes, P \in SUBSET Params :
              [b EXCEPT !.image = i, !.push = p, !.params = P] \in Builds
BY DEF Builds

LEMMA BuildFrom ==
  ASSUME PlaceInv, CountInv, BuildInv, From
  PROVE  BuildInv'
<1>1. /\ InLoop /\ Convertible(bc) /\ bc' = bc /\ pc = "from" /\ pc' = "secret"
      /\ UNCHANGED <<reference, stale>>
  BY DEF From, InLoop, PlaceInv, bc, cluster
<1>2. build \in Builds /\ build.params = {} /\ FieldsSoFar(bc) /\ build.params \cup {} = {}
  BY <1>1 DEF BuildInv, ParamsSoFar
<1>3. \A c, P : FromPart(c, P)' <=> FromPart(c, P)
  BY <1>1 DEF FromPart, BaseImage, OnceResolved, Resolved
<1>4. PICK P \in SUBSET Params :
        FromPart(bc, P) /\ build' = [build EXCEPT !.params = build.params \cup P]
  <2>1. CASE bc.from.kind = "" /\ UNCHANGED build
    <3>1. FromPart(bc, {})
      BY <2>1 DEF FromPart
    <3>2. build = [build EXCEPT !.params = build.params \cup {}]
      BY <1>2, BuildRecord
    <3> QED
      BY <2>1, <3>1, <3>2
  <2>2. CASE /\ bc.from.kind \in Kinds /\ Known(bc.from)
             /\ build' = [build EXCEPT !.params =
                            @ \cup {Param(FromParamName(bc), Resolved(bc.from))}]
    <3>1. FromPart(bc, {Param(FromParamName(bc), Resolved(bc.from))})
      BY <2>2, <1>1, ResolvedTyped DEF FromPart, Kinds
    <3>2. Param(FromParamName(bc), Resolved(bc.from)) \in Params
      BY <2>2, <1>1, ResolvedTyped
    <3> QED
      BY <2>2, <3>1, <3>2
  <2> QED
    BY <2>1, <2>2 DEF From
<1>5. build' \in Builds /\ build'.params = P
  <2>1. build.params \cup P = P
    BY <1>2
  <2>2. build' = [build EXCEPT !.params = P]
    BY <2>1, <1>4
  <2> QED
    <3>1. build' \in Builds
      BY <2>2, <1>2, BuildEdited
    <3>2. build'.params = P
      BY <2>2, <1>2, BuildRecord
    <3> QED
      BY <3>1, <3>2
<1>6. ParamsSoFar(bc)'
  BY <1>1, <1>3, <1>4, <1>5 DEF ParamsSoFar, Params
<1>7. FieldsSoFar(bc)'
  <2>1. build'.name = build.name /\ build'.env = build.env
    BY <1>2, <1>4, BuildRecord
  <2> QED
    BY <1>1, <1>2, <2>1 DEF FieldsSoFar
<1> QED
  BY <1>5, <1>6, <1>7 DEF BuildInv

LEMMA BuildFresh ==
  ASSUME PlaceInv, NextBuildConfig
  PROVE  BuildInv'
<1>1. CASE pos = Len(bcs) /\ Return("ok")
  BY <1>1 DEF BuildInv, InLoop, Return
<1>2. CASE /\ pos < Len(bcs) /\ pos' = pos + 1 /\ build' = Fresh(bcs[pos + 1])
           /\ pc' = (IF Convertible(bcs[pos + 1]) THEN "from" ELSE "source")
  <2>1. bcs' = bcs /\ Len(bcs) \in Nat /\ pos \in 0..Len(bcs) /\ DOMAIN bcs = 1..Len(bcs)
    BY Listed DEF NextBuildConfig, PlaceInv, cluster
  <2> DEFINE c == bcs[pos + 1]
  <2>2. bc' = c /\ pos + 1 \in DOMAIN bcs
    BY <1>2, <2>1 DEF bc
  <2>3. c.name \in Names
    BY <2>2, Listed DEF PlaceInv
  <2>4. Fresh(c) \in Builds
    <3>1. <<>> \in Envs
      BY DEF Envs
    <3>2. Fresh(c).strategy \in Strategies
      BY DEF Fresh, Strategies
    <3>3. NoSource \in Sources /\ <<>> \in Images /\ NoSecret \in Pushes
      BY DEF Sources, Images, Pushes
    <3> QED
      BY <2>3, <3>1, <3>2, <3>3 DEF Fresh, Builds
  <2>5. build'.params = {} /\ build'.env = <<>> /\ build'.name = c.name
    BY <1>2 DEF Fresh
  <2>6. <<>> \o <<>> = <<>>
    OBVIOUS
  <2>7. ParamsSoFar(bc)'
    BY <1>2, <2>2, <2>5 DEF ParamsSoFar, FromPart, FieldPart, Convertible
  <2>8. FieldsSoFar(bc)'
    BY <1>2, <2>2, <2>5, <2>6 DEF FieldsSoFar, StrategyEnv
  <2> QED
    BY <1>2, <2>4, <2>7, <2>8 DEF BuildInv
<1> QED
  BY <1>1, <1>2 DEF NextBuildConfig

LEMMA BuildParams ==
  ASSUME PlaceInv, BuildInv, StrategyParams
  PROVE  BuildInv'
<1>1. /\ InLoop /\ Convertible(bc) /\ bc' = bc /\ pc = "params" /\ pc' = "source"
      /\ bc \in AllBuildConfigs /\ UNCHANGED <<reference, stale>>
  BY AtListed DEF StrategyParams, InLoop, PlaceInv, bc, cluster
<1>2. build \in Builds /\ FieldsSoFar(bc) /\ build.env = <<>> /\ build.name = bc.name
  BY <1>1 DEF BuildInv, FieldsSoFar
<1>3. \A c, P : FromPart(c, P)' <=> FromPart(c, P)
  BY <1>1 DEF FromPart, BaseImage, OnceResolved, Resolved
<1>4. PICK P \in SUBSET Params : FromPart(bc, P) /\ build.params = P
  BY <1>1 DEF BuildInv, ParamsSoFar
<1>5. FieldPart(bc) \in SUBSET Params /\ FieldPart(bc) = FieldParams(bc)
  BY <1>1, PartsTyped DEF FieldPart
<1>6. build' = [build EXCEPT !.params = P \cup FieldPart(bc), !.env = StrategyEnv(bc)]
  <2>1. Append(<<>>, "strategy") = <<"strategy">>
    OBVIOUS
  <2> QED
    BY <1>1, <1>2, <1>4, <1>5, <2>1 DEF StrategyParams, StrategyEnv
<1>7. build' \in Builds
  <2>1. P \cup FieldPart(bc) \in SUBSET Params /\ StrategyEnv(bc) \in Envs
    BY <1>1, <1>4, <1>5, PartsTyped
  <2> QED
    BY <1>2, <1>6, <2>1, BuildEdited
<1>8. /\ build'.params = P \cup FieldPart(bc) /\ build'.env = StrategyEnv(bc)
      /\ build'.name = bc.name
  BY <1>2, <1>6, BuildRecord
<1>9. ParamsSoFar(bc)'
  BY <1>1, <1>3, <1>4, <1>8 DEF ParamsSoFar, FieldPart, FieldParams
<1>10. FieldsSoFar(bc)'
  <2>1. StrategyEnv(bc) \o <<>> = StrategyEnv(bc)
    BY <1>1, PartsTyped DEF Envs
  <2> QED
    BY <1>1, <1>8, <2>1 DEF FieldsSoFar, StrategyEnv
<1> QED
  BY <1>7, <1>9, <1>10 DEF BuildInv

\* The source that is made of a BuildConfig fits it, and so does none if the
\* image could not be read.
LEMMA SourceMade ==
  ASSUME NEW c \in AllBuildConfigs, NEW found \in BOOLEAN,
         found = SourceKnown(c) \/ ReadsSource(c)
  PROVE  SourceFits(c, SourceOf(c, found))
<1> DEFINE kinds == c.source.kinds
           Of(type, image, secret) ==
             [type |-> type, image |-> image, secret |-> secret, contextDir |-> c.source.contextDir]
<1>1. /\ {"git"} # {"binary"} /\ {"git"} # {"image"} /\ {"binary"} # {"image"}
  <2>1. "git" \notin {"binary"} /\ "git" \notin {"image"} /\ "binary" \notin {"image"}
    OBVIOUS
  <2> QED
    BY <2>1
<1>2. \A type \in {"Git", "Local", "OCI"} :
        \A image \in {<<>>, <<"name", c.source.image.ref>>}, secret \in {c.source.secret, FALSE} :
          Of(type, image, secret) # NoSource
  BY FilesAssumption
<1>3. CASE kinds = {"git"}
  <2>1. SourceOf(c, found) = Of("Git", <<>>, c.source.secret)
    BY <1>3 DEF SourceOf
  <2>2. SourceOf(c, found) # NoSource
    BY <1>2, <2>1
  <2> QED
    BY <1>1, <1>3, <2>1, <2>2 DEF SourceFits
<1>4. CASE kinds = {"binary"} /\ c.source.plain
  <2>1. SourceOf(c, found) = Of("Local", <<>>, FALSE)
    BY <1>1, <1>4 DEF SourceOf
  <2>2. SourceOf(c, found) # NoSource
    BY <1>2, <2>1
  <2> QED
    BY <1>1, <1>4, <2>1, <2>2 DEF SourceFits
<1>5. CASE kinds = {"image"} /\ c.source.plain /\ found
  <2>1. SourceOf(c, found) = Of("OCI", <<"name", c.source.image.ref>>, c.source.secret)
    BY <1>1, <1>5 DEF SourceOf
  <2>2. SourceOf(c, found) # NoSource
    BY <1>2, <2>1
  <2>3. LET s == Of("OCI", <<"name", c.source.image.ref>>, c.source.secret)
        IN  /\ s.type = "OCI" /\ s.image = <<"name", c.source.image.ref>>
            /\ s.secret = c.source.secret /\ s.contextDir = c.source.contextDir
    OBVIOUS
  <2>4. (CASE "OCI" = "Git" -> "git" [] "OCI" = "Local" -> "binary" [] OTHER -> "image") = "image"
    OBVIOUS
  <2> HIDE DEF Of
  <2> QED
    BY <1>1, <1>5, <2>1, <2>2, <2>3, <2>4 DEF SourceFits
<1>6. CASE /\ kinds # {"git"} /\ ~(kinds = {"binary"} /\ c.source.plain)
           /\ ~(kinds = {"image"} /\ c.source.plain /\ found)
  <2>1. SourceOf(c, found) = NoSource
    BY <1>6 DEF SourceOf
  <2>2. ~found => c.source.image.kind # "DockerImage"
    BY DEF SourceKnown, ReadsSource
  <2> QED
    BY <1>6, <2>1, <2>2 DEF SourceFits
<1> QED
  BY <1>3, <1>4, <1>5, <1>6

LEMMA ImageMade ==
  ASSUME NEW c
  PROVE  ImageFits(c, OutputImage(c))
BY DEF ImageFits, OutputImage

LEMMA BuildSource ==
  ASSUME PlaceInv, BuildInv, Source
  PROVE  BuildInv'
<1>1. /\ InLoop /\ bc' = bc /\ pc = "source" /\ pc' = "output"
      /\ bc \in AllBuildConfigs /\ UNCHANGED <<reference, stale>>
  BY AtListed DEF Source, InLoop, PlaceInv, bc, cluster
<1>2. PICK found \in BOOLEAN :
        /\ found = SourceKnown(bc) \/ ReadsSource(bc)
        /\ build' = [build EXCEPT !.source = SourceOf(bc, found), !.env = @ \o ProxyEnv(bc)]
  BY DEF Source
<1>3. build \in Builds /\ build.name = bc.name /\ build.env = StrategyEnv(bc)
  <2>1. StrategyEnv(bc) \o <<>> = StrategyEnv(bc)
    BY <1>1, PartsTyped DEF Envs
  <2> QED
    BY <1>1, <2>1 DEF BuildInv, FieldsSoFar
<1>4. /\ SourceOf(bc, found) \in Sources /\ StrategyEnv(bc) \o ProxyEnv(bc) \in Envs
  BY <1>1, PartsTyped DEF Sources, Envs
<1>5. build' = [build EXCEPT !.source = SourceOf(bc, found),
                             !.env = StrategyEnv(bc) \o ProxyEnv(bc)]
  BY <1>2, <1>3
<1>6. build' \in Builds
  BY <1>3, <1>4, <1>5, BuildEdited, BuildRecord
<1>7. /\ build'.params = build.params /\ build'.name = bc.name
      /\ build'.env = StrategyEnv(bc) \o ProxyEnv(bc) /\ build'.source = SourceOf(bc, found)
  BY <1>3, <1>5, BuildRecord
<1>8. SourceFits(bc, build'.source)
  BY <1>1, <1>2, <1>7, SourceMade
<1>9. \A c, P : FromPart(c, P)' <=> FromPart(c, P)
  BY <1>1 DEF FromPart, BaseImage, OnceResolved, Resolved
<1>10. ParamsSoFar(bc)'
  <2>1. ParamsSoFar(bc)
    BY <1>1 DEF BuildInv
  <2> QED
    BY <1>1, <1>7, <1>9, <2>1 DEF ParamsSoFar, FieldPart, FieldParams
<1>11. FieldsSoFar(bc)'
  BY <1>1, <1>7, <1>8 DEF FieldsSoFar, StrategyEnv, ProxyEnv, SourceFits
<1> QED
  BY <1>6, <1>10, <1>11 DEF BuildInv

LEMMA BuildCreated ==
  ASSUME PlaceInv, BuildInv, CreateBuild
  PROVE  BuildInv'
<1>1. /\ InLoop /\ bc' = bc /\ pc = "output" /\ pc' = "buildWrite"
      /\ bc \in AllBuildConfigs /\ UNCHANGED <<reference, stale>>
  BY AtListed DEF CreateBuild, InLoop, PlaceInv, bc, cluster
<1>2. build \in Builds /\ FieldsSoFar(bc)
  BY <1>1 DEF BuildInv
<1>3. PICK P \in SUBSET Params : FromPart(bc, P) /\ build.params = P \cup FieldPart(bc)
  BY <1>1 DEF BuildInv, ParamsSoFar
<1>4. P \cup FieldPart(bc) \cup RegistryParams \in SUBSET Params
  BY <1>1, PartsTyped
<1>5. build' = [build EXCEPT !.image = OutputImage(bc), !.push = bc.push,
                             !.params = P \cup FieldPart(bc) \cup RegistryParams]
  BY <1>3 DEF CreateBuild
<1>6. build' \in Builds
  <2>1. OutputImage(bc) \in Images /\ bc.push \in Pushes
    BY <1>1 DEF Images, Pushes
  <2> QED
    BY <1>2, <1>4, <1>5, <2>1, BuildEdited
<1>7. /\ build'.params = P \cup FieldPart(bc) \cup RegistryParams
      /\ build'.image = OutputImage(bc) /\ build'.push = bc.push
      /\ UNCHANGED <<build.name, build.env, build.source>>
  BY <1>2, <1>5, BuildRecord
<1>8. \A c, Q : FromPart(c, Q)' <=> FromPart(c, Q)
  BY <1>1 DEF FromPart, BaseImage, OnceResolved, Resolved
<1>9. ParamsSoFar(bc)'
  BY <1>1, <1>3, <1>7, <1>8 DEF ParamsSoFar, FieldPart, FieldParams, RegistryParams
<1>10. FieldsSoFar(bc)'
  <2>1. ImageFits(bc, build'.image)
    BY <1>7, ImageMade
  <2> QED
    BY <1>1, <1>2, <1>7, <2>1 DEF FieldsSoFar, StrategyEnv, ProxyEnv, SourceFits, ImageFits
<1> QED
  BY <1>6, <1>9, <1>10 DEF BuildInv

\* A change of a tag leaves the images it stood for, and marks what is known of the
\* present one.
LEMMA ChangedImage ==
  ASSUME CountInv, NEW r \in Refs, ChangeTag(r), NEW c,
         c.from.kind = "ImageStreamTag" => c.from.ref \in Refs
  PROVE  \A image : /\ OnceResolved(c.from, image) => OnceResolved(c.from, image)'
                    /\ BaseImage(c, image) => BaseImage(c, image)'
<1>1. /\ reference \in [Refs -> Nat]
      /\ reference' \in {reference, [reference EXCEPT ![r] = reference[r] + 1]}
      /\ stale' = stale \cup {r}
  BY DEF CountInv, ChangeTag
<1>2. CASE c.from.kind = "ImageStreamTag"
  <2>1. reference[c.from.ref] \in Nat /\ reference'[c.from.ref] \in Nat
        /\ reference[c.from.ref] <= reference'[c.from.ref]
    BY <1>1, <1>2
  <2>2. c.from.ref \notin stale' => reference'[c.from.ref] = reference[c.from.ref]
    BY <1>1, <1>2
  <2>3. \A image : OnceResolved(c.from, image) => OnceResolved(c.from, image)'
    BY <1>2, <2>1 DEF OnceResolved
  <2>4. c.from.ref \notin stale' => c.from.ref \notin stale /\ Resolved(c.from)' = Resolved(c.from)
    BY <1>1, <1>2, <2>2 DEF Resolved
  <2> QED
    BY <1>2, <2>3, <2>4 DEF BaseImage
<1>3. CASE c.from.kind # "ImageStreamTag"
  BY <1>3 DEF BaseImage, OnceResolved, Resolved
<1> QED
  BY <1>2, <1>3

LEMMA BuildAfterChange ==
  ASSUME PlaceInv, CountInv, BuildInv, NEW r \in Refs, ChangeTag(r)
  PROVE  BuildInv'
<1>1. ASSUME InLoop
      PROVE  (build \in Builds /\ ParamsSoFar(bc) /\ FieldsSoFar(bc))'
  <2>1. bc' = bc /\ pc' = pc /\ build' = build /\ build \in Builds /\ FieldsSoFar(bc)
    BY <1>1 DEF BuildInv, ChangeTag, bc
  <2>2. \A P : FromPart(bc, P) => FromPart(bc, P)'
    <3>1. \A image : BaseImage(bc, image) => BaseImage(bc, image)'
      BY <1>1, <2>1, AtListed, ChangedImage
    <3> QED
      BY <2>1, <3>1 DEF FromPart
  <2>3. ParamsSoFar(bc)'
    <3>1. ParamsSoFar(bc)
      BY <1>1 DEF BuildInv
    <3> QED
      BY <2>1, <2>2, <3>1 DEF ParamsSoFar
  <2>4. FieldsSoFar(bc)'
    BY <2>1 DEF FieldsSoFar
  <2> QED
    BY <2>1, <2>3, <2>4
<1> QED
  BY <1>1 DEF BuildInv, InLoop, ChangeTag

LEMMA BuildStep ==
  ASSUME PlaceInv, CountInv, BuildInv, [Next]_vars
  PROVE  BuildInv'
<1>1. CASE Start \/ StartFails \/ Exporting \/ FromFails \/ PullSecretFails \/ AccountFails
           \/ Panics \/ Crash \/ WriteBuild \/ WriteBuildFails
  <2>1. pc' \in {"idle", "export", "exportWrite", "next"}
    BY <1>1 DEF Start, StartFails, Exporting, CreateExport, WriteExport, ExportFails, EndExports,
       FromFails, PullSecretFails, AccountFails, Panics, FromPanics, SourcePanics, OutputPanics,
       Crash, WriteBuild, WriteBuildFails, ReturnError, Return
  <2> QED
    BY <2>1 DEF BuildInv, InLoop
<1>2. CASE PullSecret \/ CreateAccount \/ WriteAccount \/ UNCHANGED vars
           \/ (\E s \in Secrets : EditSecret(s))
  BY <1>2, BuildKept DEF PullSecret, CreateAccount, WriteAccount, EditSecret, vars, cluster
<1>3. ASSUME NEW r \in Refs, ChangeTag(r)
      PROVE  BuildInv'
  BY <1>3, BuildAfterChange
<1> QED
  BY <1>1, <1>2, <1>3, BuildFresh, BuildFrom, BuildParams, BuildSource, BuildCreated
     DEF Next, Step, Exporting, Panics

-----------------------------------------------------------------------------
(* A finished Build is the translation of its BuildConfig. *)

\* The parameters made of the fields of a strategy, and of the registries.
LEMMA FieldPartIs ==
  ASSUME NEW c, NEW p
  PROVE  p \in FieldPart(c) <=>
           \/ /\ c.strategy = "Docker"
              /\ \/ "noCache" \in c.fields /\ p = Param("no-cache", "noCache")
                 \/ "forcePull" \in c.fields /\ p = Param("pull", "forcePull")
                 \/ "dockerfilePath" \in c.fields /\ p = Param("dockerfile", "dockerfilePath")
                 \/ "buildArgs" \in c.fields /\ p = Param("build-args", "buildArgs")
                 \/ "skipLayers" \in c.fields /\ p = Param("squash", "skipLayers")
           \/ /\ c.strategy = "Source"
              /\ \/ "scripts" \in c.fields /\ p = Param("scripts-url", "scripts")
                 \/ "incremental" \in c.fields /\ p = Param("incremental", "incremental")
                 \/ "forcePull" \in c.fields /\ p = Param("pull-policy", "forcePull")
<1>1. CASE c.strategy = "Docker"
  <2>1. FieldPart(c) = {Param(DockerFields[f], f) : f \in c.fields \cap DOMAIN DockerFields}
    BY <1>1 DEF FieldPart, FieldParams, Convertible
  <2> QED
    BY <1>1, <2>1, Tables
<1>2. CASE c.strategy = "Source"
  <2>1. FieldPart(c) = {Param(SourceFields[f], f) : f \in c.fields \cap DOMAIN SourceFields}
    BY <1>2 DEF FieldPart, FieldParams, Convertible
  <2> QED
    BY <1>2, <2>1, Tables
<1>3. CASE c.strategy \notin {"Docker", "Source"}
  BY <1>3 DEF FieldPart, Convertible
<1> QED
  BY <1>1, <1>2, <1>3

LEMMA RegistryParamsAre ==
  ASSUME NEW p
  PROVE  p \in RegistryParams <=>
           \/ SearchRegistries # {} /\ p = Param("registries-search", SearchRegistries)
           \/ InsecureRegistries # {} /\ p = Param("registries-insecure", BlockRegistries)
           \/ BlockRegistries # {} /\ p = Param("registries-block", BlockRegistries)
<1>1. \A S, q : p \in {q : x \in S} <=> S # {} /\ p = q
  OBVIOUS
<1> QED
  BY <1>1, Zenon DEF RegistryParams

\* The names a Build is expected to have.
LEMMA ExpectedIs ==
  ASSUME NEW c, NEW n
  PROVE  n \in ExpectedParams(c) <=>
           \/ Convertible(c) /\ c.from.kind # "" /\ n = FromParamName(c)
           \/ \E p \in FieldPart(c) : n = p.name
           \/ \E p \in RegistryParams : n = p.name
<1> DEFINE own == [Docker |-> {<<"noCache", "no-cache">>, <<"forcePull", "pull">>,
                               <<"dockerfilePath", "dockerfile">>, <<"buildArgs", "build-args">>,
                               <<"skipLayers", "squash">>},
                   Source |-> {<<"scripts", "scripts-url">>, <<"incremental", "incremental">>,
                               <<"forcePull", "pull-policy">>}]
           names == IF Convertible(c)
                      THEN {x[2] : x \in {y \in own[c.strategy] : y[1] \in c.fields}} ELSE {}
<1>p. \A name, value : Param(name, value).name = name
  BY DEF Param
<1>2. ExpectedParams(c) =
        names \cup (IF Convertible(c) /\ c.from.kind # "" THEN {FromParamName(c)} ELSE {})
              \cup (IF SearchRegistries = {} THEN {} ELSE {"registries-search"})
              \cup (IF InsecureRegistries = {} THEN {} ELSE {"registries-insecure"})
              \cup (IF BlockRegistries = {} THEN {} ELSE {"registries-block"})
  BY DEF ExpectedParams, BaseParam, FromParamName
<1>3. (\E p \in RegistryParams : n = p.name)
        <=> \/ SearchRegistries # {} /\ n = "registries-search"
            \/ InsecureRegistries # {} /\ n = "registries-insecure"
            \/ BlockRegistries # {} /\ n = "registries-block"
  BY <1>p, RegistryParamsAre
<1>0. /\ Convertible(c) <=> c.strategy \in {"Docker", "Source"}
      /\ n \in names <=> /\ Convertible(c)
                         /\ \E y \in own[c.strategy] : y[1] \in c.fields /\ n = y[2]
  BY DEF Convertible
<1> HIDE DEF names, own
<1>1. n \in names <=> \E p \in FieldPart(c) : n = p.name
  <2>1. CASE c.strategy = "Docker"
    <3>1. own[c.strategy] = {<<"noCache", "no-cache">>, <<"forcePull", "pull">>,
             <<"dockerfilePath", "dockerfile">>, <<"buildArgs", "build-args">>,
             <<"skipLayers", "squash">>}
      BY <2>1 DEF own
    <3>2. n \in names <=> \/ "noCache" \in c.fields /\ n = "no-cache"
                          \/ "forcePull" \in c.fields /\ n = "pull"
                          \/ "dockerfilePath" \in c.fields /\ n = "dockerfile"
                          \/ "buildArgs" \in c.fields /\ n = "build-args"
                          \/ "skipLayers" \in c.fields /\ n = "squash"
      <4>1. n \in names <=> \E y \in own[c.strategy] : y[1] \in c.fields /\ n = y[2]
        BY <1>0, <2>1
      <4> QED
        BY <3>1, <4>1
    <3> QED
      BY <1>p, <2>1, <3>2, FieldPartIs
  <2>2. CASE c.strategy = "Source"
    <3>1. own[c.strategy] = {<<"scripts", "scripts-url">>, <<"incremental", "incremental">>,
                             <<"forcePull", "pull-policy">>}
      BY <2>2 DEF own
    <3>2. n \in names <=> \/ "scripts" \in c.fields /\ n = "scripts-url"
                          \/ "incremental" \in c.fields /\ n = "incremental"
                          \/ "forcePull" \in c.fields /\ n = "pull-policy"
      <4>1. n \in names <=> \E y \in own[c.strategy] : y[1] \in c.fields /\ n = y[2]
        BY <1>0, <2>2
      <4> QED
        BY <3>1, <4>1
    <3> QED
      BY <1>p, <2>2, <3>2, FieldPartIs
  <2>3. CASE c.strategy \notin {"Docker", "Source"}
    BY <1>0, <2>3, FieldPartIs
  <2> QED
    BY <2>1, <2>2, <2>3
<1> QED
  BY <1>1, <1>2, <1>3

LEMMA BuildTranslates ==
  ASSUME PlaceInv, BuildInv, pc = "buildWrite"
  PROVE  IsTranslation(bc, build)
<1>1. InLoop /\ build \in Builds /\ FieldsSoFar(bc) /\ bc \in AllBuildConfigs
  BY AtListed DEF BuildInv, InLoop
<1>2. PICK P \in SUBSET Params :
        FromPart(bc, P) /\ build.params = P \cup FieldPart(bc) \cup RegistryParams
  BY <1>1 DEF BuildInv, ParamsSoFar
<1>p. \A n, v : Param(n, v).name = n /\ Param(n, v).value = v
  BY DEF Param
<1>3. \A p \in P : /\ Convertible(bc) /\ bc.from.kind # "" /\ p.name = FromParamName(bc)
                   /\ OnceResolved(bc.from, p.value) /\ P = {p}
  <2>1. CASE Convertible(bc) /\ bc.from.kind # ""
    <3>1. PICK image : P = {Param(FromParamName(bc), image)} /\ OnceResolved(bc.from, image)
      BY <1>2, <2>1 DEF FromPart, BaseImage
    <3>2. Param(FromParamName(bc), image).value = image
      BY <1>p
    <3> QED
      BY <1>p, <2>1, <3>1, <3>2
  <2>2. CASE ~(Convertible(bc) /\ bc.from.kind # "")
    BY <1>2, <2>2 DEF FromPart
  <2> QED
    BY <2>1, <2>2
<1>4. Convertible(bc) /\ bc.from.kind # "" => \E p \in P : p.name = FromParamName(bc)
  BY <1>2, <1>p DEF FromPart
<1>5. \A n : n \in {p.name : p \in build.params} <=> n \in ExpectedParams(bc)
  <2> TAKE n
  <2>1. (\E p \in P : n = p.name)
          <=> Convertible(bc) /\ bc.from.kind # "" /\ n = FromParamName(bc)
    BY <1>3, <1>4
  <2>2. n \in {p.name : p \in build.params}
          <=> \/ \E p \in P : n = p.name
              \/ \E p \in FieldPart(bc) : n = p.name
              \/ \E p \in RegistryParams : n = p.name
    BY <1>2
  <2> QED
    BY <2>1, <2>2, ExpectedIs
<1>6. \A p \in FieldPart(bc) \cup RegistryParams :
        /\ p.name \notin {"runtime-stage-from", "builder-image"}
        /\ \A q \in FieldPart(bc) \cup RegistryParams : p.name = q.name => p = q
  <2> DEFINE value(n) ==
        CASE n = "no-cache" -> "noCache"             [] n = "pull" -> "forcePull"
          [] n = "dockerfile" -> "dockerfilePath"    [] n = "build-args" -> "buildArgs"
          [] n = "squash" -> "skipLayers"            [] n = "scripts-url" -> "scripts"
          [] n = "incremental" -> "incremental"      [] n = "pull-policy" -> "forcePull"
          [] n = "registries-search" -> SearchRegistries
          [] n = "registries-insecure" -> BlockRegistries
          [] n = "registries-block" -> BlockRegistries
  <2>1. /\ value("no-cache") = "noCache" /\ value("pull") = "forcePull"
        /\ value("dockerfile") = "dockerfilePath" /\ value("build-args") = "buildArgs"
        /\ value("squash") = "skipLayers" /\ value("scripts-url") = "scripts"
        /\ value("incremental") = "incremental" /\ value("pull-policy") = "forcePull"
        /\ value("registries-search") = SearchRegistries
        /\ value("registries-insecure") = BlockRegistries
        /\ value("registries-block") = BlockRegistries
    OBVIOUS
  <2> HIDE DEF value
  <2>2. \A p \in FieldPart(bc) \cup RegistryParams :
          /\ p.name \notin {"runtime-stage-from", "builder-image"}
          /\ p = Param(p.name, value(p.name))
    <3> TAKE p \in FieldPart(bc) \cup RegistryParams
    <3>1. CASE p \in FieldPart(bc)
      BY <3>1, <2>1, <1>p, FieldPartIs
    <3>2. CASE p \in RegistryParams
      BY <3>2, <2>1, <1>p, RegistryParamsAre
    <3> QED
      BY <3>1, <3>2
  <2> QED
    BY <2>2
<1>7. FromParamName(bc) \in {"runtime-stage-from", "builder-image"}
  BY DEF FromParamName
<1>8. \A p, q \in build.params : p.name = q.name => p = q
  <2> TAKE p, q \in build.params
  <2>1. CASE p \in P /\ q \in P
    BY <2>1, <1>3
  <2>2. CASE p \notin P /\ q \notin P
    BY <2>2, <1>2, <1>6
  <2>3. CASE p \in P <=> q \notin P
    BY <2>3, <1>2, <1>3, <1>6, <1>7
  <2> QED
    BY <2>1, <2>2, <2>3
<1>9. \A p \in build.params :
        p.name = FromParamName(bc) /\ Convertible(bc) => OnceResolved(bc.from, p.value)
  BY <1>2, <1>3, <1>6, <1>7
<1>10. {p.name : p \in build.params} = ExpectedParams(bc)
  <2> DEFINE names == {p.name : p \in build.params}
  <2>1. \A n : n \in names <=> n \in ExpectedParams(bc)
    BY <1>5
  <2>2. names \subseteq ExpectedParams(bc) /\ ExpectedParams(bc) \subseteq names
    BY <2>1
  <2> QED
    BY <2>2
<1>11. FromParamName(bc) = BaseParam(bc)
  BY DEF FromParamName, BaseParam
<1>12. build.env = (IF Convertible(bc) /\ bc.env THEN <<"strategy">> ELSE <<>>)
             \o (IF bc.source.kinds = {"git"} /\ bc.source.proxy THEN <<"proxy">> ELSE <<>>)
  <2>1. build.env = StrategyEnv(bc) \o ProxyEnv(bc)
    BY <1>1 DEF FieldsSoFar
  <2> QED
    BY <2>1 DEF StrategyEnv, ProxyEnv
<1>13. SourceFits(bc, build.source) /\ ImageFits(bc, build.image) /\ build.push = bc.push
  BY <1>1 DEF FieldsSoFar
<1> QED
  BY <1>8, <1>9, <1>10, <1>11, <1>12, <1>13 DEF IsTranslation

\* Later changes of a tag leave a translation one.
LEMMA TranslationKept ==
  ASSUME CountInv, [Next]_vars, NEW c, c.from.kind = "ImageStreamTag" => c.from.ref \in Refs
  PROVE  \A b : IsTranslation(c, b) => IsTranslation(c, b)'
<1>1. \A image : OnceResolved(c.from, image) => OnceResolved(c.from, image)'
  <2>1. ASSUME NEW r \in Refs, ChangeTag(r)
        PROVE  \A image : OnceResolved(c.from, image) => OnceResolved(c.from, image)'
    BY <2>1, ChangedImage
  <2>2. CASE reference' = reference
    BY <2>2 DEF OnceResolved, Resolved
  <2>3. reference' = reference \/ \E r \in Refs : ChangeTag(r)
    BY DEF Next, Step, Crash, Start, StartFails, CreateExport, WriteExport, ExportFails,
       EndExports, NextBuildConfig, From, FromFails, FromPanics, PullSecret, PullSecretFails,
       CreateAccount, WriteAccount, AccountFails, StrategyParams, Source, SourcePanics,
       OutputPanics, CreateBuild, WriteBuild, WriteBuildFails, EditSecret, cluster, vars
  <2> QED
    BY <2>1, <2>2, <2>3
<1>2. ExpectedParams(c)' = ExpectedParams(c)
  BY DEF ExpectedParams, BaseParam, Convertible
<1> QED
  BY <1>1, <1>2 DEF IsTranslation, BaseParam, Convertible, SourceFits, ImageFits

\* A Build file of a name is that of the call noted for it, so a call that only lists
\* the BuildConfigs anew says nothing of it.
LEMMA ListsKept ==
  ASSUME CountInv, CallInv, [Next]_vars
  PROVE  /\ \A k \in 0..runs : lists'[k] = lists[k]
         /\ runs' \in Nat /\ runs <= runs'
         /\ \A n \in Names : written[n] \in 0..runs
<1>1. \A n \in Names : written[n] \in 0..runs
  BY DEF CallInv
<1>2. runs \in Nat /\ lists \in [0..MaxRuns -> Lists \cup {<<>>}]
  BY DEF CountInv, CallInv
<1>3. CASE Start
  <2>1. runs' = runs + 1 /\ lists' = [lists EXCEPT ![runs + 1] = bcs']
    BY <1>3 DEF Start
  <2> QED
    BY <1>1, <1>2, <2>1
<1>4. CASE ~Start
  <2>1. lists' = lists
    BY <1>4, ListKept
  <2>2. runs' = runs \/ runs' = runs + 1
    BY <1>4 DEF Next, Step, Crash, StartFails, CreateExport, WriteExport, ExportFails, EndExports,
       NextBuildConfig, From, FromFails, FromPanics, PullSecret, PullSecretFails, CreateAccount,
       WriteAccount, AccountFails, StrategyParams, Source, SourcePanics, OutputPanics,
       CreateBuild, WriteBuild, WriteBuildFails, ChangeTag, EditSecret, counts, vars
  <2> QED
    BY <1>1, <1>2, <2>1, <2>2
<1> QED
  BY <1>3, <1>4

LEMMA TranslationStep ==
  ASSUME TypeInv, BuildInv, BuildIsTranslation, [Next]_vars
  PROVE  BuildIsTranslation'
<1>1. /\ PlaceInv /\ CountInv /\ CallInv /\ DOMAIN builds = Names
      /\ written \in [Names -> 0..runs] /\ runs \in 0..MaxRuns
  BY DEF TypeInv, FileInv, CallInv, CountInv
<1>2. \A n \in Names : Entries(lists'[written[n]]) = Entries(lists[written[n]])
  BY <1>1, ListsKept DEF Entries
<1>3. \A n \in Names : \A c \in Entries(lists[written[n]]) : \A b :
        IsTranslation(c, b) => IsTranslation(c, b)'
  <2> TAKE n \in Names
  <2>1. written[n] \in 0..MaxRuns
    BY <1>1, BoundsAssumption
  <2>2. \A c \in Entries(lists[written[n]]) : c.from.kind = "ImageStreamTag" => c.from.ref \in Refs
    BY <1>1, <2>1, CallListed
  <2> QED
    BY <1>1, <2>2, TranslationKept
<1>4. \A n \in Names : \A b : b = builds[n] /\ Whole(b) =>
        \E c \in Entries(lists'[written[n]]) : c.name = n /\ IsTranslation(c, b)'
  <2> TAKE n \in Names
  <2> TAKE b
  <2> HAVE b = builds[n] /\ Whole(b)
  <2>1. PICK c \in Entries(lists[written[n]]) : c.name = n /\ IsTranslation(c, b)
    BY DEF BuildIsTranslation
  <2> QED
    BY <1>2, <1>3, <2>1
<1>5. ASSUME NEW n \in Names, builds'[n] = builds[n], written'[n] = written[n], Whole(builds'[n])
      PROVE  \E c \in Entries(lists'[written'[n]]) : c.name = n /\ IsTranslation(c, builds[n])'
  <2>1. PICK b : b = builds[n] /\ b = builds'[n]
    BY <1>5
  <2> QED
    BY <1>4, <1>5, <2>1
<1>6. CASE CreateBuild
  <2>1. /\ builds' = [builds EXCEPT ![bc.name] = Torn] /\ ~Whole(Torn)
        /\ written' = [written EXCEPT ![bc.name] = runs]
    BY <1>6 DEF CreateBuild, Whole
  <2>2. \A n \in Names : Whole(builds'[n]) => builds'[n] = builds[n] /\ written'[n] = written[n]
    BY <1>1, <2>1
  <2> QED
    BY <1>5, <2>2 DEF BuildIsTranslation
<1>7. CASE WriteBuild
  <2>1. /\ builds' = [builds EXCEPT ![bc.name] = build] /\ pc = "buildWrite"
        /\ written' = written /\ lists' = lists
    BY <1>7 DEF WriteBuild, files, counts
  <2>2. /\ pos \in DOMAIN bcs /\ bc = bcs[pos] /\ IsTranslation(bc, build)
        /\ bc.from.kind = "ImageStreamTag" => bc.from.ref \in Refs
    BY <1>1, <2>1, AtListed, BuildTranslates DEF InLoop, bc
  <2>3. written[bc.name] = runs /\ bc \in Entries(lists[runs])
    BY <1>1, <2>1, <2>2 DEF CallInv, Entries
  <2>4. PICK c, b : c = bc /\ b = build
    OBVIOUS
  <2>5. IsTranslation(c, b)'
    BY <1>1, <2>2, <2>4, TranslationKept
  <2>6. ASSUME NEW n \in Names, n = bc.name
        PROVE  \E d \in Entries(lists'[written'[n]]) : d.name = n /\ IsTranslation(d, builds[n])'
    <3>1. builds'[n] = b /\ c \in Entries(lists'[written'[n]]) /\ c.name = n
      BY <1>1, <2>1, <2>3, <2>4, <2>6
    <3> QED
      BY <2>5, <3>1
  <2>7. \A n \in Names : n # bc.name => builds'[n] = builds[n] /\ written'[n] = written[n]
    BY <1>1, <2>1
  <2> QED
    BY <1>5, <2>6, <2>7 DEF BuildIsTranslation
<1>8. (builds' = builds /\ written' = written) \/ CreateBuild \/ WriteBuild
  BY OtherFilesKept DEF CreateBuild, WriteBuild, files
<1>9. CASE builds' = builds /\ written' = written
  BY <1>5, <1>9 DEF BuildIsTranslation
<1> QED
  BY <1>6, <1>7, <1>8, <1>9

-----------------------------------------------------------------------------
(* What a call that goes on, or that succeeded, has left behind. *)

LEMMA ExportStep ==
  ASSUME TypeInv, ExportInv, [Next]_vars
  PROVE  ExportInv'
<1>1. /\ PlaceInv /\ DOMAIN exports = Names /\ Len(bcs) \in Nat /\ DOMAIN bcs = 1..Len(bcs)
      /\ \A i \in DOMAIN bcs : bcs[i].name \in Names
      /\ \A i, j \in DOMAIN bcs : bcs[i].name = bcs[j].name => i = j
  BY Listed DEF TypeInv, PlaceInv, FileInv
<1>k. ASSUME bcs' = bcs, exports' = exports, Saved' \subseteq Saved,
             \A n : <<"export", n>> \notin quiet' => <<"export", n>> \notin quiet
      PROVE  ExportInv'
  BY <1>k DEF ExportInv, Exported
<1>2. CASE Start \/ StartFails \/ FromFails \/ PullSecretFails \/ AccountFails \/ Panics \/ Crash
  <2>1. (pc' = "export" /\ pos' = 1) \/ (pc' = "idle" /\ result' # "ok")
    BY <1>2 DEF Start, StartFails, FromFails, PullSecretFails, AccountFails, Panics, FromPanics,
       SourcePanics, OutputPanics, Crash, ReturnError, Return
  <2>2. Saved' = {}
    BY <2>1 DEF Saved
  <2> QED
    BY <2>2 DEF ExportInv
<1>3. CASE CreateExport \/ WriteExport \/ ExportFails
  <2>1. /\ pc \in {"export", "exportWrite"} /\ pos \in 1..Len(bcs) /\ bcs' = bcs
        /\ pc' \in {"export", "exportWrite"}
    BY <1>1, <1>3 DEF CreateExport, WriteExport, ExportFails, PlaceInv, cluster
  <2>2. /\ pos \in DOMAIN bcs /\ bc.name \in Names /\ bc = bcs[pos]
        /\ \A i \in 1..pos - 1 : i \in DOMAIN bcs /\ bcs[i].name # bc.name
    BY <1>1, <2>1 DEF bc
  <2>3. \A i \in 1..pos - 1 : Exported(bcs[i])
    BY <2>1 DEF ExportInv, Saved
  <2>4. Saved' = 1..pos' - 1
    BY <2>1 DEF Saved
  <2>5. CASE CreateExport
    <3>1. exports' = [exports EXCEPT ![bc.name] = Torn] /\ quiet' = quiet /\ pos' = pos
      BY <2>5 DEF CreateExport
    <3>2. \A i \in 1..pos - 1 : exports'[bcs[i].name] = exports[bcs[i].name]
      BY <1>1, <2>2, <3>1
    <3> QED
      BY <2>1, <2>3, <2>4, <3>1, <3>2 DEF ExportInv, Exported
  <2>6. CASE WriteExport
    <3>1. exports' = [exports EXCEPT ![bc.name] = bc] /\ quiet' = quiet /\ pos' = pos + 1
      BY <2>6 DEF WriteExport
    <3>2. \A i \in 1..pos - 1 : exports'[bcs[i].name] = exports[bcs[i].name]
      BY <1>1, <2>2, <3>1
    <3>3. exports'[bcs[pos].name] = bcs[pos]
      BY <1>1, <2>2, <3>1
    <3>4. \A i \in 1..pos' - 1 : i \in 1..pos - 1 \/ i = pos
      BY <2>1, <3>1
    <3> QED
      BY <2>1, <2>3, <2>4, <3>1, <3>2, <3>3, <3>4 DEF ExportInv, Exported
  <2>7. CASE ExportFails
    <3>1. /\ exports' = exports /\ quiet' = quiet \cup {<<"export", bc.name>>} /\ pos' = pos + 1
      BY <2>7 DEF ExportFails, files
    <3>4. \A i \in 1..pos' - 1 : i \in 1..pos - 1 \/ i = pos
      BY <2>1, <3>1
    <3> QED
      BY <2>1, <2>2, <2>3, <2>4, <3>1, <3>4 DEF ExportInv, Exported
  <2> QED
    BY <1>3, <2>5, <2>6, <2>7
<1>4. CASE EndExports
  <2>1. pc = "export" /\ pos > Len(bcs) /\ bcs' = bcs /\ UNCHANGED <<exports, quiet>> /\ pc' = "next"
    BY <1>4 DEF EndExports, cluster, files
  <2>2. Saved = DOMAIN bcs /\ Saved' = DOMAIN bcs
    BY <1>1, <2>1 DEF Saved, PlaceInv
  <2> QED
    BY <1>k, <2>1, <2>2
<1>5. CASE NextBuildConfig \/ From \/ PullSecret \/ CreateAccount \/ WriteAccount
           \/ StrategyParams \/ Source \/ CreateBuild \/ WriteBuild \/ WriteBuildFails
  <2>1. /\ exports' = exports /\ pc \notin {"idle", "export", "exportWrite"} /\ bcs' = bcs
        /\ pc' \notin {"export", "exportWrite"}
        /\ quiet' = quiet \/ quiet' = quiet \cup {<<"build", bc.name>>}
    BY <1>5 DEF NextBuildConfig, From, PullSecret, CreateAccount, WriteAccount, StrategyParams,
       Source, CreateBuild, WriteBuild, WriteBuildFails, Return, files, cluster
  <2>2. Saved' \subseteq Saved
    BY <2>1 DEF Saved
  <2> QED
    BY <1>k, <2>1, <2>2
<1>6. CASE (\E r \in Refs : ChangeTag(r)) \/ (\E s \in Secrets : EditSecret(s)) \/ UNCHANGED vars
  <2>1. UNCHANGED <<bcs, exports, quiet, pc, pos, result>>
    BY <1>6 DEF ChangeTag, EditSecret, files, cluster, vars
  <2>2. Saved' = Saved
    BY <2>1 DEF Saved
  <2> QED
    BY <1>k, <2>1, <2>2
<1> QED
  BY <1>2, <1>3, <1>4, <1>5, <1>6 DEF Next, Step, Panics

\* How the steps move the set of the BuildConfigs done with: they empty it, keep
\* it, or add the one the loop is at.
LEMMA DoneMoves ==
  ASSUME PlaceInv, [Next]_vars
  PROVE  /\ Done \subseteq DOMAIN bcs
         /\ InLoop => Done = 1..pos - 1 /\ pos \notin Done
         /\ WriteBuild \/ WriteBuildFails => InLoop /\ Done' = Done \cup {pos}
         /\ ~(WriteBuild \/ WriteBuildFails) => Done' \in {{}, Done}
         /\ Start \/ StartFails => Done' = {}
<1>1. Len(bcs) \in Nat /\ DOMAIN bcs = 1..Len(bcs)
  BY Listed DEF PlaceInv
<1>2. Done \subseteq DOMAIN bcs /\ (InLoop => Done = 1..pos - 1 /\ pos \notin Done /\ pos \in Nat)
  BY <1>1 DEF PlaceInv, Done, InLoop
<1>3. CASE WriteBuild \/ WriteBuildFails
  <2>1. InLoop /\ pc' = "next" /\ pos' = pos /\ ~Start /\ ~StartFails
    BY <1>3 DEF WriteBuild, WriteBuildFails, InLoop, Start, StartFails
  <2>2. Done' = 1..pos /\ Done = 1..pos - 1
    BY <1>2, <2>1 DEF Done, InLoop
  <2>3. pos \in Nat \ {0}
    BY <1>1, <2>1 DEF PlaceInv
  <2>4. 1..pos = (1..pos - 1) \cup {pos}
    BY <2>3
  <2> QED
    BY <1>2, <1>3, <2>1, <2>2, <2>4
<1>4. CASE /\ ~(WriteBuild \/ WriteBuildFails)
           /\ \/ Start \/ StartFails \/ Exporting
              \/ FromFails \/ PullSecretFails \/ AccountFails \/ Panics \/ Crash
  <2>1. \/ pc' \in {"export", "exportWrite"}
        \/ pc' = "next" /\ pos' = 0
        \/ pc' = "idle" /\ result' # "ok"
    BY <1>4 DEF Start, StartFails, Exporting, CreateExport, WriteExport, ExportFails, EndExports,
       FromFails, PullSecretFails, AccountFails, Panics, FromPanics, SourcePanics, OutputPanics,
       Crash, ReturnError, Return
  <2>2. Done' = {}
    BY <2>1 DEF Done, InLoop
  <2> QED
    BY <1>2, <1>4, <2>2
<1>6. CASE NextBuildConfig
  <2>1. Done = 1..pos /\ pc = "next" /\ pos \in 0..Len(bcs) /\ bcs' = bcs
    BY <1>6 DEF NextBuildConfig, Done, InLoop, PlaceInv, cluster
  <2>2. Done' = Done
    <3>1. CASE pos = Len(bcs) /\ Return("ok")
      BY <1>1, <2>1, <3>1 DEF Return, Done, InLoop
    <3>2. CASE pos' = pos + 1 /\ pc' = (IF Convertible(bcs[pos + 1]) THEN "from" ELSE "source")
      BY <2>1, <3>2 DEF Done, InLoop
    <3> QED
      BY <1>6, <3>1, <3>2 DEF NextBuildConfig
  <2> QED
    BY <1>2, <2>1, <2>2 DEF WriteBuild, WriteBuildFails, Start, StartFails
<1>7. CASE From \/ PullSecret \/ CreateAccount \/ WriteAccount \/ StrategyParams \/ Source
           \/ CreateBuild
  <2>1. InLoop /\ pc' \notin {"idle", "export", "exportWrite", "next"} /\ pos' = pos
    BY <1>7 DEF From, PullSecret, CreateAccount, WriteAccount, StrategyParams, Source,
       CreateBuild, InLoop
  <2>2. Done' = Done
    BY <1>2, <2>1 DEF Done, InLoop
  <2>3. ~(WriteBuild \/ WriteBuildFails) /\ ~Start /\ ~StartFails
    BY <2>1 DEF WriteBuild, WriteBuildFails, Start, StartFails, InLoop
  <2> QED
    BY <1>2, <2>2, <2>3
<1>8. CASE /\ ~(WriteBuild \/ WriteBuildFails)
           /\ \/ \E r \in Refs : ChangeTag(r)
              \/ \E s \in Secrets : EditSecret(s)
              \/ UNCHANGED vars
  <2>1. UNCHANGED <<bcs, pos, pc, result, runs>>
    BY <1>8 DEF ChangeTag, EditSecret, cluster, counts, vars
  <2>2. Done' = Done
    BY <2>1 DEF Done, InLoop
  <2>3. Start => Done' = {}
    BY <2>1 DEF Start
  <2>4. StartFails => Done' = {}
    BY DEF StartFails, Done, InLoop
  <2> QED
    BY <1>2, <1>8, <2>2, <2>3, <2>4
<1> QED
  BY <1>3, <1>4, <1>6, <1>7, <1>8 DEF Next, Step, Exporting, Panics

\* A BuildConfig done with stays so unless the loop is at it.
LEMMA ConvertedKept ==
  ASSUME TypeInv, [Next]_vars, ~Start, ~StartFails, NEW i \in DOMAIN bcs, Converted(bcs[i]),
         ~Exporting, InLoop => i # pos
  PROVE  Converted(bcs[i])'
<1>1. /\ bcs' = bcs /\ PlaceInv /\ CountInv /\ DOMAIN builds = Names
      /\ \A j \in DOMAIN bcs : bcs[j].name \in Names
      /\ \A j, k \in DOMAIN bcs : bcs[j].name = bcs[k].name => j = k
      /\ (bcs[i].from.kind = "ImageStreamTag" => bcs[i].from.ref \in Refs)
  BY Listed, ListKept DEF TypeInv, PlaceInv, FileInv
<1>2. <<"build", bcs[i].name>> \notin quiet' => <<"build", bcs[i].name>> \notin quiet
  BY DEF Next, Step, Crash, Exporting, NextBuildConfig, From, FromFails, FromPanics, PullSecret,
     PullSecretFails, CreateAccount, WriteAccount, AccountFails, StrategyParams, Source,
     SourcePanics, OutputPanics, CreateBuild, WriteBuild, WriteBuildFails, ChangeTag, EditSecret,
     Return, ReturnError, vars
<1>3. builds'[bcs[i].name] = builds[bcs[i].name]
  <2>1. CASE CreateBuild \/ WriteBuild
    <3>1. pos \in DOMAIN bcs /\ i # pos /\ bc = bcs[pos]
      BY <1>1, <2>1, AtListed DEF CreateBuild, WriteBuild, InLoop, bc
    <3> QED
      BY <1>1, <2>1, <3>1 DEF CreateBuild, WriteBuild
  <2> QED
    BY <2>1, OtherFilesKept
<1>4. bcs[i].from.kind = "ImageStreamTag" /\ bcs[i].from.ref \notin stale' =>
        bcs[i].from.ref \notin stale /\ Resolved(bcs[i].from)' = Resolved(bcs[i].from)
  <2>1. ASSUME NEW r \in Refs, ChangeTag(r), bcs[i].from.kind = "ImageStreamTag",
               bcs[i].from.ref \notin stale'
        PROVE  bcs[i].from.ref \notin stale /\ Resolved(bcs[i].from)' = Resolved(bcs[i].from)
    <3>1. /\ reference \in [Refs -> Nat] /\ stale' = stale \cup {r}
          /\ reference' \in {reference, [reference EXCEPT ![r] = reference[r] + 1]}
      BY <1>1, <2>1 DEF CountInv, ChangeTag
    <3>2. reference'[bcs[i].from.ref] = reference[bcs[i].from.ref]
      BY <1>1, <2>1, <3>1
    <3> QED
      BY <1>1, <2>1, <3>1, <3>2 DEF Resolved
  <2>2. UNCHANGED <<reference, stale>> \/ \E r \in Refs : ChangeTag(r)
    BY DEF Next, Step, Crash, Exporting, NextBuildConfig, From, FromFails, FromPanics, PullSecret,
       PullSecretFails, CreateAccount, WriteAccount, AccountFails, StrategyParams, Source,
       SourcePanics, OutputPanics, CreateBuild, WriteBuild, WriteBuildFails, EditSecret,
       Return, ReturnError, cluster, vars
  <2> QED
    BY <1>1, <2>1, <2>2 DEF Resolved
<1>5. PICK c, b : c = bcs[i] /\ b = builds[bcs[i].name]
  OBVIOUS
<1>6. IsTranslation(c, b) => IsTranslation(c, b)'
  BY <1>1, <1>5, TranslationKept
<1>7. IsTranslation(bcs[i], builds[bcs[i].name]) => IsTranslation(bcs[i], builds[bcs[i].name])'
  <2>1. IsTranslation(c, b)' => IsTranslation(bcs[i], builds[bcs[i].name])'
    BY <1>1, <1>3, <1>5
  <2> QED
    BY <1>5, <1>6, <2>1
<1> QED
  BY <1>1, <1>2, <1>3, <1>4, <1>7 DEF Converted, Convertible, BaseParam, Param

LEMMA DoneStep ==
  ASSUME TypeInv, BuildInv, DoneInv, [Next]_vars
  PROVE  DoneInv'
<1>1. PlaceInv /\ CountInv /\ DOMAIN builds = Names
  BY DEF TypeInv, FileInv
<1>2. \A i \in Done : i \in DOMAIN bcs /\ (InLoop => i # pos) /\ Converted(bcs[i])
  BY <1>1, DoneMoves DEF DoneInv
<1>3. CASE Start \/ StartFails
  <2>1. Done' = {}
    BY <1>1, <1>3, DoneMoves
  <2> QED
    BY <2>1 DEF DoneInv
<1>4. CASE Exporting
  <2>1. pc' \in {"export", "exportWrite"} \/ (pc' = "next" /\ pos' = 0)
    BY <1>4 DEF Exporting, CreateExport, WriteExport, ExportFails, EndExports
  <2>2. Done' = {}
    BY <2>1 DEF Done, InLoop
  <2> QED
    BY <2>2 DEF DoneInv
<1>5. CASE ~Start /\ ~StartFails /\ ~Exporting
  <2>0. bcs' = bcs
    BY <1>5, ListKept
  <2>1. \A i \in Done : Converted(bcs[i])'
    BY <1>2, <1>5, ConvertedKept
  <2>2. CASE WriteBuild
    <3>1. /\ pc = "buildWrite" /\ builds' = [builds EXCEPT ![bc.name] = build] /\ bcs[pos] = bc
          /\ UNCHANGED <<tags, reference, stale, pos>> /\ bcs'[pos] = bc
      BY <2>2 DEF WriteBuild, bc, cluster
    <3>2. /\ build \in Builds /\ ParamsSoFar(bc) /\ bc.name \in Names /\ IsTranslation(bc, build)
          /\ bc.from.kind = "ImageStreamTag" => bc.from.ref \in Refs
      BY <1>1, <3>1, AtListed, BuildTranslates DEF BuildInv, InLoop
    <3>3. bc.from.kind = "ImageStreamTag" /\ Convertible(bc) /\ bc.from.ref \notin stale =>
            Param(BaseParam(bc), Resolved(bc.from)) \in build.params
      <4>1. \E P : FromPart(bc, P) /\ P \subseteq build.params
        BY <3>1, <3>2 DEF ParamsSoFar
      <4>2. FromParamName(bc) = BaseParam(bc)
        BY DEF FromParamName, BaseParam
      <4> QED
        BY <4>1, <4>2 DEF FromPart, BaseImage
    <3>5. PICK c, b : c = bc /\ b = build
      OBVIOUS
    <3>6. IsTranslation(c, b)'
      BY <1>1, <3>2, <3>5, TranslationKept
    <3>7. bcs'[pos] = c /\ builds'[c.name] = b
      BY <1>1, <3>1, <3>2, <3>5
    <3>8. Resolved(c.from)' = Resolved(c.from)
      BY <3>1 DEF Resolved
    <3>4. Converted(bcs[pos])'
      <4>1. Converted(c)'
        BY <3>1, <3>2, <3>3, <3>5, <3>6, <3>7, <3>8 DEF Converted, Convertible, BaseParam, Param
      <4> QED
        BY <3>1, <3>7, <4>1
    <3> QED
      BY <1>1, <2>0, <2>1, <2>2, <3>1, <3>4, DoneMoves DEF DoneInv
  <2>3. CASE WriteBuildFails
    <3>1. <<"build", bcs'[pos].name>> \in quiet' /\ pos' = pos
      BY <2>0, <2>3 DEF WriteBuildFails, bc
    <3>2. Converted(bcs[pos])'
      BY <3>1 DEF Converted
    <3> QED
      BY <1>1, <2>0, <2>1, <2>3, <3>1, <3>2, DoneMoves DEF DoneInv
  <2>4. CASE ~(WriteBuild \/ WriteBuildFails)
    BY <1>1, <2>0, <2>1, <2>4, DoneMoves DEF DoneInv
  <2> QED
    BY <2>2, <2>3, <2>4
<1> QED
  BY <1>3, <1>4, <1>5

-----------------------------------------------------------------------------
(* ServiceAccounts. *)

LEMMA SharingIs ==
  ASSUME NEW i, NEW j
  PROVE  j \in Sharing(i) <=> /\ j \in DOMAIN bcs /\ HasPullSecret(bcs[j])
                              /\ AccountOf(bcs[j]) = AccountOf(bcs[i])
BY DEF Sharing, PullsSecret, AccountName, HasPullSecret, Convertible, AccountOf

\* What a step that writes no account leaves, when those it has served now bring
\* no secret.
LEMMA ServedKept ==
  ASSUME ServedInv, bcs' = bcs, accounts' = accounts, Served \subseteq Served',
         \A i \in Served' : i \in Served \/ i \notin Sharing(i),
         pc = "accountWrite" => pc' = "accountWrite" /\ pos' = pos
  PROVE  ServedInv'
<1>2. \A i : Sharing(i)' = Sharing(i)
  BY DEF Sharing, PullsSecret, AccountName
<1>3. \A i, j : j \in Sharing(i) => j \in Sharing(j)
  BY SharingIs
<1>4. \A i, j : LastServed(i, j) => LastServed(i, j)'
  BY <1>2, <1>3 DEF LastServed
<1>5. ASSUME NEW i \in Served', i \in Sharing(i)'
      PROVE  \E j \in Served' :
               /\ LastServed(i, j)'
               /\ \/ accounts'[AccountOf(bcs'[i])] = bcs'[j].pullSecret
                  \/ pc' = "accountWrite" /\ AccountOf(bcs'[i]) = AccountOf(bc')
  <2>1. i \in Served /\ i \in Sharing(i)
    BY <1>2, <1>5
  <2>2. PICK j \in Served :
          /\ LastServed(i, j)
          /\ \/ accounts[AccountOf(bcs[i])] = bcs[j].pullSecret
             \/ pc = "accountWrite" /\ AccountOf(bcs[i]) = AccountOf(bc)
    BY <2>1 DEF ServedInv
  <2> QED
    BY <1>4, <2>2 DEF bc
<1> QED
  BY <1>5 DEF ServedInv, AccountOf

LEMMA ServedStep ==
  ASSUME TypeInv, ServedInv, [Next]_vars
  PROVE  ServedInv'
<1>0. CASE Start
  <2>1. Served' = {}
    BY <1>0 DEF Start, Served, Done, InLoop
  <2> QED
    BY <2>1 DEF ServedInv
<1> SUFFICES ASSUME ~Start
             PROVE  ServedInv'
  BY <1>0
<1>1. /\ PlaceInv /\ bcs' = bcs /\ Len(bcs) \in Nat /\ DOMAIN bcs = 1..Len(bcs)
      /\ DOMAIN accounts = Accounts /\ \A i \in DOMAIN bcs : AccountOf(bcs[i]) \in Accounts
  BY Listed, ListKept DEF TypeInv, PlaceInv, FileInv
<1>2. CASE StartFails \/ Exporting \/ FromFails \/ PullSecretFails \/ AccountFails
           \/ Panics \/ Crash
  <2>1. \/ pc' \in {"export", "exportWrite"}
        \/ pc' = "next" /\ pos' = 0
        \/ pc' = "idle" /\ result' # "ok"
    BY <1>2 DEF StartFails, Exporting, CreateExport, WriteExport, ExportFails, EndExports,
       FromFails, PullSecretFails, AccountFails, Panics, FromPanics, SourcePanics, OutputPanics,
       Crash, ReturnError, Return
  <2>2. Served' = {}
    BY <2>1 DEF Served, Done, InLoop
  <2> QED
    BY <2>2 DEF ServedInv
<1>3. CASE NextBuildConfig
  <2>0. pc = "next" /\ accounts' = accounts
    BY <1>3 DEF NextBuildConfig, files
  <2>1. pc = "next" /\ Served = 1..pos /\ accounts' = accounts /\ pos \in 0..Len(bcs)
    BY <1>1, <2>0 DEF Served, Done, InLoop, PlaceInv
  <2>2. CASE pos = Len(bcs) /\ Return("ok")
    <3>1. Served' = Served
      BY <1>1, <2>1, <2>2 DEF Return, Served, Done, InLoop
    <3> QED
      BY <1>1, <2>1, <3>1, ServedKept
  <2>3. CASE pos < Len(bcs) /\ pos' = pos + 1 /\ Convertible(bcs[pos + 1]) /\ pc' = "from"
    <3>1. Served' = Served
      BY <2>1, <2>3 DEF Served, Done, InLoop
    <3> QED
      BY <1>1, <2>1, <3>1, ServedKept
  <2>4. CASE pos < Len(bcs) /\ pos' = pos + 1 /\ ~Convertible(bcs[pos + 1]) /\ pc' = "source"
    <3>1. Served' = 1..pos + 1
      BY <2>4 DEF Served
    <3>2. Served \subseteq Served' /\ \A i \in Served' : i \in Served \/ i = pos + 1
      BY <2>1, <3>1
    <3>3. pos + 1 \notin Sharing(pos + 1)
      BY <2>4, SharingIs DEF HasPullSecret
    <3> QED
      BY <1>1, <2>1, <3>2, <3>3, ServedKept
  <2> QED
    BY <1>3, <2>2, <2>3, <2>4 DEF NextBuildConfig
<1>4. CASE PullSecret
  <2>0. pc = "secret" /\ accounts' = accounts /\ pos' = pos
    BY <1>4 DEF PullSecret, files
  <2>1. /\ pc = "secret" /\ Served = 1..pos - 1 /\ accounts' = accounts /\ pos \in 1..Len(bcs)
        /\ pos' = pos
    BY <1>1, <2>0 DEF Served, Done, PlaceInv, InLoop
  <2>2. CASE HasPullSecret(bc)
    <3>1. Served' = Served
      BY <1>4, <2>1, <2>2 DEF PullSecret, Served, Done, InLoop
    <3> QED
      BY <1>1, <2>1, <3>1, ServedKept
  <2>3. CASE ~HasPullSecret(bc)
    <3>1. Served' = 1..pos
      BY <1>4, <2>1, <2>3 DEF PullSecret, Served
    <3>2. Served \subseteq Served' /\ \A i \in Served' : i \in Served \/ i = pos
      BY <2>1, <3>1
    <3>3. pos \notin Sharing(pos)
      BY <2>3, SharingIs DEF bc
    <3> QED
      BY <1>1, <2>1, <3>2, <3>3, ServedKept
  <2> QED
    BY <2>2, <2>3
<1>5. CASE CreateAccount
  <2>1. /\ pc = "account" /\ pc' = "accountWrite" /\ pos' = pos /\ bc' = bc
        /\ accounts' = [accounts EXCEPT ![AccountOf(bc)] = Torn]
        /\ Served' = Served /\ Served \subseteq DOMAIN bcs
    BY <1>1, <1>5, DoneMoves DEF CreateAccount, Served, Done, InLoop, bc
  <2>2. \A i : Sharing(i)' = Sharing(i)
    BY <1>1 DEF Sharing, PullsSecret, AccountName
  <2>3. ASSUME NEW i \in Served, i \in Sharing(i)
        PROVE  \E j \in Served :
                 /\ LastServed(i, j)'
                 /\ \/ accounts'[AccountOf(bcs[i])] = bcs[j].pullSecret
                    \/ AccountOf(bcs[i]) = AccountOf(bc)
    <3>1. PICK j \in Served : LastServed(i, j) /\ accounts[AccountOf(bcs[i])] = bcs[j].pullSecret
      BY <2>1, <2>3 DEF ServedInv
    <3>2. LastServed(i, j)'
      BY <2>1, <2>2, <3>1 DEF LastServed
    <3>3. AccountOf(bcs[i]) # AccountOf(bc) =>
            accounts'[AccountOf(bcs[i])] = accounts[AccountOf(bcs[i])]
      BY <1>1, <2>1
    <3> QED
      BY <3>1, <3>2, <3>3
  <2> QED
    BY <1>1, <2>1, <2>2, <2>3 DEF ServedInv, AccountOf
<1>6. CASE WriteAccount
  <2>1. /\ pc = "accountWrite" /\ pc' = "params" /\ pos' = pos /\ bc' = bc
        /\ accounts' = [accounts EXCEPT ![AccountOf(bc)] = bc.pullSecret]
        /\ Served = 1..pos - 1 /\ Served' = 1..pos /\ pos \in 1..Len(bcs) /\ HasPullSecret(bc)
    BY <1>1, <1>6 DEF WriteAccount, Served, Done, InLoop, bc, PlaceInv
  <2>2. \A i : Sharing(i)' = Sharing(i)
    BY <1>1 DEF Sharing, PullsSecret, AccountName
  <2>3. ASSUME NEW i \in Served', i \in Sharing(i)
        PROVE  \E j \in Served' :
                 LastServed(i, j)' /\ accounts'[AccountOf(bcs[i])] = bcs[j].pullSecret
    <3>1. CASE AccountOf(bcs[i]) = AccountOf(bc)
      <4>1. PICK j \in Served' : j = pos /\ j \in Sharing(i) /\ \A k \in Served' : k <= j
        BY <1>1, <2>1, <3>1, SharingIs DEF bc
      <4>2. LastServed(i, j)'
        BY <2>2, <4>1 DEF LastServed
      <4>3. accounts'[AccountOf(bcs[i])] = bcs[j].pullSecret
        BY <1>1, <2>1, <3>1, <4>1 DEF bc
      <4> QED
        BY <4>1, <4>2, <4>3
    <3>2. CASE AccountOf(bcs[i]) # AccountOf(bc)
      <4>1. i \in Served /\ pos \notin Sharing(i)
        BY <2>1, <3>2, SharingIs DEF bc
      <4>2. PICK j \in Served : LastServed(i, j) /\ accounts[AccountOf(bcs[i])] = bcs[j].pullSecret
        BY <2>3, <3>2, <4>1 DEF ServedInv
      <4>3. \A k \in Sharing(i) : k \in Served' <=> k \in Served
        BY <2>1, <4>1
      <4>4. LastServed(i, j)'
        BY <2>2, <4>2, <4>3 DEF LastServed
      <4>5. accounts'[AccountOf(bcs[i])] = accounts[AccountOf(bcs[i])]
        BY <1>1, <2>1, <3>2
      <4>6. j \in Served'
        BY <2>1
      <4> QED
        BY <4>2, <4>4, <4>5, <4>6
    <3> QED
      BY <3>1, <3>2
  <2> QED
    <3>1. \A i : AccountOf(bcs[i])' = AccountOf(bcs[i])
      BY <1>1 DEF AccountOf
    <3> QED
      BY <1>1, <2>2, <2>3, <3>1 DEF ServedInv
<1>7. CASE From \/ StrategyParams \/ Source \/ CreateBuild \/ WriteBuild \/ WriteBuildFails
  <2>1. accounts' = accounts /\ pos' = pos /\ pc # "accountWrite" /\ bcs' = bcs
    BY <1>7 DEF From, StrategyParams, Source, CreateBuild, WriteBuild, WriteBuildFails, files,
       cluster
  <2>2. Served' = Served
    BY <1>7, <2>1 DEF From, StrategyParams, Source, CreateBuild, WriteBuild, WriteBuildFails,
       Served, Done, InLoop
  <2> QED
    BY <1>1, <2>1, <2>2, ServedKept
<1>8. CASE (\E r \in Refs : ChangeTag(r)) \/ (\E s \in Secrets : EditSecret(s)) \/ UNCHANGED vars
  <2>1. UNCHANGED <<bcs, accounts, pos, pc, result>>
    BY <1>8 DEF ChangeTag, EditSecret, files, cluster, vars
  <2>2. Served' = Served
    BY <1>1, <2>1 DEF Served, Done, InLoop
  <2> QED
    BY <1>1, <2>1, <2>2, ServedKept
<1> QED
  BY <1>2, <1>3, <1>4, <1>5, <1>6, <1>7, <1>8 DEF Next, Step, Exporting, Panics

\* The account of a BuildConfig stays that of a call that used it, and the one just
\* written becomes one.
LEMMA GoodKept ==
  ASSUME TypeInv, [Next]_vars, NEW c, AccountName(c) \in Accounts, NEW k \in 0..runs,
         GoodAccount(c, k) \/ (WriteAccount /\ c = bc)
  PROVE  GoodAccount(c, k)'
<1>1. /\ PlaceInv /\ CountInv /\ CallInv /\ DOMAIN accounts = Accounts /\ runs \in Nat
  BY DEF TypeInv, FileInv, CountInv
<1>2. \A m \in k..runs : m \in k..runs' /\ Entries(lists'[m]) = Entries(lists[m])
  BY <1>1, ListsKept DEF Entries
<1>3. SUFFICES ASSUME PullsSecret(c)
               PROVE  \E m \in k..runs : \E d \in Entries(lists[m]) :
                        /\ PullsSecret(d) /\ AccountName(d) = AccountName(c)
                        /\ accounts'[AccountName(c)] \in {Torn, d.pullSecret}
  BY <1>2 DEF GoodAccount, PullsSecret, AccountName
<1>4. CASE accounts' = accounts /\ ~WriteAccount
  BY <1>3, <1>4 DEF GoodAccount
<1>5. CASE CreateAccount
  <2>1. accounts' = [accounts EXCEPT ![AccountOf(bc)] = Torn] /\ ~WriteAccount
    BY <1>5 DEF CreateAccount, WriteAccount
  <2>2. accounts'[AccountName(c)] \in {Torn, accounts[AccountName(c)]}
    BY <1>1, <2>1
  <2> QED
    BY <1>3, <2>1, <2>2 DEF GoodAccount
<1>6. CASE WriteAccount
  <2>1. /\ accounts' = [accounts EXCEPT ![AccountOf(bc)] = bc.pullSecret] /\ HasPullSecret(bc)
        /\ pos \in DOMAIN bcs /\ bc = bcs[pos] /\ lists[runs] = bcs
    BY <1>1, <1>6, AtListed DEF WriteAccount, PlaceInv, CallInv, InLoop, bc
  <2>2. /\ PullsSecret(bc) /\ AccountOf(bc) = AccountName(bc) /\ bc \in Entries(lists[runs])
        /\ runs \in k..runs
    <3>1. PullsSecret(bc) /\ AccountOf(bc) = AccountName(bc)
      BY <2>1 DEF PullsSecret, HasPullSecret, Convertible, AccountOf, AccountName
    <3>2. bc \in Entries(lists[runs])
      BY <2>1 DEF Entries
    <3>3. k \in 0..runs => runs \in k..runs
      BY <1>1
    <3> QED
      BY <3>1, <3>2, <3>3
  <2>3. CASE AccountName(c) = AccountName(bc)
    <3>1. accounts'[AccountName(c)] = bc.pullSecret
      BY <1>1, <2>1, <2>2, <2>3
    <3> QED
      BY <2>2, <2>3, <3>1
  <2>4. CASE AccountName(c) # AccountName(bc)
    <3>1. accounts'[AccountName(c)] = accounts[AccountName(c)] /\ GoodAccount(c, k)
      BY <1>1, <2>1, <2>2, <2>4
    <3> QED
      BY <1>3, <3>1 DEF GoodAccount
  <2> QED
    BY <2>3, <2>4
<1> QED
  BY <1>4, <1>5, <1>6, OtherFilesKept

\* The loop comes to the steps after the account with a BuildConfig that needs none,
\* or with the one whose account it has written.
LEMMA AccountReached ==
  ASSUME PlaceInv, [Next]_vars, pc' \in {"params", "source", "output", "buildWrite"},
         PullsSecret(bc)'
  PROVE  /\ bc' = bc /\ runs' = runs
         /\ pc \in {"params", "source", "output", "buildWrite"} \/ WriteAccount
<1>1. PullsSecret(bc)' <=> HasPullSecret(bc')
  BY DEF PullsSecret, HasPullSecret, Convertible
<1>2. ~Start /\ ~StartFails /\ ~Exporting /\ ~FromFails /\ ~PullSecretFails /\ ~AccountFails
      /\ ~Panics /\ ~Crash /\ ~WriteBuild /\ ~WriteBuildFails /\ ~From /\ ~CreateAccount
  BY DEF Start, StartFails, Exporting, CreateExport, WriteExport, ExportFails, EndExports,
     FromFails, PullSecretFails, AccountFails, Panics, FromPanics, SourcePanics, OutputPanics,
     Crash, ReturnError, Return, WriteBuild, WriteBuildFails, From, CreateAccount
<1>3. ~NextBuildConfig
  <2>1. ASSUME NextBuildConfig
        PROVE  bc' = bcs[pos + 1] /\ ~Convertible(bcs[pos + 1])
    BY <2>1 DEF NextBuildConfig, Return, bc, cluster
  <2> QED
    BY <1>1, <2>1 DEF HasPullSecret
<1>4. ~PullSecret
  <2>1. ASSUME PullSecret
        PROVE  bc' = bc /\ ~HasPullSecret(bc)
    BY <2>1 DEF PullSecret, bc, cluster
  <2> QED
    BY <1>1, <2>1
<1>5. CASE WriteAccount \/ StrategyParams \/ Source \/ CreateBuild
  BY <1>5 DEF WriteAccount, StrategyParams, Source, CreateBuild, bc, cluster, counts
<1>6. CASE (\E r \in Refs : ChangeTag(r)) \/ (\E s \in Secrets : EditSecret(s)) \/ UNCHANGED vars
  BY <1>6 DEF ChangeTag, EditSecret, vars, bc, cluster, counts
<1> QED
  BY <1>2, <1>3, <1>4, <1>5, <1>6 DEF Next, Step, Exporting, Panics

LEMMA AccountStep ==
  ASSUME TypeInv, AccountInv, [Next]_vars
  PROVE  AccountInv'
<1>1. /\ PlaceInv /\ CountInv /\ CallInv /\ DOMAIN builds = Names
      /\ written \in [Names -> 0..runs] /\ runs \in 0..MaxRuns
  BY DEF TypeInv, FileInv, CallInv, CountInv
<1>2. \A n \in Names : /\ written[n] \in 0..runs /\ written[n] \in 0..MaxRuns
                       /\ Entries(lists'[written[n]]) = Entries(lists[written[n]])
  BY <1>1, ListsKept, BoundsAssumption DEF Entries
<1>3. \A n \in Names : \A c \in Entries(lists[written[n]]) :
        GoodAccount(c, written[n]) => \A k : k = written[n] => GoodAccount(c, k)'
  BY <1>1, <1>2, GoodKept, CallListed
<1>4. ASSUME NEW n \in Names, builds'[n] = builds[n], written'[n] = written[n], Whole(builds'[n]),
             NEW c \in Entries(lists'[written'[n]]), c.name = n
      PROVE  \A k : k = written'[n] => GoodAccount(c, k)'
  <2>1. c \in Entries(lists[written[n]]) /\ Whole(builds[n])
    BY <1>2, <1>4
  <2> QED
    BY <1>3, <1>4, <2>1 DEF AccountInv
<1>5. ASSUME NEW n \in Names, Whole(builds'[n]), NEW c \in Entries(lists'[written'[n]]), c.name = n
      PROVE  \A k : k = written'[n] => GoodAccount(c, k)'
  <2>1. CASE CreateBuild
    <3>1. /\ builds' = [builds EXCEPT ![bc.name] = Torn] /\ ~Whole(Torn)
          /\ written' = [written EXCEPT ![bc.name] = runs]
      BY <2>1 DEF CreateBuild, Whole
    <3>2. builds'[n] = builds[n] /\ written'[n] = written[n]
      BY <1>1, <1>5, <3>1
    <3> QED
      BY <1>4, <1>5, <3>2
  <2>2. CASE WriteBuild
    <3>1. /\ builds' = [builds EXCEPT ![bc.name] = build] /\ pc = "buildWrite"
          /\ written' = written /\ lists' = lists
      BY <2>2 DEF WriteBuild, files, counts
    <3>2. /\ pos \in DOMAIN bcs /\ bc = bcs[pos] /\ GoodAccount(bc, runs) /\ bcs = lists[runs]
          /\ written[bc.name] = runs
          /\ \A i, j \in DOMAIN bcs : bcs[i].name = bcs[j].name => i = j
      BY <1>1, <3>1, AtListed, Listed DEF AccountInv, CallInv, InLoop, PlaceInv, bc
    <3>3. CASE n = bc.name
      <4>1. c = bc
        BY <1>5, <3>1, <3>2, <3>3 DEF Entries
      <4>2. written'[n] = runs /\ c \in Entries(lists[runs])
        BY <1>5, <3>1, <3>2, <3>3
      <4> QED
        BY <1>1, <3>2, <4>1, <4>2, GoodKept, CallListed
    <3>4. CASE n # bc.name
      <4>1. builds'[n] = builds[n] /\ written'[n] = written[n]
        BY <1>1, <3>1, <3>4
      <4> QED
        BY <1>4, <1>5, <4>1
    <3> QED
      BY <3>3, <3>4
  <2>3. CASE builds' = builds /\ written' = written
    BY <1>4, <1>5, <2>3
  <2>4. (builds' = builds /\ written' = written) \/ CreateBuild \/ WriteBuild
    BY OtherFilesKept DEF CreateBuild, WriteBuild, files
  <2> QED
    BY <2>1, <2>2, <2>3, <2>4
<1>6. ASSUME pc' \in {"params", "source", "output", "buildWrite"}
      PROVE  GoodAccount(bc, runs)'
  <2>1. CASE ~PullsSecret(bc)'
    BY <2>1 DEF GoodAccount
  <2>2. CASE PullsSecret(bc)'
    <3>1. /\ bc' = bc /\ runs' = runs
          /\ pc \in {"params", "source", "output", "buildWrite"} \/ WriteAccount
      BY <1>1, <1>6, <2>2, AccountReached
    <3>2. PICK c, k : c = bc /\ k = runs
      OBVIOUS
    <3>3. AccountName(c) \in Accounts /\ k \in 0..runs
      <4>1. InLoop
        BY <3>1 DEF InLoop, WriteAccount
      <4>2. AccountOf(bc) = AccountName(bc)
        BY DEF AccountOf, AccountName
      <4> QED
        BY <1>1, <3>2, <4>1, <4>2, AtListed
    <3>4. GoodAccount(c, k) \/ (WriteAccount /\ c = bc)
      BY <3>1, <3>2 DEF AccountInv
    <3>5. GoodAccount(c, k)'
      BY <3>3, <3>4, GoodKept
    <3> QED
      BY <3>1, <3>2, <3>5
  <2> QED
    BY <2>1, <2>2
<1>7. ASSUME NEW n \in Names, Whole(builds'[n]), NEW c \in Entries(lists'[written'[n]]), c.name = n
      PROVE  GoodAccount(c, written[n])'
  <2>1. PICK k : k = written'[n]
    OBVIOUS
  <2>2. GoodAccount(c, k)'
    BY <1>5, <1>7, <2>1
  <2> QED
    BY <2>1, <2>2
<1> QED
  BY <1>6, <1>7 DEF AccountInv, Whole, Entries

-----------------------------------------------------------------------------
(* The invariant, and what follows from it. *)

LEMMA InitInv == Init => IInv
<1> SUFFICES ASSUME Init
             PROVE  IInv
  OBVIOUS
<1>1. PlaceInv
  <2>1. bcs \in Lists /\ Len(bcs) \in Nat /\ pc = "idle" /\ pos = 1 /\ result = "none"
    BY Listed DEF Init
  <2> QED
    BY <2>1 DEF PlaceInv, InLoop
<1>2. CountInv
  <2>1. /\ tags \in [Refs -> {"absent", "bare", "tagged"}] /\ reference = [r \in Refs |-> 1]
        /\ moves = 0 /\ runs = 0 /\ faults = 0
    BY DEF Init
  <2>2. reference \in [Refs -> Nat] /\ \A r \in Refs : reference[r] = 1
    BY <2>1
  <2> QED
    BY <2>1, <2>2, BoundsAssumption DEF CountInv
<1>3. FileInv
  <2>1. \A n \in Names : builds[n] = NoFile
    BY DEF Init
  <2>2. accounts \in [Accounts -> Secrets \cup {NoFile, Torn}]
    BY DEF Init
  <2> QED
    BY <2>1, <2>2 DEF Init, FileInv
<1>4. CallInv
  <2>1. /\ lists = [k \in 0..MaxRuns |-> <<>>] /\ written = [n \in Names |-> 0]
        /\ runs = 0 /\ pc = "idle"
    BY DEF Init
  <2> QED
    BY <2>1 DEF CallInv
<1>5. BuildInv /\ ExportInv
  <2>1. Saved = {}
    BY DEF Init, Saved
  <2> QED
    BY <2>1 DEF Init, BuildInv, InLoop, ExportInv
<1>6. BuildIsTranslation /\ AccountInv
  BY DEF Init, BuildIsTranslation, AccountInv, Whole
<1>7. Done = {} /\ Served = {}
  BY DEF Init, Done, Served, InLoop
<1>8. DoneInv /\ ServedInv
  BY <1>7 DEF DoneInv, ServedInv
<1> QED
  BY <1>1, <1>2, <1>3, <1>4, <1>5, <1>6, <1>8 DEF IInv, TypeInv

LEMMA NextInv == IInv /\ [Next]_vars => IInv'
<1> SUFFICES ASSUME IInv, [Next]_vars
             PROVE  IInv'
  OBVIOUS
<1>1. TypeInv'
  BY PlaceStep, CountStep, FileStep, CallStep DEF IInv, TypeInv
<1>2. BuildInv'
  BY BuildStep DEF IInv, TypeInv
<1>3. BuildIsTranslation' /\ ExportInv' /\ DoneInv' /\ ServedInv' /\ AccountInv'
  BY TranslationStep, ExportStep, DoneStep, ServedStep, AccountStep DEF IInv
<1> QED
  BY <1>1, <1>2, <1>3 DEF IInv

LEMMA Invariance == Spec => []IInv
BY InitInv, NextInv, PTL DEF Spec

\* For every choice of lists of BuildConfigs and all bounds the conversion stays within its
\* types, and a Build file carries the name of its BuildConfig
\* (convert/buildconfigs.go:69-225).
THEOREM WellTyped == Spec => []TypeOK
<1>1. IInv => TypeOK
  <2> SUFFICES ASSUME IInv
               PROVE  TypeOK
    OBVIOUS
  <2>1. TypeInv /\ moves \in 0..MaxMoves /\ MaxMoves \in Nat
    BY BoundsAssumption DEF IInv, TypeInv, CountInv
  <2>2. reference \in [Refs -> 1..MaxMoves + 1]
    <3>1. /\ reference \in [Refs -> Nat]
          /\ \A r \in Refs : 1 <= reference[r] /\ reference[r] <= moves + 1
      BY <2>1 DEF TypeInv, CountInv
    <3> QED
      BY <2>1, <3>1
  <2> QED
    BY <2>1, <2>2 DEF TypeInv, PlaceInv, CountInv, FileInv, CallInv, TypeOK
<1> QED
  BY <1>1, Invariance, PTL

\* Whatever was interrupted, and however the BuildConfigs and the tags change from one
\* call to the next, a complete Build file says what the BuildConfig of its name asked
\* for when the call that made the file listed it, and nothing else (the loop at
\* convert/buildconfigs.go:78).
THEOREM BuildsAreTranslations == Spec => []BuildIsTranslation
<1>1. IInv => BuildIsTranslation
  BY DEF IInv
<1> QED
  BY <1>1, Invariance, PTL

\* A Build that needs a pull secret is never on disk before the ServiceAccount
\* file of its account (convert/buildconfigs.go:176-193, 443-471).
THEOREM BuildsHaveAccounts == Spec => []BuildHasAccount
<1>1. IInv => BuildHasAccount
  BY DEF IInv, AccountInv, GoodAccount, BuildHasAccount
<1> QED
  BY <1>1, Invariance, PTL

\* A call that returns without an error left nothing out but the writes whose
\* errors it drops, and what it wrote is the translation of the BuildConfigs as they
\* are now (convert/buildconfigs.go:221, 895).
THEOREM SuccessConverts == Spec => []SuccessIsComplete
<1>1. IInv => SuccessIsComplete
  <2> SUFFICES ASSUME IInv, pc = "idle", result = "ok", NEW i \in DOMAIN bcs
               PROVE  /\ Exported(bcs[i])
                      /\ <<"build", bcs[i].name>> \notin quiet => Whole(builds[bcs[i].name])
                      /\ Converted(bcs[i])
                      /\ i \in Sharing(i) =>
                           accounts[AccountName(bcs[i])] =
                             bcs[CHOOSE j \in Sharing(i) : \A k \in Sharing(i) : k <= j].pullSecret
    BY DEF SuccessIsComplete, Exported, Converted
  <2>1. Done = DOMAIN bcs /\ Served = DOMAIN bcs /\ Saved = DOMAIN bcs
        /\ DOMAIN bcs = 1..Len(bcs) /\ Len(bcs) \in Nat
    BY Listed DEF IInv, TypeInv, PlaceInv, Done, Served, Saved, InLoop
  <2>2. Exported(bcs[i]) /\ Converted(bcs[i])
    BY <2>1 DEF IInv, ExportInv, DoneInv
  <2>3. <<"build", bcs[i].name>> \notin quiet => Whole(builds[bcs[i].name])
    BY <2>2, FilesAssumption DEF Converted, Whole
  <2>4. ASSUME i \in Sharing(i)
        PROVE  accounts[AccountName(bcs[i])] =
                 bcs[CHOOSE j \in Sharing(i) : \A k \in Sharing(i) : k <= j].pullSecret
    <3>1. Sharing(i) \subseteq DOMAIN bcs /\ AccountName(bcs[i]) = AccountOf(bcs[i])
      BY DEF Sharing, AccountName, AccountOf
    <3>2. PICK j \in Sharing(i) : /\ \A k \in Sharing(i) : k <= j
                                  /\ accounts[AccountOf(bcs[i])] = bcs[j].pullSecret
      BY <2>1, <2>4, <3>1 DEF IInv, ServedInv, LastServed
    <3>3. \A m \in Sharing(i) : (\A k \in Sharing(i) : k <= m) => m = j
      BY <2>1, <3>1, <3>2
    <3>4. (CHOOSE m \in Sharing(i) : \A k \in Sharing(i) : k <= m) = j
      BY <3>2, <3>3
    <3> QED
      BY <3>1, <3>2, <3>4
  <2> QED
    BY <2>2, <2>3, <2>4
<1> QED
  BY <1>1, Invariance, PTL
=============================================================================
