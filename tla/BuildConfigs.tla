---------------------------- MODULE BuildConfigs ----------------------------
(***************************************************************************)
(* The conversion of OpenShift BuildConfigs into Shipwright Builds         *)
(* (convert/convert.go, convert/buildconfigs.go).  One Convert call lists  *)
(* the BuildConfigs, saves them, and then translates them one after the    *)
(* other, reading image streams and secrets from the cluster on the way    *)
(* and writing a ServiceAccount and a Build file for each.  Other actors   *)
(* change tags and secrets between two reads and BuildConfigs between two  *)
(* calls; a file write is a create that truncates followed by a write; the *)
(* process may die at any step, by its own doing where the code follows a  *)
(* pointer it has not tested, and the user runs it again over the same     *)
(* directory.                                                              *)
(***************************************************************************)
EXTENDS Integers, Sequences, FiniteSets

CONSTANTS
  Lists,               \* the lists of BuildConfigs the namespace may hold
  Refs,                \* names of image stream tags, images and registry images
  Secrets,             \* names of pull secrets
  Accounts,            \* names a ServiceAccount file may have
  SearchRegistries, InsecureRegistries, BlockRegistries,  \* the options of Convert
  NoFile, Torn,        \* a file that does not exist; one created but not written
  NoSource, NoSecret,  \* an absent source, an absent secret reference
  MaxRuns, MaxFaults, MaxMoves  \* bounds on calls, failures and outside changes

ASSUME BoundsAssumption == /\ MaxRuns \in Nat /\ MaxFaults \in Nat /\ MaxMoves \in Nat
                           /\ NoFile # Torn

VARIABLES
  bcs,        \* the BuildConfigs, as the API server listed them last
  tags,       \* per image stream tag: "absent", "bare" (it has images, but its spec
              \* refers to none, as after a push) or "tagged"
  reference,  \* per image stream tag, the number of the reference its spec has or had
  secrets,    \* per secret "usable", "unusable" (type or key) or "absent"
  exports,    \* per BuildConfig, the file of its saved copy
  accounts,   \* per ServiceAccount name, its file: the pull secret it lists
  builds,     \* per BuildConfig name, the Build file
  pc, pos,    \* where the running call is, and at which BuildConfig
  build,      \* the Build under construction, in memory
  result,     \* how the last call ended
  \* Observed, not read by the code:
  quiet,      \* files this call failed to write without reporting it
  stale,      \* tags changed since this call began
  lists,      \* per call, the BuildConfigs it listed
  written,    \* per BuildConfig name, the call that made its Build file
  runs, faults, moves

cluster == <<bcs, tags, reference, secrets>>
files   == <<exports, accounts, builds, written>>
counts  == <<lists, runs, faults, moves>>
vars == <<cluster, files, pc, pos, build, result, quiet, stale, counts>>

bc == bcs[pos]
Names == {"a", "b", "c"}
Entries(list) == {list[i] : i \in DOMAIN list}

\* One ParamValue of a Build.
Param(name, value) == [name |-> name, value |-> value]

\* The strategy fields that become parameters of the same meaning, and the name
\* the parameter has in the buildah and in the source-to-image strategy.
DockerFields == [noCache |-> "no-cache", forcePull |-> "pull", dockerfilePath |-> "dockerfile",
                 buildArgs |-> "build-args", skipLayers |-> "squash"]
SourceFields == [scripts |-> "scripts-url", incremental |-> "incremental",
                 forcePull |-> "pull-policy"]
FieldParams(c) ==
  LET table == IF c.strategy = "Docker" THEN DockerFields ELSE SourceFields
  IN  {Param(table[f], f) : f \in c.fields \cap DOMAIN table}

\* The parameter the From image goes to.
FromParamName(c) == IF c.strategy = "Docker" THEN "runtime-stage-from" ELSE "builder-image"

\* A Build begins empty apart from its name and the strategy.
FreshUnnamed(c) ==
  [build EXCEPT !.strategy = IF c.strategy = "Docker" THEN "buildah" ELSE "source-to-image"]
FreshKept(c) ==
  [build EXCEPT !.name = c.name,
                !.strategy = IF c.strategy = "Docker" THEN "buildah" ELSE "source-to-image"]
Fresh(c) ==
  [name |-> c.name,
   strategy |-> CASE c.strategy = "Docker" -> "buildah"
                  [] c.strategy = "Source" -> "source-to-image"
                  [] OTHER -> "",
   params |-> {}, env |-> <<>>, source |-> NoSource, image |-> <<>>, push |-> NoSecret]

\* What the code makes of an image reference: a tag is the name its spec refers
\* to, whatever has been pushed there since; a digest and a registry name stand for
\* themselves.  A tag without a reference is there, and reading it is fatal.
Known(from)    == from.kind = "ImageStreamTag" => tags[from.ref] = "tagged"
Unknown(from)  == from.kind = "ImageStreamTag" /\ tags[from.ref] = "absent"
Bare(from)     == from.kind = "ImageStreamTag" /\ tags[from.ref] = "bare"
Resolved(from) ==
  CASE from.kind = "ImageStreamTag"   -> <<"spec", from.ref, reference[from.ref]>>
    [] from.kind = "ImageStreamImage" -> <<"digest", from.ref>>
    [] OTHER                          -> <<"name", from.ref>>

\* A From without kind or name is skipped, one of another kind is an error.
Kinds == {"ImageStreamTag", "ImageStreamImage", "DockerImage"}

AccountByName(c) == c.name
AccountOf(c) == IF c.account = "" THEN c.name ELSE c.account

Convertible(c) == c.strategy \in {"Docker", "Source"}
HasDockerPullSecret(c) == c.strategy = "Docker" /\ c.pullSecret # NoSecret
HasPullSecret(c) == Convertible(c) /\ c.pullSecret # NoSecret

\* The source of a Build: exactly one of Git, a local copy and an image.  A
\* combination Shipwright has no word for leaves the Build without a source,
\* and so does an image reference that cannot be resolved.  The image keeps the
\* name it has in the BuildConfig: the resolved one is computed and dropped.
SourceOf(c, found) ==
  LET s == c.source
      of(type, image, secret) ==
        [type |-> type, image |-> image, secret |-> secret, contextDir |-> s.contextDir]
  IN  CASE s.kinds = {"git"}                        -> of("Git", <<>>, s.secret)
        [] s.kinds = {"binary"} /\ s.plain          -> of("Local", <<>>, FALSE)
        [] s.kinds = {"image"} /\ s.plain /\ found  ->
             of("OCI", <<"name", s.image.ref>>, s.secret)
        [] OTHER                                    -> NoSource

\* The namespace of an image source is not defaulted, so an image stream
\* reference without one cannot be read.
ReadsSource(c) == /\ c.source.kinds = {"image"} /\ c.source.plain
                  /\ c.source.image.kind \in {"ImageStreamTag", "ImageStreamImage"}
                  /\ c.source.image.namespaced
SourceKnown(c) == c.source.image.kind = "DockerImage" \/ (ReadsSource(c) /\ Known(c.source.image))

ProxyEnv(c) == IF c.source.kinds = {"git"} /\ c.source.proxy THEN <<"proxy">> ELSE <<>>

\* The output is optional; an image stream tag becomes a name in the internal registry, in the
\* namespace of the BuildConfig unless it names one, with a default tag.
HasOutput(c) == c.output.kind # "none"
OutputImage(c) ==
  IF c.output.kind = "ImageStreamTag"
    THEN <<"internal", IF c.output.namespace = "" THEN "own" ELSE c.output.namespace,
           c.output.to, IF c.output.tag = "" THEN "latest" ELSE c.output.tag>>
    ELSE <<c.output.to>>

\* The registry parameters; the insecure ones are given the blocked registries.
RegistryParams ==
     {Param("registries-search", SearchRegistries) : x \in SearchRegistries}
\cup {Param("registries-insecure", BlockRegistries) : x \in InsecureRegistries}
\cup {Param("registries-block", BlockRegistries) : x \in BlockRegistries}

\* What a BuildConfig in the API looks like, as far as the conversion relies on
\* it: its name is its own, and what it refers to is among the constants.
AllBuildConfigs == UNION {{list[i] : i \in DOMAIN list} : list \in Lists}
ASSUME ListsAssumption ==
  /\ \A list \in Lists :
       /\ list \in Seq(AllBuildConfigs)
       /\ \A i, j \in DOMAIN list : list[i].name = list[j].name => i = j
  /\ \A c \in AllBuildConfigs :
       /\ c.name \in Names /\ AccountOf(c) \in Accounts
       /\ c.pullSecret \in Secrets \cup {NoSecret}
       /\ c.from.kind = "ImageStreamTag" => c.from.ref \in Refs

\* The Builds that can be written, none of which is an absent or an empty file, nor
\* is a source absent that is there.
ParamNames ==
       {"runtime-stage-from", "builder-image"}
  \cup {DockerFields[f] : f \in DOMAIN DockerFields}
  \cup {SourceFields[f] : f \in DOMAIN SourceFields}
  \cup {"registries-search", "registries-insecure", "registries-block"}
ParamValues ==
       {"spec"} \X Refs \X Nat
  \cup {"digest", "name"} \X {c.from.ref : c \in AllBuildConfigs}
  \cup {SearchRegistries, BlockRegistries}
  \cup DOMAIN DockerFields \cup DOMAIN SourceFields
Strategies == {"buildah", "source-to-image", ""}
Params  == [name : ParamNames, value : ParamValues]
Envs    == Seq({"strategy", "proxy"})
Sources == {NoSource} \cup {SourceOf(c, found) : c \in AllBuildConfigs, found \in BOOLEAN}
Images  == {<<>>} \cup {OutputImage(c) : c \in AllBuildConfigs}
Pushes  == {NoSecret} \cup {c.push : c \in AllBuildConfigs}
Builds ==
  [name : Names, strategy : Strategies, params : SUBSET Params, env : Envs,
   source : Sources, image : Images, push : Pushes]
ASSUME FilesAssumption ==
  /\ NoFile \notin Builds /\ Torn \notin Builds
  /\ \A c \in AllBuildConfigs, type \in {"Git", "Local", "OCI"} :
       \A image \in {<<>>, <<"name", c.source.image.ref>>}, secret \in {c.source.secret, FALSE} :
         NoSource # [type |-> type, image |-> image, secret |-> secret,
                     contextDir |-> c.source.contextDir]

Init ==
  /\ bcs \in Lists
  /\ tags \in [Refs -> {"absent", "bare", "tagged"}]
  /\ reference = [r \in Refs |-> 1]
  /\ secrets \in [Secrets -> {"usable", "unusable"}]
  /\ exports = [n \in Names |-> NoFile]
  /\ accounts = [a \in Accounts |-> NoFile]
  /\ builds = [n \in Names |-> NoFile]
  /\ pc = "idle" /\ pos = 1
  /\ build = [name |-> "", strategy |-> "", params |-> {}, env |-> <<>>,
              source |-> NoSource, image |-> <<>>, push |-> NoSecret]
  /\ result = "none"
  /\ quiet = {} /\ stale = {}
  /\ lists = [k \in 0..MaxRuns |-> <<>>] /\ written = [n \in Names |-> 0]
  /\ runs = 0 /\ faults = 0 /\ moves = 0

Fault == faults < MaxFaults /\ faults' = faults + 1
Move  == moves < MaxMoves /\ moves' = moves + 1

Return(r) ==
  /\ pc' = "idle" /\ result' = r
  /\ UNCHANGED <<pos, build, stale>>

\* An error of any step ends the whole call.
ReturnErrorDropped == Return("ok") /\ UNCHANGED quiet
ReturnError == Return("error") /\ UNCHANGED quiet

\* Convert lists the BuildConfigs, which users may have changed since the last
\* call; what they do during a call it does not see.
Start ==
  /\ pc = "idle" /\ runs < MaxRuns
  /\ runs' = runs + 1
  /\ bcs' \in Lists
  /\ IF bcs' = bcs THEN UNCHANGED moves ELSE Move
  /\ lists' = [lists EXCEPT ![runs + 1] = bcs']
  /\ pc' = "export" /\ pos' = 1 /\ result' = "running" /\ quiet' = {} /\ stale' = {}
  /\ UNCHANGED <<tags, reference, secrets, files, build, faults>>

\* The list or the directory fails: nothing is written.
StartFails ==
  /\ pc = "idle" /\ runs < MaxRuns
  /\ Fault /\ runs' = runs + 1
  /\ result' = "error" /\ quiet' = {}
  /\ UNCHANGED <<cluster, files, pc, pos, build, stale, lists, moves>>

\* writeBuildConfigs saves a copy of each BuildConfig: the file is created, then
\* written.
CreateExport ==
  /\ pc = "export" /\ pos <= Len(bcs)
  /\ exports' = [exports EXCEPT ![bc.name] = Torn]
  /\ pc' = "exportWrite"
  /\ UNCHANGED <<cluster, accounts, builds, written, pos, build, result, quiet, stale, counts>>

WriteExport ==
  /\ pc = "exportWrite"
  /\ exports' = [exports EXCEPT ![bc.name] = bc]
  /\ pc' = "export" /\ pos' = pos + 1
  /\ UNCHANGED <<cluster, accounts, builds, written, build, result, quiet, stale, counts>>

\* A copy that cannot be written is skipped and the error dropped.
ExportFails ==
  /\ pc \in {"export", "exportWrite"} /\ pos <= Len(bcs) /\ Fault
  /\ quiet' = quiet \cup {<<"export", bc.name>>}
  /\ pc' = "export" /\ pos' = pos + 1
  /\ UNCHANGED <<cluster, files, build, result, stale, lists, runs, moves>>

EndExports ==
  /\ pc = "export" /\ pos > Len(bcs)
  /\ pc' = "next" /\ pos' = 0
  /\ UNCHANGED <<cluster, files, build, result, quiet, stale, counts>>

\* The loop takes the next BuildConfig, or ends.
NextBuildConfig ==
  /\ pc = "next"
  /\ \/ /\ pos < Len(bcs)
        /\ pos' = pos + 1
        /\ build' = Fresh(bcs[pos + 1])
        /\ pc' = IF Convertible(bcs[pos + 1]) THEN "from" ELSE "source"
        /\ UNCHANGED <<result, quiet, stale>>
     \/ pos = Len(bcs) /\ Return("ok") /\ UNCHANGED quiet
  /\ UNCHANGED <<cluster, files, counts>>

\* processStrategyFromField and processDockerStrategyFromField.
From ==
  /\ pc = "from"
  /\ \/ bc.from.kind = "" /\ UNCHANGED build
     \/ /\ bc.from.kind \in Kinds /\ Known(bc.from)
        /\ build' = [build EXCEPT !.params =
                       @ \cup {Param(FromParamName(bc), Resolved(bc.from))}]
  /\ pc' = "secret"
  /\ UNCHANGED <<cluster, files, pos, result, quiet, stale, counts>>

FromFails ==
  /\ pc = "from" /\ bc.from.kind # ""
  /\ \/ (bc.from.kind \notin Kinds \/ Unknown(bc.from)) /\ UNCHANGED faults
     \/ bc.from.kind \in Kinds \ {"DockerImage"} /\ Fault
  /\ ReturnError
  /\ UNCHANGED <<cluster, files, lists, runs, moves>>

\* resolveImageStreamRef follows the pointers to the spec tag and its reference
\* without a test, and the process dies.
FromPanics ==
  /\ pc = "from" /\ Bare(bc.from)
  /\ Return("crashed") /\ UNCHANGED quiet
  /\ UNCHANGED <<cluster, files, counts>>

\* validatePullSecret reads the secret and looks at its type and key.
PullSecret ==
  /\ pc = "secret"
  /\ IF HasPullSecret(bc)
       THEN secrets[bc.pullSecret] = "usable" /\ pc' = "account"
       ELSE pc' = "params"
  /\ UNCHANGED <<cluster, files, pos, build, result, quiet, stale, counts>>

PullSecretFails ==
  /\ pc = "secret" /\ HasPullSecret(bc)
  /\ IF secrets[bc.pullSecret] = "usable" THEN Fault ELSE UNCHANGED faults
  /\ ReturnError
  /\ UNCHANGED <<cluster, files, lists, runs, moves>>

\* generateServiceAccountForPullSecret: the file is created, then written.
CreateAccount ==
  /\ pc = "account"
  /\ accounts' = [accounts EXCEPT ![AccountOf(bc)] = Torn]
  /\ pc' = "accountWrite"
  /\ UNCHANGED <<cluster, exports, builds, written, pos, build, result, quiet, stale, counts>>

WriteAccount ==
  /\ pc = "accountWrite"
  /\ accounts' = [accounts EXCEPT ![AccountOf(bc)] = bc.pullSecret]
  /\ pc' = "params"
  /\ UNCHANGED <<cluster, exports, builds, written, pos, build, result, quiet, stale, counts>>

\* Creating or writing the ServiceAccount fails.
AccountFails ==
  /\ pc \in {"account", "accountWrite"} /\ Fault
  /\ ReturnError
  /\ UNCHANGED <<cluster, files, lists, runs, moves>>

\* The fields of the strategy, and its environment.
StrategyParams ==
  /\ pc = "params"
  /\ build' = [build EXCEPT !.params = @ \cup FieldParams(bc),
                            !.env = IF bc.env THEN Append(@, "strategy") ELSE @]
  /\ pc' = "source"
  /\ UNCHANGED <<cluster, files, pos, result, quiet, stale, counts>>

\* processSource never fails the call, an image that cannot be read included.
Source ==
  /\ pc = "source"
  /\ \E found \in BOOLEAN :
       /\ \/ /\ found = SourceKnown(bc) /\ UNCHANGED faults
             /\ ~(ReadsSource(bc) /\ Bare(bc.source.image))
          \/ ~found /\ ReadsSource(bc) /\ Fault
       /\ build' = [build EXCEPT !.source = SourceOf(bc, found), !.env = @ \o ProxyEnv(bc)]
  /\ pc' = "output"
  /\ UNCHANGED <<cluster, files, pos, result, quiet, stale, lists, runs, moves>>

\* It resolves an image stream tag in the same way.
SourcePanics ==
  /\ pc = "source" /\ ReadsSource(bc) /\ Bare(bc.source.image)
  /\ Return("crashed") /\ UNCHANGED quiet
  /\ UNCHANGED <<cluster, files, counts>>

\* processOutput follows the pointer to the optional output without a test.
OutputPanics ==
  /\ pc = "output" /\ ~HasOutput(bc)
  /\ Return("crashed") /\ UNCHANGED quiet
  /\ UNCHANGED <<cluster, files, counts>>

\* processOutput and addRegistries, and writeBuild creates the file.
CreateBuild ==
  /\ pc = "output" /\ HasOutput(bc)
  /\ build' = [build EXCEPT !.image = OutputImage(bc), !.push = bc.push,
                            !.params = @ \cup RegistryParams]
  /\ builds' = [builds EXCEPT ![bc.name] = Torn] /\ written' = [written EXCEPT ![bc.name] = runs]
  /\ pc' = "buildWrite"
  /\ UNCHANGED <<cluster, exports, accounts, pos, result, quiet, stale, counts>>

WriteBuild ==
  /\ pc = "buildWrite"
  /\ builds' = [builds EXCEPT ![bc.name] = build]
  /\ pc' = "next"
  /\ UNCHANGED <<cluster, exports, accounts, written, pos, build, result, quiet, stale, counts>>

\* The result of writeBuild is not looked at: the loop goes on.
WriteBuildFails ==
  /\ pc \in {"output", "buildWrite"} /\ HasOutput(bc) /\ Fault
  /\ pc' = "next"
  /\ quiet' = quiet \cup {<<"build", bc.name>>}
  /\ UNCHANGED <<cluster, files, pos, build, result, stale, lists, runs, moves>>

Step == \/ Start \/ StartFails \/ CreateExport \/ WriteExport \/ ExportFails \/ EndExports
        \/ NextBuildConfig \/ From \/ FromFails \/ FromPanics \/ PullSecret \/ PullSecretFails
        \/ CreateAccount \/ WriteAccount \/ AccountFails \/ StrategyParams
        \/ Source \/ SourcePanics \/ OutputPanics \/ CreateBuild \/ WriteBuild \/ WriteBuildFails

\* The process is killed.
Crash ==
  /\ pc # "idle" /\ Fault
  /\ Return("crashed") /\ UNCHANGED quiet
  /\ UNCHANGED <<cluster, files, lists, runs, moves>>

\* A user gives a tag another reference, a push makes a tag that has none, or the
\* tag is deleted.
ChangeTag(r) ==
  /\ Move
  /\ \/ /\ tags' = [tags EXCEPT ![r] = "tagged"]
        /\ reference' = [reference EXCEPT ![r] = @ + 1]
     \/ /\ \/ tags[r] = "absent" /\ tags' = [tags EXCEPT ![r] = "bare"]
           \/ tags[r] # "absent" /\ tags' = [tags EXCEPT ![r] = "absent"]
        /\ UNCHANGED reference
  /\ stale' = stale \cup {r}
  /\ UNCHANGED <<bcs, secrets, files, pc, pos, build, result, quiet, lists, runs, faults>>

\* A user repairs, breaks or deletes a secret.
EditSecret(s) ==
  /\ Move
  /\ \E v \in {"usable", "unusable", "absent"} \ {secrets[s]} :
       secrets' = [secrets EXCEPT ![s] = v]
  /\ UNCHANGED <<bcs, tags, reference, files, pc, pos, build, result, quiet, stale, lists, runs,
                 faults>>

Next == \/ Step \/ Crash
        \/ \E r \in Refs : ChangeTag(r)
        \/ \E s \in Secrets : EditSecret(s)

Spec == Init /\ [][Next]_vars
-----------------------------------------------------------------------------
\* The files and the machine take the values their declarations describe.
TypeOK ==
  /\ pc \in {"idle", "export", "exportWrite", "next", "from", "secret", "account",
             "accountWrite", "params", "source", "output", "buildWrite"}
  /\ pos \in 0..Len(bcs) + 1
  /\ \A n \in Names : builds[n] \in {NoFile, Torn} \/ builds[n].name = n
  /\ \A a \in Accounts : accounts[a] \in Secrets \cup {NoFile, Torn}
  /\ result \in {"none", "running", "ok", "error", "crashed"}
  /\ tags \in [Refs -> {"absent", "bare", "tagged"}] /\ reference \in [Refs -> 1..MaxMoves + 1]
  /\ written \in [Names -> 0..runs]
  /\ runs \in 0..MaxRuns /\ faults \in 0..MaxFaults /\ moves \in 0..MaxMoves

Whole(file) == file \notin {NoFile, Torn}

\* What the Build of a BuildConfig has to say, field by field, whatever order the
\* conversion went through them.
BaseParam(c) == IF c.strategy = "Docker" THEN "runtime-stage-from" ELSE "builder-image"
ExpectedParams(c) ==
  LET own == [Docker |-> {<<"noCache", "no-cache">>, <<"forcePull", "pull">>,
                          <<"dockerfilePath", "dockerfile">>, <<"buildArgs", "build-args">>,
                          <<"skipLayers", "squash">>},
              Source |-> {<<"scripts", "scripts-url">>, <<"incremental", "incremental">>,
                          <<"forcePull", "pull-policy">>}]
  IN  (IF Convertible(c) THEN {x[2] : x \in {y \in own[c.strategy] : y[1] \in c.fields}} ELSE {})
      \cup (IF Convertible(c) /\ c.from.kind # "" THEN {BaseParam(c)} ELSE {})
      \cup (IF SearchRegistries = {} THEN {} ELSE {"registries-search"})
      \cup (IF InsecureRegistries = {} THEN {} ELSE {"registries-insecure"})
      \cup (IF BlockRegistries = {} THEN {} ELSE {"registries-block"})

\* An image reference as it was resolved at some time.
OnceResolved(from, image) ==
  IF from.kind = "ImageStreamTag"
    THEN \E n \in 1..reference[from.ref] : image = <<"spec", from.ref, n>>
    ELSE image = Resolved(from)

\* The source is the one the BuildConfig has, as far as Shipwright has a word for
\* it; it is missing only if there is none, or an image that could not be read.
SourceFits(c, s) ==
  LET kinds == c.source.kinds
  IN  IF s = NoSource
        THEN /\ kinds # {"git"}
             /\ c.source.plain =>
                  kinds # {"binary"} /\ (kinds = {"image"} => c.source.image.kind # "DockerImage")
        ELSE /\ kinds = {CASE s.type = "Git" -> "git" [] s.type = "Local" -> "binary"
                           [] OTHER -> "image"}
             /\ s.type # "Git" => c.source.plain
             /\ s.image = (IF kinds = {"image"} THEN <<"name", c.source.image.ref>> ELSE <<>>)
             /\ s.secret = (IF s.type = "Local" THEN FALSE ELSE c.source.secret)
             /\ s.contextDir = c.source.contextDir

\* The image goes where the output says; a tag of the own namespace and without a
\* name is spelled out.
ImageFits(c, image) ==
  IF c.output.kind # "ImageStreamTag" THEN image = <<c.output.to>>
  ELSE /\ image[1] = "internal" /\ image[3] = c.output.to
       /\ IF c.output.namespace # "" THEN image[2] = c.output.namespace ELSE image[2] = "own"
       /\ IF c.output.tag # "" THEN image[4] = c.output.tag ELSE image[4] = "latest"

IsTranslation(c, b) ==
  /\ {p.name : p \in b.params} = ExpectedParams(c)
  /\ \A p, q \in b.params : p.name = q.name => p = q
  /\ Convertible(c) => \A p \in b.params : p.name = BaseParam(c) => OnceResolved(c.from, p.value)
  /\ SourceFits(c, b.source)
  /\ b.env = (IF Convertible(c) /\ c.env THEN <<"strategy">> ELSE <<>>)
             \o (IF c.source.kinds = {"git"} /\ c.source.proxy THEN <<"proxy">> ELSE <<>>)
  /\ ImageFits(c, b.image) /\ b.push = c.push

\* A complete Build file is the translation of the BuildConfig of its name, as the
\* call that made the file listed it, and of nothing else: each parameter is there
\* exactly when that BuildConfig asks for it, once, nothing is left over from the
\* BuildConfig converted before it or from a call that failed half-way, and the base
\* image is one its own reference had (the loop at buildconfigs.go:78).
BuildIsTranslation ==
  \A n \in Names : Whole(builds[n]) =>
    \E c \in Entries(lists[written[n]]) : c.name = n /\ IsTranslation(c, builds[n])

\* A BuildConfig that brings a pull secret to its ServiceAccount.
PullsSecret(c) == c.strategy \in {"Docker", "Source"} /\ c.pullSecret # NoSecret
AccountName(c) == IF c.account = "" THEN c.name ELSE c.account

\* Whatever failed or was killed, and however the BuildConfigs have changed since,
\* a Build that needs a pull secret is on disk only if the file of its account was
\* made by the same call or a later one, and then from a BuildConfig that uses this
\* account (buildconfigs.go:115-124).  The file may be torn: it is created anew for
\* every BuildConfig that shares it, and that may fail.
BuildHasAccount ==
  \A n \in Names : Whole(builds[n]) =>
    \A c \in Entries(lists[written[n]]) : c.name = n /\ PullsSecret(c) =>
      \E k \in written[n]..runs : \E d \in Entries(lists[k]) :
        /\ PullsSecret(d) /\ AccountName(d) = AccountName(c)
        /\ accounts[AccountName(c)] \in {Torn, d.pullSecret}

\* The BuildConfigs that share the ServiceAccount of BuildConfig i and bring a
\* pull secret to it.
Sharing(i) ==
  {j \in DOMAIN bcs : PullsSecret(bcs[j]) /\ AccountName(bcs[j]) = AccountName(bcs[i])}

\* When Convert returns without an error every BuildConfig listed has a complete
\* Build, the translation of the BuildConfig as it is now, however often it was
\* converted before it was edited; its base image is what its reference was resolved
\* to during this call and not in an earlier one, and the account of each lists a pull
\* secret, that of the last BuildConfig in the list that shares it.  The exceptions
\* are the writes whose errors the code drops (buildconfigs.go:221 and :895).
SuccessIsComplete ==
  pc = "idle" /\ result = "ok" =>
    \A i \in DOMAIN bcs :
      LET c == bcs[i] IN
      /\ <<"export", c.name>> \notin quiet => exports[c.name] = c
      /\ <<"build", c.name>> \notin quiet =>
           /\ Whole(builds[c.name]) /\ IsTranslation(c, builds[c.name])
           /\ c.from.kind = "ImageStreamTag" /\ Convertible(c) /\ c.from.ref \notin stale =>
                Param(BaseParam(c), Resolved(c.from)) \in builds[c.name].params
      /\ i \in Sharing(i) =>
           accounts[AccountName(c)] =
             bcs[CHOOSE j \in Sharing(i) : \A k \in Sharing(i) : k <= j].pullSecret
=============================================================================
