----------------------------- MODULE BuildPlan -----------------------------
(***************************************************************************)
(* ayaka/service/buildset, planning half: which sources a "build these     *)
(* packages" request must build, found by a fix-point over the build       *)
(* dependencies, and in which order.                                       *)
(*                                                                         *)
(* A world is what the planner can ask about:                              *)
(*   local  the pkgbases given as local source trees,                      *)
(*   src    the .SRCINFO of every tree (local, or cloned from the AUR):    *)
(*          [outs, prov, ver, deps],                                       *)
(*   rpc    what the AUR's RPC says: entries [name, base, ver, prov];      *)
(*          it may disagree with the tree that is cloned afterwards,       *)
(*   repos  the configured repositories in pacman.conf order, each a       *)
(*          record [install, servers]: each server answers {} (down) or    *)
(*          {db} with db a set of binary packages [name, ver, prov],       *)
(*   req    the requested package names.                                   *)
(* Queries may also fail (the network is external).                        *)
(***************************************************************************)
EXTENDS Depend

CONSTANTS PlanWorlds      \* the worlds a run considers

VARIABLES planPhase,      \* "idle", "request", "resolve", "planned", "failed"
          planWorld,
          planSnapshots,  \* what loadRepositories returned
          planSources,    \* planner.sources: pkgbases, in order of addition
          planExplicit,   \* names asked for, by pkgbase
          planTodo,       \* requested names not yet looked at
          planDeps,       \* sourceRecord.dependencies, by pkgbase
          planAt,         \* <<source, dependency>> the pass is at
          planOrder       \* Plan.BuildOrder

planVars == <<planPhase, planWorld, planSnapshots, planSources, planExplicit,
              planTodo, planDeps, planAt, planOrder>>

Failed == "failed"

\* The world nothing has been asked of.
NoWorld == [local |-> {}, src |-> <<>>, rpc |-> {}, repos |-> <<>>, req |-> {}]

(***************************************************************************)
(* Repositories                                                            *)
(***************************************************************************)
\* fetchRepository per server, the first that answers wins.
Snapshot(repository) ==
  LET up == {i \in DOMAIN repository.servers : repository.servers[i] # {}}
  IN IF up = {} THEN {} ELSE repository.servers[Min(up)]

\* loadRepositories: the sections that install packages, in order; one
\* section with no answering server fails the whole plan.
LoadRepositories(repos) ==
  LET installing == SelectSeq(repos, LAMBDA r : r.install)
  IN [i \in DOMAIN installing |-> Snapshot(installing[i])]

ProvidedSatisfies(c, provided) ==
  /\ provided.name = c.name
  /\ c.op = "any" \/ (provided.ver # 0 /\ Satisfies(c, provided.ver))

RepositoryCandidates(packages, c) ==
  {p.name : p \in {q \in packages :
     \/ q.name = c.name /\ Satisfies(c, q.ver)
     \/ \E provided \in q.prov : ProvidedSatisfies(c, provided)}}

(***************************************************************************)
(* Sources                                                                 *)
(***************************************************************************)
Tree(base) == planWorld.src[base]

SourceSatisfies(base, c) ==
  \/ c.name \in Tree(base).outs /\ Satisfies(c, Tree(base).ver)
  \/ \E provided \in Tree(base).prov : ProvidedSatisfies(c, provided)

Kind(base) == IF base \in planWorld.local THEN "local" ELSE "built"

Dependency(c, kind, provider, base) ==
  [constraint |-> c, kind |-> kind, provider |-> provider, base |-> base]

Found(d)  == [err |-> FALSE, dep |-> d, add |-> 0]
Absent    == [err |-> FALSE, dep |-> <<>>, add |-> 0]
Refused   == [err |-> TRUE, dep |-> <<>>, add |-> 0]
Adding(b) == [err |-> FALSE, dep |-> <<>>, add |-> b]

\* Mutant: several providers are no error, the first is taken.
FromSourcesFirst(sources, c, kind) ==
  LET candidates == {b \in ToSet(sources) : Kind(b) = kind /\ SourceSatisfies(b, c)}
  IN IF candidates = {} THEN Absent
     ELSE Found(Dependency(c, kind, Min(candidates), Min(candidates)))

\* resolveFromSources among the selected sources of one kind.
FromSources(sources, c, kind) ==
  LET candidates == {b \in ToSet(sources) : Kind(b) = kind /\ SourceSatisfies(b, c)}
  IN CASE candidates = {} -> Absent
       [] Cardinality(candidates) > 1 -> Refused
       [] OTHER -> LET b == CHOOSE x \in candidates : TRUE
                   IN Found(Dependency(c, kind, b, b))

\* The first repository that has a candidate decides.
FromRepositories(c) ==
  LET having == {i \in DOMAIN planSnapshots :
                   RepositoryCandidates(CHOOSE db \in planSnapshots[i] : TRUE, c) # {}}
      candidates == RepositoryCandidates(CHOOSE db \in planSnapshots[Min(having)] : TRUE, c)
  IN CASE having = {} -> Absent
       [] having # {} /\ Cardinality(candidates) > 1 -> Refused
       [] OTHER -> Found(Dependency(c, "repository", CHOOSE x \in candidates : TRUE, 0))

ExactAURPackage(name) == {e \in planWorld.rpc : e.name = name}

\* resolveAURCandidate: the exact name if its version fits, else the only
\* base with a fitting provides entry.
AURCandidate(c) ==
  LET exact == ExactAURPackage(c.name)
      bases == {e.base : e \in {f \in planWorld.rpc :
                  \E provided \in f.prov : ProvidedSatisfies(c, provided)}}
      fits == {e \in exact : Satisfies(c, e.ver)}
  IN CASE Cardinality(exact) > 1 -> Refused
       [] Cardinality(exact) <= 1 /\ fits # {} -> Adding((CHOOSE e \in fits : TRUE).base)
       [] OTHER -> IF Cardinality(bases) = 1 THEN Adding(CHOOSE b \in bases : TRUE)
                   ELSE Refused      \* no provider, or several

\* Mutant: without "is not satisfied by already selected AUR pkgbase".
ResolveDependencyReselecting(sources, c) ==
  LET local == FromSources(sources, c, "local")
      built == FromSources(sources, c, "built")
      repository == FromRepositories(c)
  IN CASE local # Absent -> local
       [] local = Absent /\ built # Absent -> built
       [] local = Absent /\ built = Absent /\ repository # Absent -> repository
       [] OTHER -> AURCandidate(c)

\* resolveDependency: local, then already selected AUR sources, then the
\* repositories, then a new AUR source.
ResolveDependency(sources, c) ==
  LET local == FromSources(sources, c, "local")
      built == FromSources(sources, c, "built")
      repository == FromRepositories(c)
      aur == AURCandidate(c)
  IN CASE local # Absent -> local
       [] local = Absent /\ built # Absent -> built
       [] local = Absent /\ built = Absent /\ repository # Absent -> repository
       [] OTHER -> IF ~aur.err /\ aur.add \in ToSet(sources) THEN Refused ELSE aur

\* addAURSource: clone, read and validate; an already selected AUR base is kept.
AddAURSource(base) ==
  planSources' = IF base \in ToSet(planSources) THEN planSources
                 ELSE Append(planSources, base)

CanAdd(base) == base \in DOMAIN planWorld.src /\ base \notin planWorld.local

(***************************************************************************)
(* The planner                                                             *)
(***************************************************************************)
Fail == /\ planPhase' = Failed
        /\ UNCHANGED <<planWorld, planSnapshots, planSources, planExplicit,
                       planTodo, planDeps, planAt, planOrder>>

PlanInit ==
  /\ planPhase = "idle"
  /\ planWorld = NoWorld
  /\ planSnapshots = <<>> /\ planSources = <<>> /\ planTodo = <<>>
  /\ planExplicit = <<>> /\ planDeps = <<>>
  /\ planAt = <<1, 1>> /\ planOrder = <<>>

\* collectLocalSources: each local tree once; all its outputs are explicit.
LocalSources(w) == Sorted(w.local)
LocalExplicit(w) == [b \in DOMAIN w.src |-> IF b \in w.local THEN w.src[b].outs ELSE {}]

\* prepare: load the repositories, collect the local sources (every output of
\* a local source is explicit), start the planner with the sorted request.
Prepare ==
  /\ planPhase = "idle"
  /\ \E w \in PlanWorlds :
       LET snapshots == LoadRepositories(w.repos)
       IN /\ planWorld' = w
          /\ planSnapshots' = snapshots
          /\ planPhase' = IF \E i \in DOMAIN snapshots : snapshots[i] = {}
                          THEN Failed ELSE "request"
          /\ planSources' = LocalSources(w)
          /\ planExplicit' = LocalExplicit(w)
          /\ planTodo' = Sorted(w.req)
          /\ planDeps' = [b \in DOMAIN w.src |-> <<>>]
  /\ UNCHANGED <<planAt, planOrder>>

\* One requested name: the only local source that produces it, else its AUR base.
TakeRequested ==
  /\ planPhase = "request" /\ planTodo # <<>>
  /\ LET name == Head(planTodo)
         local == {b \in ToSet(planSources) : Kind(b) = "local" /\ name \in Tree(b).outs}
         exact == ExactAURPackage(name)
         base == IF local # {} THEN CHOOSE b \in local : TRUE
                 ELSE (CHOOSE e \in exact : TRUE).base
         ok == IF local # {} THEN Cardinality(local) = 1
               ELSE Cardinality(exact) = 1 /\ CanAdd(base) /\ name \in Tree(base).outs
     IN IF ~ok THEN Fail
        ELSE /\ AddAURSource(base)
             /\ planExplicit' = [planExplicit EXCEPT ![base] = @ \cup {name}]
             /\ planTodo' = Tail(planTodo)
             /\ UNCHANGED <<planPhase, planWorld, planSnapshots, planDeps, planAt, planOrder>>

RequestTaken ==
  /\ planPhase = "request" /\ planTodo = <<>>
  /\ planPhase' = "resolve"
  /\ UNCHANGED <<planWorld, planSnapshots, planSources, planExplicit, planTodo,
                 planDeps, planAt, planOrder>>

\* The source and the specification the pass is at.
CurrentSource == planSources[planAt[1]]
CurrentSpec   == Tree(CurrentSource).deps[planAt[2]]

\* Mutant: carry on with the next dependency.
AfterAddingCarryOn ==
  /\ planAt' = planAt
  /\ planDeps' = planDeps

\* An added source restarts the pass: its trees may change what earlier
\* dependencies resolve to.
AfterAdding == planAt' = <<1, 1>> /\ planDeps' = [b \in DOMAIN planDeps |-> <<>>]

ResolveNext ==
  /\ planPhase = "resolve" /\ planAt[1] <= Len(planSources)
  /\ planAt[2] <= Len(Tree(CurrentSource).deps)
  /\ LET r == ResolveDependency(planSources, CurrentSpec)
     IN \/ /\ r.err \/ (r.add # 0 /\ ~CanAdd(r.add))
           /\ Fail
        \/ /\ ~r.err /\ r.add # 0 /\ CanAdd(r.add)
           /\ AddAURSource(r.add)
           /\ AfterAdding
           /\ UNCHANGED <<planPhase, planWorld, planSnapshots, planExplicit, planTodo, planOrder>>
        \/ /\ ~r.err /\ r.add = 0
           /\ planDeps' = [planDeps EXCEPT ![CurrentSource] = Append(@, r.dep)]
           /\ planAt' = <<planAt[1], planAt[2] + 1>>
           /\ UNCHANGED <<planPhase, planWorld, planSnapshots, planSources,
                          planExplicit, planTodo, planOrder>>

NextSource ==
  /\ planPhase = "resolve" /\ planAt[1] <= Len(planSources)
  /\ planAt[2] > Len(Tree(CurrentSource).deps)
  /\ planAt' = <<planAt[1] + 1, 1>>
  /\ UNCHANGED <<planPhase, planWorld, planSnapshots, planSources, planExplicit,
                 planTodo, planDeps, planOrder>>

\* Mutant: only AUR providers order a build.
PlanEdgesBuiltOnly ==
  [b \in ToSet(planSources) |->
     SelectSeq([i \in DOMAIN planDeps[b] |->
                  IF planDeps[b][i].kind = "built" THEN planDeps[b][i].base ELSE 0],
               LAMBDA p : p # 0 /\ p # b)]

\* The edges of the plan and its order; a cycle is an error.
PlanEdges ==
  [b \in ToSet(planSources) |->
     SelectSeq([i \in DOMAIN planDeps[b] |-> planDeps[b][i].base],
               LAMBDA p : p # 0 /\ p # b)]

FinishPlan ==
  /\ planPhase = "resolve" /\ planAt[1] > Len(planSources)
  /\ LET order == BuildOrder(NewGraph(ToSet(planSources), PlanEdges))
     IN IF ~order.ok THEN Fail
        ELSE /\ planPhase' = "planned"
             /\ planOrder' = order.order
             /\ UNCHANGED <<planWorld, planSnapshots, planSources, planExplicit,
                            planTodo, planDeps, planAt>>

\* An AUR query or a clone that the current step makes fails.
QueryFails ==
  /\ \/ planPhase = "request" /\ planTodo # <<>>
     \/ /\ planPhase = "resolve" /\ planAt[1] <= Len(planSources)
        /\ planAt[2] <= Len(Tree(CurrentSource).deps)
        /\ ResolveDependency(planSources, CurrentSpec).add # 0
  /\ Fail

\* The plan, or the error, is the command's result.
PlanReturned == planPhase \in {"planned", Failed} /\ UNCHANGED planVars

PlanNext == \/ Prepare \/ TakeRequested \/ RequestTaken \/ ResolveNext \/ NextSource
            \/ FinishPlan \/ QueryFails \/ PlanReturned
PlanSpec == PlanInit /\ [][PlanNext]_planVars

(***************************************************************************)
(* Properties                                                              *)
(***************************************************************************)
PlannedAt(b) == CHOOSE i \in DOMAIN planOrder : planOrder[i] = b

\* The build order holds every selected source once, and each is preceded by
\* the planned source of every one of its dependencies (planner.build,
\* TopoSort), so that dependencyArtifacts always finds its artifacts built.
PlanOrdered ==
  planPhase = "planned" =>
    /\ ToSet(planOrder) = ToSet(planSources) /\ IsInjective(planOrder)
    /\ \A b \in ToSet(planSources) : \A i \in DOMAIN planDeps[b] :
         LET p == planDeps[b][i].base
         IN p \notin {0, b} => PlannedAt(p) < PlannedAt(b)

\* Nothing in the plan is stale: looked up again among the sources finally
\* selected, every dependency resolves to what was recorded for it, although
\* sources were added after some had been resolved.
PlanSettled ==
  planPhase = "planned" =>
    \A b \in ToSet(planSources) :
      /\ Len(planDeps[b]) = Len(Tree(b).deps)
      /\ \A i \in DOMAIN planDeps[b] :
           ResolveDependency(planSources, Tree(b).deps[i]) = Found(planDeps[b][i])

\* A plan builds no AUR source nobody asked for: each is requested or provides
\* a dependency of another planned source.
PlanNeeded ==
  planPhase = "planned" =>
    \A b \in ToSet(planSources) :
      \/ planExplicit[b] # {}
      \/ \E o \in ToSet(planSources) \ {b} : \E i \in DOMAIN planDeps[o] :
           planDeps[o][i].base = b

\* The fix-point is reached or the request refused: a step of the resolver
\* adds a source that was not selected, moves on in the pass, or ends it, so it
\* cannot circle even when the AUR's index promises what the cloned tree does
\* not provide (planner.build's loop has no other bound).
PlanAdvances ==
  planPhase = "resolve" =>
    \/ planPhase' # "resolve"
    \/ Len(planSources') > Len(planSources)
    \/ planAt'[1] > planAt[1]
    \/ planAt'[1] = planAt[1] /\ planAt'[2] > planAt[2]

\* The parts that speak of a state; they hold trivially before the first step.
PlanIsSound == PlanOrdered /\ PlanSettled /\ PlanNeeded

\* Planning, as a whole: the plan is ordered, settled and without surplus, and every
\* pass that starts again has one source more.
PlanHolds == [][PlanIsSound' /\ PlanAdvances]_planVars
=============================================================================
