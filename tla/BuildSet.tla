------------------------------ MODULE BuildSet ------------------------------
(***************************************************************************)
(* ayaka/service/buildset, building half: a run locks its output directory *)
(* and its manifest, builds the planned sources in order with the already  *)
(* built dependencies installed, and publishes a repository and then the   *)
(* manifest that describes it.  Several runs share the file system; a run  *)
(* may be cancelled or crash at any point, and writes may fail.            *)
(*                                                                         *)
(* A plan is [order, deps, outs, ver]: the build order, the provider bases *)
(* of each base (0: a repository package), the names each base declares    *)
(* and its version.  How plans arise is module BuildPlan.                  *)
(***************************************************************************)
EXTENDS Naturals, Sequences, FiniteSets, SequencesExt

CONSTANTS BuildRuns,      \* concurrent invocations
          Outputs, Manifests,
          BuildPlans,
          BuildResults(_, _),  \* what a backend may produce for a plan's base
          NoRun           \* not an invocation

\* A plan builds every base once, and what a base depends on is planned as well or comes
\* from a repository.
ASSUME BuildAssumption ==
  /\ NoRun \notin BuildRuns
  /\ \A plan \in BuildPlans :
       /\ plan.order \in Seq(Nat \ {0}) /\ IsInjective(plan.order)
       /\ plan.deps \in [ToSet(plan.order) -> Seq(ToSet(plan.order) \cup {0})]

VARIABLES runPc,          \* where each run is
          runReq,         \* its [out, man]
          runPlan,        \* its plan
          runBuilt,       \* base -> set of packages its backend produced
          runInstalled,   \* base -> packages installed for its build
          runStaged,      \* the packages in its staging directory, or {}
          locks,          \* the flock files, by output or manifest path
          outputs,        \* the output directories: [by, pkgs] or by = NoRun
          manifests       \* the manifest files: [by, out, pkgs]

buildVars == <<runPc, runReq, runPlan, runBuilt, runInstalled, runStaged,
               locks, outputs, manifests>>

Nothing == [by |-> NoRun, pkgs |-> {}]
NoManifest == [by |-> NoRun, out |-> CHOOSE o \in Outputs : TRUE, pkgs |-> {}]
NoPlan == [order |-> <<>>, deps |-> <<>>, outs |-> <<>>, ver |-> <<>>]

Ended == {"done", "failed", "uncommitted", "crashed"}

BuildInit ==
  /\ runPc = [r \in BuildRuns |-> "idle"]
  /\ runReq = [r \in BuildRuns |-> <<>>]
  /\ runPlan = [r \in BuildRuns |-> NoPlan]
  /\ runBuilt = [r \in BuildRuns |-> <<>>]
  /\ runInstalled = [r \in BuildRuns |-> <<>>]
  /\ runStaged = [r \in BuildRuns |-> {}]
  /\ locks = [p \in Outputs \cup Manifests |-> NoRun]
  /\ outputs = [o \in Outputs |-> Nothing]
  /\ manifests = [m \in Manifests |-> NoManifest]

Goto(r, pc) == runPc' = [runPc EXCEPT ![r] = pc]

\* The deferred unlocks, in any return of Build.
Unlocked(r) == [p \in DOMAIN locks |-> IF locks[p] = r THEN NoRun ELSE locks[p]]

\* Build returns an error: locks released, workspace and staging removed.
Return(r, pc) ==
  /\ Goto(r, pc)
  /\ locks' = Unlocked(r)
  /\ runStaged' = [runStaged EXCEPT ![r] = {}]

Begin(r) ==
  /\ runPc[r] = "idle"
  /\ \E o \in Outputs, m \in Manifests :
       runReq' = [runReq EXCEPT ![r] = [out |-> o, man |-> m]]
  /\ Goto(r, "lockOutput")
  /\ UNCHANGED <<runPlan, runBuilt, runInstalled, runStaged, locks, outputs, manifests>>

\* safefile.TryLock: a held lock is an error, not a wait.
TryLock(r, path, next) ==
  IF locks[path] # NoRun THEN Return(r, "failed")
  ELSE /\ locks' = [locks EXCEPT ![path] = r]
       /\ Goto(r, next)
       /\ UNCHANGED runStaged

LockOutput(r) ==
  /\ runPc[r] = "lockOutput"
  /\ TryLock(r, runReq[r].out, "lockManifest")
  /\ UNCHANGED <<runReq, runPlan, runBuilt, runInstalled, outputs, manifests>>

LockManifest(r) ==
  /\ runPc[r] = "lockManifest"
  /\ TryLock(r, runReq[r].man, "check")
  /\ UNCHANGED <<runReq, runPlan, runBuilt, runInstalled, outputs, manifests>>

\* Neither target may exist.
TargetsFree(r) ==
  outputs[runReq[r].out].by = NoRun /\ manifests[runReq[r].man].by = NoRun

\* Lstat of both targets, then prepare: the plan, or no plan.
PrepareRun(r) ==
  /\ runPc[r] = "check"
  /\ \/ /\ TargetsFree(r)
        /\ \E plan \in BuildPlans : runPlan' = [runPlan EXCEPT ![r] = plan]
        /\ Goto(r, "build")
        /\ UNCHANGED <<locks, runStaged>>
     \/ /\ Return(r, "failed")
        /\ UNCHANGED runPlan
  /\ UNCHANGED <<runReq, runBuilt, runInstalled, outputs, manifests>>

Providers(plan, b) == ToSet(plan.deps[b]) \ {0, b}

\* Mutant: only the direct providers' artifacts are installed.
DependencyArtifactsDirect(plan, b, built) ==
  [ok |-> Providers(plan, b) \subseteq DOMAIN built,
   pkgs |-> UNION {built[p] : p \in Providers(plan, b) \cap DOMAIN built}]

\* dependencyArtifacts: the artifacts of every planned provider, transitively;
\* an error when one has not been built.
DependencyArtifacts(plan, b, built) ==
  LET closure[n \in 0..Len(plan.order)] ==
        IF n = 0 THEN Providers(plan, b)
        ELSE closure[n - 1] \cup UNION {Providers(plan, p) : p \in closure[n - 1]}
      needed == closure[Len(plan.order)]
  IN [ok |-> needed \subseteq DOMAIN built,
      pkgs |-> UNION {built[p] : p \in needed \cap DOMAIN built}]

\* validateBuildResult: every package is declared (or the debug package of a
\* declared one), produced once, of the right version, base and architecture,
\* and every declared package is there.  A result is a sequence of
\* [name, debug, ver, base, arch]; base 0 is a package that names none.
ValidateBuildResult(plan, b, result) ==
  /\ \A i \in DOMAIN result :
       /\ result[i].name \in plan.outs[b]
       /\ result[i].ver = plan.ver[b]
       /\ result[i].base \in {0, b}
       /\ result[i].arch \in {"target", "any"}
       /\ \A j \in DOMAIN result :
            i # j => <<result[i].name, result[i].debug>> # <<result[j].name, result[j].debug>>
  /\ \A name \in plan.outs[b] :
       \E i \in DOMAIN result : result[i].name = name /\ ~result[i].debug

NextBase(r) == runPlan[r].order[Cardinality(DOMAIN runBuilt[r]) + 1]

\* One planned source: its dependencies installed, built, validated.
BuildOne(r) ==
  /\ runPc[r] = "build"
  /\ Cardinality(DOMAIN runBuilt[r]) < Len(runPlan[r].order)
  /\ LET b == NextBase(r)
         install == DependencyArtifacts(runPlan[r], b, runBuilt[r])
     IN \/ \E result \in BuildResults(runPlan[r], b) :
             /\ install.ok /\ ValidateBuildResult(runPlan[r], b, result)
             /\ runBuilt' = [runBuilt EXCEPT ![r] =
                  [x \in DOMAIN @ \cup {b} |-> IF x = b THEN ToSet(result) ELSE @[x]]]
             /\ runInstalled' = [runInstalled EXCEPT ![r] =
                  [x \in DOMAIN @ \cup {b} |-> IF x = b THEN install.pkgs ELSE @[x]]]
             /\ UNCHANGED <<runPc, locks, runStaged>>
        \/ \* the backend failed, the result was refused, or the run was cancelled
           /\ Return(r, "failed")
           /\ UNCHANGED <<runBuilt, runInstalled>>
  /\ UNCHANGED <<runReq, runPlan, outputs, manifests>>

Artifacts(r) == UNION {runBuilt[r][b] : b \in DOMAIN runBuilt[r]}

\* Two sources producing the same file name.
DuplicateFilename(r) ==
  \E b, c \in DOMAIN runBuilt[r] : b # c /\
    \E x \in runBuilt[r][b], y \in runBuilt[r][c] :
      <<x.name, x.debug, x.ver, x.arch>> = <<y.name, y.debug, y.ver, y.arch>>

\* publish, first half: the staging directory, the copies, repo-add.
Stage(r) ==
  /\ runPc[r] = "build"
  /\ Cardinality(DOMAIN runBuilt[r]) = Len(runPlan[r].order)
  /\ \/ /\ ~DuplicateFilename(r)
        /\ runStaged' = [runStaged EXCEPT ![r] = Artifacts(r)]
        /\ Goto(r, "rename")
        /\ UNCHANGED locks
     \/ Return(r, "failed")
  /\ UNCHANGED <<runReq, runPlan, runBuilt, runInstalled, outputs, manifests>>

\* The staging directory becomes the output (rename fails when it exists).
RenameStaging(r) ==
  /\ runPc[r] = "rename"
  /\ \/ /\ outputs[runReq[r].out].by = NoRun
        /\ outputs' = [outputs EXCEPT ![runReq[r].out] = [by |-> r, pkgs |-> runStaged[r]]]
        /\ runStaged' = [runStaged EXCEPT ![r] = {}]
        /\ Goto(r, "sync")
        /\ UNCHANGED locks
     \/ Return(r, "failed") /\ UNCHANGED outputs
  /\ UNCHANGED <<runReq, runPlan, runBuilt, runInstalled, manifests>>

\* Mutant: the parent's failed sync leaves the output.
WithdrawNothing(r) == UNCHANGED outputs

\* What is left of the output when a step after the rename fails.  The code ignores an
\* error of this RemoveAll; here it always succeeds.
Withdraw(r) == outputs' = [outputs EXCEPT ![runReq[r].out] = Nothing]

Described(r) == [by |-> r, out |-> runReq[r].out, pkgs |-> Artifacts(r)]

\* Mutant: the manifest is written before the directory is synced.
SyncParentLate(r) ==
  /\ runPc[r] = "sync"
  /\ manifests' = [manifests EXCEPT ![runReq[r].man] = Described(r)]
  /\ \/ Return(r, "done") /\ UNCHANGED outputs
     \/ Return(r, "failed") /\ Withdraw(r)
  /\ UNCHANGED <<runReq, runPlan, runBuilt, runInstalled>>

SyncParent(r) ==
  /\ runPc[r] = "sync"
  /\ \/ Goto(r, "manifest") /\ UNCHANGED <<locks, runStaged, outputs>>
     \/ Return(r, "failed") /\ Withdraw(r)
  /\ UNCHANGED <<runReq, runPlan, runBuilt, runInstalled, manifests>>

\* safefile.Replace of the manifest.  It can fail before its rename (nothing
\* was written) or after it (the manifest is there but not committed); either
\* way the output is removed.
WriteManifest(r) ==
  /\ runPc[r] = "manifest"
  /\ \/ /\ manifests' = [manifests EXCEPT ![runReq[r].man] = Described(r)]
        /\ Return(r, "done") /\ UNCHANGED outputs
     \/ Return(r, "failed") /\ Withdraw(r) /\ UNCHANGED manifests
     \/ /\ manifests' = [manifests EXCEPT ![runReq[r].man] = Described(r)]
        /\ Return(r, "uncommitted") /\ Withdraw(r)
  /\ UNCHANGED <<runReq, runPlan, runBuilt, runInstalled>>

\* The process dies: the kernel drops its locks, the staging directory stays.
CrashRun(r) ==
  /\ runPc[r] \notin Ended \cup {"idle"}
  /\ Goto(r, "crashed")
  /\ locks' = Unlocked(r)
  /\ UNCHANGED <<runReq, runPlan, runBuilt, runInstalled, runStaged, outputs, manifests>>

RunStep(r) == \/ Begin(r) \/ LockOutput(r) \/ LockManifest(r) \/ PrepareRun(r)
              \/ BuildOne(r) \/ Stage(r) \/ RenameStaging(r) \/ SyncParent(r)
              \/ WriteManifest(r) \/ CrashRun(r)

AllEnded == (\A r \in BuildRuns : runPc[r] \in Ended) /\ UNCHANGED buildVars

BuildNext == (\E r \in BuildRuns : RunStep(r)) \/ AllEnded

BuildSpec == BuildInit /\ [][BuildNext]_buildVars

(***************************************************************************)
(* Properties                                                              *)
(***************************************************************************)
\* A manifest always describes the repository next to it: the output it names
\* holds exactly the packages it lists, whichever runs failed or crashed in
\* between, except after the one failure publish cannot undo (Replace failing
\* after its rename).
ManifestTellsTruth ==
  \A m \in Manifests : manifests[m].by # NoRun =>
    \/ outputs[manifests[m].out] = [by |-> manifests[m].by, pkgs |-> manifests[m].pkgs]
    \/ runPc[manifests[m].by] = "uncommitted"

\* A run that returned an error leaves neither an output nor a staging
\* directory nor a lock behind; only a crash can.
FailedRunLeavesNothing ==
  \A r \in BuildRuns : runPc[r] \in {"failed", "uncommitted"} =>
    /\ \A o \in Outputs : outputs[o].by # r
    /\ runStaged[r] = {}
    /\ \A p \in DOMAIN locks : locks[p] # r

\* The planned bases that b depends on, directly or through others.
Needs(plan, b) ==
  {path[Len(path)] : path \in {q \in UNION {[1..n -> ToSet(plan.order)] : n \in 2..Len(plan.order)} :
     q[1] = b /\ \A i \in 1..(Len(q) - 1) : q[i + 1] \in ToSet(plan.deps[q[i]])}} \ {b}

\* Every build had the artifacts of all its planned dependencies installed,
\* the dependencies of dependencies included, and they are the ones published.
InstalledWhatItNeeds ==
  \A r \in BuildRuns : \A b \in DOMAIN runInstalled[r] :
    runInstalled[r][b] = UNION {runBuilt[r][p] : p \in Needs(runPlan[r], b)}

\* Build runs, as a whole: a manifest describes what is there, a failed run leaves
\* nothing, and every build had what it needs.
RunsHold == ManifestTellsTruth /\ FailedRunLeavesNothing /\ InstalledWhatItNeeds
=============================================================================
