----------------------------- MODULE CIPipeline -----------------------------
(***************************************************************************)
(* ayaka's continuous-integration loop over one source repository:         *)
(* nvcheck and nvbump follow the upstreams, plan compares the sources with *)
(* the published database and cascades rebuilds, the bump targets get a    *)
(* new pkgrel, and the planned packages are built and published in order.  *)
(* There is no state but the sources and the published database, so the    *)
(* loop must recover from any step that fails by planning again.           *)
(*                                                                         *)
(* A version is [ver, rel]: pkgver and pkgrel.  A VCS package's PKGBUILD   *)
(* keeps its pkgver; building it publishes the upstream commit as pkgver.  *)
(* A published package also records what it was built against: the         *)
(* versions of its make dependencies and the soname of its library.        *)
(***************************************************************************)
EXTENDS Depend

CONSTANTS CIPkgs,         \* pkgbases (naturals)
          MakeEdges,      \* base -> make and check dependencies within the repository
          RunEdges,       \* base -> further (runtime) dependencies
          SoLibs,         \* base -> the library it links, or 0
          VcsPkgs,        \* bases with a git source
          Cascades,       \* the --cascade modes considered
          MaxUpstream,    \* bound on upstream releases per package
          MaxFailures     \* bound on failing steps

VARIABLES ciUpstream,     \* base -> newest upstream version or commit
          ciPkgbuild,     \* base -> [ver, rel] in its PKGBUILD
          ciSrcinfo,      \* base -> [ver, rel] in its .SRCINFO
          ciPublished,    \* base -> {} or {[ver, rel, made, so]}
          ciPlan,         \* the plan being carried out
          ciPhase,        \* "idle", "bump", "build"
          ciEmpty,        \* the last plan was empty and nothing moved since
          ciFailures

ciVars == <<ciUpstream, ciPkgbuild, ciSrcinfo, ciPublished, ciPlan, ciPhase,
            ciEmpty, ciFailures>>

NoCIPlan == [order |-> <<>>, reasons |-> <<>>, bump |-> <<>>, buckets |-> <<>>]

CIInit ==
  /\ ciUpstream = [b \in CIPkgs |-> 1]
  /\ ciPkgbuild = [b \in CIPkgs |-> [ver |-> IF b \in VcsPkgs THEN 0 ELSE 1, rel |-> 1]]
  /\ ciSrcinfo = ciPkgbuild
  /\ ciPublished = [b \in CIPkgs |-> {}]
  /\ ciPlan = NoCIPlan
  /\ ciPhase = "idle" /\ ciEmpty = FALSE
  /\ ciFailures = 0

Newer(v, w) == v.ver > w.ver \/ (v.ver = w.ver /\ v.rel > w.rel)

The(S) == CHOOSE x \in S : TRUE

(***************************************************************************)
(* Upstream tracking                                                       *)
(***************************************************************************)
\* Upstream publishes a release or a commit (outside the program).
UpstreamMoves(b) ==
  /\ ciUpstream[b] < MaxUpstream
  /\ ciUpstream' = [ciUpstream EXCEPT ![b] = @ + 1]
  /\ ciEmpty' = FALSE
  /\ UNCHANGED <<ciPkgbuild, ciSrcinfo, ciPublished, ciPlan, ciPhase, ciFailures>>

MayFail == ciFailures < MaxFailures /\ ciFailures' = ciFailures + 1

\* GenerateSrcinfo: .SRCINFO follows the PKGBUILD, or makepkg fails and the old
\* file stays.
GenerateSrcinfo(b) == ciSrcinfo' = [ciSrcinfo EXCEPT ![b] = ciPkgbuild'[b]]

\* The checker found the .SRCINFO's pkgver behind the upstream's (RunNvCheck,
\* checkOne); NvBump rewrites pkgver, resets pkgrel, runs updpkgsums and
\* regenerates .SRCINFO.  A failing step leaves the rewritten PKGBUILD.
NvBump(b) ==
  /\ ciPhase = "idle" /\ b \notin VcsPkgs
  /\ ciUpstream[b] > ciSrcinfo[b].ver
  /\ ciPkgbuild' = [ciPkgbuild EXCEPT ![b] = [ver |-> ciUpstream[b], rel |-> 1]]
  /\ \/ GenerateSrcinfo(b) /\ UNCHANGED ciFailures
     \/ MayFail /\ UNCHANGED ciSrcinfo
  /\ ciEmpty' = FALSE
  /\ UNCHANGED <<ciUpstream, ciPublished, ciPlan, ciPhase>>

(***************************************************************************)
(* Plan                                                                    *)
(***************************************************************************)
\* DiffPackages: never published, or the source is newer.
DiffPackages(src) ==
  {b \in CIPkgs : ciPublished[b] = {} \/ Newer(src[b], The(ciPublished[b]))}

\* gitSourcesChanged for the packages whose remote answered.
VcsUpdates(answered) ==
  {b \in VcsPkgs \cap answered : ciPublished[b] # {} /\ The(ciPublished[b]).ver # ciUpstream[b]}

PkgverChanged(src, b) ==
  ciPublished[b] = {} \/ src[b].ver # The(ciPublished[b]).ver

\* dependentsClosure over the make-dependency graph, seeds excluded unless
\* they depend on another seed.
RECURSIVE DependentsClosure(_)
DependentsClosure(S) ==
  LET more == {b \in CIPkgs : MakeEdges[b] \cap S # {}}
  IN IF more \subseteq S THEN more ELSE DependentsClosure(S \cup more)

\* brokenSonameDependents: published packages whose library's soname in the
\* database is not the one they link.
BrokenSonameDependents ==
  {b \in CIPkgs : /\ SoLibs[b] # 0 /\ ciPublished[b] # {} /\ ciPublished[SoLibs[b]] # {}
                  /\ The(ciPublished[b]).so # 0
                  /\ The(ciPublished[b]).so # The(ciPublished[SoLibs[b]]).ver}

\* Mutant: only rebuilds of packages never published before are cascaded.
ReasonsNewOnly(src, cascade, answered) ==
  LET diff == DiffPackages(src)
      changed == {b \in diff : ciPublished[b] = {}}
      make == IF cascade \in {"makedepends", "both"} THEN DependentsClosure(changed) ELSE {}
  IN [b \in diff \cup make |-> IF b \in diff THEN "version" ELSE "makedepends"]

\* compute's reasons: version, then VCS, then the two cascades.
Reasons(src, cascade, answered) ==
  LET diff == DiffPackages(src)
      vcs == VcsUpdates(answered)
      isVcs == {b \in vcs : b \notin diff \/ ~PkgverChanged(src, b)}
      first == diff \cup vcs
      seeds == {b \in first : b \in isVcs \/ PkgverChanged(src, b)}
      make == IF cascade \in {"makedepends", "both"}
              THEN DependentsClosure(seeds) \ first ELSE {}
      soname == IF cascade \in {"soname", "both"}
                THEN BrokenSonameDependents \ (first \cup make) ELSE {}
  IN [b \in first \cup make \cup soname |->
        CASE b \in isVcs -> "vcs"
          [] b \in first \ isVcs -> "version"
          [] b \in make -> "makedepends"
          [] OTHER -> "soname"]

\* components: the connected components of the build set.
RECURSIVE ComponentOf(_, _)
ComponentOf(deps, S) ==
  LET more == S \cup {b \in DOMAIN deps : ToSet(deps[b]) \cap S # {}}
                \cup UNION {ToSet(deps[b]) : b \in S \cap DOMAIN deps}
  IN IF more = S THEN S ELSE ComponentOf(deps, more)

Components(nodes, deps) == {ComponentOf(deps, {n}) : n \in nodes}

\* packBuckets: heaviest component first (cost 1 per package, ties by their
\* smallest member), each to the least loaded of min(workers, components)
\* buckets; a bucket keeps the global order.
RECURSIVE Pack(_, _)
Pack(comps, buckets) ==
  IF comps = {} THEN buckets
  ELSE LET c == CHOOSE x \in comps : \A y \in comps :
                  \/ Cardinality(x) > Cardinality(y)
                  \/ Cardinality(x) = Cardinality(y) /\ Min(x) <= Min(y)
           best == CHOOSE i \in DOMAIN buckets : \A j \in DOMAIN buckets :
                     \/ Cardinality(buckets[i]) < Cardinality(buckets[j])
                     \/ Cardinality(buckets[i]) = Cardinality(buckets[j]) /\ i <= j
       IN Pack(comps \ {c}, [buckets EXCEPT ![best] = @ \cup c])

\* Mutant: the packages, not the components, are dealt out.
PackBucketsSplit(comps, order, workers) ==
  LET n == Min({workers, Cardinality(comps)})
      packed == Pack({{b} : b \in UNION comps}, [i \in 1..n |-> {}])
  IN [i \in DOMAIN packed |-> SelectSeq(order, LAMBDA b : b \in packed[i])]

PackBuckets(comps, order, workers) ==
  LET n == Min({workers, Cardinality(comps)})
      packed == Pack(comps, [i \in 1..n |-> {}])
  IN [i \in DOMAIN packed |-> SelectSeq(order, LAMBDA b : b \in packed[i])]

\* compute: the build set, its order, the bump targets and the buckets.  TopoSort's error
\* on a cycle, which ends the plan, is left out: the edges of an instance have none.
Compute(src, cascade, answered, workers) ==
  LET reasons == Reasons(src, cascade, answered)
      nodes == DOMAIN reasons
      subDeps == [b \in nodes |-> Sorted(((MakeEdges[b] \cup RunEdges[b]) \cap nodes) \ {b})]
      sort == TopoSort(nodes, subDeps)
  IN [order |-> sort.order, reasons |-> reasons,
      bump |-> SelectSeq(sort.order, LAMBDA b : reasons[b] \notin {"version", "vcs"}),
      buckets |-> IF nodes = {} THEN <<>>
                  ELSE PackBuckets(Components(nodes, subDeps), sort.order, workers)]

\* ayaka ci plan: .SRCINFO files are regenerated first (a package whose
\* makepkg fails keeps the old one), VCS remotes may not answer.
Plan ==
  /\ ciPhase = "idle"
  /\ \E cascade \in Cascades, workers \in {1, 2} :
     \E lost \in {{}} \cup {{b} : b \in CIPkgs}, silent \in {{}} \cup {{b} : b \in VcsPkgs} :
       LET src == [b \in CIPkgs |-> IF b \in lost THEN ciSrcinfo[b] ELSE ciPkgbuild[b]]
           plan == Compute(src, cascade, CIPkgs \ silent, workers)
       IN /\ IF lost \cup silent = {} THEN UNCHANGED ciFailures ELSE MayFail
          /\ ciSrcinfo' = src
          /\ ciPlan' = plan
          /\ ciEmpty' = (plan.order = <<>> /\ lost \cup silent = {} /\ cascade = "both")
          /\ ciPhase' = IF plan.order = <<>> THEN "idle" ELSE "bump"
  /\ UNCHANGED <<ciUpstream, ciPkgbuild, ciPublished>>

(***************************************************************************)
(* Carrying the plan out                                                   *)
(***************************************************************************)
StopRun == ciPhase' = "idle" /\ ciPlan' = NoCIPlan

\* Mutant: no new pkgrel, the package is published under its old version.
BumpPkgrelSkipped ==
  /\ ciPhase = "bump" /\ ciPlan.bump # <<>>
  /\ ciPlan' = [ciPlan EXCEPT !.bump = Tail(@)]
  /\ UNCHANGED <<ciUpstream, ciPkgbuild, ciSrcinfo, ciPublished, ciPhase, ciEmpty, ciFailures>>

\* BumpPkgrel on the next bump target; a failing makepkg ends the run with the
\* PKGBUILD bumped.
BumpPkgrel ==
  /\ ciPhase = "bump" /\ ciPlan.bump # <<>>
  /\ LET b == Head(ciPlan.bump)
     IN /\ ciPkgbuild' = [ciPkgbuild EXCEPT ![b].rel = @ + 1]
        /\ \/ /\ GenerateSrcinfo(b)
              /\ ciPlan' = [ciPlan EXCEPT !.bump = Tail(@)]
              /\ UNCHANGED <<ciPhase, ciFailures>>
           \/ /\ MayFail /\ StopRun
              /\ UNCHANGED ciSrcinfo
  /\ UNCHANGED <<ciUpstream, ciPublished, ciEmpty>>

Bumped ==
  /\ ciPhase = "bump" /\ ciPlan.bump = <<>>
  /\ ciPhase' = "build"
  /\ UNCHANGED <<ciUpstream, ciPkgbuild, ciSrcinfo, ciPublished, ciPlan, ciEmpty, ciFailures>>

\* What building b now publishes: the PKGBUILD's version (a VCS package's
\* current commit), linked with what the repository serves at this moment.
Built(b) ==
  [ver  |-> IF b \in VcsPkgs THEN ciUpstream[b] ELSE ciPkgbuild[b].ver,
   rel  |-> ciPkgbuild[b].rel,
   made |-> [d \in MakeEdges[b] |->
               IF ciPublished[d] = {} THEN 0 ELSE The(ciPublished[d]).ver],
   so   |-> IF SoLibs[b] = 0 \/ ciPublished[SoLibs[b]] = {} THEN 0
            ELSE The(ciPublished[SoLibs[b]]).ver]

\* A build that fails ends the run; the packages before it stay published.
BuildAndPublish ==
  /\ ciPhase = "build"
  /\ LET b == Head(ciPlan.order)
     IN \/ /\ ciPublished' = [ciPublished EXCEPT ![b] = {Built(b)}]
           /\ IF Len(ciPlan.order) = 1 THEN StopRun
              ELSE ciPlan' = [ciPlan EXCEPT !.order = Tail(@)] /\ UNCHANGED ciPhase
           /\ UNCHANGED ciFailures
        \/ MayFail /\ StopRun /\ UNCHANGED ciPublished
  /\ UNCHANGED <<ciUpstream, ciPkgbuild, ciSrcinfo, ciEmpty>>

CINext == \/ \E b \in CIPkgs : UpstreamMoves(b) \/ NvBump(b)
          \/ Plan \/ BumpPkgrel \/ Bumped \/ BuildAndPublish

CISpec == CIInit /\ [][CINext]_ciVars

(***************************************************************************)
(* Properties                                                              *)
(***************************************************************************)
Fresh(b) ==
  /\ ciPublished[b] # {}
  /\ \A d \in MakeEdges[b] : The(ciPublished[b]).made[d] = The(ciPublished[d]).ver
  /\ SoLibs[b] # 0 => The(ciPublished[b]).so = The(ciPublished[SoLibs[b]]).ver

\* When a plan comes back empty nothing is left to rebuild, whatever runs
\* failed half way before: every package that is no VCS package is published in
\* its source's version, built with the versions of its make dependencies that
\* are published now and linked with its library's current soname.
EmptyPlanIsFresh ==
  ciEmpty => \A b \in CIPkgs \ VcsPkgs :
    Fresh(b) /\ ~Newer(ciPkgbuild[b], The(ciPublished[b]))

\* What a comment says and the code does not keep (README, section 6), so no run has it.
\* The same of VCS packages, as plan.go says of the cascade ("one pass
\* suffices").
EmptyPlanIsFreshVCS == ciEmpty => \A b \in VcsPkgs : Fresh(b)

\* A rebuild is a new version: what is published over an existing package is
\* strictly newer, so that clients upgrade and the repository accepts it.
RebuildIsNewer ==
  \A b \in CIPkgs :
    ciPublished[b] # {} /\ ciPublished'[b] # ciPublished[b]
      => Newer(The(ciPublished'[b]), The(ciPublished[b]))

\* The buckets hold the planned packages, each once and in the global order,
\* and a package is in the same bucket as every planned package it depends on,
\* so that parallel jobs need nothing from each other.
BucketsAreIndependent ==
  ciPhase = "bump" =>
    LET at(b) == {i \in DOMAIN ciPlan.buckets : b \in ToSet(ciPlan.buckets[i])}
    IN \A b \in DOMAIN ciPlan.reasons :
         /\ Cardinality(at(b)) = 1
         /\ \A d \in (MakeEdges[b] \cup RunEdges[b]) \cap DOMAIN ciPlan.reasons :
              /\ at(d) = at(b)
              /\ \E i, j \in DOMAIN ciPlan.buckets[The(at(b))] :
                   /\ ciPlan.buckets[The(at(b))][i] = d
                   /\ ciPlan.buckets[The(at(b))][j] = b
                   /\ i <= j

\* The parts that speak of a state; they hold trivially before the first step.
LoopIsFresh == EmptyPlanIsFresh /\ BucketsAreIndependent

\* The loop, as a whole: it ends only when nothing is left to rebuild, its parallel
\* jobs are independent, and what it publishes is newer.
LoopHolds == [][LoopIsFresh' /\ RebuildIsNewer]_ciVars
=============================================================================
