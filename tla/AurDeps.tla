------------------------------- MODULE AurDeps -------------------------------
(***************************************************************************)
(* miko's build jobs with AUR dependencies: what a job's source needs and  *)
(* the host of miko has not installed is resolved, every package of that   *)
(* order is held against the trust policy, and then they are built and     *)
(* published one after the other before the target is built.  An attempt   *)
(* that ends in an error is made again from the source on, up to           *)
(* MaxDepRetries times, unless a build itself failed.                      *)
(*                                                                         *)
(* What the host has installed does not change while the jobs run, and     *)
(* nothing is removed from the repository.                                 *)
(***************************************************************************)
EXTENDS Naturals, Sequences, FiniteSets, SequencesExt, Functions

CONSTANTS DepJobs, AurPkgs,
          AurNeeds,     \* package -> the packages of the AUR it needs
          JobNeeds,     \* job -> the packages its source needs
          Maintainers, TrustedMaintainers, TrustedPkgbases, AllowUntrusted, MaxDepRetries, MaxDepFaults

ASSUME DepAssumption ==
  /\ IsFiniteSet(AurPkgs)
  /\ AurNeeds \in [AurPkgs -> SUBSET AurPkgs]
  /\ JobNeeds \in [DepJobs -> SUBSET AurPkgs]

VARIABLES adMaintainer, \* package -> maintainer, "" orphaned
          adHost,       \* packages installed where miko runs
          adRepo,       \* packages in the job's repository
          adJ,          \* job -> [pc, tries, order, at, blocked, published, ever, bare]
          adFaults

adVars == <<adMaintainer, adHost, adRepo, adJ, adFaults>>

\* An attempt begins.  blocked and published are of this attempt, ever and bare of all.
Attempt(tries, ever, bare) ==
  [pc |-> "source", tries |-> tries, order |-> <<>>, at |-> 1, blocked |-> FALSE,
   published |-> {}, ever |-> ever, bare |-> bare]
DepJobStart == Attempt(0, {}, {})

ADInit ==
  /\ adMaintainer = [p \in AurPkgs |-> CHOOSE m \in TrustedMaintainers : TRUE]
  /\ adHost \in SUBSET AurPkgs
  /\ adRepo = {} /\ adFaults = 0
  /\ adJ = [j \in DepJobs |-> DepJobStart]

DepJob(j, r) == adJ' = [adJ EXCEPT ![j] = r]
DepFault == adFaults < MaxDepFaults /\ adFaults' = adFaults + 1

\* A package changes hands, or is orphaned.
MaintainerChanges(p, m) ==
  /\ adMaintainer[p] # m /\ DepFault
  /\ adMaintainer' = [adMaintainer EXCEPT ![p] = m]
  /\ UNCHANGED <<adHost, adRepo, adJ>>

\* Unsatisfied, of the needs and of what they need in turn: all that is not installed
\* on the host.  The repository is not asked.
Missing(needs) ==
  LET reach[n \in 0..Cardinality(AurPkgs)] ==
        IF n = 0 THEN needs \ adHost
        ELSE reach[n - 1] \cup ((UNION {AurNeeds[p] : p \in reach[n - 1]}) \ adHost)
  IN reach[Cardinality(AurPkgs)]

\* Deviation: any order.
DependencyOrderAny(set, order) == ToSet(order) = set

\* depend.Resolve: every package after those it needs.
DependencyOrder(set, order) ==
  /\ ToSet(order) = set
  /\ \A i \in DOMAIN order : AurNeeds[order[i]] \cap set \subseteq {order[k] : k \in 1..(i - 1)}

\* The lists a walk may leave: every package once.
Orders(set) == {s \in [1..Cardinality(set) -> set] : IsInjective(s)}

\* runBuild and resolveAndBuildDeps up to the order.  A source without a readable
\* .SRCINFO is built as it is.
ResolveDeps(j) ==
  /\ adJ[j].pc = "source"
  /\ LET set == Missing(JobNeeds[j])
     IN \E order \in Orders(set) :
          /\ DependencyOrder(set, order)
          /\ DepJob(j, [adJ[j] EXCEPT !.pc = IF set = {} THEN "target" ELSE "gate", !.order = order])
  /\ UNCHANGED <<adMaintainer, adHost, adRepo, adFaults>>

\* The source, the host's database or the AUR fails, a version does not satisfy, or the
\* needs go round in a cycle.
ResolveFails(j) ==
  /\ adJ[j].pc = "source"
  /\ LET set == Missing(JobNeeds[j])
     IN IF \E order \in Orders(set) : DependencyOrder(set, order) THEN DepFault ELSE UNCHANGED adFaults
  /\ DepJob(j, [adJ[j] EXCEPT !.pc = "error"])
  /\ UNCHANGED <<adMaintainer, adHost, adRepo>>

NoSrcinfo(j) ==
  /\ adJ[j].pc = "source" /\ DepFault
  /\ DepJob(j, [adJ[j] EXCEPT !.pc = "unresolved"])
  /\ UNCHANGED <<adMaintainer, adHost, adRepo>>

\* AURTrustPolicy.Decide: blocked or not.
Trusts(p) ==
  \/ p \in TrustedPkgbases
  \/ adMaintainer[p] # "" /\ adMaintainer[p] \in TrustedMaintainers
  \/ AllowUntrusted

\* Cloned, built with the repository at hand, signed and uploaded: what the job then
\* has.  bare are the packages built while something they need was nowhere.
Published(me, p) ==
  [me EXCEPT !.published = @ \cup {p}, !.ever = @ \cup {p},
             !.bare = IF AurNeeds[p] \subseteq adRepo \cup adHost THEN @ ELSE @ \cup {p}]

\* The next package of the order, or what follows the last.
NextDep(me, then) ==
  IF me.at = Len(me.order) THEN [me EXCEPT !.pc = then, !.at = 1] ELSE [me EXCEPT !.at = @ + 1]

\* Deviation: every package is built as soon as it has passed.
CheckDepTrustEach(j, found) ==
  LET me == adJ[j]
      p == me.order[me.at]
  IN /\ me.pc = "gate"
     /\ IF found THEN UNCHANGED adFaults ELSE DepFault
     /\ IF found /\ Trusts(p)
        THEN adRepo' = adRepo \cup {p} /\ DepJob(j, NextDep(Published(me, p), "target"))
        ELSE UNCHANGED adRepo /\ DepJob(j, [me EXCEPT !.pc = "error", !.blocked = TRUE])
     /\ UNCHANGED <<adMaintainer, adHost>>

\* checkDepTrust, one lookup of the first loop; one that fails blocks as well.  The
\* whole order passes before anything is built.
CheckDepTrust(j, found) ==
  LET me == adJ[j]
  IN /\ me.pc = "gate"
     /\ IF found THEN UNCHANGED adFaults ELSE DepFault
     /\ DepJob(j, IF found /\ Trusts(me.order[me.at]) THEN NextDep(me, "build")
                  ELSE [me EXCEPT !.pc = "error", !.blocked = TRUE])
     /\ UNCHANGED <<adMaintainer, adHost, adRepo>>

\* buildAndPublishDep.
BuildAndPublishDep(j) ==
  LET me == adJ[j]
      p == me.order[me.at]
  IN /\ me.pc = "build"
     /\ adRepo' = adRepo \cup {p}
     /\ DepJob(j, NextDep(Published(me, p), "target"))
     /\ UNCHANGED <<adMaintainer, adHost, adFaults>>

\* The clone, the signature or the upload of a dependency fails, or the build of one or
\* of the target is stopped: an error to retry.  A build that ran and failed, or a
\* cancelled job, is the end.
DepBuildFails(j, retriable) ==
  /\ adJ[j].pc \in {"build", "target", "unresolved"} /\ DepFault
  /\ DepJob(j, [adJ[j] EXCEPT !.pc = IF retriable THEN "error" ELSE "failed"])
  /\ UNCHANGED <<adMaintainer, adHost, adRepo>>

\* backend.Build of the target.
BuildTarget(j) ==
  /\ adJ[j].pc \in {"target", "unresolved"}
  /\ DepJob(j, [adJ[j] EXCEPT !.pc = "built"])
  /\ UNCHANGED <<adMaintainer, adHost, adRepo, adFaults>>

\* buildWithRetry after an error: runBuild from the start, or the end.
RetryBuild(j) ==
  LET me == adJ[j]
  IN /\ me.pc = "error"
     /\ DepJob(j, IF me.tries < MaxDepRetries THEN Attempt(me.tries + 1, me.ever, me.bare)
                  ELSE [me EXCEPT !.pc = "failed"])
     /\ UNCHANGED <<adMaintainer, adHost, adRepo, adFaults>>

ADNext ==
  \/ \E p \in AurPkgs, m \in Maintainers : MaintainerChanges(p, m)
  \/ \E j \in DepJobs :
       \/ ResolveDeps(j) \/ ResolveFails(j) \/ NoSrcinfo(j) \/ BuildAndPublishDep(j)
       \/ BuildTarget(j) \/ RetryBuild(j)
       \/ \E found \in BOOLEAN : CheckDepTrust(j, found)
       \/ \E retriable \in BOOLEAN : DepBuildFails(j, retriable)

ADSpec == ADInit /\ [][ADNext]_adVars

\* Whatever another job or an earlier attempt published, a dependency is built with all
\* it needs from the AUR in the repository, and so is the target with its needs and
\* theirs, except what the host of miko has installed: that is taken for there.
BuiltAgainstPublished ==
  \A j \in DepJobs :
    /\ adJ[j].bare = {}
    /\ adJ[j].pc = "target" =>
         JobNeeds[j] \cup UNION {AurNeeds[p] : p \in JobNeeds[j] \ adHost} \subseteq adRepo \cup adHost

\* An attempt with a dependency that is not trusted publishes none of them, the
\* trusted ones that come before it in the order included.
BlockedPublishesNothing == \A j \in DepJobs : adJ[j].blocked => adJ[j].published = {}

\* What comments say and the code does not keep (README, section 6), so no run has them.
\* "A single untrusted transitive dep stops the run before anything is published", of a
\* job whose earlier attempt passed the gate, published and then failed; and "publishes
\* each to ayato so the target can install it", of what the host has installed.
BlockedJobPublishedNothing == \A j \in DepJobs : adJ[j].blocked => adJ[j].ever = {}
TargetInstalls == \A j \in DepJobs : adJ[j].pc = "target" => JobNeeds[j] \subseteq adRepo

\* AUR dependencies, as a whole: built on what is published, and all or none trusted in
\* an attempt.
DependenciesHold == BuiltAgainstPublished /\ BlockedPublishesNothing
=============================================================================
