----------------------------- MODULE ToolsProofs -----------------------------
(***************************************************************************)
(* Proofs about the parts that build packages: miko's AUR dependencies,    *)
(* ayaka's build runs and the build backends.                              *)
(*                                                                         *)
(* The two closures (what a source needs from the AUR, what a base of a    *)
(* plan needs) are recursive functions of a number of rounds.  That enough *)
(* rounds saturate them is shown once, by least counterexample, for every  *)
(* function that only adds to a finite set.                                *)
(***************************************************************************)
EXTENDS AurDeps, BuildSet, BuildBackend, SequenceTheorems, FiniteSetTheorems, NaturalsInduction,
        WellFoundedInduction, TLAPS

(***************************************************************************)
(* Iterating a function that only adds                                     *)
(***************************************************************************)
\* A set of naturals that is not empty has a least member.
LEMMA LeastOf ==
  ASSUME NEW S \in SUBSET Nat, S # {}
  PROVE  \E k \in S : \A m \in S : ~(m < k)
PROOF
<1>1. PICK k \in S : \A m \in S : ~(<<m, k>> \in OpToRel(<, Nat))
  BY NatLessThanWellFounded, WFMin, Zenon
<1> QED BY <1>1 DEF OpToRel

\* f lists base and what G makes of it, step by step.
Iterates(f, N, D, base, G) ==
  f \in [0..N -> D] /\ f[0] = base /\ \A n \in 1..N : f[n] = G[f[n - 1]]

\* G only adds to the sets it is given.
Grows(G, A) == G \in [SUBSET A -> SUBSET A] /\ \A S \in SUBSET A : S \subseteq G[S]

\* h starts at base and goes on by G as long as it stays within A.
Follows(h, N, A, base, G) ==
  h[0] = base /\ \A n \in 1..N : h[n - 1] \in SUBSET A => h[n] = G[h[n - 1]]

\* S holds base, and G adds nothing to it.
Saturated(S, A, base, G) == S \in SUBSET A /\ base \subseteq S /\ G[S] = S

\* Every function on a set can be iterated.
LEMMA IterationExists ==
  ASSUME NEW D, NEW base \in D, NEW G \in [D -> D], NEW N \in Nat
  PROVE  \E f : Iterates(f, N, D, base, G)
PROOF
<1> USE DEF Iterates
<1> DEFINE Fits(f, k) == Iterates(f, k, D, base, G)
           Bad == {k \in Nat : ~\E f : Fits(f, k)}
<1>1. ASSUME Bad # {} PROVE FALSE
  <2>1. Bad \in SUBSET Nat
    OBVIOUS
  <2>2. PICK k \in Bad : \A m \in Bad : ~(m < k)
    BY <1>1, <2>1, LeastOf, Zenon
  <2>3. CASE k = 0
    <3> DEFINE f == [n \in 0..0 |-> base]
    <3>1. f \in [0..0 -> D] /\ f[0] = base
      OBVIOUS
    <3>2. Fits(f, 0)
      BY <3>1
    <3> QED BY <2>3, <3>2
  <2>4. CASE k # 0
    <3>1. k \in Nat /\ k - 1 \in Nat /\ k - 1 < k
      BY <2>4
    <3>2. k - 1 \notin Bad
      BY <2>2, <3>1
    <3>3. PICK f : Fits(f, k - 1)
      BY <3>1, <3>2
    <3> DEFINE g == [n \in 0..k |-> IF n = k THEN G[f[k - 1]] ELSE f[n]]
    <3>4. f[k - 1] \in D /\ G[f[k - 1]] \in D
      BY <3>1, <3>3
    <3>5. g \in [0..k -> D]
      BY <3>1, <3>3, <3>4
    <3>6. g[0] = base
      BY <3>1, <3>3, <2>4
    <3>7. ASSUME NEW n \in 1..k PROVE g[n] = G[g[n - 1]]
      <4>1. n \in 0..k /\ n - 1 \in 0..k /\ n - 1 # k
        BY <3>1
      <4>2. g[n - 1] = f[n - 1]
        BY <4>1
      <4>3. CASE n = k
        BY <4>1, <4>2, <4>3
      <4>4. CASE n # k
        <5>1. n \in 1..(k - 1)
          BY <3>1, <4>4
        <5>2. f[n] = G[f[n - 1]]
          BY <5>1, <3>3
        <5> QED BY <4>1, <4>2, <4>4, <5>2
      <4> QED BY <4>3, <4>4
    <3>8. Fits(g, k)
      BY <3>5, <3>6, <3>7
    <3> HIDE DEF g
    <3> QED BY <3>8
  <2> QED BY <2>3, <2>4
<1> QED BY <1>1

\* On a finite set, an iteration that only adds has come to its end after as many
\* steps as the set has members.
LEMMA IterationSaturates ==
  ASSUME NEW A, IsFiniteSet(A), NEW N \in Nat, N >= Cardinality(A), NEW base \in SUBSET A,
         NEW G, Grows(G, A), NEW h, Follows(h, N, A, base, G)
  PROVE  Saturated(h[N], A, base, G)
PROOF
<1> USE DEF Grows, Follows, Saturated
<1> DEFINE Good(n) == /\ h[n] \in SUBSET A /\ base \subseteq h[n]
                      /\ G[h[n]] = h[n] \/ Cardinality(h[n]) >= n
           Bad == {n \in Nat : n <= N /\ ~Good(n)}
<1>1. ASSUME NEW S \in SUBSET A PROVE IsFiniteSet(S) /\ Cardinality(S) \in Nat /\ Cardinality(S) <= Cardinality(A)
  BY FS_Subset, FS_CardinalityType
<1>2. ASSUME Bad # {} PROVE FALSE
  <2>1. Bad \in SUBSET Nat
    OBVIOUS
  <2>2. PICK k \in Bad : \A m \in Bad : ~(m < k)
    BY <1>2, <2>1, LeastOf, Zenon
  <2>3. k \in Nat /\ k <= N /\ ~Good(k)
    OBVIOUS
  <2>4. k # 0
    <3>1. Cardinality(h[0]) >= 0
      BY <1>1
    <3> QED BY <2>3, <3>1
  <2>5. k - 1 \in Nat /\ k - 1 < k /\ k - 1 <= N /\ k \in 1..N
    BY <2>3, <2>4
  <2>6. Good(k - 1)
    BY <2>2, <2>5
  <2>7. h[k] = G[h[k - 1]] /\ h[k - 1] \subseteq h[k] /\ h[k] \in SUBSET A
    BY <2>5, <2>6
  <2>8. CASE G[h[k - 1]] = h[k - 1]
    BY <2>3, <2>6, <2>7, <2>8
  <2>9. CASE G[h[k - 1]] # h[k - 1]
    <3>1. Cardinality(h[k - 1]) >= k - 1
      BY <2>6, <2>9
    <3>2. Cardinality(h[k - 1]) <= Cardinality(h[k]) /\ Cardinality(h[k - 1]) # Cardinality(h[k])
      BY <2>6, <2>7, <2>9, <1>1, FS_Subset
    <3>3. Cardinality(h[k]) >= k
      BY <3>1, <3>2, <1>1, <2>5, <2>6, <2>7
    <3> QED BY <3>3, <2>3, <2>6, <2>7
  <2> QED BY <2>8, <2>9
<1>3. Good(N)
  BY <1>2
<1>4. CASE Cardinality(h[N]) >= N
  <2>1. Cardinality(h[N]) = Cardinality(A)
    BY <1>1, <1>3, <1>4, FS_CardinalityType
  <2>2. h[N] = A
    BY <1>3, <2>1, FS_Subset
  <2>3. A \in SUBSET A /\ A \subseteq G[A] /\ G[A] \subseteq A
    OBVIOUS
  <2> QED BY <2>2, <2>3
<1> QED BY <1>3, <1>4

\* G does not lead out of W.
Keeps(G, W) == \A S \in SUBSET W : G[S] \in SUBSET W

\* What the base lies in and G never leaves, the iteration never leaves.
LEMMA IterationWithin ==
  ASSUME NEW A, NEW N \in Nat, NEW base, NEW G, NEW h, NEW W \in SUBSET A,
         base \in SUBSET W, Follows(h, N, A, base, G), Keeps(G, W)
  PROVE  h[N] \in SUBSET W
PROOF
<1> USE DEF Follows, Keeps
<1> DEFINE Bad == {n \in Nat : n <= N /\ h[n] \notin SUBSET W}
<1>1. ASSUME Bad # {} PROVE FALSE
  <2>1. Bad \in SUBSET Nat
    OBVIOUS
  <2>2. PICK k \in Bad : \A m \in Bad : ~(m < k)
    BY <1>1, <2>1, LeastOf, Zenon
  <2>3. k \in Nat /\ k <= N /\ h[k] \notin SUBSET W /\ k # 0
    OBVIOUS
  <2>4. k - 1 \in Nat /\ k - 1 < k /\ k - 1 <= N /\ k \in 1..N
    BY <2>3
  <2>5. h[k - 1] \in SUBSET W
    BY <2>2, <2>4
  <2>6. h[k] = G[h[k - 1]]
    BY <2>4, <2>5
  <2> QED BY <2>3, <2>5, <2>6
<1> QED BY <1>1

\* The packages resolveDeps finds missing hold what a source needs and the host lacks, and with
\* every package all that it needs in turn: as many rounds as there are packages saturate the closure.
LEMMA MissingIsClosed ==
  ASSUME NEW needs \in SUBSET AurPkgs
  PROVE  /\ needs \subseteq Missing(needs) \cup adHost
         /\ Missing(needs) \subseteq AurPkgs \ adHost
         /\ \A p \in Missing(needs) : AurNeeds[p] \subseteq Missing(needs) \cup adHost
PROOF
<1> DEFINE N == Cardinality(AurPkgs)
           A == AurPkgs \ adHost
           Of(S) == UNION {AurNeeds[p] : p \in S}
           More(S) == S \cup (Of(S) \ adHost)
           G == [S \in SUBSET A |-> More(S)]
           Rec(f) == f = [n \in 0..N |-> IF n = 0 THEN needs \ adHost ELSE More(f[n - 1])]
<1>1. N \in Nat /\ IsFiniteSet(A) /\ N >= Cardinality(A)
  BY DepAssumption, FS_CardinalityType, FS_Subset
<1>2. ASSUME NEW S \in SUBSET A PROVE More(S) \in SUBSET A /\ S \subseteq More(S) /\ G[S] = More(S)
  <2>1. \A p \in S : AurNeeds[p] \subseteq AurPkgs
    BY DepAssumption
  <2>2. UNION {AurNeeds[p] : p \in S} \subseteq AurPkgs
    <3> SUFFICES ASSUME NEW x \in UNION {AurNeeds[p] : p \in S} PROVE x \in AurPkgs
      OBVIOUS
    <3>1. PICK p \in S : x \in AurNeeds[p]
      OBVIOUS
    <3> QED BY <2>1, <3>1
  <2>3. G[S] = More(S)
    BY Zenon
  <2>4. Of(S) \subseteq AurPkgs
    BY <2>2
  <2> HIDE DEF Of, G
  <2> QED BY <2>3, <2>4
<1>3. G \in [SUBSET A -> SUBSET A] /\ \A S \in SUBSET A : S \subseteq G[S]
  BY <1>2
<1>4. needs \ adHost \in SUBSET A
  OBVIOUS
<1>5. PICK g \in [0..N -> SUBSET A] : g[0] = needs \ adHost /\ \A n \in 1..N : g[n] = G[g[n - 1]]
  <2> DEFINE b == needs \ adHost
             D == SUBSET A
  <2>1. b \in D /\ G \in [D -> D] /\ N \in Nat
    BY <1>1, <1>3, <1>4
  <2> HIDE DEF G, A, N, b, D
  <2>2. \E f : Iterates(f, N, D, b, G)
    BY <2>1, IterationExists
  <2> QED BY <2>2 DEF b, D, Iterates
<1>6. Rec(g)
  <2>1. ASSUME NEW n \in 0..N
        PROVE  g[n] = IF n = 0 THEN needs \ adHost ELSE More(g[n - 1])
    <3>1. CASE n = 0
      BY <1>5, <3>1
    <3>2. CASE n # 0
      <4>1. n \in 1..N /\ n - 1 \in 0..N
        BY <1>1, <3>2
      <4>2. g[n] = G[g[n - 1]] /\ g[n - 1] \in SUBSET A
        BY <1>5, <4>1
      <4>3. G[g[n - 1]] = More(g[n - 1])
        BY <1>2, <4>2
      <4> HIDE DEF More, G
      <4> QED BY <3>2, <4>2, <4>3
    <3> QED BY <3>1, <3>2
  <2> QED BY <1>5, <2>1
<1> DEFINE reach == CHOOSE f : Rec(f)
<1>7. Rec(reach)
  BY <1>6
<1>8. Missing(needs) = reach[N]
  BY DEF Missing
<1> HIDE DEF reach
<1>9. reach[0] = needs \ adHost
  BY <1>1, <1>7
<1>10. ASSUME NEW n \in 1..N PROVE reach[n] = More(reach[n - 1])
  <2>1. n \in 0..N /\ n # 0
    BY <1>1
  <2>2. reach[n] = IF n = 0 THEN needs \ adHost ELSE More(reach[n - 1])
    BY <1>7, <2>1
  <2> HIDE DEF More
  <2> QED BY <2>1, <2>2
<1>11. reach[N] \in SUBSET A /\ needs \ adHost \subseteq reach[N] /\ G[reach[N]] = reach[N]
  <2> DEFINE b == needs \ adHost
  <2>1. \A n \in 1..N : reach[n - 1] \in SUBSET A => reach[n] = G[reach[n - 1]]
    BY <1>2, <1>10
  <2>2. b \in SUBSET A /\ Follows(reach, N, A, b, G) /\ Grows(G, A)
    BY <1>3, <1>4, <1>9, <2>1 DEF Follows, Grows
  <2> HIDE DEF b, N, G, A
  <2>3. Saturated(reach[N], A, b, G)
    BY <1>1, <2>2, IterationSaturates
  <2> QED BY <2>3 DEF b, Saturated
<1>12. More(reach[N]) = reach[N]
  BY <1>2, <1>11
<1>13. ASSUME NEW p \in reach[N] PROVE AurNeeds[p] \subseteq reach[N] \cup adHost
  <2> SUFFICES ASSUME NEW x \in AurNeeds[p], x \notin adHost PROVE x \in reach[N]
    OBVIOUS
  <2>1. x \in Of(reach[N])
    OBVIOUS
  <2> HIDE DEF Of, N
  <2>2. x \in More(reach[N])
    BY <2>1
  <2> QED BY <2>2, <1>12
<1> HIDE DEF N, G
<1> QED BY <1>8, <1>11, <1>13

(***************************************************************************)
(* AUR dependencies                                                        *)
(***************************************************************************)

\* A job: its order lists all that its source needs and the repository repo lacks, every
\* package after those it needs, and while it builds, what comes before its place is published.
DepRecord(r, needs, repo) ==
  /\ r.bare = {}
  /\ r.pc \in {"source", "gate"} => r.published = {}
  /\ r.pc = "source" => r.at = 1
  /\ r.blocked => r.published = {} /\ r.pc \in {"error", "failed"}
  /\ r.pc = "target" => needs \subseteq repo
  /\ r.pc \in {"gate", "build"} =>
       /\ r.order \in Seq(AurPkgs) /\ r.at \in 1..Len(r.order)
       /\ needs \subseteq repo \cup ToSet(r.order)
       /\ \A i \in 1..Len(r.order) : AurNeeds[r.order[i]] \subseteq repo \cup {r.order[k] : k \in 1..(i - 1)}
  /\ r.pc = "build" => \A i \in 1..(r.at - 1) : r.order[i] \in repo

DepFields ==
  [pc : {"source", "unresolved", "gate", "build", "target", "built", "error", "failed"}, tries : Nat,
   order : Seq(AurPkgs), at : Nat, blocked : BOOLEAN, published : SUBSET AurPkgs, ever : SUBSET AurPkgs,
   bare : SUBSET AurPkgs]

\* What a build has: the repository, and what the host is taken to have.
Have == adRepo \cup adHost

\* What is in the repository has what it needs, and every job's record is right.
ADInv ==
  /\ adRepo \subseteq AurPkgs /\ \A p \in adRepo : AurNeeds[p] \subseteq Have
  /\ adJ \in [DepJobs -> DepFields]
  /\ \A j \in DepJobs : DepRecord(adJ[j], JobNeeds[j], Have)

\* A repository that grows keeps every job's record right.
LEMMA DepRecordGrows ==
  ASSUME NEW r, NEW needs, NEW repo, NEW more, DepRecord(r, needs, repo), repo \subseteq more
  PROVE  DepRecord(r, needs, more)
PROOF
<1>1. CASE r.pc \in {"gate", "build"}
  <2>1. needs \subseteq more \cup ToSet(r.order)
    BY <1>1 DEF DepRecord
  <2>2. \A i \in 1..Len(r.order) : AurNeeds[r.order[i]] \subseteq more \cup {r.order[k] : k \in 1..(i - 1)}
    BY <1>1 DEF DepRecord
  <2>3. r.pc = "build" => \A i \in 1..(r.at - 1) : r.order[i] \in more
    BY DEF DepRecord
  <2> QED BY <1>1, <2>1, <2>2, <2>3 DEF DepRecord
<1>2. CASE r.pc \notin {"gate", "build"}
  BY <1>2 DEF DepRecord
<1> QED BY <1>1, <1>2

\* One job moves on, and the repository stays or grows to another closed one.
LEMMA DepJobMoves ==
  ASSUME ADInv, NEW j \in DepJobs, NEW r \in DepFields, adJ' = [adJ EXCEPT ![j] = r],
         adRepo \subseteq adRepo', adRepo' \subseteq AurPkgs, adHost' = adHost,
         \A p \in adRepo' : AurNeeds[p] \subseteq Have',
         DepRecord(r, JobNeeds[j], Have')
  PROVE  ADInv'
PROOF
<1>1. adJ' \in [DepJobs -> DepFields]
  BY DEF ADInv
<1>2. ASSUME NEW k \in DepJobs PROVE DepRecord(adJ'[k], JobNeeds[k], Have')
  <2>1. CASE k = j
    BY <2>1 DEF ADInv
  <2>2. CASE k # j
    <3>1. adJ'[k] = adJ[k] /\ DepRecord(adJ[k], JobNeeds[k], Have) /\ Have \subseteq Have'
      BY <2>2 DEF ADInv, Have
    <3> QED BY <3>1, DepRecordGrows
  <2> QED BY <2>1, <2>2
<1> QED BY <1>1, <1>2 DEF ADInv

\* No job has started: the invariant holds.
LEMMA ADInitInv == ASSUME ADInit PROVE ADInv
PROOF
<1>1. DepJobStart \in DepFields
  <2>1. <<>> \in Seq(AurPkgs) /\ 1 \in Nat /\ 0 \in Nat
    OBVIOUS
  <2> QED BY <2>1, Zenon DEF DepJobStart, Attempt, DepFields
<1>2. \A j \in DepJobs : DepRecord(DepJobStart, JobNeeds[j], Have)
  BY DEF DepJobStart, Attempt, DepRecord
<1> QED BY <1>1, <1>2 DEF ADInit, ADInv

\* An order of a set is a list without repetition of all its members.
LEMMA OrderOfSet ==
  ASSUME NEW set \in SUBSET AurPkgs, NEW order \in Orders(set)
  PROVE  /\ order \in Seq(AurPkgs) /\ Len(order) = Cardinality(set) /\ DOMAIN order = 1..Len(order)
         /\ set # {} => Len(order) >= 1
PROOF
<1>1. IsFiniteSet(set) /\ Cardinality(set) \in Nat
  BY DepAssumption, FS_Subset, FS_CardinalityType
<1>2. order \in [1..Cardinality(set) -> set]
  BY DEF Orders
<1>3. order \in [1..Cardinality(set) -> AurPkgs]
  BY <1>2
<1>4. order \in Seq(AurPkgs) /\ Len(order) = Cardinality(set)
  BY <1>1, <1>3
<1>5. set # {} => Cardinality(set) # 0
  BY <1>1, FS_EmptySet
<1> QED BY <1>1, <1>2, <1>4, <1>5

\* The order a job takes from the resolver starts right.
LEMMA ResolveDepsInv ==
  ASSUME ADInv, NEW j \in DepJobs, ResolveDeps(j)
  PROVE  ADInv'
PROOF
<1> DEFINE set == Missing(JobNeeds[j])
<1>1. JobNeeds[j] \in SUBSET AurPkgs
  BY DepAssumption
<1>2. /\ JobNeeds[j] \subseteq set \cup adHost /\ set \in SUBSET AurPkgs
      /\ \A p \in set : AurNeeds[p] \subseteq set \cup adHost
  BY <1>1, MissingIsClosed
<1>3. PICK order \in Orders(set) :
        /\ DependencyOrder(set, order)
        /\ adJ' = [adJ EXCEPT ![j] = [adJ[j] EXCEPT !.pc = IF set = {} THEN "target" ELSE "gate", !.order = order]]
  BY DEF ResolveDeps, DepJob
<1>4. /\ adJ[j].pc = "source" /\ adRepo' = adRepo /\ adHost' = adHost /\ adJ[j] \in DepFields
      /\ DepRecord(adJ[j], JobNeeds[j], Have)
      /\ adRepo \subseteq AurPkgs /\ \A p \in adRepo : AurNeeds[p] \subseteq Have
  BY DEF ResolveDeps, ADInv
<1> HIDE DEF set
<1>5. /\ order \in Seq(AurPkgs) /\ DOMAIN order = 1..Len(order) /\ Len(order) \in Nat
      /\ set # {} => Len(order) >= 1
  BY <1>2, <1>3, OrderOfSet
<1> DEFINE pc == IF set = {} THEN "target" ELSE "gate"
           r == [adJ[j] EXCEPT !.pc = pc, !.order = order]
<1>6. pc \in {"target", "gate"} /\ (pc = "target" <=> set = {})
  <2>1. CASE set = {}
    BY <2>1
  <2>2. CASE set # {}
    BY <2>2
  <2> QED BY <2>1, <2>2
<1> HIDE DEF pc
<1>7. r \in DepFields
  BY <1>4, <1>5, <1>6 DEF DepFields
<1>8. /\ r.pc = pc /\ r.order = order /\ r.at = adJ[j].at /\ r.blocked = adJ[j].blocked
      /\ r.published = adJ[j].published /\ r.bare = adJ[j].bare
  BY <1>4 DEF DepFields
<1> HIDE DEF r
<1>9. ASSUME NEW i \in 1..Len(order)
      PROVE  AurNeeds[order[i]] \subseteq Have \cup {order[k] : k \in 1..(i - 1)}
  <2>1. order[i] \in set
    BY <1>3, <1>5 DEF DependencyOrder, ToSet
  <2>2. AurNeeds[order[i]] \cap set \subseteq {order[k] : k \in 1..(i - 1)}
    BY <1>3, <1>5 DEF DependencyOrder
  <2> QED BY <1>2, <2>1, <2>2 DEF Have
<1>10. ToSet(order) = set
  BY <1>3 DEF DependencyOrder
<1>11. DepRecord(r, JobNeeds[j], Have)
  <2>1. r.bare = {} /\ r.published = {} /\ ~r.blocked
    BY <1>4, <1>8 DEF DepRecord
  <2>2. r.pc = "target" => JobNeeds[j] \subseteq Have
    BY <1>2, <1>6, <1>8 DEF Have
  <2>3. r.pc = "gate" => r.at \in 1..Len(r.order)
    BY <1>4, <1>5, <1>6, <1>8 DEF DepRecord
  <2>4. JobNeeds[j] \subseteq Have \cup ToSet(r.order)
    BY <1>2, <1>8, <1>10 DEF Have
  <2> QED BY <1>5, <1>6, <1>8, <1>9, <2>1, <2>2, <2>3, <2>4 DEF DepRecord
<1>12. adJ' = [adJ EXCEPT ![j] = r]
  BY <1>3 DEF r, pc
<1>13. Have' = Have
  BY <1>4 DEF Have
<1> QED BY <1>4, <1>7, <1>11, <1>12, <1>13, DepJobMoves

\* A job that stops where it is, at its end, in an error or at the target.
LEMMA DepStops ==
  ASSUME ADInv, NEW j \in DepJobs, NEW pc \in {"unresolved", "built", "error", "failed"},
         adJ' = [adJ EXCEPT ![j] = [adJ[j] EXCEPT !.pc = pc]], adRepo' = adRepo, adHost' = adHost,
         pc \in {"unresolved", "built"} => adJ[j].pc \in {"source", "target", "unresolved"}
  PROVE  ADInv'
PROOF
<1> DEFINE r == [adJ[j] EXCEPT !.pc = pc]
<1>1. /\ adJ[j] \in DepFields /\ DepRecord(adJ[j], JobNeeds[j], Have) /\ Have' = Have
      /\ adRepo \subseteq AurPkgs /\ \A p \in adRepo : AurNeeds[p] \subseteq Have
  BY DEF ADInv, Have
<1>2. /\ r \in DepFields /\ r.pc = pc /\ r.blocked = adJ[j].blocked
      /\ r.published = adJ[j].published /\ r.bare = adJ[j].bare
  BY <1>1, Zenon DEF DepFields
<1> HIDE DEF r
<1>3. DepRecord(r, JobNeeds[j], Have)
  BY <1>1, <1>2 DEF DepRecord
<1>4. adJ' = [adJ EXCEPT ![j] = r]
  BY DEF r
<1> QED BY <1>1, <1>2, <1>3, <1>4, DepJobMoves

\* The steps that only stop a job.
LEMMA DepStopsInv ==
  ASSUME ADInv, NEW j \in DepJobs,
         \/ NoSrcinfo(j) \/ ResolveFails(j) \/ BuildTarget(j)
         \/ \E retriable \in BOOLEAN : DepBuildFails(j, retriable)
  PROVE  ADInv'
PROOF
<1>1. CASE NoSrcinfo(j)
  BY <1>1, DepStops DEF NoSrcinfo, DepJob
<1>2. CASE ResolveFails(j)
  BY <1>2, DepStops DEF ResolveFails, DepJob
<1>3. CASE BuildTarget(j)
  BY <1>3, DepStops DEF BuildTarget, DepJob
<1>4. ASSUME NEW retriable \in BOOLEAN, DepBuildFails(j, retriable) PROVE ADInv'
  <2> DEFINE pc == IF retriable THEN "error" ELSE "failed"
  <2>1. pc \in {"error", "failed"}
    OBVIOUS
  <2>2. adJ' = [adJ EXCEPT ![j] = [adJ[j] EXCEPT !.pc = pc]] /\ adRepo' = adRepo /\ adHost' = adHost
    BY <1>4 DEF DepBuildFails, DepJob
  <2> HIDE DEF pc
  <2> QED BY <2>1, <2>2, DepStops
<1> QED BY <1>1, <1>2, <1>3, <1>4

\* Another attempt starts with nothing of the last but what it published.
LEMMA RetryBuildInv ==
  ASSUME ADInv, NEW j \in DepJobs, RetryBuild(j)
  PROVE  ADInv'
PROOF
<1>1. /\ adJ[j] \in DepFields /\ DepRecord(adJ[j], JobNeeds[j], Have) /\ adRepo' = adRepo /\ adHost' = adHost /\ Have' = Have
      /\ adRepo \subseteq AurPkgs /\ \A p \in adRepo : AurNeeds[p] \subseteq Have /\ adJ[j].pc = "error"
  BY DEF ADInv, Have, RetryBuild
<1>2. CASE adJ' = [adJ EXCEPT ![j] = Attempt(adJ[j].tries + 1, adJ[j].ever, adJ[j].bare)]
  <2> DEFINE r == Attempt(adJ[j].tries + 1, adJ[j].ever, adJ[j].bare)
  <2>1. <<>> \in Seq(AurPkgs) /\ adJ[j].tries + 1 \in Nat /\ adJ[j].bare = {}
    BY <1>1 DEF DepFields, DepRecord
  <2>2. adJ[j].ever \in SUBSET AurPkgs
    BY <1>1 DEF DepFields
  <2>3. r \in DepFields
    BY <2>1, <2>2 DEF Attempt, DepFields
  <2>4. DepRecord(r, JobNeeds[j], Have)
    BY <2>1 DEF Attempt, DepRecord
  <2> HIDE DEF r
  <2>5. adJ' = [adJ EXCEPT ![j] = r]
    BY <1>2 DEF r
  <2> QED BY <1>1, <2>3, <2>4, <2>5, DepJobMoves
<1>3. CASE adJ' = [adJ EXCEPT ![j] = [adJ[j] EXCEPT !.pc = "failed"]]
  BY <1>1, <1>3, DepStops
<1> QED BY <1>2, <1>3 DEF RetryBuild, DepJob

\* The place after this one, of the order or of the job.
LEMMA NextDepIs ==
  ASSUME NEW me \in DepFields, me.at \in 1..Len(me.order), NEW then \in {"build", "target"}
  PROVE  /\ NextDep(me, then) \in DepFields
         /\ NextDep(me, then).order = me.order /\ NextDep(me, then).blocked = me.blocked
         /\ NextDep(me, then).published = me.published /\ NextDep(me, then).bare = me.bare
         /\ \/ me.at = Len(me.order) /\ NextDep(me, then).pc = then /\ NextDep(me, then).at = 1
            \/ /\ me.at < Len(me.order) /\ NextDep(me, then).pc = me.pc
               /\ NextDep(me, then).at = me.at + 1
PROOF
<1>0. me.order \in Seq(AurPkgs) /\ Len(me.order) \in Nat /\ me.at \in Nat /\ me.at + 1 \in Nat /\ 1 \in Nat
  BY DEF DepFields
<1>1. CASE me.at = Len(me.order)
  <2> DEFINE r == [me EXCEPT !.pc = then, !.at = 1]
  <2>1. NextDep(me, then) = r
    BY <1>1 DEF NextDep
  <2>2. /\ r \in DepFields /\ r.order = me.order /\ r.blocked = me.blocked
        /\ r.published = me.published /\ r.bare = me.bare /\ r.pc = then /\ r.at = 1
    BY DEF DepFields
  <2> QED BY <1>1, <2>1, <2>2
<1>2. CASE me.at # Len(me.order)
  <2> DEFINE r == [me EXCEPT !.at = me.at + 1]
  <2>1. NextDep(me, then) = r
    BY <1>2 DEF NextDep
  <2>2. /\ r \in DepFields /\ r.order = me.order /\ r.blocked = me.blocked
        /\ r.published = me.published /\ r.bare = me.bare /\ r.pc = me.pc /\ r.at = me.at + 1
    BY <1>0 DEF DepFields
  <2>3. me.at < Len(me.order)
    BY <1>0, <1>2
  <2> QED BY <2>1, <2>2, <2>3
<1> QED BY <1>1, <1>2

\* The trust gate, one dependency: a blocked attempt ends before it built anything.
LEMMA CheckDepTrustInv ==
  ASSUME ADInv, NEW j \in DepJobs, NEW found \in BOOLEAN, CheckDepTrust(j, found)
  PROVE  ADInv'
PROOF
<1> DEFINE me == adJ[j]
<1>1. /\ me.pc = "gate" /\ adRepo' = adRepo /\ adHost' = adHost /\ me \in DepFields
      /\ DepRecord(me, JobNeeds[j], Have)
      /\ adRepo \subseteq AurPkgs /\ \A p \in adRepo : AurNeeds[p] \subseteq Have
  BY DEF CheckDepTrust, ADInv
<1>h. Have' = Have
  BY <1>1 DEF Have
<1>2. \/ adJ' = [adJ EXCEPT ![j] = NextDep(me, "build")]
      \/ adJ' = [adJ EXCEPT ![j] = [me EXCEPT !.pc = "error", !.blocked = TRUE]]
  BY DEF CheckDepTrust, DepJob
<1> HIDE DEF me
<1>3. CASE adJ' = [adJ EXCEPT ![j] = NextDep(me, "build")]
  <2> DEFINE r == NextDep(me, "build")
  <2>1. me.at \in 1..Len(me.order) /\ Len(me.order) \in Nat /\ me.at \in Nat
    BY <1>1 DEF DepRecord, DepFields
  <2>2. /\ r \in DepFields /\ r.order = me.order /\ r.blocked = me.blocked
        /\ r.published = me.published /\ r.bare = me.bare
        /\ \/ me.at = Len(me.order) /\ r.pc = "build" /\ r.at = 1
           \/ me.at < Len(me.order) /\ r.pc = me.pc /\ r.at = me.at + 1
    BY <1>1, <2>1, NextDepIs
  <2>3. r.pc \in {"gate", "build"} /\ r.at \in 1..Len(r.order) /\ (r.pc = "build" => r.at = 1)
    BY <1>1, <2>1, <2>2
  <2> HIDE DEF r
  <2>4. r.bare = {} /\ r.published = {} /\ ~r.blocked
    BY <1>1, <2>2 DEF DepRecord
  <2>5. r.order \in Seq(AurPkgs) /\ JobNeeds[j] \subseteq Have \cup ToSet(r.order)
    BY <1>1, <2>2 DEF DepRecord
  <2>6. \A i \in 1..Len(r.order) : AurNeeds[r.order[i]] \subseteq Have \cup {r.order[k] : k \in 1..(i - 1)}
    BY <1>1, <2>2 DEF DepRecord
  <2>7. r.pc = "build" => \A i \in 1..(r.at - 1) : r.order[i] \in Have
    BY <2>3
  <2>8. DepRecord(r, JobNeeds[j], Have)
    BY <2>3, <2>4, <2>5, <2>6, <2>7 DEF DepRecord
  <2> QED BY <1>1, <1>h, <1>3, <2>2, <2>8, DepJobMoves DEF r
<1>4. CASE adJ' = [adJ EXCEPT ![j] = [me EXCEPT !.pc = "error", !.blocked = TRUE]]
  <2> DEFINE r == [me EXCEPT !.pc = "error", !.blocked = TRUE]
  <2>1. /\ r \in DepFields /\ r.pc = "error" /\ r.published = me.published /\ r.bare = me.bare
    BY <1>1, Zenon DEF DepFields
  <2> HIDE DEF r
  <2>2. me.published = {} /\ me.bare = {}
    BY <1>1 DEF DepRecord
  <2>3. DepRecord(r, JobNeeds[j], Have)
    BY <2>1, <2>2 DEF DepRecord
  <2> QED BY <1>1, <1>h, <1>4, <2>1, <2>3, DepJobMoves DEF r
<1> QED BY <1>2, <1>3, <1>4

\* What a dependency is built with is in the repository, so it joins it, and the job goes on.
LEMMA BuildAndPublishDepInv ==
  ASSUME ADInv, NEW j \in DepJobs, BuildAndPublishDep(j)
  PROVE  ADInv'
PROOF
<1> DEFINE me == adJ[j]
           p == me.order[me.at]
           mine == Published(me, p)
           r == NextDep(mine, "target")
<1>1. /\ me.pc = "build" /\ adRepo' = adRepo \cup {p} /\ adHost' = adHost /\ me \in DepFields
      /\ DepRecord(me, JobNeeds[j], Have) /\ adJ' = [adJ EXCEPT ![j] = r]
      /\ adRepo \subseteq AurPkgs /\ \A q \in adRepo : AurNeeds[q] \subseteq Have
  BY DEF BuildAndPublishDep, ADInv, DepJob
<1> HIDE DEF me, r
<1>2. /\ me.order \in Seq(AurPkgs) /\ me.at \in 1..Len(me.order) /\ Len(me.order) \in Nat /\ me.at \in Nat
      /\ JobNeeds[j] \subseteq Have \cup ToSet(me.order) /\ me.bare = {} /\ ~me.blocked
      /\ \A i \in 1..Len(me.order) : AurNeeds[me.order[i]] \subseteq Have \cup {me.order[k] : k \in 1..(i - 1)}
      /\ \A i \in 1..(me.at - 1) : me.order[i] \in Have
  BY <1>1 DEF DepRecord, DepFields
<1>3. p \in AurPkgs
  BY <1>2
<1>4. AurNeeds[p] \subseteq Have
  <2>1. AurNeeds[p] \subseteq Have \cup {me.order[k] : k \in 1..(me.at - 1)}
    BY <1>2
  <2> QED BY <1>2, <2>1
<1>h. Have' = Have \cup {p}
  BY <1>1 DEF Have
<1>5. adRepo' \subseteq AurPkgs /\ \A q \in adRepo' : AurNeeds[q] \subseteq Have'
  BY <1>1, <1>3, <1>4, <1>h
<1>6. /\ mine \in DepFields /\ mine.order = me.order /\ mine.at = me.at /\ mine.pc = "build"
      /\ mine.blocked = me.blocked /\ mine.bare = {}
  <2> HIDE DEF p
  <2>1. mine = [me EXCEPT !.published = me.published \cup {p}, !.ever = me.ever \cup {p}, !.bare = me.bare]
    BY <1>4 DEF Published, Have
  <2>2. me.published \cup {p} \in SUBSET AurPkgs /\ me.ever \cup {p} \in SUBSET AurPkgs
    BY <1>1, <1>3 DEF DepFields
  <2> HIDE DEF mine
  <2> QED BY <1>1, <1>2, <2>1, <2>2 DEF DepFields
<1> HIDE DEF mine
<1>7. /\ r \in DepFields /\ r.order = me.order /\ r.blocked = me.blocked /\ r.bare = {}
      /\ \/ me.at = Len(me.order) /\ r.pc = "target" /\ r.at = 1
         \/ me.at < Len(me.order) /\ r.pc = "build" /\ r.at = me.at + 1
  BY <1>2, <1>6, NextDepIs DEF r
<1>8. \A i \in 1..me.at : me.order[i] \in Have'
  BY <1>1, <1>2, <1>h
<1>9. CASE me.at = Len(me.order) /\ r.pc = "target"
  <2>1. ToSet(me.order) \subseteq Have'
    BY <1>2, <1>8, <1>9 DEF ToSet
  <2>2. JobNeeds[j] \subseteq Have'
    BY <1>2, <1>h, <2>1
  <2>3. DepRecord(r, JobNeeds[j], Have')
    BY <1>2, <1>7, <1>9, <2>2 DEF DepRecord
  <2> QED BY <1>1, <1>5, <1>7, <2>3, DepJobMoves
<1>10. CASE me.at < Len(me.order) /\ r.pc = "build" /\ r.at = me.at + 1
  <2>1. r.at \in 1..Len(r.order) /\ r.at - 1 = me.at
    BY <1>2, <1>7, <1>10
  <2>2. \A i \in 1..(r.at - 1) : r.order[i] \in Have'
    BY <1>7, <1>8, <2>1
  <2>3. \A i \in 1..Len(r.order) : AurNeeds[r.order[i]] \subseteq Have' \cup {r.order[k] : k \in 1..(i - 1)}
    BY <1>2, <1>7, <1>h
  <2>4. JobNeeds[j] \subseteq Have' \cup ToSet(r.order)
    BY <1>2, <1>7, <1>h
  <2>5. DepRecord(r, JobNeeds[j], Have')
    BY <1>2, <1>7, <1>10, <2>1, <2>2, <2>3, <2>4 DEF DepRecord
  <2> QED BY <1>1, <1>5, <1>7, <2>5, DepJobMoves
<1> QED BY <1>7, <1>9, <1>10

\* A step keeps the invariant.
LEMMA ADNextInv ==
  ASSUME ADInv, [ADNext]_adVars
  PROVE  ADInv'
PROOF
<1>1. CASE adRepo' = adRepo /\ adHost' = adHost /\ adJ' = adJ
  BY <1>1 DEF ADInv, Have
<1>2. CASE \E q \in AurPkgs, m \in Maintainers : MaintainerChanges(q, m)
  BY <1>1, <1>2 DEF MaintainerChanges
<1>3. CASE \E j \in DepJobs :
             \/ ResolveDeps(j) \/ ResolveFails(j) \/ NoSrcinfo(j) \/ BuildAndPublishDep(j)
             \/ BuildTarget(j) \/ RetryBuild(j)
             \/ \E found \in BOOLEAN : CheckDepTrust(j, found)
             \/ \E retriable \in BOOLEAN : DepBuildFails(j, retriable)
  BY <1>3, ResolveDepsInv, DepStopsInv, BuildAndPublishDepInv, RetryBuildInv, CheckDepTrustInv
<1>4. CASE UNCHANGED adVars
  BY <1>1, <1>4 DEF adVars
<1> QED BY <1>2, <1>3, <1>4 DEF ADNext

\* The invariant gives the properties of the dependency builds.
LEMMA ADInvHolds == ASSUME ADInv PROVE DependenciesHold
PROOF
<1>1. ASSUME NEW j \in DepJobs, adJ[j].pc = "target"
      PROVE  JobNeeds[j] \cup UNION {AurNeeds[p] : p \in JobNeeds[j] \ adHost} \subseteq adRepo \cup adHost
  <2> DEFINE U == UNION {AurNeeds[p] : p \in JobNeeds[j] \ adHost}
  <2>1. JobNeeds[j] \subseteq Have
    BY <1>1 DEF ADInv, DepRecord
  <2>2. \A p \in JobNeeds[j] \ adHost : AurNeeds[p] \subseteq Have
    BY <2>1 DEF ADInv, Have
  <2>3. ASSUME NEW x \in U PROVE x \in Have
    <3>1. PICK p \in JobNeeds[j] \ adHost : x \in AurNeeds[p]
      OBVIOUS
    <3> QED BY <2>2, <3>1
  <2>4. U \subseteq Have
    BY <2>3
  <2> HIDE DEF U
  <2>5. JobNeeds[j] \cup U \subseteq adRepo \cup adHost
    BY <2>1, <2>4 DEF Have
  <2> QED BY <2>5 DEF U
<1>2. \A j \in DepJobs : adJ[j].bare = {} /\ (adJ[j].blocked => adJ[j].published = {})
  BY DEF ADInv, DepRecord
<1> QED BY <1>1, <1>2 DEF DependenciesHold, BuiltAgainstPublished, BlockedPublishesNothing

\* For any jobs, packages, needs, retries and packages on the host, whatever the jobs publish between
\* one another's listing and build: every AUR dependency and every target is built with all that it
\* needs in the repository or taken to be on the host, and an attempt with a dependency that is not
\* trusted publishes none.
THEOREM DependenciesCorrect == ADSpec => []DependenciesHold
PROOF
<1>1. ADSpec => []ADInv
  BY ADInitInv, ADNextInv, PTL DEF ADSpec
<1> QED BY <1>1, ADInvHolds, PTL

(***************************************************************************)
(* Build runs                                                              *)
(***************************************************************************)

\* What a run has built: the first bases of its plan, each after those it needs, with their
\* artifacts installed.
BuiltInOrder(plan, built, installed) ==
  /\ \E k \in 0..Len(plan.order) :
       /\ Cardinality(DOMAIN built) = k
       /\ DOMAIN built = {plan.order[i] : i \in 1..k}
       /\ \A i \in 1..k : Providers(plan, plan.order[i]) \subseteq {plan.order[m] : m \in 1..(i - 1)}
  /\ DOMAIN installed = DOMAIN built
  /\ \A b \in DOMAIN installed :
       /\ Needs(plan, b) \subseteq DOMAIN built
       /\ installed[b] = UNION {built[p] : p \in Needs(plan, b)}

EarlyPcs == {"idle", "lockOutput", "lockManifest", "check"}
LatePcs == {"build", "rename", "sync", "manifest"}

AllOf(built) == UNION {built[b] : b \in DOMAIN built}

\* One run, by what it reads: its own state, and the output directories.
RunRight(r, pc, req, plan, built, installed, staged, outs) ==
  /\ pc \in EarlyPcs \cup LatePcs \cup Ended
  /\ pc # "idle" => req.out \in Outputs /\ req.man \in Manifests
  /\ pc \in EarlyPcs => built = <<>> /\ installed = <<>>
  /\ plan = NoPlan \/ plan \in BuildPlans
  /\ pc \in LatePcs => plan \in BuildPlans
  /\ BuiltInOrder(plan, built, installed)
  /\ pc = "rename" => staged = AllOf(built)
  /\ pc \in {"failed", "uncommitted"} => staged = {}
  /\ pc \in {"sync", "manifest"} => outs[req.out] = [by |-> r, pkgs |-> AllOf(built)]

\* A lock, an output and a manifest, by the run they belong to.
LockRight(by, pc) == by = NoRun \/ (by \in BuildRuns /\ pc[by] \notin Ended \cup {"idle"})
OutputRight(o, by, pc, req) ==
  by = NoRun \/ (by \in BuildRuns /\ pc[by] \in {"sync", "manifest", "done", "crashed"} /\ req[by].out = o)
ManifestRight(m, pc, req, outs) ==
  \/ m.by = NoRun
  \/ /\ m.by \in BuildRuns /\ pc[m.by] \in {"done", "uncommitted"} /\ m.out = req[m.by].out /\ m.out \in Outputs
     /\ pc[m.by] = "done" => outs[m.out] = [by |-> m.by, pkgs |-> m.pkgs]

BSDomains ==
  /\ DOMAIN runPc = BuildRuns /\ DOMAIN runReq = BuildRuns /\ DOMAIN runPlan = BuildRuns
  /\ DOMAIN runBuilt = BuildRuns /\ DOMAIN runInstalled = BuildRuns /\ DOMAIN runStaged = BuildRuns
  /\ DOMAIN locks = Outputs \cup Manifests /\ DOMAIN outputs = Outputs /\ DOMAIN manifests = Manifests

\* The invariant of the build runs.
BSInv ==
  /\ BSDomains
  /\ \A r \in BuildRuns : RunRight(r, runPc[r], runReq[r], runPlan[r], runBuilt[r], runInstalled[r], runStaged[r], outputs)
  /\ \A p \in DOMAIN locks : LockRight(locks[p], runPc)
  /\ \A o \in Outputs : OutputRight(o, outputs[o].by, runPc, runReq)
  /\ \A m \in Manifests : ManifestRight(manifests[m], runPc, runReq, outputs)

\* The first k bases of a plan are k, and all of them are as many as the order is long.
LEMMA PlanFirst ==
  ASSUME NEW plan \in BuildPlans, NEW k \in 0..Len(plan.order)
  PROVE  /\ plan.order \in Seq(Nat \ {0}) /\ Len(plan.order) \in Nat
         /\ DOMAIN plan.order = 1..Len(plan.order)
         /\ IsFiniteSet({plan.order[i] : i \in 1..k})
         /\ Cardinality({plan.order[i] : i \in 1..k}) = k
PROOF
<1> DEFINE s == plan.order
           T == {s[i] : i \in 1..k}
           f == [i \in 1..k |-> s[i]]
<1>1. s \in Seq(Nat \ {0}) /\ Len(s) \in Nat /\ DOMAIN s = 1..Len(s) /\ IsInjective(s)
  <2>1. s \in Seq(Nat \ {0}) /\ IsInjective(s)
    BY BuildAssumption
  <2> HIDE DEF s
  <2> QED BY <2>1, LenProperties
<1>2. k \in Nat /\ 1..k \subseteq 1..Len(s)
  BY <1>1
<1>3. f \in [1..k -> T]
  OBVIOUS
<1>4. f \in Surjection(1..k, T)
  <2>1. \A t \in T : \E i \in 1..k : f[i] = t
    OBVIOUS
  <2> HIDE DEF f, T
  <2> QED BY <1>3, <2>1 DEF Surjection
<1>5. f \in Injection(1..k, T)
  <2>1. \A i, j \in 1..k : f[i] = f[j] => i = j
    BY <1>1, <1>2 DEF IsInjective
  <2> HIDE DEF f, T
  <2> QED BY <1>3, <2>1 DEF Injection, IsInjective
<1>6. IsFiniteSet(1..k) /\ Cardinality(1..k) = k
  <2>1. k \in Int /\ 1 \in Int
    BY <1>2
  <2>2. IsFiniteSet(1..k) /\ Cardinality(1..k) = IF 1 > k THEN 0 ELSE k - 1 + 1
    BY <2>1, FS_Interval
  <2> QED BY <1>2, <2>2
<1> HIDE DEF f, T
<1>7. IsFiniteSet(T) /\ Cardinality(T) = k
  BY <1>4, <1>5, <1>6, FS_Surjection
<1> QED BY <1>1, <1>7 DEF T

\* The bases of a plan are finitely many, as many as the order is long, and need only one another.
LEMMA PlanBases ==
  ASSUME NEW plan \in BuildPlans
  PROVE  /\ ToSet(plan.order) = {plan.order[i] : i \in 1..Len(plan.order)}
         /\ IsFiniteSet(ToSet(plan.order)) /\ Cardinality(ToSet(plan.order)) = Len(plan.order)
         /\ 0 \notin ToSet(plan.order)
         /\ \A b \in ToSet(plan.order) : Providers(plan, b) \subseteq ToSet(plan.order)
PROOF
<1> DEFINE s == plan.order
<1>1. s \in Seq(Nat \ {0}) /\ Len(s) \in Nat /\ DOMAIN s = 1..Len(s)
  <2>1. s \in Seq(Nat \ {0})
    BY BuildAssumption
  <2> HIDE DEF s
  <2> QED BY <2>1, LenProperties
<1>2. Len(s) \in 0..Len(s)
  BY <1>1
<1>3. ToSet(s) = {s[i] : i \in 1..Len(s)}
  BY <1>1 DEF ToSet
<1>4. IsFiniteSet(ToSet(s)) /\ Cardinality(ToSet(s)) = Len(s)
  BY <1>2, <1>3, PlanFirst
<1>5. 0 \notin ToSet(s)
  <2>1. \A i \in 1..Len(s) : s[i] \in Nat \ {0}
    BY <1>1
  <2> QED BY <1>3, <2>1
<1>6. ASSUME NEW b \in ToSet(s) PROVE Providers(plan, b) \subseteq ToSet(s)
  <2>1. plan.deps[b] \in Seq(ToSet(s) \cup {0})
    BY BuildAssumption
  <2>2. ToSet(plan.deps[b]) \subseteq ToSet(s) \cup {0}
    <3> HIDE DEF s
    <3> SUFFICES ASSUME NEW x \in ToSet(plan.deps[b]) PROVE x \in ToSet(s) \cup {0}
      OBVIOUS
    <3>1. PICK i \in DOMAIN plan.deps[b] : x = plan.deps[b][i]
      BY DEF ToSet
    <3>2. DOMAIN plan.deps[b] = 1..Len(plan.deps[b])
      BY <2>1
    <3> QED BY <2>1, <3>1, <3>2
  <2> QED BY <2>2 DEF Providers
<1> QED BY <1>3, <1>4, <1>5, <1>6

\* G on the bases of a plan: a set of bases with their providers.
ProvidersOf(plan) ==
  [S \in SUBSET ToSet(plan.order) |-> S \cup UNION {Providers(plan, p) : p \in S}]

\* dependencyArtifacts works on the bases that b leads to: some iteration of the providers.
LEMMA ArtifactsFollow ==
  ASSUME NEW plan \in BuildPlans, NEW b \in ToSet(plan.order), NEW built
  PROVE  \E h :
           /\ Follows(h, Len(plan.order), ToSet(plan.order), Providers(plan, b), ProvidersOf(plan))
           /\ DependencyArtifacts(plan, b, built)
                = [ok |-> h[Len(plan.order)] \subseteq DOMAIN built,
                   pkgs |-> UNION {built[p] : p \in h[Len(plan.order)] \cap DOMAIN built}]
PROOF
<1> DEFINE N == Len(plan.order)
           A == ToSet(plan.order)
           Of(S) == UNION {Providers(plan, p) : p \in S}
           More(S) == S \cup Of(S)
           G == ProvidersOf(plan)
           Rec(f) == f = [n \in 0..N |-> IF n = 0 THEN Providers(plan, b) ELSE More(f[n - 1])]
<1>1. N \in Nat
  <2>1. 0 \in {0} /\ plan.order \in Seq(Nat \ {0})
    BY BuildAssumption
  <2> QED BY <2>1, LenProperties
<1>2. ASSUME NEW S \in SUBSET A PROVE More(S) \in SUBSET A /\ G[S] = More(S)
  <2>1. \A p \in S : Providers(plan, p) \subseteq A
    BY PlanBases
  <2>2. Of(S) \subseteq A
    <3> SUFFICES ASSUME NEW x \in Of(S) PROVE x \in A
      OBVIOUS
    <3>1. PICK p \in S : x \in Providers(plan, p)
      OBVIOUS
    <3> QED BY <2>1, <3>1
  <2>3. G[S] = More(S)
    BY Zenon DEF ProvidersOf
  <2> HIDE DEF Of, G
  <2> QED BY <2>2, <2>3
<1>3. G \in [SUBSET A -> SUBSET A]
  <2>1. \A S \in SUBSET A : S \cup UNION {Providers(plan, p) : p \in S} \in SUBSET A
    BY <1>2
  <2> QED BY <2>1, Zenon DEF ProvidersOf
<1>4. Providers(plan, b) \in SUBSET A
  BY PlanBases
<1>5. PICK g : Iterates(g, N, SUBSET A, Providers(plan, b), G)
  <2> DEFINE D == SUBSET A
             c == Providers(plan, b)
  <2>1. c \in D /\ G \in [D -> D]
    BY <1>3, <1>4
  <2> HIDE DEF D, G, N, c, A
  <2>2. \E f : Iterates(f, N, D, c, G)
    BY <1>1, <2>1, IterationExists
  <2> QED BY <2>2 DEF D, c
<1>6. Rec(g)
  <2>1. g \in [0..N -> SUBSET A] /\ g[0] = Providers(plan, b) /\ \A n \in 1..N : g[n] = G[g[n - 1]]
    BY <1>5 DEF Iterates
  <2>2. ASSUME NEW n \in 0..N
        PROVE  g[n] = IF n = 0 THEN Providers(plan, b) ELSE More(g[n - 1])
    <3>1. CASE n = 0
      BY <2>1, <3>1
    <3>2. CASE n # 0
      <4>1. n \in 1..N /\ n - 1 \in 0..N
        BY <1>1, <3>2
      <4>2. g[n] = G[g[n - 1]] /\ g[n - 1] \in SUBSET A
        BY <2>1, <4>1
      <4>3. G[g[n - 1]] = More(g[n - 1])
        BY <1>2, <4>2
      <4> HIDE DEF More, G
      <4> QED BY <3>2, <4>2, <4>3
    <3> QED BY <3>1, <3>2
  <2> QED BY <2>1, <2>2
<1> DEFINE closure == CHOOSE f : Rec(f)
<1>7. Rec(closure)
  BY <1>6
<1>8. DependencyArtifacts(plan, b, built)
        = [ok |-> closure[N] \subseteq DOMAIN built,
           pkgs |-> UNION {built[p] : p \in closure[N] \cap DOMAIN built}]
  BY DEF DependencyArtifacts
<1> HIDE DEF closure
<1>9. closure[0] = Providers(plan, b)
  BY <1>1, <1>7
<1>10. ASSUME NEW n \in 1..N PROVE closure[n] = More(closure[n - 1])
  <2>1. n \in 0..N /\ n # 0
    BY <1>1
  <2>2. closure[n] = IF n = 0 THEN Providers(plan, b) ELSE More(closure[n - 1])
    BY <1>7, <2>1
  <2> HIDE DEF More
  <2> QED BY <2>1, <2>2
<1>11. Follows(closure, N, A, Providers(plan, b), G)
  <2>1. \A n \in 1..N : closure[n - 1] \in SUBSET A => closure[n] = G[closure[n - 1]]
    BY <1>2, <1>10
  <2> QED BY <1>9, <2>1 DEF Follows
<1> HIDE DEF N, A, G
<1>12. \E h : /\ Follows(h, N, A, Providers(plan, b), G)
              /\ DependencyArtifacts(plan, b, built)
                   = [ok |-> h[N] \subseteq DOMAIN built, pkgs |-> UNION {built[p] : p \in h[N] \cap DOMAIN built}]
  BY <1>8, <1>11
<1> QED BY <1>12 DEF N, A, G

\* A way of m bases from b to x, each a dependency of the one before.
Way(plan, path, m, b, x) ==
  /\ path \in [1..m -> ToSet(plan.order)] /\ path[1] = b /\ path[m] = x
  /\ \A i \in 1..(m - 1) : path[i + 1] \in ToSet(plan.deps[path[i]])

\* The bases needed by b are those a way of at most all bases leads to.
LEMMA NeedsByWays ==
  ASSUME NEW plan \in BuildPlans, NEW b, NEW x
  PROVE  x \in Needs(plan, b) <=>
           /\ x \in ToSet(plan.order) /\ x # b
           /\ \E m \in 2..Len(plan.order) : \E path : Way(plan, path, m, b, x)
PROOF
<1> DEFINE A == ToSet(plan.order)
           N == Len(plan.order)
<1>1. N \in Nat
  BY PlanBases, FS_CardinalityType
<1>2. ASSUME NEW m \in 2..N, NEW path \in [1..m -> A] PROVE Len(path) = m
  <2>1. m \in Nat
    BY <1>1
  <2> HIDE DEF A
  <2> QED BY <2>1
<1>3. ASSUME x \in Needs(plan, b)
      PROVE  x \in A /\ x # b /\ \E m \in 2..N : \E path : Way(plan, path, m, b, x)
  <2>1. PICK path \in UNION {[1..n -> A] : n \in 2..N} :
          /\ path[1] = b /\ path[Len(path)] = x /\ x # b
          /\ \A i \in 1..(Len(path) - 1) : path[i + 1] \in ToSet(plan.deps[path[i]])
    BY <1>3 DEF Needs
  <2>2. PICK m \in 2..N : path \in [1..m -> A]
    OBVIOUS
  <2>3. Len(path) = m
    BY <1>2, <2>2
  <2>4. Way(plan, path, m, b, x)
    BY <2>1, <2>2, <2>3 DEF Way
  <2>5. x \in A
    <3>1. m \in 1..m
      BY <1>1
    <3> QED BY <2>4, <3>1 DEF Way
  <2> QED BY <2>1, <2>4, <2>5
<1>4. ASSUME x \in A, x # b, NEW m \in 2..N, NEW path, Way(plan, path, m, b, x)
      PROVE  x \in Needs(plan, b)
  <2>1. path \in [1..m -> A] /\ Len(path) = m
    BY <1>2, <1>4 DEF Way
  <2>2. path \in UNION {[1..n -> A] : n \in 2..N}
    BY <2>1
  <2>3. /\ path[1] = b /\ path[Len(path)] = x
        /\ \A i \in 1..(Len(path) - 1) : path[i + 1] \in ToSet(plan.deps[path[i]])
    BY <1>4, <2>1 DEF Way
  <2> QED BY <1>4, <2>2, <2>3 DEF Needs
<1> QED BY <1>3, <1>4

\* A way that starts at b stays with b and a set that holds b's providers and those of
\* all its members.
LEMMA WayStays ==
  ASSUME NEW plan \in BuildPlans, NEW b, NEW C, Providers(plan, b) \subseteq C,
         \A p \in C : Providers(plan, p) \subseteq C,
         NEW x, NEW m \in Nat, m >= 2, NEW path, Way(plan, path, m, b, x)
  PROVE  x \in C \cup {b}
PROOF
<1> DEFINE Bad == {i \in Nat : i \in 1..m /\ path[i] \notin C \cup {b}}
<1>1. ASSUME Bad # {} PROVE FALSE
  <2>1. Bad \in SUBSET Nat
    OBVIOUS
  <2>2. PICK k \in Bad : \A j \in Bad : ~(j < k)
    BY <1>1, <2>1, LeastOf, Zenon
  <2>3. k \in Nat /\ k \in 1..m /\ path[k] \notin C \cup {b} /\ k # 1
    BY DEF Way
  <2>4. k - 1 \in Nat /\ k - 1 < k /\ k - 1 \in 1..m /\ k - 1 \in 1..(m - 1) /\ (k - 1) + 1 = k
    BY <2>3
  <2>5. path[k - 1] \in C \cup {b}
    BY <2>2, <2>4
  <2>6. path[k] \in ToSet(plan.deps[path[k - 1]]) /\ path[k] \in ToSet(plan.order)
    BY <2>3, <2>4 DEF Way
  <2>7. path[k] # 0
    BY <2>6, PlanBases
  <2>8. CASE path[k] = path[k - 1]
    BY <2>3, <2>5, <2>8
  <2>9. CASE path[k] # path[k - 1]
    <3>1. path[k] \in Providers(plan, path[k - 1])
      BY <2>6, <2>7, <2>9 DEF Providers
    <3> QED BY <2>3, <2>5, <3>1
  <2> QED BY <2>8, <2>9
<1>2. m \in Nat /\ m \in 1..m
  OBVIOUS
<1>3. path[m] \in C \cup {b}
  BY <1>1, <1>2
<1> QED BY <1>3 DEF Way

\* A way goes on to a provider of its end.
LEMMA WayGoesOn ==
  ASSUME NEW plan \in BuildPlans, NEW b, NEW x \in ToSet(plan.order), NEW m \in Nat, m >= 1,
         NEW path, Way(plan, path, m, b, x), NEW y \in Providers(plan, x)
  PROVE  \E longer : Way(plan, longer, m + 1, b, y)
PROOF
<1> DEFINE A == ToSet(plan.order)
           longer == [i \in 1..(m + 1) |-> IF i = m + 1 THEN y ELSE path[i]]
<1>1. y \in A /\ y \in ToSet(plan.deps[x])
  BY PlanBases DEF Providers
<1>2. path \in [1..m -> A] /\ path[1] = b /\ path[m] = x
      /\ \A i \in 1..(m - 1) : path[i + 1] \in ToSet(plan.deps[path[i]])
  BY DEF Way
<1> HIDE DEF A
<1>3. \A i \in 1..m : longer[i] = path[i]
  OBVIOUS
<1>4. longer[m + 1] = y /\ longer[1] = b
  BY <1>2, <1>3
<1>5. longer \in [1..(m + 1) -> A]
  BY <1>1, <1>2
<1>6. ASSUME NEW i \in 1..((m + 1) - 1) PROVE longer[i + 1] \in ToSet(plan.deps[longer[i]])
  <2>1. CASE i = m
    BY <1>1, <1>2, <1>3, <1>4, <2>1
  <2>2. CASE i # m
    <3>1. i \in 1..(m - 1) /\ i \in 1..m /\ i + 1 \in 1..m
      BY <2>2
    <3> QED BY <1>2, <1>3, <3>1
  <2> QED BY <2>1, <2>2
<1> HIDE DEF longer
<1>7. Way(plan, longer, m + 1, b, y)
  BY <1>4, <1>5, <1>6 DEF Way, A
<1> QED BY <1>7

\* dependencyArtifacts, when it finds every provider built, returns the artifacts of exactly
\* the bases that b needs.
LEMMA ArtifactsAreNeeds ==
  ASSUME NEW plan \in BuildPlans, NEW built, NEW k \in Nat, k < Len(plan.order),
         DOMAIN built = {plan.order[i] : i \in 1..k},
         \A i \in 1..k : Providers(plan, plan.order[i]) \subseteq {plan.order[m] : m \in 1..(i - 1)},
         NEW b, b = plan.order[k + 1], DependencyArtifacts(plan, b, built).ok
  PROVE  /\ Needs(plan, b) \subseteq DOMAIN built /\ Providers(plan, b) \subseteq DOMAIN built
         /\ DependencyArtifacts(plan, b, built).pkgs = UNION {built[p] : p \in Needs(plan, b)}
PROOF
<1> DEFINE A == ToSet(plan.order)
           N == Len(plan.order)
           G == ProvidersOf(plan)
           base == Providers(plan, b)
<1>1. /\ N \in Nat /\ plan.order \in Seq(Nat \ {0}) /\ A = {plan.order[i] : i \in 1..N}
      /\ IsFiniteSet(A) /\ Cardinality(A) = N /\ IsInjective(plan.order) /\ DOMAIN plan.order = 1..N
  <2>1. 0 \in 0..Len(plan.order)
    BY PlanBases, FS_CardinalityType
  <2> QED BY <2>1, PlanBases, PlanFirst, BuildAssumption
<1>2. k + 1 \in 1..N /\ b \in A /\ b \notin DOMAIN built /\ DOMAIN built \subseteq A
  <2>1. k + 1 \in 1..N
    BY <1>1
  <2>2. \A i \in 1..k : i \in 1..N /\ i # k + 1
    BY <1>1
  <2>3. \A i \in 1..k : plan.order[i] # plan.order[k + 1]
    BY <1>1, <2>1, <2>2 DEF IsInjective
  <2> QED BY <1>1, <2>1, <2>2, <2>3
<1>3. PICK h :
        /\ Follows(h, N, A, base, G)
        /\ DependencyArtifacts(plan, b, built)
             = [ok |-> h[N] \subseteq DOMAIN built, pkgs |-> UNION {built[p] : p \in h[N] \cap DOMAIN built}]
  BY <1>2, ArtifactsFollow
<1>4. h[N] \subseteq DOMAIN built
  <2> DEFINE a == DependencyArtifacts(plan, b, built)
             X == h[N] \subseteq DOMAIN built
             Y == UNION {built[p] : p \in h[N] \cap DOMAIN built}
  <2>1. a = [ok |-> X, pkgs |-> Y] /\ a.ok
    BY <1>3
  <2> HIDE DEF a, X, Y
  <2>2. X
    BY <2>1, Zenon
  <2> QED BY <2>2 DEF X
<1>5. DependencyArtifacts(plan, b, built).pkgs = UNION {built[p] : p \in h[N] \cap DOMAIN built}
  BY <1>3
<1>6. ASSUME NEW S \in SUBSET A
      PROVE  /\ S \subseteq G[S] /\ G[S] \in SUBSET A
             /\ \A p \in S : Providers(plan, p) \subseteq G[S]
             /\ \A y \in G[S] : y \in S \/ \E p \in S : y \in Providers(plan, p)
  <2>1. G[S] = S \cup UNION {Providers(plan, p) : p \in S}
    BY Zenon DEF ProvidersOf
  <2>2. \A p \in S : Providers(plan, p) \subseteq A
    BY PlanBases
  <2>3. \A y \in G[S] : y \in S \/ \E p \in S : y \in Providers(plan, p)
    BY <2>1, Zenon
  <2>4. \A p \in S : \A y \in Providers(plan, p) : y \in G[S]
    BY <2>1, Zenon
  <2>5. \A y \in S : y \in G[S]
    BY <2>1, Zenon
  <2> HIDE DEF G
  <2> QED BY <2>2, <2>3, <2>4, <2>5
<1>7. Grows(G, A)
  <2>1. G \in [SUBSET A -> SUBSET A]
    <3>1. \A S \in SUBSET A : S \cup UNION {Providers(plan, p) : p \in S} \in SUBSET A
      BY <1>6, Zenon DEF ProvidersOf
    <3> QED BY <3>1, Zenon DEF ProvidersOf
  <2> HIDE DEF G
  <2> QED BY <1>6, <2>1 DEF Grows
<1>8. base \in SUBSET A
  BY <1>2, PlanBases
<1> HIDE DEF A, G, base, N
<1>9. Saturated(h[N], A, base, G)
  <2>1. N >= Cardinality(A)
    BY <1>1
  <2> QED BY <1>1, <1>3, <1>7, <1>8, <2>1, IterationSaturates
<1>10. base \subseteq h[N] /\ h[N] \in SUBSET A /\ \A p \in h[N] : Providers(plan, p) \subseteq h[N]
  BY <1>6, <1>9 DEF Saturated
<1>11. ASSUME NEW x \in Needs(plan, b) PROVE x \in h[N]
  <2>0. PICK m \in 2..N : \E path : Way(plan, path, m, b, x)
    BY <1>11, NeedsByWays DEF N
  <2>1. PICK path : Way(plan, path, m, b, x)
    BY <2>0
  <2>2. x # b
    BY <1>11, NeedsByWays
  <2>3. m \in Nat /\ m >= 2
    BY <1>1
  <2>4. x \in h[N] \cup {b}
    BY <1>10, <2>1, <2>3, WayStays DEF base
  <2> QED BY <2>2, <2>4
<1> DEFINE Near(x, m, i) == x = plan.order[i] /\ m + i <= k + 2 /\ \E path : Way(plan, path, m, b, x)
           W == {x \in A : \E m \in 2..(k + 1), i \in 1..k : Near(x, m, i)}
<1>12. ASSUME NEW x \in base PROVE x \in W
  <2>1. PICK i \in 1..k : x = plan.order[i]
    BY <1>4, <1>10
  <2>2. x \in A
    BY <1>8
  <2>3. Way(plan, <<b>>, 1, b, b)
    <3>1. <<b>> \in [1..1 -> A] /\ <<b>>[1] = b
      BY <1>2
    <3>2. 1..(1 - 1) = {}
      OBVIOUS
    <3> QED BY <3>1, <3>2 DEF Way, A
  <2>4. \E path : Way(plan, path, 1 + 1, b, x)
    BY <1>2, <2>3, WayGoesOn DEF A, base
  <2>5. 2 \in 2..(k + 1) /\ 2 + i <= k + 2 /\ 1 + 1 = 2
    OBVIOUS
  <2>6. Near(x, 2, i)
    BY <2>1, <2>4, <2>5
  <2> HIDE DEF Near
  <2> QED BY <2>2, <2>5, <2>6
<1>13. ASSUME NEW x \in W, NEW y \in Providers(plan, x) PROVE y \in W
  <2>1. PICK m \in 2..(k + 1), i \in 1..k : Near(x, m, i)
    OBVIOUS
  <2>2. PICK j \in 1..(i - 1) : y = plan.order[j]
    BY <2>1
  <2>3. y \in A
    <3>1. j \in 1..N
      BY <1>1, <1>2
    <3> QED BY <1>1, <2>2, <3>1
  <2>4. m \in Nat /\ m >= 1 /\ i \in Nat /\ j \in Nat /\ m + i <= k + 2 /\ j < i
    BY <2>1
  <2>5. m + 1 \in 2..(k + 1) /\ j \in 1..k /\ (m + 1) + j <= k + 2
    BY <2>4, <2>2
  <2>6. \E path : Way(plan, path, m + 1, b, y)
    BY <2>1, <2>4, WayGoesOn DEF A
  <2>7. Near(y, m + 1, j)
    BY <2>2, <2>5, <2>6
  <2> HIDE DEF Near
  <2> QED BY <2>3, <2>5, <2>7
<1>14. W \in SUBSET A
  OBVIOUS
<1>15. h[N] \in SUBSET W
  <2> HIDE DEF W
  <2>1. base \in SUBSET W
    BY <1>12
  <2>2. \A S \in SUBSET W : G[S] \in SUBSET W
    <3> SUFFICES ASSUME NEW S \in SUBSET W, NEW y \in G[S] PROVE y \in W
      OBVIOUS
    <3>1. S \in SUBSET A
      BY <1>14
    <3>2. y \in S \/ \E p \in S : y \in Providers(plan, p)
      BY <1>6, <3>1
    <3> QED BY <1>13, <3>2
  <2>3. Keeps(G, W)
    BY <2>2 DEF Keeps
  <2>4. N \in Nat /\ Follows(h, N, A, base, G)
    BY <1>1, <1>3
  <2> QED BY <1>14, <2>1, <2>3, <2>4, IterationWithin
<1>16. ASSUME NEW x \in h[N] PROVE x \in Needs(plan, b)
  <2>1. PICK m \in 2..(k + 1), i \in 1..k : Near(x, m, i)
    BY <1>15
  <2>2. m \in 2..N
    BY <1>1, <1>2
  <2>3. x \in A /\ x # b
    BY <1>2, <1>4, <1>10
  <2> QED BY <2>1, <2>2, <2>3, NeedsByWays DEF A, N
<1>17. h[N] = Needs(plan, b)
  BY <1>11, <1>16
<1>18. h[N] \cap DOMAIN built = Needs(plan, b)
  BY <1>4, <1>17
<1> HIDE DEF W
<1> QED BY <1>4, <1>5, <1>10, <1>17, <1>18 DEF base

\* The other runs stay as they are.
OthersStay(r) ==
  \A q \in BuildRuns : q # r =>
    /\ runPc'[q] = runPc[q] /\ runReq'[q] = runReq[q] /\ runPlan'[q] = runPlan[q]
    /\ runBuilt'[q] = runBuilt[q] /\ runInstalled'[q] = runInstalled[q] /\ runStaged'[q] = runStaged[q]

\* What a run does to the locks, the outputs and the manifests: it takes a free lock or drops its
\* own, and touches an output only when it is nobody's or its own.
LocksMove(r) ==
  \/ runPc'[r] \notin Ended \cup {"idle"}
     /\ (locks' = locks \/ \E path \in DOMAIN locks : locks' = [locks EXCEPT ![path] = r])
  \/ locks' = [p \in DOMAIN locks |-> IF locks[p] = r THEN NoRun ELSE locks[p]]
OutputsMove(r) ==
  \A o \in Outputs :
    /\ outputs'[o] = outputs[o] \/ (outputs[o].by \in {NoRun, r} /\ outputs'[o].by \in {NoRun, r})
    /\ outputs'[o].by = r => runPc'[r] \in {"sync", "manifest", "done", "crashed"} /\ runReq'[r].out = o
ManifestsMove(r) ==
  \A m \in Manifests :
    \/ manifests'[m] = manifests[m]
    \/ manifests'[m].by = r /\ ManifestRight(manifests'[m], runPc', runReq', outputs')

\* One run moves, and what it changes of the locks, the outputs and the manifests is its own.
LEMMA RunMovesInv ==
  ASSUME BSInv, BSDomains', NEW r \in BuildRuns, runPc[r] \notin Ended, OthersStay(r),
         RunRight(r, runPc'[r], runReq'[r], runPlan'[r], runBuilt'[r], runInstalled'[r], runStaged'[r], outputs'),
         LocksMove(r), OutputsMove(r), ManifestsMove(r)
  PROVE  BSInv'
PROOF
<1>0. NoRun \notin BuildRuns
  BY BuildAssumption
<1>1. ASSUME NEW q \in BuildRuns
      PROVE  RunRight(q, runPc'[q], runReq'[q], runPlan'[q], runBuilt'[q], runInstalled'[q], runStaged'[q], outputs')
  <2>1. CASE q = r
    BY <2>1
  <2>2. CASE q # r
    <3>1. RunRight(q, runPc[q], runReq[q], runPlan[q], runBuilt[q], runInstalled[q], runStaged[q], outputs)
      BY DEF BSInv
    <3>2. ASSUME runPc[q] \in {"sync", "manifest"} PROVE outputs'[runReq[q].out] = outputs[runReq[q].out]
      <4>1. runReq[q].out \in Outputs /\ outputs[runReq[q].out].by = q
        BY <3>1, <3>2 DEF RunRight
      <4> QED BY <1>0, <2>2, <4>1 DEF OutputsMove
    <3>3. RunRight(q, runPc[q], runReq[q], runPlan[q], runBuilt[q], runInstalled[q], runStaged[q], outputs')
      BY <3>1, <3>2 DEF RunRight
    <3> QED BY <2>2, <3>3 DEF OthersStay
  <2> QED BY <2>1, <2>2
<1>2. ASSUME NEW p \in DOMAIN locks' PROVE LockRight(locks'[p], runPc')
  <2>1. DOMAIN locks' = DOMAIN locks /\ LockRight(locks[p], runPc)
    BY DEF BSInv, BSDomains
  <2>2. CASE locks'[p] = r /\ runPc'[r] \notin Ended \cup {"idle"}
    BY <2>2 DEF LockRight
  <2>3. CASE locks'[p] = locks[p] /\ locks[p] # r
    BY <2>1, <2>3 DEF LockRight, OthersStay
  <2>4. CASE locks'[p] = NoRun
    BY <2>4 DEF LockRight
  <2> QED BY <2>1, <2>2, <2>3, <2>4 DEF LocksMove
<1>3. ASSUME NEW o \in Outputs PROVE OutputRight(o, outputs'[o].by, runPc', runReq')
  <2>1. OutputRight(o, outputs[o].by, runPc, runReq)
    BY DEF BSInv
  <2>2. CASE outputs'[o].by = r
    BY <2>2 DEF OutputsMove, OutputRight
  <2>3. CASE outputs'[o].by # r
    BY <2>1, <2>3 DEF OutputsMove, OutputRight, OthersStay
  <2> QED BY <2>2, <2>3
<1>4. ASSUME NEW m \in Manifests PROVE ManifestRight(manifests'[m], runPc', runReq', outputs')
  <2>1. ManifestRight(manifests[m], runPc, runReq, outputs)
    BY DEF BSInv
  <2>2. CASE manifests'[m] = manifests[m] /\ manifests[m].by # NoRun
    <3> DEFINE d == manifests[m]
               q == d.by
    <3>1. /\ q \in BuildRuns /\ runPc[q] \in {"done", "uncommitted"} /\ d.out = runReq[q].out /\ d.out \in Outputs
          /\ runPc[q] = "done" => outputs[d.out] = [by |-> q, pkgs |-> d.pkgs]
      BY <2>1, <2>2 DEF ManifestRight
    <3>2. q # r
      BY <3>1 DEF Ended
    <3>3. runPc'[q] = runPc[q] /\ runReq'[q] = runReq[q]
      BY <3>1, <3>2 DEF OthersStay
    <3>4. runPc[q] = "done" => outputs'[d.out] = outputs[d.out]
      <4>1. ASSUME runPc[q] = "done" PROVE outputs[d.out].by = q
        BY <3>1, <4>1
      <4> QED BY <1>0, <3>1, <3>2, <4>1 DEF OutputsMove
    <3> QED BY <2>2, <3>1, <3>3, <3>4 DEF ManifestRight
  <2>3. CASE manifests'[m] = manifests[m] /\ manifests[m].by = NoRun
    BY <2>3 DEF ManifestRight
  <2> QED BY <2>2, <2>3 DEF ManifestsMove
<1> QED BY <1>1, <1>2, <1>3, <1>4 DEF BSInv

\* No run has started: the invariant holds.
LEMMA BSInitInv == ASSUME BuildInit PROVE BSInv
PROOF
<1>1. BSDomains
  BY DEF BuildInit, BSDomains
<1>2. BuiltInOrder(NoPlan, <<>>, <<>>)
  <2>1. DOMAIN <<>> = {} /\ Len(<<>>) = 0 /\ Cardinality({}) = 0 /\ NoPlan.order = <<>>
    BY FS_EmptySet DEF NoPlan
  <2>2. 0 \in 0..Len(NoPlan.order) /\ 1..0 = {}
    BY <2>1
  <2>3. DOMAIN <<>> = {NoPlan.order[i] : i \in 1..0}
    BY <2>1, <2>2
  <2>4. \E k \in 0..Len(NoPlan.order) :
          /\ Cardinality(DOMAIN <<>>) = k
          /\ DOMAIN <<>> = {NoPlan.order[i] : i \in 1..k}
          /\ \A i \in 1..k : Providers(NoPlan, NoPlan.order[i]) \subseteq {NoPlan.order[m] : m \in 1..(i - 1)}
    BY <2>1, <2>2, <2>3
  <2> QED BY <2>1, <2>4 DEF BuiltInOrder
<1>3. ASSUME NEW r \in BuildRuns
      PROVE  RunRight(r, runPc[r], runReq[r], runPlan[r], runBuilt[r], runInstalled[r], runStaged[r], outputs)
  BY <1>2 DEF BuildInit, RunRight, EarlyPcs, LatePcs, Ended
<1>4. /\ \A p \in DOMAIN locks : LockRight(locks[p], runPc)
      /\ \A o \in Outputs : OutputRight(o, outputs[o].by, runPc, runReq)
      /\ \A m \in Manifests : ManifestRight(manifests[m], runPc, runReq, outputs)
  BY DEF BuildInit, LockRight, OutputRight, ManifestRight, Nothing, NoManifest
<1> QED BY <1>1, <1>3, <1>4 DEF BSInv

\* The facts a step of run r starts from.
LEMMA RunFacts ==
  ASSUME BSInv, NEW r \in BuildRuns
  PROVE  /\ RunRight(r, runPc[r], runReq[r], runPlan[r], runBuilt[r], runInstalled[r], runStaged[r], outputs)
         /\ BSDomains
         /\ \A o \in Outputs : outputs[o].by = r =>
              runPc[r] \in {"sync", "manifest", "done", "crashed"} /\ runReq[r].out = o
PROOF
<1>1. NoRun \notin BuildRuns
  BY BuildAssumption
<1> QED BY <1>1 DEF BSInv, OutputRight

\* Build returns an error before it has an output.
LEMMA EarlyReturnInv ==
  ASSUME BSInv, NEW r \in BuildRuns, runPc[r] \notin Ended \cup {"idle", "sync", "manifest"}, Return(r, "failed"),
         UNCHANGED <<runReq, runPlan, runBuilt, runInstalled, outputs, manifests>>
  PROVE  BSInv'
PROOF
<1>1. /\ runPc' = [runPc EXCEPT ![r] = "failed"] /\ runStaged' = [runStaged EXCEPT ![r] = {}]
      /\ locks' = [p \in DOMAIN locks |-> IF locks[p] = r THEN NoRun ELSE locks[p]]
  BY DEF Return, Goto, Unlocked
<1>2. /\ RunRight(r, runPc[r], runReq[r], runPlan[r], runBuilt[r], runInstalled[r], runStaged[r], outputs)
      /\ BSDomains
      /\ \A o \in Outputs : outputs[o].by # r
  BY RunFacts DEF Ended
<1>3. BSDomains' /\ OthersStay(r) /\ runPc'[r] = "failed" /\ runStaged'[r] = {}
  BY <1>1, <1>2 DEF BSDomains, OthersStay
<1>4. RunRight(r, runPc'[r], runReq'[r], runPlan'[r], runBuilt'[r], runInstalled'[r], runStaged'[r], outputs')
  BY <1>2, <1>3 DEF RunRight, EarlyPcs, LatePcs, Ended
<1>5. LocksMove(r) /\ OutputsMove(r) /\ ManifestsMove(r)
  BY <1>1, <1>2 DEF LocksMove, OutputsMove, ManifestsMove
<1> QED BY <1>3, <1>4, <1>5, RunMovesInv

\* Build returns an error or its success after the rename, and what it leaves of its output is
\* outs.
LEMMA LateReturnInv ==
  ASSUME BSInv, NEW r \in BuildRuns, runPc[r] \in {"sync", "manifest"}, NEW pc \in {"failed", "uncommitted", "done"},
         Return(r, pc), UNCHANGED <<runReq, runPlan, runBuilt, runInstalled>>,
         outputs' = IF pc = "done" THEN outputs ELSE [outputs EXCEPT ![runReq[r].out] = Nothing],
         \/ manifests' = manifests
         \/ manifests' = [manifests EXCEPT ![runReq[r].man] = Described(r)] /\ pc # "failed"
  PROVE  BSInv'
PROOF
<1>1. /\ runPc' = [runPc EXCEPT ![r] = pc] /\ runStaged' = [runStaged EXCEPT ![r] = {}]
      /\ locks' = [p \in DOMAIN locks |-> IF locks[p] = r THEN NoRun ELSE locks[p]]
  BY DEF Return, Goto, Unlocked
<1>2. /\ RunRight(r, runPc[r], runReq[r], runPlan[r], runBuilt[r], runInstalled[r], runStaged[r], outputs)
      /\ BSDomains
      /\ \A o \in Outputs : outputs[o].by = r => runReq[r].out = o
  BY RunFacts
<1>3. /\ runReq[r].out \in Outputs /\ runReq[r].man \in Manifests
      /\ outputs[runReq[r].out] = [by |-> r, pkgs |-> AllOf(runBuilt[r])]
  BY <1>2 DEF RunRight
<1>4. DOMAIN outputs' = Outputs /\ DOMAIN manifests' = Manifests
  BY <1>2 DEF BSDomains
<1>5. BSDomains' /\ OthersStay(r) /\ runPc'[r] = pc /\ runStaged'[r] = {}
  BY <1>1, <1>2, <1>4 DEF BSDomains, OthersStay
<1>6. RunRight(r, runPc'[r], runReq'[r], runPlan'[r], runBuilt'[r], runInstalled'[r], runStaged'[r], outputs')
  BY <1>2, <1>3, <1>5 DEF RunRight, EarlyPcs, LatePcs, Ended
<1>7. LocksMove(r)
  BY <1>1 DEF LocksMove
<1>8. OutputsMove(r)
  <2>0. NoRun # r
    BY BuildAssumption
  <2>1. CASE pc = "done"
    BY <1>2, <1>5, <2>1 DEF OutputsMove
  <2>2. CASE pc # "done"
    <3> SUFFICES ASSUME NEW o \in Outputs
                 PROVE  /\ outputs'[o] = outputs[o] \/ (outputs[o].by \in {NoRun, r} /\ outputs'[o].by \in {NoRun, r})
                        /\ outputs'[o].by # r
      BY DEF OutputsMove
    <3>1. outputs' = [outputs EXCEPT ![runReq[r].out] = Nothing]
      BY <2>2
    <3>2. CASE o = runReq[r].out
      BY <1>2, <1>3, <2>0, <3>1, <3>2 DEF Nothing, BSDomains
    <3>3. CASE o # runReq[r].out
      BY <1>2, <3>1, <3>3 DEF BSDomains
    <3> QED BY <3>2, <3>3
  <2> QED BY <2>1, <2>2
<1>9. ManifestsMove(r)
  <2> SUFFICES ASSUME NEW m \in Manifests, manifests'[m] # manifests[m]
               PROVE  manifests'[m].by = r /\ ManifestRight(manifests'[m], runPc', runReq', outputs')
    BY DEF ManifestsMove
  <2>1. manifests' = [manifests EXCEPT ![runReq[r].man] = Described(r)] /\ pc # "failed"
    OBVIOUS
  <2>2. manifests'[m] = Described(r)
    BY <1>2, <2>1 DEF BSDomains
  <2>3. Described(r) = [by |-> r, out |-> runReq[r].out, pkgs |-> AllOf(runBuilt[r])]
    BY DEF Described, Artifacts, AllOf
  <2>4. pc = "done" => outputs'[runReq[r].out] = [by |-> r, pkgs |-> AllOf(runBuilt[r])]
    BY <1>3
  <2> QED BY <1>3, <1>5, <2>1, <2>2, <2>3, <2>4 DEF ManifestRight
<1> QED BY <1>2, <1>5, <1>6, <1>7, <1>8, <1>9, RunMovesInv DEF Ended

\* A run takes its request.
LEMMA BeginInv ==
  ASSUME BSInv, NEW r \in BuildRuns, Begin(r)
  PROVE  BSInv'
PROOF
<1>1. PICK o \in Outputs, m \in Manifests : runReq' = [runReq EXCEPT ![r] = [out |-> o, man |-> m]]
  BY DEF Begin
<1>2. /\ RunRight(r, runPc[r], runReq[r], runPlan[r], runBuilt[r], runInstalled[r], runStaged[r], outputs)
      /\ BSDomains /\ runPc[r] = "idle" /\ runPc' = [runPc EXCEPT ![r] = "lockOutput"]
      /\ \A p \in Outputs : outputs[p].by # r
  BY RunFacts DEF Begin, Goto
<1>3. /\ UNCHANGED <<runPlan, runBuilt, runInstalled, runStaged, locks, outputs, manifests>>
  BY DEF Begin
<1>4. BSDomains' /\ OthersStay(r) /\ runPc'[r] = "lockOutput" /\ runReq'[r] = [out |-> o, man |-> m]
  BY <1>1, <1>2, <1>3 DEF BSDomains, OthersStay
<1>5. RunRight(r, runPc'[r], runReq'[r], runPlan'[r], runBuilt'[r], runInstalled'[r], runStaged'[r], outputs')
  BY <1>2, <1>3, <1>4 DEF RunRight, EarlyPcs, LatePcs, Ended
<1>6. LocksMove(r) /\ OutputsMove(r) /\ ManifestsMove(r)
  BY <1>2, <1>3, <1>4 DEF LocksMove, OutputsMove, ManifestsMove, Ended
<1> QED BY <1>2, <1>4, <1>5, <1>6, RunMovesInv DEF Ended

\* A lock is taken, or the run is over.
LEMMA TryLockInv ==
  ASSUME BSInv, NEW r \in BuildRuns, NEW path \in Outputs \cup Manifests,
         runPc[r] \in {"lockOutput", "lockManifest"}, NEW next \in {"lockManifest", "check"},
         TryLock(r, path, next), UNCHANGED <<runReq, runPlan, runBuilt, runInstalled, outputs, manifests>>
  PROVE  BSInv'
PROOF
<1>1. CASE locks[path] # NoRun
  <2>1. Return(r, "failed") /\ runPc[r] \notin Ended \cup {"idle", "sync", "manifest"}
    BY <1>1 DEF TryLock, Ended
  <2> QED BY <2>1, EarlyReturnInv
<1>2. CASE locks[path] = NoRun
  <2>1. /\ locks' = [locks EXCEPT ![path] = r] /\ runPc' = [runPc EXCEPT ![r] = next] /\ runStaged' = runStaged
    BY <1>2 DEF TryLock, Goto
  <2>2. /\ RunRight(r, runPc[r], runReq[r], runPlan[r], runBuilt[r], runInstalled[r], runStaged[r], outputs)
        /\ BSDomains
        /\ \A o \in Outputs : outputs[o].by # r
    BY RunFacts
  <2>3. BSDomains' /\ OthersStay(r) /\ runPc'[r] = next
    BY <2>1, <2>2 DEF BSDomains, OthersStay
  <2>4. RunRight(r, runPc'[r], runReq'[r], runPlan'[r], runBuilt'[r], runInstalled'[r], runStaged'[r], outputs')
    BY <2>1, <2>2, <2>3 DEF RunRight, EarlyPcs, LatePcs, Ended
  <2>5. LocksMove(r)
    <3>1. path \in DOMAIN locks /\ runPc'[r] \notin Ended \cup {"idle"}
      BY <2>2, <2>3 DEF BSDomains, Ended
    <3> QED BY <2>1, <3>1 DEF LocksMove
  <2>6. OutputsMove(r) /\ ManifestsMove(r)
    BY <2>2 DEF OutputsMove, ManifestsMove
  <2> QED BY <2>3, <2>4, <2>5, <2>6, RunMovesInv DEF Ended
<1> QED BY <1>1, <1>2

\* A run takes a free lock, or fails and gives back what it holds.
LEMMA LocksInv ==
  ASSUME BSInv, NEW r \in BuildRuns, LockOutput(r) \/ LockManifest(r)
  PROVE  BSInv'
PROOF
<1>1. RunRight(r, runPc[r], runReq[r], runPlan[r], runBuilt[r], runInstalled[r], runStaged[r], outputs)
  BY RunFacts
<1>2. CASE LockOutput(r)
  <2>1. /\ runPc[r] = "lockOutput" /\ TryLock(r, runReq[r].out, "lockManifest")
        /\ UNCHANGED <<runReq, runPlan, runBuilt, runInstalled, outputs, manifests>>
    BY <1>2 DEF LockOutput
  <2>2. runReq[r].out \in Outputs \cup Manifests
    BY <1>1, <2>1 DEF RunRight
  <2> QED BY <2>1, <2>2, TryLockInv
<1>3. CASE LockManifest(r)
  <2>1. /\ runPc[r] = "lockManifest" /\ TryLock(r, runReq[r].man, "check")
        /\ UNCHANGED <<runReq, runPlan, runBuilt, runInstalled, outputs, manifests>>
    BY <1>3 DEF LockManifest
  <2>2. runReq[r].man \in Outputs \cup Manifests
    BY <1>1, <2>1 DEF RunRight
  <2> QED BY <2>1, <2>2, TryLockInv
<1> QED BY <1>2, <1>3

\* The plan is made and the build starts with nothing built.
LEMMA PrepareRunInv ==
  ASSUME BSInv, NEW r \in BuildRuns, PrepareRun(r)
  PROVE  BSInv'
PROOF
<1>1. /\ RunRight(r, runPc[r], runReq[r], runPlan[r], runBuilt[r], runInstalled[r], runStaged[r], outputs)
      /\ BSDomains /\ runPc[r] = "check"
      /\ \A o \in Outputs : outputs[o].by # r
      /\ UNCHANGED <<runReq, runBuilt, runInstalled, outputs, manifests>>
  BY RunFacts DEF PrepareRun
<1>2. CASE Return(r, "failed") /\ UNCHANGED runPlan
  BY <1>1, <1>2, EarlyReturnInv DEF Ended
<1>3. CASE /\ \E plan \in BuildPlans : runPlan' = [runPlan EXCEPT ![r] = plan]
           /\ Goto(r, "build") /\ UNCHANGED <<locks, runStaged>>
  <2>1. PICK plan \in BuildPlans : runPlan' = [runPlan EXCEPT ![r] = plan]
    BY <1>3
  <2>2. runPc' = [runPc EXCEPT ![r] = "build"] /\ locks' = locks /\ runStaged' = runStaged
    BY <1>3 DEF Goto
  <2>3. BSDomains' /\ OthersStay(r) /\ runPc'[r] = "build" /\ runPlan'[r] = plan
    BY <1>1, <2>1, <2>2 DEF BSDomains, OthersStay
  <2>4. runBuilt[r] = <<>> /\ runInstalled[r] = <<>>
    BY <1>1 DEF RunRight, EarlyPcs
  <2>5. BuiltInOrder(plan, <<>>, <<>>)
    <3>1. DOMAIN <<>> = {} /\ Cardinality({}) = 0 /\ 1..0 = {}
      BY FS_EmptySet
    <3>2. 0 \in 0..Len(plan.order)
      BY PlanBases, FS_CardinalityType
    <3>3. DOMAIN <<>> = {plan.order[i] : i \in 1..0}
      BY <3>1
    <3>4. \E k \in 0..Len(plan.order) :
            /\ Cardinality(DOMAIN <<>>) = k
            /\ DOMAIN <<>> = {plan.order[i] : i \in 1..k}
            /\ \A i \in 1..k : Providers(plan, plan.order[i]) \subseteq {plan.order[m] : m \in 1..(i - 1)}
      BY <3>1, <3>2, <3>3
    <3> QED BY <3>1, <3>4 DEF BuiltInOrder
  <2>6. RunRight(r, runPc'[r], runReq'[r], runPlan'[r], runBuilt'[r], runInstalled'[r], runStaged'[r], outputs')
    BY <1>1, <2>3, <2>4, <2>5 DEF RunRight, EarlyPcs, LatePcs, Ended
  <2>7. LocksMove(r) /\ OutputsMove(r) /\ ManifestsMove(r)
    BY <1>1, <2>2, <2>3 DEF LocksMove, OutputsMove, ManifestsMove, Ended
  <2> QED BY <1>1, <2>3, <2>6, <2>7, RunMovesInv DEF Ended
<1> QED BY <1>2, <1>3 DEF PrepareRun

\* new is old with v at b.
With(new, old, b, v) == new = [x \in DOMAIN old \cup {b} |-> IF x = b THEN v ELSE old[x]]

\* One more base, with what it needs installed: the runs' order goes on.
LEMMA BuiltGoesOn ==
  ASSUME NEW plan \in BuildPlans, NEW built, NEW installed, BuiltInOrder(plan, built, installed),
         Cardinality(DOMAIN built) < Len(plan.order),
         NEW b, b = plan.order[Cardinality(DOMAIN built) + 1],
         DependencyArtifacts(plan, b, built).ok, NEW result,
         NEW built2, With(built2, built, b, result),
         NEW installed2, With(installed2, installed, b, DependencyArtifacts(plan, b, built).pkgs)
  PROVE  BuiltInOrder(plan, built2, installed2)
PROOF
<1> USE DEF With
<1> DEFINE s == plan.order
           need == DependencyArtifacts(plan, b, built).pkgs
<1>1. PICK k \in 0..Len(s) :
        /\ Cardinality(DOMAIN built) = k
        /\ DOMAIN built = {s[i] : i \in 1..k}
        /\ \A i \in 1..k : Providers(plan, s[i]) \subseteq {s[m] : m \in 1..(i - 1)}
  BY DEF BuiltInOrder
<1>2. k \in Nat /\ k < Len(s) /\ Len(s) \in Nat /\ k + 1 \in 0..Len(s) /\ b = s[k + 1]
  <2>1. Len(s) \in Nat
    BY PlanBases, FS_CardinalityType
  <2>2. b = s[k + 1]
    BY <1>1
  <2>3. k < Len(s)
    BY <1>1
  <2> HIDE DEF s
  <2> QED BY <2>1, <2>2, <2>3
<1>3. /\ Needs(plan, b) \subseteq DOMAIN built /\ Providers(plan, b) \subseteq DOMAIN built
      /\ need = UNION {built[p] : p \in Needs(plan, b)}
  BY <1>1, <1>2, ArtifactsAreNeeds
<1>4. b \notin DOMAIN built
  <2>1. IsInjective(s) /\ DOMAIN s = 1..Len(s)
    BY <1>2, PlanFirst, BuildAssumption
  <2>2. \A i \in 1..k : i \in 1..Len(s) /\ k + 1 \in 1..Len(s) /\ i # k + 1
    BY <1>2
  <2> QED BY <1>1, <1>2, <2>1, <2>2 DEF IsInjective
<1>5. DOMAIN built2 = DOMAIN built \cup {b} /\ DOMAIN installed2 = DOMAIN built \cup {b}
  BY DEF BuiltInOrder
<1>6. DOMAIN built2 = {s[i] : i \in 1..(k + 1)}
  <2>1. \A i : i \in 1..(k + 1) <=> i \in 1..k \/ i = k + 1
    BY <1>2
  <2> QED BY <1>1, <1>2, <1>5, <2>1
<1>7. Cardinality(DOMAIN built2) = k + 1
  BY <1>2, <1>6, PlanFirst
<1>8. ASSUME NEW i \in 1..(k + 1) PROVE Providers(plan, s[i]) \subseteq {s[m] : m \in 1..(i - 1)}
  <2>1. CASE i = k + 1
    <3>1. i - 1 = k
      BY <1>2, <2>1
    <3> QED BY <1>1, <1>2, <1>3, <2>1, <3>1
  <2>2. CASE i # k + 1
    <3>1. i \in 1..k
      BY <1>2, <2>2
    <3> QED BY <1>1, <3>1
  <2> QED BY <2>1, <2>2
<1>9. \A p \in DOMAIN built : p # b /\ built2[p] = built[p]
  BY <1>4
<1>10. ASSUME NEW x \in DOMAIN installed2
       PROVE  /\ Needs(plan, x) \subseteq DOMAIN built2
              /\ installed2[x] = UNION {built2[p] : p \in Needs(plan, x)}
  <2>1. /\ Needs(plan, x) \subseteq DOMAIN built
        /\ installed2[x] = UNION {built[p] : p \in Needs(plan, x)}
    <3>1. CASE x = b
      <4>1. installed2[x] = need
        BY <1>5, <3>1
      <4> HIDE DEF need
      <4> QED BY <1>3, <3>1, <4>1
    <3>2. CASE x # b
      <4>1. x \in DOMAIN installed /\ installed2[x] = installed[x]
        BY <1>5, <3>2 DEF BuiltInOrder
      <4> QED BY <4>1 DEF BuiltInOrder
    <3> QED BY <3>1, <3>2
  <2>2. \A p \in Needs(plan, x) : built2[p] = built[p]
    BY <1>9, <2>1
  <2>3. {built2[p] : p \in Needs(plan, x)} = {built[p] : p \in Needs(plan, x)}
    <3>1. ASSUME NEW y \in {built2[p] : p \in Needs(plan, x)} PROVE y \in {built[p] : p \in Needs(plan, x)}
      <4>1. PICK p \in Needs(plan, x) : y = built2[p]
        OBVIOUS
      <4>2. y = built[p]
        BY <2>2, <4>1
      <4> QED BY <4>2, Zenon
    <3>2. ASSUME NEW y \in {built[p] : p \in Needs(plan, x)} PROVE y \in {built2[p] : p \in Needs(plan, x)}
      <4>1. PICK p \in Needs(plan, x) : y = built[p]
        OBVIOUS
      <4> QED BY <2>2, <4>1, Zenon
    <3> QED BY <3>1, <3>2, Zenon
  <2> QED BY <1>5, <2>1, <2>3
<1>11. \E n \in 0..Len(s) :
         /\ Cardinality(DOMAIN built2) = n
         /\ DOMAIN built2 = {s[i] : i \in 1..n}
         /\ \A i \in 1..n : Providers(plan, s[i]) \subseteq {s[m] : m \in 1..(i - 1)}
  BY <1>2, <1>6, <1>7, <1>8
<1> QED BY <1>5, <1>10, <1>11 DEF BuiltInOrder

\* The next base of the plan is built, with the artifacts of all it needs installed.
LEMMA BuildOneInv ==
  ASSUME BSInv, NEW r \in BuildRuns, BuildOne(r)
  PROVE  BSInv'
PROOF
<1> DEFINE plan == runPlan[r]
           built == runBuilt[r]
           b == NextBase(r)
           install == DependencyArtifacts(plan, b, built)
<1>1. /\ RunRight(r, runPc[r], runReq[r], plan, built, runInstalled[r], runStaged[r], outputs)
      /\ BSDomains /\ runPc[r] = "build" /\ Cardinality(DOMAIN built) < Len(plan.order)
      /\ \A o \in Outputs : outputs[o].by # r
      /\ UNCHANGED <<runReq, runPlan, outputs, manifests>>
  BY RunFacts DEF BuildOne
<1>2. plan \in BuildPlans /\ BuiltInOrder(plan, built, runInstalled[r]) /\ b = plan.order[Cardinality(DOMAIN built) + 1]
  BY <1>1 DEF RunRight, LatePcs, NextBase
<1>3. CASE Return(r, "failed") /\ UNCHANGED <<runBuilt, runInstalled>>
  BY <1>1, <1>3, EarlyReturnInv DEF Ended
<1>4. ASSUME NEW result, install.ok,
             runBuilt' = [runBuilt EXCEPT ![r] = [x \in DOMAIN @ \cup {b} |-> IF x = b THEN ToSet(result) ELSE @[x]]],
             runInstalled' = [runInstalled EXCEPT ![r] =
               [x \in DOMAIN @ \cup {b} |-> IF x = b THEN install.pkgs ELSE @[x]]],
             UNCHANGED <<runPc, locks, runStaged>>
      PROVE  BSInv'
  <2>1. With(runBuilt'[r], built, b, ToSet(result)) /\ With(runInstalled'[r], runInstalled[r], b, install.pkgs)
    BY <1>1, <1>4 DEF BSDomains, With
  <2>2. BSDomains' /\ OthersStay(r)
    BY <1>1, <1>4 DEF BSDomains, OthersStay
  <2>3. BuiltInOrder(plan, runBuilt'[r], runInstalled'[r])
    <3> HIDE DEF plan, built, b
    <3> QED BY <1>1, <1>2, <1>4, <2>1, BuiltGoesOn
  <2>4. RunRight(r, runPc'[r], runReq'[r], runPlan'[r], runBuilt'[r], runInstalled'[r], runStaged'[r], outputs')
    BY <1>1, <1>4, <2>3 DEF RunRight, EarlyPcs, LatePcs, Ended
  <2>5. LocksMove(r) /\ OutputsMove(r) /\ ManifestsMove(r)
    BY <1>1, <1>4 DEF LocksMove, OutputsMove, ManifestsMove, Ended
  <2> QED BY <1>1, <2>2, <2>4, <2>5, RunMovesInv DEF Ended
<1> QED BY <1>3, <1>4 DEF BuildOne

\* The artifacts are copied to the staging directory.
LEMMA StageInv ==
  ASSUME BSInv, NEW r \in BuildRuns, Stage(r)
  PROVE  BSInv'
PROOF
<1>1. /\ RunRight(r, runPc[r], runReq[r], runPlan[r], runBuilt[r], runInstalled[r], runStaged[r], outputs)
      /\ BSDomains /\ runPc[r] = "build"
      /\ \A o \in Outputs : outputs[o].by # r
      /\ UNCHANGED <<runReq, runPlan, runBuilt, runInstalled, outputs, manifests>>
  BY RunFacts DEF Stage
<1>2. CASE Return(r, "failed")
  BY <1>1, <1>2, EarlyReturnInv DEF Ended
<1>3. CASE runStaged' = [runStaged EXCEPT ![r] = Artifacts(r)] /\ Goto(r, "rename") /\ UNCHANGED locks
  <2>1. runPc' = [runPc EXCEPT ![r] = "rename"]
    BY <1>3 DEF Goto
  <2>2. BSDomains' /\ OthersStay(r) /\ runPc'[r] = "rename" /\ runStaged'[r] = Artifacts(r)
    BY <1>1, <1>3, <2>1 DEF BSDomains, OthersStay
  <2>3. Artifacts(r) = AllOf(runBuilt[r])
    BY DEF Artifacts, AllOf
  <2>4. RunRight(r, runPc'[r], runReq'[r], runPlan'[r], runBuilt'[r], runInstalled'[r], runStaged'[r], outputs')
    BY <1>1, <2>2, <2>3 DEF RunRight, EarlyPcs, LatePcs, Ended
  <2>5. LocksMove(r) /\ OutputsMove(r) /\ ManifestsMove(r)
    BY <1>1, <1>3, <2>2 DEF LocksMove, OutputsMove, ManifestsMove, Ended
  <2> QED BY <1>1, <2>2, <2>4, <2>5, RunMovesInv DEF Ended
<1> QED BY <1>2, <1>3 DEF Stage

\* The staging directory becomes the output.
LEMMA RenameStagingInv ==
  ASSUME BSInv, NEW r \in BuildRuns, RenameStaging(r)
  PROVE  BSInv'
PROOF
<1> DEFINE o == runReq[r].out
<1>1. /\ RunRight(r, runPc[r], runReq[r], runPlan[r], runBuilt[r], runInstalled[r], runStaged[r], outputs)
      /\ BSDomains /\ runPc[r] = "rename"
      /\ \A q \in Outputs : outputs[q].by # r
      /\ UNCHANGED <<runReq, runPlan, runBuilt, runInstalled, manifests>>
  BY RunFacts DEF RenameStaging
<1>2. CASE Return(r, "failed") /\ UNCHANGED outputs
  BY <1>1, <1>2, EarlyReturnInv DEF Ended
<1>3. CASE /\ outputs[o].by = NoRun
           /\ outputs' = [outputs EXCEPT ![o] = [by |-> r, pkgs |-> runStaged[r]]]
           /\ runStaged' = [runStaged EXCEPT ![r] = {}] /\ Goto(r, "sync") /\ UNCHANGED locks
  <2>1. runPc' = [runPc EXCEPT ![r] = "sync"]
    BY <1>3 DEF Goto
  <2>2. o \in Outputs /\ runStaged[r] = AllOf(runBuilt[r])
    BY <1>1 DEF RunRight
  <2>3. DOMAIN outputs' = Outputs /\ outputs'[o] = [by |-> r, pkgs |-> AllOf(runBuilt[r])]
    BY <1>1, <1>3, <2>2 DEF BSDomains
  <2>4. BSDomains' /\ OthersStay(r) /\ runPc'[r] = "sync" /\ runStaged'[r] = {}
    BY <1>1, <1>3, <2>1, <2>3 DEF BSDomains, OthersStay
  <2>5. RunRight(r, runPc'[r], runReq'[r], runPlan'[r], runBuilt'[r], runInstalled'[r], runStaged'[r], outputs')
    BY <1>1, <2>3, <2>4 DEF RunRight, EarlyPcs, LatePcs, Ended
  <2>6. LocksMove(r) /\ ManifestsMove(r)
    BY <1>1, <1>3, <2>4 DEF LocksMove, ManifestsMove, Ended
  <2>7. OutputsMove(r)
    <3> SUFFICES ASSUME NEW q \in Outputs
                 PROVE  /\ outputs'[q] = outputs[q] \/ (outputs[q].by \in {NoRun, r} /\ outputs'[q].by \in {NoRun, r})
                        /\ outputs'[q].by = r => runReq'[r].out = q
      BY <2>4 DEF OutputsMove
    <3>1. CASE q = o
      BY <1>1, <1>3, <2>3, <3>1
    <3>2. CASE q # o
      BY <1>1, <1>3, <3>2 DEF BSDomains
    <3> QED BY <3>1, <3>2
  <2> QED BY <1>1, <2>4, <2>5, <2>6, <2>7, RunMovesInv DEF Ended
<1> QED BY <1>2, <1>3 DEF RenameStaging

\* The parent directory is synced, or the output is taken back.
LEMMA SyncParentInv ==
  ASSUME BSInv, NEW r \in BuildRuns, SyncParent(r)
  PROVE  BSInv'
PROOF
<1>1. /\ RunRight(r, runPc[r], runReq[r], runPlan[r], runBuilt[r], runInstalled[r], runStaged[r], outputs)
      /\ BSDomains /\ runPc[r] = "sync"
      /\ \A o \in Outputs : outputs[o].by = r => runReq[r].out = o
      /\ UNCHANGED <<runReq, runPlan, runBuilt, runInstalled, manifests>>
  BY RunFacts DEF SyncParent
<1>2. CASE Return(r, "failed") /\ Withdraw(r)
  BY <1>1, <1>2, LateReturnInv DEF Withdraw
<1>3. CASE Goto(r, "manifest") /\ UNCHANGED <<locks, runStaged, outputs>>
  <2>1. runPc' = [runPc EXCEPT ![r] = "manifest"]
    BY <1>3 DEF Goto
  <2>2. BSDomains' /\ OthersStay(r) /\ runPc'[r] = "manifest"
    BY <1>1, <1>3, <2>1 DEF BSDomains, OthersStay
  <2>3. RunRight(r, runPc'[r], runReq'[r], runPlan'[r], runBuilt'[r], runInstalled'[r], runStaged'[r], outputs')
    BY <1>1, <1>3, <2>2 DEF RunRight, EarlyPcs, LatePcs, Ended
  <2>4. LocksMove(r) /\ OutputsMove(r) /\ ManifestsMove(r)
    BY <1>1, <1>3, <2>2 DEF LocksMove, OutputsMove, ManifestsMove, Ended
  <2> QED BY <1>1, <2>2, <2>3, <2>4, RunMovesInv DEF Ended
<1> QED BY <1>2, <1>3 DEF SyncParent

\* The manifest is replaced, or the output is taken back.
LEMMA WriteManifestInv ==
  ASSUME BSInv, NEW r \in BuildRuns, WriteManifest(r)
  PROVE  BSInv'
PROOF
<1>1. runPc[r] = "manifest" /\ UNCHANGED <<runReq, runPlan, runBuilt, runInstalled>>
  BY DEF WriteManifest
<1>2. CASE /\ manifests' = [manifests EXCEPT ![runReq[r].man] = Described(r)]
           /\ Return(r, "done") /\ UNCHANGED outputs
  BY <1>1, <1>2, LateReturnInv
<1>3. CASE Return(r, "failed") /\ Withdraw(r) /\ UNCHANGED manifests
  BY <1>1, <1>3, LateReturnInv DEF Withdraw
<1>4. CASE /\ manifests' = [manifests EXCEPT ![runReq[r].man] = Described(r)]
           /\ Return(r, "uncommitted") /\ Withdraw(r)
  BY <1>1, <1>4, LateReturnInv DEF Withdraw
<1> QED BY <1>2, <1>3, <1>4 DEF WriteManifest

\* A run crashes: its locks are free and its directories stay.
LEMMA CrashRunInv ==
  ASSUME BSInv, NEW r \in BuildRuns, CrashRun(r)
  PROVE  BSInv'
PROOF
<1>1. /\ RunRight(r, runPc[r], runReq[r], runPlan[r], runBuilt[r], runInstalled[r], runStaged[r], outputs)
      /\ BSDomains /\ runPc[r] \notin Ended \cup {"idle"} /\ runPc' = [runPc EXCEPT ![r] = "crashed"]
      /\ locks' = [p \in DOMAIN locks |-> IF locks[p] = r THEN NoRun ELSE locks[p]]
      /\ \A o \in Outputs : outputs[o].by = r => runReq[r].out = o
      /\ UNCHANGED <<runReq, runPlan, runBuilt, runInstalled, runStaged, outputs, manifests>>
  BY RunFacts DEF CrashRun, Goto, Unlocked
<1>2. BSDomains' /\ OthersStay(r) /\ runPc'[r] = "crashed"
  BY <1>1 DEF BSDomains, OthersStay
<1>3. RunRight(r, runPc'[r], runReq'[r], runPlan'[r], runBuilt'[r], runInstalled'[r], runStaged'[r], outputs')
  BY <1>1, <1>2 DEF RunRight, EarlyPcs, LatePcs, Ended
<1>4. LocksMove(r) /\ OutputsMove(r) /\ ManifestsMove(r)
  BY <1>1, <1>2 DEF LocksMove, OutputsMove, ManifestsMove
<1> QED BY <1>1, <1>2, <1>3, <1>4, RunMovesInv

\* A step keeps the invariant.
LEMMA BSNextInv ==
  ASSUME BSInv, [BuildNext]_buildVars
  PROVE  BSInv'
PROOF
<1>1. CASE UNCHANGED buildVars
  BY <1>1 DEF buildVars, BSInv, BSDomains
<1>2. CASE \E r \in BuildRuns : RunStep(r)
  BY <1>2, BeginInv, LocksInv, PrepareRunInv, BuildOneInv, StageInv, RenameStagingInv, SyncParentInv,
     WriteManifestInv, CrashRunInv DEF RunStep
<1> QED BY <1>1, <1>2 DEF BuildNext, AllEnded

\* The invariant gives the properties of the build runs.
LEMMA BSInvHolds == ASSUME BSInv PROVE RunsHold
PROOF
<1>0. NoRun \notin BuildRuns
  BY BuildAssumption
<1>1. ManifestTellsTruth
  BY DEF BSInv, ManifestRight, ManifestTellsTruth
<1>2. FailedRunLeavesNothing
  <2> SUFFICES ASSUME NEW r \in BuildRuns, runPc[r] \in {"failed", "uncommitted"}
               PROVE  /\ \A o \in Outputs : outputs[o].by # r
                      /\ runStaged[r] = {} /\ \A p \in DOMAIN locks : locks[p] # r
    BY DEF FailedRunLeavesNothing
  <2>1. \A o \in Outputs : outputs[o].by # r
    BY RunFacts
  <2>2. runStaged[r] = {}
    BY RunFacts DEF RunRight
  <2>3. \A p \in DOMAIN locks : locks[p] # r
    BY <1>0 DEF BSInv, LockRight, Ended
  <2> QED BY <2>1, <2>2, <2>3
<1>3. InstalledWhatItNeeds
  <2>1. \A r \in BuildRuns : BuiltInOrder(runPlan[r], runBuilt[r], runInstalled[r])
    BY DEF BSInv, RunRight
  <2> QED BY <2>1 DEF InstalledWhatItNeeds, BuiltInOrder
<1> QED BY <1>1, <1>2, <1>3 DEF RunsHold

\* For any runs, plans, outputs and manifests, with failures and crashes between any two steps: a
\* manifest lists exactly what its output holds, a run that returned an error leaves nothing, and
\* every base was built with the artifacts of all its dependencies installed.
THEOREM RunsCorrect == BuildSpec => []RunsHold
PROOF
<1>1. BuildSpec => []BSInv
  BY BSInitInv, BSNextInv, PTL DEF BuildSpec
<1> QED BY <1>1, BSInvHolds, PTL

(***************************************************************************)
(* The build backends                                                      *)
(***************************************************************************)
InContainerKind(k) == k \in {"container", "metadata"}
PullPcs == {"pull", "inspect", "stage", "create"}
HostPcs == {"snapshot", "prepare", "command", "exited"}
OpenPcs == {"new", "start", "wait", "collect", "move"} \cup PullPcs \cup HostPcs
AfterPcs == {"sign", "publish", "returned"}

ContainerFields == [image : Nat, state : {"none", "created", "running", "exited"}]
FileStamps == [PkgFiles -> Nat]
CallFields ==
  [pc : OpenPcs \cup {"unwind", "tidy"} \cup AfterPcs, kind : {"container"} \cup BuildKinds, over : BOOLEAN, ref : Nat,
   pinned : BOOLEAN, base : FileStamps, todo : SUBSET PkgFiles, result : SUBSET PkgFiles,
   outcome : {"none", "ok", "failed", "transient"}, made : SUBSET PkgFiles, code : {0, 1}, killed : BOOLEAN,
   kept : BOOLEAN, sign : BOOLEAN, published : SUBSET [p : PkgFiles, file : Nat, sig : Nat]]

\* Where a call is and what its container is doing.
PlaceRight(me, con) ==
  /\ me.outcome = "none" <=> me.pc \in OpenPcs
  /\ me.pc \in PullPcs \cup {"start", "wait"} => InContainerKind(me.kind)
  /\ me.pc \in HostPcs => ~InContainerKind(me.kind)
  /\ ~InContainerKind(me.kind) => con.state = "none"
  /\ me.pc \in PullPcs \cup {"new"} => con.image = 0 /\ con.state = "none"
  /\ me.pc = "start" => con.state = "created"
  /\ con.state = "running" =>
       me.pc = "wait" \/ (me.outcome = "transient" /\ me.pc \in {"unwind", "tidy", "returned"})
  /\ me.pc \in AfterPcs \cup {"tidy"} => con.state = "none" \/ me.kept
  /\ me.kept => me.pc \in AfterPcs \cup {"tidy"}

\* What the call has on the host.
TempRight(me, con, temp) ==
  /\ me.pc \in PullPcs => "staging" \in temp
  /\ me.pc = "create" => "override" \in temp
  /\ con.state # "none" /\ ~me.kept => {"staging", "override"} \subseteq temp
  /\ me.pc \in AfterPcs => temp = {}

\* The image of a call that knows a digest.
PinRight(me, con, pin) ==
  me.pinned => pin # 0 /\ me.ref = pin /\ con.image \in {0, pin}

\* The files: what was there, and what makepkg made.
FilesRight(me, dir, out) ==
  /\ me.pc \in {"new", "snapshot"} => me.made = {} /\ \A p \in PkgFiles : dir[p] = OldStamp
  /\ me.pc = "new" => me.base = NoFiles
  /\ me.pc \in OpenPcs \ {"new", "snapshot", "move"} =>
       \A p \in PkgFiles : /\ me.base[p] \in {0, OldStamp}
                           /\ dir[p] = IF p \in me.made THEN NewStamp ELSE me.base[p]
  /\ me.pc \in OpenPcs \ {"move"} => me.result = {}
  /\ me.pc = "move" =>
       /\ me.kind # "metadata" /\ me.todo # {} /\ me.todo \cup me.result = me.made
       /\ \A p \in me.todo : dir[p] = NewStamp
       /\ \A p \in me.result : out[p] = NewStamp
  /\ me.outcome = "ok" /\ me.kind # "metadata" =>
       me.result = me.made /\ me.result # {} /\ \A p \in me.result : out[p] = NewStamp
  /\ me.pc \in {"sign", "publish"} => me.outcome = "ok" /\ me.kind # "metadata"

\* How makepkg ended.
ExitRight(me) ==
  /\ me.killed => ~InContainerKind(me.kind) /\ me.pc \notin {"new", "snapshot", "prepare", "command"} /\ me.code # 0 /\ me.over
  /\ me.pc = "collect" => me.code = 0
  /\ me.outcome = "failed" => ~me.killed /\ (me.code # 0 \/ me.made = {})

\* What was signed and uploaded.
UploadRight(me, out, sig) ==
  /\ me.pc = "publish" /\ me.sign => \A p \in me.result : sig[p] = out[p]
  /\ me.published # {} => me.pc = "returned"
  /\ \A u \in me.published : u.file = NewStamp /\ (me.sign => u.sig = u.file)

CallRight(me, con, temp, dir, out, sig, pin) ==
  /\ PlaceRight(me, con) /\ TempRight(me, con, temp) /\ PinRight(me, con, pin)
  /\ FilesRight(me, dir, out) /\ ExitRight(me) /\ UploadRight(me, out, sig)

BKTypes ==
  /\ bkTag \in Nat /\ bkLocal \in Nat /\ bkPin \in Nat
  /\ bkC \in [BuildCalls -> ContainerFields] /\ DOMAIN bkTemp = BuildCalls
  /\ bkDir \in [BuildCalls -> FileStamps] /\ bkOut \in [BuildCalls -> FileStamps] /\ bkSig \in [BuildCalls -> FileStamps]
  /\ bkB \in [BuildCalls -> CallFields]

\* The invariant of the backends.
BKInv ==
  /\ BKTypes
  /\ \A b \in BuildCalls : CallRight(bkB[b], bkC[b], bkTemp[b], bkDir[b], bkOut[b], bkSig[b], bkPin)

\* The other calls stay as they are.
CallsStay(b) ==
  \A q \in BuildCalls : q # b =>
    /\ bkB'[q] = bkB[q] /\ bkC'[q] = bkC[q] /\ bkTemp'[q] = bkTemp[q]
    /\ bkDir'[q] = bkDir[q] /\ bkOut'[q] = bkOut[q] /\ bkSig'[q] = bkSig[q]

\* One call moves; the pin stays once there is one.
LEMMA CallMovesInv ==
  ASSUME BKInv, BKTypes', NEW b \in BuildCalls, CallsStay(b), bkPin' = bkPin \/ bkPin = 0,
         CallRight(bkB'[b], bkC'[b], bkTemp'[b], bkDir'[b], bkOut'[b], bkSig'[b], bkPin')
  PROVE  BKInv'
PROOF
<1>1. ASSUME NEW q \in BuildCalls
      PROVE  CallRight(bkB'[q], bkC'[q], bkTemp'[q], bkDir'[q], bkOut'[q], bkSig'[q], bkPin')
  <2>1. CASE q = b
    BY <2>1
  <2>2. CASE q # b
    <3>1. CallRight(bkB[q], bkC[q], bkTemp[q], bkDir[q], bkOut[q], bkSig[q], bkPin)
      BY DEF BKInv
    <3>2. PinRight(bkB[q], bkC[q], bkPin')
      BY <3>1 DEF CallRight, PinRight
    <3>3. CallRight(bkB[q], bkC[q], bkTemp[q], bkDir[q], bkOut[q], bkSig[q], bkPin')
      BY <3>1, <3>2 DEF CallRight
    <3> QED BY <2>2, <3>3 DEF CallsStay
  <2> QED BY <2>1, <2>2
<1> QED BY <1>1 DEF BKInv

\* Only the record of a call changes.
LEMMA RecordMovesInv ==
  ASSUME BKInv, NEW b \in BuildCalls, NEW r \in CallFields, bkB' = [bkB EXCEPT ![b] = r],
         UNCHANGED <<bkTag, bkLocal, bkPin, bkC, bkTemp, bkDir, bkOut, bkSig>>,
         CallRight(r, bkC[b], bkTemp[b], bkDir[b], bkOut[b], bkSig[b], bkPin)
  PROVE  BKInv'
PROOF
<1>1. BKTypes' /\ CallsStay(b) /\ bkB'[b] = r
  BY DEF BKInv, BKTypes, CallsStay
<1> QED BY <1>1, CallMovesInv

\* The facts a step of call b starts from.
LEMMA CallFacts ==
  ASSUME BKInv, NEW b \in BuildCalls
  PROVE  /\ CallRight(bkB[b], bkC[b], bkTemp[b], bkDir[b], bkOut[b], bkSig[b], bkPin)
         /\ bkB[b] \in CallFields /\ bkC[b] \in ContainerFields
         /\ bkDir[b] \in FileStamps /\ bkOut[b] \in FileStamps /\ bkSig[b] \in FileStamps
PROOF
<1> QED BY DEF BKInv, BKTypes

\* No call has started: the invariant holds.
LEMMA BKInitInv == ASSUME BKInit PROVE BKInv
PROOF
<1>1. NoContainer \in ContainerFields
  BY DEF NoContainer, ContainerFields
<1>2. NoFiles \in FileStamps /\ [p \in PkgFiles |-> OldStamp] \in FileStamps
  BY DEF NoFiles, FileStamps, OldStamp
<1>3. CallStart \in CallFields
  <2>1. 0 \in Nat /\ "new" \in OpenPcs
    BY DEF OpenPcs
  <2> QED BY <1>2, <2>1, Zenon DEF CallStart, CallFields
<1>4. BKTypes
  BY <1>1, <1>2, <1>3 DEF BKInit, BKTypes
<1>5. ASSUME NEW b \in BuildCalls
      PROVE  CallRight(bkB[b], bkC[b], bkTemp[b], bkDir[b], bkOut[b], bkSig[b], bkPin)
  <2>1. bkB[b] = CallStart /\ bkC[b] = NoContainer /\ bkTemp[b] = {} /\ bkDir[b] = [p \in PkgFiles |-> OldStamp]
    BY DEF BKInit
  <2>2. PlaceRight(bkB[b], bkC[b])
    BY <2>1 DEF CallStart, NoContainer, PlaceRight, OpenPcs, PullPcs, HostPcs, AfterPcs, InContainerKind
  <2>3. TempRight(bkB[b], bkC[b], bkTemp[b]) /\ PinRight(bkB[b], bkC[b], bkPin)
    BY <2>1 DEF CallStart, NoContainer, TempRight, PinRight, OpenPcs, PullPcs, HostPcs, AfterPcs
  <2>4. FilesRight(bkB[b], bkDir[b], bkOut[b])
    BY <2>1 DEF CallStart, FilesRight, OpenPcs, PullPcs, HostPcs, AfterPcs
  <2>5. ExitRight(bkB[b]) /\ UploadRight(bkB[b], bkOut[b], bkSig[b])
    BY <2>1 DEF CallStart, ExitRight, UploadRight
  <2> QED BY <2>2, <2>3, <2>4, <2>5 DEF CallRight
<1> QED BY <1>4, <1>5 DEF BKInv

\* The context of a call ends.
LEMMA ContextDoneInv ==
  ASSUME BKInv, NEW b \in BuildCalls, ContextDone(b)
  PROVE  BKInv'
PROOF
<1> DEFINE me == bkB[b]
           r == [me EXCEPT !.over = TRUE]
<1>1. /\ CallRight(me, bkC[b], bkTemp[b], bkDir[b], bkOut[b], bkSig[b], bkPin) /\ me \in CallFields
      /\ bkC[b] \in ContainerFields /\ bkDir[b] \in FileStamps /\ bkOut[b] \in FileStamps
      /\ bkSig[b] \in FileStamps /\ me.pc \notin {"new", "returned"}
      /\ bkB' = [bkB EXCEPT ![b] = r]
      /\ UNCHANGED <<bkTag, bkLocal, bkPin, bkC, bkTemp, bkDir, bkOut, bkSig>>
  BY CallFacts DEF ContextDone, Call, bkImages, bkFiles
<1>2. r \in CallFields
  BY <1>1, Zenon DEF CallFields, OpenPcs, PullPcs, HostPcs, AfterPcs
<1>3. /\ r.pc = me.pc /\ r.kind = me.kind /\ r.over = TRUE /\ r.ref = me.ref /\ r.pinned = me.pinned
      /\ r.base = me.base /\ r.todo = me.todo /\ r.result = me.result /\ r.outcome = me.outcome
      /\ r.made = me.made /\ r.code = me.code /\ r.killed = me.killed /\ r.kept = me.kept
      /\ r.sign = me.sign /\ r.published = me.published
  BY <1>1 DEF CallFields
<1> HIDE DEF r, me
<1>4. PlaceRight(r, bkC[b])
  BY <1>1, <1>3 DEF CallRight, PlaceRight, InContainerKind, OpenPcs, PullPcs, HostPcs, AfterPcs
<1>5. TempRight(r, bkC[b], bkTemp[b]) /\ PinRight(r, bkC[b], bkPin)
  BY <1>1, <1>3 DEF CallRight, TempRight, PinRight, PlaceRight, OpenPcs, PullPcs, HostPcs, AfterPcs
<1>6. FilesRight(r, bkDir[b], bkOut[b])
  BY <1>1, <1>3 DEF CallRight, FilesRight, PlaceRight, OpenPcs, PullPcs, HostPcs, AfterPcs
<1>7. ExitRight(r) /\ UploadRight(r, bkOut[b], bkSig[b])
  BY <1>1, <1>3 DEF CallRight, ExitRight, UploadRight, PlaceRight, FilesRight, OpenPcs, PullPcs, HostPcs, AfterPcs
<1> QED BY <1>1, <1>2, <1>4, <1>5, <1>6, <1>7, RecordMovesInv DEF CallRight

\* The snapshot before a build on the host.
LEMMA BaselineInv ==
  ASSUME BKInv, NEW b \in BuildCalls, Baseline(b)
  PROVE  BKInv'
PROOF
<1> DEFINE me == bkB[b]
           r == [me EXCEPT !.pc = "prepare", !.base = bkDir[b]]
<1>1. /\ CallRight(me, bkC[b], bkTemp[b], bkDir[b], bkOut[b], bkSig[b], bkPin) /\ me \in CallFields
      /\ bkC[b] \in ContainerFields /\ bkDir[b] \in FileStamps /\ bkOut[b] \in FileStamps
      /\ bkSig[b] \in FileStamps /\ me.pc = "snapshot"
      /\ bkB' = [bkB EXCEPT ![b] = r]
      /\ UNCHANGED <<bkTag, bkLocal, bkPin, bkC, bkTemp, bkDir, bkOut, bkSig>>
  BY CallFacts DEF Baseline, Call, bkImages, bkFiles
<1>2. r \in CallFields
  BY <1>1, Zenon DEF CallFields, OpenPcs, PullPcs, HostPcs, AfterPcs
<1>3. /\ r.pc = "prepare" /\ r.kind = me.kind /\ r.over = me.over /\ r.ref = me.ref /\ r.pinned = me.pinned
      /\ r.base = bkDir[b] /\ r.todo = me.todo /\ r.result = me.result /\ r.outcome = me.outcome
      /\ r.made = me.made /\ r.code = me.code /\ r.killed = me.killed /\ r.kept = me.kept
      /\ r.sign = me.sign /\ r.published = me.published
  BY <1>1 DEF CallFields
<1> HIDE DEF r, me
<1>4. PlaceRight(r, bkC[b])
  BY <1>1, <1>3 DEF CallRight, PlaceRight, InContainerKind, OpenPcs, PullPcs, HostPcs, AfterPcs
<1>5. TempRight(r, bkC[b], bkTemp[b]) /\ PinRight(r, bkC[b], bkPin)
  BY <1>1, <1>3 DEF CallRight, TempRight, PinRight, PlaceRight, OpenPcs, PullPcs, HostPcs, AfterPcs
<1>6. FilesRight(r, bkDir[b], bkOut[b])
  BY <1>1, <1>3 DEF CallRight, FilesRight, PlaceRight, OpenPcs, PullPcs, HostPcs, AfterPcs
<1>7. ExitRight(r) /\ UploadRight(r, bkOut[b], bkSig[b])
  BY <1>1, <1>3 DEF CallRight, ExitRight, UploadRight, PlaceRight, FilesRight, OpenPcs, PullPcs, HostPcs, AfterPcs
<1> QED BY <1>1, <1>2, <1>4, <1>5, <1>6, <1>7, RecordMovesInv DEF CallRight

\* The command on the host is killed with its context.
LEMMA MakepkgKilledInv ==
  ASSUME BKInv, NEW b \in BuildCalls, MakepkgKilled(b)
  PROVE  BKInv'
PROOF
<1> DEFINE me == bkB[b]
           r == [me EXCEPT !.pc = "exited", !.code = 1, !.killed = TRUE]
<1>1. /\ CallRight(me, bkC[b], bkTemp[b], bkDir[b], bkOut[b], bkSig[b], bkPin) /\ me \in CallFields
      /\ bkC[b] \in ContainerFields /\ bkDir[b] \in FileStamps /\ bkOut[b] \in FileStamps
      /\ bkSig[b] \in FileStamps /\ me.pc = "command" /\ me.over
      /\ bkB' = [bkB EXCEPT ![b] = r]
      /\ UNCHANGED <<bkTag, bkLocal, bkPin, bkC, bkTemp, bkDir, bkOut, bkSig>>
  BY CallFacts DEF MakepkgKilled, Call, bkImages, bkFiles
<1>2. r \in CallFields
  BY <1>1, Zenon DEF CallFields, OpenPcs, PullPcs, HostPcs, AfterPcs
<1>3. /\ r.pc = "exited" /\ r.kind = me.kind /\ r.over = me.over /\ r.ref = me.ref /\ r.pinned = me.pinned
      /\ r.base = me.base /\ r.todo = me.todo /\ r.result = me.result /\ r.outcome = me.outcome
      /\ r.made = me.made /\ r.code = 1 /\ r.killed = TRUE /\ r.kept = me.kept /\ r.sign = me.sign
      /\ r.published = me.published
  BY <1>1 DEF CallFields
<1> HIDE DEF r, me
<1>4. PlaceRight(r, bkC[b])
  BY <1>1, <1>3 DEF CallRight, PlaceRight, InContainerKind, OpenPcs, PullPcs, HostPcs, AfterPcs
<1>5. TempRight(r, bkC[b], bkTemp[b]) /\ PinRight(r, bkC[b], bkPin)
  BY <1>1, <1>3 DEF CallRight, TempRight, PinRight, PlaceRight, OpenPcs, PullPcs, HostPcs, AfterPcs
<1>6. FilesRight(r, bkDir[b], bkOut[b])
  BY <1>1, <1>3 DEF CallRight, FilesRight, PlaceRight, OpenPcs, PullPcs, HostPcs, AfterPcs
<1>7. ExitRight(r) /\ UploadRight(r, bkOut[b], bkSig[b])
  BY <1>1, <1>3 DEF CallRight, ExitRight, UploadRight, PlaceRight, FilesRight, OpenPcs, PullPcs, HostPcs, AfterPcs
<1> QED BY <1>1, <1>2, <1>4, <1>5, <1>6, <1>7, RecordMovesInv DEF CallRight

\* Signing or the upload fails.
LEMMA AfterBuildFailsInv ==
  ASSUME BKInv, NEW b \in BuildCalls, AfterBuildFails(b)
  PROVE  BKInv'
PROOF
<1> DEFINE me == bkB[b]
           r == [me EXCEPT !.pc = "returned"]
<1>1. /\ CallRight(me, bkC[b], bkTemp[b], bkDir[b], bkOut[b], bkSig[b], bkPin) /\ me \in CallFields
      /\ bkC[b] \in ContainerFields /\ bkDir[b] \in FileStamps /\ bkOut[b] \in FileStamps
      /\ bkSig[b] \in FileStamps /\ me.pc \in {"sign", "publish"}
      /\ bkB' = [bkB EXCEPT ![b] = r]
      /\ UNCHANGED <<bkTag, bkLocal, bkPin, bkC, bkTemp, bkDir, bkOut, bkSig>>
  BY CallFacts DEF AfterBuildFails, Call, bkImages, bkFiles
<1>2. r \in CallFields
  BY <1>1, Zenon DEF CallFields, OpenPcs, PullPcs, HostPcs, AfterPcs
<1>3. /\ r.pc = "returned" /\ r.kind = me.kind /\ r.over = me.over /\ r.ref = me.ref /\ r.pinned = me.pinned
      /\ r.base = me.base /\ r.todo = me.todo /\ r.result = me.result /\ r.outcome = me.outcome
      /\ r.made = me.made /\ r.code = me.code /\ r.killed = me.killed /\ r.kept = me.kept
      /\ r.sign = me.sign /\ r.published = me.published
  BY <1>1 DEF CallFields
<1> HIDE DEF r, me
<1>4. PlaceRight(r, bkC[b])
  BY <1>1, <1>3 DEF CallRight, PlaceRight, InContainerKind, OpenPcs, PullPcs, HostPcs, AfterPcs
<1>5. TempRight(r, bkC[b], bkTemp[b]) /\ PinRight(r, bkC[b], bkPin)
  BY <1>1, <1>3 DEF CallRight, TempRight, PinRight, PlaceRight, OpenPcs, PullPcs, HostPcs, AfterPcs
<1>6. FilesRight(r, bkDir[b], bkOut[b])
  BY <1>1, <1>3 DEF CallRight, FilesRight, PlaceRight, OpenPcs, PullPcs, HostPcs, AfterPcs
<1>7. ExitRight(r) /\ UploadRight(r, bkOut[b], bkSig[b])
  BY <1>1, <1>3 DEF CallRight, ExitRight, UploadRight, PlaceRight, FilesRight, OpenPcs, PullPcs, HostPcs, AfterPcs
<1> QED BY <1>1, <1>2, <1>4, <1>5, <1>6, <1>7, RecordMovesInv DEF CallRight

\* A container build starts with a staging directory of its own, by tag or digest.
LEMMA BeginContainerInv ==
  ASSUME BKInv, NEW b \in BuildCalls, NEW kind \in BuildKinds \cap {"container", "metadata"}, BeginContainer(b, kind)
  PROVE  BKInv'
PROOF
<1> DEFINE me == bkB[b]
           r == [me EXCEPT !.pc = "pull", !.kind = kind, !.ref = bkPin]
<1>1. /\ CallRight(me, bkC[b], bkTemp[b], bkDir[b], bkOut[b], bkSig[b], bkPin) /\ me \in CallFields
      /\ bkC[b] \in ContainerFields /\ bkDir[b] \in FileStamps /\ bkOut[b] \in FileStamps
      /\ bkSig[b] \in FileStamps /\ me.pc = "new"
      /\ bkB' = [bkB EXCEPT ![b] = r] /\ bkTemp' = [bkTemp EXCEPT ![b] = {"staging"}] /\ bkDir' = [bkDir EXCEPT ![b] = NoFiles]
      /\ UNCHANGED <<bkTag, bkLocal, bkPin, bkC, bkOut, bkSig>>
      /\ BKTypes
  BY CallFacts DEF BeginContainer, currentImageReference, Call, bkImages, bkFiles, BKInv
<1>0. NoFiles \in FileStamps /\ \A p \in PkgFiles : NoFiles[p] = 0
  BY DEF NoFiles, FileStamps
<1>2. r \in CallFields
  BY <1>1, Zenon DEF CallFields, OpenPcs, PullPcs, HostPcs, AfterPcs, BKTypes
<1>3. /\ r.pc = "pull" /\ r.kind = kind /\ r.over = me.over /\ r.ref = bkPin /\ r.pinned = me.pinned
      /\ r.base = me.base /\ r.todo = me.todo /\ r.result = me.result /\ r.outcome = me.outcome
      /\ r.made = me.made /\ r.code = me.code /\ r.killed = me.killed /\ r.kept = me.kept
      /\ r.sign = me.sign /\ r.published = me.published
  BY <1>1 DEF CallFields
<1> HIDE DEF r, me
<1>4. BKTypes' /\ CallsStay(b)
  <2>1. BKTypes'
    BY <1>1, <1>2, <1>0 DEF BKTypes, ContainerFields, FileStamps
  <2>2. CallsStay(b)
    BY <1>1 DEF BKTypes, CallsStay
  <2> QED BY <2>1, <2>2
<1>5. /\ bkB'[b] = r /\ bkC'[b] = bkC[b] /\ bkTemp'[b] = {"staging"}
      /\ bkDir'[b] = NoFiles /\ bkOut'[b] = bkOut[b] /\ bkSig'[b] = bkSig[b]
  BY <1>1, <1>0 DEF BKTypes
<1>6. PlaceRight(r, bkC'[b])
  BY <1>1, <1>3, <1>5 DEF CallRight, PlaceRight, InContainerKind, ContainerFields, OpenPcs, PullPcs, HostPcs, AfterPcs
<1>7. TempRight(r, bkC'[b], bkTemp'[b])
  BY <1>1, <1>3, <1>5 DEF CallRight, TempRight, PlaceRight, ContainerFields, OpenPcs, PullPcs, HostPcs, AfterPcs
<1>8. PinRight(r, bkC'[b], bkPin')
  BY <1>1, <1>3, <1>5 DEF CallRight, PinRight, PlaceRight, ContainerFields, PullPcs
<1>9. FilesRight(r, bkDir'[b], bkOut'[b])
  BY <1>1, <1>3, <1>5, <1>0 DEF CallRight, FilesRight, PlaceRight, FileStamps, OpenPcs, PullPcs, HostPcs, AfterPcs
<1>10. ExitRight(r) /\ UploadRight(r, bkOut'[b], bkSig'[b])
  BY <1>1, <1>3, <1>5
     DEF CallRight, ExitRight, UploadRight, PlaceRight, FilesRight, InContainerKind, OpenPcs, PullPcs, HostPcs, AfterPcs
<1> QED BY <1>1, <1>4, <1>5, <1>6, <1>7, <1>8, <1>9, <1>10, CallMovesInv DEF CallRight

\* A build on the host starts.
LEMMA BeginOnHostInv ==
  ASSUME BKInv, NEW b \in BuildCalls, NEW kind \in BuildKinds \ {"container", "metadata"}, BeginOnHost(b, kind)
  PROVE  BKInv'
PROOF
<1> DEFINE me == bkB[b]
           things == IF kind = "bwrap" THEN {"scratch"} ELSE {"conf"}
           r == [me EXCEPT !.pc = "snapshot", !.kind = kind]
<1>1. /\ CallRight(me, bkC[b], bkTemp[b], bkDir[b], bkOut[b], bkSig[b], bkPin) /\ me \in CallFields
      /\ bkC[b] \in ContainerFields /\ bkDir[b] \in FileStamps /\ bkOut[b] \in FileStamps
      /\ bkSig[b] \in FileStamps /\ me.pc = "new"
      /\ bkB' = [bkB EXCEPT ![b] = r] /\ bkTemp' = [bkTemp EXCEPT ![b] = things]
      /\ UNCHANGED <<bkTag, bkLocal, bkPin, bkC, bkDir, bkOut, bkSig>>
      /\ BKTypes
  BY CallFacts DEF BeginOnHost, Call, bkImages, bkFiles, BKInv
<1>2. r \in CallFields
  BY <1>1, Zenon DEF CallFields, OpenPcs, PullPcs, HostPcs, AfterPcs, BKTypes
<1>3. /\ r.pc = "snapshot" /\ r.kind = kind /\ r.over = me.over /\ r.ref = me.ref /\ r.pinned = me.pinned
      /\ r.base = me.base /\ r.todo = me.todo /\ r.result = me.result /\ r.outcome = me.outcome
      /\ r.made = me.made /\ r.code = me.code /\ r.killed = me.killed /\ r.kept = me.kept
      /\ r.sign = me.sign /\ r.published = me.published
  BY <1>1 DEF CallFields
<1> HIDE DEF r, me
<1>4. BKTypes' /\ CallsStay(b)
  <2>1. BKTypes'
    BY <1>1, <1>2 DEF BKTypes, ContainerFields, FileStamps
  <2>2. CallsStay(b)
    BY <1>1 DEF BKTypes, CallsStay
  <2> QED BY <2>1, <2>2
<1>5. /\ bkB'[b] = r /\ bkC'[b] = bkC[b] /\ bkTemp'[b] = things
      /\ bkDir'[b] = bkDir[b] /\ bkOut'[b] = bkOut[b] /\ bkSig'[b] = bkSig[b]
  BY <1>1 DEF BKTypes
<1>6. PlaceRight(r, bkC'[b])
  BY <1>1, <1>3, <1>5 DEF CallRight, PlaceRight, InContainerKind, ContainerFields, OpenPcs, PullPcs, HostPcs, AfterPcs
<1>7. TempRight(r, bkC'[b], bkTemp'[b])
  BY <1>1, <1>3, <1>5 DEF CallRight, TempRight, PlaceRight, ContainerFields, OpenPcs, PullPcs, HostPcs, AfterPcs
<1>8. PinRight(r, bkC'[b], bkPin')
  BY <1>1, <1>3, <1>5 DEF CallRight, PinRight, PlaceRight, ContainerFields, PullPcs
<1>9. FilesRight(r, bkDir'[b], bkOut'[b])
  BY <1>1, <1>3, <1>5 DEF CallRight, FilesRight, PlaceRight, FileStamps, OpenPcs, PullPcs, HostPcs, AfterPcs
<1>10. ExitRight(r) /\ UploadRight(r, bkOut'[b], bkSig'[b])
  BY <1>1, <1>3, <1>5
     DEF CallRight, ExitRight, UploadRight, PlaceRight, FilesRight, InContainerKind, OpenPcs, PullPcs, HostPcs, AfterPcs
<1> QED BY <1>1, <1>4, <1>5, <1>6, <1>7, <1>8, <1>9, <1>10, CallMovesInv DEF CallRight

\* The image is pulled; the daemon's copy of the tag may move under the other calls.
LEMMA ImagePullInv ==
  ASSUME BKInv, NEW b \in BuildCalls, ImagePull(b)
  PROVE  BKInv'
PROOF
<1> DEFINE me == bkB[b]
           r == [me EXCEPT !.pc = "inspect"]
<1>1. /\ CallRight(me, bkC[b], bkTemp[b], bkDir[b], bkOut[b], bkSig[b], bkPin) /\ me \in CallFields
      /\ bkC[b] \in ContainerFields /\ bkDir[b] \in FileStamps /\ bkOut[b] \in FileStamps
      /\ bkSig[b] \in FileStamps /\ me.pc = "pull"
      /\ bkB' = [bkB EXCEPT ![b] = r] /\ bkLocal' \in {bkTag, bkLocal}
      /\ UNCHANGED <<bkTag, bkPin, bkC, bkTemp, bkDir, bkOut, bkSig>>
      /\ BKTypes
  BY CallFacts DEF ImagePull, Call, bkImages, bkFiles, BKInv
<1>2. r \in CallFields
  BY <1>1, Zenon DEF CallFields, OpenPcs, PullPcs, HostPcs, AfterPcs, BKTypes
<1>3. /\ r.pc = "inspect" /\ r.kind = me.kind /\ r.over = me.over /\ r.ref = me.ref /\ r.pinned = me.pinned
      /\ r.base = me.base /\ r.todo = me.todo /\ r.result = me.result /\ r.outcome = me.outcome
      /\ r.made = me.made /\ r.code = me.code /\ r.killed = me.killed /\ r.kept = me.kept
      /\ r.sign = me.sign /\ r.published = me.published
  BY <1>1 DEF CallFields
<1> HIDE DEF r, me
<1>4. BKTypes' /\ CallsStay(b)
  <2>1. BKTypes'
    BY <1>1, <1>2 DEF BKTypes, ContainerFields, FileStamps
  <2>2. CallsStay(b)
    BY <1>1 DEF BKTypes, CallsStay
  <2> QED BY <2>1, <2>2
<1>5. /\ bkB'[b] = r /\ bkC'[b] = bkC[b] /\ bkTemp'[b] = bkTemp[b]
      /\ bkDir'[b] = bkDir[b] /\ bkOut'[b] = bkOut[b] /\ bkSig'[b] = bkSig[b]
  BY <1>1 DEF BKTypes
<1>6. PlaceRight(r, bkC'[b])
  BY <1>1, <1>3, <1>5 DEF CallRight, PlaceRight, InContainerKind, ContainerFields, OpenPcs, PullPcs, HostPcs, AfterPcs
<1>7. TempRight(r, bkC'[b], bkTemp'[b])
  BY <1>1, <1>3, <1>5 DEF CallRight, TempRight, PlaceRight, ContainerFields, OpenPcs, PullPcs, HostPcs, AfterPcs
<1>8. PinRight(r, bkC'[b], bkPin')
  BY <1>1, <1>3, <1>5 DEF CallRight, PinRight, PlaceRight, ContainerFields, PullPcs
<1>9. FilesRight(r, bkDir'[b], bkOut'[b])
  BY <1>1, <1>3, <1>5 DEF CallRight, FilesRight, PlaceRight, FileStamps, OpenPcs, PullPcs, HostPcs, AfterPcs
<1>10. ExitRight(r) /\ UploadRight(r, bkOut'[b], bkSig'[b])
  BY <1>1, <1>3, <1>5
     DEF CallRight, ExitRight, UploadRight, PlaceRight, FilesRight, InContainerKind, OpenPcs, PullPcs, HostPcs, AfterPcs
<1> QED BY <1>1, <1>4, <1>5, <1>6, <1>7, <1>8, <1>9, <1>10, CallMovesInv DEF CallRight

\* The first digest anybody sees is pinned, and this call runs it.
LEMMA InspectImageInv ==
  ASSUME BKInv, NEW b \in BuildCalls, NEW seen \in BOOLEAN, InspectImage(b, seen)
  PROVE  BKInv'
PROOF
<1> DEFINE me == bkB[b]
           r == [me EXCEPT !.pc = "stage", !.ref = bkPin', !.pinned = (bkPin' # 0)]
<1>1. /\ CallRight(me, bkC[b], bkTemp[b], bkDir[b], bkOut[b], bkSig[b], bkPin) /\ me \in CallFields
      /\ bkC[b] \in ContainerFields /\ bkDir[b] \in FileStamps /\ bkOut[b] \in FileStamps
      /\ bkSig[b] \in FileStamps /\ me.pc = "inspect"
      /\ bkB' = [bkB EXCEPT ![b] = r] /\ bkPin' \in {bkPin, bkLocal, me.ref}
      /\ bkPin' = bkPin \/ bkPin = 0
      /\ UNCHANGED <<bkTag, bkLocal, bkC, bkTemp, bkDir, bkOut, bkSig>>
      /\ BKTypes
  <2>1. CallRight(me, bkC[b], bkTemp[b], bkDir[b], bkOut[b], bkSig[b], bkPin) /\ me \in CallFields
    BY CallFacts
  <2>2. bkC[b] \in ContainerFields /\ bkDir[b] \in FileStamps /\ bkOut[b] \in FileStamps /\ bkSig[b] \in FileStamps
    BY CallFacts
  <2>3. me.pc = "inspect" /\ bkB' = [bkB EXCEPT ![b] = r]
    BY DEF InspectImage, Call
  <2>4. bkPin' \in {bkPin, bkLocal, me.ref} /\ (bkPin' = bkPin \/ bkPin = 0)
    BY DEF InspectImage, recordImageDigest
  <2>5. UNCHANGED <<bkTag, bkLocal, bkC, bkTemp, bkDir, bkOut, bkSig>> /\ BKTypes
    BY DEF InspectImage, bkFiles, BKInv
  <2> QED BY <2>1, <2>2, <2>3, <2>4, <2>5
<1>0. bkPin' \in Nat /\ (bkPin' # 0) \in BOOLEAN /\ me \in CallFields
  BY <1>1 DEF CallFields, BKTypes
<1>2. r \in CallFields
  <2>1. ASSUME NEW rec \in CallFields, NEW ref \in Nat, NEW known \in BOOLEAN
        PROVE  [rec EXCEPT !.pc = "stage", !.ref = ref, !.pinned = known] \in CallFields
    BY Zenon DEF CallFields, OpenPcs, PullPcs
  <2> QED BY <1>0, <2>1
<1>3. /\ r.pc = "stage" /\ r.kind = me.kind /\ r.over = me.over /\ r.ref = bkPin' /\ r.pinned = (bkPin' # 0)
      /\ r.base = me.base /\ r.todo = me.todo /\ r.result = me.result /\ r.outcome = me.outcome
      /\ r.made = me.made /\ r.code = me.code /\ r.killed = me.killed /\ r.kept = me.kept
      /\ r.sign = me.sign /\ r.published = me.published
  BY <1>1 DEF CallFields
<1> HIDE DEF r, me
<1>4. BKTypes' /\ CallsStay(b)
  <2>1. BKTypes'
    BY <1>1, <1>2, <1>0 DEF BKTypes, ContainerFields, FileStamps
  <2>2. CallsStay(b)
    BY <1>1 DEF BKTypes, CallsStay
  <2> QED BY <2>1, <2>2
<1>5. /\ bkB'[b] = r /\ bkC'[b] = bkC[b] /\ bkTemp'[b] = bkTemp[b]
      /\ bkDir'[b] = bkDir[b] /\ bkOut'[b] = bkOut[b] /\ bkSig'[b] = bkSig[b]
  BY <1>1, <1>0 DEF BKTypes
<1>6. PlaceRight(r, bkC'[b])
  BY <1>1, <1>3, <1>5 DEF CallRight, PlaceRight, InContainerKind, ContainerFields, OpenPcs, PullPcs, HostPcs, AfterPcs
<1>7. TempRight(r, bkC'[b], bkTemp'[b])
  BY <1>1, <1>3, <1>5 DEF CallRight, TempRight, PlaceRight, ContainerFields, OpenPcs, PullPcs, HostPcs, AfterPcs
<1>8. PinRight(r, bkC'[b], bkPin')
  BY <1>1, <1>3, <1>5 DEF CallRight, PinRight, PlaceRight, ContainerFields, PullPcs
<1>9. FilesRight(r, bkDir'[b], bkOut'[b])
  BY <1>1, <1>3, <1>5 DEF CallRight, FilesRight, PlaceRight, FileStamps, OpenPcs, PullPcs, HostPcs, AfterPcs
<1>10. ExitRight(r) /\ UploadRight(r, bkOut'[b], bkSig'[b])
  BY <1>1, <1>3, <1>5
     DEF CallRight, ExitRight, UploadRight, PlaceRight, FilesRight, InContainerKind, OpenPcs, PullPcs, HostPcs, AfterPcs
<1> QED BY <1>1, <1>4, <1>5, <1>6, <1>7, <1>8, <1>9, <1>10, CallMovesInv DEF CallRight

\* The makepkg override is staged.
LEMMA StageOverrideInv ==
  ASSUME BKInv, NEW b \in BuildCalls, StageOverride(b)
  PROVE  BKInv'
PROOF
<1> DEFINE me == bkB[b]
           r == [me EXCEPT !.pc = "create"]
<1>1. /\ CallRight(me, bkC[b], bkTemp[b], bkDir[b], bkOut[b], bkSig[b], bkPin) /\ me \in CallFields
      /\ bkC[b] \in ContainerFields /\ bkDir[b] \in FileStamps /\ bkOut[b] \in FileStamps
      /\ bkSig[b] \in FileStamps /\ me.pc = "stage"
      /\ bkB' = [bkB EXCEPT ![b] = r] /\ bkTemp' = [bkTemp EXCEPT ![b] = bkTemp[b] \cup {"override"}]
      /\ UNCHANGED <<bkTag, bkLocal, bkPin, bkC, bkDir, bkOut, bkSig>>
      /\ BKTypes
  BY CallFacts DEF StageOverride, Call, bkImages, bkFiles, BKInv
<1>2. r \in CallFields
  BY <1>1, Zenon DEF CallFields, OpenPcs, PullPcs, HostPcs, AfterPcs, BKTypes
<1>3. /\ r.pc = "create" /\ r.kind = me.kind /\ r.over = me.over /\ r.ref = me.ref /\ r.pinned = me.pinned
      /\ r.base = me.base /\ r.todo = me.todo /\ r.result = me.result /\ r.outcome = me.outcome
      /\ r.made = me.made /\ r.code = me.code /\ r.killed = me.killed /\ r.kept = me.kept
      /\ r.sign = me.sign /\ r.published = me.published
  BY <1>1 DEF CallFields
<1> HIDE DEF r, me
<1>4. BKTypes' /\ CallsStay(b)
  <2>1. BKTypes'
    BY <1>1, <1>2 DEF BKTypes, ContainerFields, FileStamps
  <2>2. CallsStay(b)
    BY <1>1 DEF BKTypes, CallsStay
  <2> QED BY <2>1, <2>2
<1>5. /\ bkB'[b] = r /\ bkC'[b] = bkC[b] /\ bkTemp'[b] = bkTemp[b] \cup {"override"}
      /\ bkDir'[b] = bkDir[b] /\ bkOut'[b] = bkOut[b] /\ bkSig'[b] = bkSig[b]
  BY <1>1 DEF BKTypes
<1>6. PlaceRight(r, bkC'[b])
  BY <1>1, <1>3, <1>5 DEF CallRight, PlaceRight, InContainerKind, ContainerFields, OpenPcs, PullPcs, HostPcs, AfterPcs
<1>7. TempRight(r, bkC'[b], bkTemp'[b])
  BY <1>1, <1>3, <1>5 DEF CallRight, TempRight, PlaceRight, ContainerFields, OpenPcs, PullPcs, HostPcs, AfterPcs
<1>8. PinRight(r, bkC'[b], bkPin')
  BY <1>1, <1>3, <1>5 DEF CallRight, PinRight, PlaceRight, ContainerFields, PullPcs
<1>9. FilesRight(r, bkDir'[b], bkOut'[b])
  BY <1>1, <1>3, <1>5 DEF CallRight, FilesRight, PlaceRight, FileStamps, OpenPcs, PullPcs, HostPcs, AfterPcs
<1>10. ExitRight(r) /\ UploadRight(r, bkOut'[b], bkSig'[b])
  BY <1>1, <1>3, <1>5
     DEF CallRight, ExitRight, UploadRight, PlaceRight, FilesRight, InContainerKind, OpenPcs, PullPcs, HostPcs, AfterPcs
<1> QED BY <1>1, <1>4, <1>5, <1>6, <1>7, <1>8, <1>9, <1>10, CallMovesInv DEF CallRight

\* The container is created from the pinned image when there is one.
LEMMA ContainerCreateInv ==
  ASSUME BKInv, NEW b \in BuildCalls, ContainerCreate(b)
  PROVE  BKInv'
PROOF
<1> DEFINE me == bkB[b]
           image == IF me.ref = 0 THEN bkLocal ELSE me.ref
           r == [me EXCEPT !.pc = "start"]
<1>1. /\ CallRight(me, bkC[b], bkTemp[b], bkDir[b], bkOut[b], bkSig[b], bkPin) /\ me \in CallFields
      /\ bkC[b] \in ContainerFields /\ bkDir[b] \in FileStamps /\ bkOut[b] \in FileStamps
      /\ bkSig[b] \in FileStamps /\ me.pc = "create"
      /\ bkB' = [bkB EXCEPT ![b] = r] /\ bkC' = [bkC EXCEPT ![b] = [image |-> image, state |-> "created"]]
      /\ UNCHANGED <<bkTag, bkLocal, bkPin, bkTemp, bkDir, bkOut, bkSig>>
      /\ BKTypes
  BY CallFacts DEF ContainerCreate, Call, bkImages, bkFiles, BKInv
<1>0. image \in Nat /\ (me.ref # 0 => image = me.ref)
  BY <1>1 DEF CallFields, BKTypes
<1> HIDE DEF image
<1>2. r \in CallFields
  BY <1>1, Zenon DEF CallFields, OpenPcs, PullPcs, HostPcs, AfterPcs, BKTypes
<1>3. /\ r.pc = "start" /\ r.kind = me.kind /\ r.over = me.over /\ r.ref = me.ref /\ r.pinned = me.pinned
      /\ r.base = me.base /\ r.todo = me.todo /\ r.result = me.result /\ r.outcome = me.outcome
      /\ r.made = me.made /\ r.code = me.code /\ r.killed = me.killed /\ r.kept = me.kept
      /\ r.sign = me.sign /\ r.published = me.published
  BY <1>1 DEF CallFields
<1> HIDE DEF r, me
<1>4. BKTypes' /\ CallsStay(b)
  <2>1. BKTypes'
    BY <1>1, <1>2, <1>0 DEF BKTypes, ContainerFields, FileStamps
  <2>2. CallsStay(b)
    BY <1>1 DEF BKTypes, CallsStay
  <2> QED BY <2>1, <2>2
<1>5. /\ bkB'[b] = r /\ bkC'[b] = [image |-> image, state |-> "created"] /\ bkTemp'[b] = bkTemp[b]
      /\ bkDir'[b] = bkDir[b] /\ bkOut'[b] = bkOut[b] /\ bkSig'[b] = bkSig[b]
  BY <1>1, <1>0 DEF BKTypes
<1>6. PlaceRight(r, bkC'[b])
  BY <1>1, <1>3, <1>5 DEF CallRight, PlaceRight, InContainerKind, ContainerFields, OpenPcs, PullPcs, HostPcs, AfterPcs
<1>7. TempRight(r, bkC'[b], bkTemp'[b])
  BY <1>1, <1>3, <1>5 DEF CallRight, TempRight, PlaceRight, ContainerFields, OpenPcs, PullPcs, HostPcs, AfterPcs
<1>8. PinRight(r, bkC'[b], bkPin')
  BY <1>1, <1>3, <1>5, <1>0 DEF CallRight, PinRight, PlaceRight, ContainerFields, PullPcs
<1>9. FilesRight(r, bkDir'[b], bkOut'[b])
  BY <1>1, <1>3, <1>5 DEF CallRight, FilesRight, PlaceRight, FileStamps, OpenPcs, PullPcs, HostPcs, AfterPcs
<1>10. ExitRight(r) /\ UploadRight(r, bkOut'[b], bkSig'[b])
  BY <1>1, <1>3, <1>5
     DEF CallRight, ExitRight, UploadRight, PlaceRight, FilesRight, InContainerKind, OpenPcs, PullPcs, HostPcs, AfterPcs
<1> QED BY <1>1, <1>4, <1>5, <1>6, <1>7, <1>8, <1>9, <1>10, CallMovesInv DEF CallRight

\* The container starts, with its mounts in place.
LEMMA ContainerStartInv ==
  ASSUME BKInv, NEW b \in BuildCalls, ContainerStart(b)
  PROVE  BKInv'
PROOF
<1> DEFINE me == bkB[b]
           r == [me EXCEPT !.pc = "wait"]
<1>1. /\ CallRight(me, bkC[b], bkTemp[b], bkDir[b], bkOut[b], bkSig[b], bkPin) /\ me \in CallFields
      /\ bkC[b] \in ContainerFields /\ bkDir[b] \in FileStamps /\ bkOut[b] \in FileStamps
      /\ bkSig[b] \in FileStamps /\ me.pc = "start"
      /\ bkB' = [bkB EXCEPT ![b] = r] /\ bkC' = [bkC EXCEPT ![b] = [bkC[b] EXCEPT !.state = "running"]]
      /\ UNCHANGED <<bkTag, bkLocal, bkPin, bkTemp, bkDir, bkOut, bkSig>>
      /\ BKTypes
  BY CallFacts DEF ContainerStart, Call, bkImages, bkFiles, BKInv
<1>2. r \in CallFields
  BY <1>1, Zenon DEF CallFields, OpenPcs, PullPcs, HostPcs, AfterPcs, BKTypes
<1>3. /\ r.pc = "wait" /\ r.kind = me.kind /\ r.over = me.over /\ r.ref = me.ref /\ r.pinned = me.pinned
      /\ r.base = me.base /\ r.todo = me.todo /\ r.result = me.result /\ r.outcome = me.outcome
      /\ r.made = me.made /\ r.code = me.code /\ r.killed = me.killed /\ r.kept = me.kept
      /\ r.sign = me.sign /\ r.published = me.published
  BY <1>1 DEF CallFields
<1> HIDE DEF r, me
<1>4. BKTypes' /\ CallsStay(b)
  <2>1. BKTypes'
    BY <1>1, <1>2 DEF BKTypes, ContainerFields, FileStamps
  <2>2. CallsStay(b)
    BY <1>1 DEF BKTypes, CallsStay
  <2> QED BY <2>1, <2>2
<1>5. /\ bkB'[b] = r /\ bkC'[b] = [bkC[b] EXCEPT !.state = "running"] /\ bkTemp'[b] = bkTemp[b]
      /\ bkDir'[b] = bkDir[b] /\ bkOut'[b] = bkOut[b] /\ bkSig'[b] = bkSig[b]
  BY <1>1 DEF BKTypes
<1>6. PlaceRight(r, bkC'[b])
  BY <1>1, <1>3, <1>5 DEF CallRight, PlaceRight, InContainerKind, ContainerFields, OpenPcs, PullPcs, HostPcs, AfterPcs
<1>7. TempRight(r, bkC'[b], bkTemp'[b])
  BY <1>1, <1>3, <1>5 DEF CallRight, TempRight, PlaceRight, ContainerFields, OpenPcs, PullPcs, HostPcs, AfterPcs
<1>8. PinRight(r, bkC'[b], bkPin')
  BY <1>1, <1>3, <1>5 DEF CallRight, PinRight, PlaceRight, ContainerFields, PullPcs
<1>9. FilesRight(r, bkDir'[b], bkOut'[b])
  BY <1>1, <1>3, <1>5 DEF CallRight, FilesRight, PlaceRight, FileStamps, OpenPcs, PullPcs, HostPcs, AfterPcs
<1>10. ExitRight(r) /\ UploadRight(r, bkOut'[b], bkSig'[b])
  BY <1>1, <1>3, <1>5
     DEF CallRight, ExitRight, UploadRight, PlaceRight, FilesRight, InContainerKind, OpenPcs, PullPcs, HostPcs, AfterPcs
<1> QED BY <1>1, <1>4, <1>5, <1>6, <1>7, <1>8, <1>9, <1>10, CallMovesInv DEF CallRight

\* The registry's tag moves: no call looks at it until it pulls.
LEMMA TagMovesInv == ASSUME BKInv, TagMoves PROVE BKInv'
PROOF
<1>1. /\ bkTag' = bkTag + 1
      /\ UNCHANGED <<bkLocal, bkPin, bkC, bkTemp, bkDir, bkOut, bkSig, bkB>>
  BY DEF TagMoves, bkFiles
<1>2. BKTypes'
  BY <1>1 DEF BKInv, BKTypes
<1> QED BY <1>1, <1>2 DEF BKInv

\* A call that ends runs its deferred functions, with an outcome it has earned.
LEMMA UnwindInv ==
  ASSUME BKInv, NEW b \in BuildCalls, NEW o \in {"ok", "failed", "transient"}, bkB[b].pc \in OpenPcs,
         bkB' = [bkB EXCEPT ![b] = Unwinding(bkB[b], o)],
         UNCHANGED <<bkTag, bkLocal, bkPin, bkC, bkTemp, bkDir, bkOut, bkSig>>,
         o # "transient" => bkC[b].state # "running",
         o = "failed" => ~bkB[b].killed /\ (bkB[b].code # 0 \/ bkB[b].made = {}),
         o = "ok" => bkB[b].kind = "metadata"
  PROVE  BKInv'
PROOF
<1> DEFINE me == bkB[b]
           r == [me EXCEPT !.pc = "unwind", !.outcome = o]
<1>1. /\ CallRight(me, bkC[b], bkTemp[b], bkDir[b], bkOut[b], bkSig[b], bkPin) /\ me \in CallFields
      /\ bkC[b] \in ContainerFields /\ bkDir[b] \in FileStamps /\ bkOut[b] \in FileStamps
      /\ bkSig[b] \in FileStamps /\ me.pc \in OpenPcs
      /\ o # "transient" => bkC[b].state # "running"
      /\ o = "failed" => ~me.killed /\ (me.code # 0 \/ me.made = {})
      /\ o = "ok" => me.kind = "metadata"
      /\ bkB' = [bkB EXCEPT ![b] = r]
      /\ UNCHANGED <<bkTag, bkLocal, bkPin, bkC, bkTemp, bkDir, bkOut, bkSig>>
  BY CallFacts DEF Unwinding, Call, bkImages, bkFiles
<1>2. r \in CallFields
  BY <1>1, Zenon DEF CallFields, OpenPcs, PullPcs, HostPcs, AfterPcs
<1>3. /\ r.pc = "unwind" /\ r.kind = me.kind /\ r.over = me.over /\ r.ref = me.ref /\ r.pinned = me.pinned
      /\ r.base = me.base /\ r.todo = me.todo /\ r.result = me.result /\ r.outcome = o /\ r.made = me.made
      /\ r.code = me.code /\ r.killed = me.killed /\ r.kept = me.kept /\ r.sign = me.sign
      /\ r.published = me.published
  BY <1>1 DEF CallFields
<1> HIDE DEF r, me
<1>4. PlaceRight(r, bkC[b])
  BY <1>1, <1>3 DEF CallRight, PlaceRight, InContainerKind, OpenPcs, PullPcs, HostPcs, AfterPcs
<1>5. TempRight(r, bkC[b], bkTemp[b]) /\ PinRight(r, bkC[b], bkPin)
  BY <1>1, <1>3 DEF CallRight, TempRight, PinRight, PlaceRight, OpenPcs, PullPcs, HostPcs, AfterPcs
<1>6. FilesRight(r, bkDir[b], bkOut[b])
  BY <1>1, <1>3 DEF CallRight, FilesRight, PlaceRight, OpenPcs, PullPcs, HostPcs, AfterPcs
<1>7. ExitRight(r) /\ UploadRight(r, bkOut[b], bkSig[b])
  BY <1>1, <1>3 DEF CallRight, ExitRight, UploadRight, PlaceRight, FilesRight, OpenPcs, PullPcs, HostPcs, AfterPcs
<1> QED BY <1>1, <1>2, <1>4, <1>5, <1>6, <1>7, RecordMovesInv DEF CallRight

\* makepkg ended well: its packages are collected.
LEMMA ExitedInv ==
  ASSUME BKInv, NEW b \in BuildCalls, bkB[b].pc \in {"wait", "exited"}, bkB[b].code = 0, bkC[b].state # "running",
         bkB' = [bkB EXCEPT ![b] = [bkB[b] EXCEPT !.pc = "collect"]],
         UNCHANGED <<bkTag, bkLocal, bkPin, bkC, bkTemp, bkDir, bkOut, bkSig>>
  PROVE  BKInv'
PROOF
<1> DEFINE me == bkB[b]
           r == [me EXCEPT !.pc = "collect"]
<1>1. /\ CallRight(me, bkC[b], bkTemp[b], bkDir[b], bkOut[b], bkSig[b], bkPin) /\ me \in CallFields
      /\ bkC[b] \in ContainerFields /\ bkDir[b] \in FileStamps /\ bkOut[b] \in FileStamps
      /\ bkSig[b] \in FileStamps /\ me.pc \in {"wait", "exited"} /\ me.code = 0 /\ bkC[b].state # "running"
      /\ bkB' = [bkB EXCEPT ![b] = r]
      /\ UNCHANGED <<bkTag, bkLocal, bkPin, bkC, bkTemp, bkDir, bkOut, bkSig>>
  BY CallFacts DEF Unwinding, Call, bkImages, bkFiles
<1>2. r \in CallFields
  BY <1>1, Zenon DEF CallFields, OpenPcs, PullPcs, HostPcs, AfterPcs
<1>3. /\ r.pc = "collect" /\ r.kind = me.kind /\ r.over = me.over /\ r.ref = me.ref /\ r.pinned = me.pinned
      /\ r.base = me.base /\ r.todo = me.todo /\ r.result = me.result /\ r.outcome = me.outcome
      /\ r.made = me.made /\ r.code = me.code /\ r.killed = me.killed /\ r.kept = me.kept
      /\ r.sign = me.sign /\ r.published = me.published
  BY <1>1 DEF CallFields
<1> HIDE DEF r, me
<1>4. PlaceRight(r, bkC[b])
  BY <1>1, <1>3 DEF CallRight, PlaceRight, InContainerKind, OpenPcs, PullPcs, HostPcs, AfterPcs
<1>5. TempRight(r, bkC[b], bkTemp[b]) /\ PinRight(r, bkC[b], bkPin)
  BY <1>1, <1>3 DEF CallRight, TempRight, PinRight, PlaceRight, OpenPcs, PullPcs, HostPcs, AfterPcs
<1>6. FilesRight(r, bkDir[b], bkOut[b])
  BY <1>1, <1>3 DEF CallRight, FilesRight, PlaceRight, OpenPcs, PullPcs, HostPcs, AfterPcs
<1>7. ExitRight(r) /\ UploadRight(r, bkOut[b], bkSig[b])
  BY <1>1, <1>3 DEF CallRight, ExitRight, UploadRight, PlaceRight, FilesRight, OpenPcs, PullPcs, HostPcs, AfterPcs
<1> QED BY <1>1, <1>2, <1>4, <1>5, <1>6, <1>7, RecordMovesInv DEF CallRight

\* A call of the daemon or of the file system fails.
LEMMA StepFailsInv == ASSUME BKInv, NEW b \in BuildCalls, StepFails(b) PROVE BKInv'
PROOF
<1>1. bkB[b].pc \in OpenPcs
  BY DEF StepFails, OpenPcs, PullPcs, HostPcs
<1> QED BY <1>1, UnwindInv DEF StepFails, Call, bkImages, bkFiles

\* Build and GenerateSRCINFO after ContainerWait.
LEMMA WaitContainerInv == ASSUME BKInv, NEW b \in BuildCalls, WaitContainer(b) PROVE BKInv'
PROOF
<1> DEFINE me == bkB[b]
<1>1. /\ CallRight(me, bkC[b], bkTemp[b], bkDir[b], bkOut[b], bkSig[b], bkPin) /\ me.pc = "wait"
      /\ InContainerKind(me.kind) /\ me \in CallFields
      /\ UNCHANGED <<bkTag, bkLocal, bkPin, bkC, bkTemp, bkDir, bkOut, bkSig>>
  BY CallFacts DEF WaitContainer, InContainer, InContainerKind, bkImages, bkFiles
<1>2. me.pc \in OpenPcs
  BY <1>1 DEF OpenPcs
<1>3. CASE me.over /\ Call(b, Unwinding(me, "transient"))
  BY <1>1, <1>2, <1>3, UnwindInv DEF Call
<1>4. CASE bkC[b].state = "exited" /\ me.code = 0 /\ Call(b, [me EXCEPT !.pc = "collect"])
  BY <1>1, <1>4, ExitedInv DEF Call
<1>5. CASE bkC[b].state = "exited" /\ me.code # 0
           /\ Call(b, Unwinding(me, IF me.kind = "metadata" THEN "transient" ELSE "failed"))
  <2>1. ~me.killed
    BY <1>1 DEF CallRight, ExitRight
  <2>2. CASE me.kind = "metadata"
    <3>1. bkB' = [bkB EXCEPT ![b] = Unwinding(me, "transient")]
      BY <1>5, <2>2 DEF Call
    <3> QED BY <1>1, <1>2, <1>5, <3>1, UnwindInv
  <2>3. CASE me.kind # "metadata"
    <3>1. bkB' = [bkB EXCEPT ![b] = Unwinding(me, "failed")]
      BY <1>5, <2>3 DEF Call
    <3> QED BY <1>1, <1>2, <1>5, <2>1, <3>1, UnwindInv
  <2> QED BY <2>2, <2>3
<1> QED BY <1>3, <1>4, <1>5 DEF WaitContainer

\* The end of the command of a build on the host.
LEMMA CommandEndsInv == ASSUME BKInv, NEW b \in BuildCalls, CommandEnds(b) PROVE BKInv'
PROOF
<1> DEFINE me == bkB[b]
<1>1. /\ CallRight(me, bkC[b], bkTemp[b], bkDir[b], bkOut[b], bkSig[b], bkPin) /\ me.pc = "exited"
      /\ UNCHANGED <<bkTag, bkLocal, bkPin, bkC, bkTemp, bkDir, bkOut, bkSig>>
  BY CallFacts DEF CommandEnds, bkImages, bkFiles
<1>2. me.pc \in OpenPcs /\ bkC[b].state = "none"
  BY <1>1 DEF OpenPcs, HostPcs, CallRight, PlaceRight
<1>3. CASE me.code = 0
  BY <1>1, <1>2, <1>3, ExitedInv DEF CommandEnds, Call
<1>4. CASE me.code # 0 /\ me.over
  BY <1>1, <1>2, <1>4, UnwindInv DEF CommandEnds, Call, BuildError
<1>5. CASE me.code # 0 /\ ~me.over
  <2>1. ~me.killed
    BY <1>1, <1>5 DEF CallRight, ExitRight
  <2> QED BY <1>1, <1>2, <1>5, <2>1, UnwindInv DEF CommandEnds, Call, BuildError
<1> QED BY <1>3, <1>4, <1>5

\* The environment on the host is ready and the command starts.
LEMMA HostPreparedInv ==
  ASSUME BKInv, NEW b \in BuildCalls, NEW thing, bkB[b].pc = "prepare",
         bkB' = [bkB EXCEPT ![b] = [bkB[b] EXCEPT !.pc = "command"]], bkTemp' = [bkTemp EXCEPT ![b] = bkTemp[b] \cup {thing}],
         UNCHANGED <<bkTag, bkLocal, bkPin, bkC, bkDir, bkOut, bkSig>>
  PROVE  BKInv'
PROOF
<1> DEFINE me == bkB[b]
           r == [me EXCEPT !.pc = "command"]
<1>1. /\ CallRight(me, bkC[b], bkTemp[b], bkDir[b], bkOut[b], bkSig[b], bkPin) /\ me \in CallFields
      /\ bkC[b] \in ContainerFields /\ bkDir[b] \in FileStamps /\ bkOut[b] \in FileStamps
      /\ bkSig[b] \in FileStamps /\ me.pc = "prepare"
      /\ bkB' = [bkB EXCEPT ![b] = r] /\ bkTemp' = [bkTemp EXCEPT ![b] = bkTemp[b] \cup {thing}]
      /\ UNCHANGED <<bkTag, bkLocal, bkPin, bkC, bkDir, bkOut, bkSig>>
      /\ BKTypes
  BY CallFacts DEF Unwinding, Call, bkImages, bkFiles, BKInv
<1>2. r \in CallFields
  BY <1>1, Zenon DEF CallFields, OpenPcs, PullPcs, HostPcs, AfterPcs, BKTypes
<1>3. /\ r.pc = "command" /\ r.kind = me.kind /\ r.over = me.over /\ r.ref = me.ref /\ r.pinned = me.pinned
      /\ r.base = me.base /\ r.todo = me.todo /\ r.result = me.result /\ r.outcome = me.outcome
      /\ r.made = me.made /\ r.code = me.code /\ r.killed = me.killed /\ r.kept = me.kept
      /\ r.sign = me.sign /\ r.published = me.published
  BY <1>1 DEF CallFields
<1> HIDE DEF r, me
<1>4. BKTypes' /\ CallsStay(b)
  <2>1. BKTypes'
    BY <1>1, <1>2 DEF BKTypes
  <2>2. CallsStay(b)
    BY <1>1 DEF BKTypes, CallsStay
  <2> QED BY <2>1, <2>2
<1>5. /\ bkB'[b] = r /\ bkC'[b] = bkC[b] /\ bkTemp'[b] = bkTemp[b] \cup {thing}
      /\ bkDir'[b] = bkDir[b] /\ bkOut'[b] = bkOut[b] /\ bkSig'[b] = bkSig[b]
  BY <1>1 DEF BKTypes
<1>6. PlaceRight(r, bkC'[b])
  BY <1>1, <1>3, <1>5 DEF CallRight, PlaceRight, InContainerKind, ContainerFields, OpenPcs, PullPcs, HostPcs, AfterPcs
<1>7. TempRight(r, bkC'[b], bkTemp'[b])
  BY <1>1, <1>3, <1>5 DEF CallRight, TempRight, PlaceRight, ContainerFields, OpenPcs, PullPcs, HostPcs, AfterPcs
<1>8. PinRight(r, bkC'[b], bkPin')
  BY <1>1, <1>3, <1>5 DEF CallRight, PinRight, PlaceRight, ContainerFields, PullPcs
<1>9. FilesRight(r, bkDir'[b], bkOut'[b])
  BY <1>1, <1>3, <1>5 DEF CallRight, FilesRight, PlaceRight, FileStamps, OpenPcs, PullPcs, HostPcs, AfterPcs
<1>10. ExitRight(r) /\ UploadRight(r, bkOut'[b], bkSig'[b])
  BY <1>1, <1>3, <1>5
     DEF CallRight, ExitRight, UploadRight, PlaceRight, FilesRight, InContainerKind, OpenPcs, PullPcs, HostPcs, AfterPcs
<1> QED BY <1>1, <1>4, <1>5, <1>6, <1>7, <1>8, <1>9, <1>10, CallMovesInv DEF CallRight

\* The environment of a build on the host is prepared, or the context ended before.
LEMMA PrepareHostInv == ASSUME BKInv, NEW b \in BuildCalls, PrepareHost(b) PROVE BKInv'
PROOF
<1>1. bkB[b].pc = "prepare" /\ bkB[b].pc \in OpenPcs
  BY DEF PrepareHost, OpenPcs, HostPcs
<1>2. CASE bkB[b].over
  BY <1>1, <1>2, UnwindInv DEF PrepareHost, Call, bkImages, bkFiles
<1>3. CASE ~bkB[b].over
  BY <1>1, <1>3, HostPreparedInv DEF PrepareHost, Call, bkImages, bkFiles
<1> QED BY <1>2, <1>3

\* makepkg writes a package, for a call that waits for it or has given up on its container.
LEMMA MakePackageInv ==
  ASSUME BKInv, NEW b \in BuildCalls, NEW p \in PkgFiles, MakePackage(b, p)
  PROVE  BKInv'
PROOF
<1> DEFINE me == bkB[b]
           r == [me EXCEPT !.made = me.made \cup {p}]
<1>1. /\ CallRight(me, bkC[b], bkTemp[b], bkDir[b], bkOut[b], bkSig[b], bkPin) /\ me \in CallFields
      /\ bkC[b] \in ContainerFields /\ bkDir[b] \in FileStamps /\ bkOut[b] \in FileStamps
      /\ bkSig[b] \in FileStamps /\ (me.pc = "command" \/ bkC[b].state = "running")
      /\ bkB' = [bkB EXCEPT ![b] = r] /\ bkDir' = [bkDir EXCEPT ![b] = [bkDir[b] EXCEPT ![p] = NewStamp]]
      /\ UNCHANGED <<bkTag, bkLocal, bkPin, bkC, bkTemp, bkOut, bkSig>>
      /\ BKTypes
  BY CallFacts DEF MakePackage, Running, Call, bkImages, bkFiles, BKInv
<1>0. /\ me.made \cup {p} \in SUBSET PkgFiles /\ NewStamp \in Nat
      /\ [bkDir[b] EXCEPT ![p] = NewStamp] \in FileStamps
      /\ \A q \in PkgFiles : [bkDir[b] EXCEPT ![p] = NewStamp][q] = IF q = p THEN NewStamp ELSE bkDir[b][q]
  BY <1>1 DEF CallFields, NewStamp, FileStamps
<1>11. me.pc \in {"command", "wait"} \/ (me.outcome = "transient" /\ me.pc \in {"unwind", "tidy", "returned"})
  BY <1>1 DEF CallRight, PlaceRight
<1>2. r \in CallFields
  BY <1>1, <1>0, Zenon DEF CallFields, OpenPcs, PullPcs, HostPcs, AfterPcs, BKTypes
<1>3. /\ r.pc = me.pc /\ r.kind = me.kind /\ r.over = me.over /\ r.ref = me.ref /\ r.pinned = me.pinned
      /\ r.base = me.base /\ r.todo = me.todo /\ r.result = me.result /\ r.outcome = me.outcome
      /\ r.made = me.made \cup {p} /\ r.code = me.code /\ r.killed = me.killed /\ r.kept = me.kept
      /\ r.sign = me.sign /\ r.published = me.published
  BY <1>1 DEF CallFields
<1> HIDE DEF r, me
<1>4. BKTypes' /\ CallsStay(b)
  <2>1. BKTypes'
    BY <1>1, <1>2, <1>0 DEF BKTypes
  <2>2. CallsStay(b)
    BY <1>1 DEF BKTypes, CallsStay
  <2> QED BY <2>1, <2>2
<1>5. /\ bkB'[b] = r /\ bkC'[b] = bkC[b] /\ bkTemp'[b] = bkTemp[b]
      /\ bkDir'[b] = [bkDir[b] EXCEPT ![p] = NewStamp] /\ bkOut'[b] = bkOut[b] /\ bkSig'[b] = bkSig[b]
  BY <1>1, <1>0 DEF BKTypes
<1>6. PlaceRight(r, bkC'[b])
  BY <1>1, <1>3, <1>5, <1>11
     DEF CallRight, PlaceRight, InContainerKind, ContainerFields, OpenPcs, PullPcs, HostPcs, AfterPcs
<1>7. TempRight(r, bkC'[b], bkTemp'[b])
  BY <1>1, <1>3, <1>5, <1>11
     DEF CallRight, TempRight, PlaceRight, ContainerFields, OpenPcs, PullPcs, HostPcs, AfterPcs
<1>8. PinRight(r, bkC'[b], bkPin')
  BY <1>1, <1>3, <1>5 DEF CallRight, PinRight, PlaceRight, ContainerFields, PullPcs
<1>9. FilesRight(r, bkDir'[b], bkOut'[b])
  BY <1>1, <1>3, <1>5, <1>0, <1>11
     DEF CallRight, FilesRight, PlaceRight, FileStamps, OpenPcs, PullPcs, HostPcs, AfterPcs
<1>10. ExitRight(r) /\ UploadRight(r, bkOut'[b], bkSig'[b])
  BY <1>1, <1>3, <1>5, <1>11
     DEF CallRight, ExitRight, UploadRight, PlaceRight, FilesRight, InContainerKind, OpenPcs, PullPcs, HostPcs, AfterPcs
<1> QED BY <1>1, <1>4, <1>5, <1>6, <1>7, <1>8, <1>9, <1>10, CallMovesInv DEF CallRight

\* The main process of a container ends.
LEMMA ContainerExitsInv ==
  ASSUME BKInv, NEW b \in BuildCalls, NEW code \in {0, 1}, InContainer(b), MakepkgExits(b, code)
  PROVE  BKInv'
PROOF
<1> DEFINE me == bkB[b]
           r == [me EXCEPT !.code = code]
<1>1. /\ CallRight(me, bkC[b], bkTemp[b], bkDir[b], bkOut[b], bkSig[b], bkPin) /\ me \in CallFields
      /\ bkC[b] \in ContainerFields /\ bkDir[b] \in FileStamps /\ bkOut[b] \in FileStamps
      /\ bkSig[b] \in FileStamps /\ InContainerKind(me.kind) /\ (me.pc = "command" \/ bkC[b].state = "running")
      /\ bkB' = [bkB EXCEPT ![b] = r] /\ bkC' = [bkC EXCEPT ![b] = [bkC[b] EXCEPT !.state = "exited"]]
      /\ UNCHANGED <<bkTag, bkLocal, bkPin, bkTemp, bkDir, bkOut, bkSig>>
      /\ BKTypes
  BY CallFacts DEF MakepkgExits, Running, InContainer, InContainerKind, Call, bkImages, bkFiles, BKInv
<1>11. bkC[b].state = "running"
       /\ (me.pc = "wait" \/ (me.outcome = "transient" /\ me.pc \in {"unwind", "tidy", "returned"}))
  BY <1>1 DEF CallRight, PlaceRight, HostPcs
<1>2. r \in CallFields
  BY <1>1, Zenon DEF CallFields, OpenPcs, PullPcs, HostPcs, AfterPcs, BKTypes
<1>3. /\ r.pc = me.pc /\ r.kind = me.kind /\ r.over = me.over /\ r.ref = me.ref /\ r.pinned = me.pinned
      /\ r.base = me.base /\ r.todo = me.todo /\ r.result = me.result /\ r.outcome = me.outcome
      /\ r.made = me.made /\ r.code = code /\ r.killed = me.killed /\ r.kept = me.kept /\ r.sign = me.sign
      /\ r.published = me.published
  BY <1>1 DEF CallFields
<1> HIDE DEF r, me
<1>4. BKTypes' /\ CallsStay(b)
  <2>1. BKTypes'
    BY <1>1, <1>2 DEF BKTypes, ContainerFields, FileStamps
  <2>2. CallsStay(b)
    BY <1>1 DEF BKTypes, CallsStay
  <2> QED BY <2>1, <2>2
<1>5. /\ bkB'[b] = r /\ bkC'[b] = [bkC[b] EXCEPT !.state = "exited"] /\ bkTemp'[b] = bkTemp[b]
      /\ bkDir'[b] = bkDir[b] /\ bkOut'[b] = bkOut[b] /\ bkSig'[b] = bkSig[b]
  BY <1>1 DEF BKTypes
<1>6. PlaceRight(r, bkC'[b])
  BY <1>1, <1>3, <1>5, <1>11
     DEF CallRight, PlaceRight, InContainerKind, ContainerFields, OpenPcs, PullPcs, HostPcs, AfterPcs
<1>7. TempRight(r, bkC'[b], bkTemp'[b])
  BY <1>1, <1>3, <1>5, <1>11
     DEF CallRight, TempRight, PlaceRight, ContainerFields, OpenPcs, PullPcs, HostPcs, AfterPcs
<1>8. PinRight(r, bkC'[b], bkPin')
  BY <1>1, <1>3, <1>5 DEF CallRight, PinRight, PlaceRight, ContainerFields, PullPcs
<1>9. FilesRight(r, bkDir'[b], bkOut'[b])
  BY <1>1, <1>3, <1>5, <1>11 DEF CallRight, FilesRight, PlaceRight, FileStamps, OpenPcs, PullPcs, HostPcs, AfterPcs
<1>10. ExitRight(r) /\ UploadRight(r, bkOut'[b], bkSig'[b])
  BY <1>1, <1>3, <1>5, <1>11
     DEF CallRight, ExitRight, UploadRight, PlaceRight, FilesRight, InContainerKind, OpenPcs, PullPcs, HostPcs, AfterPcs
<1> QED BY <1>1, <1>4, <1>5, <1>6, <1>7, <1>8, <1>9, <1>10, CallMovesInv DEF CallRight

\* The command of a build on the host ends by itself.
LEMMA HostExitsInv ==
  ASSUME BKInv, NEW b \in BuildCalls, NEW code \in {0, 1}, ~InContainer(b), MakepkgExits(b, code)
  PROVE  BKInv'
PROOF
<1> DEFINE me == bkB[b]
           r == [me EXCEPT !.pc = "exited", !.code = code]
<1>1. /\ CallRight(me, bkC[b], bkTemp[b], bkDir[b], bkOut[b], bkSig[b], bkPin) /\ me \in CallFields
      /\ bkC[b] \in ContainerFields /\ bkDir[b] \in FileStamps /\ bkOut[b] \in FileStamps
      /\ bkSig[b] \in FileStamps /\ me.pc = "command"
      /\ bkB' = [bkB EXCEPT ![b] = r]
      /\ UNCHANGED <<bkTag, bkLocal, bkPin, bkC, bkTemp, bkDir, bkOut, bkSig>>
  BY CallFacts
     DEF MakepkgExits, Running, InContainer, InContainerKind, CallRight, PlaceRight, ContainerFields, Call, bkImages, bkFiles
<1>2. r \in CallFields
  BY <1>1, Zenon DEF CallFields, OpenPcs, PullPcs, HostPcs, AfterPcs
<1>3. /\ r.pc = "exited" /\ r.kind = me.kind /\ r.over = me.over /\ r.ref = me.ref /\ r.pinned = me.pinned
      /\ r.base = me.base /\ r.todo = me.todo /\ r.result = me.result /\ r.outcome = me.outcome
      /\ r.made = me.made /\ r.code = code /\ r.killed = me.killed /\ r.kept = me.kept /\ r.sign = me.sign
      /\ r.published = me.published
  BY <1>1 DEF CallFields
<1> HIDE DEF r, me
<1>4. PlaceRight(r, bkC[b])
  BY <1>1, <1>3 DEF CallRight, PlaceRight, InContainerKind, OpenPcs, PullPcs, HostPcs, AfterPcs
<1>5. TempRight(r, bkC[b], bkTemp[b]) /\ PinRight(r, bkC[b], bkPin)
  BY <1>1, <1>3 DEF CallRight, TempRight, PinRight, PlaceRight, OpenPcs, PullPcs, HostPcs, AfterPcs
<1>6. FilesRight(r, bkDir[b], bkOut[b])
  BY <1>1, <1>3 DEF CallRight, FilesRight, PlaceRight, OpenPcs, PullPcs, HostPcs, AfterPcs
<1>7. ExitRight(r) /\ UploadRight(r, bkOut[b], bkSig[b])
  BY <1>1, <1>3 DEF CallRight, ExitRight, UploadRight, PlaceRight, FilesRight, OpenPcs, PullPcs, HostPcs, AfterPcs
<1> QED BY <1>1, <1>2, <1>4, <1>5, <1>6, <1>7, RecordMovesInv DEF CallRight

\* makepkg ends, in the container or on the host.
LEMMA MakepkgExitsInv ==
  ASSUME BKInv, NEW b \in BuildCalls, NEW code \in {0, 1}, MakepkgExits(b, code)
  PROVE  BKInv'
PROOF
<1> QED BY ContainerExitsInv, HostExitsInv

\* What Collect finds in the directory is what makepkg made: nothing that was there before, and no
\* rebuild that looks like what was there.
LEMMA CollectIsMade ==
  ASSUME BKInv, NEW b \in BuildCalls, bkB[b].pc = "collect"
  PROVE  Collect(b) = bkB[b].made
PROOF
<1>1. /\ bkB[b].made \subseteq PkgFiles
      /\ \A p \in PkgFiles : /\ bkB[b].base[p] \in {0, OldStamp}
                             /\ bkDir[b][p] = IF p \in bkB[b].made THEN NewStamp ELSE bkB[b].base[p]
  BY CallFacts DEF CallRight, FilesRight, OpenPcs, PullPcs, HostPcs, CallFields
<1>2. ASSUME NEW p \in PkgFiles
      PROVE  (bkDir[b][p] # 0 /\ bkDir[b][p] # bkB[b].base[p]) <=> p \in bkB[b].made
  BY <1>1 DEF OldStamp, NewStamp
<1> QED BY <1>1, <1>2 DEF Collect

\* The packages of the build are moved to the output directory.
LEMMA CollectedInv ==
  ASSUME BKInv, NEW b \in BuildCalls, bkB[b].pc = "collect", bkB[b].kind # "metadata", bkB[b].made # {},
         bkB' = [bkB EXCEPT ![b] = [bkB[b] EXCEPT !.pc = "move", !.todo = bkB[b].made]],
         UNCHANGED <<bkTag, bkLocal, bkPin, bkC, bkTemp, bkDir, bkOut, bkSig>>
  PROVE  BKInv'
PROOF
<1> DEFINE me == bkB[b]
           r == [me EXCEPT !.pc = "move", !.todo = me.made]
<1>1. /\ CallRight(me, bkC[b], bkTemp[b], bkDir[b], bkOut[b], bkSig[b], bkPin) /\ me \in CallFields
      /\ bkC[b] \in ContainerFields /\ bkDir[b] \in FileStamps /\ bkOut[b] \in FileStamps
      /\ bkSig[b] \in FileStamps /\ me.pc = "collect" /\ me.kind # "metadata" /\ me.made # {}
      /\ bkB' = [bkB EXCEPT ![b] = r]
      /\ UNCHANGED <<bkTag, bkLocal, bkPin, bkC, bkTemp, bkDir, bkOut, bkSig>>
  BY CallFacts DEF Unwinding, Call, bkImages, bkFiles
<1>0. me.made \in SUBSET PkgFiles /\ me.result = {}
  BY <1>1 DEF CallFields, CallRight, FilesRight, OpenPcs
<1>2. r \in CallFields
  BY <1>1, <1>0, Zenon DEF CallFields, OpenPcs, PullPcs, HostPcs, AfterPcs
<1>3. /\ r.pc = "move" /\ r.kind = me.kind /\ r.over = me.over /\ r.ref = me.ref /\ r.pinned = me.pinned
      /\ r.base = me.base /\ r.todo = me.made /\ r.result = me.result /\ r.outcome = me.outcome
      /\ r.made = me.made /\ r.code = me.code /\ r.killed = me.killed /\ r.kept = me.kept
      /\ r.sign = me.sign /\ r.published = me.published
  BY <1>1 DEF CallFields
<1> HIDE DEF r, me
<1>4. PlaceRight(r, bkC[b])
  BY <1>1, <1>3 DEF CallRight, PlaceRight, InContainerKind, OpenPcs, PullPcs, HostPcs, AfterPcs
<1>5. TempRight(r, bkC[b], bkTemp[b]) /\ PinRight(r, bkC[b], bkPin)
  BY <1>1, <1>3 DEF CallRight, TempRight, PinRight, PlaceRight, OpenPcs, PullPcs, HostPcs, AfterPcs
<1>6. FilesRight(r, bkDir[b], bkOut[b])
  BY <1>1, <1>3, <1>0 DEF CallRight, FilesRight, PlaceRight, OpenPcs, PullPcs, HostPcs, AfterPcs
<1>7. ExitRight(r) /\ UploadRight(r, bkOut[b], bkSig[b])
  BY <1>1, <1>3 DEF CallRight, ExitRight, UploadRight, PlaceRight, FilesRight, OpenPcs, PullPcs, HostPcs, AfterPcs
<1> QED BY <1>1, <1>2, <1>4, <1>5, <1>6, <1>7, RecordMovesInv DEF CallRight

\* The result is collected: nothing for metadata, a failure when there is none, else what was made.
LEMMA CollectToDirInv == ASSUME BKInv, NEW b \in BuildCalls, CollectToDir(b) PROVE BKInv'
PROOF
<1> DEFINE me == bkB[b]
<1>1. /\ me.pc = "collect" /\ me.pc \in OpenPcs /\ Collect(b) = me.made
      /\ CallRight(me, bkC[b], bkTemp[b], bkDir[b], bkOut[b], bkSig[b], bkPin)
      /\ UNCHANGED <<bkTag, bkLocal, bkPin, bkC, bkTemp, bkDir, bkOut, bkSig>>
  BY CallFacts, CollectIsMade DEF CollectToDir, OpenPcs, bkImages, bkFiles
<1>2. bkC[b].state # "running" /\ ~me.killed
  BY <1>1 DEF CallRight, PlaceRight, ExitRight, OpenPcs
<1>3. CASE me.kind = "metadata"
  BY <1>1, <1>2, <1>3, UnwindInv DEF CollectToDir, Call
<1>4. CASE me.kind # "metadata" /\ me.made = {}
  BY <1>1, <1>2, <1>4, UnwindInv DEF CollectToDir, Call
<1>5. CASE me.kind # "metadata" /\ me.made # {}
  BY <1>1, <1>5, CollectedInv DEF CollectToDir, Call
<1> QED BY <1>3, <1>4, <1>5

\* A package of the build is moved and others are left.
LEMMA MoveOneInv ==
  ASSUME BKInv, NEW b \in BuildCalls, NEW p \in PkgFiles, bkB[b].todo \ {p} # {}, MoveToDir(b, p)
  PROVE  BKInv'
PROOF
<1> DEFINE me == bkB[b]
           r == [me EXCEPT !.todo = me.todo \ {p}, !.result = me.result \cup {p}]
<1>1. /\ CallRight(me, bkC[b], bkTemp[b], bkDir[b], bkOut[b], bkSig[b], bkPin) /\ me \in CallFields
      /\ bkC[b] \in ContainerFields /\ bkDir[b] \in FileStamps /\ bkOut[b] \in FileStamps
      /\ bkSig[b] \in FileStamps /\ me.pc = "move" /\ p \in me.todo /\ me.todo \ {p} # {}
      /\ bkB' = [bkB EXCEPT ![b] = r] /\ bkDir' = [bkDir EXCEPT ![b] = [bkDir[b] EXCEPT ![p] = 0]]
      /\ bkOut' = [bkOut EXCEPT ![b] = [bkOut[b] EXCEPT ![p] = bkDir[b][p]]]
      /\ UNCHANGED <<bkTag, bkLocal, bkPin, bkC, bkTemp, bkSig>>
      /\ BKTypes
  BY CallFacts DEF MoveToDir, Unwinding, Call, bkImages, bkFiles, BKInv
<1>0. /\ me.result \cup {p} \in SUBSET PkgFiles /\ me.todo \ {p} \in SUBSET PkgFiles /\ {} \in SUBSET PkgFiles
      /\ [bkOut[b] EXCEPT ![p] = bkDir[b][p]] \in FileStamps /\ [bkDir[b] EXCEPT ![p] = 0] \in FileStamps
      /\ \A q \in PkgFiles : /\ [bkOut[b] EXCEPT ![p] = bkDir[b][p]][q] = IF q = p THEN bkDir[b][p] ELSE bkOut[b][q]
                             /\ [bkDir[b] EXCEPT ![p] = 0][q] = IF q = p THEN 0 ELSE bkDir[b][q]
      /\ me.todo \subseteq PkgFiles /\ me.result \subseteq PkgFiles
  BY <1>1 DEF CallFields, FileStamps
<1>11. /\ me.kind # "metadata" /\ me.todo \cup me.result = me.made /\ me.outcome = "none"
       /\ \A q \in me.todo : bkDir[b][q] = NewStamp
       /\ \A q \in me.result : bkOut[b][q] = NewStamp
  BY <1>1 DEF CallRight, FilesRight, PlaceRight, OpenPcs
<1>2. r \in CallFields
  BY <1>1, <1>0, Zenon DEF CallFields, OpenPcs, PullPcs, HostPcs, AfterPcs, BKTypes
<1>3. /\ r.pc = me.pc /\ r.kind = me.kind /\ r.over = me.over /\ r.ref = me.ref /\ r.pinned = me.pinned
      /\ r.base = me.base /\ r.todo = me.todo \ {p} /\ r.result = me.result \cup {p}
      /\ r.outcome = me.outcome /\ r.made = me.made /\ r.code = me.code /\ r.killed = me.killed
      /\ r.kept = me.kept /\ r.sign = me.sign /\ r.published = me.published
  BY <1>1 DEF CallFields
<1> HIDE DEF r, me
<1>4. BKTypes' /\ CallsStay(b)
  <2>1. BKTypes'
    BY <1>1, <1>2, <1>0 DEF BKTypes
  <2>2. CallsStay(b)
    BY <1>1 DEF BKTypes, CallsStay
  <2> QED BY <2>1, <2>2
<1>5. /\ bkB'[b] = r /\ bkC'[b] = bkC[b] /\ bkTemp'[b] = bkTemp[b]
      /\ bkDir'[b] = [bkDir[b] EXCEPT ![p] = 0] /\ bkOut'[b] = [bkOut[b] EXCEPT ![p] = bkDir[b][p]] /\ bkSig'[b] = bkSig[b]
  BY <1>1, <1>0 DEF BKTypes
<1>6. PlaceRight(r, bkC'[b])
  BY <1>1, <1>3, <1>5, <1>11
     DEF CallRight, PlaceRight, InContainerKind, ContainerFields, OpenPcs, PullPcs, HostPcs, AfterPcs
<1>7. TempRight(r, bkC'[b], bkTemp'[b])
  BY <1>1, <1>3, <1>5, <1>11
     DEF CallRight, TempRight, PlaceRight, ContainerFields, OpenPcs, PullPcs, HostPcs, AfterPcs
<1>8. PinRight(r, bkC'[b], bkPin')
  BY <1>1, <1>3, <1>5 DEF CallRight, PinRight, PlaceRight, ContainerFields, PullPcs
<1>9. FilesRight(r, bkDir'[b], bkOut'[b])
  BY <1>1, <1>3, <1>5, <1>0, <1>11
     DEF CallRight, FilesRight, PlaceRight, FileStamps, OpenPcs, PullPcs, HostPcs, AfterPcs
<1>10. ExitRight(r) /\ UploadRight(r, bkOut'[b], bkSig'[b])
  BY <1>1, <1>3, <1>5, <1>11
     DEF CallRight, ExitRight, UploadRight, PlaceRight, FilesRight, InContainerKind, OpenPcs, PullPcs, HostPcs, AfterPcs
<1> QED BY <1>1, <1>4, <1>5, <1>6, <1>7, <1>8, <1>9, <1>10, CallMovesInv DEF CallRight

\* The last package of the build is moved: the call ends well.
LEMMA MoveLastInv ==
  ASSUME BKInv, NEW b \in BuildCalls, NEW p \in PkgFiles, bkB[b].todo \ {p} = {}, MoveToDir(b, p)
  PROVE  BKInv'
PROOF
<1> DEFINE me == bkB[b]
           r == [me EXCEPT !.todo = {}, !.result = me.result \cup {p}, !.pc = "unwind", !.outcome = "ok"]
<1>1. /\ CallRight(me, bkC[b], bkTemp[b], bkDir[b], bkOut[b], bkSig[b], bkPin) /\ me \in CallFields
      /\ bkC[b] \in ContainerFields /\ bkDir[b] \in FileStamps /\ bkOut[b] \in FileStamps
      /\ bkSig[b] \in FileStamps /\ me.pc = "move" /\ p \in me.todo /\ me.todo \ {p} = {}
      /\ bkB' = [bkB EXCEPT ![b] = r] /\ bkDir' = [bkDir EXCEPT ![b] = [bkDir[b] EXCEPT ![p] = 0]]
      /\ bkOut' = [bkOut EXCEPT ![b] = [bkOut[b] EXCEPT ![p] = bkDir[b][p]]]
      /\ UNCHANGED <<bkTag, bkLocal, bkPin, bkC, bkTemp, bkSig>>
      /\ BKTypes
  BY CallFacts DEF MoveToDir, Unwinding, Call, bkImages, bkFiles, BKInv
<1>0. /\ me.result \cup {p} \in SUBSET PkgFiles /\ me.todo \ {p} \in SUBSET PkgFiles /\ {} \in SUBSET PkgFiles
      /\ [bkOut[b] EXCEPT ![p] = bkDir[b][p]] \in FileStamps /\ [bkDir[b] EXCEPT ![p] = 0] \in FileStamps
      /\ \A q \in PkgFiles : /\ [bkOut[b] EXCEPT ![p] = bkDir[b][p]][q] = IF q = p THEN bkDir[b][p] ELSE bkOut[b][q]
                             /\ [bkDir[b] EXCEPT ![p] = 0][q] = IF q = p THEN 0 ELSE bkDir[b][q]
      /\ me.todo \subseteq PkgFiles /\ me.result \subseteq PkgFiles
  BY <1>1 DEF CallFields, FileStamps
<1>11. /\ me.kind # "metadata" /\ me.todo \cup me.result = me.made /\ me.outcome = "none"
       /\ \A q \in me.todo : bkDir[b][q] = NewStamp
       /\ \A q \in me.result : bkOut[b][q] = NewStamp
  BY <1>1 DEF CallRight, FilesRight, PlaceRight, OpenPcs
<1>2. r \in CallFields
  BY <1>1, <1>0, Zenon DEF CallFields, OpenPcs, PullPcs, HostPcs, AfterPcs, BKTypes
<1>3. /\ r.pc = "unwind" /\ r.kind = me.kind /\ r.over = me.over /\ r.ref = me.ref /\ r.pinned = me.pinned
      /\ r.base = me.base /\ r.todo = {} /\ r.result = me.result \cup {p} /\ r.outcome = "ok"
      /\ r.made = me.made /\ r.code = me.code /\ r.killed = me.killed /\ r.kept = me.kept
      /\ r.sign = me.sign /\ r.published = me.published
  BY <1>1 DEF CallFields
<1> HIDE DEF r, me
<1>4. BKTypes' /\ CallsStay(b)
  <2>1. BKTypes'
    BY <1>1, <1>2, <1>0 DEF BKTypes
  <2>2. CallsStay(b)
    BY <1>1 DEF BKTypes, CallsStay
  <2> QED BY <2>1, <2>2
<1>5. /\ bkB'[b] = r /\ bkC'[b] = bkC[b] /\ bkTemp'[b] = bkTemp[b]
      /\ bkDir'[b] = [bkDir[b] EXCEPT ![p] = 0] /\ bkOut'[b] = [bkOut[b] EXCEPT ![p] = bkDir[b][p]] /\ bkSig'[b] = bkSig[b]
  BY <1>1, <1>0 DEF BKTypes
<1>6. PlaceRight(r, bkC'[b])
  BY <1>1, <1>3, <1>5, <1>11
     DEF CallRight, PlaceRight, InContainerKind, ContainerFields, OpenPcs, PullPcs, HostPcs, AfterPcs
<1>7. TempRight(r, bkC'[b], bkTemp'[b])
  BY <1>1, <1>3, <1>5, <1>11
     DEF CallRight, TempRight, PlaceRight, ContainerFields, OpenPcs, PullPcs, HostPcs, AfterPcs
<1>8. PinRight(r, bkC'[b], bkPin')
  BY <1>1, <1>3, <1>5 DEF CallRight, PinRight, PlaceRight, ContainerFields, PullPcs
<1>9. FilesRight(r, bkDir'[b], bkOut'[b])
  BY <1>1, <1>3, <1>5, <1>0, <1>11
     DEF CallRight, FilesRight, PlaceRight, FileStamps, OpenPcs, PullPcs, HostPcs, AfterPcs
<1>10. ExitRight(r) /\ UploadRight(r, bkOut'[b], bkSig'[b])
  BY <1>1, <1>3, <1>5, <1>11
     DEF CallRight, ExitRight, UploadRight, PlaceRight, FilesRight, InContainerKind, OpenPcs, PullPcs, HostPcs, AfterPcs
<1> QED BY <1>1, <1>4, <1>5, <1>6, <1>7, <1>8, <1>9, <1>10, CallMovesInv DEF CallRight

\* A package is moved to the output directory.
LEMMA MoveToDirInv ==
  ASSUME BKInv, NEW b \in BuildCalls, NEW p \in PkgFiles, MoveToDir(b, p)
  PROVE  BKInv'
PROOF
<1> QED BY MoveOneInv, MoveLastInv

\* The first deferred function stops and removes the container, unless the daemon refuses.
LEMMA ContainerRemoveInv ==
  ASSUME BKInv, NEW b \in BuildCalls, NEW ok \in BOOLEAN, ContainerRemove(b, ok)
  PROVE  BKInv'
PROOF
<1> DEFINE me == bkB[b]
           con == IF ok THEN [bkC[b] EXCEPT !.state = "none"] ELSE bkC[b]
           r == [me EXCEPT !.pc = "tidy", !.kept = (~ok)]
<1>1. /\ CallRight(me, bkC[b], bkTemp[b], bkDir[b], bkOut[b], bkSig[b], bkPin) /\ me \in CallFields
      /\ bkC[b] \in ContainerFields /\ bkDir[b] \in FileStamps /\ bkOut[b] \in FileStamps
      /\ bkSig[b] \in FileStamps /\ me.pc = "unwind"
      /\ bkB' = [bkB EXCEPT ![b] = r] /\ bkC' = IF ok THEN [bkC EXCEPT ![b] = [bkC[b] EXCEPT !.state = "none"]] ELSE bkC
      /\ UNCHANGED <<bkTag, bkLocal, bkPin, bkTemp, bkDir, bkOut, bkSig>>
      /\ BKTypes
  BY CallFacts DEF ContainerRemove, RemovalWorks, Call, bkImages, bkFiles, BKInv
<1>0. (~ok) \in BOOLEAN
  OBVIOUS
<1>11. /\ con \in ContainerFields /\ con.image = bkC[b].image /\ con.state = IF ok THEN "none" ELSE bkC[b].state
       /\ bkC' = [bkC EXCEPT ![b] = con]
  BY <1>1 DEF ContainerFields, BKTypes
<1> HIDE DEF con
<1>2. r \in CallFields
  BY <1>1, <1>0, Zenon DEF CallFields, OpenPcs, PullPcs, HostPcs, AfterPcs, BKTypes
<1>3. /\ r.pc = "tidy" /\ r.kind = me.kind /\ r.over = me.over /\ r.ref = me.ref /\ r.pinned = me.pinned
      /\ r.base = me.base /\ r.todo = me.todo /\ r.result = me.result /\ r.outcome = me.outcome
      /\ r.made = me.made /\ r.code = me.code /\ r.killed = me.killed /\ r.kept = (~ok) /\ r.sign = me.sign
      /\ r.published = me.published
  BY <1>1 DEF CallFields
<1> HIDE DEF r, me
<1>4. BKTypes' /\ CallsStay(b)
  <2>1. BKTypes'
    BY <1>1, <1>2, <1>11 DEF BKTypes
  <2>2. CallsStay(b)
    BY <1>1 DEF BKTypes, CallsStay
  <2> QED BY <2>1, <2>2
<1>5. /\ bkB'[b] = r /\ bkC'[b] = con /\ bkTemp'[b] = bkTemp[b]
      /\ bkDir'[b] = bkDir[b] /\ bkOut'[b] = bkOut[b] /\ bkSig'[b] = bkSig[b]
  BY <1>1, <1>11 DEF BKTypes
<1>12. (ok => con.state = "none" /\ ~r.kept) /\ (~ok => con.state = bkC[b].state /\ r.kept)
  BY <1>3, <1>11
<1>6. PlaceRight(r, bkC'[b])
  BY <1>1, <1>3, <1>5, <1>11, <1>12
     DEF CallRight, PlaceRight, InContainerKind, ContainerFields, OpenPcs, PullPcs, HostPcs, AfterPcs
<1>7. TempRight(r, bkC'[b], bkTemp'[b])
  BY <1>1, <1>3, <1>5, <1>11, <1>12
     DEF CallRight, TempRight, PlaceRight, ContainerFields, OpenPcs, PullPcs, HostPcs, AfterPcs
<1>8. PinRight(r, bkC'[b], bkPin')
  BY <1>1, <1>3, <1>5, <1>11 DEF CallRight, PinRight, PlaceRight, ContainerFields, PullPcs
<1>9. FilesRight(r, bkDir'[b], bkOut'[b])
  BY <1>1, <1>3, <1>5 DEF CallRight, FilesRight, PlaceRight, FileStamps, OpenPcs, PullPcs, HostPcs, AfterPcs
<1>10. ExitRight(r) /\ UploadRight(r, bkOut'[b], bkSig'[b])
  BY <1>1, <1>3, <1>5
     DEF CallRight, ExitRight, UploadRight, PlaceRight, FilesRight, InContainerKind, OpenPcs, PullPcs, HostPcs, AfterPcs
<1> QED BY <1>1, <1>4, <1>5, <1>6, <1>7, <1>8, <1>9, <1>10, CallMovesInv DEF CallRight

\* The temporary things go once the container is out of the way.
LEMMA RemoveTempInv == ASSUME BKInv, NEW b \in BuildCalls, RemoveTemp(b) PROVE BKInv'
PROOF
<1> DEFINE me == bkB[b]
<1>1. /\ CallRight(me, bkC[b], bkTemp[b], bkDir[b], bkOut[b], bkSig[b], bkPin)
      /\ me.pc = "tidy" \/ (me.pc = "unwind" /\ bkC[b].state = "none")
      /\ bkTemp' = [bkTemp EXCEPT ![b] = {}]
      /\ UNCHANGED <<bkTag, bkLocal, bkPin, bkC, bkDir, bkOut, bkSig, bkB>>
      /\ BKTypes
  BY CallFacts DEF RemoveTemp, TidyNow, bkImages, bkFiles, BKInv
<1>2. BKTypes' /\ CallsStay(b) /\ bkTemp'[b] = {}
  BY <1>1 DEF BKTypes, CallsStay
<1>3. TempRight(me, bkC[b], {})
  BY <1>1 DEF CallRight, TempRight, PlaceRight, PullPcs, AfterPcs
<1>4. CallRight(me, bkC[b], {}, bkDir[b], bkOut[b], bkSig[b], bkPin)
  BY <1>1, <1>3 DEF CallRight
<1> QED BY <1>1, <1>2, <1>4, CallMovesInv

\* With the container and the temporary things gone the call returns, or goes on to sign.
LEMMA PackageReturnsInv ==
  ASSUME BKInv, NEW b \in BuildCalls, PackageReturns(b)
  PROVE  BKInv'
PROOF
<1> DEFINE me == bkB[b]
           next == IF me.outcome = "ok" /\ me.kind # "metadata" /\ ~me.over THEN "sign" ELSE "returned"
           r == [me EXCEPT !.pc = next]
<1>1. /\ CallRight(me, bkC[b], bkTemp[b], bkDir[b], bkOut[b], bkSig[b], bkPin) /\ me \in CallFields
      /\ bkC[b] \in ContainerFields /\ bkDir[b] \in FileStamps /\ bkOut[b] \in FileStamps
      /\ bkSig[b] \in FileStamps /\ (me.pc = "tidy" \/ (me.pc = "unwind" /\ bkC[b].state = "none")) /\ bkTemp[b] = {}
      /\ next \in {"sign", "returned"} /\ (next = "sign" => me.outcome = "ok" /\ me.kind # "metadata")
      /\ bkB' = [bkB EXCEPT ![b] = r]
      /\ UNCHANGED <<bkTag, bkLocal, bkPin, bkC, bkTemp, bkDir, bkOut, bkSig>>
  BY CallFacts DEF PackageReturns, TidyNow, Call, bkImages, bkFiles
<1> HIDE DEF next
<1>2. r \in CallFields
  BY <1>1, Zenon DEF CallFields, OpenPcs, PullPcs, HostPcs, AfterPcs
<1>3. /\ r.pc = next /\ r.kind = me.kind /\ r.over = me.over /\ r.ref = me.ref /\ r.pinned = me.pinned
      /\ r.base = me.base /\ r.todo = me.todo /\ r.result = me.result /\ r.outcome = me.outcome
      /\ r.made = me.made /\ r.code = me.code /\ r.killed = me.killed /\ r.kept = me.kept
      /\ r.sign = me.sign /\ r.published = me.published
  BY <1>1 DEF CallFields
<1> HIDE DEF r, me
<1>4. PlaceRight(r, bkC[b])
  BY <1>1, <1>3 DEF CallRight, PlaceRight, InContainerKind, OpenPcs, PullPcs, HostPcs, AfterPcs
<1>5. TempRight(r, bkC[b], bkTemp[b]) /\ PinRight(r, bkC[b], bkPin)
  BY <1>1, <1>3 DEF CallRight, TempRight, PinRight, PlaceRight, OpenPcs, PullPcs, HostPcs, AfterPcs
<1>6. FilesRight(r, bkDir[b], bkOut[b])
  BY <1>1, <1>3 DEF CallRight, FilesRight, PlaceRight, OpenPcs, PullPcs, HostPcs, AfterPcs
<1>7. ExitRight(r) /\ UploadRight(r, bkOut[b], bkSig[b])
  BY <1>1, <1>3 DEF CallRight, ExitRight, UploadRight, PlaceRight, FilesRight, OpenPcs, PullPcs, HostPcs, AfterPcs
<1> QED BY <1>1, <1>2, <1>4, <1>5, <1>6, <1>7, RecordMovesInv DEF CallRight

\* Every package of the result is signed, or none.
LEMMA SignFilesInv ==
  ASSUME BKInv, NEW b \in BuildCalls, NEW signs \in BOOLEAN, SignFiles(b, signs)
  PROVE  BKInv'
PROOF
<1> DEFINE me == bkB[b]
           new == IF signs THEN [p \in PkgFiles |-> IF p \in me.result THEN bkOut[b][p] ELSE bkSig[b][p]] ELSE bkSig[b]
           r == [me EXCEPT !.pc = "publish", !.sign = signs]
<1>1. /\ CallRight(me, bkC[b], bkTemp[b], bkDir[b], bkOut[b], bkSig[b], bkPin) /\ me \in CallFields
      /\ bkC[b] \in ContainerFields /\ bkDir[b] \in FileStamps /\ bkOut[b] \in FileStamps
      /\ bkSig[b] \in FileStamps /\ me.pc = "sign"
      /\ bkB' = [bkB EXCEPT ![b] = r] /\ bkSig' = IF signs
                  THEN [bkSig EXCEPT ![b] = [p \in PkgFiles |-> IF p \in me.result THEN bkOut[b][p] ELSE bkSig[b][p]]]
                  ELSE bkSig
      /\ UNCHANGED <<bkTag, bkLocal, bkPin, bkC, bkTemp, bkDir, bkOut>>
      /\ BKTypes
  BY CallFacts DEF SignFiles, ToSign, Call, bkImages, bkFiles, BKInv
<1>0. /\ new \in FileStamps /\ bkSig' = [bkSig EXCEPT ![b] = new]
      /\ me.result \subseteq PkgFiles /\ (signs => \A p \in me.result : new[p] = bkOut[b][p])
  BY <1>1 DEF FileStamps, BKTypes, CallFields
<1> HIDE DEF new
<1>2. r \in CallFields
  BY <1>1, Zenon DEF CallFields, OpenPcs, PullPcs, HostPcs, AfterPcs, BKTypes
<1>3. /\ r.pc = "publish" /\ r.kind = me.kind /\ r.over = me.over /\ r.ref = me.ref /\ r.pinned = me.pinned
      /\ r.base = me.base /\ r.todo = me.todo /\ r.result = me.result /\ r.outcome = me.outcome
      /\ r.made = me.made /\ r.code = me.code /\ r.killed = me.killed /\ r.kept = me.kept /\ r.sign = signs
      /\ r.published = me.published
  BY <1>1 DEF CallFields
<1> HIDE DEF r, me
<1>4. BKTypes' /\ CallsStay(b)
  <2>1. BKTypes'
    BY <1>1, <1>2, <1>0 DEF BKTypes
  <2>2. CallsStay(b)
    BY <1>1 DEF BKTypes, CallsStay
  <2> QED BY <2>1, <2>2
<1>5. /\ bkB'[b] = r /\ bkC'[b] = bkC[b] /\ bkTemp'[b] = bkTemp[b]
      /\ bkDir'[b] = bkDir[b] /\ bkOut'[b] = bkOut[b] /\ bkSig'[b] = new
  BY <1>1, <1>0 DEF BKTypes
<1>6. PlaceRight(r, bkC'[b])
  BY <1>1, <1>3, <1>5 DEF CallRight, PlaceRight, InContainerKind, ContainerFields, OpenPcs, PullPcs, HostPcs, AfterPcs
<1>7. TempRight(r, bkC'[b], bkTemp'[b])
  BY <1>1, <1>3, <1>5 DEF CallRight, TempRight, PlaceRight, ContainerFields, OpenPcs, PullPcs, HostPcs, AfterPcs
<1>8. PinRight(r, bkC'[b], bkPin')
  BY <1>1, <1>3, <1>5 DEF CallRight, PinRight, PlaceRight, ContainerFields, PullPcs
<1>9. FilesRight(r, bkDir'[b], bkOut'[b])
  BY <1>1, <1>3, <1>5 DEF CallRight, FilesRight, PlaceRight, FileStamps, OpenPcs, PullPcs, HostPcs, AfterPcs
<1>10. ExitRight(r) /\ UploadRight(r, bkOut'[b], bkSig'[b])
  BY <1>1, <1>3, <1>5, <1>0
     DEF CallRight, ExitRight, UploadRight, PlaceRight, FilesRight, InContainerKind, OpenPcs, PullPcs, HostPcs, AfterPcs
<1> QED BY <1>1, <1>4, <1>5, <1>6, <1>7, <1>8, <1>9, <1>10, CallMovesInv DEF CallRight

\* Every package of the result is uploaded with the signature beside it.
LEMMA PublishInv ==
  ASSUME BKInv, NEW b \in BuildCalls, Publish(b)
  PROVE  BKInv'
PROOF
<1> DEFINE me == bkB[b]
           all == {[p |-> p, file |-> bkOut[b][p], sig |-> bkSig[b][p]] : p \in me.result}
           r == [me EXCEPT !.pc = "returned", !.published = all]
<1>1. /\ CallRight(me, bkC[b], bkTemp[b], bkDir[b], bkOut[b], bkSig[b], bkPin) /\ me \in CallFields
      /\ bkC[b] \in ContainerFields /\ bkDir[b] \in FileStamps /\ bkOut[b] \in FileStamps
      /\ bkSig[b] \in FileStamps /\ me.pc = "publish"
      /\ bkB' = [bkB EXCEPT ![b] = r]
      /\ UNCHANGED <<bkTag, bkLocal, bkPin, bkC, bkTemp, bkDir, bkOut, bkSig>>
  BY CallFacts DEF Publish, Call, bkImages, bkFiles
<1>0. /\ me.result \subseteq PkgFiles /\ me.outcome = "ok" /\ me.kind # "metadata"
      /\ \A p \in me.result : bkOut[b][p] = NewStamp
      /\ me.sign => \A p \in me.result : bkSig[b][p] = bkOut[b][p]
      /\ \A p \in me.result : bkOut[b][p] \in Nat /\ bkSig[b][p] \in Nat
  BY <1>1 DEF CallFields, CallRight, FilesRight, UploadRight, FileStamps
<1>11. /\ all \in SUBSET [p : PkgFiles, file : Nat, sig : Nat]
       /\ \A u \in all : u.file = NewStamp /\ (me.sign => u.sig = u.file)
  BY <1>0
<1> HIDE DEF all
<1>2. r \in CallFields
  BY <1>1, <1>11, Zenon DEF CallFields, OpenPcs, PullPcs, HostPcs, AfterPcs
<1>3. /\ r.pc = "returned" /\ r.kind = me.kind /\ r.over = me.over /\ r.ref = me.ref /\ r.pinned = me.pinned
      /\ r.base = me.base /\ r.todo = me.todo /\ r.result = me.result /\ r.outcome = me.outcome
      /\ r.made = me.made /\ r.code = me.code /\ r.killed = me.killed /\ r.kept = me.kept
      /\ r.sign = me.sign /\ r.published = all
  BY <1>1 DEF CallFields
<1> HIDE DEF r, me
<1>4. PlaceRight(r, bkC[b])
  BY <1>1, <1>3 DEF CallRight, PlaceRight, InContainerKind, OpenPcs, PullPcs, HostPcs, AfterPcs
<1>5. TempRight(r, bkC[b], bkTemp[b]) /\ PinRight(r, bkC[b], bkPin)
  BY <1>1, <1>3 DEF CallRight, TempRight, PinRight, PlaceRight, OpenPcs, PullPcs, HostPcs, AfterPcs
<1>6. FilesRight(r, bkDir[b], bkOut[b])
  BY <1>1, <1>3, <1>0 DEF CallRight, FilesRight, PlaceRight, OpenPcs, PullPcs, HostPcs, AfterPcs
<1>7. ExitRight(r) /\ UploadRight(r, bkOut[b], bkSig[b])
  BY <1>1, <1>3, <1>11
     DEF CallRight, ExitRight, UploadRight, PlaceRight, FilesRight, OpenPcs, PullPcs, HostPcs, AfterPcs
<1> QED BY <1>1, <1>2, <1>4, <1>5, <1>6, <1>7, RecordMovesInv DEF CallRight

\* Every step of the backends keeps the invariant.
LEMMA BKNextInv == ASSUME BKInv, [BKNext]_bkVars PROVE BKInv'
PROOF
<1>1. CASE TagMoves
  BY <1>1, TagMovesInv
<1>2. ASSUME NEW b \in BuildCalls, NEW k \in BuildKinds \cap {"container", "metadata"}, BeginContainer(b, k) PROVE BKInv'
  BY <1>2, BeginContainerInv
<1>3. ASSUME NEW b \in BuildCalls, NEW k \in BuildKinds \ {"container", "metadata"}, BeginOnHost(b, k) PROVE BKInv'
  BY <1>3, BeginOnHostInv
<1>4. ASSUME NEW b \in BuildCalls,
             ContextDone(b) \/ StepFails(b) \/ ImagePull(b) \/ StageOverride(b) \/ ContainerCreate(b) \/ ContainerStart(b)
      PROVE  BKInv'
  BY <1>4, ContextDoneInv, StepFailsInv, ImagePullInv, StageOverrideInv, ContainerCreateInv, ContainerStartInv
<1>5. ASSUME NEW b \in BuildCalls,
             WaitContainer(b) \/ Baseline(b) \/ PrepareHost(b) \/ CommandEnds(b) \/ MakepkgKilled(b) \/ CollectToDir(b)
      PROVE  BKInv'
  BY <1>5, WaitContainerInv, BaselineInv, PrepareHostInv, CommandEndsInv, MakepkgKilledInv, CollectToDirInv
<1>6. ASSUME NEW b \in BuildCalls, RemoveTemp(b) \/ PackageReturns(b) \/ Publish(b) \/ AfterBuildFails(b) PROVE BKInv'
  BY <1>6, RemoveTempInv, PackageReturnsInv, PublishInv, AfterBuildFailsInv
<1>7. ASSUME NEW b \in BuildCalls, NEW x \in BOOLEAN, InspectImage(b, x) \/ SignFiles(b, x) \/ ContainerRemove(b, x) PROVE BKInv'
  BY <1>7, InspectImageInv, SignFilesInv, ContainerRemoveInv
<1>8. ASSUME NEW b \in BuildCalls, NEW p \in PkgFiles, MakePackage(b, p) \/ MoveToDir(b, p) PROVE BKInv'
  BY <1>8, MakePackageInv, MoveToDirInv
<1>9. ASSUME NEW b \in BuildCalls, NEW code \in {0, 1}, MakepkgExits(b, code) PROVE BKInv'
  BY <1>9, MakepkgExitsInv
<1>10. CASE UNCHANGED bkVars
  <2>1. UNCHANGED <<bkTag, bkLocal, bkPin, bkC, bkTemp, bkDir, bkOut, bkSig, bkB>>
    BY <1>10 DEF bkVars
  <2>2. BKTypes'
    BY <2>1 DEF BKInv, BKTypes
  <2> QED BY <2>1, <2>2 DEF BKInv
<1> QED BY <1>1, <1>2, <1>3, <1>4, <1>5, <1>6, <1>7, <1>8, <1>9, <1>10 DEF BKNext

\* The invariant of the backends holds for any calls, packages and kinds.
LEMMA BKInvHolds == BKSpec => []BKInv
PROOF
<1>1. BKInit => BKInv
  BY BKInitInv
<1>2. BKInv /\ [BKNext]_bkVars => BKInv'
  BY BKNextInv
<1> QED BY <1>1, <1>2, PTL DEF BKSpec

\* For any number of calls of one backend, any packages and any failures: what a call returns, signs
\* and uploads is what makepkg made in it, a stopped build is never called failed, the digest reported
\* is the image that ran, a running container keeps its mounts, and nothing is left behind.
THEOREM BackendCorrect == BKSpec => []BackendHolds
PROOF
<1>1. ASSUME BKInv, NEW b \in BuildCalls
      PROVE  CallRight(bkB[b], bkC[b], bkTemp[b], bkDir[b], bkOut[b], bkSig[b], bkPin)
  BY <1>1 DEF BKInv
<1>2. BKInv => ResultIsThisBuild
  BY <1>1 DEF ResultIsThisBuild, CallRight, FilesRight
<1>3. BKInv => SignedIsThisBuild
  BY <1>1 DEF SignedIsThisBuild, CallRight, UploadRight
<1>4. BKInv => FailedIsDeterministic
  BY <1>1 DEF FailedIsDeterministic, CallRight, ExitRight
<1>5. BKInv => ReportedImageRan
  BY <1>1 DEF ReportedImageRan, CallRight, PinRight
<1>6. BKInv => NothingLeftBehind
  BY <1>1 DEF NothingLeftBehind, CallRight, PlaceRight, TempRight, AfterPcs
<1>7. BKInv => MountsOutliveContainer
  BY <1>1 DEF MountsOutliveContainer, CallRight, TempRight
<1>8. BKInv => BackendHolds
  BY <1>2, <1>3, <1>4, <1>5, <1>6, <1>7 DEF BackendHolds
<1> QED BY <1>8, BKInvHolds, PTL
=============================================================================
