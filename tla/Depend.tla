------------------------------- MODULE Depend -------------------------------
(***************************************************************************)
(* internal/pacman/depend: version constraints, the dependency graph, the  *)
(* deterministic topological sort with its cycle report, and the resolver  *)
(* that finds the AUR packages a target needs.  Pure algorithms: TLC runs  *)
(* them on every small input and compares them with what they promise.     *)
(*                                                                         *)
(* Package names are naturals, so that < is the lexical order of the code. *)
(* A dependency specification is a parsed Constraint: a name, an operator  *)
(* and a version (a natural; VerCmp of alpm is <).                         *)
(***************************************************************************)
EXTENDS Naturals, Sequences, FiniteSets, SequencesExt

Ops == {"any", "=", ">=", "<=", ">", "<"}

\* Constraint.Satisfies.
Satisfies(c, ver) ==
  CASE c.op = "any" -> TRUE
    [] c.op = "="   -> ver = c.ver
    [] c.op = ">="  -> ver >= c.ver
    [] c.op = "<="  -> ver <= c.ver
    [] c.op = ">"   -> ver > c.ver
    [] c.op = "<"   -> ver < c.ver

(***************************************************************************)
(* TopoSort.  deps maps every name to the sequence of names it lists.      *)
(***************************************************************************)
NodeSet(nodes, deps) ==
  nodes \cup {n \in DOMAIN deps : deps[n] # <<>>}
        \cup UNION {ToSet(deps[n]) : n \in DOMAIN deps}

ListedDeps(deps, n) == IF n \in DOMAIN deps THEN ToSet(deps[n]) ELSE {}

Sorted(S) == SetToSortSeq(S, <)

\* cycleError's walk: forward edges, smallest first, until the path is
\* re-entered; emitted nodes are not walked.  <<>> when n reaches no cycle.
RECURSIVE WalkCycle(_, _, _, _)
WalkCycle(emitted, deps, n, path) ==
  LET at == {i \in DOMAIN path : path[i] = n}
      RECURSIVE First(_)
      First(nbrs) ==
        IF nbrs = <<>> THEN <<>>
        ELSE LET c == WalkCycle(emitted, deps, Head(nbrs), Append(path, n))
             IN IF c # <<>> THEN c ELSE First(Tail(nbrs))
  IN CASE at # {} -> Append(SubSeq(path, CHOOSE i \in at : TRUE, Len(path)), n)
       [] at = {} /\ n \in emitted -> <<>>
       [] OTHER -> First(Sorted(ListedDeps(deps, n)))

\* The cycle named by the error: from the smallest unemitted node that reaches one.
CycleError(set, emitted, deps) ==
  LET left == set \ emitted
      hits == {n \in left : WalkCycle(emitted, deps, n, <<>>) # <<>>}
  IN [ok |-> FALSE, order |-> <<>>,
      cycle |-> IF hits = {} THEN <<>>
                ELSE WalkCycle(emitted, deps, Min(hits), <<>>)]

\* Mutant: a node is ready when fewer than two dependencies remain.
RECURSIVE EmitEarly(_, _, _, _)
EmitEarly(set, deps, remaining, order) ==
  LET emitted == ToSet(order)
      ready == {n \in set \ emitted : remaining[n] <= 1}
  IN IF emitted = set THEN [ok |-> TRUE, order |-> order, cycle |-> <<>>]
     ELSE IF ready = {} THEN CycleError(set, emitted, deps)
     ELSE LET next == Min(ready)
          IN EmitEarly(set, deps,
                       [n \in set |-> IF next \in ListedDeps(deps, n)
                                      THEN remaining[n] - 1 ELSE remaining[n]],
                       Append(order, next))

\* The emission loop: the smallest node with nothing remaining goes next and
\* takes one off the count of each of its dependents.
RECURSIVE Emit(_, _, _, _)
Emit(set, deps, remaining, order) ==
  LET emitted == ToSet(order)
      ready == {n \in set \ emitted : remaining[n] = 0}
  IN IF emitted = set THEN [ok |-> TRUE, order |-> order, cycle |-> <<>>]
     ELSE IF ready = {} THEN CycleError(set, emitted, deps)
     ELSE LET next == Min(ready)
          IN Emit(set, deps,
                  [n \in set |-> IF next \in ListedDeps(deps, n)
                                 THEN remaining[n] - 1 ELSE remaining[n]],
                  Append(order, next))

TopoSort(nodes, deps) ==
  LET set == NodeSet(nodes, deps)
  IN Emit(set, deps, [n \in set |-> Cardinality(ListedDeps(deps, n))], <<>>)

\* NewGraph: deduplicated, sorted edges, self-loops dropped.
NewGraph(nodes, deps) ==
  LET set == NodeSet(nodes, deps)
      forward == [n \in set |-> Sorted(ListedDeps(deps, n) \ {n})]
  IN [nodes |-> set, forward |-> forward,
      reverse |-> [n \in set |-> Sorted({d \in set : n \in ToSet(forward[d])})]]

BuildOrder(graph) == TopoSort(graph.nodes, graph.forward)

(***************************************************************************)
(* Resolve: which AUR packages must be built first.  An AUR is a function  *)
(* from names to packages [name, base, ver, provides, deps] (provides a    *)
(* set of [name, ver], ver = 0 when unversioned); inRepo is the set of     *)
(* names the build environment's repositories satisfy.                     *)
(***************************************************************************)
Unsatisfied(inRepo, specs) == SelectSeq(specs, LAMBDA c : c.name \notin inRepo)

Resolved(p)  == [err |-> FALSE, pkg |-> {p}]
NotInAUR     == [err |-> FALSE, pkg |-> {}]
Unresolvable == [err |-> TRUE, pkg |-> {}]

CheckProvides(c, p) ==
  \/ c.op = "any"
  \/ \E pv \in p.provides : pv.name = c.name /\ pv.ver # 0 /\ Satisfies(c, pv.ver)

\* AURSource.Info and ProvidedBy: the package of a name, the first of its providers.
AURInfo(aur, name) == {aur[n] : n \in {k \in DOMAIN aur : aur[k].name = name}}
AURProvidedBy(aur, name) ==
  LET providers == {n \in DOMAIN aur : \E pv \in aur[n].provides : pv.name = name}
  IN IF providers = {} THEN {} ELSE {aur[Min(providers)]}

\* resolveSpec: by name, then by the first provider the search returns.
ResolveSpec(aur, c) ==
  LET named == AURInfo(aur, c.name)
      provider == AURProvidedBy(aur, c.name)
  IN IF named # {}
     THEN LET p == CHOOSE q \in named : TRUE
          IN IF Satisfies(c, p.ver) THEN Resolved(p) ELSE Unresolvable
     ELSE IF provider = {} THEN NotInAUR
     ELSE LET p == CHOOSE q \in provider : TRUE
          IN IF CheckProvides(c, p) THEN Resolved(p) ELSE Unresolvable

\* visit: post-order depth-first search over package bases; st carries the
\* colours (gray: on the current path, black: finished), the order and the error.
RECURSIVE VisitSpecs(_, _, _, _)
RECURSIVE Visit(_, _, _, _)
VisitSpecs(aur, inRepo, specs, st) ==
  IF specs = <<>> \/ st.err THEN st
  ELSE LET r == ResolveSpec(aur, Head(specs))
           after == CASE r.err -> [st EXCEPT !.err = TRUE]
                      [] ~r.err /\ r.pkg = {} -> st
                      [] OTHER -> Visit(aur, inRepo, CHOOSE p \in r.pkg : TRUE, st)
       IN VisitSpecs(aur, inRepo, Tail(specs), after)

\* Mutant: a base is appended before its dependencies are visited.
VisitBefore(aur, inRepo, p, st) ==
  CASE p.base \in st.black -> st
    [] p.base \in st.gray  -> [st EXCEPT !.err = TRUE]
    [] OTHER ->
       LET below == VisitSpecs(aur, inRepo, Unsatisfied(inRepo, p.deps),
                               [st EXCEPT !.gray = @ \cup {p.base}, !.order = Append(@, p)])
       IN IF below.err THEN below
          ELSE [below EXCEPT !.gray = @ \ {p.base}, !.black = @ \cup {p.base}]

Visit(aur, inRepo, p, st) ==
  CASE p.base \in st.black -> st
    [] p.base \in st.gray  -> [st EXCEPT !.err = TRUE]
    [] OTHER ->
       LET below == VisitSpecs(aur, inRepo, Unsatisfied(inRepo, p.deps),
                               [st EXCEPT !.gray = @ \cup {p.base}])
       IN IF below.err THEN below
          ELSE [below EXCEPT !.gray = @ \ {p.base}, !.black = @ \cup {p.base},
                             !.order = Append(@, p)]

Resolve(aur, inRepo, rootDeps) ==
  VisitSpecs(aur, inRepo, Unsatisfied(inRepo, rootDeps),
             [gray |-> {}, black |-> {}, order |-> <<>>, err |-> FALSE])
=============================================================================
