---------------------------- MODULE DependCases ----------------------------
(***************************************************************************)
(* The algorithms of module Depend run on every input of a small world,    *)
(* each step taking one input and recording what came out.                 *)
(***************************************************************************)
EXTENDS Depend

CONSTANTS DepLists,       \* dependency lists: functions from names to sequences
          AURWorlds       \* records [aur, inRepo, roots]

VARIABLE depCase          \* the input and the result of the last call

DepInit == depCase = [kind |-> "none"]

\* TopoSort of a graph given by its dependency lists.
SortCase(lists) ==
  /\ depCase.kind = "none"
  /\ depCase' = [kind |-> "sort", deps |-> lists, result |-> TopoSort(DOMAIN lists, lists)]

\* Resolve of a target's root dependencies.
ResolveCase(w) ==
  /\ depCase.kind = "none"
  /\ depCase' = [kind |-> "resolve", world |-> w, result |-> Resolve(w.aur, w.inRepo, w.roots)]

DepNext == \/ \E lists \in DepLists : SortCase(lists)
           \/ \E w \in AURWorlds : ResolveCase(w)

Indices(s, x) == {i \in DOMAIN s : s[i] = x}

\* The orders a dependency list allows.
TopologicalOrders(deps) ==
  {s \in SetToSeqs(DOMAIN deps) :
     \A n \in DOMAIN deps : \A d \in ToSet(deps[n]) :
       \A i \in Indices(s, n), j \in Indices(s, d) : j < i}

LexLess(s, t) == \E i \in DOMAIN s : s[i] < t[i] /\ \A j \in 1..(i - 1) : s[j] = t[j]

\* TopoSort returns the lexically least of all dependency-first orders; when
\* there is none it names a cycle that is really there (its neighbours are
\* edges and it closes), self-loops and duplicate entries included.
SortIsLeastOrder ==
  depCase.kind = "sort" =>
    LET all == TopologicalOrders(depCase.deps)
        r == depCase.result
    IN IF all # {}
       THEN r.ok /\ r.order \in all /\ \A s \in all \ {r.order} : LexLess(r.order, s)
       ELSE /\ ~r.ok /\ Len(r.cycle) >= 2 /\ r.cycle[1] = r.cycle[Len(r.cycle)]
            /\ \A i \in 1..(Len(r.cycle) - 1) :
                 r.cycle[i + 1] \in ToSet(depCase.deps[r.cycle[i]])

\* What Resolve lists can be built in that order: each base once, the roots it
\* found in the AUR among them, and before each the bases of its own
\* dependencies that the repositories do not satisfy.
ResolveIsBuildable ==
  (depCase.kind = "resolve" /\ ~depCase.result.err) =>
    LET w == depCase.world
        order == depCase.result.order
        bases == [i \in DOMAIN order |-> order[i].base]
        found(specs) == UNION {ResolveSpec(w.aur, c).pkg : c \in ToSet(Unsatisfied(w.inRepo, specs))}
    IN /\ IsInjective(bases)
       /\ \A p \in found(w.roots) : Indices(bases, p.base) # {}
       /\ \A i \in DOMAIN order : \A d \in found(order[i].deps) :
            \E j \in Indices(bases, d.base) : j < i

\* The algorithms, as a whole: order and resolution are what they promise.
AlgorithmsHold == SortIsLeastOrder /\ ResolveIsBuildable
=============================================================================
