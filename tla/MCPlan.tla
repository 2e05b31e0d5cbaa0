------------------------------- MODULE MCPlan -------------------------------
EXTENDS BuildPlan

C(n, o, v) == [name |-> n, op |-> o, ver |-> v]
P(n, v)    == [name |-> n, ver |-> v]

\* 1, 2, 3 are packages with a pkgbase of their own, 4 is only ever provided,
\* 5 is a repository package that provides it.
MCSpecs == {C(2, "any", 0), C(2, ">=", 2), C(3, "any", 0), C(4, "any", 0), C(4, ">=", 2)}
MCSeqs(S) == {<<>>} \cup {<<x>> : x \in S}
MCPairs == MCSeqs(MCSpecs)
           \cup {<<C(4, "any", 0), x>> : x \in MCSpecs} \cup {<<x, C(2, "any", 0)>> : x \in MCSpecs}

MCRepo(pkgs) == [install |-> TRUE, servers |-> <<{}, {pkgs}>>]
MCBin(n, v, prov) == [name |-> n, ver |-> v, prov |-> prov]
MCRepos ==
  {<<>>,
   <<MCRepo({MCBin(2, 1, {})}), [install |-> FALSE, servers |-> <<{}>>]>>,
   <<MCRepo({MCBin(2, 1, {})}), MCRepo({MCBin(5, 1, {P(4, 2)}), MCBin(3, 1, {})})>>,
   <<MCRepo({}), [install |-> TRUE, servers |-> <<{}, {}>>]>>}

\* What tree 2 and tree 3 provide, what the AUR's index says they do, and the
\* version it gives for 2 (the tree has 1).
MCTruth == {<<{P(4, 2)}, {}, {P(4, 2)}, {}, 1>>, <<{}, {}, {P(4, 2)}, {}, 1>>,
            <<{P(4, 2)}, {P(4, 1)}, {P(4, 2)}, {P(4, 1)}, 1>>,
            <<{P(4, 2)}, {P(4, 1)}, {}, {P(4, 1)}, 2>>}

MCPlanWorlds ==
  {[local |-> l[1], req |-> l[2],
    src |-> <<[outs |-> {1}, prov |-> {}, ver |-> 1, deps |-> d1],
              [outs |-> {2}, prov |-> t[1], ver |-> 1, deps |-> d2],
              [outs |-> {3}, prov |-> t[2], ver |-> 1, deps |-> d3]>>,
    rpc |-> {[name |-> 1, base |-> 1, ver |-> 1, prov |-> {}],
             [name |-> 2, base |-> 2, ver |-> t[5], prov |-> t[3]],
             [name |-> 3, base |-> 3, ver |-> 1, prov |-> t[4]]},
    repos |-> r] :
     l \in {<<{1}, {}>>, <<{1, 3}, {1}>>, <<{}, {1, 2}>>},
     d1 \in MCPairs, d2 \in MCSeqs({C(3, "any", 0), C(1, "any", 0)}),
     d3 \in MCSeqs({C(2, "any", 0), C(4, "any", 0)}),
     t \in MCTruth, r \in MCRepos}

=============================================================================
