----------------------------- MODULE MCBuildSet -----------------------------
EXTENDS BuildSet

\* Three sources in a chain (3 needs 2 needs 1 and a repository package), and
\* two sources that produce the same file.
MCPlans ==
  {[order |-> <<1, 2, 3>>, deps |-> <<<<>>, <<1, 0>>, <<2>>>>,
    outs |-> <<{1}, {2}, {3}>>, ver |-> <<1, 1, 1>>],
   [order |-> <<1, 2>>, deps |-> <<<<>>, <<0>>>>,
    outs |-> <<{1, 4}, {4}>>, ver |-> <<1, 1>>]}

MCPkg(n, v, b) == [name |-> n, debug |-> FALSE, ver |-> v, base |-> b, arch |-> "target"]

\* What was declared, with a debug package, with a package missing, and with
\* the wrong version.
MCResults(plan, b) ==
  LET good == [i \in 1..Cardinality(plan.outs[b]) |->
                 MCPkg(SetToSeq(plan.outs[b])[i], plan.ver[b], b)]
  IN {good, Append(good, [good[1] EXCEPT !.debug = TRUE]), Tail(good),
      [good EXCEPT ![1].ver = 2]}
=============================================================================
