------------------------------ MODULE MCRepoDB ------------------------------
EXTENDS RepoDB, TLC

CONSTANTS w1, w2, w3

\* Packages are named by small numbers so that a batch is a sequence of versions.
Add(pkgs, expect) ==
    [kind |-> "add", pkgs |-> pkgs, check |-> TRUE, idem |-> TRUE, expect |-> expect]
Restore(pkgs, expect) ==
    [kind |-> "add", pkgs |-> pkgs, check |-> TRUE, idem |-> FALSE, expect |-> expect]
Remove(pkgs) ==
    [kind |-> "remove", pkgs |-> pkgs, check |-> FALSE, idem |-> FALSE, expect |-> Empty]
RemoveIfMatch(pkgs) ==
    [kind |-> "remove", pkgs |-> pkgs, check |-> TRUE, idem |-> FALSE, expect |-> pkgs]
InitArch ==
    [kind |-> "init", pkgs |-> Empty, check |-> FALSE, idem |-> FALSE, expect |-> Empty]
Reconcile == [InitArch EXCEPT !.kind = "reconcile"]
BackfillSignatures == [InitArch EXCEPT !.kind = "backfill"]

MCNames == 1..2
MCVersions == 1..2

Absent == {NoDB}
Present == {[live |-> TRUE, pk |-> <<1, 0>>]}
AbsentOrPresent == Absent \cup Present
Started == {[live |-> TRUE, pk |-> Empty], [live |-> TRUE, pk |-> <<1, 0>>],
            [live |-> TRUE, pk |-> <<2, 1>>], NoDB}

\* Publications of a batch and of an update, a rollback, the removals and the two
\* maintenance calls.
RaceCalls == {Add(<<1, 1>>, Empty), Add(<<2, 0>>, <<1, 0>>), Restore(<<1, 0>>, <<2, 0>>),
              Remove(<<1, 0>>), RemoveIfMatch(<<1, 0>>), InitArch, Reconcile}
\* Every writer in a process of its own; the writers are then interchangeable.
OwnProcess == [w \in Writers |-> w]
Interchangeable == Permutations(Writers)

\* One server: publications, the initialisation at start and the reconcile that
\* follows a failure.
ServerCalls == {Add(<<1, 0>>, Empty), Add(<<0, 1>>, Empty), Add(<<2, 0>>, <<1, 0>>),
                InitArch, Reconcile, BackfillSignatures}
OneProcess == [w \in Writers |-> 1]
TwoServers == w1 :> 1 @@ w2 :> 1 @@ w3 :> 2

OneAdd == {Add(<<1, 0>>, Empty)}
TwoAdds == {Add(<<1, 0>>, Empty), Add(<<0, 1>>, Empty)}
=============================================================================
