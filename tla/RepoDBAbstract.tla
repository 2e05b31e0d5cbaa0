--------------------------- MODULE RepoDBAbstract ---------------------------
(***************************************************************************)
(* What the repository database promises its callers, with no storage in   *)
(* it: the package set changes only by whole calls, each applied to the    *)
(* set as it is at that moment and only while its condition holds; a call  *)
(* that returns nil was applied, and a call that fails without the         *)
(* CanonicalCommitError marker was not.  A call whose outcome was          *)
(* ambiguous may be applied again before it returns.                       *)
(***************************************************************************)
EXTENDS PackageDB

CONSTANTS Writers, Calls

VARIABLES
    db,       \* the package set the clients see
    call,     \* what each writer was asked to do
    state,    \* where each writer is
    applied   \* the writers whose call was applied

avars == <<db, call, state, applied>>

States == {"idle", "busy", "ok", "failed", "committed", "crashed"}

AInit ==
    /\ db \in DBObject
    /\ call \in [Writers -> Calls]
    /\ state = [w \in Writers |-> "idle"]
    /\ applied = {}

Begin(w) ==
    /\ state[w] = "idle"
    /\ state' = [state EXCEPT ![w] = "busy"]
    /\ UNCHANGED <<db, call, applied>>

\* The writer may learn no more than that its call may have been applied.
Apply(w) ==
    /\ state[w] = "busy"
    /\ Allowed(call[w], db)
    /\ db' = Effect(call[w], db)
    /\ applied' = applied \cup {w}
    /\ \E r \in {"busy", "committed"} : state' = [state EXCEPT ![w] = r]
    /\ UNCHANGED call

\* Only init (the database is there already) and reconcile succeed unapplied.
End(w) ==
    /\ state[w] = "busy"
    /\ \E r \in {"ok", "failed", "committed", "crashed"} :
          /\ r = "ok" /\ call[w].kind \in {"add", "remove"} => w \in applied
          /\ r = "failed" => w \notin applied
          /\ state' = [state EXCEPT ![w] = r]
    /\ UNCHANGED <<db, call, applied>>

\* A process that dies ends every call it was working on.
Die ==
    /\ \E dead \in SUBSET {w \in Writers : state[w] = "busy"} :
          state' = [w \in Writers |-> IF w \in dead THEN "crashed" ELSE state[w]]
    /\ UNCHANGED <<db, call, applied>>

ANext == Die \/ \E w \in Writers : Begin(w) \/ Apply(w) \/ End(w)

ASpec == AInit /\ [][ANext]_avars
=============================================================================
