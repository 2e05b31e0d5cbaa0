------------------------------- MODULE MCTrust -------------------------------
(***************************************************************************)
(* Sign-in at ayato, and kayo's trust in what it serves, one component at  *)
(* a time: the focus picks which one moves.                                *)
(***************************************************************************)
EXTENDS MCAuth, KayoSource, KayoTrust

VARIABLE focus

TrustInit ==
  /\ focus \in {"auth", "source", "trust"} /\ AuthInit /\ KSInit /\ KTInit
  /\ focus # "auth" => authScene = CHOOSE s \in AuthScenes : TRUE

\* Bounds: two catalogs, one that is served and one that replaces it or is
\* replayed; kayo is configured first; packages come and go only where a
\* catalog may vouch for them.
FewCatalogs ==
  /\ Cardinality(aurIssued') <= 2 /\ kMode' # "none"
  /\ kMode # "pinned" => aurTodo'.op = "none"

TrustNext ==
  /\ UNCHANGED focus
  /\ \/ focus = "auth" /\ AuthNext /\ UNCHANGED <<ksVars, ktVars>>
     \/ focus = "source" /\ KSNext /\ FewCatalogs /\ UNCHANGED <<authVars, ktVars>>
     \/ focus = "trust" /\ KTNext /\ UNCHANGED <<authVars, ksVars>>

TrustSpec == TrustInit /\ [][TrustNext]_<<authVars, ksVars, ktVars, focus>>
=============================================================================
