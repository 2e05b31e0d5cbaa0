------------------------------- MODULE MCTools -------------------------------
(***************************************************************************)
(* The build side and the stores, one component at a time: the focus picks *)
(* which one moves, the others stay where they start.                      *)
(***************************************************************************)
EXTENDS MCPlan, MCBuildSet, MCCIPipeline, DependCases, BuildBackend, BuildConfig, SigningKey, WorkerKeys,
        Migration, RateLimit, AurDeps, CIAccess

CONSTANTS q2, o1  \* a path and an object of the old pool

VARIABLE focus

\* Lists of up to two dependencies, self-loops and duplicates included.
MCLists == LET L == {<<>>} \cup {<<d>> : d \in 1..3} \cup {<<d, e>> : d \in 1..3, e \in 1..3}
           IN {<<x, y, z>> : x \in L, y \in L, z \in L}

\* 1 and 2 are one split package or two; 3 may provide the name 4.
MCAUR ==
  {[aur |-> <<[name |-> 1, base |-> 1, ver |-> 1, provides |-> {}, deps |-> d1],
              [name |-> 2, base |-> b2, ver |-> 1, provides |-> {}, deps |-> d2],
              [name |-> 3, base |-> 3, ver |-> 2, provides |-> {P(4, 1)}, deps |-> d3]>>,
    inRepo |-> r, roots |-> <<C(1, "any", 0), C(4, o, 1)>>] :
     d1 \in {<<>>, <<C(2, "any", 0)>>, <<C(3, ">=", 2), C(2, "any", 0)>>},
     d2 \in {<<>>, <<C(1, "any", 0)>>, <<C(3, ">", 2)>>, <<C(4, "any", 0)>>},
     d3 \in {<<>>, <<C(1, "any", 0)>>, <<C(2, "=", 1)>>, <<C(5, "any", 0)>>},
     b2 \in {1, 2}, r \in {{}, {1}, {2}, {3, 4}}, o \in {"any", ">=", ">"}}

\* Host configurations and what a project asks for.
MCHostRepos == {<<>>} \cup {<<r>> : r \in [name : {"core", ""}, arches : {{}}]}
MCHosts == [backend : {"", "chroot", "container", "bwrap", "odd"}, timeout : {0, 2}, repos : MCHostRepos,
            image : {"", "base"}, dockerHost : {"here"}, rootfs : {"", "root"}, archbuild : {"", "extra"},
            template : {"", "tpl"}]
MCProjects == [arches : {{}, {"x86_64"}}, archTimeout : {0, 3}, timeout : {0}, image : {"", "own"},
               microarch : {"", "v3", "v9"},
               repos : {<<>>, <<[name |-> "core", arches |-> {}]>>,
                        <<[name |-> "mine", arches |-> {"aarch64"}], [name |-> "ours", arches |-> {}]>>}]

\* A path with an object, which a later one may share, and an empty pointer.
MCPoolStart == [p \in PoolPaths |-> IF p = q2 THEN NoHash ELSE o1]

\* app needs lib and tool, tool needs lib.
MCAurNeeds == [p \in AurPkgs |-> CASE p = "lib" -> {} [] p = "tool" -> {"lib"} [] p = "app" -> {"lib", "tool"}]
MCJobNeeds == [j \in DepJobs |-> IF j = "one" THEN {"app"} ELSE {"tool"}]

\* Keys with grants, one of them listed twice; publishers pinned by id and by slug.
MCKey(k, repos, scopes) == [key |-> k, repos |-> repos, scopes |-> scopes]
MCKeyrings == {<<>>, <<MCKey("k1", {"*"}, {}), MCKey("k2", {}, {"signer:register"})>>,
               <<MCKey("k1", {"core"}, {"*"}), MCKey("k1", {"extra"}, {})>>}
MCPub(repo, id, repos) == [repository |-> repo, id |-> id, refs |-> {"main"}, repos |-> repos]
MCPublishers == {<<MCPub("me/pkgs", "7", {"core"})>>, <<MCPub("me/pkgs", "", {"*"})>>,
                 <<MCPub("me/pkgs", "7", {"extra"}), MCPub("you/pkgs", "", {"core"})>>}
MCCISettings == [keys : MCKeyrings, oidc : {TRUE}, publishers : MCPublishers, legacyBasic : BOOLEAN]
                \cup [keys : MCKeyrings, oidc : {FALSE}, publishers : {<<>>}, legacyBasic : BOOLEAN]
MCClaims == [repository : {"me/pkgs", "you/pkgs"}, id : {"7", "8"}, ref : {"main", "dev"}, event : {"push", "pull_request"}]
MCNoClaims == [repository |-> "", id |-> "", ref |-> "", event |-> ""]
MCBearers == [shape : {"jwt"}, genuine : {TRUE}, claims : MCClaims]
             \cup [shape : {"jwt"}, genuine : {FALSE}, claims : [repository : {"me/pkgs"}, id : {"7"}, ref : {"main"}, event : {"push"}]]
             \cup [shape : {"none", "own", "basic"}, genuine : {FALSE}, claims : {MCNoClaims}]
MCRequests == [apiKey : {"", "k1", "k2", "k3"}, bearer : MCBearers, admin : {"none", "cookie", "token"}]

\* Of Workers KV's callers one acts, next to what Set, Delete and the edge nodes do.
MCOneCaller == CHOOSE c \in KVCallers : TRUE

toolVars == <<planVars, buildVars, ciVars, depCase, bkVars, configCase, skVars, wkVars, mgVars, rlVars, adVars,
              ciCase, kvVars>>

ToolsInit ==
  /\ focus \in {"plan", "build", "ci", "depend", "backend", "config", "key", "worker", "migrate", "rate", "aur",
                "access", "kv"}
  /\ PlanInit /\ BuildInit /\ CIInit /\ DepInit /\ BKInit /\ ConfigInit /\ SKInit /\ WKInit
  /\ MGInit /\ RLInit /\ ADInit /\ CIAInit /\ KVInit
  /\ focus # "aur" => adHost = {}
  /\ focus # "kv" => kvKind = "sql"
  /\ focus # "rate" => rlAdder

ToolsNext ==
  /\ UNCHANGED focus
  /\ \/ focus = "plan" /\ PlanNext
        /\ UNCHANGED <<buildVars, ciVars, depCase, bkVars, configCase, skVars, wkVars, mgVars, rlVars, adVars, ciCase, kvVars>>
     \/ focus = "build" /\ BuildNext
        /\ UNCHANGED <<planVars, ciVars, depCase, bkVars, configCase, skVars, wkVars, mgVars, rlVars, adVars, ciCase, kvVars>>
     \/ focus = "ci" /\ CINext
        /\ UNCHANGED <<planVars, buildVars, depCase, bkVars, configCase, skVars, wkVars, mgVars, rlVars, adVars, ciCase, kvVars>>
     \/ focus = "depend" /\ DepNext
        /\ UNCHANGED <<planVars, buildVars, ciVars, bkVars, configCase, skVars, wkVars, mgVars, rlVars, adVars, ciCase, kvVars>>
     \/ focus = "backend" /\ BKNext
        /\ UNCHANGED <<planVars, buildVars, ciVars, depCase, configCase, skVars, wkVars, mgVars, rlVars, adVars, ciCase, kvVars>>
     \/ focus = "config" /\ ConfigNext
        /\ UNCHANGED <<planVars, buildVars, ciVars, depCase, bkVars, skVars, wkVars, mgVars, rlVars, adVars, ciCase, kvVars>>
     \/ focus = "key" /\ SKNext
        /\ UNCHANGED <<planVars, buildVars, ciVars, depCase, bkVars, configCase, wkVars, mgVars, rlVars, adVars, ciCase, kvVars>>
     \/ focus = "worker" /\ WKNext
        /\ UNCHANGED <<planVars, buildVars, ciVars, depCase, bkVars, configCase, skVars, mgVars, rlVars, adVars, ciCase, kvVars>>
     \/ focus = "migrate" /\ MGNext
        /\ UNCHANGED <<planVars, buildVars, ciVars, depCase, bkVars, configCase, skVars, wkVars, rlVars, adVars, ciCase, kvVars>>
     \/ focus = "rate" /\ RLNext
        /\ UNCHANGED <<planVars, buildVars, ciVars, depCase, bkVars, configCase, skVars, wkVars, mgVars, adVars, ciCase, kvVars>>
     \/ focus = "aur" /\ ADNext
        /\ UNCHANGED <<planVars, buildVars, ciVars, depCase, bkVars, configCase, skVars, wkVars, mgVars, rlVars, ciCase, kvVars>>
     \/ focus = "access" /\ CIANext
        /\ UNCHANGED <<planVars, buildVars, ciVars, depCase, bkVars, configCase, skVars, wkVars, mgVars, rlVars, adVars, kvVars>>
     \/ focus = "kv" /\ KVNext /\ (kvKind = "cf" => \A c \in KVCallers \ {MCOneCaller} : kvC'[c] = kvC[c])
        /\ UNCHANGED <<planVars, buildVars, ciVars, depCase, bkVars, configCase, skVars, wkVars, mgVars, rlVars, adVars, ciCase>>

\* What is computed from its input alone: the dependency algorithms and the build configuration.
DecisionsHold == AlgorithmsHold /\ ConfigHolds

ToolsSpec == ToolsInit /\ [][ToolsNext]_<<toolVars, focus>>
=============================================================================
