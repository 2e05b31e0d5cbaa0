----------------------------- MODULE MCServices -----------------------------
(***************************************************************************)
(* The services and their clients, one component at a time: the focus      *)
(* picks which one moves, the others stay where they start.                *)
(***************************************************************************)
EXTENDS ClientSession, UploadDoors, StagedUpload, Tiers, Upstream, JobStream

VARIABLES focus, rmDb, rmStored, rmObj, rmLease, rmUp, rmCalls, rmGc, rmFailures, rmCrashes

\* Settings of the upload routes, and what is sent to them.
SendPkg(files, sizes, traits) == [file : files, size : sizes, trait : traits]
SendSig(names, sizes) == [of : names, size : sizes, good : BOOLEAN]
SeqsUpTo(S, n) == UNION {[1..k -> S] : k \in 0..n}
MCForms ==
  [pkgs : SeqsUpTo(SendPkg({0, 1}, {0, 2, 3}, {"fine", "unreadable", "misnamed", "foreign", "noinfo", "protected"}), 1),
   sigs : SeqsUpTo(SendSig(0..2, 0..2), 1)]
  \cup
  [pkgs : [1..2 -> SendPkg({1, 2}, {1, 2}, {"fine", "protected"})], sigs : SeqsUpTo(SendSig({1, 2}, {1}), 2)]
MCSettings ==
  [maxSize : {0, 3}, maxBatch : {0, 2}, maxPackages : {0, 1}, requireSign : BOOLEAN,
   provenance : {TRUE}, keyring : {TRUE}]
  \cup [maxSize : {0}, maxBatch : {0}, maxPackages : {0}, requireSign : BOOLEAN, provenance : BOOLEAN, keyring : BOOLEAN]

\* A batch of two files.
MCBatches == {<<1, 2>>}

rmVars == <<rmDb, rmStored, rmObj, rmLease, rmUp, rmCalls, rmGc, rmFailures, rmCrashes>>

\* Removals and a collection of orphans, with no upload going on, from a repository
\* that is empty or has foo for any or for each architecture.
RmArches == {"x86_64", "aarch64"}
RmEntry(s) == [store |-> s, ver |-> 1, build |-> 1]
RmStart(entries) == [db |-> [a \in RmArches |-> [n \in {"foo"} |-> entries[a]]], stored |-> RmArches]
RmStarts == {RmStart([a \in RmArches |-> [store |-> "none", ver |-> 0, build |-> 0]]),
             RmStart([a \in RmArches |-> RmEntry("any")]), RmStart([a \in RmArches |-> RmEntry(a)])}
RmRequests == {[name |-> "foo", arch |-> a] : a \in RmArches \cup {"any"}}

Removing == INSTANCE Publication WITH
  Arches <- RmArches, Declared <- RmArches, NewlyDeclared <- {}, AllowNewArch <- FALSE, Names <- {"foo"},
  Versions <- {1, 2}, Listing <- <<1, 2>>, Builds <- {1}, Uploads <- {}, Batches <- {<<>>}, Starts <- {},
  Removals <- {"r1", "r2"}, Requests <- RmRequests, Collections <- {"g1"}, Published <- RmStarts,
  Leased <- TRUE, MaxFailures <- 1, MaxCrashes <- 1,
  db <- rmDb, stored <- rmStored, obj <- rmObj, lease <- rmLease, up <- rmUp, rm <- rmCalls, gc <- rmGc,
  failures <- rmFailures, crashes <- rmCrashes

\* Publication's NoDanglingEntry where removals race with each other and the collection.
RemovedIsUnlisted == Removing!NoDanglingEntry

\* One server runs all, or another one one of the publications.
MCHomes ==
  \A p \in UpProcs :
    usHome[p] # 1 => focus = "upstream" /\ p = CHOOSE q \in Publishers : TRUE

\* Staging is on or off where uploads are staged.
ServicesInit ==
  /\ focus \in {"client", "doors", "staged", "tiers", "upstream", "stream", "removal"}
  /\ CSInit /\ DoorInit /\ SUInit /\ TRInit /\ USInit /\ JSInit /\ Removing!Init
  /\ focus # "removal" => rmDb = RmStart([a \in RmArches |-> RmEntry("any")]).db /\ \A r \in DOMAIN rmCalls : rmCalls[r].req.arch = "any"
  /\ focus # "staged" => suStaging
  /\ MCHomes

ServicesNext ==
  /\ UNCHANGED focus
  /\ \/ focus = "client" /\ CSNext
        /\ UNCHANGED <<doorCase, suVars, trVars, usVars, jsVars, rmVars>>
     \/ focus = "doors" /\ DoorNext
        /\ UNCHANGED <<csVars, suVars, trVars, usVars, jsVars, rmVars>>
     \/ focus = "staged" /\ SUNext
        /\ UNCHANGED <<csVars, doorCase, trVars, usVars, jsVars, rmVars>>
     \/ focus = "tiers" /\ TRNext
        /\ UNCHANGED <<csVars, doorCase, suVars, usVars, jsVars, rmVars>>
     \/ focus = "upstream" /\ USNext
        /\ UNCHANGED <<csVars, doorCase, suVars, trVars, jsVars, rmVars>>
     \/ focus = "removal" /\ Removing!Next
        /\ UNCHANGED <<csVars, doorCase, suVars, trVars, usVars, jsVars>>
     \/ focus = "stream" /\ JSNext
        /\ UNCHANGED <<csVars, doorCase, suVars, trVars, usVars, rmVars>>

ServicesSpec ==
  ServicesInit /\ [][ServicesNext]_<<csVars, doorCase, suVars, trVars, usVars, jsVars, rmVars, focus>>
=============================================================================
