------------------------------ MODULE KVStore ------------------------------
(***************************************************************************)
(* The key-value stores under ayato: badger (transactions), a SQL table    *)
(* (one statement per call) and Workers KV (no atomic creation, listings   *)
(* that fetch each value, bulk requests of a limited size, reads that may  *)
(* still see what was overwritten), behind the decorator that encrypts     *)
(* some namespaces.                                                        *)
(*                                                                         *)
(* A value is the number of its write, so no two writes look alike.        *)
(***************************************************************************)
EXTENDS Naturals, FiniteSets

CONSTANTS KVKeys,                 \* the keys of a namespace that may be encrypted
          KVCallers, KVKinds, KVTTLs,
          CfMinTTL,               \* Workers KV refuses shorter ones
          BulkChunk,              \* keys of one bulk request
          MaxKVTime, MaxKVWrites, MaxKVFaults

\* A batch has finitely many entries, and a request takes at least one of them.
ASSUME KVStoreAssumption ==
  IsFiniteSet(KVKeys) /\ BulkChunk \in Nat \ {0} /\ KVTTLs \subseteq Nat

VARIABLES kvKind,   \* which of KVKinds
          kvRows,   \* key -> [there, ver, sealed, exp], exp 0 for never
          kvOld,    \* key -> the earlier rows an edge node may still answer with
          kvNow, kvWrites, kvFaults,
          kvBox,    \* encryption is configured
          kvSince,  \* writes before it was
          kvC       \* caller, with one call -> [pc, todo, saw, got, dup]

kvVars == <<kvKind, kvRows, kvOld, kvNow, kvWrites, kvFaults, kvBox, kvSince, kvC>>
kvSetup == <<kvKind, kvNow, kvBox, kvSince>>

NoRow == [there |-> FALSE, ver |-> 0, sealed |-> FALSE, exp |-> 0]
KVIdle == [pc |-> "idle", todo |-> {}, saw |-> {}, got |-> {}, dup |-> FALSE]

KVInit ==
  /\ kvKind \in KVKinds /\ kvRows = [k \in KVKeys |-> NoRow] /\ kvOld = [k \in KVKeys |-> {}]
  /\ kvNow = 0 /\ kvWrites = 0 /\ kvFaults = 0
  /\ kvBox = FALSE /\ kvSince = 0
  /\ kvC = [c \in KVCallers |-> KVIdle]

Live(row) == row.there /\ (row.exp = 0 \/ row.exp > kvNow)
KVCall(c, r) == kvC' = [kvC EXCEPT ![c] = r]
KVFault == kvFaults < MaxKVFaults /\ kvFaults' = kvFaults + 1

KVWrite == kvWrites < MaxKVWrites /\ kvWrites' = kvWrites + 1

\* Rows are written.  In Workers KV the former ones stay visible elsewhere for a while.
Stores(keys, row) ==
  /\ KVWrite
  /\ kvRows' = [k \in KVKeys |-> IF k \in keys THEN row ELSE kvRows[k]]
  /\ kvOld' = [k \in KVKeys |-> IF k \in keys /\ kvKind = "cf" THEN kvOld[k] \cup {kvRows[k]} ELSE kvOld[k]]

\* What a read of the key may answer; a key is settled when that is one row.
Reads(k) == {kvRows[k]} \cup kvOld[k]
Settled(k) == kvOld[k] = {}

\* Entries as they are: key and value.
Seen(keys) == {<<k, kvRows[k].ver>> : k \in keys}

\* Deviation: a batch is stored as it came.
SealBulkPlain == FALSE

\* seal, the same for Set, Add and BulkSet.
Seal == kvBox
SealBulk == Seal

\* Deviation: what is not sealed is refused.
OpenStrict(row) == IF kvBox /\ ~row.sealed THEN 0 ELSE row.ver

\* open: the value, or 0 when it cannot be had.  What was stored before encryption
\* was configured is plaintext; without encryption the decorator is not there.
Open(row) == IF row.sealed /\ ~kvBox THEN 0 ELSE row.ver

Row(sealed, ttl) ==
  [there |-> TRUE, ver |-> kvWrites + 1, sealed |-> sealed, exp |-> IF ttl = 0 THEN 0 ELSE kvNow + ttl]

\* Set.  Workers KV refuses a time to live that is too short.
KVSet(k, ttl) ==
  /\ kvKind = "cf" => ttl = 0 \/ ttl >= CfMinTTL
  /\ Stores({k}, Row(Seal, ttl))
  /\ UNCHANGED <<kvSetup, kvFaults, kvC>>

KVDelete(k) ==
  /\ kvRows[k].there
  /\ Stores({k}, [NoRow EXCEPT !.ver = kvWrites + 1])
  /\ UNCHANGED <<kvSetup, kvFaults, kvC>>

\* Add of the SQL store: one INSERT ON CONFLICT DO NOTHING.  A row that expired
\* still occupies its key.
SQLAdd(c, k, ttl) ==
  /\ kvKind = "sql" /\ kvC[c].pc = "idle" /\ ~kvRows[k].there
  /\ Stores({k}, Row(Seal, ttl))
  /\ KVCall(c, [KVIdle EXCEPT !.pc = "created", !.dup = Live(kvRows[k])])
  /\ UNCHANGED <<kvSetup, kvFaults>>

\* Add of badger: the read of the transaction; a live entry answers at once.
BadgerAddGet(c, k) ==
  /\ kvKind = "badger" /\ kvC[c].pc = "idle" /\ ~Live(kvRows[k])
  /\ KVCall(c, [KVIdle EXCEPT !.pc = "add", !.todo = {k}, !.saw = Seen({k})])
  /\ UNCHANGED <<kvSetup, kvRows, kvOld, kvWrites, kvFaults>>

\* Deviation: the commit looks at nothing.
CommitsBlind(c, k) == TRUE

\* A transaction commits when nobody wrote what it read.
Commits(c, k) == kvC[c].saw = Seen({k})

\* The commit, or its conflict, which the caller gets as an error.
BadgerAddCommit(c, k, ttl) ==
  /\ kvC[c].pc = "add" /\ k \in kvC[c].todo
  /\ IF Commits(c, k)
     THEN /\ Stores({k}, Row(Seal, ttl))
          /\ KVCall(c, [KVIdle EXCEPT !.pc = "created", !.dup = Live(kvRows[k])])
     ELSE UNCHANGED <<kvWrites, kvRows, kvOld>> /\ KVCall(c, [KVIdle EXCEPT !.pc = "failed"])
  /\ UNCHANGED <<kvSetup, kvFaults>>

\* List: badger and SQL read one snapshot; Workers KV gets the names first, those
\* that the edge node has.
ListKeys(c, names) ==
  /\ kvC[c].pc = "idle"
  /\ \A k \in KVKeys : \E row \in Reads(k) : Live(row) <=> k \in names
  /\ LET saw == Seen({k \in names : Settled(k)})
     IN KVCall(c, IF kvKind = "cf" /\ names # {}
                  THEN [KVIdle EXCEPT !.pc = "list", !.todo = names, !.saw = saw]
                  ELSE [KVIdle EXCEPT !.pc = "listed", !.saw = saw,
                                      !.got = {<<k, Open(kvRows[k])>> : k \in names}])
  /\ UNCHANGED <<kvSetup, kvRows, kvOld, kvWrites, kvFaults>>

\* Deviation: a key that is gone meanwhile ends the listing.
AfterMissEnds(me, k) == [me EXCEPT !.todo = {}]

\* A key that is gone meanwhile is left out.
AfterMiss(me, k) == [me EXCEPT !.todo = @ \ {k}]

Listed(me) == IF me.todo = {} THEN [me EXCEPT !.pc = "listed"] ELSE me

\* Its values, one request each.
ListValue(c, k) ==
  LET me == kvC[c]
  IN /\ me.pc = "list" /\ k \in me.todo
     /\ \E row \in Reads(k) :
          KVCall(c, Listed(IF ~Live(row) THEN AfterMiss(me, k)
                           ELSE [me EXCEPT !.todo = @ \ {k}, !.got = @ \cup {<<k, Open(row)>>}]))
     /\ UNCHANGED <<kvSetup, kvRows, kvOld, kvWrites, kvFaults>>

\* StorePackageFiles, per key or in bulk requests.
StoreBulk(c, keys) ==
  /\ kvC[c].pc = "idle" /\ keys # {}
  /\ KVCall(c, [KVIdle EXCEPT !.pc = "bulk", !.todo = keys, !.saw = Seen(keys)])
  /\ UNCHANGED <<kvSetup, kvRows, kvOld, kvWrites, kvFaults>>

\* Deviation: a last request that is not full is not sent.
IsChunkFull(chunk, todo) == Cardinality(chunk) = BulkChunk

\* forChunks: full requests, then what is left.
IsChunk(chunk, todo) ==
  IF kvKind # "cf" THEN Cardinality(chunk) = 1
  ELSE Cardinality(chunk) = IF Cardinality(todo) > BulkChunk THEN BulkChunk ELSE Cardinality(todo)

\* A bulk request.
BulkRequest(c, chunk) ==
  LET me == kvC[c]
  IN /\ me.pc = "bulk" /\ chunk # {} /\ IsChunk(chunk, me.todo)
     /\ Stores(chunk, Row(SealBulk, 0))
     /\ KVCall(c, [me EXCEPT !.todo = @ \ chunk])
     /\ UNCHANGED <<kvSetup, kvFaults>>

\* No request is left to send.
BulkReturns(c) ==
  /\ kvC[c].pc = "bulk" /\ ~ \E chunk \in (SUBSET kvC[c].todo) \ {{}} : IsChunk(chunk, kvC[c].todo)
  /\ KVCall(c, [kvC[c] EXCEPT !.pc = "stored", !.todo = {}])
  /\ UNCHANGED <<kvSetup, kvRows, kvOld, kvWrites, kvFaults>>

\* A request fails, and the call: what was sent stays.
KVFails(c) ==
  /\ kvC[c].pc \in {"list", "bulk", "add"} /\ kvFaults < MaxKVFaults /\ kvFaults' = kvFaults + 1
  /\ KVCall(c, [KVIdle EXCEPT !.pc = "failed"])
  /\ UNCHANGED <<kvSetup, kvRows, kvOld, kvWrites>>

\* The server restarts with an identity configured.
EnableEncryption ==
  /\ ~kvBox /\ kvBox' = TRUE /\ kvSince' = kvWrites
  /\ kvC' = [c \in KVCallers |-> KVIdle]
  /\ UNCHANGED <<kvKind, kvRows, kvOld, kvNow, kvWrites, kvFaults>>

KVClock ==
  /\ kvNow < MaxKVTime /\ kvNow' = kvNow + 1
  /\ UNCHANGED <<kvKind, kvRows, kvOld, kvWrites, kvFaults, kvBox, kvSince, kvC>>

\* The last write of a key has reached every edge node.
Propagates(k) ==
  /\ ~Settled(k) /\ kvOld' = [kvOld EXCEPT ![k] = {}]
  /\ UNCHANGED <<kvSetup, kvRows, kvWrites, kvFaults, kvC>>

KVNext ==
  \/ EnableEncryption \/ KVClock
  \/ \E k \in KVKeys : KVDelete(k) \/ Propagates(k) \/ \E ttl \in KVTTLs : KVSet(k, ttl)
  \/ \E c \in KVCallers :
       \/ \E k \in KVKeys : \/ BadgerAddGet(c, k) \/ ListValue(c, k)
                            \/ \E ttl \in KVTTLs : BadgerAddCommit(c, k, ttl) \/ SQLAdd(c, k, ttl)
       \/ \E names \in SUBSET KVKeys : ListKeys(c, names)
       \/ StoreBulk(c, KVKeys)
       \/ \E chunk \in SUBSET kvC[c].todo : BulkRequest(c, chunk)
       \/ BulkReturns(c) \/ KVFails(c)

KVSpec == KVInit /\ [][KVNext]_kvVars

\* Two callers never both create an entry that lives: when Add reports that it
\* created the key, no live entry was there.
OneCreator == \A c \in KVCallers : ~kvC[c].dup

\* A listing has every entry that was there, unchanged, from the listing's start
\* to its end, whatever was deleted and written next to it meanwhile, with the
\* value that was written.  In Workers KV, where a write may not be visible on
\* another edge node yet, that is every entry whose last write had reached all of
\* them when the listing began.
ListIsWhole ==
  \A c \in KVCallers :
    kvC[c].pc = "listed" =>
      \A e \in kvC[c].saw : (kvRows[e[1]].ver = e[2] /\ Live(kvRows[e[1]])) => e \in kvC[c].got

\* A batch that was reported stored is stored: each of its keys was written since
\* the call began.
BatchIsStored ==
  \A c \in KVCallers : kvC[c].pc = "stored" => \A e \in kvC[c].saw : kvRows[e[1]].ver > e[2]

\* Since encryption was configured everything that is written to the namespace is
\* sealed, by whichever call, and what was stored before stays readable next to it,
\* also by a read that an edge node answers with an earlier row.
SealedAtRest ==
  \A k \in KVKeys :
    /\ (kvRows[k].there /\ kvBox /\ kvRows[k].ver > kvSince) => kvRows[k].sealed
    /\ \A row \in Reads(k) : Live(row) => Open(row) = row.ver

\* The stores, as a whole: one creator, whole listings and batches, sealed values.
StoreHolds == OneCreator /\ ListIsWhole /\ BatchIsStored /\ SealedAtRest
=============================================================================
