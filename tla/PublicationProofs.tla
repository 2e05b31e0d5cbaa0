-------------------------- MODULE PublicationProofs --------------------------
(***************************************************************************)
(* Proofs about publishing into a repository (Publication).                *)
(***************************************************************************)
EXTENDS Publication, NaturalsInduction, WellFoundedInduction, TLAPS

(***************************************************************************)
(* The shape of the state, whatever fails, crashes or races.               *)
(***************************************************************************)
UploadType(b) ==
  [pc : UploadPCs, batch : {b}, todo : SUBSET ((DOMAIN b \cup {0}) \X Arches),
   at : {<<>>} \cup ((DOMAIN b \cup {0}) \X Arches), existed : BOOLEAN, fill : Database,
   into : [DOMAIN b -> SUBSET Arches], old : [DOMAIN b -> [Arches -> Entry \cup {NoEntry}]],
   committed : SUBSET Arches, err : Ended]
RemovalType ==
  [pc : {"idle", "db", "check", "delete"} \cup Ended, req : [name : Names, arch : Stores],
   file : File \cup {<<>>}, todo : SUBSET Arches, known : SUBSET Arches]
CollectionType ==
  [pc : {"idle", "read", "sweep"} \cup Ended, todo : SUBSET Arches, dir : Stores \cup {"none"},
   refs : SUBSET File, any : SUBSET File]

\* The parts of a batch that go into a database, and the architectures it is concrete for.
IntoOf(r) == {t \in (DOMAIN r.batch) \X Arches : t[2] \in r.into[t[1]]}
ConcreteOf(r) == {r.batch[i].store : i \in DOMAIN r.batch} \ {"any"}

\* An entry belongs to a database only under the name of its architecture or of any, and only
\* if that database is there.
Belongs(e, a, there) == e.store \in {a, "any"} /\ a \in there

\* What a call holds between its steps: it works through databases that are there, with packages
\* that belong there, and has passed the version gate for everything it will publish.
Shaped(r, there) ==
  /\ r.pc \in {"seed", "init", "list", "fill", "commit"} => r.todo \subseteq {0} \X Arches
  /\ r.pc \in {"init", "list", "fill"} => r.at \in {0} \X Arches
  /\ r.pc = "init" => r.at \in r.todo
  /\ r.pc \in {"list", "fill"} => r.at[2] \in there
  /\ r.pc \in {"seed", "init", "list", "fill"} => ConcreteOf(r) \subseteq there \cup {t[2] : t \in r.todo}
  /\ r.pc = "fill" => \A n \in Names : r.fill[n] # NoEntry => r.fill[n].store = "any"
  /\ r.pc = "resolve" => r.todo \subseteq (DOMAIN r.batch) \X Arches
                         /\ \A t \in r.todo : Belongs(r.batch[t[1]], t[2], there)
  /\ r.pc \in {"store", "undo", "undoadd"} => r.todo \subseteq IntoOf(r)
  /\ r.pc = "undoadd" => r.at \in IntoOf(r)
  /\ \A t \in IntoOf(r) : Belongs(r.batch[t[1]], t[2], there) /\ r.old[t[1]][t[2]].ver < r.batch[t[1]].ver
  /\ \A i \in DOMAIN r.batch, a \in Arches : r.old[i][a] # NoEntry => a \in r.into[i] /\ Belongs(r.old[i][a], a, there)

Databases(d, there) ==
  /\ d \in [Arches -> Database] /\ there \subseteq Arches /\ Declared \subseteq there
  /\ \A a \in Arches, n \in Names : d[a][n] # NoEntry => Belongs(d[a][n], a, there)

Calls == Uploads \cup Starts

Shapes ==
  /\ Databases(db, stored)
  /\ obj \in [File -> Object \cup {NoObject}]
  /\ lease \in {"free"} \cup Uploads \cup Collections
  /\ DOMAIN up = Calls /\ up = [u \in Calls |-> up[u]]
  /\ \A u \in Calls : /\ up[u].batch \in Seq(Package) /\ up[u] \in UploadType(up[u].batch)
                      /\ Shaped(up[u], stored)
  /\ \A u \in Starts : up[u].batch = <<>>
  /\ rm \in [Removals -> RemovalType]
  /\ gc \in [Collections -> CollectionType]
  /\ failures \in 0 .. MaxFailures /\ crashes \in 0 .. MaxCrashes

\* The facts about the constants that most proofs need.
LEMMA ConstantFacts ==
  /\ "any" \notin Arches /\ "none" \notin Arches /\ Declared \subseteq Arches /\ NewlyDeclared \subseteq Arches
  /\ \A e \in Entry : e.ver \in Nat /\ e.ver > 0 /\ e.build # 0 /\ e # NoEntry /\ e.store \in Stores
  /\ NoEntry.ver = 0 /\ NoEntry.store = "none"
  /\ \A o \in Object : o.build # 0 /\ o.build \in Builds
  /\ NoObject.build = 0 /\ NoObject.old = FALSE
  /\ \A p \in Package : EntryOf(p) \in Entry /\ p.ver \in Nat /\ p.ver > 0 /\ p.store \in Stores /\ p.name \in Names
<1>1. /\ "any" \notin Arches /\ "none" \notin Arches /\ Declared \subseteq Arches /\ NewlyDeclared \subseteq Arches
      /\ Versions \subseteq Nat \ {0} /\ Builds \subseteq Nat \ {0}
  BY PublicationAssumption
<1>8. \A v \in Nat \ {0} : v \in Nat /\ v > 0
  OBVIOUS
<1>2. \A e \in Entry : e.ver \in Nat /\ e.ver > 0 /\ e.build # 0 /\ e # NoEntry /\ e.store \in Stores
  <2> SUFFICES ASSUME NEW e \in Entry
               PROVE  e.ver \in Nat /\ e.ver > 0 /\ e.build # 0 /\ e # NoEntry /\ e.store \in Stores
    OBVIOUS
  <2>1. e.ver \in Versions /\ e.build \in Builds /\ e.store \in Stores
    BY DEF Entry
  <2>2. NoEntry.ver = 0
    BY DEF NoEntry
  <2> QED
    BY <1>1, <1>8, <2>1, <2>2
<1>3. NoEntry.ver = 0 /\ NoEntry.store = "none"
  BY DEF NoEntry
<1>4. \A o \in Object : o.build # 0 /\ o.build \in Builds
  BY <1>1 DEF Object
<1>5. NoObject.build = 0
  BY DEF NoObject
<1>6. NoObject.old = FALSE
  BY Zenon DEF NoObject
<1>7. \A p \in Package : EntryOf(p) \in Entry /\ p.ver \in Nat /\ p.ver > 0 /\ p.store \in Stores /\ p.name \in Names
  <2> SUFFICES ASSUME NEW p \in Package
               PROVE  EntryOf(p) \in Entry /\ p.ver \in Nat /\ p.ver > 0 /\ p.store \in Stores /\ p.name \in Names
    OBVIOUS
  <2>1. p.ver \in Versions /\ p.build \in Builds /\ p.store \in Stores /\ p.name \in Names
    BY DEF Package
  <2>2. EntryOf(p) \in Entry
    BY <2>1 DEF Entry, EntryOf
  <2> QED
    BY <1>1, <1>8, <2>1, <2>2
<1> QED
  BY <1>1, <1>2, <1>3, <1>4, <1>5, <1>6, <1>7

\* More databases only help.
LEMMA ShapedFrame ==
  ASSUME NEW r, NEW there, NEW more, there \subseteq more, Shaped(r, there)
  PROVE  Shaped(r, more)
BY DEF Shaped, Belongs

\* A call that has not begun or has ended holds nothing.
LEMMA IdleShaped ==
  ASSUME NEW b \in Seq(Package), NEW res \in {"idle"} \cup Ended, NEW there
  PROVE  LET r == [Idle(b) EXCEPT !.pc = res]
         IN r \in UploadType(b) /\ r.batch = b /\ r.pc = res /\ Shaped(r, there) /\ IntoOf(r) = {} /\ r.todo = {}
<1> DEFINE r == [Idle(b) EXCEPT !.pc = res]
<1>1. NoPackage \in Database
  BY DEF NoPackage, Database
<1>2. r \in UploadType(b) /\ r.batch = b /\ r.pc = res /\ r.todo = {}
  BY <1>1 DEF Idle, UploadType, UploadPCs, Ended
<1>3. r.into = [i \in DOMAIN b |-> {}] /\ r.old = [i \in DOMAIN b |-> [a \in Arches |-> NoEntry]]
  BY DEF Idle
<1> HIDE DEF r
<1>4. IntoOf(r) = {}
  BY <1>2, <1>3 DEF IntoOf
<1>5. Shaped(r, there)
  BY <1>2, <1>3, <1>4 DEF Shaped, Ended
<1> QED
  BY <1>2, <1>4, <1>5 DEF r

\* A step of one call: what it may change, and what it keeps.
Stepped(u) ==
  /\ DOMAIN up' = Calls /\ up' = [v \in Calls |-> up'[v]] /\ \A v \in Calls : v # u => up'[v] = up[v]
  /\ up'[u].batch = up[u].batch /\ up'[u] \in UploadType(up[u].batch) /\ Shaped(up'[u], stored')
  /\ Databases(db', stored') /\ stored \subseteq stored'
  /\ obj' \in [File -> Object \cup {NoObject}]
  /\ lease' \in {"free"} \cup Uploads \cup Collections
  /\ failures' \in 0 .. MaxFailures /\ crashes' \in 0 .. MaxCrashes
  /\ UNCHANGED <<rm, gc>>

\* A step of one call that keeps its own shape keeps the shape of the state.
LEMMA SteppedShapes ==
  ASSUME Shapes, NEW u \in Calls, Stepped(u)
  PROVE  Shapes'
<1>1. ASSUME NEW v \in Calls PROVE up'[v].batch \in Seq(Package) /\ up'[v] \in UploadType(up'[v].batch) /\ Shaped(up'[v], stored')
  <2>1. CASE v = u
    BY <2>1 DEF Shapes, Stepped
  <2>2. CASE v # u
    BY <2>2, ShapedFrame DEF Shapes, Stepped
  <2> QED
    BY <2>1, <2>2
<1>2. \A v \in Starts : up'[v].batch = <<>>
  BY DEF Shapes, Stepped, Calls
<1> QED
  BY <1>1, <1>2 DEF Shapes, Stepped

\* A counted failure stays within the bound.
LEMMA FailingType ==
  ASSUME Shapes, Failing
  PROVE  failures' \in 0 .. MaxFailures
BY PublicationAssumption DEF Shapes, Failing

\* The end of a call.
LEMMA EndStep ==
  ASSUME Shapes, NEW u \in Calls, NEW res \in Ended, End(u, res), NEW there
  PROVE  /\ DOMAIN up' = Calls /\ up' = [v \in Calls |-> up'[v]] /\ \A v \in Calls : v # u => up'[v] = up[v]
         /\ up'[u].batch = up[u].batch /\ up'[u] \in UploadType(up[u].batch) /\ Shaped(up'[u], there)
         /\ up'[u].pc = res /\ IntoOf(up'[u]) = {} /\ up'[u].todo = {}
         /\ lease' \in {"free"} \cup Uploads \cup Collections
<1> DEFINE r == [Idle(up[u].batch) EXCEPT !.pc = res]
<1>1. up' = [up EXCEPT ![u] = r] /\ lease' \in {lease, "free"}
  BY DEF End, Release
<1>2. r \in UploadType(up[u].batch) /\ r.batch = up[u].batch /\ r.pc = res /\ Shaped(r, there) /\ IntoOf(r) = {} /\ r.todo = {}
  BY IdleShaped DEF Shapes
<1> HIDE DEF r
<1> QED
  BY <1>1, <1>2 DEF Shapes

(***************************************************************************)
(* Each step of an upload or of a starting server keeps the shape.         *)
(***************************************************************************)
\* What the shape says of one call.
LEMMA CallShape ==
  ASSUME Shapes, NEW u \in Calls
  PROVE  up[u] \in UploadType(up[u].batch) /\ up[u].batch \in Seq(Package) /\ Shaped(up[u], stored)
BY DEF Shapes

\* acquirePublicationLease keeps the shape.
LEMMA AcquireShapes ==
  ASSUME Shapes, NEW u \in Calls, Acquire(u)
  PROVE  Stepped(u)
<1> DEFINE r == [up[u] EXCEPT !.pc = "accept"]
<1>1. up' = [up EXCEPT ![u] = r] /\ lease' \in {"free"} \cup Uploads \cup Collections
  BY DEF Acquire, Take, Shapes
<1>2. r \in UploadType(up[u].batch) /\ r.batch = up[u].batch /\ r.pc = "accept" /\ r.into = up[u].into /\ r.old = up[u].old
  BY ZenonT(60), CallShape DEF UploadType, UploadPCs
<1> HIDE DEF r
<1>3. Shaped(r, stored)
  BY <1>2 DEF Shapes, Shaped, IntoOf
<1> QED
  BY <1>1, <1>2, <1>3 DEF Stepped, Acquire, Shapes

\* A server starts to seed the architectures that are there or declared.
LEMMA StartServerShapes ==
  ASSUME Shapes, NEW u \in Calls, StartServer(u)
  PROVE  Stepped(u)
<1>0. NewlyDeclared \cup stored \subseteq Arches
  BY ConstantFacts DEF Shapes, Databases
<1> DEFINE todo == {0} \X (NewlyDeclared \cup stored)
           r == [up[u] EXCEPT !.pc = "seed", !.todo = todo]
<1>1. up' = [up EXCEPT ![u] = r]
  BY DEF StartServer, Shapes
<1>a. todo \in SUBSET ((DOMAIN up[u].batch \cup {0}) \X Arches) /\ todo \subseteq {0} \X Arches
  BY <1>0
<1> HIDE DEF todo
<1>2. r \in UploadType(up[u].batch) /\ r.batch = up[u].batch /\ r.pc = "seed" /\ r.into = up[u].into /\ r.old = up[u].old
      /\ r.todo = todo
  <2>1. up[u] \in UploadType(up[u].batch) /\ "seed" \in UploadPCs
    BY CallShape DEF UploadPCs
  <2> QED
    BY <1>a, <2>1 DEF UploadType
<1> HIDE DEF r
<1>3. ConcreteOf(r) = {}
  <2>1. r.batch = <<>>
    BY <1>2 DEF StartServer, Shapes
  <2> QED
    BY <2>1 DEF ConcreteOf
<1>4. Shaped(r, stored)
  BY <1>2, <1>3, <1>a, CallShape DEF Shaped, IntoOf
<1> QED
  BY <1>1, <1>2, <1>4 DEF Stepped, StartServer, Shapes

\* The architectures an upload will seed are concrete ones of its batch.
LEMMA AcceptShapes ==
  ASSUME Shapes, NEW u \in Calls, Accept(u)
  PROVE  Stepped(u)
<1>1. PICK listed \in SUBSET stored : AcceptFrom(u, listed)
  BY DEF Accept
<1>2. failures' \in 0 .. MaxFailures
  BY FailingType DEF Accept, Shapes
<1>3. CASE End(u, "failed")
  BY <1>2, <1>3, EndStep DEF Stepped, Accept, Shapes, Ended
<1>4. CASE ~End(u, "failed")
  <2> DEFINE todo == IF AllowNewArch THEN {0} \X (Concrete(u) \ listed) ELSE {}
             r == [up[u] EXCEPT !.pc = "seed", !.todo = todo]
  <2>1. /\ up' = [up EXCEPT ![u] = r] /\ UNCHANGED lease
        /\ AllowNewArch \/ Concrete(u) \subseteq Declared \cup listed
    BY <1>1, <1>4 DEF AcceptFrom
  <2>2. Concrete(u) \subseteq Arches /\ Concrete(u) = ConcreteOf(up[u])
    BY ConstantFacts DEF Concrete, ConcreteOf, Items, Pkg, Shapes, Stores
  <2>3. todo \subseteq {0} \X Arches /\ Concrete(u) \subseteq stored \cup {t[2] : t \in todo}
    <3>1. Declared \cup listed \subseteq stored
      BY DEF Shapes, Databases
    <3>2. CASE AllowNewArch
      <4>1. \A a \in Concrete(u) \ listed : <<0, a>> \in todo /\ <<0, a>>[2] = a
        BY <3>2
      <4> QED
        BY <2>2, <3>1, <3>2, <4>1
    <3>3. CASE ~AllowNewArch
      BY <2>1, <3>1, <3>3
    <3> QED
      BY <3>2, <3>3
  <2> HIDE DEF todo
  <2>4. r \in UploadType(up[u].batch) /\ r.batch = up[u].batch /\ r.pc = "seed" /\ r.into = up[u].into /\ r.old = up[u].old
        /\ r.todo = todo
    <3>1. todo \in SUBSET ((DOMAIN up[u].batch \cup {0}) \X Arches)
      BY <2>3
    <3>2. up[u] \in UploadType(up[u].batch) /\ "seed" \in UploadPCs
      BY CallShape DEF UploadPCs
    <3> QED
      BY <3>1, <3>2 DEF UploadType
  <2> HIDE DEF r
  <2>5. Shaped(r, stored)
    BY <2>2, <2>3, <2>4 DEF Shapes, Shaped, IntoOf, ConcreteOf
  <2> QED
    BY <1>2, <2>1, <2>4, <2>5 DEF Stepped, Accept, Shapes
<1> QED
  BY <1>3, <1>4

\* ensureArchSeeded takes one of the architectures to seed.
LEMMA ProbeShapes ==
  ASSUME Shapes, NEW u \in Calls, Probe(u)
  PROVE  Stepped(u)
<1>a. PICK t \in up[u].todo : \/ up' = [up EXCEPT ![u].pc = "init", ![u].at = t, ![u].existed = t[2] \in stored]
                              \/ up' = [up EXCEPT ![u].pc = "init", ![u].at = t, ![u].existed = FALSE]
  BY DEF Probe
<1>1. PICK x \in BOOLEAN : up' = [up EXCEPT ![u].pc = "init", ![u].at = t, ![u].existed = x]
  <2>1. (t[2] \in stored) \in BOOLEAN /\ FALSE \in BOOLEAN
    OBVIOUS
  <2> QED
    BY <1>a, <2>1, Zenon
<1>2. failures' \in 0 .. MaxFailures
  BY FailingType DEF Probe, Shapes
<1> DEFINE r == [up[u] EXCEPT !.pc = "init", !.at = t, !.existed = x]
<1>3. up' = [up EXCEPT ![u] = r] /\ up[u].pc = "seed"
  BY <1>1 DEF Probe
<1>4. r \in UploadType(up[u].batch) /\ r.batch = up[u].batch /\ r.pc = "init" /\ r.into = up[u].into /\ r.old = up[u].old
      /\ r.at = t /\ r.todo = up[u].todo
  BY ZenonT(60), CallShape DEF UploadType, UploadPCs
<1> HIDE DEF r
<1>5. Shaped(r, stored)
  BY SMTT(30), <1>3, <1>4 DEF Shapes, Shaped, IntoOf, ConcreteOf
<1> QED
  BY <1>2, <1>3, <1>4, <1>5 DEF Stepped, Probe, Shapes

\* InitArch adds a database, and what was seeded is no longer to be seeded.
LEMMA InitArchShapes ==
  ASSUME Shapes, NEW u \in Calls, InitArch(u)
  PROVE  Stepped(u)
<1> DEFINE pc == IF up[u].existed THEN "seed" ELSE "list"
           at == IF up[u].existed THEN <<>> ELSE up[u].at
           r == [up[u] EXCEPT !.pc = pc, !.todo = up[u].todo \ {up[u].at}, !.at = at, !.existed = FALSE]
<1>1. up' = [up EXCEPT ![u] = r] /\ up[u].pc = "init" /\ stored' = stored \cup {up[u].at[2]}
  BY DEF InitArch, Shapes
<1>2. pc \in {"seed", "list"} /\ (pc = "list" => at = up[u].at) /\ at \in {<<>>, up[u].at}
  OBVIOUS
<1>3. up[u].at \in {0} \X Arches /\ up[u].at[2] \in Arches
  BY <1>1 DEF Shapes, Shaped
<1> HIDE DEF pc, at
<1>4. r \in UploadType(up[u].batch) /\ r.batch = up[u].batch /\ r.pc = pc /\ r.into = up[u].into /\ r.old = up[u].old
      /\ r.at = at /\ r.todo = up[u].todo \ {up[u].at}
  BY ZenonT(60), <1>2, CallShape DEF UploadType, UploadPCs
<1> HIDE DEF r
<1>5. Shaped(r, stored) \/ Shaped(r, stored')
  <2>1. ConcreteOf(r) \subseteq stored' \cup {t[2] : t \in r.todo}
    <3>1. ConcreteOf(up[u]) \subseteq stored \cup {t[2] : t \in up[u].todo} /\ ConcreteOf(r) = ConcreteOf(up[u])
      BY <1>1, <1>4, CallShape DEF Shaped, ConcreteOf
    <3>2. \A t \in up[u].todo : t \in r.todo \/ t[2] \in stored'
      BY <1>1, <1>4
    <3> QED
      BY <1>1, <3>1, <3>2
  <2>2. Shaped(up[u], stored')
    BY <1>1, ShapedFrame DEF Shapes
  <2> QED
    BY <1>1, <1>2, <1>3, <1>4, <2>1, <2>2 DEF Shaped, IntoOf
<1>6. Databases(db, stored')
  BY <1>1, <1>3 DEF Shapes, Databases, Belongs
<1> QED
  BY <1>1, <1>4, <1>5, <1>6, ShapedFrame DEF Stepped, InitArch, Shapes

\* A nonempty set of indices has a greatest one.
LEMMA LastIndex ==
  ASSUME NEW k \in Nat, NEW S \in SUBSET (1 .. k), S # {}
  PROVE  \E i \in S : \A j \in S : j <= i
<1> DEFINE T == {k - i : i \in S}
<1>1. T \subseteq Nat /\ T # {}
  <2>1. \A i \in S : k - i \in Nat
    OBVIOUS
  <2> QED
    BY <2>1
<1>2. IsWellFoundedOn(OpToRel(<, Nat), Nat)
  BY NatLessThanWellFounded
<1>3. PICK x \in T : \A y \in T : ~ (<<y, x>> \in OpToRel(<, Nat))
  BY <1>1, <1>2, WFMin
<1>4. \A y \in T : ~ (y < x)
  BY <1>1, <1>3 DEF OpToRel
<1>5. PICK i \in S : x = k - i
  BY <1>3
<1>6. ASSUME NEW j \in S PROVE j <= i
  <2>1. k - j \in T
    OBVIOUS
  <2>2. ~ (k - j < k - i)
    BY <1>4, <1>5, <2>1
  <2> QED
    BY <2>2
<1> QED
  BY <1>6

\* What backfillAnyInto takes for a package lies under any/, with the bytes it describes.
LEMMA LastListedType ==
  ASSUME Shapes, NEW n \in Names
  PROVE  /\ LastListed(n) \in Entry \cup {NoEntry}
         /\ LastListed(n) # NoEntry => /\ LastListed(n).store = "any"
                                       /\ obj[FileOf(n, LastListed(n))].build = LastListed(n).build
<1> DEFINE ks == {k \in DOMAIN Listing : obj[<<n, "any", Listing[k]>>].build # 0}
           last == CHOOSE k \in ks : \A j \in ks : j <= k
           e == [store |-> "any", ver |-> Listing[last], build |-> obj[<<n, "any", Listing[last]>>].build]
<1>1. LastListed(n) = IF ks = {} THEN NoEntry ELSE e
  BY DEF LastListed
<1>2. CASE ks = {}
  BY <1>1, <1>2
<1>3. CASE ks # {}
  <2>1. Len(Listing) \in Nat /\ DOMAIN Listing = 1 .. Len(Listing) /\ \A k \in DOMAIN Listing : Listing[k] \in Versions
    BY PublicationAssumption
  <2>2. ks \in SUBSET (1 .. Len(Listing))
    BY <2>1
  <2>3. \E k \in ks : \A j \in ks : j <= k
    BY <1>3, <2>1, <2>2, LastIndex
  <2>4. last \in ks
    BY <2>3
  <2> HIDE DEF last
  <2>5. Listing[last] \in Versions /\ obj[<<n, "any", Listing[last]>>].build # 0
    BY <2>1, <2>4
  <2>6. <<n, "any", Listing[last]>> \in File
    BY <2>5 DEF File, Stores
  <2>7. obj[<<n, "any", Listing[last]>>].build \in Builds
    BY <2>5, <2>6, ConstantFacts DEF Shapes
  <2>8. e \in Entry /\ FileOf(n, e) = <<n, "any", Listing[last]>>
    BY <2>5, <2>7 DEF Entry, FileOf, Stores
  <2> QED
    BY <1>1, <1>3, <2>8
<1> QED
  BY <1>2, <1>3

\* A database is rewritten with entries that belong to it.
LEMMA DatabasesRewritten ==
  ASSUME NEW d, NEW there, Databases(d, there), NEW a \in Arches, NEW new \in Database,
         \A n \in Names : new[n] # NoEntry => new[n] = d[a][n] \/ Belongs(new[n], a, there)
  PROVE  Databases([d EXCEPT ![a] = new], there)
BY DEF Databases

\* What backfillAnyInto will add lies under any.
LEMMA ListAnyShapes ==
  ASSUME Shapes, NEW u \in Calls, ListAny(u)
  PROVE  Stepped(u)
<1> DEFINE fill == [n \in Names |-> LastListed(n)]
           r == [up[u] EXCEPT !.pc = "fill", !.fill = fill]
<1>1. up' = [up EXCEPT ![u] = r] /\ up[u].pc = "list"
  BY DEF ListAny
<1>2. fill \in Database /\ \A n \in Names : fill[n] # NoEntry => fill[n].store = "any"
  BY LastListedType DEF Database
<1> HIDE DEF fill
<1>3. up[u] \in UploadType(up[u].batch) /\ "fill" \in UploadPCs
  BY CallShape DEF UploadPCs
<1>4. r \in UploadType(up[u].batch) /\ r.batch = up[u].batch /\ r.pc = "fill" /\ r.into = up[u].into /\ r.old = up[u].old
      /\ r.todo = up[u].todo /\ r.at = up[u].at /\ r.fill = fill
  BY <1>2, <1>3 DEF UploadType
<1> HIDE DEF r
<1>5. Shaped(r, stored)
  BY <1>1, <1>2, <1>4, CallShape DEF Shaped, IntoOf, ConcreteOf
<1> QED
  BY <1>1, <1>4, <1>5 DEF Stepped, ListAny, Shapes

\* What backfillAnyInto writes belongs to the architecture it seeds.
LEMMA FilledBelongs ==
  ASSUME Shapes, NEW u \in Calls, up[u].pc = "fill"
  PROVE  Databases([db EXCEPT ![up[u].at[2]] = Filled(u)], stored)
<1> DEFINE a == up[u].at[2]
           new == Filled(u)
<1>1. a \in Arches /\ a \in stored /\ \A n \in Names : up[u].fill[n] # NoEntry => up[u].fill[n].store = "any"
  BY CallShape DEF Shaped
<1>2. up[u].fill \in Database /\ db[a] \in Database
  BY <1>1, CallShape DEF UploadType, Shapes, Databases
<1>3. \A n \in Names : new[n] = (IF up[u].fill[n] = NoEntry THEN db[a][n] ELSE up[u].fill[n])
  BY DEF Filled
<1>4. new \in Database
  BY <1>2 DEF Filled, Database
<1> HIDE DEF new, a
<1>5. \A n \in Names : new[n] # NoEntry => new[n] = db[a][n] \/ Belongs(new[n], a, stored)
  BY <1>1, <1>3 DEF Belongs
<1>6. Databases([db EXCEPT ![a] = new], stored)
  BY <1>1, <1>4, <1>5, DatabasesRewritten DEF Shapes
<1> QED
  BY <1>6 DEF a, new

\* The backfilled entries belong to the database they are written to.
LEMMA BackfillShapes ==
  ASSUME Shapes, NEW u \in Calls, Backfill(u)
  PROVE  Stepped(u)
<1> DEFINE r == [up[u] EXCEPT !.pc = "seed", !.at = <<>>, !.fill = NoPackage]
<1>1. up' = [up EXCEPT ![u] = r] /\ up[u].pc = "fill"
  BY DEF Backfill
<1>2. NoPackage \in Database
  BY DEF NoPackage, Database
<1>3. up[u] \in UploadType(up[u].batch) /\ "seed" \in UploadPCs
  BY CallShape DEF UploadPCs
<1>4. r \in UploadType(up[u].batch) /\ r.batch = up[u].batch /\ r.pc = "seed" /\ r.into = up[u].into /\ r.old = up[u].old
      /\ r.todo = up[u].todo
  BY <1>2, <1>3 DEF UploadType
<1> HIDE DEF r
<1>5. Shaped(r, stored)
  BY <1>1, <1>4, CallShape DEF Shaped, IntoOf, ConcreteOf
<1>6. Databases(db', stored)
  BY <1>1, FilledBelongs DEF Backfill
<1> QED
  BY <1>1, <1>4, <1>5, <1>6 DEF Stepped, Backfill, Shapes

\* Where the packages of a batch go, once the architectures are seeded.
LEMMA SeededShapes ==
  ASSUME Shapes, NEW u \in Calls, Seeded(u)
  PROVE  Stepped(u)
<1>1. failures' \in 0 .. MaxFailures
  BY FailingType DEF Seeded, Shapes
<1>2. CASE End(u, "failed") \/ End(u, "ok")
  <2>1. PICK res \in Ended : End(u, res)
    BY <1>2 DEF Ended
  <2> QED
    BY <1>1, <2>1, EndStep DEF Stepped, Seeded, Shapes
<1>3. CASE ~(End(u, "failed") \/ End(u, "ok"))
  <2>1. PICK arches \in {RepoArches, Declared} : SeededFrom(u, arches)
    BY <1>3 DEF Seeded
  <2>2. arches \subseteq stored
    BY <2>1 DEF RepoArches, Shapes, Databases
  <2> DEFINE todo == {t \in Items(u) \X Arches : t[2] \in Targets(Pkg(u, t[1]), arches)}
             r == [up[u] EXCEPT !.pc = "resolve", !.todo = todo]
  <2>3. up' = [up EXCEPT ![u] = r] /\ up[u].pc = "seed" /\ UNCHANGED lease /\ up[u].todo = {}
    BY <1>3, <2>1 DEF SeededFrom
  <2>4. ConcreteOf(up[u]) \subseteq stored
    BY <2>3, CallShape DEF Shaped
  <2>5. todo \subseteq (DOMAIN up[u].batch) \X Arches /\ \A t \in todo : Belongs(up[u].batch[t[1]], t[2], stored)
    <3>1. todo \subseteq (DOMAIN up[u].batch) \X Arches
      BY DEF Items
    <3>2. ASSUME NEW t \in todo PROVE Belongs(up[u].batch[t[1]], t[2], stored)
      <4>1. t[1] \in DOMAIN up[u].batch /\ t[2] \in Targets(up[u].batch[t[1]], arches)
        BY <3>1 DEF Pkg
      <4>2. CASE up[u].batch[t[1]].store = "any"
        BY <2>2, <4>1, <4>2 DEF Targets, Belongs
      <4>3. CASE up[u].batch[t[1]].store # "any"
        BY <2>4, <4>1, <4>3 DEF Targets, Belongs, ConcreteOf
      <4> QED
        BY <4>2, <4>3
    <3> QED
      BY <3>1, <3>2
  <2> HIDE DEF todo
  <2>6. todo \in SUBSET ((DOMAIN up[u].batch \cup {0}) \X Arches)
    BY <2>5
  <2>7. up[u] \in UploadType(up[u].batch) /\ "resolve" \in UploadPCs
    BY CallShape DEF UploadPCs
  <2>8. r \in UploadType(up[u].batch) /\ r.batch = up[u].batch /\ r.pc = "resolve" /\ r.into = up[u].into /\ r.old = up[u].old
        /\ r.todo = todo
    BY <2>6, <2>7 DEF UploadType
  <2> HIDE DEF r
  <2>9. Shaped(r, stored)
    BY <2>5, <2>8, CallShape DEF Shaped, IntoOf
  <2> QED
    BY <1>1, <2>3, <2>8, <2>9 DEF Stepped, Seeded, Shapes
<1> QED
  BY <1>2, <1>3

\* The version gate.
LEMMA ResolveShapes ==
  ASSUME Shapes, NEW u \in Calls, Resolve(u)
  PROVE  Stepped(u)
<1>0. up[u] \in UploadType(up[u].batch) /\ up[u].batch \in Seq(Package) /\ Shaped(up[u], stored) /\ up[u].pc = "resolve"
  BY CallShape DEF Resolve
<1>1. PICK t \in up[u].todo :
         LET p == Pkg(u, t[1])
             e == Current(t[2], p)
         IN \/ End(u, "failed")
            \/ up' = [up EXCEPT ![u].todo = @ \ {t}] /\ UNCHANGED lease
            \/ /\ e.ver < p.ver
               /\ up' = [up EXCEPT ![u].todo = @ \ {t}, ![u].into[t[1]] = @ \cup {t[2]}, ![u].old[t[1]][t[2]] = e]
               /\ UNCHANGED lease
  BY DEF Resolve
<1> DEFINE i == t[1]
           a == t[2]
           e == db[a][up[u].batch[i].name]
<1>2. i \in DOMAIN up[u].batch /\ a \in Arches /\ Belongs(up[u].batch[i], a, stored) /\ t = <<i, a>>
  BY <1>0 DEF Shaped
<1>3. up[u].batch[i] \in Package /\ e \in Entry \cup {NoEntry} /\ (e # NoEntry => Belongs(e, a, stored))
  BY <1>0, <1>2, ConstantFacts DEF Shapes, Databases, Database
<1>4. CASE End(u, "failed")
  BY <1>4, EndStep DEF Stepped, Resolve, Shapes, Ended
<1>5. CASE up' = [up EXCEPT ![u].todo = @ \ {t}] /\ UNCHANGED lease
  <2> DEFINE r == [up[u] EXCEPT !.todo = up[u].todo \ {t}]
  <2>1. up' = [up EXCEPT ![u] = r]
    BY <1>5
  <2>2. r \in UploadType(up[u].batch) /\ r.batch = up[u].batch /\ r.pc = "resolve" /\ r.into = up[u].into /\ r.old = up[u].old
        /\ r.todo = up[u].todo \ {t}
    BY <1>0 DEF UploadType
  <2> HIDE DEF r
  <2>3. Shaped(r, stored)
    BY <1>0, <2>2 DEF Shaped, IntoOf
  <2> QED
    BY ZenonT(60), <1>5, <2>1, <2>2, <2>3 DEF Stepped, Resolve, Shapes
<1>6. CASE /\ e.ver < up[u].batch[i].ver
           /\ up' = [up EXCEPT ![u].todo = @ \ {t}, ![u].into[t[1]] = @ \cup {t[2]}, ![u].old[t[1]][t[2]] = e]
           /\ UNCHANGED lease
  <2> DEFINE into == [up[u].into EXCEPT ![i] = @ \cup {a}]
             old == [up[u].old EXCEPT ![i][a] = e]
             r == [up[u] EXCEPT !.todo = up[u].todo \ {t}, !.into = into, !.old = old]
  <2>1. up' = [up EXCEPT ![u] = r] /\ UNCHANGED lease
    BY <1>6
  <2>2. /\ into \in [DOMAIN up[u].batch -> SUBSET Arches]
        /\ old \in [DOMAIN up[u].batch -> [Arches -> Entry \cup {NoEntry}]]
    BY <1>0, <1>2, <1>3 DEF UploadType
  <2>3. \A j \in DOMAIN up[u].batch : into[j] = IF j = i THEN up[u].into[j] \cup {a} ELSE up[u].into[j]
    BY <1>0, <1>2 DEF UploadType
  <2>4. \A j \in DOMAIN up[u].batch, c \in Arches : old[j][c] = IF j = i /\ c = a THEN e ELSE up[u].old[j][c]
    BY <1>0, <1>2 DEF UploadType
  <2> HIDE DEF into, old, e, i, a
  <2>5. r \in UploadType(up[u].batch) /\ r.batch = up[u].batch /\ r.pc = "resolve" /\ r.into = into /\ r.old = old
        /\ r.todo = up[u].todo \ {t}
    BY <1>0, <2>2 DEF UploadType
  <2> HIDE DEF r
  <2>6. \A s \in IntoOf(r) : s \in IntoOf(up[u]) \/ s = <<i, a>>
    <3> SUFFICES ASSUME NEW s \in IntoOf(r), s \notin IntoOf(up[u])
                 PROVE  s = <<i, a>>
      OBVIOUS
    <3>1. s \in (DOMAIN up[u].batch) \X Arches /\ s[2] \in into[s[1]] /\ s[2] \notin up[u].into[s[1]]
      BY <2>5 DEF IntoOf
    <3>2. s[1] \in DOMAIN up[u].batch /\ s = <<s[1], s[2]>>
      BY <3>1
    <3>3. s[1] = i /\ s[2] = a
      BY <2>3, <3>1, <3>2
    <3> QED
      BY <3>2, <3>3
  <2>7. \A s \in IntoOf(r) : Belongs(r.batch[s[1]], s[2], stored) /\ r.old[s[1]][s[2]].ver < r.batch[s[1]].ver
    <3> SUFFICES ASSUME NEW s \in IntoOf(r)
                 PROVE  Belongs(r.batch[s[1]], s[2], stored) /\ r.old[s[1]][s[2]].ver < r.batch[s[1]].ver
      OBVIOUS
    <3>1. CASE s = <<i, a>>
      BY <1>2, <1>6, <2>4, <2>5, <3>1 DEF i, a
    <3>2. CASE s # <<i, a>>
      <4>1. s \in IntoOf(up[u]) /\ s[1] \in DOMAIN up[u].batch /\ s[2] \in Arches /\ ~(s[1] = i /\ s[2] = a)
        BY <2>6, <3>2 DEF IntoOf
      <4> QED
        BY <1>0, <2>4, <2>5, <4>1 DEF Shaped
    <3> QED
      BY <3>1, <3>2
  <2>8. \A j \in DOMAIN r.batch, c \in Arches : r.old[j][c] # NoEntry => c \in r.into[j] /\ Belongs(r.old[j][c], c, stored)
    <3> SUFFICES ASSUME NEW j \in DOMAIN up[u].batch, NEW c \in Arches, old[j][c] # NoEntry
                 PROVE  c \in into[j] /\ Belongs(old[j][c], c, stored)
      BY <2>5
    <3>1. CASE j = i /\ c = a
      BY <1>3, <2>3, <2>4, <3>1
    <3>2. CASE ~(j = i /\ c = a)
      <4>1. old[j][c] = up[u].old[j][c]
        BY <2>4, <3>2
      <4>2. c \in up[u].into[j] /\ Belongs(up[u].old[j][c], c, stored)
        BY <1>0, <4>1 DEF Shaped
      <4> QED
        BY <2>3, <4>1, <4>2
    <3> QED
      BY <3>1, <3>2
  <2>9. Shaped(r, stored)
    BY <1>0, <2>5, <2>7, <2>8 DEF Shaped
  <2> QED
    BY <2>1, <2>5, <2>9 DEF Stepped, Resolve, Shapes
<1> QED
  BY <1>1, <1>4, <1>5, <1>6 DEF Pkg, Current

\* What a call will publish, in the words of the model and of the proofs.
LEMMA IntoIs ==
  ASSUME NEW u
  PROVE  Into(u) = IntoOf(up[u])
BY DEF Into, IntoOf, Items

\* The start of a rollback.
LEMMA RollBackStep ==
  ASSUME Shapes, NEW u \in Calls, NEW err \in Ended, NEW arches \in SUBSET Arches, RollBack(u, err, arches)
  PROVE  /\ DOMAIN up' = Calls /\ up' = [v \in Calls |-> up'[v]] /\ \A v \in Calls : v # u => up'[v] = up[v]
         /\ up'[u].batch = up[u].batch /\ up'[u] \in UploadType(up[u].batch) /\ Shaped(up'[u], stored)
         /\ up'[u].pc = "undo" /\ up'[u].into = up[u].into /\ up'[u].old = up[u].old
         /\ up'[u].todo = {t \in IntoOf(up[u]) : t[2] \in arches} /\ up'[u].committed = arches /\ up'[u].err = err
         /\ lease' = lease
<1> DEFINE todo == {t \in IntoOf(up[u]) : t[2] \in arches}
           r == [up[u] EXCEPT !.pc = "undo", !.err = err, !.committed = arches, !.todo = todo]
<1>1. up' = [up EXCEPT ![u] = r] /\ lease' = lease
  BY IntoIs DEF RollBack
<1>2. todo \in SUBSET ((DOMAIN up[u].batch \cup {0}) \X Arches) /\ todo \subseteq IntoOf(up[u])
  BY DEF IntoOf
<1>a. todo = {t \in IntoOf(up[u]) : t[2] \in arches}
  OBVIOUS
<1> HIDE DEF todo
<1>3. up[u] \in UploadType(up[u].batch) /\ "undo" \in UploadPCs
  BY CallShape DEF UploadPCs
<1>4. r \in UploadType(up[u].batch) /\ r.batch = up[u].batch /\ r.pc = "undo" /\ r.into = up[u].into /\ r.old = up[u].old
      /\ r.todo = todo /\ r.committed = arches /\ r.err = err
  BY <1>2, <1>3 DEF UploadType
<1> HIDE DEF r
<1>5. IntoOf(r) = IntoOf(up[u])
  BY <1>4 DEF IntoOf
<1>6. Shaped(r, stored)
  BY <1>2, <1>4, <1>5, CallShape DEF Shaped
<1>7. DOMAIN up = Calls
  BY DEF Shapes
<1> QED
  BY <1>1, <1>4, <1>6, <1>7, <1>a

\* The copies of the replaced packages.
LEMMA CaptureShapes ==
  ASSUME Shapes, NEW u \in Calls, Capture(u)
  PROVE  Stepped(u)
<1>0. up[u] \in UploadType(up[u].batch) /\ up[u].batch \in Seq(Package) /\ Shaped(up[u], stored)
  BY CallShape
<1>1. CASE End(u, "failed")
  BY <1>1, EndStep DEF Stepped, Capture, Shapes, Ended
<1>2. CASE ~End(u, "failed")
  <2> DEFINE old == [i \in DOMAIN up[u].batch |-> [a \in Arches |->
                       IF <<i, a>> \in Replaced(u)
                       THEN [up[u].old[i][a] EXCEPT !.build = obj[OldFile(u, <<i, a>>)].build]
                       ELSE NoEntry]]
             todo == IntoOf(up[u])
             r == [up[u] EXCEPT !.pc = "store", !.todo = todo, !.old = old]
  <2>1. /\ up' = [up EXCEPT ![u] = r] /\ UNCHANGED lease
        /\ \A t \in Replaced(u) : obj[OldFile(u, t)].build # 0
    BY <1>2, IntoIs DEF Capture, Items
  <2>2. ASSUME NEW i \in DOMAIN up[u].batch, NEW a \in Arches
        PROVE  /\ old[i][a] \in Entry \cup {NoEntry} /\ (old[i][a] = NoEntry <=> up[u].old[i][a] = NoEntry)
               /\ old[i][a].ver = up[u].old[i][a].ver /\ old[i][a].store = up[u].old[i][a].store
    <3>1. up[u].old[i][a] \in Entry \cup {NoEntry}
      BY <1>0 DEF UploadType
    <3>2. <<i, a>> \in Replaced(u) <=> up[u].old[i][a] # NoEntry
      BY DEF Replaced, Items
    <3>3. CASE up[u].old[i][a] = NoEntry
      BY <3>2, <3>3
    <3>4. CASE up[u].old[i][a] # NoEntry
      <4> DEFINE b == obj[OldFile(u, <<i, a>>)].build
      <4>1. OldFile(u, <<i, a>>) \in File
        BY <1>0, <3>1, <3>4, ConstantFacts DEF OldFile, Pkg, FileOf, File, Entry
      <4>2. b \in Builds
        BY <2>1, <3>2, <3>4, <4>1, ConstantFacts DEF Shapes
      <4>3. old[i][a] = [up[u].old[i][a] EXCEPT !.build = b]
        BY <3>2, <3>4
      <4> HIDE DEF b, old
      <4>4. old[i][a] \in Entry /\ old[i][a].ver = up[u].old[i][a].ver /\ old[i][a].store = up[u].old[i][a].store
        BY <3>1, <3>4, <4>2, <4>3 DEF Entry
      <4> QED
        BY <3>4, <4>4, ConstantFacts
    <3> QED
      BY <3>3, <3>4
  <2>3. old \in [DOMAIN up[u].batch -> [Arches -> Entry \cup {NoEntry}]]
    <3>1. \A i \in DOMAIN up[u].batch : old[i] \in [Arches -> Entry \cup {NoEntry}]
      BY <2>2
    <3> QED
      BY <3>1
  <2>4. todo \in SUBSET ((DOMAIN up[u].batch \cup {0}) \X Arches)
    BY DEF IntoOf
  <2> HIDE DEF old, todo
  <2>5. r \in UploadType(up[u].batch) /\ r.batch = up[u].batch /\ r.pc = "store" /\ r.into = up[u].into /\ r.old = old
        /\ r.todo = todo
    <3>1. "store" \in UploadPCs
      BY DEF UploadPCs
    <3> QED
      BY <1>0, <2>3, <2>4, <3>1 DEF UploadType
  <2> HIDE DEF r
  <2>6. IntoOf(r) = todo /\ IntoOf(r) = IntoOf(up[u])
    BY <2>5 DEF IntoOf, todo
  <2>7. \A t \in IntoOf(r) : Belongs(r.batch[t[1]], t[2], stored) /\ r.old[t[1]][t[2]].ver < r.batch[t[1]].ver
    <3> SUFFICES ASSUME NEW t \in IntoOf(up[u])
                 PROVE  Belongs(r.batch[t[1]], t[2], stored) /\ r.old[t[1]][t[2]].ver < r.batch[t[1]].ver
      BY <2>6
    <3>1. t[1] \in DOMAIN up[u].batch /\ t[2] \in Arches
      BY DEF IntoOf
    <3> QED
      BY <1>0, <2>2, <2>5, <3>1 DEF Shaped
  <2>8. \A i \in DOMAIN r.batch, a \in Arches : r.old[i][a] # NoEntry => a \in r.into[i] /\ Belongs(r.old[i][a], a, stored)
    BY <1>0, <2>2, <2>5 DEF Shaped, Belongs
  <2>9. Shaped(r, stored)
    BY <2>5, <2>6, <2>7, <2>8 DEF Shaped
  <2> QED
    BY <2>1, <2>5, <2>9 DEF Stepped, Capture, Shapes
<1> QED
  BY <1>1, <1>2

\* An object that is stored is one.
LEMMA StoredType ==
  ASSUME Shapes, NEW f \in File, NEW b \in Builds, StoreImmutable(f, b)
  PROVE  obj' \in [File -> Object \cup {NoObject}]
<1>1. [build |-> b, old |-> FALSE] \in Object
  BY DEF Object
<1> QED
  BY <1>1 DEF StoreImmutable, Shapes

\* An object is stored, or the upload is rolled back.
LEMMA StoreObjectShapes ==
  ASSUME Shapes, NEW u \in Calls, StoreObject(u)
  PROVE  Stepped(u)
<1>0. up[u] \in UploadType(up[u].batch) /\ up[u].batch \in Seq(Package) /\ Shaped(up[u], stored) /\ up[u].pc = "store"
  BY CallShape DEF StoreObject
<1>1. CASE RollBack(u, "conflict", {}) /\ UNCHANGED obj
  <2>1. "conflict" \in Ended /\ {} \in SUBSET Arches
    BY DEF Ended
  <2> QED
    BY <1>1, <2>1, RollBackStep DEF Stepped, StoreObject, Shapes
<1>2. CASE ~(RollBack(u, "conflict", {}) /\ UNCHANGED obj)
  <2>1. PICK t \in up[u].todo :
           /\ StoreImmutable(FileOf(Pkg(u, t[1]).name, Pkg(u, t[1])), Pkg(u, t[1]).build)
           /\ up' = [up EXCEPT ![u].todo = {s \in @ : s[1] # t[1]}]
           /\ UNCHANGED lease
    BY <1>2 DEF StoreObject
  <2> DEFINE todo == {s \in up[u].todo : s[1] # t[1]}
             r == [up[u] EXCEPT !.todo = todo]
  <2>2. up' = [up EXCEPT ![u] = r]
    BY <2>1
  <2>3. t[1] \in DOMAIN up[u].batch
    BY <1>0 DEF Shaped, IntoOf
  <2>4. Pkg(u, t[1]) \in Package
    BY <1>0, <2>3 DEF Pkg
  <2>5. obj' \in [File -> Object \cup {NoObject}]
    BY <2>1, <2>4, StoredType DEF Package, FileOf, File
  <2>6. todo \subseteq up[u].todo
    OBVIOUS
  <2> HIDE DEF todo
  <2>7. r \in UploadType(up[u].batch) /\ r.batch = up[u].batch /\ r.pc = "store" /\ r.into = up[u].into /\ r.old = up[u].old
        /\ r.todo = todo
    BY <1>0, <2>6 DEF UploadType
  <2> HIDE DEF r
  <2>8. IntoOf(r) = IntoOf(up[u])
    BY <2>7 DEF IntoOf
  <2>9. Shaped(r, stored)
    BY <1>0, <2>6, <2>7, <2>8 DEF Shaped
  <2> QED
    BY <2>1, <2>2, <2>5, <2>7, <2>9 DEF Stepped, StoreObject, Shapes
<1> QED
  BY <1>1, <1>2

\* The databases to commit are the ones something goes into.
LEMMA StoredShapes ==
  ASSUME Shapes, NEW u \in Calls, Stored(u)
  PROVE  Stepped(u)
<1>0. up[u] \in UploadType(up[u].batch) /\ Shaped(up[u], stored) /\ "commit" \in UploadPCs
  BY CallShape DEF UploadPCs
<1> DEFINE todo == {0} \X {t[2] : t \in IntoOf(up[u])}
           r == [up[u] EXCEPT !.pc = "commit", !.todo = todo]
<1>1. up' = [up EXCEPT ![u] = r]
  BY IntoIs DEF Stored
<1>2. todo \subseteq {0} \X Arches
  BY DEF IntoOf
<1> HIDE DEF todo
<1>3. todo \in SUBSET ((DOMAIN up[u].batch \cup {0}) \X Arches)
  BY <1>2
<1>4. r \in UploadType(up[u].batch) /\ r.batch = up[u].batch /\ r.pc = "commit" /\ r.into = up[u].into /\ r.old = up[u].old
      /\ r.todo = todo
  BY <1>0, <1>3 DEF UploadType
<1> HIDE DEF r
<1>5. IntoOf(r) = IntoOf(up[u])
  BY <1>4 DEF IntoOf
<1>6. Shaped(r, stored)
  BY <1>0, <1>2, <1>4, <1>5 DEF Shaped
<1> QED
  BY ZenonT(60), <1>1, <1>4, <1>6 DEF Stepped, Stored, Shapes

\* What a call publishes belongs to the databases it publishes it in.
LEMMA AddedBelongs ==
  ASSUME Shapes, NEW u \in Calls, NEW a \in Arches
  PROVE  /\ Databases([db EXCEPT ![a] = Added(u, a)], stored)
         /\ Added(u, a) \in Database
         /\ \A n \in Names : \/ Added(u, a)[n] = db[a][n]
                             \/ \E i \in Batch(u, a) : /\ Pkg(u, i).name = n /\ <<i, a>> \in IntoOf(up[u])
                                                       /\ Added(u, a)[n] = EntryOf(Pkg(u, i))
<1> DEFINE new == Added(u, a)
<1>0. up[u] \in UploadType(up[u].batch) /\ up[u].batch \in Seq(Package) /\ Shaped(up[u], stored)
  BY CallShape
<1>1. ASSUME NEW n \in Names
      PROVE  \/ new[n] = db[a][n]
             \/ \E i \in Batch(u, a) : /\ Pkg(u, i).name = n /\ <<i, a>> \in IntoOf(up[u])
                                       /\ new[n] = EntryOf(Pkg(u, i))
  <2>1. CASE \E i \in Batch(u, a) : Pkg(u, i).name = n
    <3> DEFINE i == CHOOSE i \in Batch(u, a) : Pkg(u, i).name = n
    <3>1. i \in Batch(u, a) /\ Pkg(u, i).name = n
      BY <2>1
    <3>2. new[n] = EntryOf(Pkg(u, i))
      BY <2>1 DEF Added
    <3> HIDE DEF i
    <3>3. <<i, a>> \in IntoOf(up[u])
      BY <3>1 DEF Batch, IntoOf, Items
    <3> QED
      BY <3>1, <3>2, <3>3
  <2>2. CASE ~ \E i \in Batch(u, a) : Pkg(u, i).name = n
    BY <2>2 DEF Added
  <2> QED
    BY <2>1, <2>2
<1>2. new = [n \in Names |-> new[n]]
  BY DEF Added
<1> HIDE DEF new
<1>3. ASSUME NEW n \in Names
      PROVE  new[n] \in Entry \cup {NoEntry} /\ (new[n] # NoEntry => new[n] = db[a][n] \/ Belongs(new[n], a, stored))
  <2>1. CASE new[n] = db[a][n]
    BY <2>1 DEF Shapes, Databases, Database
  <2>2. CASE new[n] # db[a][n]
    <3>1. PICK i \in Batch(u, a) : <<i, a>> \in IntoOf(up[u]) /\ new[n] = EntryOf(Pkg(u, i))
      BY <1>1, <2>2
    <3>2. i \in DOMAIN up[u].batch /\ Pkg(u, i) = up[u].batch[i]
      BY <3>1 DEF Batch, Items, Pkg
    <3>3. Pkg(u, i) \in Package
      BY <1>0, <3>2
    <3>4. EntryOf(Pkg(u, i)) \in Entry /\ EntryOf(Pkg(u, i)).store = Pkg(u, i).store
      BY <3>3, ConstantFacts DEF EntryOf
    <3>5. <<i, a>>[1] = i /\ <<i, a>>[2] = a
      OBVIOUS
    <3>6. Belongs(Pkg(u, i), a, stored)
      BY <1>0, <3>1, <3>2, <3>5 DEF Shaped
    <3> QED
      BY <3>1, <3>4, <3>6 DEF Belongs
  <2> QED
    BY <2>1, <2>2
<1>4. new \in Database
  BY <1>2, <1>3 DEF Database
<1>5. Databases([db EXCEPT ![a] = new], stored)
  BY <1>3, <1>4, DatabasesRewritten DEF Shapes
<1> QED
  BY <1>1, <1>4, <1>5 DEF new

\* A call of RepoAddBatch either leaves a database alone or adds the batch.
LEMMA CommitShapes ==
  ASSUME Shapes, NEW u \in Calls, Commit(u)
  PROVE  Stepped(u)
<1>0. up[u] \in UploadType(up[u].batch) /\ Shaped(up[u], stored) /\ up[u].pc = "commit" /\ "conflict" \in Ended
  BY CallShape DEF Commit, Ended
<1>1. up[u].committed \in SUBSET Arches
  BY <1>0 DEF UploadType
<1>2. CASE RollBack(u, "conflict", up[u].committed) /\ UNCHANGED db
  BY <1>0, <1>1, <1>2, RollBackStep DEF Stepped, Commit, Shapes
<1>3. CASE ~(RollBack(u, "conflict", up[u].committed) /\ UNCHANGED db)
  <2>1. PICK t \in up[u].todo :
           /\ db' = [db EXCEPT ![t[2]] = Added(u, t[2])]
           /\ up' = [up EXCEPT ![u].todo = @ \ {t}, ![u].committed = @ \cup {t[2]}]
           /\ UNCHANGED lease
    BY <1>3 DEF Commit
  <2> DEFINE r == [up[u] EXCEPT !.todo = up[u].todo \ {t}, !.committed = up[u].committed \cup {t[2]}]
  <2>2. up' = [up EXCEPT ![u] = r]
    BY <2>1
  <2>3. t[2] \in Arches
    BY <1>0 DEF Shaped
  <2>4. r \in UploadType(up[u].batch) /\ r.batch = up[u].batch /\ r.pc = "commit" /\ r.into = up[u].into /\ r.old = up[u].old
        /\ r.todo = up[u].todo \ {t}
    BY <1>0, <2>3 DEF UploadType
  <2> HIDE DEF r
  <2>5. IntoOf(r) = IntoOf(up[u])
    BY <2>4 DEF IntoOf
  <2>6. Shaped(r, stored)
    BY <1>0, <2>4, <2>5 DEF Shaped
  <2>7. Databases(db', stored)
    BY <2>1, <2>3, AddedBelongs
  <2> QED
    BY <2>1, <2>2, <2>4, <2>6, <2>7 DEF Stepped, Commit, Shapes
<1> QED
  BY <1>2, <1>3

\* A failed commit leads to a rollback, whether it happened or not.
LEMMA CommitFailsShapes ==
  ASSUME Shapes, NEW u \in Calls, CommitFails(u)
  PROVE  Stepped(u)
<1>0. up[u] \in UploadType(up[u].batch) /\ Shaped(up[u], stored) /\ up[u].pc = "commit" /\ "failed" \in Ended
  BY CallShape DEF CommitFails, Ended
<1>1. failures' \in 0 .. MaxFailures
  BY FailingType DEF CommitFails
<1>2. PICK t \in up[u].todo :
         /\ RollBack(u, "failed", up[u].committed) \/ RollBack(u, "failed", up[u].committed \cup {t[2]})
         /\ UNCHANGED db \/ db' = [db EXCEPT ![t[2]] = Added(u, t[2])]
  BY DEF CommitFails
<1>3. t[2] \in Arches
  BY <1>0 DEF Shaped
<1>4. PICK arches \in SUBSET Arches : RollBack(u, "failed", arches)
  BY <1>0, <1>2, <1>3 DEF UploadType
<1>5. Databases(db', stored)
  <2>1. Databases([db EXCEPT ![t[2]] = Added(u, t[2])], stored) /\ Databases(db, stored)
    BY <1>3, AddedBelongs DEF Shapes
  <2> QED
    BY <1>2, <2>1
<1> QED
  BY <1>0, <1>1, <1>4, <1>5, RollBackStep DEF Stepped, CommitFails, Shapes

\* All databases are committed.
LEMMA CommittedShapes ==
  ASSUME Shapes, NEW u \in Calls, Committed(u)
  PROVE  Stepped(u)
<1>0. up[u] \in UploadType(up[u].batch) /\ Shaped(up[u], stored) /\ "names" \in UploadPCs
  BY CallShape DEF UploadPCs
<1> DEFINE r == [up[u] EXCEPT !.pc = "names"]
<1>1. up' = [up EXCEPT ![u] = r]
  BY DEF Committed
<1>2. r \in UploadType(up[u].batch) /\ r.batch = up[u].batch /\ r.pc = "names" /\ r.into = up[u].into /\ r.old = up[u].old
  BY <1>0 DEF UploadType
<1> HIDE DEF r
<1>3. Shaped(r, stored)
  BY <1>0, <1>2 DEF Shaped, IntoOf
<1> QED
  BY <1>1, <1>2, <1>3 DEF Stepped, Committed, Shapes

\* The upload is acknowledged or rolled back.
LEMMA StoreNamesShapes ==
  ASSUME Shapes, NEW u \in Calls, StoreNames(u)
  PROVE  Stepped(u)
<1>0. up[u].committed \in SUBSET Arches /\ "failed" \in Ended /\ "ok" \in Ended
  BY CallShape DEF UploadType, Ended
<1>1. failures' \in 0 .. MaxFailures
  BY FailingType DEF StoreNames, Shapes
<1>2. CASE End(u, "ok")
  BY <1>0, <1>1, <1>2, EndStep DEF Stepped, StoreNames, Shapes
<1>3. CASE RollBack(u, "failed", up[u].committed)
  BY <1>0, <1>1, <1>3, RollBackStep DEF Stepped, StoreNames, Shapes
<1> QED
  BY <1>2, <1>3 DEF StoreNames

\* A failure before the commit.
LEMMA UploadFailsShapes ==
  ASSUME Shapes, NEW u \in Calls, UploadFails(u)
  PROVE  Stepped(u)
<1>0. {} \in SUBSET Arches /\ "failed" \in Ended
  BY DEF Ended
<1>1. failures' \in 0 .. MaxFailures
  BY FailingType DEF UploadFails
<1>2. CASE up[u].pc = "store"
  <2>1. RollBack(u, "failed", {}) /\ UNCHANGED <<db, stored>>
    BY <1>2 DEF UploadFails
  <2> QED
    BY <1>0, <1>1, <2>1, RollBackStep DEF Stepped, UploadFails, Shapes
<1>3. CASE up[u].pc # "store"
  <2>1. End(u, "failed")
    BY <1>3 DEF UploadFails
  <2>2. stored \subseteq stored' /\ Databases(db', stored')
    <3>1. CASE up[u].pc = "init"
      <4>1. up[u].at[2] \in Arches
        BY <3>1, CallShape DEF Shaped
      <4>2. stored' \in {stored, stored \cup {up[u].at[2]}} /\ db' = db
        BY <3>1 DEF UploadFails
      <4> QED
        BY <4>1, <4>2 DEF Shapes, Databases, Belongs
    <3>2. CASE up[u].pc = "fill"
      <4>1. stored' = stored /\ (db' = db \/ db' = [db EXCEPT ![up[u].at[2]] = Filled(u)])
        BY <3>2 DEF UploadFails
      <4> QED
        BY <3>2, <4>1, FilledBelongs DEF Shapes
    <3>3. CASE up[u].pc \notin {"init", "fill"}
      BY <3>3 DEF UploadFails, Shapes
    <3> QED
      BY <3>1, <3>2, <3>3
  <2> QED
    BY <1>0, <1>1, <2>1, <2>2, EndStep DEF Stepped, UploadFails, Shapes
<1> QED
  BY <1>2, <1>3

\* One entry of a database is put back or taken out.
LEMMA EntryRewritten ==
  ASSUME Shapes, NEW a \in Arches, NEW n \in Names, NEW e \in Entry \cup {NoEntry},
         e # NoEntry => Belongs(e, a, stored)
  PROVE  Databases([db EXCEPT ![a][n] = e], stored)
<1> DEFINE new == [db[a] EXCEPT ![n] = e]
<1>1. new \in Database /\ \A m \in Names : new[m] = IF m = n THEN e ELSE db[a][m]
  BY DEF Shapes, Databases, Database
<1>2. [db EXCEPT ![a][n] = e] = [db EXCEPT ![a] = new]
  OBVIOUS
<1> HIDE DEF new
<1>3. \A m \in Names : new[m] # NoEntry => new[m] = db[a][m] \/ Belongs(new[m], a, stored)
  BY <1>1
<1> QED
  BY <1>1, <1>2, <1>3, DatabasesRewritten DEF Shapes

\* A rollback has dealt with a part of what it undoes.
LEMMA UndoneOne ==
  ASSUME Shapes, NEW u \in Calls, up[u].pc \in {"undo", "undoadd"}, NEW t, NEW at \in {<<>>, up[u].at},
         up' = [up EXCEPT ![u] = [up[u] EXCEPT !.pc = "undo", !.todo = up[u].todo \ {t}, !.at = at]]
  PROVE  /\ DOMAIN up' = Calls /\ up' = [v \in Calls |-> up'[v]] /\ \A v \in Calls : v # u => up'[v] = up[v]
         /\ up'[u].batch = up[u].batch /\ up'[u] \in UploadType(up[u].batch) /\ Shaped(up'[u], stored)
         /\ up'[u].pc = "undo" /\ up'[u].into = up[u].into /\ up'[u].old = up[u].old /\ up'[u].todo = up[u].todo \ {t}
         /\ up'[u].committed = up[u].committed /\ up'[u].err = up[u].err
<1> DEFINE r == [up[u] EXCEPT !.pc = "undo", !.todo = up[u].todo \ {t}, !.at = at]
<1>1. up[u] \in UploadType(up[u].batch) /\ "undo" \in UploadPCs
  BY CallShape DEF UploadPCs
<1>2. r \in UploadType(up[u].batch) /\ r.batch = up[u].batch /\ r.pc = "undo" /\ r.into = up[u].into /\ r.old = up[u].old
      /\ r.todo = up[u].todo \ {t} /\ r.committed = up[u].committed /\ r.err = up[u].err
  BY <1>1 DEF UploadType
<1>3. up' = [up EXCEPT ![u] = r] /\ DOMAIN up = Calls
  BY DEF Shapes
<1> HIDE DEF r
<1>4. IntoOf(r) = IntoOf(up[u])
  BY <1>2 DEF IntoOf
<1>5. Shaped(r, stored)
  BY <1>2, <1>4, CallShape DEF Shaped
<1> QED
  BY <1>2, <1>3, <1>5

\* A rollback removes an entry.
LEMMA UndoNewShapes ==
  ASSUME Shapes, NEW u \in Calls, UndoNew(u)
  PROVE  Stepped(u)
<1>0. up[u] \in UploadType(up[u].batch) /\ up[u].batch \in Seq(Package) /\ Shaped(up[u], stored) /\ up[u].pc = "undo"
  BY CallShape DEF UndoNew
<1>1. PICK t \in up[u].todo :
         /\ db' \in {db, [db EXCEPT ![t[2]][Pkg(u, t[1]).name] = NoEntry]}
         /\ up' = [up EXCEPT ![u].todo = @ \ {t}]
  BY DEF UndoNew
<1>2. t[1] \in DOMAIN up[u].batch /\ t[2] \in Arches
  BY <1>0 DEF Shaped, IntoOf
<1>3. Pkg(u, t[1]).name \in Names
  BY <1>0, <1>2, ConstantFacts DEF Pkg
<1>4. Databases([db EXCEPT ![t[2]][Pkg(u, t[1]).name] = NoEntry], stored) /\ Databases(db, stored)
  BY <1>2, <1>3, EntryRewritten DEF Shapes
<1>5. Databases(db', stored)
  BY <1>1, <1>4
<1>6. [up[u] EXCEPT !.todo = up[u].todo \ {t}] = [up[u] EXCEPT !.pc = "undo", !.todo = up[u].todo \ {t}, !.at = up[u].at]
  BY <1>0 DEF UploadType
<1>7. up' = [up EXCEPT ![u] = [up[u] EXCEPT !.pc = "undo", !.todo = up[u].todo \ {t}, !.at = up[u].at]]
  BY <1>1, <1>6
<1> QED
  BY <1>0, <1>5, <1>7, UndoneOne DEF Stepped, UndoNew, Shapes

\* A replaced package goes back with the bytes that were copied.
LEMMA UndoStoreShapes ==
  ASSUME Shapes, NEW u \in Calls, UndoStore(u)
  PROVE  Stepped(u)
<1>0. up[u] \in UploadType(up[u].batch) /\ up[u].batch \in Seq(Package) /\ Shaped(up[u], stored) /\ up[u].pc = "undo"
  BY CallShape DEF UndoStore
<1>1. PICK t \in up[u].todo :
         LET old == up[u].old[t[1]][t[2]]
             f == OldFile(u, t)
         IN /\ old # NoEntry
            /\ \/ StoreImmutable(f, old.build) /\ up' = [up EXCEPT ![u].pc = "undoadd", ![u].at = t]
               \/ up' = [up EXCEPT ![u].todo = @ \ {t}] /\ UNCHANGED obj
  BY DEF UndoStore
<1>2. t \in IntoOf(up[u]) /\ t[1] \in DOMAIN up[u].batch /\ t[2] \in Arches
  BY <1>0 DEF Shaped, IntoOf
<1>3. CASE up' = [up EXCEPT ![u].todo = @ \ {t}] /\ UNCHANGED obj
  <2>1. [up[u] EXCEPT !.todo = up[u].todo \ {t}] = [up[u] EXCEPT !.pc = "undo", !.todo = up[u].todo \ {t}, !.at = up[u].at]
    BY <1>0 DEF UploadType
  <2>2. up' = [up EXCEPT ![u] = [up[u] EXCEPT !.pc = "undo", !.todo = up[u].todo \ {t}, !.at = up[u].at]]
    BY <1>3, <2>1
  <2> QED
    BY <1>0, <1>3, <2>2, UndoneOne DEF Stepped, UndoStore, Shapes
<1>4. CASE /\ StoreImmutable(OldFile(u, t), up[u].old[t[1]][t[2]].build)
           /\ up' = [up EXCEPT ![u].pc = "undoadd", ![u].at = t]
  <2> DEFINE r == [up[u] EXCEPT !.pc = "undoadd", !.at = t]
  <2>1. up' = [up EXCEPT ![u] = r] /\ "undoadd" \in UploadPCs
    BY <1>4 DEF UploadPCs
  <2>2. r \in UploadType(up[u].batch) /\ r.batch = up[u].batch /\ r.pc = "undoadd" /\ r.into = up[u].into /\ r.old = up[u].old
        /\ r.todo = up[u].todo /\ r.at = t
    BY <1>0, <2>1 DEF UploadType
  <2> HIDE DEF r
  <2>3. IntoOf(r) = IntoOf(up[u])
    BY <2>2 DEF IntoOf
  <2>4. Shaped(r, stored)
    BY <1>0, <1>2, <2>2, <2>3 DEF Shaped
  <2>5. up[u].old[t[1]][t[2]] \in Entry
    BY <1>0, <1>1, <1>2 DEF UploadType
  <2>6. OldFile(u, t) \in File /\ up[u].old[t[1]][t[2]].build \in Builds
    BY <1>0, <1>2, <2>5, ConstantFacts DEF OldFile, FileOf, Pkg, File, Entry
  <2>7. obj' \in [File -> Object \cup {NoObject}]
    BY <1>4, <2>6, StoredType
  <2> QED
    BY <2>1, <2>2, <2>4, <2>7 DEF Stepped, UndoStore, Shapes
<1> QED
  BY <1>1, <1>3, <1>4

\* A rollback puts an entry back, and it belongs there.
LEMMA UndoAddShapes ==
  ASSUME Shapes, NEW u \in Calls, UndoAdd(u)
  PROVE  Stepped(u)
<1> DEFINE t == up[u].at
           old == up[u].old[t[1]][t[2]]
<1>0. up[u] \in UploadType(up[u].batch) /\ up[u].batch \in Seq(Package) /\ Shaped(up[u], stored) /\ up[u].pc = "undoadd"
  BY CallShape DEF UndoAdd
<1>1. /\ db' \in {db, [db EXCEPT ![t[2]][Pkg(u, t[1]).name] = old]}
      /\ up' = [up EXCEPT ![u] = [up[u] EXCEPT !.pc = "undo", !.todo = up[u].todo \ {t}, !.at = <<>>]]
  BY DEF UndoAdd
<1>2. t[1] \in DOMAIN up[u].batch /\ t[2] \in Arches
  BY <1>0 DEF Shaped, IntoOf
<1>3. Pkg(u, t[1]).name \in Names
  BY <1>0, <1>2, ConstantFacts DEF Pkg
<1>4. old \in Entry \cup {NoEntry} /\ (old # NoEntry => Belongs(old, t[2], stored))
  BY <1>0, <1>2 DEF UploadType, Shaped
<1> HIDE DEF t, old
<1>5. Databases([db EXCEPT ![t[2]][Pkg(u, t[1]).name] = old], stored) /\ Databases(db, stored)
  BY <1>2, <1>3, <1>4, EntryRewritten DEF Shapes
<1>6. Databases(db', stored)
  BY <1>1, <1>5
<1>7. /\ DOMAIN up' = Calls /\ up' = [v \in Calls |-> up'[v]] /\ \A v \in Calls : v # u => up'[v] = up[v]
      /\ up'[u].batch = up[u].batch /\ up'[u] \in UploadType(up[u].batch) /\ Shaped(up'[u], stored)
  BY <1>0, <1>1, UndoneOne
<1> QED
  BY <1>6, <1>7 DEF Stepped, UndoAdd, Shapes

\* A restore that failed is passed over.
LEMMA UndoFailsShapes ==
  ASSUME Shapes, NEW u \in Calls, UndoFails(u)
  PROVE  Stepped(u)
<1>1. PICK t : up' = [up EXCEPT ![u] = [up[u] EXCEPT !.pc = "undo", !.todo = up[u].todo \ {t}, !.at = <<>>]]
  BY DEF UndoFails
<1>2. up[u].pc \in {"undo", "undoadd"} /\ failures' \in 0 .. MaxFailures
  BY FailingType DEF UndoFails
<1> QED
  BY <1>1, <1>2, UndoneOne DEF Stepped, UndoFails, Shapes

\* A rollback ends.
LEMMA UndoneShapes ==
  ASSUME Shapes, NEW u \in Calls, Undone(u)
  PROVE  Stepped(u)
<1>1. up[u].err \in Ended
  BY CallShape DEF UploadType
<1> QED
  BY <1>1, EndStep DEF Stepped, Undone, Shapes

\* A crash leaves an idle record with the shape of every other.
LEMMA CrashUploadShapes ==
  ASSUME Shapes, NEW u \in Calls, CrashUpload(u)
  PROVE  Stepped(u)
<1>1. "crashed" \in Ended /\ crashes' \in 0 .. MaxCrashes
  BY PublicationAssumption DEF Ended, CrashUpload, Shapes
<1> QED
  BY <1>1, EndStep DEF Stepped, CrashUpload, Shapes

(***************************************************************************)
(* Removals and collections keep the shape, too.                           *)
(***************************************************************************)

\* The end of a removal.
LEMMA EndRemovalType ==
  ASSUME Shapes, NEW r \in Removals, NEW res \in Ended, EndRemoval(r, res)
  PROVE  rm' \in [Removals -> RemovalType]
<1> DEFINE x == [rm[r] EXCEPT !.pc = res, !.file = <<>>, !.todo = {}, !.known = {}]
<1>1. rm' = [rm EXCEPT ![r] = x] /\ rm \in [Removals -> RemovalType]
  BY DEF EndRemoval, Shapes
<1>2. x \in RemovalType
  BY <1>1 DEF RemovalType
<1> HIDE DEF x
<1> QED
  BY <1>1, <1>2

\* resolvePackage finds a file that is listed, and databases that are there.
LEMMA RmResolveShapes ==
  ASSUME Shapes, NEW r \in Removals, RmResolve(r)
  PROVE  Shapes'
<1>0. rm[r] \in RemovalType /\ rm \in [Removals -> RemovalType] /\ "failed" \in Ended /\ RepoArches \in SUBSET Arches
  BY ConstantFacts DEF Shapes, Ended, RepoArches, Databases
<1>1. PICK arches \in SUBSET Arches : RmResolveAmong(r, arches)
  BY DEF RmResolve
<1>2. failures' \in 0 .. MaxFailures
  BY FailingType DEF RmResolve, Shapes
<1>3. rm' \in [Removals -> RemovalType]
  <2>1. CASE EndRemoval(r, "failed")
    BY <1>0, <2>1, EndRemovalType
  <2>2. CASE ~EndRemoval(r, "failed")
    <3> DEFINE q == rm[r].req
               listing(as) == {a \in as : db[a][q.name] # NoEntry}
               first == {q.arch} \cap arches
               found == IF listing(first) # {} THEN first ELSE listing(RepoArches \cap arches)
    <3>1. PICK a \in found :
             LET store == db[a][q.name].store
             IN /\ ~(store \notin {"any", q.arch} /\ q.arch # "any")
                /\ rm' = [rm EXCEPT ![r].pc = "db", ![r].file = FileOf(q.name, db[a][q.name]), ![r].known = RepoArches,
                             ![r].todo = IF store # "any" THEN {store}
                                         ELSE IF q.arch = "any" THEN RepoArches ELSE {q.arch}]
      BY <1>1, <2>2 DEF RmResolveAmong
    <3>2. q \in [name : Names, arch : Stores]
      BY <1>0 DEF RemovalType
    <3>3. a \in Arches /\ db[a][q.name] # NoEntry
      BY <1>1, <3>1
    <3> DEFINE e == db[a][q.name]
               todo == IF e.store # "any" THEN {e.store} ELSE IF q.arch = "any" THEN RepoArches ELSE {q.arch}
               x == [rm[r] EXCEPT !.pc = "db", !.file = FileOf(q.name, e), !.known = RepoArches, !.todo = todo]
    <3>4. e \in Entry
      BY <3>2, <3>3 DEF Shapes, Databases, Database
    <3>5. rm' = [rm EXCEPT ![r] = x]
      BY <3>1
    <3>6. todo \in SUBSET Arches
      BY <1>0, <3>2, <3>4, ConstantFacts DEF Stores
    <3>7. FileOf(q.name, e) \in File
      BY <3>2, <3>4 DEF FileOf, File, Entry
    <3> HIDE DEF todo, e, q
    <3>8. x \in RemovalType
      BY <1>0, <3>6, <3>7 DEF RemovalType
    <3> HIDE DEF x
    <3> QED
      BY <1>0, <3>5, <3>8
  <2> QED
    BY <2>1, <2>2
<1> QED
  BY <1>2, <1>3 DEF RmResolve, Shapes

\* RepoRemove takes an entry away.
LEMMA RmDBShapes ==
  ASSUME Shapes, NEW r \in Removals, RmDB(r)
  PROVE  Shapes'
<1>0. rm[r] \in RemovalType /\ rm \in [Removals -> RemovalType] /\ "failed" \in Ended
  BY DEF Shapes, Ended
<1>1. PICK a \in rm[r].todo :
         \/ /\ db' = [db EXCEPT ![a][rm[r].req.name] = NoEntry]
            /\ rm' = [rm EXCEPT ![r].todo = @ \ {a},
                         ![r].pc = IF rm[r].todo # {a} THEN "db" ELSE IF OneArch(r) THEN "check" ELSE "delete"]
         \/ EndRemoval(r, "failed") /\ UNCHANGED db
  BY DEF RmDB
<1>2. a \in Arches /\ rm[r].req.name \in Names
  BY <1>0 DEF RemovalType
<1>3. Databases([db EXCEPT ![a][rm[r].req.name] = NoEntry], stored) /\ Databases(db, stored)
  BY <1>2, EntryRewritten DEF Shapes
<1>4. Databases(db', stored)
  BY <1>1, <1>3
<1>5. rm' \in [Removals -> RemovalType]
  <2>1. CASE EndRemoval(r, "failed")
    BY <1>0, <2>1, EndRemovalType
  <2>2. CASE ~EndRemoval(r, "failed")
    <3> DEFINE pc == IF rm[r].todo # {a} THEN "db" ELSE IF OneArch(r) THEN "check" ELSE "delete"
               x == [rm[r] EXCEPT !.todo = rm[r].todo \ {a}, !.pc = pc]
    <3>1. rm' = [rm EXCEPT ![r] = x] /\ pc \in {"db", "check", "delete"}
      BY <1>1, <2>2
    <3> HIDE DEF pc
    <3>2. x \in RemovalType
      BY <1>0, <3>1 DEF RemovalType
    <3> HIDE DEF x
    <3> QED
      BY <1>0, <3>1, <3>2
  <2> QED
    BY <2>1, <2>2
<1> QED
  BY <1>4, <1>5 DEF RmDB, Shapes

\* stillRegistered changes no database.
LEMMA RmCheckShapes ==
  ASSUME Shapes, NEW r \in Removals, RmCheck(r)
  PROVE  Shapes'
<1>1. rm' \in [Removals -> RemovalType]
  <2>0. rm[r] \in RemovalType /\ rm \in [Removals -> RemovalType] /\ "ok" \in Ended
    BY DEF Shapes, Ended
  <2>1. CASE EndRemoval(r, "ok")
    BY <2>0, <2>1, EndRemovalType
  <2>2. CASE ~EndRemoval(r, "ok")
    <3> DEFINE x == [rm[r] EXCEPT !.pc = "delete"]
    <3>1. rm' = [rm EXCEPT ![r] = x]
      BY <2>2 DEF RmCheck
    <3>2. x \in RemovalType
      BY <2>0 DEF RemovalType
    <3> HIDE DEF x
    <3> QED
      BY <2>0, <3>1, <3>2
  <2> QED
    BY <2>1, <2>2
<1> QED
  BY <1>1 DEF RmCheck, Shapes

\* An object that is gone leaves the others.
LEMMA DeletedType ==
  ASSUME Shapes, NEW f
  PROVE  [obj EXCEPT ![f] = NoObject] \in [File -> Object \cup {NoObject}]
BY DEF Shapes

\* DeleteFile takes an object away.
LEMMA RmDeleteShapes ==
  ASSUME Shapes, NEW r \in Removals, RmDelete(r)
  PROVE  Shapes'
<1>1. PICK res \in {"failed", "ok"} : EndRemoval(r, res)
  BY DEF RmDelete
<1>2. rm' \in [Removals -> RemovalType]
  BY <1>1, EndRemovalType DEF Ended
<1>3. obj' \in [File -> Object \cup {NoObject}]
  BY DeletedType DEF RmDelete
<1> QED
  BY <1>2, <1>3 DEF RmDelete, Shapes

\* A removal that stops may have taken an entry or an object away.
LEMMA RmStopsShapes ==
  ASSUME Shapes, NEW r \in Removals, RmStops(r)
  PROVE  Shapes'
<1>0. rm[r] \in RemovalType
  BY DEF Shapes
<1>1. rm' \in [Removals -> RemovalType]
  BY EndRemovalType DEF RmStops, Ended
<1>2. failures' \in 0 .. MaxFailures /\ crashes' \in 0 .. MaxCrashes
  BY FailingType, PublicationAssumption DEF RmStops, Shapes
<1>3. obj' \in [File -> Object \cup {NoObject}]
  <2>1. obj' = obj \/ obj' = [obj EXCEPT ![rm[r].file] = NoObject]
    BY DEF RmStops
  <2> QED
    BY <2>1, DeletedType DEF Shapes
<1>4. Databases(db', stored)
  <2>1. db' = db \/ \E a \in rm[r].todo : db' = [db EXCEPT ![a][rm[r].req.name] = NoEntry]
    BY DEF RmStops
  <2>2. rm[r].req.name \in Names /\ rm[r].todo \subseteq Arches
    BY <1>0 DEF RemovalType
  <2>3. \A a \in rm[r].todo : Databases([db EXCEPT ![a][rm[r].req.name] = NoEntry], stored)
    BY <2>2, EntryRewritten
  <2> QED
    BY <2>1, <2>3 DEF Shapes
<1> QED
  BY <1>1, <1>2, <1>3, <1>4 DEF RmStops, Shapes

\* A database refers to package files.
LEMMA ReferencedType ==
  ASSUME Shapes, NEW a \in Arches
  PROVE  Referenced(a) \subseteq File
BY DEF Referenced, Shapes, Databases, Database, FileOf, File, Entry

\* The end of a collection.
LEMMA EndCollectionType ==
  ASSUME Shapes, NEW g \in Collections, NEW res \in Ended, EndCollection(g, res)
  PROVE  gc' \in [Collections -> CollectionType] /\ lease' \in {"free"} \cup Uploads \cup Collections
<1> DEFINE x == [pc |-> res, todo |-> {}, dir |-> "none", refs |-> {}, any |-> {}]
<1>1. gc' = [gc EXCEPT ![g] = x] /\ gc \in [Collections -> CollectionType] /\ lease' \in {"free", lease}
  BY DEF EndCollection, Release, Shapes
<1>2. x \in CollectionType
  BY DEF CollectionType
<1> HIDE DEF x
<1> QED
  BY <1>1, <1>2 DEF Shapes

\* A collection reads databases that are there and takes objects away.
LEMMA CollectionShapes ==
  ASSUME Shapes, NEW g \in Collections, GCBegin(g) \/ CollectionStep(g) \/ GCStops(g)
  PROVE  Shapes'
<1>0. gc[g] \in CollectionType /\ gc \in [Collections -> CollectionType] /\ {"ok", "failed", "crashed"} \subseteq Ended
  BY DEF Shapes, Ended
<1>1. CASE GCBegin(g)
  <2> DEFINE x == [gc[g] EXCEPT !.pc = "read", !.todo = stored]
  <2>1. gc' = [gc EXCEPT ![g] = x] /\ lease' \in {"free"} \cup Uploads \cup Collections
    BY <1>1 DEF GCBegin, Take, Shapes
  <2>2. stored \in SUBSET Arches
    BY DEF Shapes, Databases
  <2>3. x \in CollectionType
    BY <1>0, <2>2 DEF CollectionType
  <2> HIDE DEF x
  <2> QED
    BY <1>0, <1>1, <2>1, <2>3 DEF GCBegin, Shapes
<1>2. CASE GCRead(g)
  <2>1. CASE \E a \in gc[g].todo :
               gc' = [gc EXCEPT ![g].pc = "sweep", ![g].dir = a, ![g].todo = @ \ {a}, ![g].refs = Referenced(a),
                                ![g].any = @ \cup {f \in Referenced(a) : f[2] = "any"}]
    <3>1. PICK a \in gc[g].todo :
               gc' = [gc EXCEPT ![g] = [gc[g] EXCEPT !.pc = "sweep", !.dir = a, !.todo = gc[g].todo \ {a}, !.refs = Referenced(a),
                                !.any = gc[g].any \cup {f \in Referenced(a) : f[2] = "any"}]]
      BY ZenonT(60), <2>1
    <3> DEFINE any == gc[g].any \cup {f \in Referenced(a) : f[2] = "any"}
               x == [gc[g] EXCEPT !.pc = "sweep", !.dir = a, !.todo = gc[g].todo \ {a}, !.refs = Referenced(a), !.any = any]
    <3>2. a \in Arches /\ a \in Stores
      BY <1>0 DEF CollectionType, Stores
    <3>3. any \in SUBSET File /\ Referenced(a) \in SUBSET File
      BY <1>0, <3>2, ReferencedType DEF CollectionType
    <3>4. gc' = [gc EXCEPT ![g] = x]
      BY <3>1
    <3> HIDE DEF any
    <3>5. x \in CollectionType
      BY <1>0, <3>2, <3>3 DEF CollectionType
    <3> HIDE DEF x
    <3> QED
      BY ZenonT(60), <1>0, <1>2, <3>4, <3>5 DEF GCRead, Shapes
  <2>2. CASE gc' = [gc EXCEPT ![g].pc = "sweep", ![g].dir = "any", ![g].refs = gc[g].any]
    <3> DEFINE x == [gc[g] EXCEPT !.pc = "sweep", !.dir = "any", !.refs = gc[g].any]
    <3>1. x \in CollectionType
      BY <1>0 DEF CollectionType, Stores
    <3>2. gc' = [gc EXCEPT ![g] = x]
      BY <2>2
    <3> HIDE DEF x
    <3> QED
      BY <1>0, <1>2, <3>1, <3>2 DEF GCRead, Shapes
  <2> QED
    BY <1>2, <2>1, <2>2 DEF GCRead
<1>3. CASE GCSweep(g)
  <2>1. obj' \in [File -> Object \cup {NoObject}]
    BY <1>3 DEF GCSweep, Shapes
  <2>2. CASE EndCollection(g, "ok")
    BY <1>0, <1>3, <2>1, <2>2, EndCollectionType DEF GCSweep, Shapes
  <2>3. CASE gc' = [gc EXCEPT ![g].pc = "read", ![g].refs = {}, ![g].dir = "none"] /\ UNCHANGED lease
    <3> DEFINE x == [gc[g] EXCEPT !.pc = "read", !.refs = {}, !.dir = "none"]
    <3>1. x \in CollectionType
      BY <1>0 DEF CollectionType
    <3>2. gc' = [gc EXCEPT ![g] = x]
      BY <2>3
    <3> HIDE DEF x
    <3> QED
      BY ZenonT(60), <1>0, <1>3, <2>1, <2>3, <3>1, <3>2 DEF GCSweep, Shapes
  <2> QED
    BY <1>3, <2>2, <2>3 DEF GCSweep
<1>4. CASE GCStops(g)
  <2>1. failures' \in 0 .. MaxFailures /\ crashes' \in 0 .. MaxCrashes
    BY <1>4, FailingType, PublicationAssumption DEF GCStops, Shapes
  <2> QED
    BY <1>0, <1>4, <2>1, EndCollectionType DEF GCStops, Shapes
<1> QED
  BY <1>1, <1>2, <1>3, <1>4 DEF CollectionStep

\* Time passes.
LEMMA AgeShapes ==
  ASSUME Shapes, Age
  PROVE  Shapes'
<1>1. ASSUME NEW o \in Object PROVE [o EXCEPT !.old = TRUE] \in Object
  BY DEF Object
<1>2. obj' \in [File -> Object \cup {NoObject}]
  BY <1>1 DEF Age, Shapes
<1> QED
  BY <1>2 DEF Age, Shapes

\* Every step of an upload or of a starting server keeps the shape.
LEMMA UploadShapes ==
  ASSUME Shapes, NEW u \in Calls, Acquire(u) \/ UploadStep(u) \/ CrashUpload(u)
  PROVE  Stepped(u)
BY AcquireShapes, StartServerShapes, AcceptShapes, ProbeShapes, InitArchShapes, ListAnyShapes, BackfillShapes,
   SeededShapes, ResolveShapes, CaptureShapes, StoreObjectShapes, StoredShapes, CommitShapes, CommitFailsShapes,
   CommittedShapes, StoreNamesShapes, UploadFailsShapes, UndoNewShapes, UndoStoreShapes, UndoAddShapes,
   UndoFailsShapes, UndoneShapes, CrashUploadShapes
   DEF UploadStep

\* A repository at rest has its objects: what a database lists is there, with those bytes.
LEMMA InitShapes ==
  ASSUME Init
  PROVE  /\ Shapes
         /\ \A a \in Arches, n \in Names : db[a][n] # NoEntry => obj[FileOf(n, db[a][n])].build = db[a][n].build
<1>1. PICK s \in Published : db = s.db /\ stored = s.stored
  BY DEF Init
<1>2. /\ db \in [Arches -> Database]
      /\ Declared \cup {a \in Arches : db[a] # NoPackage} \subseteq stored /\ stored \subseteq Arches
      /\ \A a \in Arches, n \in Names :
            /\ db[a][n].store \in {a, "any", "none"}
            /\ \A b \in Arches : db[a][n].store = db[b][n].store /\ db[a][n].ver = db[b][n].ver => db[a][n] = db[b][n]
  BY <1>1, PublicationAssumption
<1>3. \A a \in Arches, n \in Names : db[a][n] \in Entry \cup {NoEntry}
  BY <1>2 DEF Database
<1>4. Databases(db, stored)
  <2> SUFFICES ASSUME NEW a \in Arches, NEW n \in Names, db[a][n] # NoEntry
               PROVE  Belongs(db[a][n], a, stored)
    BY <1>2 DEF Databases
  <2>1. db[a] # NoPackage
    BY DEF NoPackage
  <2>2. db[a][n].store # "none"
    BY <1>3, ConstantFacts DEF Stores
  <2> QED
    BY <1>2, <2>1, <2>2 DEF Belongs
<1>5. ASSUME NEW f \in File, \E a \in Arches : Lists(a, f)
      PROVE  /\ obj[f] \in Object
             /\ \A a \in Arches : Lists(a, f) => obj[f].build = db[a][f[1]].build
  <2> DEFINE c == CHOOSE a \in Arches : Lists(a, f)
  <2>1. c \in Arches /\ Lists(c, f)
    BY <1>5
  <2>2. obj[f] = [build |-> db[c][f[1]].build, old |-> TRUE]
    BY <1>5 DEF Init
  <2> HIDE DEF c
  <2>3. f[1] \in Names /\ db[c][f[1]] \in Entry
    BY <1>3, <2>1 DEF File, Lists
  <2>4. obj[f] \in Object /\ obj[f].build = db[c][f[1]].build
    BY <2>2, <2>3 DEF Object, Entry
  <2>5. \A a \in Arches : Lists(a, f) => db[a][f[1]] = db[c][f[1]]
    BY <1>2, <2>1, <2>3 DEF Lists, FileOf
  <2> QED
    BY <2>4, <2>5
<1>6. obj \in [File -> Object \cup {NoObject}]
  <2>1. obj = [f \in File |-> obj[f]]
    BY DEF Init
  <2>2. ASSUME NEW f \in File, ~ \E a \in Arches : Lists(a, f) PROVE obj[f] = NoObject
    BY <2>2 DEF Init
  <2> QED
    BY <1>5, <2>1, <2>2
<1>7. ASSUME NEW a \in Arches, NEW n \in Names, db[a][n] # NoEntry
      PROVE  obj[FileOf(n, db[a][n])].build = db[a][n].build
  <2> DEFINE f == FileOf(n, db[a][n])
  <2>1. f \in File /\ f[1] = n
    BY <1>3, <1>7 DEF FileOf, File, Entry
  <2>2. Lists(a, f)
    BY <1>7, <2>1 DEF Lists
  <2> QED
    BY <1>5, <2>1, <2>2
<1>8. PICK b \in [Uploads -> Batches] : up = [u \in Calls |-> Idle(IF u \in Uploads THEN b[u] ELSE <<>>)]
  BY DEF Init, Calls
<1>9. ASSUME NEW u \in Calls
      PROVE  up[u].batch \in Seq(Package) /\ up[u] \in UploadType(up[u].batch) /\ Shaped(up[u], stored) /\ (u \in Starts => up[u].batch = <<>>)
  <2> DEFINE c == IF u \in Uploads THEN b[u] ELSE <<>>
  <2>1. c \in Seq(Package) /\ (u \in Starts => c = <<>>)
    BY <1>8, PublicationAssumption
  <2>2. up[u] = Idle(c)
    BY <1>8
  <2> HIDE DEF c
  <2>3. NoPackage \in Database
    BY DEF NoPackage, Database
  <2>4. up[u] \in UploadType(c) /\ up[u].batch = c /\ up[u].pc = "idle" /\ up[u].todo = {}
    BY <2>2, <2>3 DEF Idle, UploadType, UploadPCs, Ended
  <2>5. up[u].into = [i \in DOMAIN c |-> {}] /\ up[u].old = [i \in DOMAIN c |-> [a \in Arches |-> NoEntry]]
    BY <2>2 DEF Idle
  <2>6. IntoOf(up[u]) = {}
    BY <2>4, <2>5 DEF IntoOf
  <2>7. Shaped(up[u], stored)
    BY <2>4, <2>5, <2>6 DEF Shaped
  <2> QED
    BY <2>1, <2>4, <2>7
<1>10. rm \in [Removals -> RemovalType]
  BY PublicationAssumption DEF Init, RemovalType
<1>11. gc \in [Collections -> CollectionType]
  BY DEF Init, CollectionType
<1>12. failures \in 0 .. MaxFailures /\ crashes \in 0 .. MaxCrashes /\ lease = "free"
  BY PublicationAssumption DEF Init
<1> QED
  BY <1>4, <1>6, <1>7, <1>8, <1>9, <1>10, <1>11, <1>12 DEF Shapes, Calls

\* Every step keeps the shape.
LEMMA NextShapes ==
  ASSUME Shapes, [Next]_vars
  PROVE  Shapes'
<1>1. ASSUME NEW u \in Calls, Acquire(u) \/ UploadStep(u) \/ CrashUpload(u) PROVE Shapes'
  BY <1>1, UploadShapes, SteppedShapes
<1>2. ASSUME NEW r \in Removals, RemovalStep(r) \/ RmStops(r) PROVE Shapes'
  BY <1>2, RmResolveShapes, RmDBShapes, RmCheckShapes, RmDeleteShapes, RmStopsShapes DEF RemovalStep
<1>3. CASE UNCHANGED vars
  BY <1>3 DEF Shapes, vars
<1> QED
  BY <1>1, <1>2, <1>3, CollectionShapes, AgeShapes DEF Next, Calls

\* The shape is an invariant of every deployment: with the lease or without it, with removals,
\* starting servers and collections beside the uploads, whatever fails or crashes.
THEOREM ShapesHold == Spec => []Shapes
<1>1. Init => Shapes
  BY InitShapes
<1>2. Shapes /\ [Next]_vars => Shapes'
  BY NextShapes
<1> QED
  BY <1>1, <1>2, PTL DEF Spec

\* Every database, object, call and counter keeps its type, whatever fails, crashes or races.
THEOREM TypeCorrect == Spec => []TypeOK
<1>1. Shapes => TypeOK
  BY DEF Shapes, TypeOK, Databases, Calls, UploadType, RemovalType, CollectionType, Items
<1> QED
  BY <1>1, ShapesHold, PTL

(***************************************************************************)
(* No commit takes a database back.                                        *)
(***************************************************************************)

\* What RepoAddBatch accepts is nowhere older than what it finds.
LEMMA AddedIsNewer ==
  ASSUME Shapes, NEW u \in Calls, NEW a \in Arches, Expected(u, a), NEW n \in Names
  PROVE  ~(Added(u, a)[n].ver < db[a][n].ver)
<1>1. CASE Added(u, a)[n] = db[a][n]
  <2>1. db[a][n].ver \in Nat
    BY ConstantFacts DEF Shapes, Databases, Database
  <2> QED
    BY <1>1, <2>1
<1>2. CASE Added(u, a)[n] # db[a][n]
  <2>0. up[u] \in UploadType(up[u].batch) /\ up[u].batch \in Seq(Package) /\ Shaped(up[u], stored)
    BY CallShape
  <2>1. PICK i \in Batch(u, a) : Pkg(u, i).name = n /\ <<i, a>> \in IntoOf(up[u]) /\ Added(u, a)[n] = EntryOf(Pkg(u, i))
    BY <1>2, AddedBelongs
  <2>2. i \in DOMAIN up[u].batch /\ Pkg(u, i) = up[u].batch[i]
    BY <2>1 DEF Batch, Items, Pkg
  <2>3. SameFile(db[a][n], Pkg(u, i)) \/ SameFile(db[a][n], up[u].old[i][a])
    BY <2>1 DEF Expected, Current
  <2>4. <<i, a>>[1] = i /\ <<i, a>>[2] = a
    OBVIOUS
  <2>5. up[u].old[i][a].ver < Pkg(u, i).ver
    BY <2>0, <2>1, <2>2, <2>4 DEF Shaped
  <2>6. up[u].old[i][a].ver \in Nat /\ Pkg(u, i).ver \in Nat
    BY <2>0, <2>2, ConstantFacts DEF UploadType
  <2>7. Added(u, a)[n].ver = Pkg(u, i).ver
    BY <2>1 DEF EntryOf
  <2> QED
    BY <2>3, <2>5, <2>6, <2>7 DEF SameFile
<1> QED
  BY <1>1, <1>2

\* Without a removal, a step that makes a database older is one of a rollback or of a seeding.
LEMMA OlderIsUndone ==
  ASSUME Shapes, Removals = {}, Next, NEW a \in Arches, NEW n \in Names, db'[a][n].ver < db[a][n].ver
  PROVE  \E u \in DOMAIN up : up[u].pc \in {"undo", "undoadd", "fill"} /\ up'[u] # up[u]
<1>0. db \in [Arches -> Database] /\ db[a][n].ver \in Nat /\ DOMAIN up = Calls
  BY ConstantFacts DEF Shapes, Databases, Database
<1>1. db' # db
  BY <1>0
<1>2. PICK u \in Calls : Acquire(u) \/ UploadStep(u) \/ CrashUpload(u)
  BY <1>1 DEF Next, Calls, GCBegin, CollectionStep, GCRead, GCSweep, GCStops, Age
<1>3. up[u] \in UploadType(up[u].batch) /\ Shaped(up[u], stored)
  BY CallShape
<1>4. CASE Commit(u) \/ CommitFails(u)
  <2>1. PICK t \in up[u].todo : Expected(u, t[2]) /\ db' = [db EXCEPT ![t[2]] = Added(u, t[2])] /\ up[u].pc = "commit"
    BY <1>1, <1>4 DEF Commit, CommitFails
  <2>2. t[2] \in Arches
    BY <1>3, <2>1 DEF Shaped
  <2>3. a = t[2] /\ db'[a] = Added(u, a)
    BY <1>0, <2>1, <2>2
  <2> QED
    BY <2>1, <2>3, AddedIsNewer
<1>5. CASE Backfill(u) \/ UndoAdd(u)
  BY <1>0, <1>3, <1>5 DEF Backfill, UndoAdd, UploadType
<1>6. CASE UndoNew(u)
  <2>1. PICK t \in up[u].todo : up' = [up EXCEPT ![u].todo = @ \ {t}] /\ up[u].pc = "undo"
    BY <1>6 DEF UndoNew
  <2>2. up'[u].todo # up[u].todo
    BY <1>0, <1>3, <2>1 DEF UploadType
  <2> QED
    BY <1>0, <2>1, <2>2
<1>7. CASE UploadFails(u)
  <2>1. up[u].pc = "fill" /\ End(u, "failed")
    BY <1>1, <1>7 DEF UploadFails
  <2>2. up'[u].pc = "failed"
    BY <2>1, EndStep DEF Ended
  <2> QED
    BY <1>0, <2>1, <2>2
<1> QED
  BY <1>1, <1>2, <1>4, <1>5, <1>6, <1>7 DEF Acquire, UploadStep, CrashUpload, StartServer, Accept, Probe, InitArch,
     ListAny, Seeded, Resolve, Capture, StoreObject, Stored, Committed, StoreNames, UndoStore, UndoFails, Undone

\* No commit takes a database back to an older version, in any number of processes and whatever
\* fails: resolveUploadState and the expectations of RepoAddBatch together are enough, without
\* the lease.  A removal may of course.
THEOREM NeverDowngrades == Removals = {} => (Spec => NoDowngrade)
<1> SUFFICES ASSUME Removals = {} PROVE Spec => NoDowngrade
  OBVIOUS
<1>1. Shapes /\ [Next]_vars =>
         [\A a \in Arches, n \in Names :
             db'[a][n].ver < db[a][n].ver =>
                 \E u \in DOMAIN up : up[u].pc \in {"undo", "undoadd", "fill"} /\ up'[u] # up[u]]_vars
  BY OlderIsUndone
<1> QED
  BY <1>1, ShapesHold, PTL DEF Spec, NoDowngrade

(***************************************************************************)
(* What a database lists can be downloaded.                                *)
(***************************************************************************)
Held(ob, n, e) == ob[FileOf(n, e)].build = e.build
Served(d, ob) == \A a \in Arches, n \in Names : d[a][n] # NoEntry => Held(ob, n, d[a][n])

\* A call stores an object before it lists it: what it is about to write into a database is there.
Backed(r, ob) ==
  /\ r.pc = "fill" => \A n \in Names : r.fill[n] # NoEntry => Held(ob, n, r.fill[n])
  /\ r.pc = "store" => \A t \in IntoOf(r) : \/ \E s \in r.todo : s[1] = t[1]
                                            \/ Held(ob, r.batch[t[1]].name, r.batch[t[1]])
  /\ r.pc = "commit" => \A t \in IntoOf(r) : Held(ob, r.batch[t[1]].name, r.batch[t[1]])
  /\ r.pc = "undoadd" => /\ r.old[r.at[1]][r.at[2]] # NoEntry
                         /\ Held(ob, r.batch[r.at[1]].name, r.old[r.at[1]][r.at[2]])

\* No object loses or changes its bytes.
Kept(ob, ob2) == \A f \in File : ob[f].build # 0 => ob2[f].build = ob[f].build

Working(r) == r.pc \notin {"idle"} \cup Ended
Reading(c) == c.pc \in {"read", "sweep"}

\* .publication.lock keeps uploads and collections apart.
LeaseHeld ==
  Leased => /\ \A u \in Uploads : Working(up[u]) => lease = u
            /\ \A g \in Collections : Reading(gc[g]) => lease = g

\* A collection that may delete knows every reference to the directory it is in.
RefsOf(d, a) == {FileOf(n, d[a][n]) : n \in {m \in Names : d[a][m] # NoEntry}}
AnyRefs(d, a) == {f \in RefsOf(d, a) : f[2] = "any"}
Knows(c, d, there) ==
  /\ Reading(c) => \A a \in there \ c.todo : AnyRefs(d, a) \subseteq c.any
  /\ c.pc = "sweep" => \/ c.dir \in Arches /\ RefsOf(d, c.dir) \subseteq c.refs
                       \/ c.dir = "any" /\ \A a \in there : AnyRefs(d, a) \subseteq c.refs

\* RemovePkg and a starting server take no lease: a removal may take an object away under an upload,
\* and a collection under the seeding of a starting server.
NoneUnleased == Removals = {} /\ (Leased => Starts = {} \/ Collections = {})

Publishes ==
  /\ Shapes /\ Served(db, obj) /\ LeaseHeld
  /\ \A u \in Calls : Backed(up[u], obj)
  /\ Leased => \A g \in Collections : Knows(gc[g], db, stored)

\* An object that is held stays held.
LEMMA HeldKept ==
  ASSUME NEW ob, NEW ob2, Kept(ob, ob2), NEW n \in Names, NEW e, e \in Entry \/ e \in Package, Held(ob, n, e)
  PROVE  Held(ob2, n, e)
<1>1. FileOf(n, e) \in File /\ e.build # 0
  BY PublicationAssumption DEF FileOf, File, Entry, Package
<1> QED
  BY <1>1 DEF Held, Kept

\* What a call holds it still holds when no bytes were taken away.
LEMMA BackedKept ==
  ASSUME NEW r, r.batch \in Seq(Package), r \in UploadType(r.batch), NEW there, Shaped(r, there),
         NEW ob, NEW ob2, Kept(ob, ob2), Backed(r, ob)
  PROVE  Backed(r, ob2)
<1>1. r.fill \in Database /\ \A i \in DOMAIN r.batch : r.batch[i] \in Package /\ r.batch[i].name \in Names
  BY ConstantFacts DEF UploadType
<1>2. \A t \in IntoOf(r) : t[1] \in DOMAIN r.batch /\ t[2] \in Arches
  BY DEF IntoOf
<1>3. r.pc = "fill" => \A n \in Names : r.fill[n] # NoEntry => Held(ob2, n, r.fill[n])
  BY <1>1, HeldKept DEF Backed, Database
<1>4. \A t \in IntoOf(r) : Held(ob, r.batch[t[1]].name, r.batch[t[1]]) => Held(ob2, r.batch[t[1]].name, r.batch[t[1]])
  BY <1>1, <1>2, HeldKept
<1>5. ASSUME r.pc = "undoadd"
      PROVE  r.old[r.at[1]][r.at[2]] # NoEntry /\ Held(ob2, r.batch[r.at[1]].name, r.old[r.at[1]][r.at[2]])
  <2>1. r.at[1] \in DOMAIN r.batch /\ r.at[2] \in Arches
    BY <1>2, <1>5 DEF Shaped
  <2>2. r.old[r.at[1]][r.at[2]] \in Entry \cup {NoEntry}
    BY <2>1 DEF UploadType
  <2> QED
    BY <1>1, <1>5, <2>1, <2>2, HeldKept DEF Backed
<1> QED
  BY <1>3, <1>4, <1>5 DEF Backed

\* What is listed is still served when no bytes were taken away.
LEMMA ServedKept ==
  ASSUME NEW d \in [Arches -> Database], NEW ob, NEW ob2, Kept(ob, ob2), Served(d, ob)
  PROVE  Served(d, ob2)
BY HeldKept DEF Served, Database

\* A step of a call takes no bytes away, holds what it will list, and lists what it holds.
Backs(u) == Kept(obj, obj') /\ Backed(up'[u], obj') /\ Served(db', obj')

\* Most steps write neither objects nor databases, and do not lead to a write.
LEMMA PlainBacks ==
  ASSUME Publishes, NEW u \in Calls, UNCHANGED <<db, obj>>, up'[u].pc \notin {"fill", "store", "commit", "undoadd"}
  PROVE  Backs(u)
BY DEF Publishes, Backs, Kept, Backed, Served

\* backfillAnyInto lists the archives that are there.
LEMMA ListAnyBacks ==
  ASSUME Publishes, NEW u \in Calls, ListAny(u)
  PROVE  Backs(u)
<1>0. Shapes /\ up[u] \in UploadType(up[u].batch) /\ DOMAIN up = Calls
  BY CallShape DEF Publishes, Shapes
<1> DEFINE fill == [n \in Names |-> LastListed(n)]
<1>1. up' = [up EXCEPT ![u].pc = "fill", ![u].fill = fill] /\ UNCHANGED <<db, obj>>
  BY DEF ListAny
<1>2. \A n \in Names : fill[n] # NoEntry => Held(obj, n, fill[n])
  BY <1>0, LastListedType DEF Held
<1> HIDE DEF fill
<1>3. up'[u].pc = "fill" /\ up'[u].fill = fill
  BY <1>0, <1>1 DEF UploadType
<1> QED
  BY <1>1, <1>2, <1>3 DEF Publishes, Backs, Kept, Backed, Served

\* A database is rewritten with entries whose objects are there.
LEMMA RewrittenServed ==
  ASSUME NEW d \in [Arches -> Database], NEW ob, Served(d, ob), NEW a \in Arches, NEW new \in Database,
         \A n \in Names : new[n] # NoEntry => new[n] = d[a][n] \/ Held(ob, n, new[n])
  PROVE  Served([d EXCEPT ![a] = new], ob)
BY DEF Served

\* The backfilled database lists what is stored.
LEMMA FilledServed ==
  ASSUME Publishes, NEW u \in Calls, up[u].pc = "fill"
  PROVE  Served([db EXCEPT ![up[u].at[2]] = Filled(u)], obj)
<1> DEFINE a == up[u].at[2]
           new == Filled(u)
<1>0. Shapes /\ up[u] \in UploadType(up[u].batch) /\ Shaped(up[u], stored) /\ db \in [Arches -> Database]
  BY CallShape DEF Publishes, Shapes, Databases
<1>1. a \in Arches /\ \A n \in Names : up[u].fill[n] # NoEntry => Held(obj, n, up[u].fill[n])
  BY <1>0 DEF Shaped, Publishes, Backed
<1>2. \A n \in Names : new[n] = (IF up[u].fill[n] = NoEntry THEN db[a][n] ELSE up[u].fill[n])
  BY DEF Filled
<1>3. new \in Database
  BY <1>0, <1>1 DEF Filled, Database, UploadType
<1> HIDE DEF new, a
<1>4. Served([db EXCEPT ![a] = new], obj)
  BY <1>0, <1>1, <1>2, <1>3, RewrittenServed DEF Publishes
<1> QED
  BY <1>4 DEF a, new

\* Backfilling writes what was listed.
LEMMA BackfillBacks ==
  ASSUME Publishes, NEW u \in Calls, Backfill(u)
  PROVE  Backs(u)
<1>0. up[u] \in UploadType(up[u].batch) /\ DOMAIN up = Calls
  BY CallShape DEF Publishes, Shapes
<1>1. up'[u].pc = "seed" /\ UNCHANGED obj
  BY <1>0 DEF Backfill, UploadType
<1>2. Served(db', obj)
  BY FilledServed DEF Backfill
<1> QED
  BY <1>1, <1>2 DEF Backs, Kept, Backed, Served, Held

\* capture ends with a copy of everything that is replaced.
LEMMA CaptureBacks ==
  ASSUME Publishes, NEW u \in Calls, Capture(u)
  PROVE  Backs(u)
<1>0. Shapes /\ up[u] \in UploadType(up[u].batch) /\ DOMAIN up = Calls /\ UNCHANGED <<db, obj>>
  BY CallShape DEF Publishes, Shapes, Capture
<1>1. CASE End(u, "failed")
  <2>1. up'[u].pc = "failed"
    BY <1>0, <1>1, EndStep DEF Ended
  <2> QED
    BY <1>0, <2>1, PlainBacks
<1>2. CASE ~End(u, "failed")
  <2>1. PICK old : up' = [up EXCEPT ![u].pc = "store", ![u].todo = Into(u), ![u].old = old]
    BY <1>2 DEF Capture
  <2>2. up'[u].pc = "store" /\ up'[u].todo = Into(u) /\ up'[u].batch = up[u].batch /\ up'[u].into = up[u].into
    BY <1>0, <2>1 DEF UploadType
  <2>3. IntoOf(up'[u]) = up'[u].todo
    BY <2>2 DEF IntoOf, Into, Items
  <2> QED
    BY <1>0, <2>2, <2>3 DEF Publishes, Backs, Kept, Backed, Served
<1> QED
  BY <1>1, <1>2

\* StoreFileImmutable keeps every object, and the one it was asked for is there.
LEMMA StoredKept ==
  ASSUME Shapes, NEW n \in Names, NEW e, e \in Entry \/ e \in Package, Storable(FileOf(n, e), e.build),
         StoreImmutable(FileOf(n, e), e.build)
  PROVE  Kept(obj, obj') /\ Held(obj', n, e)
<1>1. FileOf(n, e) \in File
  BY DEF FileOf, File, Entry, Package
<1>2. obj \in [File -> Object \cup {NoObject}]
  BY DEF Shapes
<1> DEFINE o == [build |-> e.build, old |-> FALSE]
<1>3. obj' = [obj EXCEPT ![FileOf(n, e)] = o] /\ o.build = e.build
  BY DEF StoreImmutable
<1> HIDE DEF o
<1> QED
  BY <1>1, <1>2, <1>3 DEF Storable, Kept, Held

\* Storing an object overwrites none.
LEMMA StoreObjectBacks ==
  ASSUME Publishes, NEW u \in Calls, StoreObject(u)
  PROVE  Backs(u)
<1>0. /\ Shapes /\ up[u] \in UploadType(up[u].batch) /\ up[u].batch \in Seq(Package) /\ Shaped(up[u], stored)
      /\ DOMAIN up = Calls /\ db' = db /\ up[u].pc = "store" /\ db \in [Arches -> Database] /\ Backed(up[u], obj)
  BY CallShape DEF Publishes, Shapes, StoreObject, Databases
<1>1. CASE RollBack(u, "conflict", {}) /\ UNCHANGED obj
  <2>1. up'[u].pc = "undo"
    BY <1>0, <1>1, RollBackStep DEF Ended
  <2> QED
    BY <1>0, <1>1, <2>1, PlainBacks
<1>2. CASE ~(RollBack(u, "conflict", {}) /\ UNCHANGED obj)
  <2>1. PICK t \in up[u].todo :
           /\ Storable(FileOf(Pkg(u, t[1]).name, Pkg(u, t[1])), Pkg(u, t[1]).build)
           /\ StoreImmutable(FileOf(Pkg(u, t[1]).name, Pkg(u, t[1])), Pkg(u, t[1]).build)
           /\ up' = [up EXCEPT ![u].todo = {s \in @ : s[1] # t[1]}]
    BY <1>2 DEF StoreObject
  <2> DEFINE p == Pkg(u, t[1])
             todo == {s \in up[u].todo : s[1] # t[1]}
  <2>2. t[1] \in DOMAIN up[u].batch
    BY <1>0 DEF Shaped, IntoOf
  <2>3. p \in Package /\ p.name \in Names /\ p = up[u].batch[t[1]]
    BY <1>0, <2>2, ConstantFacts DEF Pkg
  <2>4. Kept(obj, obj') /\ Held(obj', p.name, p)
    BY <1>0, <2>1, <2>3, StoredKept
  <2>5. Backed(up[u], obj') /\ Served(db, obj')
    BY <1>0, <2>4, BackedKept, ServedKept DEF Publishes
  <2>6. /\ up'[u].pc = "store" /\ up'[u].todo = todo /\ up'[u].batch = up[u].batch /\ up'[u].into = up[u].into
    BY <1>0, <2>1 DEF UploadType
  <2>7. IntoOf(up'[u]) = IntoOf(up[u])
    BY <2>6 DEF IntoOf
  <2> HIDE DEF p
  <2>8. ASSUME NEW s \in IntoOf(up'[u])
        PROVE  (\E x \in up'[u].todo : x[1] = s[1]) \/ Held(obj', up'[u].batch[s[1]].name, up'[u].batch[s[1]])
    <3>1. CASE s[1] = t[1]
      BY <2>3, <2>4, <2>6, <3>1
    <3>2. CASE s[1] # t[1]
      <4>1. (\E x \in up[u].todo : x[1] = s[1]) \/ Held(obj', up[u].batch[s[1]].name, up[u].batch[s[1]])
        BY <1>0, <2>5, <2>7 DEF Backed
      <4> QED
        BY <2>6, <3>2, <4>1
    <3> QED
      BY <3>1, <3>2
  <2>9. Backed(up'[u], obj')
    BY <2>6, <2>8 DEF Backed
  <2> QED
    BY <1>0, <2>4, <2>5, <2>9 DEF Backs
<1> QED
  BY <1>1, <1>2

\* When all objects are stored, every package of the batch that is published has one.
LEMMA StoredBacks ==
  ASSUME Publishes, NEW u \in Calls, Stored(u)
  PROVE  Backs(u)
<1>0. up[u] \in UploadType(up[u].batch) /\ DOMAIN up = Calls /\ UNCHANGED <<db, obj>> /\ Backed(up[u], obj)
      /\ up[u].pc = "store" /\ up[u].todo = {}
  BY CallShape DEF Publishes, Shapes, Stored
<1>1. up'[u].pc = "commit" /\ up'[u].batch = up[u].batch /\ up'[u].into = up[u].into
  BY <1>0 DEF Stored, UploadType
<1>2. IntoOf(up'[u]) = IntoOf(up[u])
  BY <1>1 DEF IntoOf
<1>3. Backed(up'[u], obj)
  BY <1>0, <1>1, <1>2 DEF Backed
<1> QED
  BY <1>0, <1>3 DEF Publishes, Backs, Kept

\* A commit lists only what was stored.
LEMMA AddedServed ==
  ASSUME Publishes, NEW u \in Calls, up[u].pc = "commit", NEW a \in Arches
  PROVE  Served([db EXCEPT ![a] = Added(u, a)], obj)
<1> DEFINE new == Added(u, a)
<1>0. Shapes /\ db \in [Arches -> Database] /\ Backed(up[u], obj) /\ Served(db, obj)
  BY DEF Publishes, Shapes, Databases
<1>1. new \in Database
  BY <1>0, AddedBelongs
<1>2. ASSUME NEW n \in Names PROVE new[n] = db[a][n] \/ Held(obj, n, new[n])
  <2> SUFFICES ASSUME new[n] # db[a][n] PROVE Held(obj, n, new[n])
    OBVIOUS
  <2>1. PICK i \in Batch(u, a) : Pkg(u, i).name = n /\ <<i, a>> \in IntoOf(up[u]) /\ new[n] = EntryOf(Pkg(u, i))
    BY <1>0, AddedBelongs
  <2>2. <<i, a>>[1] = i /\ Pkg(u, i) = up[u].batch[i]
    BY DEF Pkg
  <2>3. Held(obj, n, Pkg(u, i))
    BY <1>0, <2>1, <2>2 DEF Backed
  <2> QED
    BY <2>1, <2>3 DEF Held, EntryOf, FileOf
<1> HIDE DEF new
<1>3. Served([db EXCEPT ![a] = new], obj)
  BY <1>0, <1>1, <1>2, RewrittenServed
<1> QED
  BY <1>3 DEF new

\* A commit lists packages whose objects are stored.
LEMMA CommitBacks ==
  ASSUME Publishes, NEW u \in Calls, Commit(u)
  PROVE  Backs(u)
<1>0. /\ Shapes /\ up[u] \in UploadType(up[u].batch) /\ Shaped(up[u], stored)
      /\ DOMAIN up = Calls /\ obj' = obj /\ up[u].pc = "commit" /\ Backed(up[u], obj)
      /\ "conflict" \in Ended /\ up[u].committed \in SUBSET Arches
  BY CallShape DEF Publishes, Shapes, Commit, Ended, UploadType
<1>1. CASE RollBack(u, "conflict", up[u].committed) /\ UNCHANGED db
  <2>1. up'[u].pc = "undo"
    BY <1>0, <1>1, RollBackStep
  <2> QED
    BY <1>0, <1>1, <2>1, PlainBacks
<1>2. CASE ~(RollBack(u, "conflict", up[u].committed) /\ UNCHANGED db)
  <2>1. PICK t \in up[u].todo :
           /\ db' = [db EXCEPT ![t[2]] = Added(u, t[2])]
           /\ up' = [up EXCEPT ![u].todo = @ \ {t}, ![u].committed = @ \cup {t[2]}]
    BY <1>2 DEF Commit
  <2>2. t[2] \in Arches
    BY <1>0 DEF Shaped
  <2>3. Served(db', obj)
    BY <1>0, <2>1, <2>2, AddedServed
  <2>4. up'[u].pc = "commit" /\ up'[u].batch = up[u].batch /\ up'[u].into = up[u].into
    BY <1>0, <2>1 DEF UploadType
  <2>5. IntoOf(up'[u]) = IntoOf(up[u])
    BY <2>4 DEF IntoOf
  <2>6. Backed(up'[u], obj)
    BY <1>0, <2>4, <2>5 DEF Backed
  <2> QED
    BY <1>0, <2>3, <2>6 DEF Backs, Kept
<1> QED
  BY <1>1, <1>2

\* A failed commit may list them too.
LEMMA CommitFailsBacks ==
  ASSUME Publishes, NEW u \in Calls, CommitFails(u)
  PROVE  Backs(u)
<1>0. /\ Shapes /\ up[u] \in UploadType(up[u].batch) /\ Shaped(up[u], stored)
      /\ obj' = obj /\ up[u].pc = "commit" /\ "failed" \in Ended
  BY CallShape DEF Publishes, CommitFails, Ended
<1>1. PICK t \in up[u].todo :
         /\ RollBack(u, "failed", up[u].committed) \/ RollBack(u, "failed", up[u].committed \cup {t[2]})
         /\ UNCHANGED db \/ db' = [db EXCEPT ![t[2]] = Added(u, t[2])]
  BY DEF CommitFails
<1>2. t[2] \in Arches
  BY <1>0 DEF Shaped
<1>3. PICK arches \in SUBSET Arches : RollBack(u, "failed", arches)
  BY <1>0, <1>1, <1>2 DEF UploadType
<1>4. up'[u].pc = "undo"
  BY <1>0, <1>3, RollBackStep
<1>5. Served(db', obj)
  <2>1. Served([db EXCEPT ![t[2]] = Added(u, t[2])], obj) /\ Served(db, obj)
    BY <1>0, <1>2, AddedServed DEF Publishes
  <2> QED
    BY <1>1, <2>1
<1> QED
  BY <1>0, <1>4, <1>5 DEF Backs, Kept, Backed

\* A failure before the commit lists nothing, a failed backfill what was listed.
LEMMA UploadFailsBacks ==
  ASSUME Publishes, NEW u \in Calls, UploadFails(u)
  PROVE  Backs(u)
<1>0. Shapes /\ obj' = obj /\ "failed" \in Ended /\ {} \in SUBSET Arches
  BY DEF Publishes, UploadFails, Ended
<1>1. up'[u].pc \in {"undo", "failed"}
  BY <1>0, EndStep, RollBackStep DEF UploadFails
<1>2. Served(db', obj)
  <2>1. db' = db \/ (up[u].pc = "fill" /\ db' = [db EXCEPT ![up[u].at[2]] = Filled(u)])
    BY DEF UploadFails
  <2> QED
    BY <2>1, FilledServed DEF Publishes
<1> QED
  BY <1>0, <1>1, <1>2 DEF Backs, Kept, Backed

\* One entry is put back with its object, or taken out.
LEMMA EntryServed ==
  ASSUME NEW d \in [Arches -> Database], NEW ob, Served(d, ob), NEW a \in Arches, NEW n \in Names,
         NEW e \in Entry \cup {NoEntry}, e # NoEntry => Held(ob, n, e)
  PROVE  Served([d EXCEPT ![a][n] = e], ob)
<1> DEFINE new == [d[a] EXCEPT ![n] = e]
<1>1. new \in Database /\ \A m \in Names : new[m] = IF m = n THEN e ELSE d[a][m]
  BY DEF Database
<1>2. [d EXCEPT ![a][n] = e] = [d EXCEPT ![a] = new]
  OBVIOUS
<1> HIDE DEF new
<1>3. \A m \in Names : new[m] # NoEntry => new[m] = d[a][m] \/ Held(ob, m, new[m])
  BY <1>1
<1>4. Served([d EXCEPT ![a] = new], ob)
  BY <1>1, <1>3, RewrittenServed
<1> QED
  BY <1>2, <1>4

\* Taking an entry away leaves the others served.
LEMMA UndoNewBacks ==
  ASSUME Publishes, NEW u \in Calls, UndoNew(u)
  PROVE  Backs(u)
<1>0. /\ Shapes /\ up[u] \in UploadType(up[u].batch) /\ up[u].batch \in Seq(Package) /\ Shaped(up[u], stored)
      /\ DOMAIN up = Calls /\ obj' = obj /\ up[u].pc = "undo" /\ db \in [Arches -> Database]
  BY CallShape DEF Publishes, Shapes, UndoNew, Databases
<1>1. PICK t \in up[u].todo :
         /\ db' \in {db, [db EXCEPT ![t[2]][Pkg(u, t[1]).name] = NoEntry]}
         /\ up' = [up EXCEPT ![u].todo = @ \ {t}]
  BY DEF UndoNew
<1>2. t[1] \in DOMAIN up[u].batch /\ t[2] \in Arches
  BY <1>0 DEF Shaped, IntoOf
<1>3. Pkg(u, t[1]).name \in Names
  BY <1>0, <1>2, ConstantFacts DEF Pkg
<1>4. Served([db EXCEPT ![t[2]][Pkg(u, t[1]).name] = NoEntry], obj) /\ Served(db, obj)
  BY <1>0, <1>2, <1>3, EntryServed DEF Publishes
<1>5. Served(db', obj)
  BY <1>1, <1>4
<1>6. up'[u].pc = "undo"
  BY <1>0, <1>1 DEF UploadType
<1> QED
  BY <1>0, <1>5, <1>6 DEF Backs, Kept, Backed

\* A rollback stores the old object before it lists it.
LEMMA UndoStoreBacks ==
  ASSUME Publishes, NEW u \in Calls, UndoStore(u)
  PROVE  Backs(u)
<1>0. /\ Shapes /\ up[u] \in UploadType(up[u].batch) /\ up[u].batch \in Seq(Package) /\ Shaped(up[u], stored)
      /\ DOMAIN up = Calls /\ db' = db /\ up[u].pc = "undo" /\ db \in [Arches -> Database]
  BY CallShape DEF Publishes, Shapes, UndoStore, Databases
<1>1. PICK t \in up[u].todo :
         LET old == up[u].old[t[1]][t[2]]
             f == OldFile(u, t)
         IN /\ old # NoEntry
            /\ \/ Storable(f, old.build) /\ StoreImmutable(f, old.build) /\ up' = [up EXCEPT ![u].pc = "undoadd", ![u].at = t]
               \/ up' = [up EXCEPT ![u].todo = @ \ {t}] /\ UNCHANGED obj
  BY DEF UndoStore
<1>2. t \in IntoOf(up[u]) /\ t[1] \in DOMAIN up[u].batch /\ t[2] \in Arches
  BY <1>0 DEF Shaped, IntoOf
<1>3. CASE up' = [up EXCEPT ![u].todo = @ \ {t}] /\ UNCHANGED obj
  <2>1. up'[u].pc = "undo"
    BY <1>0, <1>3 DEF UploadType
  <2> QED
    BY <1>0, <1>3, <2>1, PlainBacks
<1>4. CASE /\ Storable(OldFile(u, t), up[u].old[t[1]][t[2]].build)
           /\ StoreImmutable(OldFile(u, t), up[u].old[t[1]][t[2]].build)
           /\ up' = [up EXCEPT ![u].pc = "undoadd", ![u].at = t]
  <2> DEFINE old == up[u].old[t[1]][t[2]]
             n == up[u].batch[t[1]].name
  <2>1. old \in Entry /\ n \in Names /\ old # NoEntry
    BY <1>0, <1>1, <1>2, ConstantFacts DEF UploadType
  <2>2. OldFile(u, t) = FileOf(n, old)
    BY DEF OldFile, Pkg
  <2>3. up'[u].pc = "undoadd" /\ up'[u].at = t /\ up'[u].old = up[u].old /\ up'[u].batch = up[u].batch
    BY <1>0, <1>4 DEF UploadType
  <2>4. Kept(obj, obj') /\ Held(obj', n, old)
    BY <1>0, <1>4, <2>1, <2>2, StoredKept
  <2>5. Served(db, obj')
    BY <1>0, <2>4, ServedKept DEF Publishes
  <2>6. Backed(up'[u], obj')
    BY <2>1, <2>3, <2>4 DEF Backed
  <2> QED
    BY <1>0, <2>4, <2>5, <2>6 DEF Backs
<1> QED
  BY <1>1, <1>3, <1>4

\* The entry put back has its object.
LEMMA UndoAddBacks ==
  ASSUME Publishes, NEW u \in Calls, UndoAdd(u)
  PROVE  Backs(u)
<1> DEFINE t == up[u].at
           old == up[u].old[t[1]][t[2]]
           n == up[u].batch[t[1]].name
<1>0. /\ Shapes /\ up[u] \in UploadType(up[u].batch) /\ up[u].batch \in Seq(Package) /\ Shaped(up[u], stored)
      /\ DOMAIN up = Calls /\ obj' = obj /\ up[u].pc = "undoadd" /\ db \in [Arches -> Database] /\ Backed(up[u], obj)
  BY CallShape DEF Publishes, Shapes, UndoAdd, Databases
<1>1. db' \in {db, [db EXCEPT ![t[2]][n] = old]} /\ up'[u].pc = "undo"
  BY <1>0 DEF UndoAdd, Pkg, UploadType
<1>2. t[1] \in DOMAIN up[u].batch /\ t[2] \in Arches
  BY <1>0 DEF Shaped, IntoOf
<1>3. n \in Names /\ old \in Entry \cup {NoEntry} /\ Held(obj, n, old)
  <2>1. up[u].batch[t[1]] \in Package
    BY <1>0, <1>2
  <2>2. n \in Names
    BY <2>1, ConstantFacts
  <2>3. up[u].old \in [DOMAIN up[u].batch -> [Arches -> Entry \cup {NoEntry}]]
    BY <1>0 DEF UploadType
  <2>4. old \in Entry \cup {NoEntry}
    BY <1>2, <2>3
  <2>5. Held(obj, n, old)
    BY <1>0 DEF Backed
  <2>6. QED
    BY <2>2, <2>4, <2>5
<1> HIDE DEF t, old, n
<1>4. Served([db EXCEPT ![t[2]][n] = old], obj) /\ Served(db, obj)
  BY <1>0, <1>2, <1>3, EntryServed DEF Publishes
<1>5. Served(db', obj)
  BY <1>1, <1>4
<1> QED
  BY <1>0, <1>1, <1>5 DEF Backs, Kept, Backed

\* The other steps.
LEMMA OtherBacks ==
  ASSUME Publishes, NEW u \in Calls,
         \/ Acquire(u) \/ StartServer(u) \/ Accept(u) \/ Probe(u) \/ InitArch(u) \/ Seeded(u) \/ Resolve(u)
         \/ Committed(u) \/ StoreNames(u) \/ UndoFails(u) \/ Undone(u) \/ CrashUpload(u)
  PROVE  Backs(u)
<1>0. /\ Shapes /\ up[u] \in UploadType(up[u].batch) /\ DOMAIN up = Calls
      /\ "failed" \in Ended /\ "ok" \in Ended /\ "crashed" \in Ended /\ up[u].committed \in SUBSET Arches /\ up[u].err \in Ended
  BY CallShape DEF Publishes, Shapes, Ended, UploadType
<1>1. UNCHANGED <<db, obj>>
  BY DEF Acquire, StartServer, Accept, Probe, InitArch, Seeded, Resolve, Committed, StoreNames, UndoFails, Undone, CrashUpload
<1>2. CASE \E res \in Ended : End(u, res)
  BY <1>0, <1>1, <1>2, EndStep, PlainBacks DEF Ended
<1>3. CASE RollBack(u, "failed", up[u].committed)
  BY <1>0, <1>1, <1>3, RollBackStep, PlainBacks
<1>4. CASE ~(\E res \in Ended : End(u, res)) /\ ~RollBack(u, "failed", up[u].committed)
  <2>1. CASE Acquire(u) \/ StartServer(u) \/ Probe(u) \/ InitArch(u) \/ Committed(u) \/ UndoFails(u)
    <3>1. up'[u].pc \in {"accept", "seed", "init", "list", "names", "undo"}
      <4>1. CASE Acquire(u)
        BY <1>0, <4>1 DEF Acquire, UploadType
      <4>2. CASE StartServer(u)
        BY <1>0, <4>2 DEF StartServer, UploadType
      <4>3. CASE Probe(u)
        <5>1. PICK t, x : up' = [up EXCEPT ![u].pc = "init", ![u].at = t, ![u].existed = x]
          BY <4>3 DEF Probe
        <5> QED
          BY <1>0, <5>1 DEF UploadType
      <4>4. CASE InitArch(u)
        BY <1>0, <4>4 DEF InitArch, UploadType
      <4>5. CASE Committed(u)
        BY <1>0, <4>5 DEF Committed, UploadType
      <4>6. CASE UndoFails(u)
        <5>1. PICK t : up' = [up EXCEPT ![u].pc = "undo", ![u].todo = @ \ {t}, ![u].at = <<>>]
          BY <4>6 DEF UndoFails
        <5> QED
          BY <1>0, <5>1 DEF UploadType
      <4> QED
        BY <2>1, <4>1, <4>2, <4>3, <4>4, <4>5, <4>6
    <3> QED
      BY <1>1, <3>1, PlainBacks
  <2>2. CASE Accept(u)
    <3>1. up'[u].pc = "seed"
      BY <1>0, <1>4, <2>2 DEF Accept, AcceptFrom, UploadType
    <3> QED
      BY <1>1, <3>1, PlainBacks
  <2>3. CASE Seeded(u)
    <3>1. up'[u].pc = "resolve"
      BY <1>0, <1>4, <2>3 DEF Seeded, SeededFrom, UploadType
    <3> QED
      BY <1>1, <3>1, PlainBacks
  <2>4. CASE Resolve(u)
    <3>1. up'[u].pc = "resolve"
      <4>1. up[u].pc = "resolve"
        BY <2>4 DEF Resolve
      <4>2. PICK t \in up[u].todo :
               \/ up' = [up EXCEPT ![u].todo = @ \ {t}]
               \/ up' = [up EXCEPT ![u].todo = @ \ {t}, ![u].into[t[1]] = @ \cup {t[2]},
                                   ![u].old[t[1]][t[2]] = Current(t[2], Pkg(u, t[1]))]
        BY <1>0, <1>4, <2>4 DEF Resolve
      <4> DEFINE into == [up[u].into EXCEPT ![t[1]] = @ \cup {t[2]}]
                 old == [up[u].old EXCEPT ![t[1]][t[2]] = Current(t[2], Pkg(u, t[1]))]
      <4>3. \/ up' = [up EXCEPT ![u] = [up[u] EXCEPT !.todo = up[u].todo \ {t}]]
            \/ up' = [up EXCEPT ![u] = [up[u] EXCEPT !.todo = up[u].todo \ {t}, !.into = into, !.old = old]]
        BY <4>2
      <4> HIDE DEF into, old
      <4> QED
        BY <1>0, <4>1, <4>3 DEF UploadType
    <3> QED
      BY <1>1, <3>1, PlainBacks
  <2>5. CASE StoreNames(u) \/ Undone(u) \/ CrashUpload(u)
    BY <1>0, <1>4, <2>5 DEF StoreNames, Undone, CrashUpload
  <2> QED
    BY <2>1, <2>2, <2>3, <2>4, <2>5
<1> QED
  BY <1>2, <1>3, <1>4

\* Every step of an upload or of a starting server lists only what is stored.
LEMMA UploadBacks ==
  ASSUME Publishes, NEW u \in Calls, Acquire(u) \/ UploadStep(u) \/ CrashUpload(u)
  PROVE  Backs(u)
BY ListAnyBacks, BackfillBacks, CaptureBacks, StoreObjectBacks, StoredBacks, CommitBacks, CommitFailsBacks,
   UploadFailsBacks, UndoNewBacks, UndoStoreBacks, UndoAddBacks, OtherBacks DEF UploadStep

\* A step of a call leaves the lease to the others, holds it while it works, and changes a
\* database only while it works.
LEMMA UploadLease ==
  ASSUME Publishes, NEW u \in Calls, Acquire(u) \/ UploadStep(u) \/ CrashUpload(u)
  PROVE  /\ \A x : x # u /\ x # "free" /\ lease = x => (Leased => lease' = x)
         /\ Leased /\ u \in Uploads /\ Working(up'[u]) => lease' = u
         /\ Working(up[u]) \/ UNCHANGED <<db, stored>>
<1>0. /\ Shapes /\ Stepped(u) /\ DOMAIN up = Calls /\ up[u] \in UploadType(up[u].batch)
      /\ LeaseHeld /\ Uploads \cap Starts = {}
  BY UploadShapes, CallShape, PublicationAssumption DEF Publishes, Shapes
<1>1. CASE Acquire(u)
  BY <1>1 DEF Acquire, Take, Free
<1>2. CASE StartServer(u)
  BY <1>0, <1>2 DEF StartServer
<1>3. CASE ~Acquire(u) /\ ~StartServer(u)
  <2>1. Working(up[u])
    BY <1>3 DEF UploadStep, CrashUpload, Accept, AcceptFrom, Probe, InitArch, ListAny, Backfill, Seeded, SeededFrom, Resolve,
       Capture, StoreObject, Stored, Commit, CommitFails, Committed, StoreNames, UploadFails, UndoNew, UndoStore, UndoAdd,
       UndoFails, Undone, Working, Ended
  <2>2. lease' = lease \/ \E res \in Ended : End(u, res)
    <3>1. {"ok", "failed", "conflict", "crashed"} = Ended /\ up[u].err \in Ended
      BY <1>0 DEF Ended, UploadType
    <3> QED
      BY <1>3, <3>1 DEF UploadStep, CrashUpload, Accept, AcceptFrom, Probe, InitArch, ListAny, Backfill, Seeded, SeededFrom, Resolve,
         Capture, StoreObject, Stored, Commit, CommitFails, Committed, StoreNames, UploadFails, UndoNew, UndoStore, UndoAdd,
         UndoFails, Undone, RollBack
  <2>3. CASE lease' = lease
    BY <1>0, <2>1, <2>3 DEF LeaseHeld
  <2>4. CASE \E res \in Ended : End(u, res)
    <3>1. PICK res \in Ended : End(u, res)
      BY <2>4
    <3>2. up'[u].pc \in Ended /\ lease' = IF lease = u THEN "free" ELSE lease
      BY <1>0, <3>1, EndStep DEF End, Release
    <3> QED
      BY <2>1, <3>2 DEF Working
  <2> QED
    BY <2>2, <2>3, <2>4
<1> QED
  BY <1>1, <1>2, <1>3

\* Every step of an upload or of a starting server keeps what the databases list.
LEMMA UploadPublishes ==
  ASSUME Publishes, NoneUnleased, NEW u \in Calls, Acquire(u) \/ UploadStep(u) \/ CrashUpload(u)
  PROVE  Publishes'
<1>0. /\ Shapes /\ Stepped(u) /\ Backs(u) /\ LeaseHeld
      /\ \A g \in Collections : g # u /\ g # "free"
      /\ \A v \in Uploads : v # "free"
  BY UploadShapes, UploadBacks, PublicationAssumption DEF Publishes, Calls
<1>1. Shapes'
  BY <1>0, SteppedShapes
<1>2. Served(db', obj')
  BY <1>0 DEF Backs
<1>3. LeaseHeld'
  <2> SUFFICES ASSUME Leased
               PROVE  /\ \A v \in Uploads : Working(up'[v]) => lease' = v
                      /\ \A g \in Collections : Reading(gc'[g]) => lease' = g
    BY DEF LeaseHeld
  <2>1. ASSUME NEW v \in Uploads, Working(up'[v]) PROVE lease' = v
    <3>1. CASE v = u
      BY <2>1, <3>1, UploadLease
    <3>2. CASE v # u
      <4>1. up'[v] = up[v]
        BY <1>0, <3>2 DEF Stepped, Calls
      <4> QED
        BY <1>0, <2>1, <3>2, <4>1, UploadLease DEF LeaseHeld
    <3> QED
      BY <3>1, <3>2
  <2>2. ASSUME NEW g \in Collections, Reading(gc'[g]) PROVE lease' = g
    BY <1>0, <2>2, UploadLease DEF LeaseHeld, Stepped
  <2> QED
    BY <2>1, <2>2
<1>4. \A v \in Calls : Backed(up'[v], obj')
  <2> SUFFICES ASSUME NEW v \in Calls PROVE Backed(up'[v], obj')
    OBVIOUS
  <2>1. CASE v = u
    BY <1>0, <2>1 DEF Backs
  <2>2. CASE v # u
    <3>1. up'[v] = up[v] /\ Backed(up[v], obj) /\ Kept(obj, obj')
      BY <1>0, <2>2 DEF Stepped, Publishes, Backs
    <3>2. up[v].batch \in Seq(Package) /\ up[v] \in UploadType(up[v].batch) /\ Shaped(up[v], stored)
      BY <1>0, CallShape
    <3> QED
      BY <3>1, <3>2, BackedKept
  <2> QED
    BY <2>1, <2>2
<1>5. ASSUME Leased, NEW g \in Collections PROVE Knows(gc'[g], db', stored')
  <2>1. gc' = gc /\ Knows(gc[g], db, stored) /\ u \in Uploads
    BY <1>0, <1>5 DEF Stepped, Publishes, NoneUnleased, Calls
  <2>2. CASE Working(up[u])
    <3>1. ~Reading(gc[g])
      BY <1>0, <1>5, <2>1, <2>2 DEF LeaseHeld
    <3> QED
      BY <2>1, <3>1 DEF Knows, Reading
  <2>3. CASE ~Working(up[u])
    BY <2>1, <2>3, UploadLease
  <2> QED
    BY <2>2, <2>3
<1> QED
  BY <1>1, <1>2, <1>3, <1>4, <1>5 DEF Publishes

\* A collection takes its turn, and gives it back.
LEMMA CollectionLease ==
  ASSUME Publishes, NEW g \in Collections, GCBegin(g) \/ CollectionStep(g) \/ GCStops(g)
  PROVE  LeaseHeld'
<1>0. /\ up' = up /\ gc \in [Collections -> CollectionType] /\ LeaseHeld
      /\ \A v \in Uploads : v # g /\ v # "free"
      /\ \A h \in Collections : h # "free"
  BY PublicationAssumption DEF Publishes, Shapes, GCBegin, CollectionStep, GCRead, GCSweep, GCStops
<1> SUFFICES ASSUME Leased
             PROVE  /\ \A v \in Uploads : Working(up[v]) => lease' = v
                    /\ \A h \in Collections : Reading(gc'[h]) => lease' = h
  BY <1>0 DEF LeaseHeld
<1>1. CASE GCBegin(g)
  <2>1. lease = "free" /\ lease' = g
    BY <1>1 DEF GCBegin, Free, Take
  <2>2. \A h \in Collections : h # g => gc'[h] = gc[h]
    BY <1>0, <1>1 DEF GCBegin
  <2> QED
    BY <1>0, <2>1, <2>2 DEF LeaseHeld
<1>2. CASE ~GCBegin(g)
  <2>1. Reading(gc[g])
    BY <1>2 DEF CollectionStep, GCRead, GCSweep, GCStops, Reading
  <2>2. lease = g
    BY <1>0, <2>1 DEF LeaseHeld
  <2>3. CASE \E res \in Ended : EndCollection(g, res)
    <3>1. PICK res \in Ended : EndCollection(g, res)
      BY <2>3
    <3>2. gc'[g].pc = res /\ \A h \in Collections : h # g => gc'[h] = gc[h]
      BY <1>0, <3>1 DEF EndCollection
    <3>3. ~Reading(gc'[g])
      BY <3>2 DEF Reading, Ended
    <3> QED
      BY <1>0, <2>2, <3>2, <3>3 DEF LeaseHeld
  <2>4. CASE ~ \E res \in Ended : EndCollection(g, res)
    <3>1. lease' = lease
      BY <1>2, <2>4 DEF CollectionStep, GCRead, GCSweep, GCStops, Ended
    <3>2. \A h \in Collections : h # g => gc'[h] = gc[h]
      BY <1>0, <1>2, <2>4 DEF CollectionStep, GCRead, GCSweep, GCStops, Ended
    <3> QED
      BY <1>0, <2>2, <3>1, <3>2 DEF LeaseHeld
  <2> QED
    BY <2>3, <2>4
<1> QED
  BY <1>1, <1>2

\* What a collection has read of the databases stays true while it holds the lease.
LEMMA CollectionKnows ==
  ASSUME Publishes, Leased, NEW g \in Collections, GCBegin(g) \/ CollectionStep(g) \/ GCStops(g)
  PROVE  \A h \in Collections : Knows(gc'[h], db', stored')
<1>0. /\ db' = db /\ stored' = stored /\ gc \in [Collections -> CollectionType]
      /\ \A h \in Collections : Knows(gc[h], db, stored)
  BY DEF Publishes, Shapes, GCBegin, CollectionStep, GCRead, GCSweep, GCStops
<1>1. gc[g] \in CollectionType /\ DOMAIN gc = Collections
  BY <1>0
<1>2. CASE \E res \in Ended : EndCollection(g, res)
  <2>1. PICK res \in Ended : EndCollection(g, res)
    BY <1>2
  <2>2. gc'[g].pc = res /\ \A h \in Collections : h # g => gc'[h] = gc[h]
    BY <1>0, <2>1 DEF EndCollection
  <2>3. Knows(gc'[g], db, stored)
    BY <2>2 DEF Knows, Reading, Ended
  <2> QED
    BY <1>0, <2>2, <2>3
<1>3. CASE GCBegin(g)
  <2>1. gc'[g].pc = "read" /\ gc'[g].todo = stored /\ \A h \in Collections : h # g => gc'[h] = gc[h]
    BY <1>0, <1>1, <1>3 DEF GCBegin, CollectionType
  <2>2. Knows(gc'[g], db, stored)
    BY <2>1 DEF Knows
  <2> QED
    BY <1>0, <2>1, <2>2
<1>4. CASE GCRead(g)
  <2>0. gc[g].pc = "read" /\ \A a \in stored \ gc[g].todo : AnyRefs(db, a) \subseteq gc[g].any
    BY <1>0, <1>4 DEF GCRead, Knows, Reading
  <2>1. CASE \E a \in gc[g].todo :
               gc' = [gc EXCEPT ![g].pc = "sweep", ![g].dir = a, ![g].todo = @ \ {a}, ![g].refs = Referenced(a),
                                ![g].any = @ \cup {f \in Referenced(a) : f[2] = "any"}]
    <3>1. PICK a \in gc[g].todo :
               gc' = [gc EXCEPT ![g] = [gc[g] EXCEPT !.pc = "sweep", !.dir = a, !.todo = gc[g].todo \ {a}, !.refs = Referenced(a),
                                !.any = gc[g].any \cup {f \in Referenced(a) : f[2] = "any"}]]
      BY ZenonT(60), <2>1
    <3>2. /\ gc'[g].pc = "sweep" /\ gc'[g].dir = a /\ gc'[g].todo = gc[g].todo \ {a} /\ gc'[g].refs = Referenced(a)
          /\ gc'[g].any = gc[g].any \cup {f \in Referenced(a) : f[2] = "any"}
          /\ \A h \in Collections : h # g => gc'[h] = gc[h]
      BY <1>1, <3>1 DEF CollectionType
    <3>3. Referenced(a) = RefsOf(db, a) /\ a \in Arches
      BY <1>1 DEF Referenced, RefsOf, CollectionType
    <3>4. \A c \in stored \ gc'[g].todo : AnyRefs(db, c) \subseteq gc'[g].any
      BY <2>0, <3>2, <3>3 DEF AnyRefs
    <3>5. Knows(gc'[g], db, stored)
      BY <3>2, <3>3, <3>4 DEF Knows
    <3> QED
      BY <1>0, <3>2, <3>5
  <2>2. CASE gc[g].todo = {} /\ gc' = [gc EXCEPT ![g].pc = "sweep", ![g].dir = "any", ![g].refs = gc[g].any]
    <3>1. /\ gc'[g].pc = "sweep" /\ gc'[g].dir = "any" /\ gc'[g].todo = {} /\ gc'[g].refs = gc[g].any /\ gc'[g].any = gc[g].any
          /\ \A h \in Collections : h # g => gc'[h] = gc[h]
      BY <1>1, <2>2 DEF CollectionType
    <3>2. Knows(gc'[g], db, stored)
      BY <2>0, <2>2, <3>1 DEF Knows
    <3> QED
      BY <1>0, <3>1, <3>2
  <2> QED
    BY <1>4, <2>1, <2>2 DEF GCRead
<1>5. CASE GCSweep(g) /\ ~ \E res \in Ended : EndCollection(g, res)
  <2>0. gc[g].pc = "sweep" /\ \A a \in stored \ gc[g].todo : AnyRefs(db, a) \subseteq gc[g].any
    BY <1>0, <1>5 DEF GCSweep, Knows, Reading
  <2>1. gc' = [gc EXCEPT ![g].pc = "read", ![g].refs = {}, ![g].dir = "none"]
    BY <1>5 DEF GCSweep, Ended
  <2>2. /\ gc'[g].pc = "read" /\ gc'[g].todo = gc[g].todo /\ gc'[g].any = gc[g].any
        /\ \A h \in Collections : h # g => gc'[h] = gc[h]
    BY <1>1, <2>1 DEF CollectionType
  <2>3. Knows(gc'[g], db, stored)
    BY <2>0, <2>2 DEF Knows
  <2> QED
    BY <1>0, <2>2, <2>3
<1> QED
  BY <1>2, <1>3, <1>4, <1>5 DEF CollectionStep, GCStops, Ended

\* An object that a database lists is no orphan.
LEMMA OrphansUnlisted ==
  ASSUME Publishes, Leased, NEW g \in Collections, gc[g].pc = "sweep", NEW a \in Arches, NEW n \in Names, db[a][n] # NoEntry
  PROVE  FileOf(n, db[a][n]) \notin Orphans(g)
<1> DEFINE f == FileOf(n, db[a][n])
<1>1. f \in RefsOf(db, a) /\ f[2] = db[a][n].store
  BY DEF RefsOf, FileOf
<1>2. db[a][n].store \in {a, "any"} /\ a \in stored
  BY DEF Publishes, Shapes, Databases, Belongs
<1>3. Knows(gc[g], db, stored)
  BY DEF Publishes
<1>4. CASE gc[g].dir \in Arches /\ RefsOf(db, gc[g].dir) \subseteq gc[g].refs
  <2>1. f[2] = gc[g].dir => a = gc[g].dir
    BY <1>1, <1>2, <1>4, ConstantFacts
  <2> QED
    BY <1>1, <1>4, <2>1 DEF Orphans
<1>5. CASE gc[g].dir = "any" /\ \A b \in stored : AnyRefs(db, b) \subseteq gc[g].refs
  BY <1>1, <1>2, <1>5 DEF Orphans, AnyRefs
<1> QED
  BY <1>3, <1>4, <1>5 DEF Knows

\* A collection takes away only what no database lists, and nobody will list.
LEMMA CollectionPublishes ==
  ASSUME Publishes, NoneUnleased \/ Calls = {}, NEW g \in Collections, GCBegin(g) \/ CollectionStep(g) \/ GCStops(g)
  PROVE  Publishes'
<1>0. Shapes' /\ LeaseHeld' /\ (Leased => \A h \in Collections : Knows(gc'[h], db', stored'))
  BY CollectionShapes, CollectionLease, CollectionKnows DEF Publishes
<1>1. db' = db /\ up' = up /\ obj \in [File -> Object \cup {NoObject}] /\ db \in [Arches -> Database]
  BY DEF GCBegin, CollectionStep, GCRead, GCSweep, GCStops, Publishes, Shapes, Databases
<1>2. CASE obj' = obj
  BY <1>0, <1>1, <1>2 DEF Publishes
<1>3. CASE obj' # obj
  <2>1. GCSweep(g)
    BY <1>3 DEF GCBegin, CollectionStep, GCRead, GCStops
  <2>2. Leased
    BY <1>1, <1>3, <2>1 DEF GCSweep
  <2>3. PICK gone \in SUBSET Orphans(g) : obj' = [f \in File |-> IF f \in gone THEN NoObject ELSE obj[f]]
    BY <2>1, <2>2 DEF GCSweep
  <2>4. \A a \in Arches, n \in Names : db[a][n] # NoEntry => Held(obj', n, db[a][n])
    <3> SUFFICES ASSUME NEW a \in Arches, NEW n \in Names, db[a][n] # NoEntry PROVE Held(obj', n, db[a][n])
      OBVIOUS
    <3>1. FileOf(n, db[a][n]) \notin gone
      BY <2>1, <2>2, OrphansUnlisted DEF GCSweep
    <3>2. FileOf(n, db[a][n]) \in File
      BY <1>1 DEF Database, FileOf, File, Entry
    <3>3. Held(obj, n, db[a][n])
      BY DEF Publishes, Served
    <3> QED
      BY <2>3, <3>1, <3>2, <3>3 DEF Held
  <2>5. ASSUME NEW u \in Calls PROVE ~Working(up[u])
    <3>1. u \in Uploads /\ u # g
      BY <2>2, PublicationAssumption DEF NoneUnleased, Calls
    <3>2. lease = g
      BY <2>1, <2>2 DEF GCSweep, Publishes, LeaseHeld, Reading
    <3> QED
      BY <2>2, <3>1, <3>2 DEF Publishes, LeaseHeld
  <2>6. \A u \in Calls : Backed(up[u], obj')
    BY <2>5 DEF Working, Backed, Ended
  <2> QED
    BY <1>0, <1>1, <2>4, <2>6 DEF Publishes, Served
<1> QED
  BY <1>2, <1>3

\* That time passes takes no bytes away.
LEMMA AgePublishes ==
  ASSUME Publishes, Age
  PROVE  Publishes'
<1>1. Shapes' /\ UNCHANGED <<db, stored, lease, up, gc>>
  BY AgeShapes DEF Publishes, Age
<1>2. \A f \in File : obj'[f].build = obj[f].build
  <2> SUFFICES ASSUME NEW f \in File PROVE obj'[f].build = obj[f].build
    OBVIOUS
  <2>1. obj[f] \in Object \cup {NoObject}
    BY DEF Publishes, Shapes
  <2>2. obj'[f] = IF obj[f] = NoObject THEN NoObject ELSE [obj[f] EXCEPT !.old = TRUE]
    BY DEF Age
  <2> QED
    BY <2>1, <2>2 DEF Object
<1>3. Kept(obj, obj')
  BY <1>2 DEF Kept
<1>4. \A u \in Calls : Backed(up[u], obj')
  <2> SUFFICES ASSUME NEW u \in Calls PROVE Backed(up[u], obj')
    OBVIOUS
  <2>1. up[u].batch \in Seq(Package) /\ up[u] \in UploadType(up[u].batch) /\ Shaped(up[u], stored) /\ Backed(up[u], obj)
    BY CallShape DEF Publishes
  <2> QED
    BY <1>3, <2>1, BackedKept
<1>5. Served(db, obj')
  BY <1>3, ServedKept DEF Publishes, Shapes, Databases
<1> QED
  BY <1>1, <1>4, <1>5 DEF Publishes, LeaseHeld

\* A repository at rest serves what it lists, and nobody works.
LEMMA InitPublishes == Init => Publishes
<1> SUFFICES ASSUME Init PROVE Publishes
  OBVIOUS
<1>1. Shapes /\ Served(db, obj)
  BY InitShapes DEF Served, Held
<1>2. ASSUME NEW u \in Calls PROVE up[u].pc = "idle"
  BY DEF Init, Idle, Calls
<1>3. \A g \in Collections : gc[g].pc = "idle"
  BY DEF Init
<1> QED
  BY <1>1, <1>2, <1>3 DEF Publishes, LeaseHeld, Working, Reading, Backed, Knows, Calls

\* What a database lists can be downloaded and has the bytes the entry describes, however many
\* uploads, servers, failures and crashes there are: an object is stored before it is listed and
\* never overwritten, and the lease keeps a collection away from it.  The calls that take no lease
\* are left out: RemovePkg (see README, section 6), and a starting server beside a collection.
THEOREM ListedIsStored == NoneUnleased => (Spec => []NoDanglingEntry)
<1> SUFFICES ASSUME NoneUnleased PROVE Spec => []NoDanglingEntry
  OBVIOUS
<1>2. Publishes /\ [Next]_vars => Publishes'
  <2> SUFFICES ASSUME Publishes, [Next]_vars PROVE Publishes'
    OBVIOUS
  <2>1. CASE UNCHANGED vars
    <3>1. Shapes'
      BY NextShapes DEF Publishes
    <3> QED
      BY <2>1, <3>1 DEF Publishes, LeaseHeld, vars
  <2>2. CASE Next
    BY <2>2, UploadPublishes, CollectionPublishes, AgePublishes DEF Next, NoneUnleased, Calls
  <2> QED
    BY <2>1, <2>2
<1>3. Publishes => NoDanglingEntry
  BY DEF Publishes, Served, Held, NoDanglingEntry
<1> QED
  BY InitPublishes, <1>2, <1>3, PTL DEF Spec

(***************************************************************************)
(* Removals, which take no lease, among themselves and beside collections. *)
(***************************************************************************)

\* A database lists a file.
ListsIn(d, a, f) == d[a][f[1]] # NoEntry /\ FileOf(f[1], d[a][f[1]]) = f

\* What a removal knows between its steps: which databases do not list its file any more, so that
\* none does when the file goes.  Without uploads no entry comes back.
Unlists(r, d, there) ==
  /\ r.pc \in {"db", "check", "delete"} => r.file \in File /\ r.file[1] = r.req.name
  /\ r.pc \in {"db", "check"} => there \subseteq r.known
  /\ r.pc = "db" =>
        IF r.file[2] = "any" /\ r.req.arch # "any" THEN r.todo \subseteq {r.req.arch}
        ELSE \A a \in Arches \ r.todo : ~ListsIn(d, a, r.file)
  /\ r.pc = "check" => r.req.arch \in Arches /\ d[r.req.arch][r.req.name] = NoEntry
  /\ r.pc = "delete" => \A a \in Arches : ~ListsIn(d, a, r.file)

\* Entries only go.
Shrinks(d, d2) == \A a \in Arches, n \in Names : d2[a][n] \in {d[a][n], NoEntry}

Removes == Publishes /\ \A r \in Removals : Unlists(rm[r], db, stored)

\* What a removal or a collection knows stays true when entries go, and so does what is served.
LEMMA UnlistsShrunk ==
  ASSUME NEW r \in RemovalType, NEW d, NEW d2, NEW there, Shrinks(d, d2), Unlists(r, d, there)
  PROVE  Unlists(r, d2, there)
<1>1. ASSUME NEW a \in Arches, NEW f \in File, ListsIn(d2, a, f) PROVE ListsIn(d, a, f)
  <2>1. f[1] \in Names
    BY DEF File
  <2> QED
    BY <1>1, <2>1 DEF ListsIn, Shrinks
<1>2. r.req.name \in Names
  BY DEF RemovalType
<1>3. r.pc = "check" => d2[r.req.arch][r.req.name] = NoEntry
  BY <1>2 DEF Unlists, Shrinks
<1>4. CASE r.pc \notin {"db", "delete"}
  BY <1>3, <1>4 DEF Unlists
<1>5. CASE r.pc \in {"db", "delete"}
  <2>1. r.file \in File
    BY <1>5 DEF Unlists
  <2>2. \A a \in Arches : ~ListsIn(d, a, r.file) => ~ListsIn(d2, a, r.file)
    BY <1>1, <2>1
  <2> QED
    BY <1>5, <2>2 DEF Unlists
<1> QED
  BY <1>4, <1>5

LEMMA KnowsShrunk ==
  ASSUME NEW c, NEW d, NEW d2, NEW there, there \subseteq Arches, Shrinks(d, d2), Knows(c, d, there)
  PROVE  Knows(c, d2, there)
<1>1. \A a \in Arches : RefsOf(d2, a) \subseteq RefsOf(d, a)
  BY DEF RefsOf, Shrinks
<1>2. \A a \in Arches : AnyRefs(d2, a) \subseteq AnyRefs(d, a)
  BY <1>1 DEF AnyRefs
<1> QED
  BY <1>1, <1>2 DEF Knows

LEMMA ServedShrunk ==
  ASSUME NEW d, NEW d2, NEW ob, Shrinks(d, d2), Served(d, ob)
  PROVE  Served(d2, ob)
<1>1. \A a \in Arches, n \in Names : d2[a][n] # NoEntry => d2[a][n] = d[a][n]
  BY DEF Shrinks
<1> QED
  BY <1>1 DEF Served

\* One entry goes.
LEMMA EntryGone ==
  ASSUME Shapes, NEW a \in Arches, NEW n \in Names, NEW d, d = [db EXCEPT ![a][n] = NoEntry]
  PROVE  Shrinks(db, d) /\ d[a][n] = NoEntry
<1>1. db \in [Arches -> Database] /\ db[a] \in Database
  BY DEF Shapes, Databases
<1>2. DOMAIN db[a] = Names
  BY <1>1 DEF Database
<1>3. d[a][n] = NoEntry
  BY <1>1, <1>2
<1>4. ASSUME NEW b \in Arches, NEW m \in Names PROVE d[b][m] \in {db[b][m], NoEntry}
  <2>1. CASE b = a
    BY <1>1, <1>2, <2>1
  <2>2. CASE b # a
    BY <1>1, <2>2
  <2> QED
    BY <2>1, <2>2
<1> QED
  BY <1>3, <1>4 DEF Shrinks

\* A removal changes the entries and objects of nobody else.
LEMMA RemovalPublishes ==
  ASSUME Removes, Calls = {}, Shapes', NEW r \in Removals, UNCHANGED <<stored, lease, up, gc>>,
         Shrinks(db, db'), Served(db', obj'), Unlists(rm'[r], db', stored),
         \A q \in Removals : q # r => rm'[q] = rm[q]
  PROVE  Removes'
<1>1. \A q \in Removals : q # r => Unlists(rm'[q], db', stored)
  <2> SUFFICES ASSUME NEW q \in Removals, q # r PROVE Unlists(rm[q], db', stored)
    OBVIOUS
  <2>1. rm[q] \in RemovalType /\ Unlists(rm[q], db, stored)
    BY DEF Removes, Publishes, Shapes
  <2> QED
    BY <2>1, UnlistsShrunk
<1>2. LeaseHeld'
  BY DEF Removes, Publishes, LeaseHeld, Reading
<1>3. Leased => \A g \in Collections : Knows(gc[g], db', stored)
  <2>1. stored \subseteq Arches
    BY DEF Removes, Publishes, Shapes, Databases
  <2> QED
    BY <2>1, KnowsShrunk DEF Removes, Publishes
<1>4. Publishes'
  BY <1>2, <1>3 DEF Publishes
<1> QED
  BY <1>1, <1>4 DEF Removes

\* A step may leave the databases alone.
LEMMA SameShrinks == Shrinks(db, db)
BY DEF Shrinks

\* A removal that ends promises nothing.
LEMMA EndRemovalEffect ==
  ASSUME Shapes, NEW r \in Removals, NEW res \in Ended, EndRemoval(r, res), NEW d, NEW there
  PROVE  Unlists(rm'[r], d, there) /\ \A q \in Removals : q # r => rm'[q] = rm[q]
<1>1. rm \in [Removals -> RemovalType] /\ rm[r] \in RemovalType
  BY DEF Shapes
<1>2. rm'[r].pc = res /\ \A q \in Removals : q # r => rm'[q] = rm[q]
  BY <1>1 DEF EndRemoval, RemovalType
<1> QED
  BY <1>2 DEF Unlists, Ended

\* resolvePackage picks every database that may list the file, or the one that was asked for.
LEMMA RmResolveRemoves ==
  ASSUME Removes, Calls = {}, Shapes', NEW r \in Removals, RmResolve(r)
  PROVE  Removes'
<1>0. rm[r] \in RemovalType /\ rm \in [Removals -> RemovalType] /\ "failed" \in Ended /\ Shapes
  BY DEF Removes, Publishes, Shapes, Ended
<1>a. UNCHANGED <<db, stored, obj, lease, up, gc>> /\ Served(db', obj')
  BY DEF RmResolve, Removes, Publishes
<1>b. stored \subseteq Arches /\ RepoArches = stored
  BY <1>0 DEF Shapes, Databases, RepoArches
<1>1. PICK arches \in SUBSET Arches : RmResolveAmong(r, arches)
  BY DEF RmResolve
<1>2. Unlists(rm'[r], db, stored) /\ \A q \in Removals : q # r => rm'[q] = rm[q]
  <2>1. CASE EndRemoval(r, "failed")
    BY <1>0, <2>1, EndRemovalEffect
  <2>2. CASE ~EndRemoval(r, "failed")
    <3> DEFINE q == rm[r].req
               listing(as) == {a \in as : db[a][q.name] # NoEntry}
               first == {q.arch} \cap arches
               found == IF listing(first) # {} THEN first ELSE listing(RepoArches \cap arches)
    <3>1. PICK a \in found :
             LET store == db[a][q.name].store
             IN /\ ~(store \notin {"any", q.arch} /\ q.arch # "any")
                /\ rm' = [rm EXCEPT ![r].pc = "db", ![r].file = FileOf(q.name, db[a][q.name]), ![r].known = RepoArches,
                             ![r].todo = IF store # "any" THEN {store}
                                         ELSE IF q.arch = "any" THEN RepoArches ELSE {q.arch}]
      BY <1>1, <2>2 DEF RmResolveAmong
    <3>2. q.name \in Names /\ q.arch \in Stores
      BY <1>0 DEF RemovalType
    <3>3. a \in Arches /\ db[a][q.name] # NoEntry
      BY <1>1, <3>1
    <3> DEFINE e == db[a][q.name]
               todo == IF e.store # "any" THEN {e.store} ELSE IF q.arch = "any" THEN RepoArches ELSE {q.arch}
    <3>4. e \in Entry
      BY <1>0, <3>2, <3>3 DEF Shapes, Databases, Database
    <3>5. /\ rm'[r].pc = "db" /\ rm'[r].file = FileOf(q.name, e) /\ rm'[r].known = stored
          /\ rm'[r].todo = todo /\ rm'[r].req = q
          /\ \A p \in Removals : p # r => rm'[p] = rm[p]
      BY <1>0, <1>b, <3>1 DEF RemovalType
    <3>6. FileOf(q.name, e) \in File /\ FileOf(q.name, e)[1] = q.name /\ FileOf(q.name, e)[2] = e.store
      BY <3>2, <3>4 DEF FileOf, File, Entry
    <3>7. \A b \in Arches : ListsIn(db, b, FileOf(q.name, e)) => b \in stored /\ (e.store = b \/ e.store = "any")
      <4> SUFFICES ASSUME NEW b \in Arches, ListsIn(db, b, FileOf(q.name, e))
                   PROVE  b \in stored /\ (e.store = b \/ e.store = "any")
        OBVIOUS
      <4>1. db[b][q.name] # NoEntry /\ FileOf(q.name, db[b][q.name]) = FileOf(q.name, e)
        BY <3>6 DEF ListsIn
      <4>2. db[b][q.name].store = e.store
        BY <4>1 DEF FileOf
      <4>3. Belongs(db[b][q.name], b, stored)
        BY <1>0, <3>2, <4>1 DEF Shapes, Databases
      <4> QED
        BY <4>2, <4>3 DEF Belongs
    <3> HIDE DEF e, q
    <3>8. Unlists(rm'[r], db, stored)
      <4>1. CASE e.store = "any" /\ q.arch # "any"
        <5>1. todo = {q.arch}
          BY <4>1
        <5> QED
          BY <3>5, <3>6, <4>1, <5>1 DEF Unlists
      <4>2. CASE e.store = "any" /\ q.arch = "any"
        <5>1. todo = stored
          BY <1>b, <4>2
        <5> QED
          BY <3>5, <3>6, <3>7, <5>1, <4>2 DEF Unlists
      <4>3. CASE e.store # "any"
        <5>1. todo = {e.store}
          BY <4>3
        <5> QED
          BY <3>5, <3>6, <3>7, <5>1, <4>3 DEF Unlists
      <4> QED
        BY <4>1, <4>2, <4>3
    <3> QED
      BY <3>5, <3>8
  <2> QED
    BY <2>1, <2>2
<1> QED
  BY <1>a, <1>2, SameShrinks, RemovalPublishes

\* RepoRemove: the database no longer lists the file.
LEMMA RmDBRemoves ==
  ASSUME Removes, Calls = {}, Shapes', NEW r \in Removals, RmDB(r)
  PROVE  Removes'
<1>0. rm[r] \in RemovalType /\ rm \in [Removals -> RemovalType] /\ "failed" \in Ended /\ Shapes
  BY DEF Removes, Publishes, Shapes, Ended
<1>a. UNCHANGED <<stored, obj, lease, up, gc>> /\ rm[r].pc = "db" /\ Unlists(rm[r], db, stored) /\ Served(db, obj)
  BY DEF RmDB, Removes, Publishes
<1>b. rm[r].req.name \in Names /\ rm[r].todo \subseteq Arches
  BY <1>0 DEF RemovalType
<1>1. CASE EndRemoval(r, "failed") /\ UNCHANGED db
  <2>1. Unlists(rm'[r], db', stored) /\ \A q \in Removals : q # r => rm'[q] = rm[q]
    BY <1>0, <1>1, EndRemovalEffect
  <2>2. Shrinks(db, db') /\ Served(db', obj')
    BY <1>a, <1>1, SameShrinks
  <2> QED
    BY <1>a, <2>1, <2>2, RemovalPublishes
<1>2. CASE ~(EndRemoval(r, "failed") /\ UNCHANGED db)
  <2> DEFINE n == rm[r].req.name
             f == rm[r].file
  <2>1. PICK a \in rm[r].todo :
          /\ db' = [db EXCEPT ![a][n] = NoEntry]
          /\ rm' = [rm EXCEPT ![r].todo = @ \ {a},
                      ![r].pc = IF rm[r].todo # {a} THEN "db" ELSE IF OneArch(r) THEN "check" ELSE "delete"]
    BY <1>2 DEF RmDB
  <2>2. a \in Arches /\ Shrinks(db, db') /\ db'[a][n] = NoEntry
    BY <1>0, <1>b, <2>1, EntryGone
  <2>3. /\ rm'[r].pc = IF rm[r].todo # {a} THEN "db" ELSE IF OneArch(r) THEN "check" ELSE "delete"
        /\ rm'[r].todo = rm[r].todo \ {a} /\ rm'[r].req = rm[r].req /\ rm'[r].file = f /\ rm'[r].known = rm[r].known
        /\ \A q \in Removals : q # r => rm'[q] = rm[q]
    BY <1>0, <2>1 DEF RemovalType
  <2>4. f \in File /\ f[1] = n /\ stored \subseteq rm[r].known
    BY <1>a DEF Unlists
  <2>5. Unlists(rm[r], db', stored)
    BY <1>0, <1>a, <2>2, UnlistsShrunk
  <2>6. Served(db', obj')
    BY <1>a, <2>2, ServedShrunk
  <2>7. ~ListsIn(db', a, f)
    BY <2>2, <2>4 DEF ListsIn
  <2> HIDE DEF f
  <2>8. Unlists(rm'[r], db', stored)
    <3>1. CASE OneArch(r)
      <4>1. rm[r].todo = {a} /\ a = rm[r].req.arch
        BY <1>a, <3>1 DEF Unlists, OneArch, f
      <4>2. rm'[r].pc = "check"
        BY <2>3, <3>1, <4>1
      <4> QED
        BY <2>2, <2>3, <2>4, <4>1, <4>2 DEF Unlists
    <3>2. CASE ~OneArch(r)
      <4>1. \A b \in Arches \ rm[r].todo : ~ListsIn(db', b, f)
        BY <1>a, <2>5, <3>2 DEF Unlists, OneArch, f
      <4>2. \A b \in Arches \ (rm[r].todo \ {a}) : ~ListsIn(db', b, f)
        BY <2>7, <4>1
      <4>3. CASE rm[r].todo # {a}
        <5>1. rm'[r].pc = "db"
          BY <2>3, <4>3
        <5>2. ~(f[2] = "any" /\ rm[r].req.arch # "any")
          BY <3>2 DEF OneArch, f
        <5> QED
          BY <2>3, <2>4, <4>2, <5>1, <5>2 DEF Unlists
      <4>4. CASE rm[r].todo = {a}
        <5>1. rm'[r].pc = "delete" /\ \A b \in Arches : ~ListsIn(db', b, f)
          BY <2>3, <3>2, <4>2, <4>4
        <5> QED
          BY <2>3, <2>4, <5>1 DEF Unlists
      <4> QED
        BY <4>3, <4>4
    <3> QED
      BY <3>1, <3>2
  <2> QED
    BY <1>a, <2>2, <2>3, <2>6, <2>8, RemovalPublishes
<1> QED
  BY <1>1, <1>2

\* stillRegistered: the last architecture that listed the shared file takes it away.
LEMMA RmCheckRemoves ==
  ASSUME Removes, Calls = {}, Shapes', NEW r \in Removals, RmCheck(r)
  PROVE  Removes'
<1>0. rm[r] \in RemovalType /\ rm \in [Removals -> RemovalType] /\ "ok" \in Ended /\ Shapes
  BY DEF Removes, Publishes, Shapes, Ended
<1>a. /\ UNCHANGED <<db, stored, obj, lease, up, gc>> /\ rm[r].pc = "check" /\ Unlists(rm[r], db, stored)
      /\ Served(db', obj') /\ Shrinks(db, db')
  BY SameShrinks DEF RmCheck, Removes, Publishes
<1>1. CASE EndRemoval(r, "ok")
  BY <1>0, <1>a, <1>1, EndRemovalEffect, RemovalPublishes
<1>2. CASE ~EndRemoval(r, "ok")
  <2>1. /\ rm' = [rm EXCEPT ![r].pc = "delete"]
        /\ \A a \in rm[r].known \ {rm[r].req.arch} : db[a][rm[r].req.name] = NoEntry
    BY <1>2 DEF RmCheck
  <2>2. /\ rm'[r].pc = "delete" /\ rm'[r].file = rm[r].file /\ rm'[r].req = rm[r].req
        /\ \A q \in Removals : q # r => rm'[q] = rm[q]
    BY <1>0, <2>1 DEF RemovalType
  <2>3. /\ rm[r].file \in File /\ rm[r].file[1] = rm[r].req.name /\ stored \subseteq rm[r].known
        /\ db[rm[r].req.arch][rm[r].req.name] = NoEntry
    BY <1>a DEF Unlists
  <2>4. \A a \in Arches : db[a][rm[r].req.name] = NoEntry
    <3>1. rm[r].req.name \in Names
      BY <1>0 DEF RemovalType
    <3>2. \A a \in Arches : a \notin stored => db[a][rm[r].req.name] = NoEntry
      BY <1>0, <3>1 DEF Shapes, Databases, Belongs
    <3> QED
      BY <2>1, <2>3, <3>2
  <2>5. \A a \in Arches : ~ListsIn(db', a, rm[r].file)
    BY <1>a, <2>3, <2>4 DEF ListsIn
  <2>6. Unlists(rm'[r], db', stored)
    BY <2>2, <2>3, <2>5 DEF Unlists
  <2> QED
    BY <1>a, <2>2, <2>6, RemovalPublishes
<1> QED
  BY <1>1, <1>2

\* A file that nobody lists may go.
LEMMA DeletedServed ==
  ASSUME Removes, NEW r \in Removals, rm[r].pc = "delete"
  PROVE  Served(db, [obj EXCEPT ![rm[r].file] = NoObject])
<1>1. \A a \in Arches : ~ListsIn(db, a, rm[r].file)
  BY DEF Removes, Unlists
<1>2. ASSUME NEW a \in Arches, NEW n \in Names, db[a][n] # NoEntry
      PROVE  FileOf(n, db[a][n]) # rm[r].file
  <2>1. FileOf(n, db[a][n])[1] = n
    BY DEF FileOf
  <2> QED
    BY <1>1, <1>2, <2>1 DEF ListsIn
<1>3. \A a \in Arches, n \in Names : db[a][n] # NoEntry => FileOf(n, db[a][n]) \in File
  BY DEF Removes, Publishes, Shapes, Databases, Database, FileOf, File, Entry
<1>4. obj \in [File -> Object \cup {NoObject}] /\ Served(db, obj)
  BY DEF Removes, Publishes, Shapes
<1> QED
  BY <1>2, <1>3, <1>4 DEF Served, Held

\* DeleteFile.
LEMMA RmDeleteRemoves ==
  ASSUME Removes, Calls = {}, Shapes', NEW r \in Removals, RmDelete(r)
  PROVE  Removes'
<1>1. PICK res \in {"failed", "ok"} : EndRemoval(r, res)
  BY DEF RmDelete
<1>2. /\ UNCHANGED <<db, stored, lease, up, gc>> /\ Shrinks(db, db') /\ res \in Ended /\ Shapes
  BY SameShrinks DEF RmDelete, Ended, Removes, Publishes
<1>3. Served(db', obj')
  BY DeletedServed DEF RmDelete
<1>4. Unlists(rm'[r], db', stored) /\ \A q \in Removals : q # r => rm'[q] = rm[q]
  BY <1>1, <1>2, EndRemovalEffect
<1> QED
  BY <1>2, <1>3, <1>4, RemovalPublishes

\* A removal that stops has taken away what it was about to, or not.
LEMMA RmStopsRemoves ==
  ASSUME Removes, Calls = {}, Shapes', NEW r \in Removals, RmStops(r)
  PROVE  Removes'
<1>0. rm[r] \in RemovalType /\ Shapes /\ Served(db, obj) /\ UNCHANGED <<stored, lease, up, gc>>
  BY DEF RmStops, Removes, Publishes, Shapes
<1>1. PICK res \in {"failed", "crashed"} : EndRemoval(r, res)
  BY DEF RmStops
<1>2. Unlists(rm'[r], db', stored) /\ \A q \in Removals : q # r => rm'[q] = rm[q]
  BY <1>0, <1>1, EndRemovalEffect DEF Ended
<1>3. CASE rm[r].pc = "delete"
  <2>1. db' = db /\ obj' \in {obj, [obj EXCEPT ![rm[r].file] = NoObject]}
    BY <1>3 DEF RmStops
  <2>2. Served(db', obj') /\ Shrinks(db, db')
    BY <1>0, <1>3, <2>1, DeletedServed, SameShrinks
  <2> QED
    BY <1>0, <1>2, <2>2, RemovalPublishes
<1>4. CASE rm[r].pc # "delete"
  <2>1. obj' = obj /\ (db' = db \/ \E a \in rm[r].todo : db' = [db EXCEPT ![a][rm[r].req.name] = NoEntry])
    BY <1>4 DEF RmStops
  <2>2. rm[r].req.name \in Names /\ rm[r].todo \subseteq Arches
    BY <1>0 DEF RemovalType
  <2>3. Shrinks(db, db')
    BY <1>0, <2>1, <2>2, EntryGone, SameShrinks
  <2>4. Served(db', obj')
    BY <1>0, <2>1, <2>3, ServedShrunk
  <2> QED
    BY <1>0, <1>2, <2>3, <2>4, RemovalPublishes
<1> QED
  BY <1>3, <1>4

\* What a database lists can be downloaded also where packages are removed, for any number of
\* overlapping removals, collections, failures and crashes, with the lease and without it: a file
\* goes after its last entry.  RemovePkg takes no lease, so this is of removals without uploads
\* (see README, section 6).
THEOREM RemovedAfterUnlisted == Calls = {} => (Spec => []NoDanglingEntry)
<1> SUFFICES ASSUME Calls = {} PROVE Spec => []NoDanglingEntry
  OBVIOUS
<1>1. Init => Removes
  <2> SUFFICES ASSUME Init PROVE Removes
    OBVIOUS
  <2>1. \A r \in Removals : rm[r].pc = "idle"
    BY DEF Init
  <2> QED
    BY <2>1, InitPublishes DEF Removes, Unlists
<1>2. Removes /\ [Next]_vars => Removes'
  <2> SUFFICES ASSUME Removes, [Next]_vars PROVE Removes'
    OBVIOUS
  <2>0. Shapes'
    BY NextShapes DEF Removes, Publishes
  <2>1. CASE UNCHANGED vars
    BY <2>0, <2>1 DEF Removes, Publishes, LeaseHeld, vars
  <2>2. ASSUME NEW g \in Collections, GCBegin(g) \/ CollectionStep(g) \/ GCStops(g) PROVE Removes'
    <3>1. UNCHANGED <<db, stored, rm>>
      BY <2>2 DEF GCBegin, CollectionStep, GCRead, GCSweep, GCStops
    <3>2. Publishes'
      BY <2>2, CollectionPublishes DEF Removes
    <3> QED
      BY <3>1, <3>2 DEF Removes
  <2>3. CASE Age
    <3>1. UNCHANGED <<db, stored, rm>>
      BY <2>3 DEF Age
    <3>2. Publishes'
      BY <2>3, AgePublishes DEF Removes
    <3> QED
      BY <3>1, <3>2 DEF Removes
  <2>4. ASSUME NEW r \in Removals, RemovalStep(r) \/ RmStops(r) PROVE Removes'
    BY <2>0, <2>4, RmResolveRemoves, RmDBRemoves, RmCheckRemoves, RmDeleteRemoves, RmStopsRemoves DEF RemovalStep
  <2> QED
    BY <2>1, <2>2, <2>3, <2>4 DEF Next, Calls
<1>3. Removes => NoDanglingEntry
  BY DEF Removes, Publishes, Served, Held, NoDanglingEntry
<1> QED
  BY <1>1, <1>2, <1>3, PTL DEF Spec

(***************************************************************************)
(* Uploads under the lease: a rollback restores, an acknowledgement holds. *)
(***************************************************************************)

\* What takes no lease stays away: no removal and no server that starts.
Exclusive == Leased /\ Removals = {} /\ Starts = {}

\* Every architecture that has a database is declared, and no upload may bring a new one.
Settled == ~AllowNewArch /\ \A s \in Published : s.stored = Declared

\* The entry of an item's package in a database, and the one it had before.
Now(r, d, t) == d[t[2]][r.batch[t[1]].name]
Before(r, t) == r.old[t[1]][t[2]]
New(r, t) == EntryOf(r.batch[t[1]])

\* The call that holds the lease knows the databases: up to its commit they have the entries it
\* found, after it the ones it added, and during its rollback one or the other, as long as no more
\* than one call fails.  The copies of what it replaces are there.
Progress(r, d, ob, fl) ==
  /\ r.pc \notin {"resolve", "store", "commit", "names", "undo", "undoadd"} => IntoOf(r) = {}
  /\ \A s, t \in IntoOf(r) \cup (IF r.pc = "resolve" THEN r.todo ELSE {}) :
        s[2] = t[2] /\ r.batch[s[1]].name = r.batch[t[1]].name => s = t
  /\ r.pc \in {"resolve", "store"} => \A t \in IntoOf(r) : Now(r, d, t) = Before(r, t)
  /\ r.pc \in {"store", "commit", "names", "undo", "undoadd"} =>
        \A t \in IntoOf(r) : Before(r, t) # NoEntry => Held(ob, r.batch[t[1]].name, Before(r, t))
  /\ r.pc = "commit" => \A t \in IntoOf(r) : IF <<0, t[2]>> \in r.todo THEN Now(r, d, t) = Before(r, t)
                                            ELSE Now(r, d, t) = New(r, t) /\ t[2] \in r.committed
  /\ r.pc = "names" => \A t \in IntoOf(r) : Now(r, d, t) = New(r, t) /\ t[2] \in r.committed
  /\ r.pc = "undoadd" => r.at \in r.todo
  /\ r.pc \in {"undo", "undoadd"} /\ MaxFailures <= 1 =>
        /\ r.todo # {} => fl = MaxFailures
        /\ \A t \in IntoOf(r) : Now(r, d, t) = Before(r, t) \/ (t \in r.todo /\ Now(r, d, t) = New(r, t))

\* Every database a package is for is dealt with: the package goes into it, or it has one as new.
Covers(r, d) ==
  /\ r.pc = "seed" => r.todo = {}
  /\ r.pc \notin {"init", "list", "fill"}
  /\ r.pc \in {"resolve", "store", "commit", "names"} =>
        \A i \in DOMAIN r.batch : \A a \in Targets(r.batch[i], Declared) :
            \/ r.pc = "resolve" /\ <<i, a>> \in r.todo
            \/ a \in r.into[i]
            \/ d[a][r.batch[i].name].ver >= r.batch[i].ver

\* An upload that is rolled back is not acknowledged after it.
Blamed(r) == r.pc \in {"undo", "undoadd"} => r.err # "ok"

Alone ==
  /\ Publishes
  /\ \A u \in Uploads : Progress(up[u], db, obj, failures) /\ Blamed(up[u])
  /\ Settled => stored = Declared /\ \A u \in Uploads : Covers(up[u], db)

\* No acknowledged package is older now, or was before an upload that may yet be rolled back.
AckedKept ==
  \A w \in Uploads : up[w].pc = "ok" =>
      \A i \in DOMAIN up[w].batch : \A a \in Targets(up[w].batch[i], Declared) :
          /\ db[a][up[w].batch[i].name].ver >= up[w].batch[i].ver
          /\ \A v \in Uploads : \A t \in IntoOf(up[v]) :
                t[2] = a /\ up[v].batch[t[1]].name = up[w].batch[i].name => Before(up[v], t).ver >= up[w].batch[i].ver

\* The entry a database would have if the call were rolled back.
Base(r, d, a, n, e) ==
  \/ \E t \in IntoOf(r) : t[2] = a /\ r.batch[t[1]].name = n /\ e = Before(r, t)
  \/ e = d[a][n] /\ \A t \in IntoOf(r) : ~(t[2] = a /\ r.batch[t[1]].name = n)
BaseAgrees(r, d) ==
  \A a, b \in Declared, n \in Names, e, f \in Entry \cup {NoEntry} :
      Base(r, d, a, n, e) /\ Base(r, d, b, n, f) /\ e.store = "any" => f.ver >= e.ver
Agrees(d) == \A a, b \in Declared, n \in Names : d[a][n].store = "any" => d[b][n].ver >= d[a][n].ver

\* The databases agree on the packages of architecture any, or would after a rollback.
AgreesAtRest ==
  (\A u \in Uploads : up[u].pc # "crashed") =>
      /\ \A u \in Uploads : Working(up[u]) => BaseAgrees(up[u], db)
      /\ (\A u \in Uploads : ~Working(up[u])) => Agrees(db)

\* What is known of one upload.
LEMMA UploadFacts ==
  ASSUME Alone, NEW u \in Uploads
  PROVE  /\ Publishes /\ Shapes /\ u \in Calls /\ DOMAIN up = Calls
         /\ up[u] \in UploadType(up[u].batch) /\ up[u].batch \in Seq(Package) /\ Shaped(up[u], stored)
         /\ Backed(up[u], obj) /\ Progress(up[u], db, obj, failures) /\ db \in [Arches -> Database]
BY CallShape DEF Alone, Publishes, Shapes, Databases, Calls

\* A package of a batch, and its entry before.
LEMMA ItemFacts ==
  ASSUME Alone, NEW u \in Uploads, NEW t \in IntoOf(up[u])
  PROVE  /\ t[1] \in DOMAIN up[u].batch /\ t[2] \in Arches /\ t[2] \in up[u].into[t[1]] /\ t = <<t[1], t[2]>>
         /\ up[u].batch[t[1]] \in Package /\ up[u].batch[t[1]].name \in Names
         /\ Before(up[u], t) \in Entry \cup {NoEntry} /\ New(up[u], t) \in Entry
         /\ Before(up[u], t).ver < New(up[u], t).ver
<1>0. up[u] \in UploadType(up[u].batch) /\ up[u].batch \in Seq(Package) /\ Shaped(up[u], stored)
  BY UploadFacts
<1>1. t[1] \in DOMAIN up[u].batch /\ t[2] \in Arches /\ t[2] \in up[u].into[t[1]] /\ t = <<t[1], t[2]>>
  BY DEF IntoOf
<1>2. up[u].batch[t[1]] \in Package /\ up[u].batch[t[1]].name \in Names /\ New(up[u], t) \in Entry
      /\ New(up[u], t).ver = up[u].batch[t[1]].ver
  BY <1>0, <1>1, ConstantFacts DEF New, EntryOf
<1>3. Before(up[u], t) \in Entry \cup {NoEntry}
  BY <1>0, <1>1 DEF Before, UploadType
<1>4. Before(up[u], t).ver < up[u].batch[t[1]].ver
  BY <1>0 DEF Before, Shaped
<1> QED
  BY <1>1, <1>2, <1>3, <1>4

\* A call that will publish nothing is at ease with every database.
LEMMA RestProgress ==
  ASSUME NEW r, IntoOf(r) = {}, r.pc \notin {"resolve", "store", "commit", "names", "undo", "undoadd"}
  PROVE  \A d, ob, fl : Progress(r, d, ob, fl)
BY DEF Progress

\* A call that has ended will publish nothing.
LEMMA EndProgress ==
  ASSUME Alone, NEW u \in Uploads, NEW res \in Ended, End(u, res)
  PROVE  \A d, ob, fl : Progress(up'[u], d, ob, fl)
<1>1. IntoOf(up'[u]) = {} /\ up'[u].pc \in Ended
  BY UploadFacts, EndStep
<1> QED
  BY <1>1, RestProgress DEF Ended

\* Before the version gate there is nothing to account for.
LEMMA SeedingProgress ==
  ASSUME Alone, NEW u \in Uploads,
         Acquire(u) \/ Accept(u) \/ Probe(u) \/ InitArch(u) \/ ListAny(u) \/ Backfill(u)
  PROVE  Progress(up'[u], db', obj', failures')
<1>0. up[u] \in UploadType(up[u].batch) /\ DOMAIN up = Calls /\ u \in Calls /\ Progress(up[u], db, obj, failures) /\ "failed" \in Ended
  BY UploadFacts DEF Ended
<1>1. up[u].pc \in {"idle", "accept", "seed", "init", "list", "fill"}
  BY DEF Acquire, Accept, AcceptFrom, Probe, InitArch, ListAny, Backfill
<1>2. IntoOf(up[u]) = {}
  BY <1>0, <1>1 DEF Progress
<1>3. CASE End(u, "failed")
  BY <1>0, <1>3, EndProgress
<1>4. CASE ~End(u, "failed")
  <2>1. /\ up'[u].pc \in {"accept", "seed", "init", "list", "fill"}
        /\ up'[u].batch = up[u].batch /\ up'[u].into = up[u].into
    <3>1. CASE Acquire(u)
      BY <1>0, <3>1 DEF Acquire, UploadType
    <3>2. CASE Accept(u)
      <4>1. PICK x : up' = [up EXCEPT ![u].pc = "seed", ![u].todo = x]
        BY <1>4, <3>2 DEF Accept, AcceptFrom
      <4> QED
        BY <1>0, <4>1 DEF UploadType
    <3>3. CASE Probe(u)
      <4>1. PICK t, x : up' = [up EXCEPT ![u].pc = "init", ![u].at = t, ![u].existed = x]
        BY <3>3 DEF Probe
      <4> QED
        BY <1>0, <4>1 DEF UploadType
    <3>4. CASE InitArch(u)
      BY <1>0, <3>4 DEF InitArch, UploadType
    <3>5. CASE ListAny(u)
      BY <1>0, <3>5 DEF ListAny, UploadType
    <3>6. CASE Backfill(u)
      BY <1>0, <3>6 DEF Backfill, UploadType
    <3> QED
      BY <3>1, <3>2, <3>3, <3>4, <3>5, <3>6
  <2>2. IntoOf(up'[u]) = {}
    BY <1>2, <2>1 DEF IntoOf
  <2> QED
    BY <2>1, <2>2, RestProgress
<1> QED
  BY <1>3, <1>4

\* The test for a package that comes twice.
LEMMA SeededProgress ==
  ASSUME Alone, Starts = {}, NEW u \in Uploads, Seeded(u)
  PROVE  /\ Progress(up'[u], db', obj', failures')
         /\ ~(\E res \in Ended : End(u, res)) =>
               /\ up'[u].pc = "resolve" /\ up'[u].batch = up[u].batch
               /\ \E arches \in {RepoArches, Declared} :
                     up'[u].todo = {t \in Items(u) \X Arches : t[2] \in Targets(Pkg(u, t[1]), arches)}
<1>0. up[u] \in UploadType(up[u].batch) /\ DOMAIN up = Calls /\ u \in Calls /\ Progress(up[u], db, obj, failures)
      /\ "failed" \in Ended
  BY UploadFacts DEF Ended
<1>1. CASE \E res \in Ended : End(u, res)
  BY <1>0, <1>1, EndProgress
<1>2. CASE ~(\E res \in Ended : End(u, res))
  <2>1. PICK arches \in {RepoArches, Declared} : SeededFrom(u, arches)
    BY DEF Seeded
  <2> DEFINE todo == {t \in Items(u) \X Arches : t[2] \in Targets(Pkg(u, t[1]), arches)}
  <2>2. /\ up[u].pc = "seed" /\ up' = [up EXCEPT ![u].pc = "resolve", ![u].todo = todo]
        /\ \A s, t \in todo : s[2] = t[2] /\ Pkg(u, s[1]).name = Pkg(u, t[1]).name => s = t
    BY <1>0, <1>2, <2>1 DEF SeededFrom
  <2>3. /\ up'[u].pc = "resolve" /\ up'[u].todo = todo /\ up'[u].batch = up[u].batch /\ up'[u].into = up[u].into
    BY <1>0, <2>2 DEF UploadType
  <2>4. IntoOf(up'[u]) = {}
    BY <1>0, <2>2, <2>3 DEF IntoOf, Progress
  <2>5. \A s, t \in todo : s[2] = t[2] /\ up'[u].batch[s[1]].name = up'[u].batch[t[1]].name => s = t
    BY <2>2, <2>3 DEF Pkg
  <2>6. todo = {t \in Items(u) \X Arches : t[2] \in Targets(Pkg(u, t[1]), arches)}
    OBVIOUS
  <2> HIDE DEF todo
  <2>7. Progress(up'[u], db', obj', failures')
    BY <2>3, <2>4, <2>5 DEF Progress
  <2> QED
    BY <2>1, <2>3, <2>6, <2>7
<1> QED
  BY <1>1, <1>2

\* What the version gate notes of a database.
LEMMA ResolveEffect ==
  ASSUME Alone, NEW u \in Uploads, Resolve(u), ~End(u, "failed")
  PROVE  /\ up[u].pc = "resolve" /\ up'[u].pc = "resolve" /\ up'[u].batch = up[u].batch /\ UNCHANGED <<db, obj, failures>>
         /\ \E t \in up[u].todo :
               /\ up'[u].todo = up[u].todo \ {t} /\ t \in (DOMAIN up[u].batch) \X Arches
               /\ \/ /\ Now(up[u], db, t).ver = up[u].batch[t[1]].ver
                     /\ up'[u].into = up[u].into /\ up'[u].old = up[u].old
                  \/ /\ IntoOf(up'[u]) = IntoOf(up[u]) \cup {t}
                     /\ \A i \in DOMAIN up[u].batch : up'[u].into[i] = IF i = t[1] THEN up[u].into[i] \cup {t[2]} ELSE up[u].into[i]
                     /\ Before(up'[u], t) = Now(up[u], db, t)
                     /\ \A s \in IntoOf(up[u]) : s # t => Before(up'[u], s) = Before(up[u], s)
<1>0. /\ up[u] \in UploadType(up[u].batch) /\ up[u].batch \in Seq(Package) /\ Shaped(up[u], stored) /\ up[u].pc = "resolve"
      /\ DOMAIN up = Calls /\ u \in Calls /\ UNCHANGED <<db, obj, failures>>
  BY UploadFacts DEF Resolve
<1>1. PICK t \in up[u].todo :
         LET p == Pkg(u, t[1])
             e == Current(t[2], p)
         IN \/ e.ver = p.ver /\ up' = [up EXCEPT ![u].todo = @ \ {t}]
            \/ up' = [up EXCEPT ![u].todo = @ \ {t}, ![u].into[t[1]] = @ \cup {t[2]}, ![u].old[t[1]][t[2]] = e]
  BY DEF Resolve
<1> DEFINE i == t[1]
           a == t[2]
           e == db[a][up[u].batch[i].name]
<1>2. i \in DOMAIN up[u].batch /\ a \in Arches /\ t = <<i, a>> /\ t \in (DOMAIN up[u].batch) \X Arches
  BY <1>0 DEF Shaped
<1>3. CASE e.ver = up[u].batch[i].ver /\ up' = [up EXCEPT ![u].todo = @ \ {t}]
  <2>1. /\ up'[u].pc = "resolve" /\ up'[u].todo = up[u].todo \ {t} /\ up'[u].batch = up[u].batch
        /\ up'[u].into = up[u].into /\ up'[u].old = up[u].old
    BY <1>0, <1>3 DEF UploadType
  <2> QED
    BY <1>0, <1>2, <1>3, <2>1 DEF Now
<1>4. CASE up' = [up EXCEPT ![u].todo = @ \ {t}, ![u].into[t[1]] = @ \cup {t[2]}, ![u].old[t[1]][t[2]] = e]
  <2> DEFINE into == [up[u].into EXCEPT ![i] = @ \cup {a}]
             old == [up[u].old EXCEPT ![i][a] = e]
             r == [up[u] EXCEPT !.todo = up[u].todo \ {t}, !.into = into, !.old = old]
  <2>1. up' = [up EXCEPT ![u] = r]
    BY <1>4
  <2>2. \A j \in DOMAIN up[u].batch : into[j] = IF j = i THEN up[u].into[j] \cup {a} ELSE up[u].into[j]
    BY <1>0, <1>2 DEF UploadType
  <2>3. \A j \in DOMAIN up[u].batch, c \in Arches : old[j][c] = IF j = i /\ c = a THEN e ELSE up[u].old[j][c]
    BY <1>0, <1>2 DEF UploadType
  <2>4. e = Now(up[u], db, t)
    BY DEF Now
  <2> HIDE DEF into, old, e, i, a
  <2>5. r.batch = up[u].batch /\ r.pc = "resolve" /\ r.into = into /\ r.old = old /\ r.todo = up[u].todo \ {t}
    BY <1>0 DEF UploadType
  <2>6. up'[u] = r
    BY <1>0, <2>1
  <2> HIDE DEF r
  <2>7. IntoOf(r) = IntoOf(up[u]) \cup {t}
    <3>1. \A s \in (DOMAIN up[u].batch) \X Arches : s = <<s[1], s[2]>> /\ s[1] \in DOMAIN up[u].batch
      OBVIOUS
    <3>2. \A s \in (DOMAIN up[u].batch) \X Arches : s[2] \in into[s[1]] <=> s[2] \in up[u].into[s[1]] \/ s = t
      <4> SUFFICES ASSUME NEW s \in (DOMAIN up[u].batch) \X Arches
                   PROVE  s[2] \in into[s[1]] <=> s[2] \in up[u].into[s[1]] \/ s = t
        OBVIOUS
      <4>1. s[1] \in DOMAIN up[u].batch /\ s = <<s[1], s[2]>>
        BY <3>1
      <4>2. s = t <=> s[1] = i /\ s[2] = a
        BY <1>2, <4>1
      <4>3. into[s[1]] = IF s[1] = i THEN up[u].into[s[1]] \cup {a} ELSE up[u].into[s[1]]
        BY <2>2, <4>1
      <4>4. CASE s[1] = i
        BY <4>2, <4>3, <4>4
      <4>5. CASE s[1] # i
        BY <4>2, <4>3, <4>5
      <4> QED
        BY <4>4, <4>5
    <3> QED
      BY <1>2, <2>5, <3>2 DEF IntoOf
  <2>8. Before(r, t) = e /\ \A s \in IntoOf(up[u]) : s # t => Before(r, s) = Before(up[u], s)
    <3>1. Before(r, t) = e
      BY <1>2, <2>3, <2>5 DEF Before, i, a
    <3>2. ASSUME NEW s \in IntoOf(up[u]), s # t PROVE Before(r, s) = Before(up[u], s)
      <4>1. s = <<s[1], s[2]>> /\ s[1] \in DOMAIN up[u].batch /\ s[2] \in Arches
        BY DEF IntoOf
      <4>2. ~(s[1] = i /\ s[2] = a)
        BY <1>2, <3>2, <4>1
      <4> QED
        BY <2>3, <2>5, <4>1, <4>2 DEF Before
    <3> QED
      BY <3>1, <3>2
  <2> QED
    BY ZenonT(60), <1>0, <1>2, <2>2, <2>4, <2>5, <2>6, <2>7, <2>8 DEF i, a
<1> QED
  BY <1>1, <1>3, <1>4 DEF Pkg, Current

\* The version gate notes what it finds.
LEMMA ResolveProgress ==
  ASSUME Alone, NEW u \in Uploads, Resolve(u)
  PROVE  Progress(up'[u], db', obj', failures')
<1>0. Progress(up[u], db, obj, failures) /\ "failed" \in Ended
  BY UploadFacts DEF Ended
<1>1. CASE End(u, "failed")
  BY <1>0, <1>1, EndProgress
<1>2. CASE ~End(u, "failed")
  <2>1. PICK t \in up[u].todo :
          /\ up'[u].todo = up[u].todo \ {t} /\ t \in (DOMAIN up[u].batch) \X Arches
          /\ \/ up'[u].into = up[u].into /\ up'[u].old = up[u].old
             \/ /\ IntoOf(up'[u]) = IntoOf(up[u]) \cup {t}
                /\ Before(up'[u], t) = Now(up[u], db, t)
                /\ \A s \in IntoOf(up[u]) : s # t => Before(up'[u], s) = Before(up[u], s)
    BY <1>2, ResolveEffect
  <2>2. up[u].pc = "resolve" /\ up'[u].pc = "resolve" /\ up'[u].batch = up[u].batch /\ UNCHANGED <<db, obj, failures>>
    BY <1>2, ResolveEffect
  <2>3. \A s : Now(up'[u], db, s) = Now(up[u], db, s)
    BY <2>2 DEF Now
  <2>4. \A s, x \in IntoOf(up[u]) \cup up[u].todo : s[2] = x[2] /\ up[u].batch[s[1]].name = up[u].batch[x[1]].name => s = x
    BY <1>0, <2>2 DEF Progress
  <2>5. \A s \in IntoOf(up[u]) : Now(up[u], db, s) = Before(up[u], s)
    BY <1>0, <2>2 DEF Progress
  <2>6. CASE up'[u].into = up[u].into /\ up'[u].old = up[u].old
    <3>1. IntoOf(up'[u]) = IntoOf(up[u]) /\ \A s : Before(up'[u], s) = Before(up[u], s)
      BY <2>2, <2>6 DEF IntoOf, Before
    <3> QED
      BY <2>1, <2>2, <2>3, <2>4, <2>5, <3>1 DEF Progress
  <2>7. CASE /\ IntoOf(up'[u]) = IntoOf(up[u]) \cup {t}
             /\ Before(up'[u], t) = Now(up[u], db, t)
             /\ \A s \in IntoOf(up[u]) : s # t => Before(up'[u], s) = Before(up[u], s)
    <3>1. \A s \in IntoOf(up'[u]) : Now(up'[u], db, s) = Before(up'[u], s)
      BY <2>3, <2>5, <2>7
    <3> QED
      BY <2>1, <2>2, <2>4, <2>7, <3>1 DEF Progress
  <2> QED
    BY <2>1, <2>6, <2>7
<1> QED
  BY <1>1, <1>2

\* The copy of a replaced package has the bytes its entry describes.
LEMMA CaptureEffect ==
  ASSUME Alone, NEW u \in Uploads, Capture(u), ~End(u, "failed")
  PROVE  /\ up[u].pc = "resolve" /\ up'[u].pc = "store" /\ up'[u].batch = up[u].batch /\ up'[u].into = up[u].into
         /\ IntoOf(up'[u]) = IntoOf(up[u]) /\ UNCHANGED <<db, obj, failures>>
         /\ \A t \in IntoOf(up[u]) : Before(up'[u], t) = Before(up[u], t)
         /\ \A t \in IntoOf(up[u]) : Before(up[u], t) # NoEntry => Held(obj, up[u].batch[t[1]].name, Before(up[u], t))
<1>0. /\ up[u] \in UploadType(up[u].batch) /\ up[u].pc = "resolve" /\ Progress(up[u], db, obj, failures) /\ Served(db, obj)
      /\ DOMAIN up = Calls /\ u \in Calls /\ UNCHANGED <<db, obj, failures>>
  BY UploadFacts DEF Capture, Publishes
<1> DEFINE old == [i \in DOMAIN up[u].batch |-> [a \in Arches |->
                     IF <<i, a>> \in Replaced(u)
                     THEN [up[u].old[i][a] EXCEPT !.build = obj[OldFile(u, <<i, a>>)].build]
                     ELSE NoEntry]]
<1>1. up' = [up EXCEPT ![u].pc = "store", ![u].todo = Into(u), ![u].old = old]
  BY DEF Capture, Items
<1>2. \A i \in DOMAIN up[u].batch, a \in Arches :
         old[i][a] = IF <<i, a>> \in Replaced(u)
                     THEN [up[u].old[i][a] EXCEPT !.build = obj[OldFile(u, <<i, a>>)].build]
                     ELSE NoEntry
  OBVIOUS
<1> HIDE DEF old
<1>3. up'[u].pc = "store" /\ up'[u].batch = up[u].batch /\ up'[u].into = up[u].into /\ up'[u].old = old
  BY <1>0, <1>1 DEF UploadType
<1>4. IntoOf(up'[u]) = IntoOf(up[u])
  BY <1>3 DEF IntoOf
<1>5. ASSUME NEW t \in IntoOf(up[u])
      PROVE  /\ Before(up'[u], t) = Before(up[u], t)
             /\ Before(up[u], t) # NoEntry => Held(obj, up[u].batch[t[1]].name, Before(up[u], t))
  <2>0. /\ t[1] \in DOMAIN up[u].batch /\ t[2] \in Arches /\ t = <<t[1], t[2]>>
        /\ up[u].batch[t[1]].name \in Names /\ Before(up[u], t) \in Entry \cup {NoEntry}
    BY ItemFacts
  <2>1. t \in Replaced(u) <=> Before(up[u], t) # NoEntry
    BY <2>0 DEF Replaced, Items, Before
  <2>2. Before(up'[u], t) = IF Before(up[u], t) # NoEntry
                            THEN [Before(up[u], t) EXCEPT !.build = obj[OldFile(u, t)].build]
                            ELSE NoEntry
    BY <1>2, <1>3, <2>0, <2>1 DEF Before
  <2>3. CASE Before(up[u], t) = NoEntry
    BY <2>2, <2>3
  <2>4. CASE Before(up[u], t) # NoEntry
    <3> DEFINE e == Before(up[u], t)
    <3>1. Now(up[u], db, t) = e
      BY <1>0 DEF Progress
    <3>2. Held(obj, up[u].batch[t[1]].name, e)
      BY <1>0, <2>0, <2>4, <3>1 DEF Now, Served
    <3>3. OldFile(u, t) = FileOf(up[u].batch[t[1]].name, e)
      BY DEF OldFile, Pkg, Before
    <3>4. obj[OldFile(u, t)].build = e.build
      BY <3>2, <3>3 DEF Held
    <3> HIDE DEF e
    <3>5. e \in Entry /\ Before(up'[u], t) = [e EXCEPT !.build = e.build]
      BY <2>0, <2>2, <2>4, <3>4 DEF e
    <3>6. [e EXCEPT !.build = e.build] = e
      BY <3>5 DEF Entry
    <3> QED
      BY <3>2, <3>5, <3>6 DEF e
  <2> QED
    BY <2>3, <2>4
<1> QED
  BY <1>0, <1>3, <1>4, <1>5

\* capture copies what the version gate found.
LEMMA CaptureProgress ==
  ASSUME Alone, NEW u \in Uploads, Capture(u)
  PROVE  Progress(up'[u], db', obj', failures')
<1>0. Progress(up[u], db, obj, failures) /\ "failed" \in Ended
  BY UploadFacts DEF Ended
<1>1. CASE End(u, "failed")
  BY <1>0, <1>1, EndProgress
<1>2. CASE ~End(u, "failed")
  <2>1. /\ up[u].pc = "resolve" /\ up'[u].pc = "store" /\ up'[u].batch = up[u].batch
        /\ IntoOf(up'[u]) = IntoOf(up[u]) /\ UNCHANGED <<db, obj, failures>>
        /\ \A t \in IntoOf(up[u]) : Before(up'[u], t) = Before(up[u], t)
        /\ \A t \in IntoOf(up[u]) : Before(up[u], t) # NoEntry => Held(obj, up[u].batch[t[1]].name, Before(up[u], t))
    BY <1>2, CaptureEffect
  <2>2. \A t : Now(up'[u], db, t) = Now(up[u], db, t)
    BY <2>1 DEF Now
  <2> QED
    BY <1>0, <2>1, <2>2 DEF Progress
<1> QED
  BY <1>1, <1>2

\* The copies of what a call replaces stay while it works.
LEMMA CopiesKept ==
  ASSUME Alone, NEW u \in Uploads, UploadStep(u), up[u].pc \in {"store", "commit", "names", "undo", "undoadd"}
  PROVE  \A t \in IntoOf(up[u]) : Before(up[u], t) # NoEntry => Held(obj', up[u].batch[t[1]].name, Before(up[u], t))
<1>1. Kept(obj, obj')
  BY UploadFacts, UploadBacks DEF Backs
<1> QED
  BY <1>1, UploadFacts, ItemFacts, HeldKept DEF Progress

\* The start of a rollback, before any database was changed.
LEMMA RollBackProgress ==
  ASSUME Alone, NEW u \in Uploads, UploadStep(u), NEW err \in Ended, NEW arches \in SUBSET Arches, RollBack(u, err, arches),
         up[u].pc \in {"store", "commit", "names"},
         {t \in IntoOf(up[u]) : t[2] \in arches} # {} /\ MaxFailures <= 1 => failures' = MaxFailures,
         \A t \in IntoOf(up[u]) : Now(up[u], db', t) = Before(up[u], t) \/ (t[2] \in arches /\ Now(up[u], db', t) = New(up[u], t))
  PROVE  Progress(up'[u], db', obj', failures')
<1>0. Progress(up[u], db, obj, failures) /\ Shapes /\ u \in Calls
  BY UploadFacts
<1>1. /\ up'[u].batch = up[u].batch /\ up'[u].pc = "undo" /\ up'[u].into = up[u].into /\ up'[u].old = up[u].old
      /\ up'[u].todo = {t \in IntoOf(up[u]) : t[2] \in arches}
  BY <1>0, RollBackStep
<1>2. IntoOf(up'[u]) = IntoOf(up[u])
  BY <1>1 DEF IntoOf
<1>3. \A t : Now(up'[u], db', t) = Now(up[u], db', t) /\ Before(up'[u], t) = Before(up[u], t) /\ New(up'[u], t) = New(up[u], t)
  BY <1>1 DEF Now, Before, New
<1>4. \A t \in IntoOf(up[u]) : Before(up[u], t) # NoEntry => Held(obj', up[u].batch[t[1]].name, Before(up[u], t))
  BY CopiesKept
<1> QED
  BY <1>0, <1>1, <1>2, <1>3, <1>4 DEF Progress

\* Storing an object changes no database.
LEMMA StoreObjectProgress ==
  ASSUME Alone, NEW u \in Uploads, StoreObject(u)
  PROVE  Progress(up'[u], db', obj', failures')
<1>0. /\ Progress(up[u], db, obj, failures) /\ DOMAIN up = Calls /\ u \in Calls /\ up[u] \in UploadType(up[u].batch)
      /\ UNCHANGED <<db, failures>> /\ up[u].pc = "store" /\ UploadStep(u) /\ "conflict" \in Ended /\ {} \in SUBSET Arches
  BY UploadFacts DEF StoreObject, UploadStep, Ended
<1>1. CASE RollBack(u, "conflict", {})
  <2>1. \A t \in IntoOf(up[u]) : Now(up[u], db', t) = Before(up[u], t)
    BY <1>0 DEF Progress
  <2> QED
    BY <1>0, <1>1, <2>1, RollBackProgress
<1>2. CASE ~RollBack(u, "conflict", {})
  <2>1. PICK x : up' = [up EXCEPT ![u].todo = x]
    BY <1>2 DEF StoreObject
  <2>2. /\ up'[u].pc = "store" /\ up'[u].batch = up[u].batch /\ up'[u].into = up[u].into /\ up'[u].old = up[u].old
    BY <1>0, <2>1 DEF UploadType
  <2>3. /\ IntoOf(up'[u]) = IntoOf(up[u])
        /\ \A t : Now(up'[u], db, t) = Now(up[u], db, t) /\ Before(up'[u], t) = Before(up[u], t)
    BY <2>2 DEF IntoOf, Now, Before
  <2>4. \A t \in IntoOf(up[u]) : Before(up[u], t) # NoEntry => Held(obj', up[u].batch[t[1]].name, Before(up[u], t))
    BY <1>0, CopiesKept
  <2> QED
    BY <1>0, <2>2, <2>3, <2>4 DEF Progress
<1> QED
  BY <1>1, <1>2

\* The commit begins with the databases as the version gate found them.
LEMMA StoredProgress ==
  ASSUME Alone, NEW u \in Uploads, Stored(u)
  PROVE  Progress(up'[u], db', obj', failures')
<1>0. /\ Progress(up[u], db, obj, failures) /\ DOMAIN up = Calls /\ u \in Calls /\ up[u] \in UploadType(up[u].batch)
      /\ UNCHANGED <<db, obj, failures>> /\ up[u].pc = "store"
  BY UploadFacts DEF Stored
<1>1. up' = [up EXCEPT ![u].pc = "commit", ![u].todo = {0} \X {t[2] : t \in IntoOf(up[u])}]
  BY IntoIs DEF Stored
<1>2. /\ up'[u].pc = "commit" /\ up'[u].batch = up[u].batch /\ up'[u].into = up[u].into /\ up'[u].old = up[u].old
      /\ up'[u].todo = {0} \X {t[2] : t \in IntoOf(up[u])}
  BY <1>0, <1>1 DEF UploadType
<1>3. /\ IntoOf(up'[u]) = IntoOf(up[u])
      /\ \A t : Now(up'[u], db, t) = Now(up[u], db, t) /\ Before(up'[u], t) = Before(up[u], t)
  BY <1>2 DEF IntoOf, Now, Before
<1>4. \A t \in IntoOf(up[u]) : <<0, t[2]>> \in up'[u].todo
  BY <1>2
<1> QED
  BY <1>0, <1>2, <1>3, <1>4 DEF Progress

\* A commit writes the package of every item that goes into that database.
LEMMA AddedNow ==
  ASSUME Alone, NEW u \in Uploads, NEW s \in IntoOf(up[u])
  PROVE  Added(u, s[2])[up[u].batch[s[1]].name] = New(up[u], s)
<1> DEFINE a == s[2]
           n == up[u].batch[s[1]].name
           i == CHOOSE j \in Batch(u, a) : Pkg(u, j).name = n
<1>0. /\ s[1] \in DOMAIN up[u].batch /\ a \in Arches /\ a \in up[u].into[s[1]] /\ s = <<s[1], a>> /\ n \in Names
      /\ Progress(up[u], db, obj, failures)
  BY ItemFacts, UploadFacts
<1>1. s[1] \in Batch(u, a) /\ Pkg(u, s[1]).name = n
  BY <1>0 DEF Batch, Items, Pkg
<1>2. i \in Batch(u, a) /\ Pkg(u, i).name = n
  BY <1>1
<1>3. Added(u, a)[n] = EntryOf(Pkg(u, i))
  BY <1>0, <1>1 DEF Added
<1> HIDE DEF i
<1>4. <<i, a>> \in IntoOf(up[u]) /\ <<i, a>>[1] = i /\ <<i, a>>[2] = a
  BY <1>0, <1>2 DEF Batch, Items, IntoOf
<1>5. <<i, a>> = s
  BY <1>0, <1>2, <1>4 DEF Progress, Pkg
<1>6. i = s[1]
  BY <1>4, <1>5
<1> QED
  BY <1>3, <1>6 DEF New, Pkg

\* Under the lease no commit finds a database other than it was.
LEMMA CommitExpected ==
  ASSUME Alone, NEW u \in Uploads, up[u].pc = "commit", NEW t \in up[u].todo
  PROVE  Expected(u, t[2]) /\ t[2] \in Arches /\ t = <<0, t[2]>>
<1>0. Progress(up[u], db, obj, failures) /\ Shaped(up[u], stored)
  BY UploadFacts
<1>1. t[2] \in Arches /\ t = <<0, t[2]>>
  BY <1>0 DEF Shaped
<1>2. ASSUME NEW i \in Batch(u, t[2]) PROVE SameFile(Current(t[2], Pkg(u, i)), up[u].old[i][t[2]])
  <2>1. <<i, t[2]>> \in IntoOf(up[u]) /\ <<i, t[2]>>[1] = i /\ <<i, t[2]>>[2] = t[2]
    BY <1>1 DEF Batch, Items, IntoOf
  <2>2. Now(up[u], db, <<i, t[2]>>) = Before(up[u], <<i, t[2]>>)
    BY <1>0, <1>1, <2>1 DEF Progress
  <2> QED
    BY <2>2 DEF Now, Before, Current, Pkg, SameFile
<1> QED
  BY <1>1, <1>2 DEF Expected

\* What the databases have after one of them was committed.
LEMMA AddedProgress ==
  ASSUME Alone, NEW u \in Uploads, NEW a \in Arches, NEW d, d = [db EXCEPT ![a] = Added(u, a)], NEW s \in IntoOf(up[u])
  PROVE  Now(up[u], d, s) = IF s[2] = a THEN New(up[u], s) ELSE Now(up[u], db, s)
<1>0. s[2] \in Arches /\ db \in [Arches -> Database]
  BY ItemFacts, UploadFacts
<1>1. CASE s[2] = a
  BY <1>0, <1>1, AddedNow DEF Now
<1>2. CASE s[2] # a
  BY <1>0, <1>2 DEF Now
<1> QED
  BY <1>1, <1>2

\* A commit goes through.
LEMMA CommitEffect ==
  ASSUME Alone, NEW u \in Uploads, Commit(u)
  PROVE  \E t \in up[u].todo :
            /\ db' = [db EXCEPT ![t[2]] = Added(u, t[2])] /\ Expected(u, t[2]) /\ t[2] \in Arches /\ t = <<0, t[2]>>
            /\ up[u].pc = "commit" /\ up'[u].pc = "commit" /\ UNCHANGED <<obj, failures>>
            /\ up'[u].batch = up[u].batch /\ up'[u].into = up[u].into /\ up'[u].old = up[u].old
            /\ up'[u].todo = up[u].todo \ {t} /\ up'[u].committed = up[u].committed \cup {t[2]}
<1>0. /\ DOMAIN up = Calls /\ u \in Calls /\ up[u] \in UploadType(up[u].batch) /\ UNCHANGED <<obj, failures>> /\ up[u].pc = "commit"
  BY UploadFacts DEF Commit
<1>1. PICK t \in up[u].todo :
         /\ db' = [db EXCEPT ![t[2]] = Added(u, t[2])]
         /\ up' = [up EXCEPT ![u].todo = @ \ {t}, ![u].committed = @ \cup {t[2]}]
  BY <1>0, CommitExpected DEF Commit
<1>2. Expected(u, t[2]) /\ t[2] \in Arches /\ t = <<0, t[2]>>
  BY <1>0, CommitExpected
<1>3. /\ up'[u].pc = "commit" /\ up'[u].batch = up[u].batch /\ up'[u].into = up[u].into /\ up'[u].old = up[u].old
      /\ up'[u].todo = up[u].todo \ {t} /\ up'[u].committed = up[u].committed \cup {t[2]}
  BY <1>0, <1>1 DEF UploadType
<1> QED
  BY <1>0, <1>1, <1>2, <1>3

\* A commit writes one database.
LEMMA CommitProgress ==
  ASSUME Alone, NEW u \in Uploads, Commit(u)
  PROVE  Progress(up'[u], db', obj', failures')
<1>0. Progress(up[u], db, obj, failures)
  BY UploadFacts
<1>1. PICK t \in up[u].todo :
         /\ db' = [db EXCEPT ![t[2]] = Added(u, t[2])] /\ t[2] \in Arches /\ t = <<0, t[2]>>
         /\ up[u].pc = "commit" /\ up'[u].pc = "commit" /\ UNCHANGED <<obj, failures>>
         /\ up'[u].batch = up[u].batch /\ up'[u].into = up[u].into /\ up'[u].old = up[u].old
         /\ up'[u].todo = up[u].todo \ {t} /\ up'[u].committed = up[u].committed \cup {t[2]}
  BY CommitEffect
<1>2. /\ IntoOf(up'[u]) = IntoOf(up[u])
      /\ \A s : Now(up'[u], db', s) = Now(up[u], db', s) /\ Before(up'[u], s) = Before(up[u], s) /\ New(up'[u], s) = New(up[u], s)
  BY <1>1 DEF IntoOf, Now, Before, New
<1>3. ASSUME NEW s \in IntoOf(up[u])
      PROVE  IF <<0, s[2]>> \in up'[u].todo THEN Now(up[u], db', s) = Before(up[u], s)
             ELSE Now(up[u], db', s) = New(up[u], s) /\ s[2] \in up'[u].committed
  <2>0. t[2] \in Arches /\ db' = [db EXCEPT ![t[2]] = Added(u, t[2])]
    BY <1>1
  <2>1. Now(up[u], db', s) = IF s[2] = t[2] THEN New(up[u], s) ELSE Now(up[u], db, s)
    BY ZenonT(60), <2>0, AddedProgress
  <2>2. <<0, s[2]>> \in up'[u].todo <=> <<0, s[2]>> \in up[u].todo /\ s[2] # t[2]
    BY <1>1
  <2>3. IF <<0, s[2]>> \in up[u].todo THEN Now(up[u], db, s) = Before(up[u], s)
        ELSE Now(up[u], db, s) = New(up[u], s) /\ s[2] \in up[u].committed
    BY <1>0, <1>1 DEF Progress
  <2> QED
    BY <1>1, <2>1, <2>2, <2>3
<1>4. /\ \A s, r \in IntoOf(up[u]) : s[2] = r[2] /\ up[u].batch[s[1]].name = up[u].batch[r[1]].name => s = r
      /\ \A s \in IntoOf(up[u]) : Before(up[u], s) # NoEntry => Held(obj, up[u].batch[s[1]].name, Before(up[u], s))
  BY <1>0, <1>1 DEF Progress
<1>5. obj' = obj /\ up'[u].pc = "commit" /\ up'[u].batch = up[u].batch
  BY <1>1
<1> QED
  BY <1>2, <1>3, <1>4, <1>5 DEF Progress

\* A failure that is counted is the last, if there is at most one.
LEMMA LastFailure ==
  ASSUME Shapes, Failing, MaxFailures <= 1
  PROVE  failures' = MaxFailures
BY PublicationAssumption DEF Shapes, Failing

\* A failed commit is undone if it happened.
LEMMA CommitFailsProgress ==
  ASSUME Alone, NEW u \in Uploads, CommitFails(u)
  PROVE  Progress(up'[u], db', obj', failures')
<1>0. /\ Progress(up[u], db, obj, failures) /\ Shapes /\ up[u] \in UploadType(up[u].batch) /\ up[u].pc = "commit"
      /\ UploadStep(u) /\ "failed" \in Ended
  BY UploadFacts DEF CommitFails, UploadStep, Ended
<1>1. PICK t \in up[u].todo :
         \/ RollBack(u, "failed", up[u].committed) /\ UNCHANGED db
         \/ /\ RollBack(u, "failed", up[u].committed \cup {t[2]})
            /\ UNCHANGED db \/ db' = [db EXCEPT ![t[2]] = Added(u, t[2])]
  BY DEF CommitFails
<1>2. t[2] \in Arches /\ up[u].committed \in SUBSET Arches
  BY <1>0, CommitExpected DEF UploadType
<1>3. MaxFailures <= 1 => failures' = MaxFailures
  BY <1>0, LastFailure DEF CommitFails
<1>4. \A s \in IntoOf(up[u]) : Now(up[u], db, s) = Before(up[u], s) \/ (Now(up[u], db, s) = New(up[u], s) /\ s[2] \in up[u].committed)
  BY <1>0 DEF Progress
<1>5. CASE RollBack(u, "failed", up[u].committed) /\ UNCHANGED db
  BY <1>0, <1>2, <1>3, <1>4, <1>5, RollBackProgress
<1>6. CASE /\ RollBack(u, "failed", up[u].committed \cup {t[2]})
           /\ UNCHANGED db \/ db' = [db EXCEPT ![t[2]] = Added(u, t[2])]
  <2> DEFINE arches == up[u].committed \cup {t[2]}
  <2>1. arches \in SUBSET Arches /\ RollBack(u, "failed", arches)
    BY <1>2, <1>6
  <2>2. \A s \in IntoOf(up[u]) : Now(up[u], db', s) = Before(up[u], s) \/ (s[2] \in arches /\ Now(up[u], db', s) = New(up[u], s))
    <3>1. CASE UNCHANGED db
      BY <1>4, <3>1
    <3>2. CASE db' = [db EXCEPT ![t[2]] = Added(u, t[2])]
      BY ZenonT(60), <1>2, <1>4, <3>2, AddedProgress
    <3> QED
      BY <1>6, <3>1, <3>2
  <2> HIDE DEF arches
  <2> QED
    BY <1>0, <1>3, <2>1, <2>2, RollBackProgress
<1> QED
  BY <1>1, <1>5, <1>6

\* After the commit every database has the packages of the batch.
LEMMA CommittedProgress ==
  ASSUME Alone, NEW u \in Uploads, Committed(u)
  PROVE  Progress(up'[u], db', obj', failures')
<1>0. /\ Progress(up[u], db, obj, failures) /\ DOMAIN up = Calls /\ u \in Calls /\ up[u] \in UploadType(up[u].batch)
      /\ UNCHANGED <<db, obj, failures>> /\ up[u].pc = "commit" /\ up[u].todo = {}
  BY UploadFacts DEF Committed
<1>1. /\ up'[u].pc = "names" /\ up'[u].batch = up[u].batch /\ up'[u].into = up[u].into /\ up'[u].old = up[u].old
      /\ up'[u].committed = up[u].committed
  BY <1>0 DEF Committed, UploadType
<1>2. /\ IntoOf(up'[u]) = IntoOf(up[u])
      /\ \A s : Now(up'[u], db, s) = Now(up[u], db, s) /\ Before(up'[u], s) = Before(up[u], s) /\ New(up'[u], s) = New(up[u], s)
  BY <1>1 DEF IntoOf, Now, Before, New
<1> QED
  BY <1>0, <1>1, <1>2 DEF Progress

\* A failure after the commit undoes every database.
LEMMA StoreNamesProgress ==
  ASSUME Alone, NEW u \in Uploads, StoreNames(u)
  PROVE  Progress(up'[u], db', obj', failures')
<1>0. /\ Progress(up[u], db, obj, failures) /\ Shapes /\ up[u] \in UploadType(up[u].batch) /\ up[u].pc = "names"
      /\ UploadStep(u) /\ "failed" \in Ended /\ "ok" \in Ended /\ db' = db
  BY UploadFacts DEF StoreNames, UploadStep, Ended
<1>1. CASE End(u, "ok")
  BY <1>0, <1>1, EndProgress
<1>2. CASE Failing /\ RollBack(u, "failed", up[u].committed)
  <2>1. MaxFailures <= 1 => failures' = MaxFailures
    BY <1>0, <1>2, LastFailure
  <2>2. \A t \in IntoOf(up[u]) : t[2] \in up[u].committed /\ Now(up[u], db', t) = New(up[u], t)
    BY <1>0 DEF Progress
  <2>3. up[u].committed \in SUBSET Arches
    BY <1>0 DEF UploadType
  <2> QED
    BY <1>0, <1>2, <2>1, <2>2, <2>3, RollBackProgress
<1> QED
  BY <1>1, <1>2 DEF StoreNames

\* A failure before the commit undoes nothing.
LEMMA UploadFailsProgress ==
  ASSUME Alone, NEW u \in Uploads, UploadFails(u)
  PROVE  Progress(up'[u], db', obj', failures')
<1>0. /\ Progress(up[u], db, obj, failures) /\ UploadStep(u) /\ "failed" \in Ended /\ {} \in SUBSET Arches
  BY UploadFacts DEF UploadStep, Ended
<1>1. CASE up[u].pc = "store"
  <2>1. RollBack(u, "failed", {}) /\ db' = db
    BY <1>1 DEF UploadFails
  <2>2. \A t \in IntoOf(up[u]) : Now(up[u], db', t) = Before(up[u], t)
    BY <1>0, <1>1, <2>1 DEF Progress
  <2> QED
    BY <1>0, <1>1, <2>1, <2>2, RollBackProgress
<1>2. CASE up[u].pc # "store"
  <2>1. End(u, "failed")
    BY <1>2 DEF UploadFails
  <2> QED
    BY <1>0, <2>1, EndProgress
<1> QED
  BY <1>1, <1>2

\* One entry of a database is written: the other parts of the batch see nothing of it.
LEMMA OneEntryWritten ==
  ASSUME Alone, NEW u \in Uploads, NEW t \in IntoOf(up[u]), NEW e,
         db' = [db EXCEPT ![t[2]][up[u].batch[t[1]].name] = e]
  PROVE  /\ Now(up[u], db', t) = e
         /\ \A s \in IntoOf(up[u]) : s # t => Now(up[u], db', s) = Now(up[u], db, s)
<1>1. /\ t[2] \in Arches /\ up[u].batch[t[1]].name \in Names /\ db \in [Arches -> [Names -> Entry \cup {NoEntry}]]
  BY ItemFacts, UploadFacts DEF Database
<1>2. Now(up[u], db', t) = e
  BY <1>1 DEF Now
<1>3. ASSUME NEW s \in IntoOf(up[u]), s # t PROVE Now(up[u], db', s) = Now(up[u], db, s)
  <2>1. s[2] \in Arches /\ up[u].batch[s[1]].name \in Names
    BY ItemFacts
  <2>2. s[2] # t[2] \/ up[u].batch[s[1]].name # up[u].batch[t[1]].name
    BY <1>3, UploadFacts DEF Progress
  <2> QED
    BY <1>1, <2>1, <2>2 DEF Now
<1> QED
  BY <1>2, <1>3

\* A rollback has dealt with one entry.
LEMMA RestoredProgress ==
  ASSUME Alone, NEW u \in Uploads, UploadStep(u), up[u].pc \in {"undo", "undoadd"}, NEW t \in up[u].todo,
         up'[u].pc = "undo" /\ up'[u].batch = up[u].batch /\ up'[u].into = up[u].into /\ up'[u].old = up[u].old,
         up'[u].todo = up[u].todo \ {t}, failures' = failures,
         db' = IF SameFile(Now(up[u], db, t), up[u].batch[t[1]])
               THEN [db EXCEPT ![t[2]][up[u].batch[t[1]].name] = Before(up[u], t)] ELSE db
  PROVE  Progress(up'[u], db', obj', failures')
<1>0. Progress(up[u], db, obj, failures) /\ t \in IntoOf(up[u])
  BY UploadFacts DEF Shaped
<1>1. /\ IntoOf(up'[u]) = IntoOf(up[u])
      /\ \A s : Now(up'[u], db', s) = Now(up[u], db', s) /\ Before(up'[u], s) = Before(up[u], s) /\ New(up'[u], s) = New(up[u], s)
  BY DEF IntoOf, Now, Before, New
<1>2. \A s \in IntoOf(up[u]) : Before(up[u], s) # NoEntry => Held(obj', up[u].batch[s[1]].name, Before(up[u], s))
  BY CopiesKept
<1>3. ASSUME MaxFailures <= 1
      PROVE  \A s \in IntoOf(up[u]) : Now(up[u], db', s) = Before(up[u], s) \/ (s \in up'[u].todo /\ Now(up[u], db', s) = New(up[u], s))
  <2>1. \A s \in IntoOf(up[u]) : Now(up[u], db, s) = Before(up[u], s) \/ (s \in up[u].todo /\ Now(up[u], db, s) = New(up[u], s))
    BY <1>0, <1>3 DEF Progress
  <2>2. Now(up[u], db, t) = New(up[u], t) => SameFile(Now(up[u], db, t), up[u].batch[t[1]])
    BY DEF New, SameFile, EntryOf
  <2>3. CASE SameFile(Now(up[u], db, t), up[u].batch[t[1]])
    <3>1. /\ Now(up[u], db', t) = Before(up[u], t)
          /\ \A s \in IntoOf(up[u]) : s # t => Now(up[u], db', s) = Now(up[u], db, s)
      BY <1>0, <2>3, OneEntryWritten
    <3> QED
      BY <2>1, <3>1
  <2>4. CASE ~SameFile(Now(up[u], db, t), up[u].batch[t[1]])
    BY <1>0, <2>1, <2>2, <2>4
  <2> QED
    BY <2>3, <2>4
<1>4. MaxFailures <= 1 /\ up'[u].todo # {} => failures' = MaxFailures
  BY <1>0 DEF Progress
<1>5. \A s, r \in IntoOf(up[u]) : s[2] = r[2] /\ up[u].batch[s[1]].name = up[u].batch[r[1]].name => s = r
  BY <1>0 DEF Progress
<1> QED
  BY ZenonT(60), <1>1, <1>2, <1>3, <1>4, <1>5 DEF Progress

\* A rollback removes an entry that is new.
LEMMA UndoNewProgress ==
  ASSUME Alone, NEW u \in Uploads, UndoNew(u)
  PROVE  Progress(up'[u], db', obj', failures')
<1>0. /\ DOMAIN up = Calls /\ u \in Calls /\ up[u] \in UploadType(up[u].batch) /\ up[u].pc = "undo" /\ failures' = failures
      /\ UploadStep(u)
  BY UploadFacts DEF UndoNew, UploadStep
<1>1. PICK t \in up[u].todo :
         /\ Before(up[u], t) = NoEntry
         /\ db' = IF SameFile(Now(up[u], db, t), up[u].batch[t[1]])
                  THEN [db EXCEPT ![t[2]][up[u].batch[t[1]].name] = NoEntry] ELSE db
         /\ up' = [up EXCEPT ![u].todo = @ \ {t}]
  BY DEF UndoNew, Before, Now, Pkg, Current
<1>2. /\ up'[u].pc = "undo" /\ up'[u].batch = up[u].batch /\ up'[u].into = up[u].into /\ up'[u].old = up[u].old
      /\ up'[u].todo = up[u].todo \ {t}
  BY <1>0, <1>1 DEF UploadType
<1>3. db' = IF SameFile(Now(up[u], db, t), up[u].batch[t[1]])
            THEN [db EXCEPT ![t[2]][up[u].batch[t[1]].name] = Before(up[u], t)] ELSE db
  BY <1>1
<1> QED
  BY <1>0, <1>2, <1>3, RestoredProgress

\* The copy of the old package is still the one that was replaced.
LEMMA UndoStoreProgress ==
  ASSUME Alone, NEW u \in Uploads, UndoStore(u)
  PROVE  Progress(up'[u], db', obj', failures')
<1>0. /\ DOMAIN up = Calls /\ u \in Calls /\ up[u] \in UploadType(up[u].batch) /\ up[u].pc = "undo"
      /\ UNCHANGED <<db, failures>> /\ UploadStep(u) /\ Progress(up[u], db, obj, failures)
  BY UploadFacts DEF UndoStore, UploadStep
<1>1. PICK t \in up[u].todo :
         /\ Before(up[u], t) # NoEntry
         /\ Storable(OldFile(u, t), Before(up[u], t).build) => up' = [up EXCEPT ![u].pc = "undoadd", ![u].at = t]
  BY DEF UndoStore, Before
<1>2. t \in IntoOf(up[u])
  BY <1>0, UploadFacts DEF Shaped
<1>3. Held(obj, up[u].batch[t[1]].name, Before(up[u], t))
  BY <1>0, <1>1, <1>2 DEF Progress
<1>4. Storable(OldFile(u, t), Before(up[u], t).build)
  BY <1>3 DEF Storable, OldFile, Held, Before, Pkg
<1>5. /\ up'[u].pc = "undoadd" /\ up'[u].batch = up[u].batch /\ up'[u].into = up[u].into /\ up'[u].old = up[u].old
      /\ up'[u].todo = up[u].todo /\ up'[u].at = t
  BY <1>0, <1>1, <1>4 DEF UploadType
<1>6. /\ IntoOf(up'[u]) = IntoOf(up[u])
      /\ \A s : Now(up'[u], db, s) = Now(up[u], db, s) /\ Before(up'[u], s) = Before(up[u], s) /\ New(up'[u], s) = New(up[u], s)
  BY <1>5 DEF IntoOf, Now, Before, New
<1>7. \A s \in IntoOf(up[u]) : Before(up[u], s) # NoEntry => Held(obj', up[u].batch[s[1]].name, Before(up[u], s))
  BY <1>0, CopiesKept
<1> QED
  BY <1>0, <1>5, <1>6, <1>7 DEF Progress

\* A rollback puts back an entry that was replaced.
LEMMA UndoAddProgress ==
  ASSUME Alone, NEW u \in Uploads, UndoAdd(u)
  PROVE  Progress(up'[u], db', obj', failures')
<1> DEFINE t == up[u].at
<1>0. /\ DOMAIN up = Calls /\ u \in Calls /\ up[u] \in UploadType(up[u].batch) /\ up[u].pc = "undoadd" /\ failures' = failures
      /\ UploadStep(u) /\ t \in up[u].todo
  BY UploadFacts DEF UndoAdd, UploadStep, Progress
<1>1. /\ db' = IF SameFile(Now(up[u], db, t), up[u].batch[t[1]])
               THEN [db EXCEPT ![t[2]][up[u].batch[t[1]].name] = Before(up[u], t)] ELSE db
      /\ up' = [up EXCEPT ![u].pc = "undo", ![u].todo = @ \ {t}, ![u].at = <<>>]
  BY DEF UndoAdd, Before, Now, Pkg, Current
<1>2. /\ up'[u].pc = "undo" /\ up'[u].batch = up[u].batch /\ up'[u].into = up[u].into /\ up'[u].old = up[u].old
      /\ up'[u].todo = up[u].todo \ {t}
  BY <1>0, <1>1 DEF UploadType
<1> HIDE DEF t
<1> QED
  BY <1>0, <1>1, <1>2, RestoredProgress

\* A restore that fails is the second failure.
LEMMA UndoFailsProgress ==
  ASSUME Alone, NEW u \in Uploads, UndoFails(u)
  PROVE  Progress(up'[u], db', obj', failures')
<1>0. /\ DOMAIN up = Calls /\ u \in Calls /\ up[u] \in UploadType(up[u].batch) /\ up[u].pc \in {"undo", "undoadd"}
      /\ UploadStep(u) /\ Progress(up[u], db, obj, failures) /\ failures < MaxFailures /\ Shapes
  BY UploadFacts DEF UndoFails, UploadStep, Failing
<1>1. PICK t \in up[u].todo : up' = [up EXCEPT ![u].pc = "undo", ![u].todo = @ \ {t}, ![u].at = <<>>]
  BY <1>0 DEF UndoFails, Progress
<1>2. /\ up'[u].pc = "undo" /\ up'[u].batch = up[u].batch /\ up'[u].into = up[u].into /\ up'[u].old = up[u].old
      /\ up'[u].todo = up[u].todo \ {t}
  BY <1>0, <1>1 DEF UploadType
<1>3. /\ IntoOf(up'[u]) = IntoOf(up[u])
      /\ \A s : Before(up'[u], s) = Before(up[u], s)
  BY <1>2 DEF IntoOf, Before
<1>4. \A s \in IntoOf(up[u]) : Before(up[u], s) # NoEntry => Held(obj', up[u].batch[s[1]].name, Before(up[u], s))
  BY <1>0, CopiesKept
<1>5. ~(MaxFailures <= 1)
  BY <1>0, <1>1, PublicationAssumption DEF Progress, Shapes
<1> QED
  BY <1>0, <1>2, <1>3, <1>4, <1>5 DEF Progress

\* Every step of an upload keeps its own account of the databases.
LEMMA StepProgress ==
  ASSUME Alone, NEW u \in Uploads, Acquire(u) \/ UploadStep(u) \/ CrashUpload(u), Starts = {}
  PROVE  Progress(up'[u], db', obj', failures')
<1>1. CASE Undone(u) \/ CrashUpload(u)
  <2>1. up[u].err \in Ended /\ "crashed" \in Ended
    BY UploadFacts DEF UploadType, Ended
  <2> QED
    BY <1>1, <2>1, EndProgress DEF Undone, CrashUpload
<1>2. ~StartServer(u)
  BY DEF StartServer
<1> QED
  BY <1>1, <1>2, SeedingProgress, SeededProgress, ResolveProgress, CaptureProgress, StoreObjectProgress, StoredProgress,
     CommitProgress, CommitFailsProgress, CommittedProgress, StoreNamesProgress, UploadFailsProgress, UndoNewProgress,
     UndoStoreProgress, UndoAddProgress, UndoFailsProgress DEF UploadStep

\* The steps that only go on with what the call has noted.
Continues(u) ==
  /\ up'[u].batch = up[u].batch /\ up'[u].into = up[u].into /\ up'[u].old = up[u].old /\ up'[u].err = up[u].err
  /\ up'[u].pc \in {"undo", "undoadd"} <=> up[u].pc \in {"undo", "undoadd"}
  /\ up'[u].pc \notin Ended
RollsBack(u) == \E err \in {"failed", "conflict"}, arches \in SUBSET Arches : RollBack(u, err, arches)
Ends(u) == \E res \in Ended : End(u, res)

\* Most steps of an upload go on, or it is rolled back.
LEMMA PlainSteps ==
  ASSUME Alone, NEW u \in Uploads,
         \/ Acquire(u) \/ Probe(u) \/ InitArch(u) \/ ListAny(u) \/ Backfill(u)
         \/ StoreObject(u) \/ Stored(u) \/ Commit(u) \/ CommitFails(u) \/ Committed(u)
         \/ UndoNew(u) \/ UndoStore(u) \/ UndoAdd(u) \/ UndoFails(u)
  PROVE  Continues(u) \/ RollsBack(u)
<1>0. /\ DOMAIN up = Calls /\ u \in Calls /\ up[u] \in UploadType(up[u].batch)
      /\ up[u].committed \in SUBSET Arches /\ {} \in SUBSET Arches
  BY UploadFacts DEF UploadType
<1>1. CASE Acquire(u)
  BY <1>0, <1>1 DEF Acquire, UploadType, Continues, Ended
<1>2. CASE Probe(u)
  <2>1. PICK t, x : up' = [up EXCEPT ![u].pc = "init", ![u].at = t, ![u].existed = x] /\ up[u].pc = "seed"
    BY <1>2 DEF Probe
  <2> QED
    BY <1>0, <2>1 DEF UploadType, Continues, Ended
<1>3. CASE InitArch(u) \/ ListAny(u) \/ Backfill(u) \/ Stored(u) \/ Committed(u) \/ UndoAdd(u)
  <2>1. CASE InitArch(u)
    BY <1>0, <2>1 DEF InitArch, UploadType, Continues, Ended
  <2>2. CASE ListAny(u)
    BY <1>0, <2>2 DEF ListAny, UploadType, Continues, Ended
  <2>3. CASE Backfill(u)
    BY <1>0, <2>3 DEF Backfill, UploadType, Continues, Ended
  <2>4. CASE Stored(u)
    BY <1>0, <2>4 DEF Stored, UploadType, Continues, Ended
  <2>5. CASE Committed(u)
    BY <1>0, <2>5 DEF Committed, UploadType, Continues, Ended
  <2>6. CASE UndoAdd(u)
    BY <1>0, <2>6 DEF UndoAdd, UploadType, Continues, Ended
  <2> QED
    BY <1>3, <2>1, <2>2, <2>3, <2>4, <2>5, <2>6
<1>4. CASE StoreObject(u) /\ ~RollsBack(u)
  <2>1. PICK todo : up' = [up EXCEPT ![u].todo = todo]
    BY <1>0, <1>4 DEF StoreObject, RollsBack
  <2>2. up[u].pc = "store"
    BY <1>4 DEF StoreObject
  <2> QED
    BY <1>0, <2>1, <2>2 DEF UploadType, Continues, Ended
<1>5. CASE Commit(u) /\ ~RollsBack(u)
  <2>1. PICK t : up' = [up EXCEPT ![u].todo = @ \ {t}, ![u].committed = @ \cup {t[2]}]
    BY <1>0, <1>5 DEF Commit, RollsBack
  <2>2. up[u].pc = "commit"
    BY <1>5 DEF Commit
  <2> QED
    BY <1>0, <2>1, <2>2 DEF UploadType, Continues, Ended
<1>6. CASE CommitFails(u)
  <2>1. \A t \in up[u].todo : up[u].committed \cup {t[2]} \in SUBSET Arches
    BY <1>0, <1>6, CommitExpected DEF CommitFails
  <2> QED
    BY <1>0, <1>6, <2>1 DEF CommitFails, RollsBack
<1>7. CASE UndoNew(u)
  <2>1. PICK t : up' = [up EXCEPT ![u].todo = @ \ {t}] /\ up[u].pc = "undo"
    BY <1>7 DEF UndoNew
  <2> QED
    BY <1>0, <2>1 DEF UploadType, Continues, Ended
<1>8. CASE UndoFails(u)
  <2>1. PICK t : up' = [up EXCEPT ![u].pc = "undo", ![u].todo = @ \ {t}, ![u].at = <<>>]
    BY <1>8 DEF UndoFails
  <2>2. up[u].pc \in {"undo", "undoadd"}
    BY <1>8 DEF UndoFails
  <2> QED
    BY <1>0, <2>1, <2>2 DEF UploadType, Continues, Ended
<1>9. CASE UndoStore(u)
  <2>1. PICK t : \/ up' = [up EXCEPT ![u].pc = "undoadd", ![u].at = t]
                 \/ up' = [up EXCEPT ![u].todo = @ \ {t}]
    BY <1>9 DEF UndoStore
  <2>2. up[u].pc = "undo"
    BY <1>9 DEF UndoStore
  <2> QED
    BY <1>0, <2>1, <2>2 DEF UploadType, Continues, Ended
<1> QED
  BY <1>1, <1>2, <1>3, <1>4, <1>5, <1>6, <1>7, <1>8, <1>9

\* The others may end it.
LEMMA EndingSteps ==
  ASSUME Alone, NEW u \in Uploads, Starts = {}
  PROVE  /\ Accept(u) \/ Seeded(u) => End(u, "failed") \/ Continues(u)
         /\ StoreNames(u) => End(u, "ok") \/ RollsBack(u)
         /\ UploadFails(u) => (up[u].pc # "store" /\ End(u, "failed")) \/ RollsBack(u)
         /\ Undone(u) => End(u, up[u].err) /\ up[u].err \in Ended
         /\ CrashUpload(u) => End(u, "crashed")
<1>0. /\ DOMAIN up = Calls /\ u \in Calls /\ up[u] \in UploadType(up[u].batch)
      /\ up[u].committed \in SUBSET Arches /\ {} \in SUBSET Arches /\ up[u].err \in Ended
  BY UploadFacts DEF UploadType
<1>1. ASSUME Accept(u), ~End(u, "failed") PROVE Continues(u)
  <2>1. PICK todo : up' = [up EXCEPT ![u].pc = "seed", ![u].todo = todo]
    BY <1>1 DEF Accept, AcceptFrom
  <2>2. up[u].pc = "accept"
    BY <1>1 DEF Accept, AcceptFrom
  <2> QED
    BY <1>0, <2>1, <2>2 DEF UploadType, Continues, Ended
<1>2. ASSUME Seeded(u), ~End(u, "failed") PROVE Continues(u)
  <2>1. PICK todo : up' = [up EXCEPT ![u].pc = "resolve", ![u].todo = todo]
    BY <1>2 DEF Seeded, SeededFrom
  <2>2. up[u].pc = "seed"
    BY <1>2 DEF Seeded, SeededFrom
  <2> QED
    BY <1>0, <2>1, <2>2 DEF UploadType, Continues, Ended
<1>3. StoreNames(u) => End(u, "ok") \/ RollsBack(u)
  BY <1>0 DEF StoreNames, RollsBack
<1>4. UploadFails(u) => (up[u].pc # "store" /\ End(u, "failed")) \/ RollsBack(u)
  BY <1>0 DEF UploadFails, RollsBack
<1> QED
  BY <1>0, <1>1, <1>2, <1>3, <1>4 DEF Undone, CrashUpload

\* A step of an upload goes on, notes something, is rolled back or ends.
LEMMA StepKinds ==
  ASSUME Alone, NEW u \in Uploads, Acquire(u) \/ UploadStep(u) \/ CrashUpload(u), Starts = {},
         ~Ends(u), ~RollsBack(u), ~Resolve(u), ~Capture(u)
  PROVE  Continues(u)
<1>1. {"failed", "ok", "crashed"} \subseteq Ended /\ ~StartServer(u)
  BY DEF Ended, StartServer
<1> QED
  BY <1>1, PlainSteps, EndingSteps DEF UploadStep, Ends

\* How an upload comes to an end: acknowledged, rolled back, dead, or before anything was written.
LEMMA Outcome ==
  ASSUME Alone, NEW u \in Uploads, Acquire(u) \/ UploadStep(u) \/ CrashUpload(u), Starts = {}, up'[u].pc \in Ended
  PROVE  \/ StoreNames(u) /\ up'[u].pc = "ok"
         \/ Undone(u) /\ up'[u].pc = up[u].err
         \/ CrashUpload(u) /\ up'[u].pc = "crashed"
         \/ up[u].pc \in {"accept", "seed", "init", "list", "fill", "resolve"} /\ up'[u].pc = "failed"
<1>0. Shapes /\ u \in Calls /\ ~StartServer(u) /\ {"failed", "ok", "crashed", "conflict"} = Ended
  BY UploadFacts DEF StartServer, Ended
<1>1. \A res \in Ended : End(u, res) => up'[u].pc = res
  BY <1>0, EndStep
<1>2. ~RollsBack(u)
  <2> SUFFICES ASSUME NEW err \in Ended, NEW arches \in SUBSET Arches, RollBack(u, err, arches) PROVE FALSE
    BY <1>0 DEF RollsBack
  <2>1. up'[u].pc = "undo"
    BY <1>0, RollBackStep
  <2> QED
    BY <2>1 DEF Ended
<1>3. ~Continues(u)
  BY DEF Continues
<1>4. CASE Resolve(u) \/ Capture(u)
  <2>1. End(u, "failed")
    BY <1>4, ResolveEffect, CaptureEffect DEF Ended
  <2>2. up[u].pc = "resolve"
    BY <1>4 DEF Resolve, Capture
  <2> QED
    BY <1>0, <1>1, <2>1, <2>2
<1>5. CASE Accept(u) \/ Seeded(u)
  <2>1. End(u, "failed") /\ up[u].pc \in {"accept", "seed"}
    BY <1>3, <1>5, EndingSteps DEF Accept, AcceptFrom, Seeded, SeededFrom
  <2> QED
    BY <1>0, <1>1, <2>1
<1>6. CASE UploadFails(u)
  <2>1. End(u, "failed") /\ up[u].pc \in {"init", "list", "fill", "resolve"}
    BY <1>2, <1>6, EndingSteps DEF UploadFails
  <2> QED
    BY <1>0, <1>1, <2>1
<1>7. CASE StoreNames(u) \/ Undone(u) \/ CrashUpload(u)
  BY <1>0, <1>1, <1>2, <1>7, EndingSteps
<1> QED
  BY <1>0, <1>2, <1>3, <1>4, <1>5, <1>6, <1>7, PlainSteps DEF UploadStep

\* A rollback has a cause.
LEMMA StepBlamed ==
  ASSUME Alone, NEW u \in Uploads, Acquire(u) \/ UploadStep(u) \/ CrashUpload(u), Starts = {}
  PROVE  Blamed(up'[u])
<1>0. Shapes /\ u \in Calls /\ Blamed(up[u])
  BY UploadFacts DEF Alone
<1>1. CASE Ends(u)
  BY <1>0, <1>1, EndStep DEF Ends, Blamed, Ended
<1>2. CASE RollsBack(u)
  <2>1. PICK err \in {"failed", "conflict"}, arches \in SUBSET Arches : RollBack(u, err, arches)
    BY <1>2 DEF RollsBack
  <2> QED
    BY <1>0, <2>1, RollBackStep DEF Blamed, Ended
<1>3. CASE Resolve(u) /\ ~Ends(u)
  BY <1>3, ResolveEffect DEF Blamed, Ends, Ended
<1>4. CASE Capture(u) /\ ~Ends(u)
  BY <1>4, CaptureEffect DEF Blamed, Ends, Ended
<1>5. CASE ~Ends(u) /\ ~RollsBack(u) /\ ~Resolve(u) /\ ~Capture(u)
  BY <1>0, <1>5, StepKinds DEF Blamed, Continues
<1> QED
  BY <1>1, <1>2, <1>3, <1>4, <1>5

\* While one upload takes a step, the others are at rest.
LEMMA OthersRest ==
  ASSUME Alone, Leased, NEW u \in Uploads, Acquire(u) \/ UploadStep(u) \/ CrashUpload(u), Starts = {},
         NEW v \in Uploads, v # u
  PROVE  /\ ~Working(up[v]) /\ up'[v] = up[v] /\ IntoOf(up[v]) = {}
         /\ \A d, ob, fl : Progress(up[v], d, ob, fl)
<1>0. /\ LeaseHeld /\ Stepped(u) /\ v # "free" /\ v \in Calls /\ Progress(up[v], db, obj, failures)
  BY UploadFacts, UploadShapes, PublicationAssumption DEF Publishes, Calls
<1>1. lease = u \/ lease = "free"
  <2>1. CASE Acquire(u)
    BY <2>1 DEF Acquire, Free
  <2>2. CASE ~Acquire(u)
    <3>1. ~StartServer(u)
      BY DEF StartServer
    <3>2. Working(up[u])
      BY <2>2, <3>1 DEF UploadStep, CrashUpload, Accept, AcceptFrom, Probe, InitArch, ListAny, Backfill, Seeded, SeededFrom, Resolve,
         Capture, StoreObject, Stored, Commit, CommitFails, Committed, StoreNames, UploadFails, UndoNew, UndoStore, UndoAdd,
         UndoFails, Undone, Working, Ended
    <3> QED
      BY <1>0, <3>2 DEF LeaseHeld
  <2> QED
    BY <2>1, <2>2
<1>2. ~Working(up[v])
  BY <1>0, <1>1 DEF LeaseHeld
<1>3. IntoOf(up[v]) = {} /\ up[v].pc \notin {"resolve", "store", "commit", "names", "undo", "undoadd"}
  BY <1>0, <1>2 DEF Progress, Working, Ended
<1> QED
  BY <1>0, <1>2, <1>3, RestProgress DEF Stepped

\* No architecture is new: an upload seeds nothing.
LEMMA NothingSeeded ==
  ASSUME Alone, Settled, NEW u \in Uploads, Acquire(u) \/ UploadStep(u) \/ CrashUpload(u)
  PROVE  /\ ~Probe(u) /\ ~InitArch(u) /\ ~ListAny(u) /\ ~Backfill(u)
         /\ stored' = stored
         /\ ~Commit(u) /\ ~CommitFails(u) /\ ~UndoNew(u) /\ ~UndoAdd(u) => db' = db
<1>0. Covers(up[u], db)
  BY DEF Alone
<1>1. ~Probe(u) /\ ~InitArch(u) /\ ~ListAny(u) /\ ~Backfill(u)
  BY <1>0 DEF Covers, Probe, InitArch, ListAny, Backfill
<1>2. UploadFails(u) => UNCHANGED <<stored, db>>
  BY <1>0 DEF Covers, UploadFails
<1> QED
  BY <1>1, <1>2 DEF Acquire, UploadStep, CrashUpload, StartServer, Accept, Seeded, Resolve, Capture, StoreObject, Stored,
     Commit, CommitFails, Committed, StoreNames, UndoNew, UndoStore, UndoAdd, UndoFails, Undone

\* The version gate is asked for every database a package is for.
LEMMA SeededCovers ==
  ASSUME Alone, Settled, Starts = {}, NEW u \in Uploads, Seeded(u), ~Ends(u)
  PROVE  Covers(up'[u], db')
<1>0. up[u].batch \in Seq(Package) /\ stored = Declared /\ Declared \subseteq Arches /\ RepoArches = Declared
  BY UploadFacts, PublicationAssumption DEF Alone, RepoArches
<1>1. /\ up'[u].pc = "resolve" /\ up'[u].batch = up[u].batch
      /\ up'[u].todo = {t \in Items(u) \X Arches : t[2] \in Targets(Pkg(u, t[1]), Declared)}
  BY <1>0, SeededProgress DEF Ends
<1>2. ASSUME NEW i \in DOMAIN up[u].batch, NEW a \in Targets(up[u].batch[i], Declared)
      PROVE  <<i, a>> \in up'[u].todo
  <2>0. up[u].batch[i] \in Package
    BY <1>0
  <2>1. up[u].batch[i].store \in Stores
    BY <2>0 DEF Package
  <2>2. a \in Arches
    BY <1>0, <2>1 DEF Targets, Stores
  <2> QED
    BY <1>1, <2>2 DEF Items, Pkg
<1> QED
  BY <1>1, <1>2 DEF Covers

\* What the version gate passes over has a package as new.
LEMMA ResolveCovers ==
  ASSUME Alone, Settled, NEW u \in Uploads, Resolve(u), ~Ends(u)
  PROVE  Covers(up'[u], db')
<1>0. Covers(up[u], db) /\ ~End(u, "failed") /\ up[u].batch \in Seq(Package) /\ Declared \subseteq Arches
  BY UploadFacts, PublicationAssumption DEF Alone, Ends, Ended
<1>1. up[u].pc = "resolve" /\ up'[u].pc = "resolve" /\ up'[u].batch = up[u].batch /\ db' = db
  BY <1>0, ResolveEffect
<1>2. PICK t \in up[u].todo :
         /\ up'[u].todo = up[u].todo \ {t} /\ t \in (DOMAIN up[u].batch) \X Arches
         /\ \/ Now(up[u], db, t).ver = up[u].batch[t[1]].ver /\ up'[u].into = up[u].into
            \/ \A i \in DOMAIN up[u].batch : up'[u].into[i] = IF i = t[1] THEN up[u].into[i] \cup {t[2]} ELSE up[u].into[i]
  BY <1>0, ResolveEffect
<1>3. ASSUME NEW i \in DOMAIN up[u].batch, NEW a \in Targets(up[u].batch[i], Declared)
      PROVE  <<i, a>> \in up'[u].todo \/ a \in up'[u].into[i] \/ db[a][up[u].batch[i].name].ver >= up[u].batch[i].ver
  <2>1. <<i, a>> \in up[u].todo \/ a \in up[u].into[i] \/ db[a][up[u].batch[i].name].ver >= up[u].batch[i].ver
    BY <1>0, <1>1 DEF Covers
  <2>2. CASE <<i, a>> = t
    <3>1. t[1] = i /\ t[2] = a
      BY <2>2
    <3>2. up[u].batch[i].ver \in Nat
      BY <1>0, ConstantFacts
    <3>3. CASE Now(up[u], db, t).ver = up[u].batch[t[1]].ver
      BY <3>1, <3>2, <3>3 DEF Now
    <3>4. CASE \A j \in DOMAIN up[u].batch : up'[u].into[j] = IF j = t[1] THEN up[u].into[j] \cup {t[2]} ELSE up[u].into[j]
      <4>1. up'[u].into[i] = up[u].into[i] \cup {a}
        BY <3>1, <3>4
      <4> QED
        BY <4>1
    <3> QED
      BY <1>2, <3>3, <3>4
  <2>3. CASE <<i, a>> # t
    BY <1>2, <2>1, <2>3
  <2> QED
    BY <2>2, <2>3
<1> QED
  BY <1>1, <1>3 DEF Covers

\* A commit leaves no database with less than it had.
LEMMA CommitCovers ==
  ASSUME Alone, Settled, NEW u \in Uploads, Commit(u)
  PROVE  Covers(up'[u], db')
<1>0. Covers(up[u], db) /\ up[u].batch \in Seq(Package) /\ Shapes /\ u \in Calls /\ db \in [Arches -> Database]
      /\ Declared \subseteq Arches
  BY UploadFacts, PublicationAssumption DEF Alone
<1>1. PICK t \in up[u].todo :
         /\ db' = [db EXCEPT ![t[2]] = Added(u, t[2])] /\ Expected(u, t[2]) /\ t[2] \in Arches
         /\ up[u].pc = "commit" /\ up'[u].pc = "commit" /\ up'[u].batch = up[u].batch /\ up'[u].into = up[u].into
  BY CommitEffect
<1>2. ASSUME NEW i \in DOMAIN up[u].batch, NEW a \in Targets(up[u].batch[i], Declared)
      PROVE  a \in up[u].into[i] \/ db'[a][up[u].batch[i].name].ver >= up[u].batch[i].ver
  <2> DEFINE n == up[u].batch[i].name
  <2>1. a \in up[u].into[i] \/ db[a][n].ver >= up[u].batch[i].ver
    BY <1>0, <1>1 DEF Covers
  <2>0. up[u].batch[i] \in Package
    BY <1>0
  <2>2. n \in Names /\ up[u].batch[i].ver \in Nat /\ up[u].batch[i].store \in Stores
    BY <1>0, <2>0, ConstantFacts DEF Package
  <2>3. a \in Arches
    BY <1>0, <2>2 DEF Targets, Stores
  <2>4. CASE a # t[2]
    BY <1>0, <1>1, <2>1, <2>3, <2>4
  <2>5. CASE a = t[2]
    <3>1. db'[a][n] = Added(u, a)[n] /\ ~(Added(u, a)[n].ver < db[a][n].ver)
      BY <1>0, <1>1, <2>2, <2>5, AddedIsNewer
    <3>2. db[a][n].ver \in Nat
      BY <1>0, <2>2, <2>3, ConstantFacts DEF Database
    <3>3. Added(u, a)[n].ver \in Nat
      <4>1. CASE Added(u, a)[n] = db[a][n]
        BY <3>2, <4>1
      <4>2. CASE Added(u, a)[n] # db[a][n]
        <5>1. PICK j \in Batch(u, a) : Added(u, a)[n] = EntryOf(Pkg(u, j))
          BY <1>0, <2>2, <2>3, <4>2, AddedBelongs
        <5>2. Pkg(u, j).ver \in Nat
          BY <1>0, <5>1, ConstantFacts DEF Batch, Items, Pkg
        <5> QED
          BY <5>1, <5>2 DEF EntryOf
      <4> QED
        BY <4>1, <4>2
    <3> QED
      BY <2>1, <2>2, <3>1, <3>2, <3>3
  <2> QED
    BY <2>4, <2>5
<1> QED
  BY <1>1, <1>2 DEF Covers

\* Every step of an upload covers the databases its packages are for.
LEMMA StepCovers ==
  ASSUME Alone, Settled, Starts = {}, NEW u \in Uploads, Acquire(u) \/ UploadStep(u) \/ CrashUpload(u)
  PROVE  Covers(up'[u], db')
<1>0. /\ Shapes /\ u \in Calls /\ Covers(up[u], db) /\ DOMAIN up = Calls /\ up[u] \in UploadType(up[u].batch)
      /\ {"failed", "ok", "crashed", "conflict"} = Ended
  BY UploadFacts DEF Alone, Ended
<1>1. CASE Ends(u)
  <2>1. up'[u].pc \in Ended
    BY <1>0, <1>1, EndStep DEF Ends
  <2> QED
    BY <2>1 DEF Covers, Ended
<1>2. CASE RollsBack(u)
  <2>1. PICK err \in {"failed", "conflict"}, arches \in SUBSET Arches : RollBack(u, err, arches)
    BY <1>2 DEF RollsBack
  <2>2. up'[u].pc = "undo"
    BY <1>0, <2>1, RollBackStep
  <2> QED
    BY <2>2 DEF Covers
<1>3. CASE Capture(u) /\ ~Ends(u)
  <2>1. ~End(u, "failed")
    BY <1>0, <1>3 DEF Ends
  <2>2. /\ up[u].pc = "resolve" /\ up'[u].pc = "store" /\ up'[u].batch = up[u].batch /\ up'[u].into = up[u].into /\ db' = db
    BY <1>3, <2>1, CaptureEffect
  <2>3. up[u].todo = {}
    BY <1>3 DEF Capture
  <2> QED
    BY <1>0, <2>2, <2>3 DEF Covers
<1>4. CASE ~Ends(u) /\ ~RollsBack(u) /\ ~Resolve(u) /\ ~Capture(u) /\ ~Seeded(u) /\ ~Commit(u)
  <2>1. Continues(u)
    BY <1>4, StepKinds
  <2>2. CASE Acquire(u)
    BY <1>0, <2>2 DEF Acquire, Covers, UploadType
  <2>3. CASE Accept(u)
    <3>1. up' = [up EXCEPT ![u].pc = "seed", ![u].todo = {}]
      BY <1>0, <1>4, <2>3 DEF Accept, AcceptFrom, Ends, Settled
    <3>2. up'[u].pc = "seed" /\ up'[u].todo = {}
      BY <1>0, <3>1 DEF UploadType
    <3> QED
      BY <3>2 DEF Covers
  <2>4. CASE StoreObject(u) \/ Stored(u) \/ Committed(u)
    <3>1. up[u].pc \in {"store", "commit"} /\ db' = db
      BY <2>4 DEF StoreObject, Stored, Committed
    <3>2. up'[u].pc \in {"store", "commit", "names"}
      <4>1. CASE StoreObject(u)
        <5>1. PICK todo : up' = [up EXCEPT ![u].todo = todo]
          BY <1>0, <1>4, <4>1 DEF StoreObject, RollsBack
        <5> QED
          BY <1>0, <3>1, <5>1 DEF UploadType
      <4>2. CASE Stored(u)
        BY <1>0, <4>2 DEF Stored, UploadType
      <4>3. CASE Committed(u)
        BY <1>0, <4>3 DEF Committed, UploadType
      <4> QED
        BY <2>4, <4>1, <4>2, <4>3
    <3> QED
      BY <1>0, <2>1, <3>1, <3>2 DEF Covers, Continues
  <2>5. CASE UndoNew(u) \/ UndoStore(u) \/ UndoAdd(u) \/ UndoFails(u)
    <3>1. up'[u].pc \in {"undo", "undoadd"}
      BY <2>1, <2>5 DEF Continues, UndoNew, UndoStore, UndoAdd, UndoFails
    <3> QED
      BY <3>1 DEF Covers
  <2>6. CASE CommitFails(u)
    <3>1. \A t \in up[u].todo : up[u].committed \cup {t[2]} \in SUBSET Arches /\ up[u].committed \in SUBSET Arches
      BY <1>0, <2>6, CommitExpected DEF CommitFails, UploadType
    <3> QED
      BY <1>4, <2>6, <3>1 DEF CommitFails, RollsBack
  <2>7. ~StoreNames(u) /\ ~UploadFails(u) /\ ~Undone(u) /\ ~CrashUpload(u) /\ ~StartServer(u)
    <3>1. up[u].committed \in SUBSET Arches /\ {} \in SUBSET Arches /\ up[u].err \in Ended
      BY <1>0 DEF UploadType
    <3> QED
      BY <1>0, <1>4, <3>1 DEF StoreNames, UploadFails, Undone, CrashUpload, RollsBack, Ends, StartServer
  <2> QED
    BY <1>4, <2>2, <2>3, <2>4, <2>5, <2>6, <2>7, NothingSeeded DEF UploadStep
<1> QED
  BY <1>1, <1>2, <1>3, <1>4, SeededCovers, ResolveCovers, CommitCovers DEF Ends

\* Every step of an upload keeps what the uploads know.
LEMMA UploadAlone ==
  ASSUME Alone, Exclusive, NEW u \in Uploads, Acquire(u) \/ UploadStep(u) \/ CrashUpload(u)
  PROVE  Alone'
<1>0. /\ Publishes /\ u \in Calls /\ Starts = {} /\ Leased /\ NoneUnleased
      /\ \A v \in Uploads : Progress(up[v], db, obj, failures) /\ Blamed(up[v])
  BY UploadFacts DEF Alone, Exclusive, NoneUnleased
<1>1. Publishes'
  BY <1>0, UploadPublishes
<1>2. ASSUME NEW v \in Uploads PROVE Progress(up'[v], db', obj', failures') /\ Blamed(up'[v])
  <2>1. CASE v = u
    BY <1>0, <2>1, StepProgress, StepBlamed
  <2>2. CASE v # u
    BY <1>0, <2>2, OthersRest
  <2> QED
    BY <2>1, <2>2
<1>3. ASSUME Settled PROVE stored' = Declared /\ \A v \in Uploads : Covers(up'[v], db')
  <2>1. stored' = Declared
    BY <1>3, NothingSeeded DEF Alone
  <2>2. ASSUME NEW v \in Uploads PROVE Covers(up'[v], db')
    <3>1. CASE v = u
      BY <1>0, <1>3, <3>1, StepCovers
    <3>2. CASE v # u
      <4>1. ~Working(up[v]) /\ up'[v] = up[v]
        BY <1>0, <3>2, OthersRest
      <4> QED
        BY <4>1 DEF Covers, Working, Ended
    <3> QED
      BY <3>1, <3>2
  <2> QED
    BY <2>1, <2>2
<1> QED
  BY <1>1, <1>2, <1>3 DEF Alone

\* A collection works while no upload does.
LEMMA CollectionAlone ==
  ASSUME Alone, Exclusive, NEW g \in Collections, GCBegin(g) \/ CollectionStep(g) \/ GCStops(g)
  PROVE  Alone' /\ UNCHANGED <<db, stored, up>> /\ \A u \in Uploads : ~Working(up[u]) /\ IntoOf(up[u]) = {}
<1>0. /\ Publishes /\ Leased /\ NoneUnleased /\ LeaseHeld /\ UNCHANGED <<db, stored, up>>
      /\ \A v \in Uploads : Progress(up[v], db, obj, failures) /\ Blamed(up[v]) /\ v # g /\ v # "free"
  BY PublicationAssumption DEF Alone, Exclusive, NoneUnleased, Publishes, GCBegin, CollectionStep, GCRead, GCSweep, GCStops
<1>1. Publishes'
  BY <1>0, CollectionPublishes
<1>2. lease \in {"free", g}
  BY <1>0 DEF GCBegin, Free, CollectionStep, GCRead, GCSweep, GCStops, LeaseHeld, Reading
<1>3. ASSUME NEW v \in Uploads PROVE ~Working(up[v]) /\ IntoOf(up[v]) = {} /\ Progress(up[v], db', obj', failures')
  <2>1. ~Working(up[v])
    BY <1>0, <1>2 DEF LeaseHeld
  <2>2. IntoOf(up[v]) = {} /\ up[v].pc \notin {"resolve", "store", "commit", "names", "undo", "undoadd"}
    BY <1>0, <2>1 DEF Progress, Working, Ended
  <2> QED
    BY <2>1, <2>2, RestProgress
<1> QED
  BY <1>0, <1>1, <1>3 DEF Alone

\* That time passes changes no bytes.
LEMMA AgeAlone ==
  ASSUME Alone, Age
  PROVE  Alone' /\ UNCHANGED <<db, stored, up>>
<1>0. Publishes /\ UNCHANGED <<db, stored, up, failures>> /\ obj \in [File -> Object \cup {NoObject}]
  BY DEF Alone, Age, Publishes, Shapes
<1>1. Publishes'
  BY <1>0, AgePublishes
<1>2. Kept(obj, obj')
  <2> SUFFICES ASSUME NEW f \in File PROVE obj'[f].build = obj[f].build
    BY DEF Kept
  <2>1. obj[f] \in Object \cup {NoObject}
    BY <1>0
  <2>2. obj'[f] = IF obj[f] = NoObject THEN NoObject ELSE [obj[f] EXCEPT !.old = TRUE]
    BY DEF Age
  <2> QED
    BY <2>1, <2>2 DEF Object
<1>3. ASSUME NEW v \in Uploads PROVE Progress(up[v], db, obj', failures)
  <2>1. Progress(up[v], db, obj, failures)
    BY UploadFacts
  <2>2. \A t \in IntoOf(up[v]) : Before(up[v], t) # NoEntry /\ Held(obj, up[v].batch[t[1]].name, Before(up[v], t))
           => Held(obj', up[v].batch[t[1]].name, Before(up[v], t))
    BY <1>2, ItemFacts, HeldKept
  <2> QED
    BY <2>1, <2>2 DEF Progress
<1> QED
  BY <1>0, <1>1, <1>3 DEF Alone

\* No upload has begun.
LEMMA InitAlone ==
  ASSUME Init, Publishes
  PROVE  Alone
<1>1. ASSUME NEW u \in Uploads
      PROVE  up[u].pc = "idle" /\ IntoOf(up[u]) = {}
  <2>1. PICK b \in [Uploads -> Batches] : up = [v \in Uploads \cup Starts |-> Idle(IF v \in Uploads THEN b[v] ELSE <<>>)]
    BY DEF Init
  <2>2. up[u] = Idle(b[u])
    BY <2>1
  <2> QED
    BY <2>2 DEF Idle, IntoOf
<1>2. \A u \in Uploads : Progress(up[u], db, obj, failures) /\ Blamed(up[u]) /\ Covers(up[u], db)
  BY <1>1, RestProgress DEF Blamed, Covers
<1>3. Settled => stored = Declared
  BY DEF Init, Settled
<1> QED
  BY <1>2, <1>3 DEF Alone

\* What the uploads know holds in every step.
LEMMA NextAlone ==
  ASSUME Alone, Exclusive, [Next]_vars
  PROVE  Alone'
<1>1. CASE UNCHANGED vars
  <2>1. Shapes'
    BY NextShapes DEF Alone, Publishes
  <2> QED
    BY <1>1, <2>1 DEF Alone, Publishes, LeaseHeld, vars
<1>2. CASE Next
  BY <1>2, UploadAlone, CollectionAlone, AgeAlone DEF Next, Exclusive
<1> QED
  BY <1>1, <1>2

\* After a rollback with no further failure, every database has the entry from before.
LEMMA UndoneRestores ==
  ASSUME Alone, Exclusive, MaxFailures <= 1, Next, NEW u \in Uploads, up[u].pc = "undo", up'[u].pc \in Ended \ {"crashed"}
  PROVE  \A t \in Into(u) : db'[t[2]][Pkg(u, t[1]).name] = up[u].old[t[1]][t[2]]
<1>0. Progress(up[u], db, obj, failures) /\ Shapes /\ Starts = {} /\ "undo" \notin Ended /\ Into(u) = IntoOf(up[u])
      /\ u \in Calls
  BY UploadFacts, IntoIs DEF Ended, Exclusive
<1>1. PICK v \in Uploads : Acquire(v) \/ UploadStep(v) \/ CrashUpload(v)
  BY <1>0, CollectionAlone, AgeAlone DEF Next, Exclusive
<1>2. v = u
  <2>1. v # u => up'[u] = up[u]
    BY <1>0, <1>1, OthersRest DEF Exclusive
  <2> QED
    BY <1>0, <2>1
<1>3. Undone(u)
  BY <1>0, <1>1, <1>2, Outcome DEF StoreNames
<1>4. \A t \in IntoOf(up[u]) : Now(up[u], db, t) = Before(up[u], t)
  BY <1>0, <1>3 DEF Progress, Undone
<1> QED
  BY <1>0, <1>3, <1>4 DEF Undone, Now, Before, Pkg

\* publicationRollback.run leaves every database with the entry from before the upload, for any
\* number of uploads and collections that share the publication lease: the copies made by capture
\* are still there, no one else has touched the databases, and a commit that was reported as
\* failed is undone too if it happened.  At most one call fails: a restore that fails as well is
\* only logged.
THEOREM RollbackCorrect == Exclusive /\ MaxFailures <= 1 => (Spec => RollbackRestores)
<1> SUFFICES ASSUME Exclusive, MaxFailures <= 1 PROVE Spec => RollbackRestores
  OBVIOUS
<1>1. Init => Alone
  BY InitPublishes, InitAlone
<1>2. Alone /\ [Next]_vars => Alone'
  BY NextAlone
<1>3. Alone /\ [Next]_vars =>
         [\A u \in Uploads :
             up[u].pc = "undo" /\ up'[u].pc \in Ended \ {"crashed"} =>
                 \A t \in Into(u) : db'[t[2]][Pkg(u, t[1]).name] = up[u].old[t[1]][t[2]]]_vars
  BY UndoneRestores
<1> QED
  BY <1>1, <1>2, <1>3, PTL DEF Spec, RollbackRestores

(***************************************************************************)
(* An acknowledged upload stays published.                                 *)
(***************************************************************************)

\* What a step of an upload that goes on may do: what it has noted stays, what it notes is what
\* the database has, and a database gets a package of the batch, or the entry from before it.
Cell(r, t, a, n) == t[2] = a /\ r.batch[t[1]].name = n
Advances(u) ==
  /\ up'[u].batch = up[u].batch
  /\ \A t \in IntoOf(up[u]) : t \in IntoOf(up'[u]) /\ Before(up'[u], t) = Before(up[u], t)
  /\ \A t \in IntoOf(up'[u]) : t \notin IntoOf(up[u]) => Before(up'[u], t) = Now(up[u], db, t) /\ db' = db
  /\ \A a \in Arches, n \in Names :
        \/ db'[a][n] = db[a][n]
        \/ \E t \in IntoOf(up[u]) : Cell(up[u], t, a, n) /\ db'[a][n] \in {New(up[u], t), Before(up[u], t)}

\* Adding a batch to one database.
LEMMA AddedCells ==
  ASSUME Alone, NEW u \in Uploads, NEW b \in Arches, db' = [db EXCEPT ![b] = Added(u, b)], NEW a \in Arches, NEW n \in Names
  PROVE  \/ db'[a][n] = db[a][n]
         \/ \E t \in IntoOf(up[u]) : Cell(up[u], t, a, n) /\ db'[a][n] = New(up[u], t)
<1>0. db \in [Arches -> Database] /\ Shapes /\ u \in Calls
  BY UploadFacts
<1>1. CASE a # b
  BY <1>0, <1>1
<1>2. CASE a = b /\ Added(u, b)[n] = db[b][n]
  BY <1>0, <1>2
<1>3. CASE a = b /\ Added(u, b)[n] # db[b][n]
  <2>1. PICK i \in Batch(u, b) : Pkg(u, i).name = n /\ <<i, b>> \in IntoOf(up[u]) /\ Added(u, b)[n] = EntryOf(Pkg(u, i))
    BY <1>0, <1>3, AddedBelongs
  <2>2. <<i, b>>[1] = i /\ <<i, b>>[2] = b
    OBVIOUS
  <2>3. Cell(up[u], <<i, b>>, a, n) /\ db'[a][n] = New(up[u], <<i, b>>)
    BY <1>0, <1>3, <2>1, <2>2 DEF Cell, New, Pkg
  <2> QED
    BY <2>1, <2>3
<1> QED
  BY <1>1, <1>2, <1>3

\* Putting one entry back.
LEMMA RestoredCells ==
  ASSUME Alone, NEW u \in Uploads, NEW t \in IntoOf(up[u]),
         db' \in {db, [db EXCEPT ![t[2]][up[u].batch[t[1]].name] = Before(up[u], t)]}, NEW a \in Arches, NEW n \in Names
  PROVE  db'[a][n] = db[a][n] \/ (Cell(up[u], t, a, n) /\ db'[a][n] = Before(up[u], t))
<1>0. t[2] \in Arches /\ up[u].batch[t[1]].name \in Names /\ db \in [Arches -> [Names -> Entry \cup {NoEntry}]]
  BY ItemFacts, UploadFacts DEF Database
<1> QED
  BY <1>0 DEF Cell

\* Every step of an upload that does not end advances.
LEMMA StepAdvances ==
  ASSUME Alone, Settled, Starts = {}, NEW u \in Uploads, Acquire(u) \/ UploadStep(u) \/ CrashUpload(u), ~Ends(u)
  PROVE  Advances(u)
<1>0. Shapes /\ u \in Calls /\ Shaped(up[u], stored) /\ {"failed", "ok", "crashed", "conflict"} = Ended /\ ~End(u, "failed")
      /\ Progress(up[u], db, obj, failures) /\ db \in [Arches -> Database]
  BY UploadFacts DEF Ends, Ended
<1>1. CASE Resolve(u)
  <2>1. PICK t \in up[u].todo :
           \/ up'[u].into = up[u].into /\ up'[u].old = up[u].old
           \/ /\ IntoOf(up'[u]) = IntoOf(up[u]) \cup {t}
              /\ Before(up'[u], t) = Now(up[u], db, t)
              /\ \A s \in IntoOf(up[u]) : s # t => Before(up'[u], s) = Before(up[u], s)
    BY <1>0, <1>1, ResolveEffect
  <2>2. up[u].pc = "resolve" /\ up'[u].batch = up[u].batch /\ db' = db
    BY <1>0, <1>1, ResolveEffect
  <2>3. \A s \in IntoOf(up[u]) : Now(up[u], db, s) = Before(up[u], s)
    BY <1>0, <2>2 DEF Progress
  <2>4. CASE up'[u].into = up[u].into /\ up'[u].old = up[u].old
    <3>1. IntoOf(up'[u]) = IntoOf(up[u]) /\ \A s : Before(up'[u], s) = Before(up[u], s)
      BY <2>2, <2>4 DEF IntoOf, Before
    <3> QED
      BY <2>2, <3>1 DEF Advances
  <2>5. CASE /\ IntoOf(up'[u]) = IntoOf(up[u]) \cup {t}
             /\ Before(up'[u], t) = Now(up[u], db, t)
             /\ \A s \in IntoOf(up[u]) : s # t => Before(up'[u], s) = Before(up[u], s)
    BY <2>2, <2>3, <2>5 DEF Advances
  <2> QED
    BY <2>1, <2>4, <2>5
<1>2. CASE Capture(u)
  <2>1. /\ up'[u].batch = up[u].batch /\ IntoOf(up'[u]) = IntoOf(up[u]) /\ db' = db
        /\ \A t \in IntoOf(up[u]) : Before(up'[u], t) = Before(up[u], t)
    BY <1>0, <1>2, CaptureEffect
  <2> QED
    BY <2>1 DEF Advances
<1>3. CASE ~Resolve(u) /\ ~Capture(u)
  <2>1. up'[u].batch = up[u].batch /\ up'[u].into = up[u].into /\ up'[u].old = up[u].old
    <3>1. CASE RollsBack(u)
      <4>1. PICK err \in Ended, arches \in SUBSET Arches : RollBack(u, err, arches)
        BY <1>0, <3>1 DEF RollsBack
      <4> QED
        BY <1>0, <4>1, RollBackStep
    <3>2. CASE ~RollsBack(u)
      BY <1>3, <3>2, StepKinds DEF Continues
    <3> QED
      BY <3>1, <3>2
  <2>2. IntoOf(up'[u]) = IntoOf(up[u]) /\ \A s : Before(up'[u], s) = Before(up[u], s)
    BY <2>1 DEF IntoOf, Before
  <2>3. ASSUME NEW a \in Arches, NEW n \in Names
        PROVE  \/ db'[a][n] = db[a][n]
               \/ \E t \in IntoOf(up[u]) : Cell(up[u], t, a, n) /\ db'[a][n] \in {New(up[u], t), Before(up[u], t)}
    <3>1. CASE Commit(u) \/ CommitFails(u)
      <4>1. PICK t \in up[u].todo : db' = db \/ db' = [db EXCEPT ![t[2]] = Added(u, t[2])]
        BY <3>1 DEF Commit, CommitFails
      <4>2. t[2] \in Arches
        BY <3>1, CommitExpected DEF Commit, CommitFails
      <4>3. CASE db' = db
        BY <4>3
      <4>4. CASE db' = [db EXCEPT ![t[2]] = Added(u, t[2])]
        BY <4>2, <4>4, AddedCells
      <4> QED
        BY <4>1, <4>3, <4>4
    <3>2. CASE UndoNew(u)
      <4>1. PICK t \in up[u].todo :
               /\ Before(up[u], t) = NoEntry /\ up[u].pc = "undo"
               /\ db' \in {db, [db EXCEPT ![t[2]][up[u].batch[t[1]].name] = NoEntry]}
        BY <3>2 DEF UndoNew, Before, Pkg
      <4>2. t \in IntoOf(up[u]) /\ db' \in {db, [db EXCEPT ![t[2]][up[u].batch[t[1]].name] = Before(up[u], t)]}
        BY <1>0, <4>1 DEF Shaped
      <4> QED
        BY <4>2, RestoredCells
    <3>3. CASE UndoAdd(u)
      <4> DEFINE t == up[u].at
      <4>1. up[u].pc = "undoadd" /\ db' \in {db, [db EXCEPT ![t[2]][up[u].batch[t[1]].name] = Before(up[u], t)]}
        BY <3>3 DEF UndoAdd, Before, Pkg
      <4>2. t \in IntoOf(up[u])
        BY <1>0, <4>1 DEF Shaped
      <4> HIDE DEF t
      <4> QED
        BY <4>1, <4>2, RestoredCells
    <3> QED
      BY <3>1, <3>2, <3>3, NothingSeeded
  <2> QED
    BY <2>1, <2>2, <2>3 DEF Advances
<1> QED
  BY <1>1, <1>2, <1>3

\* A call takes a step only when it begins or works.
LEMMA Active ==
  ASSUME NEW u \in Uploads, Acquire(u) \/ UploadStep(u) \/ CrashUpload(u), Starts = {}
  PROVE  Acquire(u) \/ Working(up[u])
<1>1. ~StartServer(u)
  BY DEF StartServer
<1> QED
  BY <1>1 DEF UploadStep, CrashUpload, Accept, AcceptFrom, Probe, InitArch, ListAny, Backfill, Seeded, SeededFrom, Resolve,
     Capture, StoreObject, Stored, Commit, CommitFails, Committed, StoreNames, UploadFails, UndoNew, UndoStore, UndoAdd,
     UndoFails, Undone, Working, Ended

\* A step of an upload, as the rest of this section needs it.
LEMMA StepFacts ==
  ASSUME Alone, Exclusive, Settled, NEW u \in Uploads, Acquire(u) \/ UploadStep(u) \/ CrashUpload(u)
  PROVE  /\ Starts = {} /\ Leased /\ Alone' /\ up'[u].batch = up[u].batch
         /\ \A v \in Uploads : v # u => up'[v] = up[v] /\ IntoOf(up[v]) = {} /\ ~Working(up[v])
         /\ up'[u].pc \in Ended => db' = db /\ IntoOf(up'[u]) = {}
         /\ up'[u].pc \notin Ended => Advances(u)
         /\ up[u].pc \notin Ended
<1>0. Starts = {} /\ Leased /\ Shapes /\ u \in Calls
  BY UploadFacts DEF Exclusive
<1>1. Alone' /\ Stepped(u)
  BY <1>0, UploadAlone, UploadShapes
<1>2. \A v \in Uploads : v # u => up'[v] = up[v] /\ IntoOf(up[v]) = {} /\ ~Working(up[v])
  BY <1>0, OthersRest
<1>3. ASSUME up'[u].pc \in Ended PROVE db' = db /\ IntoOf(up'[u]) = {}
  <2>1. ~Commit(u) /\ ~CommitFails(u) /\ ~UndoNew(u) /\ ~UndoAdd(u)
    <3>1. \A res \in {"failed", "conflict"}, arches \in SUBSET Arches : ~RollBack(u, res, arches)
      BY <1>0, <1>3, RollBackStep DEF Ended
    <3>2. ~Continues(u) /\ ~RollsBack(u)
      BY <1>3, <3>1 DEF Continues, RollsBack
    <3> QED
      BY <3>2, PlainSteps
  <2>2. Progress(up'[u], db', obj', failures')
    BY <1>1 DEF Alone
  <2> QED
    BY <1>3, <2>1, <2>2, NothingSeeded DEF Progress, Ended
<1>4. ASSUME up'[u].pc \notin Ended PROVE Advances(u)
  <2>1. ~Ends(u)
    BY <1>0, <1>4, EndStep DEF Ends
  <2> QED
    BY <1>0, <2>1, StepAdvances
<1>5. up[u].pc \notin Ended
  BY <1>0, Active DEF Acquire, Working, Ended
<1> QED
  BY <1>0, <1>1, <1>2, <1>3, <1>4, <1>5 DEF Stepped

\* The architectures a package is for.
LEMMA TargetFacts ==
  ASSUME Alone, NEW u \in Uploads, NEW i \in DOMAIN up[u].batch, NEW a \in Targets(up[u].batch[i], Declared)
  PROVE  /\ a \in Arches /\ up[u].batch[i].name \in Names /\ up[u].batch[i].ver \in Nat
         /\ db[a][up[u].batch[i].name].ver \in Nat
<1>1. up[u].batch[i] \in Package /\ db \in [Arches -> [Names -> Entry \cup {NoEntry}]]
  BY UploadFacts DEF Database
<1>2. a \in Arches
  BY <1>1, ConstantFacts DEF Targets, Stores
<1> QED
  BY <1>1, <1>2, ConstantFacts

\* When an upload is acknowledged, every database it is for has its packages, or newer ones.
LEMMA AcknowledgedThere ==
  ASSUME Alone, Settled, NEW u \in Uploads, up[u].pc = "names",
         NEW i \in DOMAIN up[u].batch, NEW a \in Targets(up[u].batch[i], Declared)
  PROVE  db[a][up[u].batch[i].name].ver >= up[u].batch[i].ver
<1>0. Progress(up[u], db, obj, failures) /\ Covers(up[u], db)
  BY DEF Alone
<1>1. a \in Arches /\ up[u].batch[i].ver \in Nat
  BY TargetFacts
<1>2. CASE a \in up[u].into[i]
  <2>1. <<i, a>> \in IntoOf(up[u]) /\ <<i, a>>[1] = i /\ <<i, a>>[2] = a
    BY <1>1, <1>2 DEF IntoOf
  <2>2. Now(up[u], db, <<i, a>>) = New(up[u], <<i, a>>)
    BY <1>0, <2>1 DEF Progress
  <2> QED
    BY <1>1, <2>1, <2>2 DEF Now, New, EntryOf
<1>3. CASE a \notin up[u].into[i]
  BY <1>0, <1>3 DEF Covers
<1> QED
  BY <1>2, <1>3

\* A step of an upload takes nothing from what was acknowledged before.
LEMMA UploadAcked ==
  ASSUME Alone, Exclusive, Settled, AckedKept, NEW u \in Uploads, Acquire(u) \/ UploadStep(u) \/ CrashUpload(u)
  PROVE  AckedKept'
<1>0. /\ Starts = {} /\ up'[u].batch = up[u].batch
      /\ \A v \in Uploads : v # u => up'[v] = up[v] /\ IntoOf(up[v]) = {}
  BY StepFacts
<1> SUFFICES ASSUME NEW w \in Uploads, up'[w].pc = "ok", NEW i \in DOMAIN up'[w].batch,
                    NEW a \in Targets(up'[w].batch[i], Declared)
             PROVE  /\ db'[a][up'[w].batch[i].name].ver >= up'[w].batch[i].ver
                    /\ \A v \in Uploads : \A t \in IntoOf(up'[v]) :
                          t[2] = a /\ up'[v].batch[t[1]].name = up'[w].batch[i].name
                             => Before(up'[v], t).ver >= up'[w].batch[i].ver
  BY DEF AckedKept
<1> DEFINE n == up[w].batch[i].name
           k == up[w].batch[i].ver
<1>1. up'[w].batch = up[w].batch
  BY <1>0
<1>2. a \in Arches /\ n \in Names /\ k \in Nat /\ db[a][n].ver \in Nat
  BY <1>1, TargetFacts
<1>3. CASE up'[u].pc \in Ended
  <2>1. db' = db /\ \A v \in Uploads : IntoOf(up'[v]) = {}
    BY <1>0, <1>3, StepFacts
  <2>2. db[a][n].ver >= k
    <3>1. CASE w = u
      <4>1. up[u].pc = "names"
        <5>1. Blamed(up[u])
          BY DEF Alone
        <5> QED
          BY <1>0, <1>3, <3>1, <5>1, Outcome DEF StoreNames, Undone, Blamed
      <4> QED
        BY <1>1, <3>1, <4>1, AcknowledgedThere
    <3>2. CASE w # u
      <4>1. up[w].pc = "ok"
        BY <1>0, <3>2
      <4> QED
        BY <1>1, <4>1 DEF AckedKept
    <3> QED
      BY <3>1, <3>2
  <2> QED
    BY <1>1, <2>1, <2>2
<1>4. CASE up'[u].pc \notin Ended
  <2>1. w # u /\ up[w].pc = "ok"
    BY <1>0, <1>4 DEF Ended
  <2>2. /\ db[a][n].ver >= k
        /\ \A t \in IntoOf(up[u]) : Cell(up[u], t, a, n) => Before(up[u], t).ver >= k
    BY <1>1, <2>1 DEF AckedKept, Cell
  <2>3. Advances(u)
    BY <1>4, StepFacts
  <2>4. db'[a][n].ver >= k
    <3>1. CASE db'[a][n] = db[a][n]
      BY <2>2, <3>1
    <3>2. CASE \E t \in IntoOf(up[u]) : Cell(up[u], t, a, n) /\ db'[a][n] \in {New(up[u], t), Before(up[u], t)}
      <4>1. PICK t \in IntoOf(up[u]) : Cell(up[u], t, a, n) /\ db'[a][n] \in {New(up[u], t), Before(up[u], t)}
        BY <3>2
      <4>2. Before(up[u], t).ver >= k /\ Before(up[u], t).ver < New(up[u], t).ver
        BY <2>2, <4>1, ItemFacts
      <4>3. Before(up[u], t).ver \in Nat /\ New(up[u], t).ver \in Nat
        BY ItemFacts, ConstantFacts
      <4> QED
        BY <1>2, <4>1, <4>2, <4>3
    <3> QED
      BY <1>2, <2>3, <3>1, <3>2 DEF Advances
  <2>5. ASSUME NEW v \in Uploads, NEW t \in IntoOf(up'[v]), t[2] = a, up'[v].batch[t[1]].name = n
        PROVE  Before(up'[v], t).ver >= k
    <3>1. v = u
      BY <1>0, <2>5
    <3>2. up[u].batch[t[1]].name = n
      BY <1>0, <2>5, <3>1
    <3>3. CASE t \in IntoOf(up[u])
      BY <2>2, <2>3, <2>5, <3>1, <3>2, <3>3 DEF Advances, Cell
    <3>4. CASE t \notin IntoOf(up[u])
      <4>1. Before(up'[u], t) = Now(up[u], db, t)
        BY <2>3, <3>1, <3>4 DEF Advances
      <4> QED
        BY <2>2, <2>5, <3>1, <3>2, <4>1 DEF Now
    <3> QED
      BY <3>3, <3>4
  <2> QED
    BY <1>1, <2>4, <2>5
<1> QED
  BY <1>3, <1>4

\* Without anything to undo, the entries of a database are the ones it has.
LEMMA BaseIsNow ==
  ASSUME NEW r, IntoOf(r) = {}, NEW d \in [Arches -> Database]
  PROVE  BaseAgrees(r, d) <=> Agrees(d)
<1>1. \A a, n, e : Base(r, d, a, n, e) <=> e = d[a][n]
  BY DEF Base
<1>2. \A a \in Declared, n \in Names : d[a][n] \in Entry \cup {NoEntry}
  BY ConstantFacts DEF Database
<1>3. ASSUME BaseAgrees(r, d) PROVE Agrees(d)
  BY <1>1, <1>2, <1>3 DEF BaseAgrees, Agrees
<1>4. ASSUME Agrees(d) PROVE BaseAgrees(r, d)
  BY <1>1, <1>4 DEF BaseAgrees, Agrees
<1> QED
  BY <1>3, <1>4

\* A database that has the entry from before is as a rollback would leave it.
LEMMA RestoredAgrees ==
  ASSUME Alone, NEW u \in Uploads, BaseAgrees(up[u], db), \A t \in IntoOf(up[u]) : Now(up[u], db, t) = Before(up[u], t)
  PROVE  Agrees(db)
<1>1. \A a \in Declared, n \in Names : Base(up[u], db, a, n, db[a][n])
  BY DEF Base, Now
<1>2. \A a \in Declared, n \in Names : db[a][n] \in Entry \cup {NoEntry}
  BY UploadFacts, ConstantFacts DEF Database
<1> QED
  BY <1>1, <1>2 DEF BaseAgrees, Agrees

\* An upload that is acknowledged has fanned its packages out.
LEMMA AcknowledgedAgrees ==
  ASSUME Alone, Settled, NEW u \in Uploads, up[u].pc = "names", BaseAgrees(up[u], db)
  PROVE  Agrees(db)
<1>0. Progress(up[u], db, obj, failures) /\ db \in [Arches -> [Names -> Entry \cup {NoEntry}]] /\ Declared \subseteq Arches
  BY UploadFacts, ConstantFacts DEF Database
<1> SUFFICES ASSUME NEW a \in Declared, NEW b \in Declared, NEW n \in Names, db[a][n].store = "any"
             PROVE  db[b][n].ver >= db[a][n].ver
  BY DEF Agrees
<1>a. db[a][n] \in Entry \cup {NoEntry} /\ db[b][n] \in Entry \cup {NoEntry} /\ db[a][n].ver \in Nat /\ db[b][n].ver \in Nat
  BY <1>0, ConstantFacts
<1>1. CASE \E t \in IntoOf(up[u]) : Cell(up[u], t, a, n)
  <2>1. PICK t \in IntoOf(up[u]) : Cell(up[u], t, a, n)
    BY <1>1
  <2>2. db[a][n] = New(up[u], t)
    BY <1>0, <2>1 DEF Progress, Now, Cell
  <2>3. t[1] \in DOMAIN up[u].batch /\ up[u].batch[t[1]].store = "any" /\ up[u].batch[t[1]].ver = db[a][n].ver
        /\ up[u].batch[t[1]].name = n
    BY <2>1, <2>2, ItemFacts DEF New, EntryOf, Cell
  <2>4. b \in Targets(up[u].batch[t[1]], Declared)
    BY <2>3 DEF Targets
  <2> QED
    BY <2>3, <2>4, AcknowledgedThere
<1>2. CASE ~\E t \in IntoOf(up[u]) : Cell(up[u], t, a, n)
  <2>1. Base(up[u], db, a, n, db[a][n])
    BY <1>2 DEF Base, Cell
  <2>2. CASE \E s \in IntoOf(up[u]) : Cell(up[u], s, b, n)
    <3>1. PICK s \in IntoOf(up[u]) : Cell(up[u], s, b, n)
      BY <2>2
    <3>2. Base(up[u], db, b, n, Before(up[u], s)) /\ Before(up[u], s) \in Entry \cup {NoEntry}
      BY <3>1, ItemFacts DEF Base, Cell
    <3>3. Before(up[u], s).ver >= db[a][n].ver
      BY <1>a, <2>1, <3>2 DEF BaseAgrees
    <3>4. db[b][n] = New(up[u], s)
      BY <1>0, <3>1 DEF Progress, Now, Cell
    <3>5. Before(up[u], s).ver < New(up[u], s).ver /\ Before(up[u], s).ver \in Nat
      BY ItemFacts, ConstantFacts
    <3> QED
      BY <1>a, <3>3, <3>4, <3>5
  <2>3. CASE ~\E s \in IntoOf(up[u]) : Cell(up[u], s, b, n)
    <3>1. Base(up[u], db, b, n, db[b][n])
      BY <2>3 DEF Base, Cell
    <3> QED
      BY <1>a, <2>1, <3>1 DEF BaseAgrees
  <2> QED
    BY <2>2, <2>3
<1> QED
  BY <1>1, <1>2

\* A step that goes on does not change what a rollback would leave.
LEMMA AdvanceAgrees ==
  ASSUME Alone, Alone', NEW u \in Uploads, Advances(u), BaseAgrees(up[u], db)
  PROVE  BaseAgrees(up'[u], db')
<1>0. /\ up'[u].batch = up[u].batch /\ Declared \subseteq Arches
      /\ \A s, t \in IntoOf(up'[u]) : s[2] = t[2] /\ up[u].batch[s[1]].name = up[u].batch[t[1]].name => s = t
  BY ConstantFacts DEF Alone, Progress, Advances
<1>1. ASSUME NEW a \in Declared, NEW n \in Names, NEW e, Base(up'[u], db', a, n, e)
      PROVE  Base(up[u], db, a, n, e)
  <2>1. CASE \E t \in IntoOf(up'[u]) : t[2] = a /\ up'[u].batch[t[1]].name = n /\ e = Before(up'[u], t)
    <3>1. PICK t \in IntoOf(up'[u]) : t[2] = a /\ up[u].batch[t[1]].name = n /\ e = Before(up'[u], t)
      BY <1>0, <2>1
    <3>2. CASE t \in IntoOf(up[u])
      BY <3>1, <3>2 DEF Advances, Base
    <3>3. CASE t \notin IntoOf(up[u])
      <4>1. e = db[a][n]
        BY <3>1, <3>3 DEF Advances, Now
      <4>2. \A s \in IntoOf(up[u]) : ~(s[2] = a /\ up[u].batch[s[1]].name = n)
        BY <1>0, <3>1, <3>3 DEF Advances
      <4> QED
        BY <4>1, <4>2 DEF Base
    <3> QED
      BY <3>2, <3>3
  <2>2. CASE e = db'[a][n] /\ \A t \in IntoOf(up'[u]) : ~(t[2] = a /\ up'[u].batch[t[1]].name = n)
    <3>1. \A t \in IntoOf(up[u]) : ~(t[2] = a /\ up[u].batch[t[1]].name = n)
      BY <1>0, <2>2 DEF Advances
    <3>2. db'[a][n] = db[a][n]
      BY <1>0, <3>1 DEF Advances, Cell
    <3> QED
      BY <2>2, <3>1, <3>2 DEF Base
  <2> QED
    BY <1>1, <2>1, <2>2 DEF Base
<1> QED
  BY <1>1 DEF BaseAgrees

\* A step of an upload, and the fan-out.
LEMMA UploadAgrees ==
  ASSUME Alone, Exclusive, Settled, MaxFailures <= 1, AgreesAtRest,
         NEW u \in Uploads, Acquire(u) \/ UploadStep(u) \/ CrashUpload(u)
  PROVE  AgreesAtRest'
<1>0. /\ Starts = {} /\ Alone' /\ up'[u].batch = up[u].batch /\ up[u].pc \notin Ended
      /\ \A v \in Uploads : v # u => up'[v] = up[v] /\ IntoOf(up[v]) = {} /\ ~Working(up[v])
      /\ db \in [Arches -> Database] /\ Progress(up[u], db, obj, failures) /\ Blamed(up[u])
  BY StepFacts, UploadFacts DEF Alone
<1> SUFFICES ASSUME \A v \in Uploads : up'[v].pc # "crashed"
             PROVE  /\ \A v \in Uploads : Working(up'[v]) => BaseAgrees(up'[v], db')
                    /\ (\A v \in Uploads : ~Working(up'[v])) => Agrees(db')
  BY DEF AgreesAtRest
<1>1. \A v \in Uploads : up[v].pc # "crashed"
  BY <1>0 DEF Ended
<1>2. BaseAgrees(up[u], db)
  <2>1. CASE Working(up[u])
    BY <1>1, <2>1 DEF AgreesAtRest
  <2>2. CASE ~Working(up[u])
    <3>1. Agrees(db)
      BY <1>0, <1>1, <2>2 DEF AgreesAtRest
    <3>2. IntoOf(up[u]) = {}
      BY <1>0, <2>2 DEF Progress, Working, Ended
    <3> QED
      BY <1>0, <3>1, <3>2, BaseIsNow
  <2> QED
    BY <2>1, <2>2
<1>3. CASE up'[u].pc \notin Ended
  <2>1. BaseAgrees(up'[u], db')
    BY <1>0, <1>2, <1>3, StepFacts, AdvanceAgrees
  <2>2. ASSUME ~Working(up'[u]) PROVE Agrees(db')
    <3>1. IntoOf(up'[u]) = {} /\ db' \in [Arches -> Database]
      BY <1>0, <2>2 DEF Alone, Progress, Working, Ended, Publishes, Shapes, Databases
    <3> QED
      BY <2>1, <3>1, BaseIsNow
  <2> QED
    BY <1>0, <2>1, <2>2
<1>4. CASE up'[u].pc \in Ended
  <2>1. db' = db /\ \A v \in Uploads : ~Working(up'[v])
    BY <1>0, <1>4, StepFacts DEF Working
  <2>2. Agrees(db)
    <3>1. CASE StoreNames(u)
      BY <1>2, <3>1, AcknowledgedAgrees DEF StoreNames
    <3>2. CASE Undone(u)
      <4>1. \A t \in IntoOf(up[u]) : Now(up[u], db, t) = Before(up[u], t)
        BY <1>0, <3>2 DEF Undone, Progress
      <4> QED
        BY <1>2, <4>1, RestoredAgrees
    <3>3. CASE up[u].pc \in {"accept", "seed", "init", "list", "fill", "resolve"}
      <4>1. \A t \in IntoOf(up[u]) : Now(up[u], db, t) = Before(up[u], t)
        BY <1>0, <3>3 DEF Progress
      <4> QED
        BY <1>2, <4>1, RestoredAgrees
    <3> QED
      BY <1>0, <1>4, <3>1, <3>2, <3>3, Outcome
  <2> QED
    BY <2>1, <2>2
<1> QED
  BY <1>3, <1>4

\* Every step keeps the acknowledgements.
LEMMA NextAcked ==
  ASSUME Alone, Exclusive, Settled, AckedKept, [Next]_vars
  PROVE  AckedKept' /\ (MaxFailures <= 1 /\ AgreesAtRest => AgreesAtRest')
<1>1. CASE UNCHANGED <<db, up>>
  BY <1>1 DEF AckedKept, AgreesAtRest
<1>2. ASSUME NEW u \in Uploads, Acquire(u) \/ UploadStep(u) \/ CrashUpload(u)
      PROVE  AckedKept' /\ (MaxFailures <= 1 /\ AgreesAtRest => AgreesAtRest')
  BY <1>2, UploadAcked, UploadAgrees
<1> QED
  BY <1>1, <1>2, CollectionAlone, AgeAlone DEF Next, Exclusive, vars

\* The databases a behaviour starts from agree on the packages of architecture any.
Fanned == \A s \in Published : Agrees(s.db)

\* An acknowledged upload stays published on every architecture it is for, whatever the uploads
\* after it do: nothing but a newer version replaces it, because a rollback only takes back what
\* the same upload has put there.  This holds for any number of uploads, failures and crashes.
THEOREM AckedStaysCorrect == Exclusive /\ Settled => (Spec => []AckedStays)
<1> SUFFICES ASSUME Exclusive, Settled PROVE Spec => []AckedStays
  OBVIOUS
<1>1. Init => Alone /\ AckedKept
  <2> SUFFICES ASSUME Init PROVE Alone /\ AckedKept
    OBVIOUS
  <2>1. \A u \in Uploads : up[u].pc = "idle"
    BY DEF Init, Idle
  <2> QED
    BY <2>1, InitPublishes, InitAlone DEF AckedKept
<1>2. Alone /\ AckedKept /\ [Next]_vars => (Alone /\ AckedKept)'
  BY NextAlone, NextAcked
<1>3. Alone /\ AckedKept => AckedStays
  BY DEF Alone, AckedKept, AckedStays, Items, Pkg, Current, RepoArches
<1> QED
  BY <1>1, <1>2, <1>3, PTL DEF Spec

\* Acknowledged uploads stay, and at rest a package of architecture any is in the database of every
\* architecture or of none: the fan-out of UploadFiles over databases that change one by one looks
\* like one step, if at most one call fails.
THEOREM AckedCorrect == Exclusive /\ Settled /\ Fanned /\ MaxFailures <= 1 => (Spec => []AckedHolds)
<1> SUFFICES ASSUME Exclusive, Settled, Fanned, MaxFailures <= 1 PROVE Spec => []AckedHolds
  OBVIOUS
<1>1. Init => Alone /\ AckedKept /\ AgreesAtRest
  <2> SUFFICES ASSUME Init PROVE Alone /\ AckedKept /\ AgreesAtRest
    OBVIOUS
  <2>1. \A u \in Uploads : up[u].pc = "idle"
    BY DEF Init, Idle
  <2>2. Agrees(db)
    BY DEF Init, Fanned
  <2> QED
    BY <2>1, <2>2, InitPublishes, InitAlone DEF AckedKept, AgreesAtRest, Working
<1>2. Alone /\ AckedKept /\ AgreesAtRest /\ [Next]_vars => (Alone /\ AckedKept /\ AgreesAtRest)'
  BY NextAlone, NextAcked
<1>3. Alone /\ AckedKept /\ AgreesAtRest => AckedHolds
  <2> SUFFICES ASSUME Alone, AckedKept, AgreesAtRest PROVE AckedHolds
    OBVIOUS
  <2>1. AckedStays
    BY DEF Alone, AckedKept, AckedStays, Items, Pkg, Current, RepoArches
  <2>2. AtRest => Agrees(db)
    <3>1. Uploads \subseteq DOMAIN up
      BY DEF Alone, Publishes, Shapes, Calls
    <3> QED
      BY <3>1 DEF AtRest, AgreesAtRest, Working, Ended
  <2> QED
    BY <2>1, <2>2 DEF Alone, AckedHolds, AnyEverywhere, Agrees
<1> QED
  BY <1>1, <1>2, <1>3, PTL DEF Spec
==============================================================================
