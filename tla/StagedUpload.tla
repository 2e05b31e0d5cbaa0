---------------------------- MODULE StagedUpload ----------------------------
(***************************************************************************)
(* Uploads through presigned puts: a client asks for an intent, puts the   *)
(* package and its signature straight to storage, and has the server       *)
(* commit them.  The server reads what is staged into copies of its own,   *)
(* validates and publishes those, and deletes the intent; a presign also   *)
(* collects intents nobody committed.  A client against a server without   *)
(* staging falls back to the multipart upload.                             *)
(*                                                                         *)
(* The content of a file is the client that sent it, Junk for other bytes  *)
(* of the same length; a signature verifies a package of the same content. *)
(* Time counts units of the presign lifetime.                              *)
(***************************************************************************)
EXTENDS Naturals, Sequences, FiniteSets

CONSTANTS Uploaders, Handlers, Batches, MaxIntents, MaxStagedTime, MaxLoss,
          StagedTTL, GCCutoff, Junk

StagedPkgs == UNION {{b[i] : i \in DOMAIN b} : b \in Batches}

ASSUME StagedAssumption ==
  /\ StagedTTL \in Nat /\ GCCutoff \in Nat /\ StagedTTL < GCCutoff
  /\ Junk \notin Uploaders /\ Batches \subseteq Seq(StagedPkgs)

Parts == {"pkg", "sig"}
NoIntent == 0

VARIABLES suStaging,     \* the blob backend stages
          suNow,
          suIntents,     \* sequence of [by, granted, at, store : part -> {} or {content}, landed, gone]
          suC,           \* client -> [pc, todo, id, signed, fallback, acked]; an
                         \* acknowledgement says if the bytes were stored or a
                         \* package of that version was there
          suH,           \* server handler -> what it does for whom
          suPublished,   \* package -> {} or {[pkg, sig]}
          suLosses

suVars == <<suStaging, suNow, suIntents, suC, suH, suPublished, suLosses>>

UploaderIdle == [pc |-> "idle", todo |-> <<>>, id |-> NoIntent, signed |-> FALSE,
                 fallback |-> FALSE, acked |-> {}]
HandlerIdle == [pc |-> "idle", by |-> Junk, id |-> NoIntent, pkg |-> 0, expired |-> {},
                copy |-> [x \in Parts |-> {}], signed |-> FALSE, how |-> "there"]

SUInit ==
  /\ suStaging \in BOOLEAN /\ suNow = 0 /\ suIntents = <<>> /\ suLosses = 0
  /\ suC = [c \in Uploaders |-> UploaderIdle]
  /\ suH = [h \in Handlers |-> HandlerIdle]
  /\ suPublished = [p \in StagedPkgs |-> {}]

Uploader(c, r) == suC' = [suC EXCEPT ![c] = r]
Handler(h, r) == suH' = [suH EXCEPT ![h] = r]

\* The client of this request still waits for its answer.
Answered(h) == suH[h].by # Junk

StagedTick == /\ suNow < MaxStagedTime /\ suNow' = suNow + 1
              /\ UNCHANGED <<suStaging, suIntents, suC, suH, suPublished, suLosses>>

(***************************************************************************)
(* The client                                                              *)
(***************************************************************************)
BeginUpload(c, batch) ==
  /\ suC[c].pc = "idle" /\ suC[c].acked = {}
  /\ Uploader(c, [suC[c] EXCEPT !.pc = "next", !.todo = batch])
  /\ UNCHANGED <<suStaging, suNow, suIntents, suH, suPublished, suLosses>>

\* uploadPackageFiles, one package further: ask for an intent, or, once the
\* server said it has no staging, send the package itself.
NextPackage(c) ==
  /\ suC[c].pc = "next"
  /\ IF suC[c].todo = <<>> THEN Uploader(c, [suC[c] EXCEPT !.pc = "idle"])
     ELSE Uploader(c, [suC[c] EXCEPT !.pc = IF suC[c].fallback THEN "multipart" ELSE "presign"])
  /\ UNCHANGED <<suStaging, suNow, suIntents, suH, suPublished, suLosses>>

\* stagedProtocolUnavailable.
FallBack(c) ==
  /\ suC[c].pc = "presign" /\ ~suStaging
  /\ Uploader(c, [suC[c] EXCEPT !.pc = "multipart", !.fallback = TRUE])
  /\ UNCHANGED <<suStaging, suNow, suIntents, suH, suPublished, suLosses>>

\* An upload stops at the first error; what was acknowledged before stays so, and
\* nobody waits for the request under way any more.
UploadStops(c) ==
  /\ suC[c].pc \notin {"idle", "next"} /\ suLosses < MaxLoss
  /\ suLosses' = suLosses + 1
  /\ Uploader(c, [UploaderIdle EXCEPT !.acked = suC[c].acked])
  /\ suH' = [h \in Handlers |-> IF suH[h].by = c THEN [suH[h] EXCEPT !.by = Junk] ELSE suH[h]]
  /\ UNCHANGED <<suStaging, suNow, suIntents, suPublished>>

\* putStagedFile: storage takes it while the URL is valid; in the order package, signature.
Lives(i) == suNow - suIntents[i].granted < StagedTTL

Put(i, part, content) ==
  suIntents' = [suIntents EXCEPT ![i].store[part] = {content}, ![i].at = suNow,
                                 ![i].landed = @ \cup {part}]

putStagedFile(c, part) ==
  LET me == suC[c]
      last == part = "sig" \/ ~me.signed
  IN /\ me.pc = (IF part = "pkg" THEN "put" ELSE "putsig") /\ Lives(me.id)
     /\ Put(me.id, part, c)
     /\ Uploader(c, [me EXCEPT !.pc = IF last THEN "commit" ELSE "putsig"])
     /\ UNCHANGED <<suStaging, suNow, suH, suPublished, suLosses>>

\* A put that was given up lands later, with the client's bytes or with those
\* of someone else who holds the URL.
LatePut(i, part, content) ==
  /\ suLosses < MaxLoss /\ suLosses' = suLosses + 1
  /\ content \in {Junk, suIntents[i].by} /\ Lives(i) /\ Put(i, part, content)
  /\ UNCHANGED <<suStaging, suNow, suC, suH, suPublished>>

(***************************************************************************)
(* The server: presign and the collection it does on the way out           *)
(***************************************************************************)
ExpiredSince(cutoff) ==
  {i \in DOMAIN suIntents :
     /\ \E x \in Parts : suIntents[i].store[x] # {}
     /\ suNow - suIntents[i].at >= cutoff}

ExpiredWithTheURL == ExpiredSince(StagedTTL)

\* ListStagedIntents under the cutoff.
Expired == ExpiredSince(GCCutoff)

PresignUpload(c, h, signed) ==
  /\ suStaging /\ suC[c].pc = "presign" /\ suH[h].pc = "idle"
  /\ Len(suIntents) < MaxIntents
  /\ suIntents' = Append(suIntents, [by |-> c, granted |-> suNow, at |-> suNow,
                                     store |-> [x \in Parts |-> {}],
                                     landed |-> {}, gone |-> FALSE])
  /\ Handler(h, [HandlerIdle EXCEPT !.pc = "gc", !.by = c, !.id = Len(suIntents) + 1,
                                    !.expired = Expired])
  /\ Uploader(c, [suC[c] EXCEPT !.pc = "sent", !.id = NoIntent, !.signed = signed])
  /\ UNCHANGED <<suStaging, suNow, suPublished, suLosses>>

\* DeleteStaged: a failure is logged, the intent stays for the next collection.
Cleared(i) == [suIntents EXCEPT ![i].store = [x \in Parts |-> {}]]

gcStagedUploads(h, i, fails) ==
  /\ suH[h].pc = "gc" /\ i \in suH[h].expired
  /\ suIntents' = IF fails THEN suIntents ELSE Cleared(i)
  /\ Handler(h, [suH[h] EXCEPT !.expired = @ \ {i}])
  /\ UNCHANGED <<suStaging, suNow, suC, suPublished, suLosses>>

Granted(h) ==
  LET c == suH[h].by
  IN /\ suH[h].pc = "gc" /\ suH[h].expired = {}
     /\ Handler(h, HandlerIdle)
     /\ IF Answered(h) THEN Uploader(c, [suC[c] EXCEPT !.pc = "put", !.id = suH[h].id])
        ELSE UNCHANGED suC
     /\ UNCHANGED <<suStaging, suNow, suIntents, suPublished, suLosses>>

(***************************************************************************)
(* The server: commit                                                      *)
(***************************************************************************)
CommitUpload(c, h) ==
  /\ suC[c].pc = "commit" /\ suH[h].pc = "idle"
  /\ Handler(h, [HandlerIdle EXCEPT !.pc = "fetch", !.by = c, !.id = suC[c].id,
                                    !.pkg = Head(suC[c].todo), !.signed = suC[c].signed])
  /\ Uploader(c, [suC[c] EXCEPT !.pc = "sent"])
  /\ UNCHANGED <<suStaging, suNow, suIntents, suPublished, suLosses>>

\* The answer to the client of h, if it still waits for it.
Refuse(h) ==
  LET c == suH[h].by
  IN /\ Handler(h, HandlerIdle)
     /\ IF Answered(h) THEN Uploader(c, [UploaderIdle EXCEPT !.acked = suC[c].acked])
        ELSE UNCHANGED suC

\* spoolStagedFile: the package first, then the signature.
spoolStagedFile(h) ==
  LET me == suH[h]
      part == IF me.copy["pkg"] = {} THEN "pkg" ELSE "sig"
      staged == suIntents[me.id].store[part]
      done == part = "sig" \/ ~me.signed
  IN /\ me.pc = "fetch"
     /\ IF staged = {} THEN Refuse(h)
        ELSE /\ Handler(h, [me EXCEPT !.copy[part] = staged,
                                      !.pc = IF done THEN "publish" ELSE "fetch"])
             /\ UNCHANGED suC
     /\ UNCHANGED <<suStaging, suNow, suIntents, suPublished, suLosses>>

\* What UploadFiles publishes: a readable package whose signature, if any, verifies.
ValidPair(copy) == Junk \notin copy["pkg"] /\ copy["sig"] \in {{}, copy["pkg"]}

SpooledCopy(h) == suH[h].copy

StagedAgain(h) == suIntents[suH[h].id].store

PublishedBytes(h) == SpooledCopy(h)

GateOpen(p) == TRUE

\* The version gate: nothing is published of this version yet.
VersionGate(p) == suPublished[p] = {}

\* resolveRepositoryState and storeObjects: what is published of this version
\* already stays as it is, and the upload is a success all the same.
Stored(p, pair) == suPublished' = IF VersionGate(p) THEN [suPublished EXCEPT ![p] = {pair}] ELSE suPublished
How(p) == IF VersionGate(p) THEN "stored" ELSE "there"

PublishStaged(h) ==
  LET me == suH[h]
  IN /\ me.pc = "publish"
     /\ IF ValidPair(me.copy)
        THEN /\ Stored(me.pkg, PublishedBytes(h))
             /\ Handler(h, [me EXCEPT !.pc = "delete", !.how = How(me.pkg)]) /\ UNCHANGED suC
        ELSE Refuse(h) /\ UNCHANGED suPublished
     /\ UNCHANGED <<suStaging, suNow, suIntents, suLosses>>

Acknowledge(r, how) == [r EXCEPT !.pc = "next", !.todo = Tail(r.todo),
                                 !.acked = @ \cup {[pkg |-> Head(r.todo), how |-> how]}]

Committed(h, fails) ==
  LET me == suH[h]
  IN /\ me.pc = "delete"
     /\ suIntents' = [(IF fails THEN suIntents ELSE Cleared(me.id)) EXCEPT ![me.id].gone = TRUE]
     /\ Handler(h, HandlerIdle)
     /\ IF Answered(h) THEN Uploader(me.by, Acknowledge(suC[me.by], me.how)) ELSE UNCHANGED suC
     /\ UNCHANGED <<suStaging, suNow, suPublished, suLosses>>

\* uploadMultipart: one request, whose package is published as a whole.
uploadMultipart(c) ==
  LET p == Head(suC[c].todo)
  IN /\ suC[c].pc = "multipart"
     /\ Stored(p, [x \in Parts |-> {c}])
     /\ Uploader(c, Acknowledge(suC[c], How(p)))
     /\ UNCHANGED <<suStaging, suNow, suIntents, suH, suLosses>>

\* The server dies under a request and starts again.
HandlerDies(h) ==
  /\ suH[h].pc # "idle" /\ suLosses < MaxLoss /\ suLosses' = suLosses + 1
  /\ Refuse(h)
  /\ UNCHANGED <<suStaging, suNow, suIntents, suPublished>>

SUNext ==
  \/ StagedTick
  \/ \E c \in Uploaders :
       \/ \E b \in Batches : BeginUpload(c, b)
       \/ NextPackage(c) \/ FallBack(c) \/ UploadStops(c) \/ uploadMultipart(c)
       \/ \E part \in Parts : putStagedFile(c, part)
       \/ \E h \in Handlers : CommitUpload(c, h)
       \/ \E h \in Handlers, signed \in BOOLEAN : PresignUpload(c, h, signed)
  \/ \E i \in DOMAIN suIntents, part \in Parts, d \in Uploaders \cup {Junk} : LatePut(i, part, d)
  \/ \E h \in Handlers :
       \/ \E i \in DOMAIN suIntents, f \in BOOLEAN : gcStagedUploads(h, i, f)
       \/ Granted(h) \/ spoolStagedFile(h) \/ PublishStaged(h) \/ HandlerDies(h)
       \/ \E f \in BOOLEAN : Committed(h, f)

SUSpec == SUInit /\ [][SUNext]_suVars

(***************************************************************************)
(* What staging must not break                                             *)
(***************************************************************************)

\* What is published was validated, although anybody with the URL can replace
\* a staged file between the server's look at it and the publication.
PublishedWasValidated ==
  \A p \in StagedPkgs : \A pair \in suPublished[p] : pair["pkg"] # {} /\ ValidPair(pair)

\* A package acknowledged to a client is published: with that client's bytes if
\* the server stored them, else with those of whoever published the version
\* first.  Other clients, retries of a commit whose answer was lost and late
\* puts do not replace it ("the first stored artifact stays authoritative").
AckedIsPublished ==
  \A c \in Uploaders : \A a \in suC[c].acked :
    \E pair \in suPublished[a.pkg] : a.how = "stored" => pair["pkg"] = {c}

\* A put file of an uncommitted intent is there for the commit as long as the
\* intent is younger than the collection's cutoff: "gc can never reclaim an
\* in-flight upload".
InFlightIsKept ==
  \A i \in DOMAIN suIntents :
    (~suIntents[i].gone /\ suNow - suIntents[i].granted < GCCutoff)
      => \A x \in suIntents[i].landed : suIntents[i].store[x] # {}

\* Staging, as a whole: what is published is what was validated, what was reported is
\* published, and what is under way is not collected.
StagingHolds == PublishedWasValidated /\ AckedIsPublished /\ InFlightIsKept
=============================================================================
