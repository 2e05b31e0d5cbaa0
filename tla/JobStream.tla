----------------------------- MODULE JobStream -----------------------------
(***************************************************************************)
(* One job of miko as its clients see it: the live log buffer the worker   *)
(* writes and any number of readers tail, its end (unregistered, closed,   *)
(* copied into the job record), and a client that waits for the job,       *)
(* fetches what it built and hands it on, ayaka to sign and upload it or   *)
(* thoma to place it where makepkg would have.                             *)
(*                                                                         *)
(* A log is a sequence of "c" (a character), "n" (a newline) and "m" (a    *)
(* byte of the truncation marker).                                         *)
(***************************************************************************)
EXTENDS Naturals, Sequences, SequencesExt, FiniteSets

CONSTANTS LogReaders, MaxLogReaders, LogCap, MarkerLen, MaxWrites,
          BuildClients, ClientModes, BuiltNames, WantedNames, MaxStreamFaults

ASSUME JobStreamAssumption ==
  /\ LogCap \in Nat /\ MarkerLen \in Nat /\ MarkerLen <= LogCap
  /\ MaxLogReaders \in Nat /\ IsFiniteSet(LogReaders)

VARIABLES jsBuf,       \* [bytes, closed, truncated]
          jsLive,      \* the buffer is registered
          jsJob,       \* [status, logs], status "gone" once evicted
          jsWorker,    \* "run", "unmap", "close", "copy" or "done"
          jsWrites,
          jsR,         \* reader -> [pc, snap, offset, seen, got]
          jsCount,     \* logReaders of the job
          jsC,         \* client -> [pc, mode, streamed, todo, at]
          jsHanded,    \* client -> names uploaded or placed
          jsFaults

jsVars == <<jsBuf, jsLive, jsJob, jsWorker, jsWrites, jsR, jsCount, jsC, jsHanded, jsFaults>>
jsServer == <<jsBuf, jsLive, jsJob, jsWorker, jsWrites>>
jsClients == <<jsC, jsHanded>>

Terminal == {"success", "failed", "cancelled"}
ReaderIdle == [pc |-> "idle", snap |-> <<>>, offset |-> 0, seen |-> 0, got |-> <<>>]
ClientStart == [pc |-> "idle", mode |-> "sign", streamed |-> FALSE, todo |-> {}, at |-> ""]

JSInit ==
  /\ jsBuf = [bytes |-> <<>>, closed |-> FALSE, truncated |-> FALSE]
  /\ jsLive = TRUE /\ jsJob = [status |-> "queued", logs |-> <<>>]
  /\ jsWorker = "run" /\ jsWrites = 0 /\ jsFaults = 0
  /\ jsR = [r \in LogReaders |-> ReaderIdle] /\ jsCount = 0
  /\ jsC = [c \in BuildClients |-> ClientStart]
  /\ jsHanded = [c \in BuildClients |-> {}]

(***************************************************************************)
(* The worker and the log buffer                                           *)
(***************************************************************************)
Marker == [i \in 1..MarkerLen |-> "m"]

\* Deviation: the marker is written past the cap.
AppendedPast(b, p) ==
  IF b.closed \/ b.truncated THEN b
  ELSE IF Len(p) <= LogCap - Len(b.bytes) THEN [b EXCEPT !.bytes = @ \o p]
  ELSE [b EXCEPT !.bytes = @ \o SubSeq(p, 1, LogCap - Len(@)) \o Marker, !.truncated = TRUE]

\* Buffer.Write: what fits before the room kept for the marker, then the marker.
Appended(b, p) ==
  LET room == LogCap - MarkerLen - Len(b.bytes)
  IN IF b.closed \/ b.truncated THEN b
     ELSE IF Len(p) <= room THEN [b EXCEPT !.bytes = @ \o p]
     ELSE [b EXCEPT !.bytes = @ \o SubSeq(p, 1, room) \o Marker, !.truncated = TRUE]

WriteLog(p) ==
  /\ jsJob.status = "running" /\ jsWrites < MaxWrites /\ jsWrites' = jsWrites + 1
  /\ jsBuf' = Appended(jsBuf, p)
  /\ UNCHANGED <<jsLive, jsJob, jsWorker, jsR, jsCount, jsClients, jsFaults>>

StartJob ==
  /\ jsJob.status = "queued" /\ jsJob' = [jsJob EXCEPT !.status = "running"]
  /\ UNCHANGED <<jsBuf, jsLive, jsWorker, jsWrites, jsR, jsCount, jsClients, jsFaults>>

\* The status is final before the log is finalized.
EndJob(s) ==
  /\ jsJob.status = "running" \/ (jsJob.status = "queued" /\ s = "cancelled")
  /\ jsJob' = [jsJob EXCEPT !.status = s] /\ jsWorker' = "unmap"
  /\ UNCHANGED <<jsBuf, jsLive, jsWrites, jsR, jsCount, jsClients, jsFaults>>

\* finalizeLog in its three steps.
FinalizeLog ==
  /\ \/ /\ jsWorker = "unmap" /\ jsWorker' = "close" /\ jsLive' = FALSE
        /\ UNCHANGED <<jsBuf, jsJob>>
     \/ /\ jsWorker = "close" /\ jsWorker' = "copy" /\ jsBuf' = [jsBuf EXCEPT !.closed = TRUE]
        /\ UNCHANGED <<jsLive, jsJob>>
     \/ /\ jsWorker = "copy" /\ jsWorker' = "done"
        /\ jsJob' = IF jsJob.status = "gone" THEN jsJob ELSE [jsJob EXCEPT !.logs = jsBuf.bytes]
        /\ UNCHANGED <<jsBuf, jsLive>>
  /\ UNCHANGED <<jsWrites, jsR, jsCount, jsClients, jsFaults>>

\* The job is evicted, its artifacts with it.
EvictJob ==
  /\ jsJob.status \in Terminal /\ jsFaults < MaxStreamFaults /\ jsFaults' = jsFaults + 1
  /\ jsJob' = [jsJob EXCEPT !.status = "gone"]
  /\ UNCHANGED <<jsBuf, jsLive, jsWorker, jsWrites, jsR, jsCount, jsClients>>

(***************************************************************************)
(* JobLogsHandler                                                          *)
(***************************************************************************)
Reader(r, s) == jsR' = [jsR EXCEPT ![r] = s]

ReadStatus(r) ==
  /\ jsR[r].pc = "idle"
  /\ Reader(r, [ReaderIdle EXCEPT !.pc = IF jsJob.status = "gone" THEN "refused" ELSE "count",
                                  !.snap = jsJob.logs])
  /\ UNCHANGED <<jsServer, jsCount, jsClients, jsFaults>>

CountReader(r) ==
  /\ jsR[r].pc = "count"
  /\ IF jsCount >= MaxLogReaders THEN Reader(r, [jsR[r] EXCEPT !.pc = "refused"]) /\ UNCHANGED jsCount
     ELSE Reader(r, [jsR[r] EXCEPT !.pc = "open"]) /\ jsCount' = jsCount + 1
  /\ UNCHANGED <<jsServer, jsClients, jsFaults>>

\* The live buffer, or the text of the record read before.
OpenLog(r) ==
  /\ jsR[r].pc = "open"
  /\ IF jsLive THEN Reader(r, [jsR[r] EXCEPT !.pc = "tail"]) /\ UNCHANGED jsCount
     ELSE Reader(r, [jsR[r] EXCEPT !.pc = "replayed", !.got = jsR[r].snap]) /\ jsCount' = jsCount - 1
  /\ UNCHANGED <<jsServer, jsClients, jsFaults>>

\* Deviation: closed is looked up after the bytes.
BytesThenClosed(r) == [data |-> SubSeq(jsBuf.bytes, jsR[r].offset + 1, jsR[r].seen), closed |-> jsBuf.closed]

\* BytesFrom: the bytes from the offset on, and closed, read together.
BytesFrom(r) == [data |-> SubSeq(jsBuf.bytes, jsR[r].offset + 1, Len(jsBuf.bytes)), closed |-> jsBuf.closed]

\* Whole lines only, everything once the buffer is closed.
WholeLines(d) ==
  IF d.closed THEN d.data
  ELSE LET ends == {i \in DOMAIN d.data : d.data[i] = "n"}
       IN SubSeq(d.data, 1, IF ends = {} THEN 0 ELSE CHOOSE i \in ends : \A j \in ends : j <= i)

Emit(r) ==
  LET d == BytesFrom(r)
      out == WholeLines(d)
  IN /\ jsR[r].pc = "tail"
     /\ Reader(r, [jsR[r] EXCEPT !.got = @ \o out, !.offset = @ + Len(out), !.seen = Len(jsBuf.bytes),
                                 !.pc = IF d.closed THEN "ended" ELSE "tail"])
     /\ jsCount' = IF d.closed THEN jsCount - 1 ELSE jsCount
     /\ UNCHANGED <<jsServer, jsClients, jsFaults>>

\* Deviation: the early return forgets the count.
DisconnectLeaks(r) ==
  /\ jsR[r].pc = "tail" /\ jsFaults < MaxStreamFaults /\ jsFaults' = jsFaults + 1
  /\ Reader(r, [jsR[r] EXCEPT !.pc = "cut"])
  /\ UNCHANGED <<jsServer, jsCount, jsClients>>

\* The reader disconnects, or a flush misses its deadline.
Disconnect(r) ==
  /\ jsR[r].pc = "tail" /\ jsFaults < MaxStreamFaults /\ jsFaults' = jsFaults + 1
  /\ Reader(r, [jsR[r] EXCEPT !.pc = "cut"]) /\ jsCount' = jsCount - 1
  /\ UNCHANGED <<jsServer, jsClients>>

(***************************************************************************)
(* The client                                                              *)
(***************************************************************************)
BuildClient(c, s) == jsC' = [jsC EXCEPT ![c] = s]

SubmitBuild(c, mode) ==
  /\ jsC[c].pc = "idle" /\ BuildClient(c, [ClientStart EXCEPT !.pc = "wait", !.mode = mode])
  /\ UNCHANGED <<jsServer, jsR, jsCount, jsHanded, jsFaults>>

\* What each client fetches: every artifact that is no signature, or a built
\* package for every name makepkg announces.
Fetches(mode) == IF mode = "sign" THEN BuiltNames ELSE WantedNames

\* Deviation: any final status is good enough.
GoodForAny(s) == s \in Terminal

GoodFor(s) == s = "success"

\* WaitJob, one look at the job, and what follows from it.
PollJob(c) ==
  LET me == jsC[c]
      s == jsJob.status
  IN /\ me.pc = "wait"
     /\ CASE s = "gone" -> BuildClient(c, [me EXCEPT !.pc = "failed"])
          [] s \in Terminal ->
               BuildClient(c, IF GoodFor(s) /\ Fetches(me.mode) # {}
                              THEN [me EXCEPT !.pc = "fetch", !.todo = Fetches(me.mode)]
                              ELSE [me EXCEPT !.pc = "failed"])
          [] s = "running" -> BuildClient(c, [me EXCEPT !.streamed = TRUE])
          [] OTHER -> UNCHANGED jsC
     /\ UNCHANGED <<jsServer, jsR, jsCount, jsHanded, jsFaults>>

\* The wait ends with its deadline.
WaitEnds(c) ==
  /\ jsC[c].pc = "wait" /\ jsFaults < MaxStreamFaults /\ jsFaults' = jsFaults + 1
  /\ BuildClient(c, [jsC[c] EXCEPT !.pc = "failed"])
  /\ UNCHANGED <<jsServer, jsR, jsCount, jsHanded>>

\* GetArtifactHandler serves what the job keeps; a published package is
\* fetched from the repository, which outlives the job.
ArtifactThere(mode, n) == n \in BuiltNames /\ (mode = "repo" \/ jsJob.status # "gone")

\* DownloadArtifact: all of it arrives, or the client stops.
Download(c, n) ==
  LET me == jsC[c]
  IN /\ me.pc = "fetch" /\ n \in me.todo
     /\ BuildClient(c, IF ArtifactThere(me.mode, n) THEN [me EXCEPT !.pc = "hand", !.at = n]
                       ELSE [me EXCEPT !.pc = "failed"])
     /\ UNCHANGED <<jsServer, jsR, jsCount, jsHanded, jsFaults>>

HandOn(c) ==
  LET me == jsC[c]
      rest == me.todo \ {me.at}
  IN /\ me.pc = "hand"
     /\ jsHanded' = [jsHanded EXCEPT ![c] = @ \cup {me.at}]
     /\ BuildClient(c, [me EXCEPT !.todo = rest, !.pc = IF rest = {} THEN "done" ELSE "fetch"])
     /\ UNCHANGED <<jsServer, jsR, jsCount, jsFaults>>

\* RunRemoteBuildLocalSign: signed here and uploaded, one package after the other.
SignAndUpload(c) == jsC[c].mode = "sign" /\ HandOn(c)

\* placePackages: in one rename at the path makepkg announced.
PlacePackage(c) == jsC[c].mode # "sign" /\ HandOn(c)

\* The transfer breaks, or the signature or the upload fails.
TransferFails(c) ==
  /\ jsC[c].pc \in {"fetch", "hand"} /\ jsFaults < MaxStreamFaults /\ jsFaults' = jsFaults + 1
  /\ BuildClient(c, [jsC[c] EXCEPT !.pc = "failed"])
  /\ UNCHANGED <<jsServer, jsR, jsCount, jsHanded>>

JSNext ==
  \/ StartJob \/ FinalizeLog \/ EvictJob
  \/ \E p \in {<<"c">>, <<"n">>, <<"c", "n", "c">>} : WriteLog(p)
  \/ \E s \in Terminal : EndJob(s)
  \/ \E r \in LogReaders : ReadStatus(r) \/ CountReader(r) \/ OpenLog(r) \/ Emit(r) \/ Disconnect(r)
  \/ \E c \in BuildClients :
       \/ \E m \in ClientModes : SubmitBuild(c, m)
       \/ \E n \in WantedNames \cup BuiltNames : Download(c, n)
       \/ PollJob(c) \/ WaitEnds(c) \/ SignAndUpload(c) \/ PlacePackage(c) \/ TransferFails(c)

JSSpec == JSInit /\ [][JSNext]_jsVars

(***************************************************************************)
(* What streaming and waiting must not break                               *)
(***************************************************************************)

\* A reader of the live buffer has every byte once and in order, cut only at
\* line ends while the job runs, and when its stream ends by itself it has the
\* whole log, the last write before the close included.
StreamIsWhole ==
  \A r \in LogReaders :
    /\ jsR[r].pc \in {"tail", "cut"} =>
         IsPrefix(jsR[r].got, jsBuf.bytes) /\ (jsR[r].got # <<>> => Last(jsR[r].got) = "n")
    /\ jsR[r].pc = "ended" => jsR[r].got = jsBuf.bytes

\* The log stays within its cap, and the truncation marker is at its very end and
\* only in a log that was truncated.
LogWithinCap ==
  /\ Len(jsBuf.bytes) <= LogCap
  /\ jsBuf.truncated => SubSeq(jsBuf.bytes, Len(jsBuf.bytes) - MarkerLen + 1, Len(jsBuf.bytes)) = Marker
  /\ \A i \in DOMAIN jsBuf.bytes : jsBuf.bytes[i] = "m" => jsBuf.truncated

\* The count of readers is exactly the streams that are open, within the
\* limit: a leaked count would lock everybody out of the log.
ReadersAreCounted ==
  /\ jsCount = Cardinality({r \in LogReaders : jsR[r].pc \in {"open", "tail"}})
  /\ jsCount <= MaxLogReaders

\* A client hands on nothing but what a successful job built, and reports
\* success only when it handed on all of it, although the job can fail, be
\* cancelled or be evicted at any moment of the wait.
HandedWasBuilt ==
  \A c \in BuildClients :
    /\ jsHanded[c] \subseteq BuiltNames
    /\ jsHanded[c] # {} => jsJob.status \in {"success", "gone"}
    /\ jsC[c].pc = "done" => jsHanded[c] = Fetches(jsC[c].mode)

\* What a comment says and the code does not keep (README, section 6), so no run has it.
\* "Falling back to accumulated text when there is none": whoever finds no live
\* buffer is sent the whole log.
FallbackIsWhole == \A r \in LogReaders : jsR[r].pc = "replayed" => jsR[r].got = jsBuf.bytes

\* A job's clients, as a whole: streams are whole and bounded, readers are counted, and
\* only what a successful job built is handed on.
StreamHolds == StreamIsWhole /\ LogWithinCap /\ ReadersAreCounted /\ HandedWasBuilt
=============================================================================
